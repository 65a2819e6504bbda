------------------------------ MODULE StartupProofs ------------------------------
(***************************************************************************)
(* Proofs about Startup: migrations take effect once, in order and         *)
(* together with their record, and nobody serves without them, for every   *)
(* number of processes, releases, migrations, failures and deaths.         *)
(***************************************************************************)
EXTENDS Startup, TLAPS

(* The lock serializes everything between Table and Unlock.                *)
OneMigrates == \A p \in Processes : pc[p] \in Locked => holder = p

(* A transaction holds exactly the statements that its process is past.    *)
Uncommitted ==
  \A p \in Processes : /\ changed[p]  <=> pc[p] \in {"record", "commit"}
                       /\ inserted[p] <=> pc[p] = "commit"

(* The loop has left no migration out ...                                  *)
Passed ==
  \A p \in Processes :
    pc[p] \in {"check", "body", "record", "commit"} => 1..(entry[p] - 1) \subseteq recorded

(* ... and runs one only if its binary has it and nobody recorded it.      *)
AtHand ==
  \A p \in Processes :
    pc[p] \in {"body", "record", "commit"} =>
      entry[p] <= Known[p] /\ entry[p] \notin recorded

IInv == /\ TypeOK /\ OneMigrates /\ Uncommitted /\ Passed /\ AtHand
        /\ AppliedAsRecorded /\ NoGaps /\ ServesOnItsSchema

(* Steps that leave the tables alone and run no statement of a             *)
(* transaction: the process goes on, starts over or gives up.              *)
Quiet(p) ==
  \/ Boot(p) \/ Lock(p) \/ Table(p) \/ Check(p) \/ Exit(p) \/ Unlock(p)
  \/ Serve(p) \/ Stop(p) \/ Stopped(p)

(* Steps in which a transaction comes to nothing.                          *)
Lost(p) == Fail(p) \/ Die(p)

(* Steps in which it takes effect.                                         *)
Committed(p) == Commit(p) \/ CommitUnanswered(p)

(* The initial states: nobody runs, and the schema is that of a release.   *)
LEMMA InitEstablishes == Init => IInv
<1> SUFFICES ASSUME Init PROVE IInv
  OBVIOUS
<1> USE StartupAssumption, NobodyAssumption DEF Init, Versions
<1>1. PICK n \in 0..Last : recorded = 1..n
  OBVIOUS
<1>2. TypeOK
  BY <1>1 DEF TypeOK, Locations
<1>3. OneMigrates /\ Uncommitted /\ Passed /\ AtHand
  BY DEF OneMigrates, Locked, Uncommitted, Passed, AtHand
<1>4. AppliedAsRecorded /\ NoGaps
  BY <1>1 DEF AppliedAsRecorded, NoGaps
<1>5. ServesOnItsSchema
  BY DEF ServesOnItsSchema
<1> QED BY <1>2, <1>3, <1>4, <1>5 DEF IInv

(* Types, whatever the step.                                               *)
LEMMA TypePreserved ==
  ASSUME IInv, [Next]_vars
  PROVE  TypeOK'
<1> USE StartupAssumption, NobodyAssumption
    DEF IInv, TypeOK, Locations, Goto, schema, transaction, Versions
<1>1. CASE UNCHANGED vars
  BY <1>1 DEF vars
<1>2. ASSUME NEW p \in Processes, Quiet(p) PROVE TypeOK'
  <2>1. CASE Check(p)
    <3>1. Known[p] \in 1..Last /\ entry[p] \in 1..(Last + 1)
      OBVIOUS
    <3>2. ~(entry[p] > Known[p]) => entry[p] + 1 \in 1..(Last + 1)
      BY <3>1
    <3>3. \/ entry' = entry
          \/ ~(entry[p] > Known[p]) /\ entry' = [entry EXCEPT ![p] = entry[p] + 1]
      BY <2>1 DEF Check
    <3>4. entry' \in [Processes -> 1..(Last + 1)]
      BY <3>2, <3>3
    <3>5. pc' \in [Processes -> Locations]
      BY <2>1 DEF Check
    <3> QED BY <2>1, <3>4, <3>5 DEF Check
  <2>2. CASE Table(p)
    BY <2>2 DEF Table
  <2> QED
    BY <1>2, <2>1, <2>2 DEF Quiet, Boot, Lock, Exit, Unlock, Serve, Stop, Stopped
<1>3. ASSUME NEW p \in Processes, Body(p) \/ Record(p) PROVE TypeOK'
  BY <1>3 DEF Body, Record
<1>4. ASSUME NEW p \in Processes, Committed(p) PROVE TypeOK'
  <2>1. pc[p] = "commit" /\ TakeEffect(p)
    BY <1>4 DEF Committed, Commit, CommitUnanswered
  <2>2. entry[p] \in 1..Last /\ entry[p] + 1 \in 1..(Last + 1)
    BY <2>1 DEF AtHand
  <2>3. /\ applied' \in [Versions -> Nat] /\ recorded' \subseteq Versions
        /\ changed' \in [Processes -> BOOLEAN] /\ inserted' \in [Processes -> BOOLEAN]
    <3>1. applied[entry[p]] \in Nat /\ applied[entry[p]] + 1 \in Nat
      BY <2>2
    <3>2. applied' \in [Versions -> Nat]
      BY <2>1, <3>1 DEF TakeEffect
    <3>3. recorded' \subseteq Versions
      BY <2>1, <2>2 DEF TakeEffect
    <3>4. changed' \in [Processes -> BOOLEAN] /\ inserted' \in [Processes -> BOOLEAN]
      BY <2>1 DEF TakeEffect
    <3> QED BY <3>2, <3>3, <3>4
  <2>4. entry' \in [Processes -> 1..(Last + 1)]
    BY <1>4, <2>2 DEF Committed, Commit, CommitUnanswered
  <2>5. pc' \in [Processes -> Locations] /\ holder' = holder
    BY <1>4 DEF Committed, Commit, CommitUnanswered
  <2>6. failures' \in 0..MaxFailures
    BY <1>4 DEF Committed, Commit, CommitUnanswered
  <2> QED BY <2>3, <2>4, <2>5, <2>6
<1>5. ASSUME NEW p \in Processes, Lost(p) PROVE TypeOK'
  <2>1. failures' \in 0..MaxFailures
    BY <1>5 DEF Lost, Fail, Die
  <2>2. changed' \in [Processes -> BOOLEAN] /\ inserted' \in [Processes -> BOOLEAN]
    BY <1>5 DEF Lost, Fail, Die, RollBack
  <2>3. pc' \in [Processes -> Locations] /\ holder' \in Processes \cup {Nobody}
    BY <1>5 DEF Lost, Fail, Die
  <2> QED
    BY <1>5, <2>1, <2>2, <2>3 DEF Lost, Fail, Die
<1> QED
  BY <1>1, <1>2, <1>3, <1>4, <1>5 DEF Next, Proceed, Quiet, Committed, Lost

(* The lock and the transactions, whatever the step: only the holder moves *)
(* within Locked, so that a commit cannot overtake another process's loop. *)
LEMMA LockPreserved ==
  ASSUME IInv, [Next]_vars
  PROVE  OneMigrates' /\ Uncommitted'
<1> USE NobodyAssumption
    DEF IInv, TypeOK, OneMigrates, Uncommitted, Locked, Goto, schema, transaction
<1>1. CASE UNCHANGED vars
  BY <1>1 DEF vars
<1>2. ASSUME NEW p \in Processes, Quiet(p) PROVE OneMigrates' /\ Uncommitted'
  BY <1>2 DEF Quiet, Boot, Lock, Table, Check, Exit, Unlock, Serve, Stop, Stopped
<1>3. ASSUME NEW p \in Processes, Body(p) \/ Record(p) PROVE OneMigrates' /\ Uncommitted'
  BY <1>3 DEF Body, Record
<1>4. ASSUME NEW p \in Processes, Committed(p) PROVE OneMigrates' /\ Uncommitted'
  BY <1>4 DEF Committed, Commit, CommitUnanswered, TakeEffect
<1>5. ASSUME NEW p \in Processes, Lost(p) PROVE OneMigrates' /\ Uncommitted'
  BY <1>5 DEF Lost, Fail, Die, RollBack
<1> QED
  BY <1>1, <1>2, <1>3, <1>4, <1>5 DEF Next, Proceed, Quiet, Committed, Lost

(* Every step but a commit leaves the schema as it is; a commit adds the   *)
(* one migration its process is at, which nobody has recorded, and counts  *)
(* its body once.                                                          *)
LEMMA SchemaSteps ==
  ASSUME IInv, [Next]_vars
  PROVE  \/ UNCHANGED schema
         \/ \E p \in Processes :
              /\ pc[p] = "commit" /\ Committed(p)
              /\ entry[p] \in Versions /\ entry[p] \notin recorded
              /\ recorded' = recorded \cup {entry[p]}
              /\ applied' = [applied EXCEPT ![entry[p]] = @ + 1]
<1>1. CASE UNCHANGED vars
  BY <1>1 DEF vars, schema
<1>2. ASSUME NEW p \in Processes, Quiet(p) \/ Body(p) \/ Record(p) \/ Lost(p)
      PROVE  UNCHANGED schema
  BY <1>2 DEF Quiet, Boot, Lock, Table, Check, Exit, Unlock, Serve, Stop, Stopped,
              Body, Record, Lost, Fail, Die, schema
<1>3. ASSUME NEW p \in Processes, Committed(p)
      PROVE  /\ pc[p] = "commit"
             /\ entry[p] \in Versions /\ entry[p] \notin recorded
             /\ recorded' = recorded \cup {entry[p]}
             /\ applied' = [applied EXCEPT ![entry[p]] = @ + 1]
  <2>1. pc[p] = "commit" /\ TakeEffect(p)
    BY <1>3 DEF Committed, Commit, CommitUnanswered
  <2>2. changed[p] /\ inserted[p] /\ entry[p] <= Known[p] /\ entry[p] \notin recorded
    BY <2>1 DEF IInv, Uncommitted, AtHand
  <2>3. entry[p] \in Versions
    BY <2>2, StartupAssumption DEF IInv, TypeOK, Versions
  <2> QED
    BY <2>1, <2>2, <2>3 DEF TakeEffect
<1> QED
  BY <1>1, <1>2, <1>3 DEF Next, Proceed, Quiet, Committed, Lost

(* A loop's own steps keep what it knows of the tables, and nobody else    *)
(* commits while it runs.                                                  *)
LEMMA LoopPreserved ==
  ASSUME IInv, [Next]_vars
  PROVE  Passed' /\ AtHand'
<1> USE DEF IInv, TypeOK, Passed, AtHand, Goto, schema, transaction
<1>1. CASE UNCHANGED vars
  BY <1>1 DEF vars
<1>2. ASSUME NEW p \in Processes, Quiet(p) PROVE Passed' /\ AtHand'
  <2>1. CASE Table(p)
    BY <2>1 DEF Table
  <2>2. CASE Check(p)
    <3>1. /\ Known[p] \in Int /\ entry[p] \in 1..(Last + 1)
          /\ 1..(entry[p] - 1) \subseteq recorded
      BY <2>2, StartupAssumption DEF Check
    <3>2. entry[p] \in recorded => 1..((entry[p] + 1) - 1) \subseteq recorded
      BY <3>1
    <3> QED
      BY <2>2, <3>1, <3>2 DEF Check
  <2> QED
    BY <1>2, <2>1, <2>2 DEF Quiet, Boot, Lock, Exit, Unlock, Serve, Stop, Stopped
<1>3. ASSUME NEW p \in Processes, Body(p) \/ Record(p) PROVE Passed' /\ AtHand'
  BY <1>3 DEF Body, Record
<1>4. ASSUME NEW p \in Processes, Committed(p) PROVE Passed' /\ AtHand'
  <2>1. /\ pc[p] = "commit" /\ TakeEffect(p)
        /\ \A q \in Processes \ {p} : pc[q] \notin {"check", "body", "record", "commit"}
    BY <1>4 DEF Committed, Commit, CommitUnanswered, OneMigrates, Locked
  <2>2. /\ entry[p] \in 1..(Last + 1) /\ 1..(entry[p] - 1) \subseteq recorded
        /\ recorded' = recorded \cup {entry[p]}
    BY <2>1 DEF TakeEffect, Uncommitted
  <2>3. 1..((entry[p] + 1) - 1) \subseteq recorded'
    BY <2>2, StartupAssumption
  <2> QED
    BY <1>4, <2>1, <2>3 DEF Committed, Commit, CommitUnanswered
<1>5. ASSUME NEW p \in Processes, Lost(p) PROVE Passed' /\ AtHand'
  BY <1>5 DEF Lost, Fail, Die
<1> QED
  BY <1>1, <1>2, <1>3, <1>4, <1>5 DEF Next, Proceed, Quiet, Committed, Lost

(* The properties themselves.                                              *)
LEMMA SchemaPreserved ==
  ASSUME IInv, [Next]_vars
  PROVE  AppliedAsRecorded' /\ NoGaps' /\ ServesOnItsSchema'
<1>1. AppliedAsRecorded'
  <2>1. CASE UNCHANGED schema
    BY <2>1 DEF IInv, AppliedAsRecorded, schema
  <2>2. ASSUME NEW p \in Processes, entry[p] \in Versions, entry[p] \notin recorded,
               recorded' = recorded \cup {entry[p]},
               applied' = [applied EXCEPT ![entry[p]] = @ + 1]
        PROVE  AppliedAsRecorded'
    BY <2>2 DEF IInv, TypeOK, AppliedAsRecorded
  <2> QED BY <2>1, <2>2, SchemaSteps
<1>2. NoGaps'
  <2>1. CASE UNCHANGED schema
    BY <2>1 DEF IInv, NoGaps, schema
  <2>2. ASSUME NEW p \in Processes, pc[p] = "commit", entry[p] \in Versions,
               recorded' = recorded \cup {entry[p]}
        PROVE  NoGaps'
    <3>1. 1..(entry[p] - 1) \subseteq recorded
      BY <2>2 DEF IInv, Passed
    <3>2. 1..entry[p] \subseteq recorded'
      BY <2>2, <3>1, StartupAssumption DEF Versions
    <3> QED BY <2>2, <3>2 DEF IInv, NoGaps
  <2> QED BY <2>1, <2>2, SchemaSteps
<1>3. ServesOnItsSchema'
  <2>1. recorded \subseteq recorded'
    BY SchemaSteps DEF schema
  <2>2. ASSUME NEW q \in Processes,
               pc'[q] \in {"unlock", "owner", "serving", "stopping"}
        PROVE  1..Known[q] \subseteq recorded
    <3>1. CASE pc[q] \in {"unlock", "owner", "serving", "stopping"}
      BY <3>1 DEF IInv, ServesOnItsSchema
    <3>2. CASE pc[q] \notin {"unlock", "owner", "serving", "stopping"}
      <4>1. pc[q] = "check" /\ entry[q] > Known[q]
        BY <2>2, <3>2 DEF IInv, TypeOK, vars, Next, Proceed, Goto, Boot, Lock, Table,
           Check, Body, Record, Commit, CommitUnanswered, Fail, Exit, Unlock, Serve,
           Stop, Stopped, Die, transaction
      <4>2. /\ 1..(entry[q] - 1) \subseteq recorded
            /\ entry[q] \in 1..(Last + 1) /\ Known[q] \in 1..Last
        BY <4>1, StartupAssumption DEF IInv, TypeOK, Passed
      <4> QED BY <4>1, <4>2, StartupAssumption
    <3> QED BY <3>1, <3>2
  <2> QED BY <2>1, <2>2 DEF ServesOnItsSchema
<1> QED BY <1>1, <1>2, <1>3

(* What the four theorems have in common.                                  *)
LEMMA Invariance == Spec => []IInv
<1>1. Init => IInv
  BY InitEstablishes
<1>2. IInv /\ [Next]_vars => IInv'
  BY TypePreserved, LockPreserved, LoopPreserved, SchemaPreserved DEF IInv
<1> QED
  BY <1>1, <1>2, PTL DEF Spec

(* Processes stay inside main and Migrate, and a loop never gets past the  *)
(* end of its list of migrations (database.go:74-104).                     *)
THEOREM TypeCorrect == Spec => []TypeOK
<1>1. IInv => TypeOK
  BY DEF IInv
<1> QED BY <1>1, Invariance, PTL

(* docs/upgrades.mdx:38, docs/architecture.md:39: migrations are applied   *)
(* transactionally.  Each has taken effect once if it is recorded, and     *)
(* never otherwise, whoever failed or died on the way (database.go:87-103).*)
THEOREM MigratedOnce == Spec => []AppliedAsRecorded
<1>1. IInv => AppliedAsRecorded
  BY DEF IInv
<1> QED BY <1>1, Invariance, PTL

(* They take effect in order, without gaps, although the processes know    *)
(* different numbers of them (database.go:74-86).                          *)
THEOREM MigratedInOrder == Spec => []NoGaps
<1>1. IInv => NoGaps
  BY DEF IInv
<1> QED BY <1>1, Invariance, PTL

(* A process that got through Migrate finds the whole schema it was built  *)
(* for, now and later (cmd/server/main.go:38-57, provision/main.go:66).    *)
THEOREM ServesMigrated == Spec => []ServesOnItsSchema
<1>1. IInv => ServesOnItsSchema
  BY DEF IInv
<1> QED BY <1>1, Invariance, PTL
=============================================================================
