-------------------------------- MODULE Startup --------------------------------
(***************************************************************************)
(* Processes of the control plane starting on one database: the server     *)
(* (cmd/server/main.go) and the provisioning command (cmd/provision/       *)
(* main.go) each migrate the schema (Store.Migrate) before they do         *)
(* anything else.  Binaries of different releases may overlap, fail, die   *)
(* in the middle of a migration, and be started again.                     *)
(***************************************************************************)
EXTENDS Integers

CONSTANTS
  Processes,
  Last,         \* the newest release brings migrations 1..Last
  Known,        \* Known[p]: process p's binary brings migrations 1..Known[p]
  MaxFailures   \* bound: statements that fail and processes that die

ASSUME StartupAssumption ==
  /\ Last \in Nat /\ MaxFailures \in Nat
  /\ Known \in [Processes -> 1..Last]

VARIABLES
  pc,         \* each process: down, lock, table, check, body, record, commit,
              \* failing, unlock, owner, serving or stopping
  entry,      \* each process: the migration its loop is at
  holder,     \* the session that holds the advisory lock, or Nobody
  recorded,   \* rows of schema_migrations
  changed,    \* each process: its transaction has run the migration's body
  inserted,   \* each process: its transaction has inserted the record
  applied,    \* history: migration -> how often its body was committed
  failures    \* failures and deaths so far

vars == <<pc, entry, holder, recorded, changed, inserted, applied, failures>>

Nobody == "nobody"
ASSUME NobodyAssumption == Nobody \notin Processes

Versions == 1..Last

(* An existing installation has the migrations of some release. *)
Init ==
  /\ pc = [p \in Processes |-> "down"]
  /\ entry = [p \in Processes |-> 1]
  /\ holder = Nobody
  /\ \E n \in 0..Last : recorded = 1..n
  /\ changed  = [p \in Processes |-> FALSE]
  /\ inserted = [p \in Processes |-> FALSE]
  /\ applied  = [v \in Versions |-> IF v \in recorded THEN 1 ELSE 0]
  /\ failures = 0

Goto(p, l) == pc' = [pc EXCEPT ![p] = l]

transaction == <<changed, inserted>>
schema      == <<recorded, applied>>

(* Open and Ping. *)
Boot(p) ==
  /\ pc[p] = "down"
  /\ Goto(p, "lock")
  /\ UNCHANGED <<entry, holder, schema, transaction, failures>>

(* pg_advisory_lock: waits until no session holds it. *)
Lock(p) ==
  /\ pc[p] = "lock" /\ holder = Nobody
  /\ holder' = p
  /\ Goto(p, "table")
  /\ UNCHANGED <<entry, schema, transaction, failures>>

(* CREATE TABLE IF NOT EXISTS schema_migrations, and the list of files. *)
Table(p) ==
  /\ pc[p] = "table"
  /\ entry' = [entry EXCEPT ![p] = 1]
  /\ Goto(p, "check")
  /\ UNCHANGED <<holder, schema, transaction, failures>>

(* Seeded fault: the loop runs past the last file. *)
CheckPastEnd(p) ==
  /\ pc[p] = "check"
  /\ IF entry[p] > Known[p] + 1
       THEN Goto(p, "unlock") /\ UNCHANGED entry
       ELSE entry' = [entry EXCEPT ![p] = @ + 1] /\ UNCHANGED pc
  /\ UNCHANGED <<holder, schema, transaction, failures>>

(* One round of the loop: a recorded migration is skipped, else a          *)
(* transaction begins; after the last one the lock is given back.          *)
Check(p) ==
  /\ pc[p] = "check"
  /\ IF entry[p] > Known[p]
       THEN Goto(p, "unlock") /\ UNCHANGED entry
       ELSE IF entry[p] \in recorded
         THEN entry' = [entry EXCEPT ![p] = @ + 1] /\ UNCHANGED pc
         ELSE Goto(p, "body") /\ UNCHANGED entry
  /\ UNCHANGED <<holder, schema, transaction, failures>>

Body(p) ==
  /\ pc[p] = "body"
  /\ changed' = [changed EXCEPT ![p] = TRUE]
  /\ Goto(p, "record")
  /\ UNCHANGED <<entry, holder, schema, inserted, failures>>

(* Seeded fault: the record is inserted outside the transaction. *)
RecordOutside(p) ==
  /\ pc[p] = "record"
  /\ recorded' = recorded \cup {entry[p]}
  /\ inserted' = [inserted EXCEPT ![p] = TRUE]
  /\ Goto(p, "commit")
  /\ UNCHANGED <<entry, holder, applied, changed, failures>>

Record(p) ==
  /\ pc[p] = "record"
  /\ inserted' = [inserted EXCEPT ![p] = TRUE]
  /\ Goto(p, "commit")
  /\ UNCHANGED <<entry, holder, schema, changed, failures>>

(* What the transaction did becomes visible at once. *)
TakeEffect(p) ==
  /\ applied'  = [applied EXCEPT ![entry[p]] = IF changed[p] THEN @ + 1 ELSE @]
  /\ recorded' = IF inserted[p] THEN recorded \cup {entry[p]} ELSE recorded
  /\ changed'  = [changed EXCEPT ![p] = FALSE]
  /\ inserted' = [inserted EXCEPT ![p] = FALSE]

(* The loop goes on. *)
Commit(p) ==
  /\ pc[p] = "commit"
  /\ TakeEffect(p)
  /\ entry'    = [entry EXCEPT ![p] = @ + 1]
  /\ Goto(p, "check")
  /\ UNCHANGED <<holder, failures>>

(* The commit took effect but its answer was lost: an error all the same.  *)
CommitUnanswered(p) ==
  /\ pc[p] = "commit"
  /\ failures < MaxFailures /\ failures' = failures + 1
  /\ TakeEffect(p)
  /\ Goto(p, "failing")
  /\ UNCHANGED <<entry, holder>>

RollBack(p) ==
  /\ changed'  = [changed EXCEPT ![p] = FALSE]
  /\ inserted' = [inserted EXCEPT ![p] = FALSE]

(* Seeded fault: a migration that fails is passed over. *)
FailGoesOn(p) ==
  /\ pc[p] \in {"body", "record"}
  /\ failures < MaxFailures /\ failures' = failures + 1
  /\ RollBack(p)
  /\ entry' = [entry EXCEPT ![p] = @ + 1]
  /\ Goto(p, "check")
  /\ UNCHANGED <<holder, schema>>

(* Any statement under the lock fails: the transaction is rolled back, the *)
(* deferred unlock runs, the process exits.                                *)
Fail(p) ==
  /\ pc[p] \in {"table", "check", "body", "record", "commit"}
  /\ failures < MaxFailures /\ failures' = failures + 1
  /\ RollBack(p)
  /\ Goto(p, "failing")
  /\ UNCHANGED <<entry, holder, schema>>

(* Seeded fault: the error of Migrate is dropped. *)
ExitIgnored(p) ==
  /\ pc[p] = "failing"
  /\ holder' = Nobody
  /\ Goto(p, "owner")
  /\ UNCHANGED <<entry, schema, transaction, failures>>

Exit(p) ==
  /\ pc[p] = "failing"
  /\ holder' = Nobody
  /\ Goto(p, "down")
  /\ UNCHANGED <<entry, schema, transaction, failures>>

(* Seeded fault: the session goes back to the pool with the lock. *)
UnlockForgotten(p) ==
  /\ pc[p] = "unlock"
  /\ Goto(p, "owner")
  /\ UNCHANGED <<entry, holder, schema, transaction, failures>>

(* The deferred unlock. *)
Unlock(p) ==
  /\ pc[p] = "unlock"
  /\ holder' = Nobody
  /\ Goto(p, "owner")
  /\ UNCHANGED <<entry, schema, transaction, failures>>

(* kube.New finds the owner ConfigMap, then the server serves.  For the    *)
(* provisioning command this is the manifest being read.                   *)
Serve(p) ==
  /\ pc[p] = "owner"
  /\ Goto(p, "serving")
  /\ UNCHANGED <<entry, holder, schema, transaction, failures>>

(* SIGTERM, or the manifest is done: Shutdown and then Close. *)
Stop(p) ==
  /\ pc[p] = "serving"
  /\ Goto(p, "stopping")
  /\ UNCHANGED <<entry, holder, schema, transaction, failures>>

Stopped(p) ==
  /\ pc[p] = "stopping"
  /\ Goto(p, "down")
  /\ UNCHANGED <<entry, holder, schema, transaction, failures>>

(* The process dies, or its context ends: its session is closed, which     *)
(* rolls its transaction back and frees its lock.                          *)
Die(p) ==
  /\ pc[p] # "down"
  /\ failures < MaxFailures /\ failures' = failures + 1
  /\ holder'   = IF holder = p THEN Nobody ELSE holder
  /\ RollBack(p)
  /\ Goto(p, "down")
  /\ UNCHANGED <<entry, schema>>

Proceed(p) ==
  \/ Boot(p) \/ Lock(p) \/ Table(p) \/ Check(p) \/ Body(p) \/ Record(p)
  \/ Commit(p) \/ Exit(p) \/ Unlock(p) \/ Serve(p) \/ Stopped(p)

Next == \E p \in Processes : 
          \/ Proceed(p) \/ Stop(p)
          \/ Fail(p) \/ CommitUnanswered(p) \/ Die(p)

Spec == Init /\ [][Next]_vars

(* Processes run, Kubernetes starts them again, and PostgreSQL grants the  *)
(* advisory lock in the order it was asked for, so that a process that     *)
(* waits is served although others come and go.                            *)
FairSpec ==
  Spec /\ \A p \in Processes : WF_vars(Proceed(p)) /\ SF_vars(Lock(p))

-------------------------------------------------------------------------------

Locations == {"down", "lock", "table", "check", "body", "record", "commit",
              "failing", "unlock", "owner", "serving", "stopping"}

Locked == {"table", "check", "body", "record", "commit", "failing", "unlock"}

TypeOK ==
  /\ pc \in [Processes -> Locations]
  /\ entry \in [Processes -> 1..(Last + 1)]
  /\ holder \in Processes \cup {Nobody}
  /\ recorded \subseteq Versions
  /\ changed \in [Processes -> BOOLEAN] /\ inserted \in [Processes -> BOOLEAN]
  /\ applied \in [Versions -> Nat]
  /\ failures \in 0..MaxFailures

(* docs/upgrades.mdx:38, docs/architecture.md:39: "serialized with a       *)
(* PostgreSQL advisory lock and applied transactionally": whatever dies or *)
(* fails on the way, a migration's body has taken effect once if it is     *)
(* recorded and never otherwise (database.go:57-106).                      *)
AppliedAsRecorded ==
  \A v \in Versions : applied[v] = IF v \in recorded THEN 1 ELSE 0

(* Migrations take effect in the order of their names, without gaps,       *)
(* though binaries that know fewer of them take part.                      *)
NoGaps == \A v \in recorded : 1..v \subseteq recorded

(* A process gets to serve, or to read its manifest, only on a schema that *)
(* has all it was built for (main.go:38-57, provision/main.go:66).         *)
ServesOnItsSchema ==
  \A p \in Processes :
    pc[p] \in {"unlock", "owner", "serving", "stopping"} => 1..Known[p] \subseteq recorded

(* Nobody waits for the lock for good: every process that is started       *)
(* serves in the end.                                                      *)
AllServe == \A p \in Processes : pc[p] = "lock" ~> pc[p] = "serving"
=============================================================================
