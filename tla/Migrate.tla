-------------------------------- MODULE Migrate --------------------------------
(***************************************************************************)
(* database.Migrate: several migrators of several releases started         *)
(* together against one database.                                          *)
(*                                                                         *)
(* A release embeds files in directory order, each a version and a         *)
(* checksum.  A migrator takes the advisory lock, creates the bookkeeping  *)
(* table, reads what is applied once, and applies the rest in one          *)
(* transaction per file.  Its connection may be lost at any point, which   *)
(* rolls its transaction back and releases its lock.                       *)
(***************************************************************************)
EXTENDS Naturals, Sequences, FiniteSets, SequencesExt

CONSTANTS
    Migrators,  \* processes running Migrate
    Releases,   \* sequences of [v |-> version, sum |-> checksum], in directory order
    NULL

VARIABLES
    release,    \* the files a migrator embeds
    pc,         \* where it is
    pending,    \* the migrations it still has to look at
    seen,       \* what it read from schema_migrations
    tx,         \* the migration its open transaction has run, and recorded
    lock,       \* who holds the advisory lock
    table,      \* whether schema_migrations exists
    applied,    \* schema_migrations: the recorded version and checksum pairs
    history     \* the migrations that were executed and committed, in order

vars == <<release, pc, pending, seen, tx, lock, table, applied, history>>

None == [v |-> 0, sum |-> NULL]

------------------------------------------------------------------------------
(* The files in version order; two of one version are refused. *)
LoadMigrations(files) == SortSeq(files, LAMBDA a, b : a.v < b.v)

Duplicated(files) == \E i, j \in DOMAIN files : i # j /\ files[i].v = files[j].v

Load(p) ==
    /\ pc[p] = "start"
    /\ IF Duplicated(release[p]) \/ release[p] = <<>>
         THEN pc' = [pc EXCEPT ![p] = "failed"] /\ UNCHANGED pending
         ELSE /\ pc' = [pc EXCEPT ![p] = "lock"]
              /\ pending' = [pending EXCEPT ![p] = LoadMigrations(release[p])]
    /\ UNCHANGED <<release, seen, tx, lock, table, applied, history>>

(* pg_advisory_lock waits until nobody holds it. *)
Lock(p) ==
    /\ pc[p] = "lock"
    /\ lock = NULL
    /\ lock' = p
    /\ pc' = [pc EXCEPT ![p] = "create"]
    /\ UNCHANGED <<release, pending, seen, tx, table, applied, history>>

(* CREATE TABLE IF NOT EXISTS: two at once may both find it missing. *)
CreateBegins(p) ==
    /\ pc[p] = "create"
    /\ pc' = [pc EXCEPT ![p] = IF table THEN "read" ELSE "creating"]
    /\ UNCHANGED <<release, pending, seen, tx, lock, table, applied, history>>

CreateEnds(p) ==
    /\ pc[p] = "creating"
    /\ table' = TRUE
    /\ pc' = [pc EXCEPT ![p] = "read"]
    /\ UNCHANGED <<release, pending, seen, tx, lock, applied, history>>

appliedMigrations(p) ==
    /\ pc[p] = "read"
    /\ seen' = [seen EXCEPT ![p] = applied]
    /\ pc' = [pc EXCEPT ![p] = "loop"]
    /\ UNCHANGED <<release, pending, tx, lock, table, applied, history>>

(* An applied version: its checksum is compared, and a difference ends it.  *)
Skip(p) ==
    /\ pc[p] = "loop"
    /\ pending[p] # <<>>
    /\ \E a \in seen[p] :
          /\ a.v = Head(pending[p]).v
          /\ IF a = Head(pending[p])
               THEN pending' = [pending EXCEPT ![p] = Tail(@)] /\ UNCHANGED pc
               ELSE pc' = [pc EXCEPT ![p] = "error"] /\ UNCHANGED pending
    /\ UNCHANGED <<release, seen, tx, lock, table, applied, history>>

(* Seeded fault: the file is executed outside the transaction. *)
ExecuteAlone(p) ==
    /\ pc[p] = "loop"
    /\ pending[p] # <<>>
    /\ \A a \in seen[p] : a.v # Head(pending[p]).v
    /\ history' = Append(history, Head(pending[p]))
    /\ tx' = [tx EXCEPT ![p] = Head(pending[p])]
    /\ pc' = [pc EXCEPT ![p] = "record"]
    /\ UNCHANGED <<release, pending, seen, lock, table, applied>>

(* Begin, and run the file's SQL. *)
Execute(p) ==
    /\ pc[p] = "loop"
    /\ pending[p] # <<>>
    /\ \A a \in seen[p] : a.v # Head(pending[p]).v
    /\ tx' = [tx EXCEPT ![p] = Head(pending[p])]
    /\ pc' = [pc EXCEPT ![p] = "record"]
    /\ UNCHANGED <<release, pending, seen, lock, table, applied, history>>

(* Record it and commit: version is the primary key. *)
Commit(p) ==
    /\ pc[p] = "record"
    /\ IF \E a \in applied : a.v = tx[p].v
         THEN pc' = [pc EXCEPT ![p] = "error"] /\ UNCHANGED <<pending, applied, history>>
         ELSE /\ applied' = applied \cup {tx[p]}
              /\ history' = Append(history, tx[p])
              /\ pending' = [pending EXCEPT ![p] = Tail(@)]
              /\ pc' = [pc EXCEPT ![p] = "loop"]
    /\ tx' = [tx EXCEPT ![p] = None]
    /\ UNCHANGED <<release, seen, lock, table>>

(* A commit that was sent may have taken effect. *)
MayHaveCommitted(p) ==
    \/ UNCHANGED <<applied, history>>
    \/ /\ pc[p] = "record"
       /\ \A a \in applied : a.v # tx[p].v
       /\ applied' = applied \cup {tx[p]}
       /\ history' = Append(history, tx[p])

(* A statement fails: the transaction is rolled back and Migrate returns.   *)
StatementFails(p) ==
    /\ pc[p] \in {"lock", "create", "creating", "read", "loop", "record"}
    /\ MayHaveCommitted(p)
    /\ pc' = [pc EXCEPT ![p] = "error"]
    /\ tx' = [tx EXCEPT ![p] = None]
    /\ UNCHANGED <<release, pending, seen, lock, table>>

(* The deferred unlock, after a success or an error. *)
Return(p) ==
    /\ \/ pc[p] = "loop" /\ pending[p] = <<>> /\ pc' = [pc EXCEPT ![p] = "done"]
       \/ pc[p] = "error" /\ pc' = [pc EXCEPT ![p] = "failed"]
    /\ lock' = IF lock = p THEN NULL ELSE lock
    /\ UNCHANGED <<release, pending, seen, tx, table, applied, history>>

(* The process dies, or its connection is lost, and the server rolls back   *)
(* and releases the lock.                                                   *)
Crash(p) ==
    /\ pc[p] \notin {"done", "failed"}
    /\ MayHaveCommitted(p)
    /\ pc' = [pc EXCEPT ![p] = "failed"]
    /\ tx' = [tx EXCEPT ![p] = None]
    /\ lock' = IF lock = p THEN NULL ELSE lock
    /\ UNCHANGED <<release, pending, seen, table>>

------------------------------------------------------------------------------
Init ==
    /\ release \in [Migrators -> Releases]
    /\ pc = [p \in Migrators |-> "start"]
    /\ pending = [p \in Migrators |-> <<>>]
    /\ seen = [p \in Migrators |-> {}]
    /\ tx = [p \in Migrators |-> None]
    /\ lock = NULL
    /\ table = FALSE
    /\ applied = {}
    /\ history = <<>>

Step(p) ==
    \/ Load(p) \/ Lock(p) \/ CreateBegins(p) \/ CreateEnds(p) \/ appliedMigrations(p)
    \/ Skip(p) \/ Execute(p) \/ Commit(p) \/ Return(p)

Next == \E p \in Migrators : Step(p) \/ StatementFails(p) \/ Crash(p)

Spec == Init /\ [][Next]_vars

------------------------------------------------------------------------------

(* What is recorded is what was executed, once and in version order,        *)
(* whatever the directory order, whichever releases run at a time and       *)
(* wherever one of them crashes, as long as each release only adds versions *)
(* above those of another: the schema is always at a fully applied version. *)
RecordedIsExecuted ==
    /\ ToSet(history) = applied
    /\ \A i, j \in DOMAIN history : i < j => history[i].v < history[j].v

(* No two migrators change the schema at the same time, the creation of the *)
(* bookkeeping table included.                                              *)
DDLSerialized ==
    Cardinality({p \in Migrators : pc[p] \in {"creating", "loop", "record"}}) <= 1

(* A migrator that reports success leaves a schema that has every one of    *)
(* its migrations, as its release has it: an edited migration is reported.  *)
SuccessMeansUpToDate ==
    \A p \in Migrators : pc[p] = "done" => ToSet(release[p]) \subseteq applied

(* The schema is what the bookkeeping says it is, and what a migrator that  *)
(* succeeded needs (Migrate, applyMigration).                               *)
SchemaIsAsRecorded == RecordedIsExecuted /\ DDLSerialized /\ SuccessMeansUpToDate

Finished(p) == pc[p] \in {"done", "failed"}
==============================================================================
