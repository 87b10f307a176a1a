------------------------------ MODULE Database ------------------------------
(***************************************************************************)
(* The database: one connection, one thread that runs the jobs of a queue  *)
(* in order, migrations at the opening, a transaction around each write,   *)
(* callers that are cancelled while their job waits or runs, and launches  *)
(* of releases that ship different migrations over the same file.          *)
(*                                                                         *)
(* Source: storage/db.py, storage/migrations/__init__.py.                  *)
(***************************************************************************)
EXTENDS Naturals, Sequences

CONSTANTS Writes,   \* the transactions callers ask for
          Parts,    \* the statements of each
          Shipped,  \* the newest migration of each release of the program
          Idle, Migrating,  \* what the thread does besides a write
          Closing   \* the job that closes the connection

ASSUME ShippedAssumption == Shipped \subseteq Nat
ASSUME JobsAssumption ==
  /\ {Idle, Migrating, Closing} \cap Writes = {}
  /\ Idle # Migrating /\ Idle # Closing /\ Migrating # Closing

VARIABLES
  disk,     \* the file: user_version, the tables and the committed rows
  phase,    \* the Database object: over (none, or closed), opening, open,
            \* closing
  highest,  \* the newest migration of the running release
  thread,   \* the job the thread runs
  queue,    \* the jobs that wait for it
  inTx,     \* a transaction is open
  tx,       \* the file as the open transaction sees it
  result,   \* the outcome of each write on the thread
  answer    \* what its caller was told

dbVars == <<disk, phase, highest, thread, queue, inTx, tx, result, answer>>

PartsOf(w) == {w} \X Parts
Files == [version : Nat, tables : SUBSET Nat, rows : SUBSET (Writes \X Parts)]

TypeOK ==
  /\ disk \in Files
  /\ phase \in {"over", "opening", "open", "closing"}
  /\ highest \in Nat
  /\ thread \in Writes \cup {Idle, Migrating}
  /\ queue \in Seq(Writes \cup {Closing})
  /\ inTx \in BOOLEAN
  /\ tx \in Files
  /\ result \in [Writes -> {"none", "ok", "failed"}]
  /\ answer \in [Writes -> {"none", "waiting", "given_up", "ok", "failed"}]

Init ==
  /\ disk = [version |-> 0, tables |-> {}, rows |-> {}]
  /\ phase = "over"
  /\ highest = 0
  /\ thread = Idle
  /\ queue = <<>>
  /\ inTx = FALSE
  /\ tx = disk
  /\ result = [w \in Writes |-> "none"]
  /\ answer = [w \in Writes |-> "none"]

(***************************************************************************)
(* Opening.                                                                *)
(***************************************************************************)

\* A launch of some release connects and migrates, as the first job.
Open(newest) ==
  /\ phase = "over"
  /\ phase' = "opening"
  /\ highest' = newest
  /\ thread' = Migrating
  /\ UNCHANGED <<disk, queue, inTx, tx, result, answer>>

\* Mutant: an older release opens the file of a newer one.
AnySchema == FALSE
\* The file was migrated by a newer release.
NewerSchema == disk.version > highest

\* Mutant: what an interrupted transaction did is kept.
Kept == tx
\* ROLLBACK leaves the file as it was.
RolledBack == disk

\* The connection or a migration fails, or the schema is newer: the open
\* transaction is rolled back and the object is closed.
OpenFails ==
  /\ thread = Migrating
  /\ disk' = IF inTx THEN RolledBack ELSE disk
  /\ inTx' = FALSE
  /\ thread' = Idle
  /\ phase' = "over"
  /\ UNCHANGED <<highest, queue, tx, result, answer>>

\* Each pending migration has a transaction of its own.
BeginMigration ==
  /\ thread = Migrating
  /\ ~inTx
  /\ disk.version < highest
  /\ inTx' = TRUE
  /\ tx' = disk
  /\ UNCHANGED <<disk, phase, highest, thread, queue, result, answer>>

ApplyMigration ==
  /\ thread = Migrating
  /\ inTx
  /\ tx.version = disk.version
  /\ tx' = [tx EXCEPT !.tables = @ \cup {disk.version + 1}]
  /\ UNCHANGED <<disk, phase, highest, thread, queue, inTx, result, answer>>

\* PRAGMA user_version, inside the transaction.
StampVersion ==
  /\ thread = Migrating
  /\ inTx
  /\ disk.version + 1 \in tx.tables
  /\ tx' = [tx EXCEPT !.version = disk.version + 1]
  /\ UNCHANGED <<disk, phase, highest, thread, queue, inTx, result, answer>>

CommitMigration ==
  /\ thread = Migrating
  /\ inTx
  /\ tx.version = disk.version + 1
  /\ disk' = tx
  /\ inTx' = FALSE
  /\ UNCHANGED <<phase, highest, thread, queue, tx, result, answer>>

\* No migration is pending.
Opened ==
  /\ thread = Migrating
  /\ ~inTx
  /\ ~NewerSchema
  /\ disk.version >= highest
  /\ phase' = "open"
  /\ thread' = Idle
  /\ UNCHANGED <<disk, highest, queue, inTx, tx, result, answer>>

(***************************************************************************)
(* Writes.                                                                 *)
(***************************************************************************)

\* write: queued when the database is open, refused otherwise.
Write(w) ==
  /\ answer[w] = "none"
  /\ IF phase = "open"
     THEN /\ answer' = [answer EXCEPT ![w] = "waiting"]
          /\ queue' = Append(queue, w)
     ELSE /\ answer' = [answer EXCEPT ![w] = "failed"]
          /\ UNCHANGED queue
  /\ UNCHANGED <<disk, phase, highest, thread, inTx, tx, result>>

\* Mutant: the thread takes nothing once close was called.
StopsAtOnce == phase = "open"
\* The thread takes jobs until the one that closes the connection.
Running == phase \in {"open", "closing"}

\* BEGIN IMMEDIATE, unless the caller was cancelled while the job waited.
Take(w) ==
  /\ Running
  /\ thread = Idle
  /\ queue # <<>>
  /\ Head(queue) = w
  /\ queue' = Tail(queue)
  /\ IF answer[w] = "given_up"
     THEN UNCHANGED <<thread, inTx, tx>>
     ELSE /\ thread' = w
          /\ inTx' = TRUE
          /\ tx' = disk
  /\ UNCHANGED <<disk, phase, highest, result, answer>>

\* The row a statement stores.
Stored(w, part) == <<w, part>>

\* One statement of the callback.
Execute(w, part) ==
  /\ thread = w
  /\ tx' = [tx EXCEPT !.rows = @ \cup {Stored(w, part)}]
  /\ UNCHANGED <<disk, phase, highest, thread, queue, inTx, result, answer>>

Commit(w) ==
  /\ thread = w
  /\ PartsOf(w) \subseteq tx.rows
  /\ disk' = tx
  /\ inTx' = FALSE
  /\ thread' = Idle
  /\ result' = [result EXCEPT ![w] = "ok"]
  /\ UNCHANGED <<phase, highest, queue, tx, answer>>

\* A statement, the callback or COMMIT raises: ROLLBACK, and the exception
\* goes to the caller.
WriteFails(w) ==
  /\ thread = w
  /\ disk' = RolledBack
  /\ inTx' = FALSE
  /\ thread' = Idle
  /\ result' = [result EXCEPT ![w] = "failed"]
  /\ UNCHANGED <<phase, highest, queue, tx, answer>>

\* The loop resumes the caller with the outcome.
Answer(w) ==
  /\ answer[w] = "waiting"
  /\ result[w] # "none"
  /\ answer' = [answer EXCEPT ![w] = result[w]]
  /\ UNCHANGED <<disk, phase, highest, thread, queue, inTx, tx, result>>

\* The caller is cancelled: a job that runs goes on without it.
GiveUp(w) ==
  /\ answer[w] = "waiting"
  /\ answer' = [answer EXCEPT ![w] = "given_up"]
  /\ UNCHANGED <<disk, phase, highest, thread, queue, inTx, tx, result>>

(***************************************************************************)
(* Closing, and the end of the process.                                    *)
(***************************************************************************)

\* close: what was accepted before it runs first.
Close ==
  /\ phase = "open"
  /\ phase' = "closing"
  /\ queue' = Append(queue, Closing)
  /\ UNCHANGED <<disk, highest, thread, inTx, tx, result, answer>>

CloseConnection ==
  /\ Running
  /\ thread = Idle
  /\ queue # <<>>
  /\ Head(queue) = Closing
  /\ queue' = Tail(queue)
  /\ phase' = "over"
  /\ UNCHANGED <<disk, highest, thread, inTx, tx, result, answer>>

\* The process dies: the open transaction and every job are gone.
Crash ==
  /\ phase # "over"
  /\ phase' = "over"
  /\ thread' = Idle
  /\ queue' = <<>>
  /\ inTx' = FALSE
  /\ answer' = [w \in Writes |->
                  IF answer[w] = "waiting" THEN "given_up" ELSE answer[w]]
  /\ UNCHANGED <<disk, highest, tx, result>>

Migrates ==
  OpenFails \/ BeginMigration \/ ApplyMigration \/ StampVersion
  \/ CommitMigration \/ Opened
Works(w) ==
  \/ Take(w) \/ Commit(w) \/ WriteFails(w)
  \/ \E part \in Parts : Execute(w, part)

Next ==
  \/ \E newest \in Shipped : Open(newest)
  \/ Migrates
  \/ \E w \in Writes : Write(w) \/ Works(w) \/ Answer(w) \/ GiveUp(w)
  \/ Close \/ CloseConnection
  \/ Crash

Spec == Init /\ [][Next]_dbVars

\* The thread keeps taking jobs, a transaction ends, and the loop resumes the
\* callers whose job is done.
FairSpec ==
  /\ Spec
  /\ \A w \in Writes : WF_dbVars(Take(w)) /\ WF_dbVars(Answer(w))
                       /\ WF_dbVars(Commit(w) \/ WriteFails(w))

(***************************************************************************)
(* Properties.                                                             *)
(***************************************************************************)

Store == INSTANCE TransactionStore
           WITH tables <- disk.tables, rows <- disk.rows, answer <- answer

\* The database keeps the promises of TransactionStore through failed
\* statements, cancelled callers, crashes and restarts: writes are whole, an
\* answer tells what is on disk, and migrations come one by one.
Implements == Store!Spec

\* user_version always names exactly the migrations whose tables exist, so
\* the next launch applies each migration once (migrations/__init__.py:78-90).
SchemaIsVersion == disk.tables = 1..disk.version

\* A release never writes into the file of a newer one
\* (migrations/__init__.py:74-75).
NewerIsUntouched == [][disk.version > highest => disk' = disk]_dbVars

\* Releases may alternate on one file: its version always tells its tables, and
\* the older release leaves the tables of the newer alone.
SchemaIsKept == []SchemaIsVersion /\ NewerIsUntouched

\* A caller that waits is answered, also when the database is closed under it
\* (db.py:141-150).
EveryWriteAnswered ==
  \A w \in Writes : answer[w] = "waiting" ~> answer[w] # "waiting"
=============================================================================
