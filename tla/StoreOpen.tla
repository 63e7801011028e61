------------------------------ MODULE StoreOpen ------------------------------
(***************************************************************************)
(* Opening the database (EventStore.__init__ and _migrate in               *)
(* honeypot/app/storage.py), with the restarts around it.                  *)
(*                                                                         *)
(* The connection is in autocommit mode: every statement of SCHEMA and     *)
(* every ALTER TABLE is committed by itself, so a crash leaves any prefix  *)
(* of them behind.  A statement that raises ends the start of the service; *)
(* the container is restarted and tries again on the same file.            *)
(***************************************************************************)
EXTENDS Naturals, Sequences, FiniteSets

CONSTANTS CoreColumns,    \* the columns of the first release
          Migrations,     \* sequence of the columns of MIGRATIONS
          Indexes,        \* sequence of [name, columns], the CREATE INDEX statements
          Databases,      \* files the service may find: [columns, indexes]
          MaxFailures     \* bound: crashes and failed starts

Added    == {Migrations[i] : i \in DOMAIN Migrations}
Complete == CoreColumns \union Added

IndexNames == {Indexes[i].name : i \in DOMAIN Indexes}

ASSUME StatementAssumption ==
         /\ Migrations \in Seq(Added)
         /\ Indexes \in Seq({Indexes[i] : i \in DOMAIN Indexes})
         /\ \A i \in DOMAIN Indexes : Indexes[i].columns \subseteq Complete
         /\ MaxFailures \in Nat

\* Files of this release or an earlier one.
ASSUME DatabaseAssumption ==
         \A d \in Databases : /\ d.columns \subseteq Complete /\ d.indexes \subseteq IndexNames
                              /\ d.columns = {} => d.indexes = {}
                              /\ d.columns # {} => CoreColumns \subseteq d.columns

VARIABLES columns,    \* columns of the table events, {} when there is no table
          indexes,    \* names of the indexes
          step,       \* where __init__ is
          at,         \* the statement it is at
          existing,   \* columns _migrate read from table_info
          failures    \* crashes and failed starts so far

vars == <<columns, indexes, step, at, existing, failures>>

Init ==
  /\ \E d \in Databases : columns = d.columns /\ indexes = d.indexes
  /\ step = "down" /\ at = 0 /\ existing = {} /\ failures = 0

\* The process starts and connects.
Start ==
  /\ step = "down"
  /\ step' = "table"
  /\ UNCHANGED <<columns, indexes, at, existing, failures>>

\* Mutant: the statements are counted from zero.
CreateTableFromZero ==
  /\ step = "table"
  /\ columns' = IF columns = {} THEN Complete ELSE columns
  /\ step' = "indexes" /\ at' = 0
  /\ UNCHANGED <<indexes, existing, failures>>

\* Mutant: the indexes are created only together with the table.
CreateTableOnce ==
  /\ step = "table"
  /\ columns' = IF columns = {} THEN Complete ELSE columns
  /\ step' = "indexes" /\ at' = IF columns = {} THEN 1 ELSE Len(Indexes) + 1
  /\ UNCHANGED <<indexes, existing, failures>>

\* CREATE TABLE IF NOT EXISTS.
CreateTable ==
  /\ step = "table"
  /\ columns' = IF columns = {} THEN Complete ELSE columns
  /\ step' = "indexes" /\ at' = 1
  /\ UNCHANGED <<indexes, existing, failures>>

\* Mutant: CREATE INDEX without IF NOT EXISTS.
CanIndexOnce(index) == index.name \notin indexes /\ index.columns \subseteq columns

\* The index is there already, or all its columns are.
CanIndex(index) == index.name \in indexes \/ index.columns \subseteq columns

\* CREATE INDEX IF NOT EXISTS, one statement after the other.
CreateIndex ==
  /\ step = "indexes" /\ at \in DOMAIN Indexes
  /\ CanIndex(Indexes[at])
  /\ indexes' = indexes \union {Indexes[at].name}
  /\ at' = at + 1
  /\ UNCHANGED <<columns, step, existing, failures>>

\* Its error: no such column.  __init__ raises and the process exits.
IndexRaises ==
  /\ step = "indexes" /\ at \in DOMAIN Indexes
  /\ ~CanIndex(Indexes[at])
  /\ failures < MaxFailures /\ failures' = failures + 1
  /\ step' = "down" /\ at' = 0
  /\ UNCHANGED <<columns, indexes, existing>>

\* _migrate reads the table's columns once, before its loop.
Inspect ==
  /\ step = "indexes" /\ at = Len(Indexes) + 1
  /\ existing' = columns
  /\ step' = "migrate" /\ at' = 1
  /\ UNCHANGED <<columns, indexes, failures>>

\* One turn of its loop: ALTER TABLE ADD COLUMN if the column was not there.
Migrate ==
  /\ step = "migrate" /\ at \in DOMAIN Migrations
  /\ columns' = columns \union ({Migrations[at]} \ existing)
  /\ at' = at + 1
  /\ UNCHANGED <<indexes, step, existing, failures>>

Serve ==
  /\ step = "migrate" /\ at = Len(Migrations) + 1
  /\ step' = "serving" /\ at' = 0
  /\ UNCHANGED <<columns, indexes, existing, failures>>

\* The process is killed, at any statement or while it serves.
Crash ==
  /\ step # "down"
  /\ failures < MaxFailures /\ failures' = failures + 1
  /\ step' = "down" /\ at' = 0 /\ existing' = {}
  /\ UNCHANGED <<columns, indexes>>

Proceed == Start \/ CreateTable \/ CreateIndex \/ Inspect \/ Migrate \/ Serve

Next == Proceed \/ IndexRaises \/ Crash

Spec == Init /\ [][Next]_vars

\* A start that is not killed goes on to its end.
FairSpec == Spec /\ WF_vars(Proceed)

------------------------------------------------------------------------------
TypeOK ==
  /\ columns \subseteq Complete
  /\ indexes \subseteq IndexNames
  /\ step \in {"down", "table", "indexes", "migrate", "serving"}
  /\ step = "indexes" => at \in 1 .. Len(Indexes) + 1
  /\ step = "migrate" => at \in 1 .. Len(Migrations) + 1
  /\ step \notin {"indexes", "migrate"} => at = 0
  /\ existing \subseteq columns /\ failures \in 0 .. MaxFailures

\* Whatever file it found and wherever earlier starts were cut off, a service
\* that serves has every column record() writes and every index.
ServesCompleteSchema ==
  step = "serving" => /\ columns = Complete
                      /\ \A i \in DOMAIN Indexes : Indexes[i].name \in indexes

\* A new file, or one of this release, is served in the end however many starts
\* are cut off, and then until the process is killed again.
EventuallyServes == columns \in {{}, Complete} => <>[](step = "serving")

\* "A lab that has been collecting for a week should not have to throw the data
\* away to pick up a new field" (storage.py:58-59): no statement of a start
\* fails, whatever release wrote the file.
EveryReleaseOpens == step = "indexes" /\ at \in DOMAIN Indexes => CanIndex(Indexes[at])
==============================================================================
