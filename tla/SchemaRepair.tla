---------------------------- MODULE SchemaRepair ----------------------------
(***************************************************************************)
(* The schema of a local SQLite file, put right when a session is opened:  *)
(* ensure_schema and init_db of backend/db/session.py, for one table.  The *)
(* model's columns are "id" and "note"; an old file lacks "note" or still  *)
(* has "tier".  Threads of several processes repair the same file, which   *)
(* no lock of theirs guards, and a process may be killed at any point.     *)
(*                                                                         *)
(* A statement that changes the schema is its own transaction, unless one  *)
(* is open; the INSERT of the rebuild opens one, and what follows it is    *)
(* seen by others, or kept after a crash, only once it is committed.       *)
(***************************************************************************)
EXTENDS Integers

CONSTANTS
  Openers,    \* threads that open a session
  Processes,
  HomeOf,     \* the process of a thread
  MaxRows     \* bound: rows written

ASSUME SchemaAssumption ==
  /\ HomeOf \in [Openers -> Processes]
  /\ MaxRows \in Nat
  /\ "nobody" \notin Openers

VARIABLES
  file,      \* the table and its rebuilt copy, as committed
  draft,     \* the two as the open transaction sees them
  writer,    \* the thread whose transaction is open
  ready,     \* _schema_ready of each process
  opener,    \* what a thread does, and what it has seen of the table
  written    \* the rows that were there or have been written

schemaVars == <<file, draft, writer, ready, opener, written>>

-----------------------------------------------------------------------------

Nobody == "nobody"

ModelColumns == {"id", "note"}

Missing == [columns |-> {}, rows |-> {}]

Columns(columns) == [columns |-> columns, rows |-> {}]

\* A row that was there before has no note; one that is written now has.
Row(id, noted) == [id |-> id, noted |-> noted]

OldFiles ==
  {Missing} \cup
  {[columns |-> columns, rows |-> {Row(0, FALSE)}] :
     columns \in {{"id", "tier"}, {"id", "note", "tier"}, {"id"}}}

Unopened == [at |-> "idle", saw |-> {}]

SchemaInit ==
  /\ \E table \in OldFiles : file = [table |-> table, copy |-> Missing]
  /\ draft = [table |-> Missing, copy |-> Missing]
  /\ writer = Nobody
  /\ ready = {}
  /\ opener = [o \in Openers |-> Unopened]
  /\ written = file.table.rows

At(o, where) == opener[o].at = where

Goes(o, where) == opener' = [opener EXCEPT ![o].at = where]

\* The file may be written to: nobody else's transaction is open.
Unlocked == writer = Nobody

-----------------------------------------------------------------------------
(* ensure_schema and create_all.                                           *)

OpenSession(o) ==
  /\ At(o, "idle")
  /\ Goes(o, IF HomeOf[o] \in ready THEN "serves" ELSE "checks")
  /\ UNCHANGED <<file, draft, writer, ready, written>>

\* create_all looks for the table and creates it in a second step.
CheckFirst(o) ==
  /\ At(o, "checks")
  /\ Goes(o, IF file.table = Missing THEN "creates" ELSE "compares")
  /\ UNCHANGED <<file, draft, writer, ready, written>>

Create(o) ==
  /\ At(o, "creates") /\ Unlocked
  /\ file.table = Missing
  /\ file' = [file EXCEPT !.table = Columns(ModelColumns)]
  /\ Goes(o, "compares")
  /\ UNCHANGED <<draft, writer, ready, written>>

-----------------------------------------------------------------------------
(* _add_missing_sqlite_columns.                                            *)

Compare(o) ==
  /\ At(o, "compares")
  /\ opener' = [opener EXCEPT ![o] =
       [at |-> IF ModelColumns \subseteq file.table.columns THEN "inspects" ELSE "adds",
        saw |-> file.table.columns]]
  /\ UNCHANGED <<file, draft, writer, ready, written>>

\* A column that another thread has added meanwhile is an error.
Add(o) ==
  /\ At(o, "adds") /\ Unlocked
  /\ (ModelColumns \ opener[o].saw) \cap file.table.columns = {}
  /\ file' = [file EXCEPT !.table.columns = @ \cup ModelColumns]
  /\ Goes(o, "inspects")
  /\ UNCHANGED <<draft, writer, ready, written>>

-----------------------------------------------------------------------------
(* _drop_legacy_sqlite_columns.                                            *)

Inspect(o) ==
  /\ At(o, "inspects")
  /\ opener' = [opener EXCEPT ![o] =
       [at |-> IF file.table.columns \subseteq ModelColumns THEN "repaired" ELSE "clears",
        saw |-> file.table.columns]]
  /\ UNCHANGED <<file, draft, writer, ready, written>>

\* What an earlier attempt has left behind.
ClearCopy(o) ==
  /\ At(o, "clears") /\ Unlocked
  /\ file' = [file EXCEPT !.copy = Missing]
  /\ Goes(o, "copies")
  /\ UNCHANGED <<draft, writer, ready, written>>

CreateCopy(o) ==
  /\ At(o, "copies") /\ Unlocked
  /\ file.copy = Missing
  /\ file' = [file EXCEPT !.copy = Columns(ModelColumns)]
  /\ Goes(o, "fills")
  /\ UNCHANGED <<draft, writer, ready, written>>

\* A column that is not copied is lost.
Copied(rows, shared) == {Row(row.id, row.noted /\ "note" \in shared) : row \in rows}

\* A slip: each statement is a transaction.
FillAlone(o) ==
  /\ At(o, "fills") /\ Unlocked /\ file.copy # Missing
  /\ file' = [file EXCEPT !.copy.rows =
       @ \cup Copied(file.table.rows, opener[o].saw \cap ModelColumns),
       !.table = Missing]
  /\ draft' = file'
  /\ writer' = o
  /\ Goes(o, "renames")
  /\ UNCHANGED <<ready, written>>

\* The INSERT opens the transaction, and the old table is dropped in it.
Fill(o) ==
  /\ At(o, "fills") /\ Unlocked
  /\ file.copy # Missing
  /\ draft' = [copy |-> [file.copy EXCEPT !.rows =
                 @ \cup Copied(file.table.rows, opener[o].saw \cap ModelColumns)],
               table |-> Missing]
  /\ writer' = o
  /\ Goes(o, "renames")
  /\ UNCHANGED <<file, ready, written>>

Rename(o) ==
  /\ At(o, "renames")
  /\ draft' = [table |-> draft.copy, copy |-> Missing]
  /\ Goes(o, "commits")
  /\ UNCHANGED <<file, writer, ready, written>>

Commit(o) ==
  /\ At(o, "commits")
  /\ file' = draft
  /\ writer' = Nobody
  /\ Goes(o, "repaired")
  /\ UNCHANGED <<draft, ready, written>>

-----------------------------------------------------------------------------

Mark(o) ==
  /\ At(o, "repaired")
  /\ ready' = ready \cup {HomeOf[o]}
  /\ Goes(o, "serves")
  /\ UNCHANGED <<file, draft, writer, written>>

\* A slip: the repair is not tried again.
MarkedAnyway(o) == ready \cup {HomeOf[o]}

\* _schema_ready after a repair that failed.
MarkedAfterFailure(o) == ready

Repairing(o) == opener[o].at \notin {"idle", "serves"}

\* A statement fails: the file is locked for too long, or what it needs is gone
\* or there already.  The request ends with an error; what it has not committed
\* is rolled back.
Fail(o) ==
  /\ Repairing(o)
  /\ writer' = IF writer = o THEN Nobody ELSE writer
  /\ ready' = MarkedAfterFailure(o)
  /\ opener' = [opener EXCEPT ![o] = Unopened]
  /\ UNCHANGED <<file, draft, written>>

\* get_db hands out the session; the request writes a row, or none, and ends.
Write(o) ==
  /\ At(o, "serves") /\ Unlocked
  /\ \E id \in 1..MaxRows :
       /\ \A row \in written : row.id # id
       /\ written' = written \cup {Row(id, TRUE)}
       /\ file' = [file EXCEPT !.table.rows = @ \cup {Row(id, TRUE)}]
  /\ opener' = [opener EXCEPT ![o] = Unopened]
  /\ UNCHANGED <<draft, writer, ready>>

Close(o) ==
  /\ At(o, "serves")
  /\ opener' = [opener EXCEPT ![o] = Unopened]
  /\ UNCHANGED <<file, draft, writer, ready, written>>

Kill(process) ==
  /\ \E o \in Openers : HomeOf[o] = process /\ ~At(o, "idle")
  /\ opener' = [o \in Openers |-> IF HomeOf[o] = process THEN Unopened ELSE opener[o]]
  /\ ready' = ready \ {process}
  /\ writer' = IF writer # Nobody /\ HomeOf[writer] = process THEN Nobody ELSE writer
  /\ UNCHANGED <<file, draft, written>>

-----------------------------------------------------------------------------

SchemaNext ==
  \/ \E o \in Openers :
       \/ OpenSession(o) \/ CheckFirst(o) \/ Create(o) \/ Compare(o) \/ Add(o)
       \/ Inspect(o) \/ ClearCopy(o) \/ CreateCopy(o) \/ Fill(o) \/ Rename(o)
       \/ Commit(o) \/ Mark(o) \/ Fail(o) \/ Write(o) \/ Close(o)
  \/ \E process \in Processes : Kill(process)

SchemaSpec == SchemaInit /\ [][SchemaNext]_schemaVars

-----------------------------------------------------------------------------
(* Properties.                                                             *)

\* No repair, given up or repeated, loses a row that was there, or its note:
\* the table holds them all whoever has been killed in the middle, and a copy
\* that is left behind holds none (session.py:172).
RowsKept ==
  /\ written \subseteq file.table.rows
  /\ file.copy.rows = {}

\* A process that holds the schema to be ready finds exactly the columns of the
\* model, whatever slower threads of others still do to the table
\* (session.py:227).
ReadyIsComplete ==
  ready # {} => file.table.columns = ModelColumns
=============================================================================
