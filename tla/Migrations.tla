----------------------------- MODULE Migrations -----------------------------
(***************************************************************************)
(* scripts/migrate.py: the files of migrations/ are applied in the order   *)
(* of their numbers, each in a transaction that also writes its row of     *)
(* schema_migrations.  Nothing keeps two operators from running it at      *)
(* once; only the primary key of the table tells them of each other, and   *)
(* only when the row is inserted, after the file has been executed.        *)
(*                                                                         *)
(* A file of the model may be executed again without an error, as those    *)
(* written with IF NOT EXISTS are: nothing but that row stops it.  Of a    *)
(* database that was migrated by hand the first files have been executed   *)
(* and none is recorded; it is baselined before the first up, as           *)
(* docs/OPERATIONS.md has it.                                              *)
(***************************************************************************)
EXTENDS Integers, FiniteSetsExt

CONSTANTS
  Runners,    \* invocations of the script that run side by side
  LastFile    \* the files are 1..LastFile

ASSUME MigrationsAssumption == LastFile \in Nat

VARIABLES
  byHand,    \* how many files were executed by hand
  recorded,  \* the rows of schema_migrations
  executed,  \* how often the effects of a file are in the database
  runner     \* what each invocation does

migrationVars == <<byHand, recorded, executed, runner>>

-----------------------------------------------------------------------------

Files == 1..LastFile

Waiting == [at |-> "idle", pending |-> {}, inserted |-> {}]

MigrationsInit ==
  /\ byHand \in 0..LastFile
  /\ recorded = {}
  /\ executed = [v \in Files |-> IF v <= byHand THEN 1 ELSE 0]
  /\ runner = [r \in Runners |-> Waiting]

RunnerAt(r, where) == runner[r].at = where

Turns(r, change) == runner' = [runner EXCEPT ![r] = change]

\* The file that the invocation has come to: migration_files sorts them.
Current(r) == Min(runner[r].pending)

\* What is left after it.
Rest(r) == runner[r].pending \ {Current(r)}

\* Another transaction has inserted the row and not ended: the insert waits.
HeldByOther(r, v) == \E other \in Runners \ {r} : v \in runner[other].inserted

\* A slip: INSERT ... ON CONFLICT DO NOTHING.
NeverConflicts(v) == FALSE

\* The primary key refuses a second row.
Conflicts(v) == v \in recorded

Proceed(pending) ==
  [at |-> IF pending = {} THEN "done" ELSE "applies",
   pending |-> pending, inserted |-> {}]

-----------------------------------------------------------------------------
(* up.                                                                     *)

Up(r) ==
  /\ RunnerAt(r, "idle")
  /\ 1..byHand \subseteq recorded
  /\ Turns(r, Proceed(Files \ recorded))
  /\ UNCHANGED <<byHand, recorded, executed>>

ExecuteFile(r) ==
  /\ RunnerAt(r, "applies")
  /\ Turns(r, [runner[r] EXCEPT !.at = "records"])
  /\ UNCHANGED <<byHand, recorded, executed>>

InsertRow(r) ==
  /\ RunnerAt(r, "records")
  /\ ~Conflicts(Current(r)) /\ ~HeldByOther(r, Current(r))
  /\ Turns(r, [runner[r] EXCEPT !.at = "commits", !.inserted = {Current(r)}])
  /\ UNCHANGED <<byHand, recorded, executed>>

CommitFile(r) ==
  /\ RunnerAt(r, "commits")
  /\ recorded' = recorded \cup runner[r].inserted
  /\ executed' = [executed EXCEPT ![Current(r)] = @ + 1]
  /\ Turns(r, Proceed(Rest(r)))
  /\ UNCHANGED byHand

\* The file fails, or its row is there already: in either case nothing of it stays,
\* and later ones are not attempted.
FailFile(r) ==
  /\ RunnerAt(r, "applies") \/ RunnerAt(r, "records")
  /\ Turns(r, Proceed({}))
  /\ UNCHANGED <<byHand, recorded, executed>>

-----------------------------------------------------------------------------
(* baseline.                                                               *)

\* The rows are inserted one by one in a transaction; the files to mark were
\* read at its beginning.
Baseline(r) ==
  /\ RunnerAt(r, "idle") /\ byHand > 0
  /\ Turns(r, [at |-> "marks", pending |-> 1..byHand \ recorded, inserted |-> {}])
  /\ UNCHANGED <<byHand, recorded, executed>>

MarkFile(r) ==
  /\ RunnerAt(r, "marks") /\ runner[r].pending # {}
  /\ ~HeldByOther(r, Current(r))
  /\ Turns(r, IF Conflicts(Current(r)) THEN Proceed({})
              ELSE [runner[r] EXCEPT !.pending = Rest(r), !.inserted = @ \cup {Current(r)}])
  /\ UNCHANGED <<byHand, recorded, executed>>

CommitBaseline(r) ==
  /\ RunnerAt(r, "marks") /\ runner[r].pending = {}
  /\ recorded' = recorded \cup runner[r].inserted
  /\ Turns(r, Proceed({}))
  /\ UNCHANGED <<byHand, executed>>

-----------------------------------------------------------------------------

\* The invocation ends, by itself or killed in the middle of a transaction, and
\* the operator may type the command again.
Quit(r) ==
  /\ ~RunnerAt(r, "idle")
  /\ Turns(r, Waiting)
  /\ UNCHANGED <<byHand, recorded, executed>>

MigrationsNext ==
  \E r \in Runners :
    \/ Up(r) \/ ExecuteFile(r) \/ InsertRow(r) \/ CommitFile(r) \/ FailFile(r)
    \/ Baseline(r) \/ MarkFile(r) \/ CommitBaseline(r) \/ Quit(r)

MigrationsSpec == MigrationsInit /\ [][MigrationsNext]_migrationVars

-----------------------------------------------------------------------------
(* Properties.                                                             *)

\* However many operators apply the files side by side, fail or are killed, the
\* effects of a file are in the database exactly once if it is recorded or was
\* executed by hand, and else not at all (migrate.py:84); and a file is recorded
\* only after all those with a lower number, whoever applied them (migrate.py:78).
AppliedOnceInOrder ==
  /\ \A v \in Files : executed[v] = IF v \in recorded \/ v <= byHand THEN 1 ELSE 0
  /\ \A v \in recorded : 1..v \subseteq recorded
=============================================================================
