---------------------------- MODULE SnapshotTick ----------------------------
(***************************************************************************)
(* Batches that capture market snapshots: _run_snapshot of                 *)
(* backend/api/cron.py over capture_snapshot of backend/workers/jobs.py    *)
(* and the store of backend/market_data/snapshot_store.py.                 *)
(*                                                                         *)
(* A batch hands its symbols to a pool and hears the results in order      *)
(* until its budget is used up; calls under way then go on unheard, and    *)
(* may store a snapshot that the report calls skipped.  A snapshot goes to *)
(* the database or, when that fails, to a small memory that the threads of *)
(* the process share without a lock.  The appends to the audit log that    *)
(* follow a capture are AuditChain's.                                      *)
(***************************************************************************)
EXTENDS Integers, Sequences, SequencesExt, FiniteSets

CONSTANTS
  Batches,     \* requests for snapshots
  Listed,      \* the symbols of a batch, in order, or the first few of them
  FewEnough,   \* a list no longer than this is worked off without a pool
  Workers,     \* threads of a pool
  MemoryMax    \* _MEMORY_MAX

ASSUME SnapshotAssumption ==
  /\ {FewEnough, Workers, MemoryMax} \subseteq Nat \ {0}
  /\ Listed \in Seq(ToSet(Listed)) /\ FewEnough <= Len(Listed)

VARIABLES
  batch,    \* the requests
  job,      \* what each batch's call for a symbol does, and how it ended
  table,    \* market_snapshots: which call has written a row
  memory    \* the size of _MEMORY

snapshotVars == <<batch, job, table, memory>>

-----------------------------------------------------------------------------

Symbols == ToSet(Listed)

Unheard ==
  [at |-> "idle", late |-> FALSE, asked |-> <<>>, left |-> {},
   snapshots |-> {}, errors |-> {}]

SnapshotInit ==
  /\ batch = [b \in Batches |-> Unheard]
  /\ job = [b \in Batches |-> [s \in Symbols |-> "queued"]]
  /\ table = {}
  /\ memory = 0

Small(b) == Len(batch[b].asked) <= FewEnough

Asked(b) == ToSet(batch[b].asked)

Collecting(b) == batch[b].at = "collects" /\ batch[b].left # {}

\* The results are heard in the order of the list.
Awaited(b) ==
  LET asked == batch[b].asked
      place == CHOOSE i \in DOMAIN asked :
                 /\ asked[i] \in batch[b].left
                 /\ \A k \in 1..i - 1 : asked[k] \notin batch[b].left
  IN  asked[place]

-----------------------------------------------------------------------------
(* The calls.                                                              *)

AtWork(b) == {s \in Symbols : job[b][s] \in {"works", "thinned"}}

Becomes(b, s, state) == job' = [job EXCEPT ![b][s] = state]

\* The first call in the queue starts when a thread is free; without a pool,
\* when its turn has come.
Begin(b, s) ==
  /\ batch[b].at = "collects" /\ job[b][s] = "queued"
  /\ s \in Asked(b)
  /\ IF Small(b) THEN Collecting(b) /\ Awaited(b) = s
     ELSE /\ Cardinality(AtWork(b)) < Workers
          /\ \A i, k \in DOMAIN Listed :
               Listed[k] = s /\ i < k => job[b][Listed[i]] # "queued"
  /\ Becomes(b, s, "works")
  /\ UNCHANGED <<batch, table, memory>>

\* get_bars fails, or has no complete row.
NoRows(b, s) ==
  /\ job[b][s] = "works"
  /\ Becomes(b, s, "failed")
  /\ UNCHANGED <<batch, table, memory>>

Save(b, s) ==
  /\ job[b][s] = "works"
  /\ Becomes(b, s, "persisted")
  /\ table' = table \cup {<<b, s>>}
  /\ UNCHANGED <<batch, memory>>

\* _remember makes room first: a full memory gives up what came first.
Room == IF memory >= MemoryMax THEN memory - 1 ELSE memory

\* The write fails, or there is no database.
MakeRoom(b, s) ==
  /\ job[b][s] = "works"
  /\ memory' = Room
  /\ Becomes(b, s, "thinned")
  /\ UNCHANGED <<batch, table>>

\* Another thread may have taken the room meanwhile.
Remember(b, s) ==
  /\ job[b][s] = "thinned"
  /\ memory' = memory + 1
  /\ Becomes(b, s, "remembered")
  /\ UNCHANGED <<batch, table>>

Ended(b, s) == job[b][s] \in {"failed", "persisted", "remembered"}

-----------------------------------------------------------------------------
(* The batch.                                                              *)

StartBatch(b) ==
  /\ batch[b].at = "idle"
  /\ \E asked \in {Listed, SubSeq(Listed, 1, FewEnough)} :
       batch' = [batch EXCEPT ![b].at = "collects",
                              ![b].asked = asked, ![b].left = ToSet(asked)]
  /\ UNCHANGED <<job, table, memory>>

Record(b, heard, erred) ==
  batch' = [batch EXCEPT ![b].left = @ \ {Awaited(b)},
    ![b].snapshots = IF heard THEN @ \cup {Awaited(b)} ELSE @,
    ![b].errors = IF erred THEN @ \cup {Awaited(b)} ELSE @]

\* _record: whatever a call returned is listed as a snapshot, one that is only
\* remembered and one that failed, too; the latter also as an error.
Hear(b) ==
  /\ Collecting(b) /\ ~batch[b].late
  /\ Ended(b, Awaited(b))
  /\ Record(b, TRUE, job[b][Awaited(b)] = "failed")
  /\ UNCHANGED <<job, table, memory>>

\* The budget of a pool is used up.
TimeIsUp(b) ==
  /\ Collecting(b) /\ ~batch[b].late /\ ~Small(b)
  /\ batch' = [batch EXCEPT ![b].late = TRUE]
  /\ UNCHANGED <<job, table, memory>>

\* A slip: a call that is given up is still reported as done.
GiveUpKindly(b) ==
  /\ Collecting(b) /\ batch[b].late
  /\ Record(b, TRUE, FALSE)
  /\ UNCHANGED <<job, table, memory>>

\* What is left is skipped, done or not; a call that has not started never will.
GiveUp(b) ==
  /\ Collecting(b) /\ batch[b].late
  /\ Record(b, FALSE, TRUE)
  /\ Becomes(b, Awaited(b),
       IF job[b][Awaited(b)] = "queued" THEN "cancelled" ELSE job[b][Awaited(b)])
  /\ UNCHANGED <<table, memory>>

\* The response is sent; calls that run are left alone.
Respond(b) ==
  /\ batch[b].at = "collects" /\ batch[b].left = {}
  /\ batch' = [batch EXCEPT ![b].at = "ended"]
  /\ UNCHANGED <<job, table, memory>>

-----------------------------------------------------------------------------

SnapshotNext ==
  \E b \in Batches :
    \/ StartBatch(b) \/ Hear(b) \/ TimeIsUp(b) \/ GiveUp(b) \/ Respond(b)
    \/ \E s \in Symbols :
         \/ Begin(b, s) \/ NoRows(b, s) \/ Save(b, s)
         \/ MakeRoom(b, s) \/ Remember(b, s)

SnapshotSpec == SnapshotInit /\ [][SnapshotNext]_snapshotVars

-----------------------------------------------------------------------------
(* Properties.                                                             *)

\* A batch that has answered names every symbol.  What it lists without an error
\* is kept, what it lists as both has failed, and what it only calls skipped no
\* thread takes up any more unless it was at it already (cron.py:432, 498, 525).
BatchAccounts ==
  \A b \in Batches :
    batch[b].at = "ended" =>
      /\ batch[b].snapshots \cup batch[b].errors = Asked(b)
      /\ \A s \in batch[b].snapshots \ batch[b].errors :
           <<b, s>> \in table \/ job[b][s] = "remembered"
      /\ \A s \in batch[b].snapshots \cap batch[b].errors : job[b][s] = "failed"
      /\ \A s \in Asked(b) : job[b][s] # "queued"
=============================================================================
