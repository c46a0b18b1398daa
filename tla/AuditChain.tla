----------------------------- MODULE AuditChain -----------------------------
(***************************************************************************)
(* The audit log: append_audit_log (backend/api/audit.py), verify_rows     *)
(* (backend/observability/audit_verify.py) and the audit part of the       *)
(* retention purge (backend/observability/retention.py).                   *)
(*                                                                         *)
(* Writers are the sessions that append: the alert batch, the worker jobs, *)
(* the health tracker, the provider key endpoints.  SHA-256 is taken to be *)
(* injective, so the hash of a row is represented by the row's place in    *)
(* the order of ids, and a prev_hash by the place of the row it names.     *)
(***************************************************************************)
EXTENDS Integers, Sequences, FiniteSets

CONSTANTS
  Writers,     \* sessions that append
  Nobody,      \* the lock's holder when it has none
  Postgres,    \* TRUE on PostgreSQL, FALSE on SQLite, which takes no lock
  Retention,   \* the audit window, in units of the clock (7 years)
  MaxAppends,  \* bound: no append starts once this many rows were written
  MaxTime,     \* bound: last value of the clock
  MaxFaults    \* bound: statements and flushes that fail

ASSUME WritersAssumption == Nobody \notin Writers

ASSUME DialectAssumption == Postgres \in BOOLEAN

\* get_retention_days never lets a window fall below one day.
ASSUME RetentionAssumption == Retention \in Nat \ {0}

ASSUME BoundsAssumption ==
  /\ MaxAppends \in Nat
  /\ MaxTime \in Nat
  /\ MaxFaults \in Nat

VARIABLES
  clock,   \* the time
  chain,   \* every row ever committed, in the order of ids
  kept,    \* the rows still in the table
  lock,    \* the session that holds the advisory lock
  pc,      \* where each append is
  head,    \* the newest row each append has read
  stamp,   \* the created_at of each append
  purge,   \* where the purge is
  cutoff,  \* the purge deletes rows created before this
  anchor,  \* MAX(id) as the purge has read it
  faults   \* failures so far

vars == <<clock, chain, kept, lock, pc, head, stamp, purge, cutoff, anchor, faults>>

-----------------------------------------------------------------------------

Times == 0..MaxTime
Rows == 1..Len(chain)
Link == [prev : Nat, at : Times]

\* Slips a property has to expose: the order of the ids the wrong way round,
\* and the next id instead of the last.
Oldest == IF kept = {} THEN 0 ELSE CHOOSE i \in kept : \A j \in kept : i <= j

\* SELECT ... ORDER BY id DESC LIMIT 1, and MAX(id): 0 on an empty table.
Newest == IF kept = {} THEN 0 ELSE CHOOSE i \in kept : \A j \in kept : j <= i

\* Slips: nobody waits for the lock, and the lock outlives its transaction.
LockIgnored == TRUE

LockKept(w) == lock

\* pg_advisory_xact_lock, skipped on any other dialect.
LockFree == Postgres => lock = Nobody
Acquired(w) == IF Postgres THEN w ELSE lock

\* The lock lives as long as the transaction of the session that took it.
Released(w) == IF lock = w THEN Nobody ELSE lock

Init ==
  /\ clock = 0
  /\ chain = <<>>
  /\ kept = {}
  /\ lock = Nobody
  /\ pc = [w \in Writers |-> "idle"]
  /\ head = [w \in Writers |-> 0]
  /\ stamp = [w \in Writers |-> 0]
  /\ purge = "idle"
  /\ cutoff = 0
  /\ anchor = 0
  /\ faults = 0

-----------------------------------------------------------------------------
(* append_audit_log.                                                       *)

Request(w) ==
  /\ pc[w] = "idle"
  /\ Len(chain) < MaxAppends
  /\ pc' = [pc EXCEPT ![w] = "waiting"]
  /\ UNCHANGED <<clock, chain, kept, lock, head, stamp, purge, cutoff, anchor, faults>>

Lock(w) ==
  /\ pc[w] = "waiting"
  /\ LockFree
  /\ lock' = Acquired(w)
  /\ pc' = [pc EXCEPT ![w] = "locked"]
  /\ UNCHANGED <<clock, chain, kept, head, stamp, purge, cutoff, anchor, faults>>

ReadHead(w) ==
  /\ pc[w] = "locked"
  /\ head' = [head EXCEPT ![w] = Newest]
  /\ stamp' = [stamp EXCEPT ![w] = clock]
  /\ pc' = [pc EXCEPT ![w] = "writing"]
  /\ UNCHANGED <<clock, chain, kept, lock, purge, cutoff, anchor, faults>>

\* INSERT and COMMIT; the commit gives the lock back.
Insert(w) ==
  /\ pc[w] = "writing"
  /\ chain' = Append(chain, [prev |-> head[w], at |-> stamp[w]])
  /\ kept' = kept \cup {Len(chain) + 1}
  /\ lock' = Released(w)
  /\ pc' = [pc EXCEPT ![w] = "idle"]
  /\ UNCHANGED <<clock, head, stamp, purge, cutoff, anchor, faults>>

Fault == faults < MaxFaults /\ faults' = faults + 1

\* The head query fails.  The caller swallows the exception and goes on with
\* its transaction open, and with it the lock.
ReadFails(w) ==
  /\ pc[w] = "locked"
  /\ Fault
  /\ pc' = [pc EXCEPT ![w] = "aborted"]
  /\ UNCHANGED <<clock, chain, kept, lock, head, stamp, purge, cutoff, anchor>>

\* The flush of the row fails, which rolls the transaction back at once.
InsertFails(w) ==
  /\ pc[w] = "writing"
  /\ Fault
  /\ lock' = Released(w)
  /\ pc' = [pc EXCEPT ![w] = "idle"]
  /\ UNCHANGED <<clock, chain, kept, head, stamp, purge, cutoff, anchor>>

\* The caller rolls back or closes its session, now or much later.
Close(w) ==
  /\ pc[w] = "aborted"
  /\ lock' = Released(w)
  /\ pc' = [pc EXCEPT ![w] = "idle"]
  /\ UNCHANGED <<clock, chain, kept, head, stamp, purge, cutoff, anchor, faults>>

-----------------------------------------------------------------------------
(* The audit part of the purge.                                            *)

BeginPurge ==
  /\ purge = "idle"
  /\ purge' = "begun"
  /\ cutoff' = clock - Retention
  /\ UNCHANGED <<clock, chain, kept, lock, pc, head, stamp, anchor, faults>>

PurgeReadsHead ==
  /\ purge = "begun"
  /\ purge' = "anchored"
  /\ anchor' = Newest
  /\ UNCHANGED <<clock, chain, kept, lock, pc, head, stamp, cutoff, faults>>

\* Reading MAX(id) fails, which counts as a table without rows.  PostgreSQL then
\* refuses the rest of the transaction, whose commit rolls it back; SQLite goes
\* on without a row to spare.
PurgeMissesHead ==
  /\ purge = "begun"
  /\ Fault
  /\ purge' = IF Postgres THEN "idle" ELSE "anchored"
  /\ anchor' = 0
  /\ UNCHANGED <<clock, chain, kept, lock, pc, head, stamp, cutoff>>

Expired == {i \in kept : chain[i].at < cutoff /\ i # anchor}

PurgeDeletes ==
  /\ purge = "anchored"
  /\ purge' = "idle"
  /\ kept' = kept \ Expired
  /\ UNCHANGED <<clock, chain, lock, pc, head, stamp, cutoff, anchor, faults>>

\* The DELETE, a later one, or the commit fails: nothing is deleted.
PurgeFails ==
  /\ purge = "anchored"
  /\ Fault
  /\ purge' = "idle"
  /\ UNCHANGED <<clock, chain, kept, lock, pc, head, stamp, cutoff, anchor>>

\* An append that is under way ends well within the window of a purge.
Tick ==
  /\ clock < MaxTime
  /\ \A w \in Writers : pc[w] = "writing" => clock + 1 - stamp[w] <= Retention
  /\ clock' = clock + 1
  /\ UNCHANGED <<chain, kept, lock, pc, head, stamp, purge, cutoff, anchor, faults>>

-----------------------------------------------------------------------------

Writer(w) ==
  \/ Request(w) \/ Lock(w) \/ ReadHead(w) \/ Insert(w)
  \/ ReadFails(w) \/ InsertFails(w) \/ Close(w)

Next ==
  \/ \E w \in Writers : Writer(w)
  \/ BeginPurge \/ PurgeReadsHead \/ PurgeMissesHead \/ PurgeDeletes \/ PurgeFails
  \/ Tick

Spec == Init /\ [][Next]_vars

\* A session goes on with what it began, sooner or later closes, and is not
\* passed over for ever by the queue of the lock.
Fairness ==
  \A w \in Writers :
    /\ SF_vars(Lock(w))
    /\ WF_vars(ReadHead(w) \/ Insert(w) \/ ReadFails(w) \/ InsertFails(w))
    /\ WF_vars(Close(w))

FairSpec == Spec /\ Fairness

-----------------------------------------------------------------------------
(* verify_rows: the first row must have no prev_hash, every other one the  *)
(* hash of the row before it in the order of ids.                          *)

Previous(i) ==
  LET older == {j \in kept : j < i}
  IN  IF older = {} THEN 0 ELSE CHOOSE j \in older : \A k \in older : k <= j

Verifies == \A i \in kept : chain[i].prev = Previous(i)

-----------------------------------------------------------------------------
(* Properties.                                                             *)

\* Every variable keeps its type, and what was read was once written.
TypeOK ==
  /\ clock \in Times
  /\ chain \in Seq(Link)
  /\ kept \subseteq Rows
  /\ lock \in Writers \cup {Nobody}
  /\ pc \in [Writers -> {"idle", "waiting", "locked", "writing", "aborted"}]
  /\ head \in [Writers -> {0} \cup Rows]
  /\ stamp \in [Writers -> Times]
  /\ purge \in {"idle", "begun", "anchored"}
  /\ cutoff \in Int
  /\ anchor \in {0} \cup Rows
  /\ faults \in 0..MaxFaults

\* No two rows name the same predecessor, however appends interleave (audit.py,
\* "or two rows share a prev_hash and the chain forks").
NoFork ==
  \A i, j \in Rows : chain[i].prev = chain[j].prev => i = j

\* The newest row ever written is still there, also when it is older than the
\* window and when appends run beside the purge (retention.py, "never
\* deleted").
HeadKept == chain # <<>> => Len(chain) \in kept

\* Among the rows that survive a purge each one still names the one before it:
\* the purge takes a prefix and never a row out of the middle.
SurvivorsLinked ==
  \A i \in kept : Previous(i) # 0 => chain[i].prev = Previous(i)

\* The verifier accepts the log exactly when no row was purged from it.
VerifiesIfComplete == Verifies <=> kept = Rows

\* An append that asks for the lock comes to an end, also when another session
\* fails while it holds the lock.
AppendsFinish == \A w \in Writers : pc[w] = "waiting" ~> pc[w] = "idle"

\* On PostgreSQL the log is the hash chain of HashChain.
Promise == INSTANCE HashChain
             WITH links <- [i \in Rows |-> chain[i].prev], kept <- kept

ImplementsHashChain == Promise!Spec
=============================================================================
