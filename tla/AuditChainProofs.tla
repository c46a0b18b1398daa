-------------------------- MODULE AuditChainProofs --------------------------
(***************************************************************************)
(* What the audit log guarantees on PostgreSQL for every number of writers *)
(* and appends, every window and every timing of the purge.                *)
(***************************************************************************)
EXTENDS AuditChain, LeastNumber

-----------------------------------------------------------------------------
(* The head of the log.                                                    *)

\* The newest row, when it is the last one ever written.
LEMMA NewestIsLast ==
  ASSUME chain \in Seq(Link), kept \subseteq Rows, HeadKept
  PROVE  Newest = Len(chain)
<1>1. CASE chain = <<>>
  BY <1>1 DEF Newest, Rows
<1>2. CASE chain # <<>>
  <2>1. Len(chain) \in kept /\ \A j \in kept : j <= Len(chain)
    BY <1>2 DEF HeadKept, Rows
  <2>2. \A i \in kept : (\A j \in kept : j <= i) => i = Len(chain)
    BY <2>1 DEF Rows
  <2>3. QED
    BY <2>1, <2>2 DEF Newest
<1>3. QED
  BY <1>1, <1>2

LEMMA RowTypes ==
  ASSUME chain \in Seq(Link), NEW i \in Rows
  PROVE  chain[i] \in Link /\ chain[i].at \in Times /\ chain[i].at \in Int
<1>1. chain[i] \in Link
  BY DEF Rows
<1>2. QED
  BY <1>1 DEF Link, Times

-----------------------------------------------------------------------------
(* The inductive invariant.                                                *)

\* Every row names the row before it.
Linked == \A i \in Rows : chain[i].prev = i - 1

\* A session past the lock holds it.
Excludes ==
  \A w \in Writers : pc[w] \in {"locked", "writing", "aborted"} => lock = w

\* A session about to insert has read the newest row.
HeadRead == \A w \in Writers : pc[w] = "writing" => head[w] = Len(chain)

\* The purge has only ever taken a prefix.
Suffix == \A i \in kept : \A j \in Rows : i < j => j \in kept

\* Rows are in the order of their times.
Ordered == \A i, j \in Rows : i < j => chain[i].at <= chain[j].at

\* A row about to be inserted is no older than any row there is.
Stamped ==
  /\ \A i \in Rows : chain[i].at <= clock
  /\ \A w \in Writers : pc[w] = "writing" =>
       /\ stamp[w] <= clock
       /\ clock - stamp[w] <= Retention
       /\ \A i \in Rows : chain[i].at <= stamp[w]

\* While a purge runs, nothing that is written after its look at the head is
\* old enough for it.
PurgeSafe ==
  /\ purge # "idle" =>
       /\ cutoff <= clock - Retention
       /\ \A w \in Writers : pc[w] = "writing" => stamp[w] >= cutoff
  /\ purge = "anchored" =>
       \A i \in Rows : anchor < i => chain[i].at >= cutoff

Inv ==
  /\ TypeOK
  /\ Linked
  /\ Excludes
  /\ HeadRead
  /\ HeadKept
  /\ Suffix
  /\ Ordered
  /\ Stamped
  /\ PurgeSafe

LEMMA InitInv == Init => Inv
<1> SUFFICES ASSUME Init PROVE Inv
  OBVIOUS
<1> USE BoundsAssumption, WritersAssumption
<1>1. chain = <<>> /\ chain \in Seq(Link) /\ Len(chain) = 0 /\ Rows = {}
  BY DEF Init, Rows
<1>2. 0 \in Times
  BY DEF Times
<1>3. TypeOK
  BY <1>1, <1>2 DEF Init, TypeOK
<1>4. QED
  BY <1>1, <1>3 DEF Init, Inv, Linked, Excludes, HeadRead, HeadKept, Suffix, Ordered,
                    Stamped, PurgeSafe

-----------------------------------------------------------------------------
(* Steps that leave the table alone.                                       *)

\* The conjuncts that speak of the table alone survive such a step.
LEMMA TableKept ==
  ASSUME Inv, UNCHANGED <<chain, kept>>
  PROVE  Linked' /\ HeadKept' /\ Suffix' /\ Ordered'
  BY DEF Inv, Linked, HeadKept, Suffix, Ordered, Rows

LEMMA WriterType ==
  ASSUME Inv, NEW w \in Writers, Writer(w)
  PROVE  TypeOK'
<1> USE BoundsAssumption
<1>1. CASE Request(w)
  BY <1>1 DEF Request, Inv, TypeOK, Rows
<1>2. CASE Lock(w)
  BY <1>2 DEF Lock, Acquired, Inv, TypeOK, Rows
<1>3. CASE ReadHead(w)
  <2>1. Newest \in {0} \cup Rows
    <3>1. Newest = Len(chain)
      BY NewestIsLast DEF Inv, TypeOK
    <3>2. QED
      BY <3>1 DEF Rows, Inv, TypeOK
  <2>2. QED
    BY <1>3, <2>1 DEF ReadHead, Inv, TypeOK, Rows
<1>4. CASE Insert(w)
  <2>1. [prev |-> head[w], at |-> stamp[w]] \in Link
    BY DEF Inv, TypeOK, Link, Rows
  <2>2. chain' \in Seq(Link) /\ Len(chain') = Len(chain) + 1
    BY <1>4, <2>1 DEF Insert, Inv, TypeOK
  <2>3. Rows \subseteq Rows' /\ Len(chain) + 1 \in Rows'
    BY <2>2 DEF Rows, Inv, TypeOK
  <2>4. lock' \in Writers \cup {Nobody}
    BY <1>4 DEF Insert, Released, Inv, TypeOK
  <2>5. QED
    BY <1>4, <2>2, <2>3, <2>4 DEF Insert, Inv, TypeOK
<1>5. CASE ReadFails(w)
  BY <1>5 DEF ReadFails, Fault, Inv, TypeOK, Rows
<1>6. CASE InsertFails(w)
  BY <1>6 DEF InsertFails, Fault, Released, Inv, TypeOK, Rows
<1>7. CASE Close(w)
  BY <1>7 DEF Close, Released, Inv, TypeOK, Rows
<1>8. QED
  BY <1>1, <1>2, <1>3, <1>4, <1>5, <1>6, <1>7 DEF Writer

\* One session at a time is past the lock.
LEMMA AloneInside ==
  ASSUME Inv, Postgres, NEW w \in Writers, lock = w \/ lock = Nobody,
         NEW u \in Writers, u # w
  PROVE  pc[u] \notin {"locked", "writing", "aborted"}
  BY WritersAssumption DEF Inv, Excludes

LEMMA InsertStep ==
  ASSUME Inv, Postgres, NEW w \in Writers, Insert(w)
  PROVE  Inv'
<1> DEFINE row == [prev |-> head[w], at |-> stamp[w]]
           n == Len(chain)
<1>1. TypeOK'
  BY WriterType DEF Writer
<1>2. /\ n \in Nat
      /\ Rows = 1..n
      /\ chain \in Seq(Link)
      /\ row \in Link
  BY DEF Inv, TypeOK, Rows, Link
<1>3. /\ Len(chain') = n + 1
      /\ Rows' = 1..(n + 1)
      /\ \A i \in Rows : chain'[i] = chain[i]
      /\ chain'[n + 1] = row
  BY <1>2 DEF Insert, Rows
<1>4. Linked'
  <2>1. row.prev = n
    BY DEF Inv, HeadRead, Insert
  <2>2. QED
    BY <1>2, <1>3, <2>1 DEF Inv, Linked
<1>5. lock = w
  BY DEF Inv, Excludes, Insert
<1>6. \A u \in Writers : pc'[u] \notin {"locked", "writing", "aborted"}
  <2>1. ASSUME NEW u \in Writers, u # w PROVE pc'[u] \notin {"locked", "writing", "aborted"}
    <3>1. pc'[u] = pc[u]
      BY <2>1 DEF Insert, Inv, TypeOK
    <3>2. QED
      BY <1>5, <2>1, <3>1, AloneInside
  <2>2. pc'[w] = "idle"
    BY DEF Insert, Inv, TypeOK
  <2>3. QED
    BY <2>1, <2>2
<1>7. Excludes' /\ HeadRead'
  BY <1>6 DEF Excludes, HeadRead
<1>8. HeadKept' /\ Suffix'
  BY <1>2, <1>3 DEF HeadKept, Suffix, Insert, Inv, TypeOK
<1>9. row.at <= clock /\ \A i \in Rows : chain[i].at <= row.at
  BY DEF Insert, Inv, Stamped
<1>10. Ordered'
  BY <1>2, <1>3, <1>9 DEF Ordered, Inv, TypeOK
<1>11. Stamped'
  BY <1>2, <1>3, <1>6, <1>9 DEF Stamped, Inv, Insert
<1>12. PurgeSafe'
  <2>1. purge # "idle" => row.at >= cutoff
    BY DEF Insert, Inv, PurgeSafe
  <2>2. QED
    BY <1>2, <1>3, <1>6, <2>1 DEF PurgeSafe, Inv, Insert
<1>13. QED
  BY <1>1, <1>4, <1>7, <1>8, <1>10, <1>11, <1>12 DEF Inv

LEMMA ReadHeadStep ==
  ASSUME Inv, Postgres, NEW w \in Writers, ReadHead(w)
  PROVE  Inv'
<1>1. TypeOK'
  BY WriterType DEF Writer
<1>2. Linked' /\ HeadKept' /\ Suffix' /\ Ordered'
  BY TableKept DEF ReadHead
<1>3. lock = w
  BY DEF Inv, Excludes, ReadHead
<1>4. /\ pc'[w] = "writing"
      /\ head'[w] = Newest
      /\ stamp'[w] = clock
      /\ \A u \in Writers : u # w => pc'[u] = pc[u] /\ pc'[u] # "writing"
  <2>1. \A u \in Writers : u # w => pc'[u] = pc[u]
    BY DEF ReadHead, Inv, TypeOK
  <2>2. \A u \in Writers : u # w => pc[u] # "writing"
    BY <1>3, AloneInside
  <2>3. QED
    BY <2>1, <2>2 DEF ReadHead, Inv, TypeOK
<1>5. Excludes'
  BY <1>3, <1>4 DEF Excludes, Inv, ReadHead
<1>6. HeadRead'
  <2>1. Newest = Len(chain)
    BY NewestIsLast DEF Inv, TypeOK
  <2>2. QED
    BY <1>4, <2>1 DEF HeadRead, ReadHead
<1>7. Stamped'
  <2>1. \A i \in Rows : chain[i].at <= clock
    BY DEF Inv, Stamped
  <2>2. clock <= clock /\ clock - clock <= Retention
    BY RetentionAssumption DEF Inv, TypeOK, Times
  <2>3. QED
    BY <1>4, <2>1, <2>2 DEF Stamped, Rows, ReadHead
<1>8. PurgeSafe'
  <2>1. purge # "idle" => cutoff <= clock - Retention /\ cutoff <= clock
    BY RetentionAssumption DEF Inv, PurgeSafe, TypeOK, Times
  <2>2. purge # "idle" => \A u \in Writers : pc'[u] = "writing" => stamp'[u] >= cutoff
    <3>1. \A u \in Writers : u # w => pc'[u] # "writing"
      BY <1>4
    <3>2. purge # "idle" => stamp'[w] >= cutoff
      BY <1>4, <2>1 DEF Inv, TypeOK, Times
    <3>3. QED
      BY <3>1, <3>2
  <2>3. QED
    BY <2>1, <2>2 DEF Inv, PurgeSafe, Rows, ReadHead
<1>9. QED
  BY <1>1, <1>2, <1>5, <1>6, <1>7, <1>8 DEF Inv

\* Every other step of a writer.
LEMMA QuietStep ==
  ASSUME Inv, Postgres, NEW w \in Writers,
         Request(w) \/ Lock(w) \/ ReadFails(w) \/ InsertFails(w) \/ Close(w)
  PROVE  Inv'
<1>1. UNCHANGED <<clock, chain, kept, head, stamp, purge, cutoff, anchor>>
  BY DEF Request, Lock, ReadFails, InsertFails, Close
<1>2. TypeOK'
  BY WriterType DEF Writer
<1>3. Linked' /\ HeadKept' /\ Suffix' /\ Ordered'
  BY <1>1, TableKept
<1>4. \A u \in Writers : pc'[u] = "writing" => pc[u] = "writing"
  BY DEF Request, Lock, ReadFails, InsertFails, Close, Inv, TypeOK
<1>5. HeadRead' /\ Stamped' /\ PurgeSafe'
  BY <1>1, <1>4 DEF Inv, HeadRead, Stamped, PurgeSafe, Rows
<1>6. Excludes'
  <2>1. CASE Request(w)
    BY <2>1 DEF Request, Excludes, Inv, TypeOK
  <2>2. CASE Lock(w)
    BY <2>2, AloneInside DEF Lock, LockFree, Acquired, Excludes, Inv, TypeOK
  <2>3. CASE ReadFails(w)
    BY <2>3 DEF ReadFails, Excludes, Inv, TypeOK
  <2>4. CASE InsertFails(w) \/ Close(w)
    <3>1. lock = w
      BY <2>4 DEF InsertFails, Close, Excludes, Inv
    <3>2. \A u \in Writers : u # w => pc[u] \notin {"locked", "writing", "aborted"}
      BY <3>1, AloneInside
    <3>3. pc'[w] = "idle" /\ \A u \in Writers : u # w => pc'[u] = pc[u]
      BY <2>4 DEF InsertFails, Close, Inv, TypeOK
    <3>4. QED
      BY <3>2, <3>3 DEF Excludes
  <2>5. QED
    BY <2>1, <2>2, <2>3, <2>4
<1>7. QED
  BY <1>2, <1>3, <1>5, <1>6 DEF Inv

-----------------------------------------------------------------------------
(* Steps of the purge and of the clock.                                    *)

\* What a purge deletes is older than everything it leaves.
LEMMA ExpiredIsPrefix ==
  ASSUME Inv, purge = "anchored", NEW i \in Expired, NEW j \in kept \ Expired
  PROVE  i < j
<1>1. /\ i \in kept /\ j \in kept
      /\ i \in Rows /\ j \in Rows
      /\ chain[i].at < cutoff /\ i # anchor
      /\ j = anchor \/ ~(chain[j].at < cutoff)
  BY DEF Expired, Inv, TypeOK
<1>2. /\ i \in Int /\ j \in Int /\ anchor \in Int /\ cutoff \in Int
      /\ chain[i].at \in Int /\ chain[j].at \in Int
  BY <1>1, RowTypes DEF Inv, TypeOK, Rows
<1>3. CASE j = anchor
  BY <1>1, <1>2, <1>3 DEF Inv, PurgeSafe
<1>4. CASE ~(chain[j].at < cutoff)
  <2>1. j < i => chain[j].at <= chain[i].at
    BY <1>1 DEF Inv, Ordered
  <2>2. i # j
    BY <1>1, <1>4
  <2>3. QED
    BY <1>1, <1>2, <1>4, <2>1, <2>2
<1>5. QED
  BY <1>1, <1>3, <1>4

LEMMA HeadNotExpired ==
  ASSUME Inv, purge = "anchored", chain # <<>>
  PROVE  Len(chain) \in kept \ Expired
<1>1. Len(chain) \in kept /\ Len(chain) \in Rows
  BY DEF Inv, HeadKept, Rows, TypeOK
<1>2. anchor = Len(chain) \/ anchor < Len(chain)
  BY <1>1 DEF Inv, TypeOK, Rows
<1>3. anchor < Len(chain) => chain[Len(chain)].at >= cutoff
  BY <1>1 DEF Inv, PurgeSafe
<1>4. chain[Len(chain)].at \in Int /\ cutoff \in Int
  BY <1>1, RowTypes DEF Inv, TypeOK
<1>5. QED
  BY <1>1, <1>2, <1>3, <1>4 DEF Expired

LEMMA PurgeDeletesStep ==
  ASSUME Inv, PurgeDeletes
  PROVE  Inv'
<1>1. /\ purge = "anchored"
      /\ kept' = kept \ Expired
      /\ chain' = chain
      /\ Rows' = Rows
  BY DEF PurgeDeletes, Rows
<1>2. TypeOK'
  BY <1>1 DEF PurgeDeletes, Inv, TypeOK
<1>3. HeadKept'
  BY <1>1, HeadNotExpired DEF HeadKept
<1>4. Suffix'
  <2>1. ASSUME NEW i \in kept \ Expired, NEW j \in Rows, i < j
        PROVE  j \in kept \ Expired
    <3>1. j \in kept
      BY <2>1 DEF Inv, Suffix
    <3>2. CASE j \in Expired
      <4>1. j < i
        BY <1>1, <3>2, ExpiredIsPrefix
      <4>2. QED
        BY <2>1, <3>1, <4>1 DEF Inv, TypeOK, Rows
    <3>3. QED
      BY <3>1, <3>2
  <2>2. QED
    BY <1>1, <2>1 DEF Suffix
<1>5. Linked' /\ Ordered'
  BY <1>1 DEF Inv, Linked, Ordered
<1>6. Excludes' /\ HeadRead' /\ Stamped' /\ PurgeSafe'
  BY <1>1 DEF PurgeDeletes, Inv, Excludes, HeadRead, Stamped, PurgeSafe
<1>7. QED
  BY <1>2, <1>3, <1>4, <1>5, <1>6 DEF Inv

LEMMA PurgeStep ==
  ASSUME Inv, Postgres, BeginPurge \/ PurgeReadsHead \/ PurgeMissesHead \/ PurgeFails
  PROVE  Inv'
<1>1. UNCHANGED <<clock, chain, kept, lock, pc, head, stamp>>
  BY DEF BeginPurge, PurgeReadsHead, PurgeMissesHead, PurgeFails
<1>2. Linked' /\ HeadKept' /\ Suffix' /\ Ordered'
  BY <1>1, TableKept
<1>3. Excludes' /\ HeadRead' /\ Stamped'
  BY <1>1 DEF Inv, Excludes, HeadRead, Stamped, Rows
<1>4. CASE BeginPurge
  <2>1. TypeOK'
    BY <1>4, RetentionAssumption DEF BeginPurge, Inv, TypeOK, Rows, Times
  <2>2. PurgeSafe'
    BY <1>4, RetentionAssumption DEF BeginPurge, Inv, TypeOK, Times, Stamped, PurgeSafe
  <2>3. QED
    BY <1>2, <1>3, <2>1, <2>2 DEF Inv
<1>5. CASE PurgeReadsHead
  <2>1. Newest = Len(chain)
    BY NewestIsLast DEF Inv, TypeOK
  <2>2. anchor' \in {0} \cup Rows /\ \A i \in Rows : ~(anchor' < i)
    BY <1>5, <2>1 DEF PurgeReadsHead, Rows, Inv, TypeOK
  <2>3. TypeOK'
    BY <1>5, <2>2 DEF PurgeReadsHead, Inv, TypeOK, Rows
  <2>4. PurgeSafe'
    BY <1>5, <2>2 DEF PurgeReadsHead, Inv, PurgeSafe, Rows
  <2>5. QED
    BY <1>2, <1>3, <2>3, <2>4 DEF Inv
<1>6. CASE PurgeMissesHead \/ PurgeFails
  <2>1. purge' = "idle"
    BY <1>6 DEF PurgeMissesHead, PurgeFails
  <2>2. faults' \in 0..MaxFaults /\ anchor' \in {0} \cup Rows /\ cutoff' = cutoff
    BY <1>6, BoundsAssumption DEF PurgeMissesHead, PurgeFails, Fault, Inv, TypeOK
  <2>3. TypeOK'
    BY <1>1, <2>1, <2>2 DEF Inv, TypeOK, Rows
  <2>4. PurgeSafe'
    BY <2>1 DEF PurgeSafe
  <2>5. QED
    BY <1>2, <1>3, <2>3, <2>4 DEF Inv
<1>7. QED
  BY <1>4, <1>5, <1>6

LEMMA TickStep ==
  ASSUME Inv, Tick
  PROVE  Inv'
<1>1. UNCHANGED <<chain, kept, lock, pc, head, stamp, purge, cutoff, anchor, faults>>
  BY DEF Tick
<1>2. clock \in Int /\ clock' = clock + 1 /\ clock' \in Times
  BY BoundsAssumption DEF Tick, Inv, TypeOK, Times
<1>3. TypeOK'
  BY <1>1, <1>2 DEF Inv, TypeOK, Rows
<1>4. Linked' /\ HeadKept' /\ Suffix' /\ Ordered'
  BY <1>1, TableKept
<1>5. Excludes' /\ HeadRead'
  BY <1>1 DEF Inv, Excludes, HeadRead
<1>6. Stamped'
  <2>1. \A i \in Rows : chain[i].at <= clock'
    <3>1. \A i \in Rows : chain[i].at <= clock /\ chain[i].at \in Int
      BY RowTypes DEF Inv, TypeOK, Stamped
    <3>2. QED
      BY <1>2, <3>1
  <2>2. \A w \in Writers : pc[w] = "writing" =>
          stamp[w] <= clock' /\ clock' - stamp[w] <= Retention
    BY <1>2 DEF Tick, Inv, Stamped, TypeOK, Times
  <2>3. QED
    BY <1>1, <2>1, <2>2 DEF Inv, Stamped, Rows
<1>7. PurgeSafe'
  BY <1>1, <1>2, RetentionAssumption DEF Inv, PurgeSafe, TypeOK, Rows
<1>8. QED
  BY <1>3, <1>4, <1>5, <1>6, <1>7 DEF Inv

LEMMA StepInv ==
  ASSUME Postgres
  PROVE  Inv /\ [Next]_vars => Inv'
<1> SUFFICES ASSUME Inv, [Next]_vars PROVE Inv'
  OBVIOUS
<1>1. ASSUME NEW w \in Writers, Writer(w) PROVE Inv'
  BY <1>1, InsertStep, ReadHeadStep, QuietStep DEF Writer
<1>2. CASE BeginPurge \/ PurgeReadsHead \/ PurgeMissesHead \/ PurgeFails
  BY <1>2, PurgeStep
<1>3. CASE PurgeDeletes
  BY <1>3, PurgeDeletesStep
<1>4. CASE Tick
  BY <1>4, TickStep
<1>5. CASE UNCHANGED vars
  BY <1>5 DEF vars, Inv, TypeOK, Linked, Excludes, HeadRead, HeadKept, Suffix, Ordered,
              Stamped, PurgeSafe, Rows
<1>6. QED
  BY <1>1, <1>2, <1>3, <1>4, <1>5 DEF Next

\* The invariant holds throughout, on PostgreSQL.
LEMMA Invariant ==
  ASSUME Postgres
  PROVE  Spec => []Inv
<1>1. Init => Inv
  BY InitInv
<1>2. Inv /\ [Next]_vars => Inv'
  BY StepInv
<1>3. QED
  BY <1>1, <1>2, PTL DEF Spec

\* Every variable keeps its type for any number of writers and rows.
THEOREM TypeCorrect ==
  ASSUME Postgres
  PROVE  Spec => []TypeOK
<1>1. Inv => TypeOK
  BY DEF Inv
<1>2. QED
  BY <1>1, Invariant, PTL

-----------------------------------------------------------------------------
(* The chain.                                                              *)

\* The advisory lock of append_audit_log (audit.py:85-90) is enough: no two
\* rows name the same predecessor, whatever fails and whenever the purge runs.
THEOREM ChainNeverForks ==
  ASSUME Postgres
  PROVE  Spec => []NoFork
<1>1. Inv => NoFork
  BY DEF Inv, Linked, NoFork, Rows
<1>2. QED
  BY <1>1, Invariant, PTL

\* The row before a surviving row is the last one before it, if any survives.
LEMMA PreviousRow ==
  ASSUME Inv, NEW i \in kept
  PROVE  /\ (\A j \in kept : ~(j < i)) => Previous(i) = 0
         /\ (\E j \in kept : j < i) => i - 1 \in kept /\ Previous(i) = i - 1
<1> DEFINE older == {j \in kept : j < i}
<1>1. kept \subseteq Rows /\ Rows \subseteq Int
  BY DEF Inv, TypeOK, Rows
<1>2. CASE older = {}
  BY <1>2 DEF Previous
<1>3. CASE older # {}
  <2>1. PICK j \in kept : j < i
    BY <1>3
  <2>2. i - 1 \in Rows /\ (j = i - 1 \/ j < i - 1)
    BY <1>1, <2>1 DEF Rows, Inv, TypeOK
  <2>3. i - 1 \in kept
    BY <2>1, <2>2 DEF Inv, Suffix
  <2>4. i - 1 \in older /\ \A k \in older : k <= i - 1
    BY <1>1, <2>3
  <2>5. \A m \in older : (\A k \in older : k <= m) => m = i - 1
    BY <1>1, <2>4
  <2>6. Previous(i) = i - 1
    BY <1>3, <2>4, <2>5 DEF Previous
  <2>7. QED
    BY <2>1, <2>3, <2>6
<1>4. QED
  BY <1>2, <1>3

\* The purge beside the appends never takes a row out of the middle, and never
\* the newest (retention.py:20-25).
THEOREM PurgeKeepsTheChain ==
  ASSUME Postgres
  PROVE  Spec => [](HeadKept /\ SurvivorsLinked)
<1>1. ASSUME Inv PROVE HeadKept /\ SurvivorsLinked
  <2>1. HeadKept
    BY <1>1 DEF Inv
  <2>2. ASSUME NEW i \in kept, Previous(i) # 0 PROVE chain[i].prev = Previous(i)
    <3>1. Previous(i) = i - 1
      BY <1>1, <2>2, PreviousRow
    <3>2. i \in Rows
      BY <1>1 DEF Inv, TypeOK
    <3>3. QED
      BY <1>1, <3>1, <3>2 DEF Inv, Linked
  <2>3. QED
    BY <2>1, <2>2 DEF SurvivorsLinked
<1>2. Inv => HeadKept /\ SurvivorsLinked
  BY <1>1
<1>3. QED
  BY <1>2, Invariant, PTL

\* What the verifier says is exactly whether the log is complete: it accepts
\* the chain as long as nothing was purged and refuses it ever after
\* (audit_verify.py:41-76).
THEOREM VerifierDetectsPurge ==
  ASSUME Postgres
  PROVE  Spec => []VerifiesIfComplete
<1>1. ASSUME Inv PROVE Verifies <=> kept = Rows
  <2>0. kept \subseteq Rows /\ Rows = 1..Len(chain) /\ Len(chain) \in Nat
    BY <1>1 DEF Inv, TypeOK, Rows
  <2>1. CASE kept = Rows
    <3>1. ASSUME NEW i \in kept PROVE chain[i].prev = Previous(i)
      <4>1. chain[i].prev = i - 1
        BY <1>1, <2>0 DEF Inv, Linked
      <4>2. CASE i = 1
        BY <1>1, <2>0, <4>1, <4>2, PreviousRow
      <4>3. CASE i # 1
        <5>1. 1 \in kept /\ 1 < i
          BY <2>0, <2>1, <4>3
        <5>2. QED
          BY <1>1, <4>1, <5>1, PreviousRow
      <4>4. QED
        BY <4>2, <4>3
    <3>2. QED
      BY <2>1, <3>1 DEF Verifies
  <2>2. CASE Verifies
    <3>1. CASE kept = {}
      <4>1. Len(chain) = 0
        BY <1>1, <3>1 DEF Inv, HeadKept
      <4>2. QED
        BY <2>0, <2>2, <3>1, <4>1
    <3>2. CASE kept # {}
      <4>1. PICK least \in kept : \A n \in kept : least <= n
        BY <2>0, <3>2, LeastExists
      <4>2. Previous(least) = 0
        BY <1>1, <2>0, <4>1, PreviousRow
      <4>3. chain[least].prev = least - 1
        BY <1>1, <2>0 DEF Inv, Linked
      <4>4. least = 1
        BY <2>0, <2>2, <4>2, <4>3 DEF Verifies
      <4>5. \A j \in Rows : j \in kept
        BY <1>1, <2>0, <4>1, <4>4 DEF Inv, Suffix
      <4>6. QED
        BY <2>0, <2>2, <4>5
    <3>3. QED
      BY <3>1, <3>2
  <2>3. QED
    BY <2>1, <2>2
<1>2. Inv => VerifiesIfComplete
  BY <1>1 DEF VerifiesIfComplete
<1>3. QED
  BY <1>2, Invariant, PTL

-----------------------------------------------------------------------------
(* The audit log implements the hash chain.                                *)

LEMMA InitMaps == Init => Promise!Init
<1> SUFFICES ASSUME Init PROVE Promise!Init
  OBVIOUS
<1>1. chain = <<>> /\ Rows = {} /\ kept = {}
  BY DEF Init, Rows
<1>2. [i \in Rows |-> chain[i].prev] = <<>>
  BY <1>1
<1>3. QED
  BY <1>1, <1>2 DEF Promise!Init

LEMMA InsertMaps ==
  ASSUME Inv, NEW w \in Writers, Insert(w)
  PROVE  Promise!Extend
<1> DEFINE n == Len(chain)
           links == [i \in Rows |-> chain[i].prev]
<1>1. /\ n \in Nat
      /\ Rows = 1..n
      /\ chain \in Seq(Link)
      /\ \A i \in Rows : chain[i] \in Link
  BY RowTypes DEF Inv, TypeOK, Rows
<1>2. [prev |-> head[w], at |-> stamp[w]].prev = n
  BY DEF Inv, HeadRead, Insert
<1>3. /\ Rows' = 1..(n + 1)
      /\ \A i \in 1..n : chain'[i] = chain[i]
      /\ chain'[n + 1].prev = n
      /\ kept' = kept \cup {n + 1}
  BY <1>1, <1>2 DEF Insert, Rows
<1>4. links \in Seq(Nat) /\ Len(links) = n
  BY <1>1 DEF Link
<1>5. /\ Len(Append(links, n)) = n + 1
      /\ \A i \in 1..n : Append(links, n)[i] = chain[i].prev
      /\ Append(links, n)[n + 1] = n
      /\ Append(links, n) \in Seq(Nat)
  BY <1>1, <1>4
<1>6. [i \in Rows' |-> chain'[i].prev] = Append(links, n)
  BY <1>1, <1>3, <1>5
<1>7. QED
  BY <1>3, <1>4, <1>6 DEF Promise!Extend

LEMMA PurgeMaps ==
  ASSUME Inv, PurgeDeletes
  PROVE  Promise!Expire \/ UNCHANGED <<chain, kept>>
<1>1. /\ purge = "anchored"
      /\ kept' = kept \ Expired
      /\ chain' = chain
      /\ Rows' = Rows
  BY DEF PurgeDeletes, Rows
<1>2. kept \subseteq Rows /\ Rows = 1..Len(chain) /\ Len(chain) \in Nat
  BY DEF Inv, TypeOK, Rows
<1>3. CASE chain = <<>>
  <2>1. Len(chain) = 0
    BY <1>3
  <2>2. kept = {}
    BY <1>2, <2>1
  <2>3. QED
    BY <1>1, <2>2
<1>4. CASE chain # <<>>
  <2>1. PICK oldest \in kept \ Expired : \A n \in kept \ Expired : oldest <= n
    BY <1>2, <1>4, <1>1, HeadNotExpired, LeastExists
  <2>2. kept \ Expired = kept \cap (oldest..Len(chain))
    <3>1. ASSUME NEW i \in Expired PROVE i < oldest
      BY <1>1, <2>1, ExpiredIsPrefix
    <3>2. Expired \subseteq kept
      BY DEF Expired
    <3>3. \A i \in kept \ Expired : i \in oldest..Len(chain)
      BY <1>2, <2>1
    <3>4. \A i \in kept \cap (oldest..Len(chain)) : i \notin Expired
      BY <1>2, <2>1, <3>1
    <3>5. QED
      BY <3>3, <3>4
  <2>3. Len([i \in Rows |-> chain[i].prev]) = Len(chain)
    BY <1>2
  <2>4. oldest \in 1..Len(chain)
    BY <1>2, <2>1
  <2>5. QED
    BY <1>1, <2>2, <2>3, <2>4 DEF Promise!Expire
<1>5. QED
  BY <1>3, <1>4

LEMMA StepMaps ==
  ASSUME Inv, [Next]_vars
  PROVE  [Promise!Next]_<<[i \in Rows |-> chain[i].prev], kept>>
<1>1. ASSUME NEW w \in Writers, Insert(w) PROVE Promise!Next
  BY <1>1, InsertMaps DEF Promise!Next
<1>2. CASE PurgeDeletes
  BY <1>2, PurgeMaps DEF Promise!Next, Rows
<1>3. CASE UNCHANGED <<chain, kept>>
  BY <1>3 DEF Rows
<1>4. ASSUME NEW w \in Writers, Writer(w), ~Insert(w) PROVE UNCHANGED <<chain, kept>>
  BY <1>4 DEF Writer, Request, Lock, ReadHead, ReadFails, InsertFails, Close
<1>5. CASE BeginPurge \/ PurgeReadsHead \/ PurgeMissesHead \/ PurgeFails \/ Tick
  BY <1>3, <1>5 DEF BeginPurge, PurgeReadsHead, PurgeMissesHead, PurgeFails, Tick
<1>6. CASE UNCHANGED vars
  BY <1>3, <1>6 DEF vars
<1>7. QED
  BY <1>1, <1>2, <1>3, <1>4, <1>5, <1>6 DEF Next

\* Appends under the lock, failures, and the purge beside them are steps of
\* the hash chain or invisible to it.
THEOREM ImplementsChain ==
  ASSUME Postgres
  PROVE  Spec => ImplementsHashChain
<1>1. Init => Promise!Init
  BY InitMaps
<1>2. Inv /\ [Next]_vars => [Promise!Next]_<<[i \in Rows |-> chain[i].prev], kept>>
  BY StepMaps
<1>3. Spec => []Inv
  BY Invariant
<1>4. QED
  BY <1>1, <1>2, <1>3, PTL DEF Spec, ImplementsHashChain, Promise!Spec
=============================================================================
