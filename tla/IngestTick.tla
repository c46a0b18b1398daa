----------------------------- MODULE IngestTick -----------------------------
(***************************************************************************)
(* Ticks that ingest daily bars: ingest_symbols of                         *)
(* backend/market_data/ingest.py as /api/cron/ingest calls it, for a shard *)
(* of the universe under a budget, or for a few named symbols without one. *)
(*                                                                         *)
(* A tick resolves its symbols, fetches them in a pool, and persists what  *)
(* came back one symbol at a time on one session of the database.  Several *)
(* ticks run at once: the scheduler's shards, a manual run, a retry of a   *)
(* request that timed out while its tick goes on.  Prices are left out, a  *)
(* symbol's rows being one thing that a commit makes durable; upserts are  *)
(* idempotent.  Seconds are counted per tick, from its entry.              *)
(***************************************************************************)
EXTENDS Integers, Sequences, SequencesExt

CONSTANTS
  Ticks,        \* requests being served
  Universe,     \* the symbols of the universe, sorted
  Named,        \* a list of symbols asked for by name
  Resolvable,   \* the symbols the registry or the provisional rule knows
  Shards,       \* how many slices the universe is warmed in
  TickBudget,   \* _INGEST_TICK_BUDGET_S
  Reserve,      \* _PERSIST_RESERVE_S
  PoolFloor,    \* the least the pool is given
  PoolCeiling,  \* the most a budgeted pool is given
  LegacyPool,   \* what a pool without a budget is given
  Slow          \* bound: seconds to connect, or to persist one symbol

ASSUME IngestAssumption ==
  /\ Universe \in Seq(ToSet(Universe)) /\ Named \in Seq(ToSet(Named))
  /\ {TickBudget, Reserve, PoolFloor, PoolCeiling, LegacyPool} \subseteq Nat
  /\ PoolFloor <= PoolCeiling /\ {Shards, Slow} \subseteq Nat \ {0}

VARIABLES
  tick,        \* the requests
  instruments, \* symbols that have a committed row in instruments
  barred,      \* symbols whose bars are committed
  clean        \* shards a tick of which has ended without an error

ingestVars == <<tick, instruments, barred, clean>>

-----------------------------------------------------------------------------

Lesser(a, b) == IF a <= b THEN a ELSE b

Greater(a, b) == IF a >= b THEN a ELSE b

NoTick ==
  [at |-> "idle", shard |-> 0, wanted |-> <<>>, elapsed |-> 0, connected |-> 0,
   errors |-> {}, fetched |-> {}, left |-> {}, inserted |-> {}, ingested |-> {}]

IngestInit ==
  /\ tick = [t \in Ticks |-> NoTick]
  /\ instruments = {}
  /\ barred = {}
  /\ clean = {}

TickAt(t, where) == tick[t].at = where

Update(t, new) == tick' = [tick EXCEPT ![t] = new]

\* shard_symbols: every Shards-th symbol, from the shard's place on.
Shard(shard) ==
  [k \in 1..(Len(Universe) - shard) \div Shards + 1 |->
     Universe[shard + (k - 1) * Shards]]

WantedBy(t) == ToSet(tick[t].wanted)

\* A list by name has no budget: it is short.
Budgeted(t) == tick[t].shard > 0

-----------------------------------------------------------------------------

Request(t) ==
  /\ TickAt(t, "idle")
  /\ \E shard \in 0..Shards :
       Update(t, [NoTick EXCEPT !.at = "connects", !.shard = shard,
                    !.wanted = IF shard = 0 THEN Named ELSE Shard(shard)])
  /\ UNCHANGED <<instruments, barred, clean>>

\* The clock runs from the entry on, the connection included.
Connect(t) ==
  /\ TickAt(t, "connects")
  /\ \E s \in {0, Slow} :
       Update(t, [tick[t] EXCEPT !.at = "fetches", !.elapsed = s, !.connected = s])
  /\ UNCHANGED <<instruments, barred, clean>>

Unreachable(t) ==
  /\ TickAt(t, "connects")
  /\ Update(t, [tick[t] EXCEPT !.at = "ends", !.errors = WantedBy(t)])
  /\ UNCHANGED <<instruments, barred, clean>>

\* A slip, and what the code once did: the time already spent is forgotten.
PoolFromStart(t) ==
  IF Budgeted(t)
  THEN Greater(PoolFloor, Lesser(PoolCeiling, TickBudget))
  ELSE LegacyPool

\* What the pool is given: the budget less what is spent and what persisting
\* will need.
Pool(t) ==
  IF Budgeted(t)
  THEN Greater(PoolFloor,
               Lesser(PoolCeiling, TickBudget - tick[t].elapsed - Reserve))
  ELSE LegacyPool

Resolved(t) == WantedBy(t) \cap Resolvable

\* What was fetched is left to be persisted.
Fetches(t, fetched, seconds) ==
  Update(t, [tick[t] EXCEPT
    !.at = "persists", !.elapsed = @ + seconds, !.fetched = fetched,
    !.errors = WantedBy(t) \ fetched, !.left = fetched])

\* All futures were heard in time; some failed, on every link of the chain.
FetchAll(t) ==
  /\ TickAt(t, "fetches")
  /\ \E fetched \in SUBSET Resolved(t), seconds \in {0, Pool(t)} :
       Fetches(t, fetched, seconds)
  /\ UNCHANGED <<instruments, barred, clean>>

\* The pool timed out: what is missing is an error under a budget, and its
\* call goes on unheard.
FetchSome(t) ==
  /\ TickAt(t, "fetches") /\ Budgeted(t)
  /\ \E fetched \in SUBSET Resolved(t) :
       fetched # Resolved(t) /\ Fetches(t, fetched, Pool(t))
  /\ UNCHANGED <<instruments, barred, clean>>

\* Without one, what is missing is fetched again, one by one.
FetchOneByOne(t) ==
  /\ TickAt(t, "fetches") /\ ~Budgeted(t)
  /\ \E heard \in SUBSET Resolved(t), late \in SUBSET Resolved(t) :
       /\ late # {} /\ heard \cap late = {}
       /\ Fetches(t, heard \cup late, Pool(t))
  /\ UNCHANGED <<instruments, barred, clean>>

-----------------------------------------------------------------------------
(* Persisting, in the order asked for.                                     *)

Current(t) ==
  LET wanted == tick[t].wanted
      place == CHOOSE i \in DOMAIN wanted :
                 /\ wanted[i] \in tick[t].left
                 /\ \A k \in 1..i - 1 : wanted[k] \notin tick[t].left
  IN  wanted[place]

Expired(t) == Budgeted(t) /\ tick[t].elapsed >= TickBudget

Working(t) == TickAt(t, "persists") /\ tick[t].left # {}

\* The current symbol failed: rollback, and the next one.
Failed(t, new) ==
  Update(t, [new EXCEPT !.at = "persists", !.inserted = {},
                        !.errors = @ \cup {Current(t)}, !.left = @ \ {Current(t)}])

Defer(t) ==
  /\ Working(t) /\ Expired(t)
  /\ Failed(t, tick[t])
  /\ UNCHANGED <<instruments, barred, clean>>

\* _get_or_create_db_instrument looks for the row first.
Find(t) ==
  /\ Working(t) /\ ~Expired(t)
  /\ Update(t, [tick[t] EXCEPT
       !.at = IF Current(t) \in instruments THEN "upserts" ELSE "inserts"])
  /\ UNCHANGED <<instruments, barred, clean>>

\* An insert waits for another tick's uncommitted one of the same symbol.
Insertable(t) == \A u \in Ticks \ {t} : Current(t) \notin tick[u].inserted

Insert(t) ==
  /\ TickAt(t, "inserts") /\ Insertable(t)
  /\ Current(t) \notin instruments
  /\ Update(t, [tick[t] EXCEPT !.at = "upserts", !.inserted = {Current(t)}])
  /\ UNCHANGED <<instruments, barred, clean>>

\* The race for the row is lost: rollback, and the winner's row is found.
LoseRace(t) ==
  /\ TickAt(t, "inserts") /\ Insertable(t)
  /\ Current(t) \in instruments
  /\ Update(t, [tick[t] EXCEPT !.at = "upserts"])
  /\ UNCHANGED <<instruments, barred, clean>>

Commit(t) ==
  /\ TickAt(t, "upserts")
  /\ instruments' = instruments \cup tick[t].inserted
  /\ barred' = barred \cup {Current(t)}
  /\ \E s \in {0, Slow} :
       Update(t, [tick[t] EXCEPT
         !.at = "persists", !.elapsed = @ + s, !.inserted = {},
         !.ingested = @ \cup {Current(t)}, !.left = @ \ {Current(t)}])
  /\ UNCHANGED clean

\* A flush or a commit fails: nothing of this symbol stays.
RowFails(t) ==
  /\ TickAt(t, "inserts") \/ TickAt(t, "upserts")
  /\ \E s \in {0, Slow} : Failed(t, [tick[t] EXCEPT !.elapsed = @ + s])
  /\ UNCHANGED <<instruments, barred, clean>>

LastCommitted(t) ==
  /\ TickAt(t, "persists") /\ tick[t].left = {}
  /\ Update(t, [tick[t] EXCEPT !.at = "ends"])
  /\ UNCHANGED <<instruments, barred, clean>>

\* The report is sent.
Report(t) ==
  /\ TickAt(t, "ends")
  /\ clean' = IF tick[t].errors = {} THEN clean \cup {tick[t].shard} ELSE clean
  /\ Update(t, NoTick)
  /\ UNCHANGED <<instruments, barred>>

\* The process is killed; what it had not committed is rolled back.
Kill(t) ==
  /\ ~TickAt(t, "idle")
  /\ Update(t, NoTick)
  /\ UNCHANGED <<instruments, barred, clean>>

-----------------------------------------------------------------------------

IngestNext ==
  \E t \in Ticks :
    \/ Request(t) \/ Connect(t) \/ Unreachable(t)
    \/ FetchAll(t) \/ FetchSome(t) \/ FetchOneByOne(t)
    \/ Defer(t) \/ Find(t) \/ Insert(t) \/ LoseRace(t)
    \/ Commit(t) \/ RowFails(t) \/ LastCommitted(t) \/ Report(t) \/ Kill(t)

IngestSpec == IngestInit /\ [][IngestNext]_ingestVars

-----------------------------------------------------------------------------
(* Properties.                                                             *)

\* A tick that ends accounts for every symbol it was asked for, once, and what
\* it calls ingested is committed, whatever other ticks and failures did
\* (ingest.py:803, 1016).
TickAccounts ==
  \A t \in Ticks :
    TickAt(t, "ends") =>
      /\ tick[t].errors \cup tick[t].ingested = WantedBy(t)
      /\ tick[t].errors \cap tick[t].ingested = {}
      /\ tick[t].ingested \subseteq barred

\* A budgeted tick is over its budget by no more than the one symbol it was
\* persisting, or by the least its pool is given when connecting took the
\* budget (ingest.py:808, 934).
TickInTime ==
  \A t \in Ticks :
    Budgeted(t) =>
      tick[t].elapsed <= Greater(TickBudget + Slow - 1, tick[t].connected + PoolFloor)

\* Once every shard has had a tick without errors, the universe is warm
\* (ingest.py:188).
UniverseWarm ==
  1..Shards \subseteq clean => ToSet(Universe) \subseteq barred

\* A tick accounts for its symbols, keeps to its budget and warms its shard.
TickKeepsItsWord == TickAccounts /\ TickInTime /\ UniverseWarm
=============================================================================
