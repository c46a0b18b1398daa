---------------------------- MODULE QuotaLimiter ----------------------------
(***************************************************************************)
(* QuotaLimiter (backend/market_data/providers/base.py): the calls per     *)
(* minute and per day one process makes to a vendor of market data.        *)
(*                                                                         *)
(* A thread reads the monotonic clock and then waits for the lock, so the  *)
(* stamp it works with may be older than the time at which it decides, and *)
(* stamps may enter the queue out of order.  Days come from the wall clock *)
(* and are read under the lock; a correction of that clock may set it back *)
(* over midnight once more.  The counters of refused calls are left out,   *)
(* as are internal errors, which admit the call.                           *)
(***************************************************************************)
EXTENDS SlidingWindow, FiniteSets

CONSTANTS
  Threads,    \* threads that call the provider
  PerMinute,  \* calls_per_minute, 0 for no cap
  PerDay,     \* calls_per_day, 0 for no cap
  Window,     \* the length of the minute
  MaxDelay,   \* bound: how long a thread waits for the lock
  MaxTime,    \* bound: the monotonic clock
  MaxDay      \* bound: the date

ASSUME CapsAssumption == PerMinute \in Nat /\ PerDay \in Nat

ASSUME TimesAssumption == Window \in Nat /\ MaxDelay \in Nat

ASSUME BoundsAssumption == MaxTime \in Nat /\ MaxDay \in Nat \ {0}

VARIABLES
  now,     \* the monotonic clock
  latest,  \* the latest date the wall clock has shown
  today,   \* the date it shows
  stamp,   \* the clock as a thread in acquire has read it
  hits,    \* _minute_hits
  counts,  \* _day_counts
  calls    \* every call admitted: when, with which stamp, on which day

clocks == <<now, latest, today>>

vars == <<clocks, stamp, hits, counts, calls>>

-----------------------------------------------------------------------------

NoStamp == -1

Days == 0..MaxDay

Count(day) == IF day \in DOMAIN counts THEN counts[day] ELSE 0

\* A slip: a stamp leaves a moment too soon.
FreshEarly(t) ==
  IF PerMinute > 0 THEN Remaining(hits, stamp[t] - Window + 1) ELSE hits

\* The queue after a thread's purge; it is kept for a capped minute only.
Fresh(t) ==
  IF PerMinute > 0 THEN Remaining(hits, stamp[t] - Window) ELSE hits

MinuteFull(t) == PerMinute > 0 /\ Len(Fresh(t)) >= PerMinute

DayFull == PerDay > 0 /\ Count(today) >= PerDay

\* The dates that stay: the last two, once there are more than three.
LastTwo(days) ==
  IF Cardinality(days) > 3
  THEN {d \in days : Cardinality({e \in days : e > d}) < 2}
  ELSE days

Counted(day) ==
  LET days == LastTwo(DOMAIN counts \cup {day})
  IN  [d \in days |-> IF d = day THEN Count(day) + 1 ELSE counts[d]]

Init ==
  /\ now = 0
  /\ latest = 1
  /\ today = 1
  /\ stamp = [t \in Threads |-> NoStamp]
  /\ hits = <<>>
  /\ counts = [d \in {} |-> 0]
  /\ calls = <<>>

-----------------------------------------------------------------------------
(* acquire.                                                                *)

ReadClock(t) ==
  /\ stamp[t] = NoStamp
  /\ stamp' = [stamp EXCEPT ![t] = now]
  /\ UNCHANGED <<clocks, hits, counts, calls>>

Leave(t) == stamp' = [stamp EXCEPT ![t] = NoStamp]

Call(t) == [at |-> now, stamp |-> stamp[t], day |-> today]

Admit(t) ==
  /\ stamp[t] # NoStamp
  /\ ~MinuteFull(t) /\ ~DayFull
  /\ hits' = IF PerMinute > 0 THEN Append(Fresh(t), stamp[t]) ELSE hits
  /\ counts' = IF PerDay > 0 THEN Counted(today) ELSE counts
  /\ calls' = Append(calls, Call(t))
  /\ Leave(t)
  /\ UNCHANGED clocks

RefuseForMinute(t) ==
  /\ stamp[t] # NoStamp
  /\ MinuteFull(t)
  /\ hits' = Fresh(t)
  /\ Leave(t)
  /\ UNCHANGED <<clocks, counts, calls>>

RefuseForDay(t) ==
  /\ stamp[t] # NoStamp
  /\ ~MinuteFull(t) /\ DayFull
  /\ hits' = Fresh(t)
  /\ Leave(t)
  /\ UNCHANGED <<clocks, counts, calls>>

-----------------------------------------------------------------------------
(* The clocks.                                                             *)

Tick ==
  /\ now < MaxTime
  /\ \A t \in Threads : stamp[t] # NoStamp => now - stamp[t] < MaxDelay
  /\ now' = now + 1
  /\ UNCHANGED <<latest, today, stamp, hits, counts, calls>>

Midnight ==
  /\ today < MaxDay
  /\ today' = today + 1
  /\ latest' = IF today = latest THEN today + 1 ELSE latest
  /\ UNCHANGED <<now, stamp, hits, counts, calls>>

\* A correction of the wall clock shortly after midnight.
SetBack ==
  /\ today = latest
  /\ today' = today - 1
  /\ UNCHANGED <<now, latest, stamp, hits, counts, calls>>

-----------------------------------------------------------------------------

Acquire(t) ==
  ReadClock(t) \/ Admit(t) \/ RefuseForMinute(t) \/ RefuseForDay(t)

Next ==
  \/ \E t \in Threads : Acquire(t)
  \/ Tick \/ Midnight \/ SetBack

Spec == Init /\ [][Next]_vars

-----------------------------------------------------------------------------
(* Properties.                                                             *)

\* Every variable keeps its type, and no queue outgrows its cap.
TypeOK ==
  /\ now \in Nat
  /\ latest \in Days
  /\ today \in {latest - 1, latest}
  /\ stamp \in [Threads -> Nat \cup {NoStamp}]
  /\ hits \in Seq(Nat)
  /\ PerMinute > 0 => Len(hits) <= PerMinute
  /\ DOMAIN counts \subseteq Days
  /\ counts \in [DOMAIN counts -> Nat]
  /\ calls \in Seq([at : Nat, stamp : Nat, day : Days])

\* PerMinute calls and one more never fit in less than the minute, but for the
\* time a thread waited for the lock with its stamp (base.py:206).
MinuteCap ==
  PerMinute > 0 =>
    \A i, j \in DOMAIN calls :
      j = i + PerMinute => calls[j].at - calls[i].at >= Window - MaxDelay

\* No day sees more calls than the cap allows, also when the wall clock is set
\* back over midnight after the older dates were pruned (base.py:232).
DayCap ==
  PerDay > 0 =>
    \A day \in Days :
      Cardinality({i \in DOMAIN calls : calls[i].day = day}) <= PerDay

\* Neither cap is exceeded, whatever the threads and the wall clock do.
CapsHold == MinuteCap /\ DayCap

\* A thread is refused for the minute only if PerMinute calls were made within
\* the last minute and one wait for the lock: a call that was refused, for the
\* day or for the minute, costs nothing (base.py:213, base.py:222).
RefusalsAreJust ==
  \A t \in Threads :
    stamp[t] # NoStamp /\ MinuteFull(t) =>
      /\ Len(calls) >= PerMinute
      /\ now - calls[Len(calls) - PerMinute + 1].at < Window + MaxDelay
=============================================================================
