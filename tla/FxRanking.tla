----------------------------- MODULE FxRanking -----------------------------
(***************************************************************************)
(* Rankings of prices in several currencies: fx_rank of backend/api/fx.py  *)
(* over FXProvider of backend/market_data/fx/provider.py and the gate of   *)
(* backend/market_data/fx/convert.py.                                      *)
(*                                                                         *)
(* A ranking gathers one rate per currency, one after the other, while     *)
(* time passes: from a cache the rankings share, from Frankfurter, or from *)
(* Yahoo.  A rate is a daily fix and carries the time it stands for, the   *)
(* start of its day, which is not the time it was published or fetched.    *)
(* At the end one gate judges all rates by the oldest.                     *)
(***************************************************************************)
EXTENDS Integers, FiniteSetsExt

CONSTANTS
  Rankings,    \* requests
  Foreign,     \* the currencies that are not the target's
  DayLength,   \* hours of a day, in units
  PublishedAt, \* when, in a day, its fix is published
  MaxFixAge,   \* MAX_AGE_HOURS
  FixTtl,      \* CACHE_TTL_S
  BreakAfter,  \* failures that open the breaker
  BrokenFor,   \* how long it stays open
  FxMaxTime    \* bound on the clock

ASSUME FxAssumption ==
  /\ {DayLength, MaxFixAge, FixTtl, BreakAfter, BrokenFor, FxMaxTime} \subseteq Nat \ {0}
  /\ PublishedAt \in 0..DayLength

VARIABLES
  fxNow,     \* the clock, from DayLength on: the fix of day 0 is out
  rates,     \* the provider's cache: a fix and when it was fetched
  guard,     \* the provider's breaker
  ranking    \* what each request does

fxVars == <<fxNow, rates, guard, ranking>>

-----------------------------------------------------------------------------

\* The times of the fixes that are out.
Fixes == {fix \in {DayLength * day : day \in 0..FxMaxTime} : fix + PublishedAt <= fxNow}

NoRate == [fix |-> 0, fetched |-> -FixTtl - 1]

Unasked == [at |-> "idle", left |-> {}, pairs |-> {}, answered |-> 0]

FxInit ==
  /\ fxNow = DayLength
  /\ rates = [c \in Foreign |-> NoRate]
  /\ guard = [failures |-> 0, open |-> FALSE, since |-> 0]
  /\ ranking = [r \in Rankings |-> Unasked]

\* The currency a ranking asks for next; the code takes them by name.
NextOf(r) == CHOOSE c \in ranking[r].left : TRUE

Rated(r, fix, fetched) ==
  ranking' = [ranking EXCEPT
    ![r].at = "rates",
    ![r].left = @ \ {NextOf(r)},
    ![r].pairs = @ \cup {[currency |-> NextOf(r), fix |-> fix, fetched |-> fetched, used |-> fxNow]}]

EndRanking(r, status) ==
  ranking' = [ranking EXCEPT ![r].at = status, ![r].answered = fxNow]

-----------------------------------------------------------------------------

\* The quotes have come, those of symbols that failed left out; the rate of
\* the target's own currency is 1, as of now.
Quote(r) ==
  /\ ranking[r].at = "idle"
  /\ \E currencies \in SUBSET Foreign :
       ranking' = [ranking EXCEPT ![r].at = "rates", ![r].left = currencies]
  /\ UNCHANGED <<fxNow, rates, guard>>

\* _cache_get, which drops what has expired
Cached(c) == rates[c] # NoRate /\ fxNow < rates[c].fetched + FixTtl

Rating(r) == ranking[r].at = "rates" /\ ranking[r].left # {}

RateFromCache(r) ==
  /\ Rating(r)
  /\ Cached(NextOf(r))
  /\ Rated(r, rates[NextOf(r)].fix, rates[NextOf(r)].fetched)
  /\ UNCHANGED <<fxNow, rates, guard>>

WithoutLapsed(c) == IF Cached(c) THEN rates ELSE [rates EXCEPT ![c] = NoRate]

Barred == guard.open /\ fxNow - guard.since < BrokenFor

\* The breaker refuses: 502.
Bar(r) ==
  /\ Rating(r) /\ ~Cached(NextOf(r))
  /\ Barred
  /\ rates' = WithoutLapsed(NextOf(r))
  /\ EndRanking(r, "failed")
  /\ UNCHANGED <<fxNow, guard>>

AskVendors(r) ==
  /\ Rating(r) /\ ~Cached(NextOf(r))
  /\ ~Barred
  /\ rates' = WithoutLapsed(NextOf(r))
  /\ ranking' = [ranking EXCEPT ![r].at = "asks"]
  /\ UNCHANGED <<fxNow, guard>>

\* Frankfurter has the last fix, Yahoo, which is asked when that fails, has it
\* or an earlier bar; an answer without a date that can be read is stamped now.
VendorsAnswer(r) ==
  /\ ranking[r].at = "asks"
  /\ \E fix \in Fixes \cup {fxNow} :
       /\ rates' = [rates EXCEPT ![NextOf(r)] = [fix |-> fix, fetched |-> fxNow]]
       /\ Rated(r, fix, fxNow)
  /\ guard' = [guard EXCEPT !.failures = 0, !.open = FALSE]
  /\ UNCHANGED fxNow

VendorsFail(r) ==
  /\ ranking[r].at = "asks"
  /\ guard' = LET n == IF guard.failures < BreakAfter THEN guard.failures + 1 ELSE BreakAfter
              IN IF guard.open \/ n >= BreakAfter
                 THEN [failures |-> n, open |-> TRUE, since |-> fxNow]
                 ELSE [guard EXCEPT !.failures = n]
  /\ EndRanking(r, "failed")
  /\ UNCHANGED <<fxNow, rates>>

-----------------------------------------------------------------------------
(* The gate.                                                               *)

Stamps(r) == {pair.fix : pair \in ranking[r].pairs}

\* The newest rate vouches for the others.
NewestStamp(r) == Max(Stamps(r) \cup {0})

\* _combine_provenance: a rate of the target itself is as of now.
OldestStamp(r) == Min(Stamps(r) \cup {fxNow})

\* require_fx_provenance
Judge(r) ==
  /\ ranking[r].at = "rates" /\ ranking[r].left = {}
  /\ EndRanking(r, IF fxNow - OldestStamp(r) > MaxFixAge THEN "stale" ELSE "ranked")
  /\ UNCHANGED <<fxNow, rates, guard>>

FxTick ==
  /\ fxNow < FxMaxTime
  /\ fxNow' = fxNow + 1
  /\ UNCHANGED <<rates, guard, ranking>>

FxNext ==
  \/ \E r \in Rankings :
       \/ Quote(r) \/ RateFromCache(r) \/ Bar(r) \/ AskVendors(r)
       \/ VendorsAnswer(r) \/ VendorsFail(r) \/ Judge(r)
  \/ FxTick

FxSpec == FxInit /\ [][FxNext]_fxVars

-----------------------------------------------------------------------------
(* Properties.                                                             *)

\* No price is ranked by a rate whose stamp is more than a day old, however long
\* ago it was cached and however long the other rates took; the stamp is the time
\* of the fix where the answer had one (_combine_provenance and
\* require_fx_provenance).
RankedOnFresh ==
  \A r \in Rankings : \A pair \in ranking[r].pairs :
    ranking[r].at = "ranked" => ranking[r].answered - pair.fix <= MaxFixAge

\* What the cache adds to the age of a rate stays below FixTtl, for every rate
\* of a ranking and whoever fetched it: an entry that has lapsed is dropped by
\* the request that finds it (_cache_get and _cache_put of FXProvider).
CacheAddsLittle ==
  \A r \in Rankings : \A pair \in ranking[r].pairs : pair.used - pair.fetched < FixTtl

\* A ranking rests on recent fixes, and the cache is not what makes them old.
FixesAreRecent == RankedOnFresh /\ CacheAddsLittle
=============================================================================
