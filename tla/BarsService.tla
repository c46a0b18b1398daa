---------------------------- MODULE BarsService ----------------------------
(***************************************************************************)
(* Daily bars of one symbol as views ask for them: get_bars of             *)
(* backend/market_data/service.py over the table price_bars, the cache,    *)
(* the marker of a fetch that missed, and the cooldown of Alpaca.          *)
(*                                                                         *)
(* Trading days are numbered.  session is the last completed one; vendors  *)
(* may lag, or hold only one day of a young listing.  A view is one thread *)
(* in get_bars, in one process, and may rest for any time between a query, *)
(* a look at calendar and keys, a call of a vendor and a write to the      *)
(* cache.  Time stands for the lives of cache entries; prices are left     *)
(* out.  A source outside the list _upsert_bars knows (the CSV of Stooq)   *)
(* is written down as yfinance.                                            *)
(***************************************************************************)
EXTENDS Integers, FiniteSets

CONSTANTS
  Views,        \* threads that ask for the bars
  Needed,       \* min(limit, 100): rows that make a payload
  ThinNeeded,   \* min(limit, 30): rows the thin path is content with
  BarsTtl,      \* life of a payload in the cache
  MissTtl,      \* life of the marker of a missed fetch
  Cooldown,     \* _ALPACA_BARS_COOLDOWN_S
  FirstSession, \* the last completed day at the start
  MaxSession,   \* bound: trading days
  MaxTime       \* bound: the clock

ASSUME BarsAssumption ==
  /\ {ThinNeeded, Needed, BarsTtl, MissTtl, Cooldown} \subseteq Nat \ {0}
  /\ ThinNeeded <= Needed
  /\ {FirstSession, MaxSession} \subseteq Nat \ {0} /\ FirstSession <= MaxSession
  /\ MaxTime \in Nat

VARIABLES
  now,        \* the clock
  session,    \* the last completed trading day
  keys,       \* Alpaca's keys are there
  rows,       \* price_bars: the days it holds, and the source of most of them
  cached,     \* the payload in the cache
  missUntil,  \* how long the marker of a missed fetch lives
  coolUntil,  \* _alpaca_bars_unavailable_until
  view,       \* what a view does and holds
  known       \* history: the last completed day when a moment began

clock == <<now, session, keys, known>>

stores == <<rows, cached, missUntil>>

vars == <<clock, stores, coolUntil, view>>

-----------------------------------------------------------------------------

Days == 1..MaxSession

Vendors == {"alpaca", "yfinance"}

NoBars == [days |-> {}, source |-> "yfinance"]

\* What a vendor may hold: every day up to the last session, all but the last
\* two, or the only day of a young listing.
Histories == {1..session, 1..session - 2, {session}}

\* bar_chain.
Chain == IF keys THEN Vendors ELSE Vendors \ {"alpaca"}

Latest(days) == CHOOSE d \in days : \A e \in days : e <= d

\* A payload: its latest day, when it was judged or fetched and when it was
\* put into the cache, if the calendar had a word about it, and if it is served
\* straight from a vendor.
NoPayload == [latest |-> 0, of |-> 0, put |-> -1, judged |-> FALSE, thin |-> FALSE]

Payload(days, judged, thin) ==
  [latest |-> Latest(days), of |-> now, put |-> -1, judged |-> judged, thin |-> thin]

Resting ==
  [at |-> "idle", bars |-> NoBars, tried |-> FALSE, payload |-> NoPayload]

Init ==
  /\ now = 0
  /\ session = FirstSession
  /\ keys \in BOOLEAN
  /\ rows \in {NoBars, [NoBars EXCEPT !.days = 1..FirstSession]}
  /\ cached = NoPayload
  /\ missUntil = -1
  /\ coolUntil = 0
  /\ view = [v \in Views |-> Resting]
  /\ known = [t \in 0..MaxTime |-> FirstSession]

At(v, where) == view[v].at = where

\* The next thing a view does; what it held is done with.
Goes(v, where) == view' = [view EXCEPT ![v] = [Resting EXCEPT !.at = where]]

\* A view holds bars, of the table or of a vendor, on its way to the next place.
Holds(v, where, days, source) ==
  view' = [view EXCEPT ![v] =
    [Resting EXCEPT !.at = where, !.bars = [days |-> days, source |-> source]]]

\* A view has a payload to put into the cache.
Makes(v, payload) ==
  view' = [view EXCEPT ![v] = [Resting EXCEPT !.at = "puts", !.payload = payload]]

-----------------------------------------------------------------------------
(* The table.                                                              *)

Total == Cardinality(rows.days)

\* _get_bars_from_db: too few rows are no payload.
Covered(days) == Cardinality(days) >= Needed

\* A slip: two days behind will do.
FreshLate(latest) == latest >= session - 2

\* _bars_payload_is_fresh: one day behind is tolerated.
Fresh(latest) == latest >= session - 1

\* _upsert_bars: same days are overwritten; who has written most of the days
\* is the source of the whole.
Upserted(days, source) ==
  [days |-> rows.days \cup days,
   source |-> IF 2 * Cardinality(days) >= Cardinality(rows.days \cup days)
              THEN source ELSE rows.source]

-----------------------------------------------------------------------------
(* The cooldown.                                                           *)

Cooling == now < coolUntil

\* _alpaca_bars_wanted, for a symbol Alpaca covers.
Wanted == keys /\ ~Cooling

-----------------------------------------------------------------------------
(* get_bars.                                                               *)

Lives == cached # NoPayload /\ now <= cached.put + BarsTtl

\* A payload that lives is served as it is; otherwise the table is read.
Start(v) ==
  /\ At(v, "idle")
  /\ ~Lives
  /\ Goes(v, "reads")
  /\ UNCHANGED <<clock, stores, coolUntil>>

\* The query, before the vendors are asked or after what they had is stored.
ReadRows(v) ==
  \/ /\ At(v, "reads")
     /\ Holds(v, IF Covered(rows.days) THEN "judges" ELSE "asks", rows.days, rows.source)
     /\ UNCHANGED <<clock, stores, coolUntil>>
  \/ /\ At(v, "rereads")
     /\ Holds(v, IF Covered(rows.days) THEN "rejudges" ELSE "counts", rows.days, rows.source)
     /\ UNCHANGED <<clock, stores, coolUntil>>

Held(v) == view[v].bars.days

\* Fresh, and if the calendar says so or has nothing to say: a registry or a
\* calendar that fails lets rows of any age pass.
PassesGate(v, judged) == judged => Fresh(Latest(Held(v)))

\* Rows that pass are served, unless Alpaca should be asked for its own first.
Judge(v) ==
  /\ At(v, "judges")
  /\ \E judged \in BOOLEAN :
       IF PassesGate(v, judged) /\ (view[v].bars.source = "alpaca" \/ ~Wanted)
       THEN Makes(v, Payload(Held(v), judged, FALSE))
       ELSE Goes(v, "asks")
  /\ UNCHANGED <<clock, stores, coolUntil>>

Rejudge(v) ==
  /\ At(v, "rejudges")
  /\ \E judged \in BOOLEAN :
       IF PassesGate(v, judged) THEN Makes(v, Payload(Held(v), judged, FALSE))
       ELSE Goes(v, "counts")
  /\ UNCHANGED <<clock, stores, coolUntil>>

\* However late, the payload replaces what the cache holds, lives from now, and
\* is served.  One straight from a vendor takes the marker of a miss away too.
Put(v) ==
  /\ At(v, "puts")
  /\ cached' = [view[v].payload EXCEPT !.put = now]
  /\ missUntil' = IF view[v].payload.thin THEN -1 ELSE missUntil
  /\ Goes(v, "idle")
  /\ UNCHANGED <<clock, rows, coolUntil>>

Marked == now <= missUntil

\* Otherwise the vendors are asked; not while the marker of a miss is there.
AskVendors(v) ==
  /\ At(v, "asks")
  /\ Goes(v, IF Marked THEN "counts" ELSE IF Wanted THEN "alpaca" ELSE "chain")
  /\ UNCHANGED <<clock, stores, coolUntil>>

AlpacaAnswers(v) ==
  /\ At(v, "alpaca")
  /\ \E days \in Histories : days # {} /\ Holds(v, "stores", days, "alpaca")
  /\ UNCHANGED <<clock, stores, coolUntil>>

AlpacaMisses(v) ==
  /\ At(v, "alpaca")
  /\ coolUntil' = now + Cooldown
  /\ view' = [view EXCEPT ![v].at = "chain", ![v].tried = TRUE]
  /\ UNCHANGED <<clock, stores>>

\* The other vendors; Alpaca is among them if the cooldown lapsed meanwhile.
ChainAnswers(v) ==
  /\ At(v, "chain")
  /\ \E days \in Histories :
       /\ days # {}
       /\ \E source \in Chain :
            /\ source = "alpaca" => ~view[v].tried /\ ~Cooling
            /\ Holds(v, "stores", days, source)
  /\ UNCHANGED <<clock, stores, coolUntil>>

\* Nobody has bars, or they cannot be stored: the miss is remembered.
Miss(v) ==
  /\ At(v, "chain") \/ At(v, "stores")
  /\ missUntil' = now + MissTtl
  /\ Goes(v, "counts")
  /\ UNCHANGED <<clock, rows, cached, coolUntil>>

Store(v) ==
  /\ At(v, "stores")
  /\ rows' = Upserted(view[v].bars.days, view[v].bars.source)
  /\ missUntil' = -1
  /\ Goes(v, "rereads")
  /\ UNCHANGED <<clock, cached, coolUntil>>

\* How many rows there are now: enough, or none at all, is no bars (502); with
\* a few the vendors are asked once more.
CountRows(v) ==
  /\ At(v, "counts")
  /\ Goes(v, IF Total > 0 /\ Total < Needed THEN "thin" ELSE "idle")
  /\ UNCHANGED <<clock, stores, coolUntil>>

\* Whatever the marker and the cooldown say; what they have is stored if it can
\* be, and served as it is.
ThinAnswers(v) ==
  /\ At(v, "thin")
  /\ \E days \in Histories, source \in Chain :
       Cardinality(days) >= ThinNeeded /\ Holds(v, "keeps", days, source)
  /\ UNCHANGED <<clock, stores, coolUntil>>

KeepThin(v) ==
  /\ At(v, "keeps")
  /\ rows' \in {rows, Upserted(Held(v), view[v].bars.source)}
  /\ Makes(v, Payload(Held(v), FALSE, TRUE))
  /\ UNCHANGED <<clock, cached, missUntil, coolUntil>>

\* Not even they have more: insufficient history, 422.
TooShort(v) ==
  /\ At(v, "thin")
  /\ Goes(v, "idle")
  /\ UNCHANGED <<clock, stores, coolUntil>>

-----------------------------------------------------------------------------
(* The world.                                                              *)

\* The scheduled ingestion upserts what a vendor of its chain holds.
Ingest ==
  /\ \E days \in Histories, source \in Chain :
       rows' = Upserted(days, source)
  /\ UNCHANGED <<clock, cached, missUntil, coolUntil, view>>

Tick ==
  /\ now < MaxTime
  /\ now' = now + 1
  /\ known' = [known EXCEPT ![now + 1] = session]
  /\ UNCHANGED <<session, keys, stores, coolUntil, view>>

\* A trading session completes.
Close ==
  /\ session < MaxSession
  /\ session' = session + 1
  /\ UNCHANGED <<now, keys, known, stores, coolUntil, view>>

-----------------------------------------------------------------------------

GetBars(v) ==
  \/ Start(v) \/ ReadRows(v) \/ Judge(v) \/ Rejudge(v) \/ Put(v)
  \/ AskVendors(v) \/ AlpacaAnswers(v) \/ AlpacaMisses(v) \/ ChainAnswers(v) \/ Miss(v)
  \/ Store(v) \/ CountRows(v) \/ ThinAnswers(v) \/ KeepThin(v) \/ TooShort(v)

Next == (\E v \in Views : GetBars(v)) \/ Ingest \/ Tick \/ Close

Spec == Init /\ [][Next]_vars

-----------------------------------------------------------------------------
(* Properties.                                                             *)

\* Every variable keeps its type, and no cooldown is longer than it should be.
TypeOK ==
  /\ rows.days \subseteq Days /\ rows.source \in Vendors
  /\ missUntil \in -1..MaxTime + MissTtl
  /\ coolUntil <= now + Cooldown
  /\ \A v \in Views : view[v].payload.latest \in 0..MaxSession

\* A payload served now lacks at most one of the sessions that were over a
\* payload's life ago, and as long before as the view that put it into the
\* cache held on to it.
UpToDate(payload) ==
  LET since == now - BarsTtl - (payload.put - payload.of)
  IN  since >= 0 => payload.latest >= known[since] - 1

\* Whoever wrote rows, cache, marker and cooldown in between, and however late
\* a slower view puts what it read before a session ended over what a faster
\* one has put after it, bars that were judged are that recent as long as they
\* are served (service.py:757, 781, 1329).
ServedFresh == Lives /\ cached.judged => UpToDate(cached)
=============================================================================
