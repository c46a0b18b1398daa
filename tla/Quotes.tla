------------------------------- MODULE Quotes -------------------------------
(***************************************************************************)
(* The quote of one symbol and the chart it is put in: get_quote and       *)
(* get_chart of backend/market_data/service.py, with the cache of          *)
(* backend/cache.py, which falls back to the process's memory while Redis  *)
(* is out of reach, and the row of the last live quote.                    *)
(*                                                                         *)
(* Vendors are asked in a fixed order and the first live answer wins; one  *)
(* dated ahead of the clock is refused.  Days are numbered and Sessions    *)
(* are those on which the venue is open; late is the stamp of a quote that *)
(* belongs to a day of the venue and to the next one in UTC.  Prices are   *)
(* small numbers, 0 for one that is missing; a bar keeps day, high, low    *)
(* and close.  The bars of a chart come from BarsService: any it may serve.*)
(***************************************************************************)
EXTENDS Integers, Sequences

CONSTANTS
  Askers,       \* threads that ask for the quote, or for the chart
  Sessions,     \* trading days
  Feeds,        \* the vendors asked, in order
  Quotations,   \* what a vendor may answer
  Charts,       \* what BarsService may serve
  QuoteTtl,     \* life of a quote in the cache
  QuoteMaxTime  \* bound: the clock

Bars == [day : Nat, high : Nat, low : Nat, close : Nat]

\* A chart is of sessions, in their order.
ASSUME QuotesAssumption ==
  /\ QuoteTtl \in Nat \ {0} /\ QuoteMaxTime \in Nat /\ Sessions \subseteq Nat
  /\ Quotations \subseteq
       [price : Nat, open : Nat, day : Nat, late : BOOLEAN, ahead : BOOLEAN]
  /\ \A bars \in Charts :
       /\ bars \in Seq(Bars)
       /\ \A i \in DOMAIN bars : bars[i].day \in Sessions
       /\ \A i, k \in DOMAIN bars : i < k => bars[i].day < bars[k].day

VARIABLES
  quoteNow,  \* the clock
  redisUp,   \* Redis can be reached
  remote,    \* the entry in Redis
  local,     \* the entry in the memory of the process
  lastLive,  \* the row of quote_snapshots
  ask        \* what an asker does and holds

quoteVars == <<quoteNow, redisUp, remote, local, lastLive, ask>>

-----------------------------------------------------------------------------

NoQuote == [price |-> 0, open |-> 0, day |-> 0, late |-> FALSE, ahead |-> FALSE]

Entry(quote, at) == [quote |-> quote, made |-> at]

NoEntry == Entry(NoQuote, -1)

NotAsking ==
  [at |-> "idle", legs |-> <<>>, quote |-> NoQuote,
   venue |-> "unknown", bars |-> <<>>, shown |-> <<>>, stitched |-> FALSE]

QuotesInit ==
  /\ quoteNow = 0
  /\ redisUp = TRUE
  /\ remote = NoEntry /\ local = NoEntry
  /\ lastLive = NoQuote
  /\ ask = [a \in Askers |-> NotAsking]

AskAt(a, where) == ask[a].at = where

\* InMemoryCache.get.
Kept(entry) == entry # NoEntry /\ quoteNow <= entry.made + QuoteTtl

\* What the cache gives: Redis if it answers, be it with nothing.
Hit == IF redisUp
       THEN IF remote # NoEntry /\ quoteNow < remote.made + QuoteTtl
            THEN remote ELSE NoEntry
       ELSE IF Kept(local) THEN local ELSE NoEntry

-----------------------------------------------------------------------------
(* get_quote.                                                              *)

AskQuote(a) ==
  /\ AskAt(a, "idle")
  /\ ask' = [ask EXCEPT ![a] =
       IF Hit # NoEntry
       THEN [NotAsking EXCEPT !.at = "quoted", !.quote = Hit.quote]
       ELSE [NotAsking EXCEPT !.at = "asks", !.legs = Feeds]]
  /\ UNCHANGED <<quoteNow, redisUp, remote, local, lastLive>>

\* Whether the vendor's answer may be used.
Usable(quote) == quote.price > 0 /\ ~quote.ahead

FeedAnswers(a) ==
  /\ AskAt(a, "asks") /\ ask[a].legs # <<>>
  /\ \E quote \in Quotations :
       ask' = [ask EXCEPT ![a] =
         IF Usable(quote) THEN [NotAsking EXCEPT !.at = "writes", !.quote = quote]
         ELSE [NotAsking EXCEPT !.at = "failed"]]
  /\ UNCHANGED <<quoteNow, redisUp, remote, local, lastLive>>

\* A stub, an error, or a feed that is not configured.
FeedMisses(a) ==
  /\ AskAt(a, "asks") /\ ask[a].legs # <<>>
  /\ ask' = [ask EXCEPT ![a].legs = Tail(@)]
  /\ UNCHANGED <<quoteNow, redisUp, remote, local, lastLive>>

\* Nothing live anywhere: no quote, 502.
NothingLive(a) ==
  /\ AskAt(a, "asks") /\ ask[a].legs = <<>>
  /\ ask' = [ask EXCEPT ![a].at = "failed"]
  /\ UNCHANGED <<quoteNow, redisUp, remote, local, lastLive>>

\* _persist_quote_snapshot: an upsert, or a merge that a lost race turns into an
\* update; two attempts, and the last writer's quote stays.
Persist(a) ==
  /\ AskAt(a, "writes")
  /\ lastLive' = ask[a].quote
  /\ ask' = [ask EXCEPT ![a].at = "caches"]
  /\ UNCHANGED <<quoteNow, redisUp, remote, local>>

PersistFails(a) ==
  /\ AskAt(a, "writes")
  /\ ask' = [ask EXCEPT ![a].at = "caches"]
  /\ UNCHANGED <<quoteNow, redisUp, remote, local, lastLive>>

Cache(a) ==
  /\ AskAt(a, "caches")
  /\ LET entry == Entry(ask[a].quote, quoteNow)
     IN  IF redisUp THEN remote' = entry /\ UNCHANGED local
                    ELSE local' = entry /\ UNCHANGED remote
  /\ ask' = [ask EXCEPT ![a].at = "quoted"]
  /\ UNCHANGED <<quoteNow, redisUp, lastLive>>

-----------------------------------------------------------------------------
(* get_chart.                                                              *)

LastBar(bars) == bars[Len(bars)]

Largest(a, b) == IF a >= b THEN a ELSE b

Smallest(a, b) == IF a <= b THEN a ELSE b

Declined(bars) == [bars |-> bars, stitched |-> FALSE]

\* What get_chart knows of the venue: its MIC, and a calendar that answers; its
\* MIC alone; or nothing, as of any symbol outside the seeds and whenever the
\* registry fails.
Venues == {"answers", "mute", "unknown"}

\* The day a stamp is taken for, _bar_day: the venue's, or that of UTC.
Dated(quote, venue) ==
  [quote EXCEPT !.day = IF venue = "unknown" /\ quote.late THEN @ + 1 ELSE @]

FormingBar(quote) ==
  [day |-> quote.day, close |-> quote.price,
   high |-> Largest(quote.open, quote.price), low |-> Smallest(quote.open, quote.price)]

\* A slip: any newer day is given a bar.
FormingAnyDay(bars, quote, venue) ==
  IF quote.open = 0 THEN Declined(bars)
  ELSE [stitched |-> TRUE, bars |-> Append(bars, FormingBar(quote))]

\* _append_forming_bar: a bar of its own for a newer day, if the quote has an
\* open and no calendar says that the day is no session.
Forming(bars, quote, venue) ==
  IF quote.open = 0 \/ (venue = "answers" /\ quote.day \notin Sessions)
  THEN Declined(bars)
  ELSE [stitched |-> TRUE, bars |-> Append(bars, FormingBar(quote))]

Overlaid(bar, price) ==
  [bar EXCEPT !.close = price, !.high = Largest(@, price), !.low = Smallest(@, price)]

\* _stitch_quote_into_bars: the last bar takes the price of its own day.
Stitched(bars, quote, venue) ==
  IF bars = <<>> \/ quote.price = 0 \/ quote.day < LastBar(bars).day
  THEN Declined(bars)
  ELSE IF quote.day > LastBar(bars).day THEN Forming(bars, quote, venue)
  ELSE [bars |-> [bars EXCEPT ![Len(bars)] = Overlaid(@, quote.price)],
        stitched |-> TRUE]

ShowsChart(a, bars, quote, venue) ==
  LET chart == Stitched(bars, Dated(quote, venue), venue)
  IN  ask' = [ask EXCEPT ![a] =
        [NotAsking EXCEPT !.at = "shown", !.quote = quote, !.venue = venue, !.bars = bars,
                          !.shown = chart.bars, !.stitched = chart.stitched]]

\* Bars and quote are asked for at once; the pool waits for both.  The bars are
\* served without a quote if that failed.
ShowChart(a) ==
  /\ \/ /\ AskAt(a, "quoted")
        /\ \E bars \in Charts, venue \in Venues : ShowsChart(a, bars, ask[a].quote, venue)
     \/ /\ AskAt(a, "failed")
        /\ \E bars \in Charts : ShowsChart(a, bars, NoQuote, "unknown")
  /\ UNCHANGED <<quoteNow, redisUp, remote, local, lastLive>>

\* The quote is the answer, or there are no bars and no chart.
Answered(a) ==
  /\ AskAt(a, "shown") \/ AskAt(a, "quoted") \/ AskAt(a, "failed")
  /\ ask' = [ask EXCEPT ![a] = NotAsking]
  /\ UNCHANGED <<quoteNow, redisUp, remote, local, lastLive>>

-----------------------------------------------------------------------------

Flap ==
  /\ redisUp' = ~redisUp
  /\ UNCHANGED <<quoteNow, remote, local, lastLive, ask>>

Second ==
  /\ quoteNow < QuoteMaxTime
  /\ quoteNow' = quoteNow + 1
  /\ UNCHANGED <<redisUp, remote, local, lastLive, ask>>

QuotesNext ==
  \/ Flap \/ Second
  \/ \E a \in Askers :
       \/ AskQuote(a) \/ FeedAnswers(a) \/ FeedMisses(a) \/ NothingLive(a)
       \/ Persist(a) \/ PersistFails(a) \/ Cache(a)
       \/ ShowChart(a) \/ Answered(a)

QuotesSpec == QuotesInit /\ [][QuotesNext]_quoteVars

-----------------------------------------------------------------------------
(* Properties.                                                             *)

\* A chart that says it is stitched ends in the quote's price, on the day the
\* quote is taken for, inside its bar's range, after strictly older sessions;
\* and that day is a session too wherever a calendar could tell.  One that does
\* not is the bars as they were (service.py:977, 1157).
ChartAgrees ==
  \A a \in Askers :
    AskAt(a, "shown") =>
      LET shown == ask[a].shown
          last == LastBar(shown)
      IN  IF ask[a].stitched
          THEN /\ last.close = ask[a].quote.price
               /\ last.day = Dated(ask[a].quote, ask[a].venue).day
               /\ last.low <= last.close /\ last.close <= last.high
               /\ \A i, k \in DOMAIN shown : i < k => shown[i].day < shown[k].day
               /\ \A i \in DOMAIN shown :
                    i < Len(shown) \/ ask[a].venue = "answers" => shown[i].day \in Sessions
          ELSE shown = ask[a].bars
=============================================================================
