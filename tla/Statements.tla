----------------------------- MODULE Statements -----------------------------
(***************************************************************************)
(* Annual statements (backend/market_data/statements): SEC EDGAR for a US  *)
(* listing, Yahoo when EDGAR fails and for every other venue, and a shared *)
(* cache of a day in front of both.                                        *)
(*                                                                         *)
(* A filer files once a year.  A filing states revenue and gross profit of *)
(* its year and of the year before, each under a tag: filers may move      *)
(* revenue from one tag to another, and may leave gross profit out.        *)
(* EDGAR answers with every fact ever filed, and the client picks the      *)
(* periods.  Each request makes its own clients (resolver.py:210,219), so  *)
(* their caches start empty and their circuits closed.                     *)
(***************************************************************************)
EXTENDS Naturals, Sequences, FiniteSets, FiniteSetsExt

CONSTANTS
  Readers,           \* requests
  StatementTtl,      \* STATEMENTS_CACHE_TTL_S
  MaxYears,          \* bound: years filed
  StatementMaxTime   \* bound of the clock

ASSUME StatementsAssumption ==
  StatementTtl \in Nat /\ MaxYears \in Nat /\ StatementMaxTime \in Nat

VARIABLES
  listing,     \* "seeded", "mapped" (not among the seeds) or "abroad"
  facts,       \* what the filer has tagged: [tag, end, filed, annual]
  vendorUp,    \* which of "map", "sec" and "yahoo" answer
  stored,      \* the entry of the shared cache
  asks,        \* Reader -> its progress
  shown,       \* the last answer given since the clock ticked
  secFailed,   \* when EDGAR last failed a request, NoTime before
  day          \* the clock

statementVars ==
  <<listing, facts, vendorUp, stored, asks, shown, secFailed, day>>

-----------------------------------------------------------------------------
(* Picking periods out of the facts (statements/concepts.py).              *)

RevenueTags == <<"fromContracts", "revenues">>
ProfitTags == <<"grossProfit">>

\* Facts of annual forms that span a year; the newest filing of an end wins.
IsAnnual(fact) == fact.annual

AnnualFacts(tag) ==
  {f \in facts : f.tag = tag /\ IsAnnual(f)
     /\ \A g \in facts : g.tag = tag /\ IsAnnual(g) /\ g.end = f.end => g.filed <= f.filed}

\* The first tag with any annual fact, on the preferred ends it covers, or on
\* its own where it covers none of them.
PickSeries(tags, ends) ==
  LET used == {i \in DOMAIN tags : AnnualFacts(tags[i]) # {}}
      own == AnnualFacts(tags[Min(used)])
      wanted == {f \in own : f.end \in ends}
  IN  IF used = {} THEN {} ELSE IF wanted # {} THEN wanted ELSE own

EndsOf(series) == {f.end : f \in series}

AnchorEnds == EndsOf(PickSeries(RevenueTags, {}))

NoEnd == 0

\* A metric's current value is the newest of its series.
CurrentEnd(series) == IF series = {} THEN NoEnd ELSE Max(EndsOf(series))

\* What EDGAR's facts give: the year revenue is of and the year profit is of.
SecAnswer ==
  [source |-> "sec-edgar", end |-> CurrentEnd(PickSeries(RevenueTags, AnchorEnds)),
   profitEnd |-> CurrentEnd(PickSeries(ProfitTags, AnchorEnds)), at |-> day]

\* Yahoo's frames share their columns, newest first; a missing cell stays missing.
YahooAnswer(lacksProfit) ==
  LET filed == {f.end : f \in {g \in facts : IsAnnual(g)}}
  IN  [source |-> "yfinance-statements", end |-> Max(filed),
       profitEnd |-> IF lacksProfit THEN NoEnd ELSE Max(filed), at |-> day]

-----------------------------------------------------------------------------
NoTime == StatementMaxTime + 1
NoAnswer == [source |-> "none", end |-> NoEnd, profitEnd |-> NoEnd, at |-> 0]
NoEntry == [answer |-> NoAnswer, expires |-> 0]
Idle == [step |-> "idle", answer |-> NoAnswer, at |-> 0]

IsNonUs == listing = "abroad"

StatementsInit ==
  /\ listing \in {"seeded", "mapped", "abroad"}
  /\ facts = {} /\ vendorUp = {"map", "sec", "yahoo"}
  /\ stored = NoEntry /\ asks = [r \in Readers |-> Idle]
  /\ shown = NoAnswer /\ secFailed = NoTime /\ day = 0

MoveTo(r, step, answer) == asks' = [asks EXCEPT ![r] = [step |-> step, answer |-> answer, at |-> day]]

\* Ends are numbered from 2, so that the first filing has a year before it.
LastEnd == IF facts = {} THEN 1 ELSE Max({f.end : f \in {g \in facts : IsAnnual(g)}})

\* The filer's annual filing, and a quarterly one under the same tag.
File(tag, profits) ==
  LET year == LastEnd + 1
      fact(t, end, annual) == [tag |-> t, end |-> end, filed |-> year, annual |-> annual]
  IN  /\ year <= MaxYears + 1
      /\ facts' = facts
           \cup {fact(tag, end, TRUE) : end \in {year - 1, year}}
           \cup {fact(tag, year + 1, FALSE)}
           \cup IF profits THEN {fact("grossProfit", end, TRUE) : end \in {year - 1, year}} ELSE {}
      /\ UNCHANGED <<listing, vendorUp, stored, asks, shown, secFailed, day>>

VendorTurns(v) ==
  /\ vendorUp' = (vendorUp \ {v}) \cup ({v} \ vendorUp)
  /\ UNCHANGED <<listing, facts, stored, asks, shown, secFailed, day>>

-----------------------------------------------------------------------------
Valid(entry) == entry.answer # NoAnswer /\ day <= entry.expires

\* The answer the caller gets.  A hit says nothing of the failure
\* that made it a fallback: only the source does.
Reply(r, answer) ==
  /\ shown' = answer
  /\ asks' = [asks EXCEPT ![r] = Idle]

\* Bug: a hit keeps the entry alive.
FromCacheRefreshed(r) ==
  /\ asks[r].step = "idle" /\ Valid(stored)
  /\ Reply(r, stored.answer)
  /\ stored' = [stored EXCEPT !.expires = day + StatementTtl]
  /\ UNCHANGED <<listing, facts, vendorUp, secFailed, day>>

FromCache(r) ==
  /\ asks[r].step = "idle" /\ Valid(stored)
  /\ Reply(r, stored.answer)
  /\ UNCHANGED <<listing, facts, vendorUp, stored, secFailed, day>>

\* Without an entry, the chain: EDGAR first for a US listing only.
FirstLeg(r) ==
  /\ asks[r].step = "idle" /\ ~Valid(stored)
  /\ MoveTo(r, IF IsNonUs THEN "yahoo" ELSE "cik", NoAnswer)
  /\ UNCHANGED <<listing, facts, vendorUp, stored, shown, secFailed, day>>

\* The ticker's CIK is in the SEC's map, or else among the seeds.
ResolveCik(r) ==
  /\ asks[r].step = "cik"
  /\ IF "map" \in vendorUp \/ listing = "seeded"
     THEN MoveTo(r, "sec", NoAnswer) /\ UNCHANGED secFailed
     ELSE MoveTo(r, "yahoo", NoAnswer) /\ secFailed' = day
  /\ UNCHANGED <<listing, facts, vendorUp, stored, shown, day>>

\* The facts come, and a statement of them if they hold an annual revenue.
SecAnswers(r) ==
  /\ asks[r].step = "sec" /\ "sec" \in vendorUp /\ AnchorEnds # {}
  /\ MoveTo(r, "store", SecAnswer)
  /\ UNCHANGED <<listing, facts, vendorUp, stored, shown, secFailed, day>>

SecFails(r) ==
  /\ asks[r].step = "sec" /\ ("sec" \notin vendorUp \/ AnchorEnds = {})
  /\ MoveTo(r, "yahoo", NoAnswer)
  /\ secFailed' = day
  /\ UNCHANGED <<listing, facts, vendorUp, stored, shown, day>>

YahooAnswers(r, lacksProfit) ==
  /\ asks[r].step = "yahoo" /\ "yahoo" \in vendorUp /\ facts # {}
  /\ MoveTo(r, "store", YahooAnswer(lacksProfit))
  /\ UNCHANGED <<listing, facts, vendorUp, stored, shown, secFailed, day>>

\* No vendor covers the symbol: nothing is cached.
YahooFails(r) ==
  /\ asks[r].step = "yahoo" /\ ("yahoo" \notin vendorUp \/ facts = {})
  /\ Reply(r, NoAnswer)
  /\ UNCHANGED <<listing, facts, vendorUp, stored, secFailed, day>>

Expiry == day + StatementTtl

\* Whatever the other requests have cached meanwhile.
Store(r) ==
  /\ asks[r].step = "store"
  /\ stored' = [answer |-> asks[r].answer, expires |-> Expiry]
  /\ Reply(r, asks[r].answer)
  /\ UNCHANGED <<listing, facts, vendorUp, secFailed, day>>

\* Timeouts of seconds end a call long before a tick of the clock is over.
StatementsTick ==
  /\ day < StatementMaxTime
  /\ \A r \in Readers : asks[r].step # "idle" => asks[r].at = day
  /\ day' = day + 1 /\ shown' = NoAnswer
  /\ UNCHANGED <<listing, facts, vendorUp, stored, asks, secFailed>>

Read(r) ==
  FromCache(r) \/ FirstLeg(r) \/ ResolveCik(r) \/ SecAnswers(r) \/ SecFails(r)
    \/ (\E lacks \in BOOLEAN : YahooAnswers(r, lacks)) \/ YahooFails(r) \/ Store(r)

StatementsNext ==
  \/ \E tag \in {"fromContracts", "revenues"}, profits \in BOOLEAN : File(tag, profits)
  \/ \E v \in {"map", "sec", "yahoo"} : VendorTurns(v)
  \/ \E r \in Readers : Read(r)
  \/ StatementsTick

StatementsSpec == StatementsInit /\ [][StatementsNext]_statementVars

-----------------------------------------------------------------------------
Answered == shown # NoAnswer

(***************************************************************************)
(* The 24 hours of the cache bound the age of what is served: a statement  *)
(* was fetched at most StatementTtl before it is shown, plus the tick a    *)
(* call may straddle, however requests overlap (resolver.py:186-246).      *)
(***************************************************************************)
StatementIsRecent == Answered => day - shown.at <= StatementTtl + 1

(***************************************************************************)
(* A US listing is served Yahoo's figures only for a failure of EDGAR no   *)
(* older than the cache keeps an answer, plus the ticks the two calls may  *)
(* straddle (resolver.py:203-233).                                         *)
(***************************************************************************)
FallbackHadCause ==
  Answered /\ ~IsNonUs /\ shown.source = "yfinance-statements" =>
    secFailed # NoTime /\ day <= secFailed + StatementTtl + 2

\* What is answered is recent, and the second source had to be asked.
AnswerIsSound == StatementIsRecent /\ FallbackHadCause
=============================================================================
