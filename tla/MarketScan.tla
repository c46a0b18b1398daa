----------------------------- MODULE MarketScan -----------------------------
(***************************************************************************)
(* The scan of a market behind its liquidity page and the overview:        *)
(* _scan_mic, _aggregate and market_liquidity of backend/api/markets.py.   *)
(*                                                                         *)
(* A pool of threads quotes the symbols of the market.  The results are    *)
(* taken as they come, for at most ScanBudget.  If that runs out, leaving  *)
(* the pool waits for every thread, and the symbols are quoted once more,  *)
(* one after the other; what was taken before is not dropped.              *)
(***************************************************************************)
EXTENDS Integers, FiniteSets, SequencesExt

CONSTANTS
  Universe,     \* the symbols of the market, in the registry's order
  Turnover,     \* of each symbol, in the native currency
  PoolSize,     \* threads
  ScanBudget,   \* the timeout of as_completed
  RowLimit,     \* the rows asked for; 0 for the overview, which takes all
  ScanMaxTime   \* bound on the clock

ASSUME ScanAssumption ==
  /\ {PoolSize, ScanBudget, ScanMaxTime} \subseteq Nat \ {0}
  /\ RowLimit \in Nat
  /\ Universe \in Seq(ToSet(Universe)) /\ Turnover \in [ToSet(Universe) -> Nat]

VARIABLES
  scanTime,   \* the clock
  scanAt,     \* what the request does
  begun,      \* when its pool began
  quoting,    \* what became of each symbol in the pool
  scanned,    \* the rows, a sequence
  skipped,    \* the symbols reported as skipped, a sequence
  toRepeat,   \* the symbols left to quote again
  summary     \* the aggregate that was answered

scanVars == <<scanTime, scanAt, begun, quoting, scanned, skipped, toRepeat, summary>>

-----------------------------------------------------------------------------

Symbols == ToSet(Universe)

NoSummary == [quoted |-> 0, total |-> 0, rows |-> <<>>]

ScanInit ==
  /\ scanTime = 0
  /\ scanAt = "idle"
  /\ begun = 0
  /\ quoting = [s \in Symbols |-> "off"]
  /\ scanned = <<>> /\ skipped = <<>> /\ toRepeat = <<>>
  /\ summary = NoSummary

Ended(s) == quoting[s] \in {"quoted", "failed"}

BeginScan ==
  /\ scanAt \in {"idle", "answered"}
  /\ scanAt' = "pool"
  /\ begun' = scanTime
  /\ quoting' = [s \in Symbols |-> "queued"]
  /\ scanned' = <<>> /\ skipped' = <<>> /\ toRepeat' = <<>>
  /\ summary' = NoSummary
  /\ UNCHANGED scanTime

\* A thread of the pool takes up a symbol.  The threads go on while the request
\* waits for them to end.
TakeUp(s) ==
  /\ quoting[s] = "queued"
  /\ Cardinality({other \in Symbols : quoting[other] = "running"}) < PoolSize
  /\ quoting' = [quoting EXCEPT ![s] = "running"]
  /\ UNCHANGED <<scanTime, scanAt, begun, scanned, skipped, toRepeat, summary>>

\* _collect_row: every failure is caught and becomes a reason to skip.
QuoteSymbol(s) ==
  /\ quoting[s] = "running"
  /\ \E how \in {"quoted", "failed"} : quoting' = [quoting EXCEPT ![s] = how]
  /\ UNCHANGED <<scanTime, scanAt, begun, scanned, skipped, toRepeat, summary>>

Take(s, how) ==
  IF how = "quoted" THEN scanned' = Append(scanned, s) /\ UNCHANGED skipped
                    ELSE skipped' = Append(skipped, s) /\ UNCHANGED scanned

Collect(s) ==
  /\ scanAt = "pool"
  /\ Ended(s)
  /\ Take(s, quoting[s])
  /\ quoting' = [quoting EXCEPT ![s] = "taken"]
  /\ UNCHANGED <<scanTime, scanAt, begun, toRepeat, summary>>

AllCollected ==
  /\ scanAt = "pool"
  /\ \A s \in Symbols : quoting[s] = "taken"
  /\ scanAt' = "sorts"
  /\ UNCHANGED <<scanTime, begun, quoting, scanned, skipped, toRepeat, summary>>

\* as_completed raises; what has ended since it last looked is not taken.
RunOutOfTime ==
  /\ scanAt = "pool"
  /\ scanTime - begun >= ScanBudget
  /\ \E s \in Symbols : quoting[s] # "taken"
  /\ scanAt' = "leaves"
  /\ UNCHANGED <<scanTime, begun, quoting, scanned, skipped, toRepeat, summary>>

PoolIdle == \A s \in Symbols : quoting[s] \notin {"queued", "running"}

\* A slip: the request goes on with what it has.
LeaveWithout ==
  /\ scanAt = "leaves"
  /\ PoolIdle
  /\ scanAt' = "sorts"
  /\ UNCHANGED <<scanTime, begun, quoting, scanned, skipped, toRepeat, summary>>

\* The end of the with block waits for the threads; then the handler of the
\* exception starts over, without them.
LeavePool ==
  /\ scanAt = "leaves"
  /\ PoolIdle
  /\ scanAt' = "repeats"
  /\ toRepeat' = Universe
  /\ UNCHANGED <<scanTime, begun, quoting, scanned, skipped, summary>>

Repeat ==
  /\ scanAt = "repeats" /\ toRepeat # <<>>
  /\ \E how \in {"quoted", "failed"} : Take(Head(toRepeat), how)
  /\ toRepeat' = Tail(toRepeat)
  /\ UNCHANGED <<scanTime, scanAt, begun, quoting, summary>>

AllRepeated ==
  /\ scanAt = "repeats" /\ toRepeat = <<>>
  /\ scanAt' = "sorts"
  /\ UNCHANGED <<scanTime, begun, quoting, scanned, skipped, toRepeat, summary>>

\* rows.sort: the greatest turnover first, equal ones in the order of the rows.
Precedes(rows, i, k) ==
  \/ Turnover[rows[i]] > Turnover[rows[k]]
  \/ Turnover[rows[i]] = Turnover[rows[k]] /\ i <= k

Place(rows, k) == Cardinality({i \in DOMAIN rows : Precedes(rows, i, k)})

Ranked(rows) ==
  [p \in DOMAIN rows |-> rows[CHOOSE k \in DOMAIN rows : Place(rows, k) = p]]

Shown(rows) ==
  IF RowLimit = 0 \/ Len(rows) <= RowLimit THEN rows ELSE SubSeq(rows, 1, RowLimit)

\* Sorted, cut to the limit, and then aggregated.
AnswerScan ==
  /\ scanAt = "sorts"
  /\ LET rows == Shown(Ranked(scanned)) IN
       summary' = [quoted |-> Len(rows), rows |-> rows,
                   total |-> FoldLeft(LAMBDA sum, s : sum + Turnover[s], 0, rows)]
  /\ scanAt' = "answered"
  /\ UNCHANGED <<scanTime, begun, quoting, scanned, skipped, toRepeat>>

ScanTick ==
  /\ scanTime < ScanMaxTime
  /\ scanTime' = scanTime + 1
  /\ UNCHANGED <<scanAt, begun, quoting, scanned, skipped, toRepeat, summary>>

ScanNext ==
  \/ \E s \in Symbols : TakeUp(s) \/ QuoteSymbol(s) \/ Collect(s)
  \/ BeginScan \/ AllCollected \/ RunOutOfTime \/ LeavePool \/ Repeat \/ AllRepeated
  \/ AnswerScan \/ ScanTick

ScanSpec == ScanInit /\ [][ScanNext]_scanVars

-----------------------------------------------------------------------------
(* Properties.                                                             *)

\* However the pool ends, every symbol of the market has a row or a reason, and
\* none that was left out for the limit had a greater turnover than one that
\* was not (_scan_mic).
NoneForgotten ==
  scanAt = "answered" =>
    /\ Symbols = ToSet(scanned) \cup ToSet(skipped)
    /\ \A s \in ToSet(scanned) \ ToSet(summary.rows) :
         \A t \in ToSet(summary.rows) : Turnover[s] <= Turnover[t]
=============================================================================
