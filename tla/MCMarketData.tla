---------------------------- MODULE MCMarketData ----------------------------
(***************************************************************************)
(* Small instances of the four modules of the market data service.  They   *)
(* share no variable: part says which of them moves, and the others rest   *)
(* where they start, so one run checks the four one after the other.       *)
(***************************************************************************)
EXTENDS BarsService, Quotes, IngestTick, SnapshotTick, TLC

CONSTANTS k1, k2

VARIABLE part

marketVars == <<part, vars, quoteVars, ingestVars, snapshotVars>>

\* Two of each: views, askers, ticks and batches.
Actors == {k1, k2}

Symmetry == Permutations(Actors)

Symbols3 == <<"a", "b", "c">>

ByName == <<"x", "a">>

TwoSymbols == <<"a", "b">>

Known == ToSet(Symbols3)

OpenDays == {1, 3}

TwoFeeds == <<1, 2>>

Quotation(price, open, day) ==
  [price |-> price, open |-> open, day |-> day, late |-> FALSE, ahead |-> FALSE]

\* Today's, one without an open, one of a day the venue is closed, an old one
\* with a stamp of the next day in UTC, and one ahead of the clock.
SomeQuotes ==
  {Quotation(3, 2, 3), Quotation(1, 0, 3), Quotation(1, 2, 2),
   [Quotation(3, 2, 1) EXCEPT !.late = TRUE], [Quotation(1, 2, 3) EXCEPT !.ahead = TRUE]}

Flat(day) == [day |-> day, high |-> 2, low |-> 2, close |-> 2]

SomeCharts == {<<Flat(1)>>, <<Flat(1), Flat(3)>>}

MarketInit ==
  /\ part \in {"bars", "quotes", "ingest", "snapshots"}
  /\ QuotesInit /\ IngestInit /\ SnapshotInit
  /\ Init
  /\ part # "bars" => keys = TRUE /\ rows = NoBars

MarketNext ==
  /\ UNCHANGED part
  /\ \/ part = "bars" /\ Next
        /\ UNCHANGED <<quoteVars, ingestVars, snapshotVars>>
     \/ part = "quotes" /\ QuotesNext
        /\ UNCHANGED <<vars, ingestVars, snapshotVars>>
     \/ part = "ingest" /\ IngestNext
        /\ UNCHANGED <<vars, quoteVars, snapshotVars>>
     \/ part = "snapshots" /\ SnapshotNext
        /\ UNCHANGED <<vars, quoteVars, ingestVars>>

MarketSpec == MarketInit /\ [][MarketNext]_marketVars
=============================================================================
