----------------------------- MODULE MCServices -----------------------------
(***************************************************************************)
(* Small instances of the components that stand on their own: the two      *)
(* limiters, the rankings by foreign exchange, the scan of a market,       *)
(* accounts and provider keys, statements, the evidence of an opinion, the *)
(* repair and the migrations of the database, the jobs of the worker and   *)
(* the calendars.  They share no variable: part says which of them moves,  *)
(* and the others rest where they start.                                   *)
(***************************************************************************)
EXTENDS QuotaLimiter, RateLimit, FxRanking, MarketScan, Accounts, ProviderKeys,
        Statements, AiEvidence, SchemaRepair, Migrations, WorkerJobs, Calendars, TLC

CONSTANTS k1, k2

VARIABLE part

\* Two threads, rankings, devices and readers, which differ in nothing but
\* their name; two of the clients of the rate limit bear them too.
Actors == {k1, k2}

Symmetry == Permutations(Actors)

ThreeSymbols == <<"a", "b", "c">>

SecondLeads == [s \in {"a", "b", "c"} |-> IF s = "b" THEN 3 ELSE 1]

TwoInOne == [t \in {"t1", "t2", "t3"} |-> IF t = "t3" THEN "p2" ELSE "p1"]

EastAndWest == {-2, 2}

-----------------------------------------------------------------------------

servicesVars ==
  <<part, vars, rateVars, fxVars, scanVars, accountVars, keyVars, statementVars,
    evidenceVars, schemaVars, migrationVars, jobVars, calendarVars>>

Parts ==
  {"quota", "rate", "fx", "scan", "accounts", "keys", "statements", "evidence",
   "schema", "migrations", "jobs", "calendars"}

\* A component with several initial states has all of them when it is its turn.
ServicesInit ==
  /\ part \in Parts
  /\ Init /\ RateInit /\ FxInit /\ ScanInit /\ AccountInit /\ KeysInit /\ JobsInit
  /\ StatementsInit /\ (part # "statements" => listing = "abroad")
  /\ EvidenceInit /\ (part # "evidence" => ~abroad /\ ~hasKeys)
  /\ SchemaInit /\ (part # "schema" => file.table = CHOOSE t \in OldFiles : TRUE)
  /\ MigrationsInit /\ (part # "migrations" => byHand = 0)
  /\ CalendarInit
  /\ part # "calendars" =>
       /\ offset = 2 /\ early = {} /\ feasts = {} /\ ~library /\ ruled
       /\ trading = {d \in DayRange : Weekday(d)}

OthersRest ==
  /\ IF part = "quota" THEN TRUE ELSE UNCHANGED vars
  /\ IF part = "rate" THEN TRUE ELSE UNCHANGED rateVars
  /\ IF part = "fx" THEN TRUE ELSE UNCHANGED fxVars
  /\ IF part = "scan" THEN TRUE ELSE UNCHANGED scanVars
  /\ IF part = "accounts" THEN TRUE ELSE UNCHANGED accountVars
  /\ IF part = "keys" THEN TRUE ELSE UNCHANGED keyVars
  /\ IF part = "statements" THEN TRUE ELSE UNCHANGED statementVars
  /\ IF part = "evidence" THEN TRUE ELSE UNCHANGED evidenceVars
  /\ IF part = "schema" THEN TRUE ELSE UNCHANGED schemaVars
  /\ IF part = "migrations" THEN TRUE ELSE UNCHANGED migrationVars
  /\ IF part = "jobs" THEN TRUE ELSE UNCHANGED jobVars
  /\ IF part = "calendars" THEN TRUE ELSE UNCHANGED calendarVars

ServicesNext ==
  /\ UNCHANGED part
  /\ \/ part = "quota" /\ Next /\ OthersRest
     \/ part = "rate" /\ RateNext /\ OthersRest
     \/ part = "fx" /\ FxNext /\ OthersRest
     \/ part = "scan" /\ ScanNext /\ OthersRest
     \/ part = "accounts" /\ AccountNext /\ OthersRest
     \/ part = "keys" /\ KeysNext /\ OthersRest
     \/ part = "statements" /\ StatementsNext /\ OthersRest
     \/ part = "evidence" /\ EvidenceNext /\ OthersRest
     \/ part = "schema" /\ SchemaNext /\ OthersRest
     \/ part = "migrations" /\ MigrationsNext /\ OthersRest
     \/ part = "jobs" /\ JobsNext /\ OthersRest
     \/ part = "calendars" /\ CalendarNext /\ OthersRest

ServicesSpec == ServicesInit /\ [][ServicesNext]_servicesVars
=============================================================================
