-------------------------- MODULE MarketDataProofs --------------------------
(***************************************************************************)
(* What the market data service guarantees: of the bars and the quotes it  *)
(* serves, of the ticks that ingest bars, of the batches that capture      *)
(* snapshots, of the bars a calendar expects and of the breaker in front of*)
(* a vendor, for any number of views, askers, ticks, batches and threads,  *)
(* any universe, chart, list and calendar, and all budgets and lives.      *)
(***************************************************************************)
EXTENDS BarsService, Quotes, IngestTick, SnapshotTick, Calendars, ProviderHealth,
        FiniteSetTheorems, SequenceTheorems, LeastNumber

-----------------------------------------------------------------------------
(* Bars: the invariant.                                                    *)

Payloads == [latest : Nat, of : Int, put : Int, judged : BOOLEAN, thin : BOOLEAN]

\* Rows of days that are over, and what a view may hold.
RowSets(last) == [days : SUBSET (1..last), source : Vendors]

ViewStates(last) ==
  [at : {"idle", "reads", "judges", "asks", "alpaca", "chain", "stores", "rereads",
         "rejudges", "counts", "thin", "keeps", "puts"},
   bars : RowSets(last), tried : BOOLEAN, payload : Payloads]

BarsTypeOK ==
  /\ now \in 0..MaxTime /\ session \in Nat \ {0}
  /\ known \in [0..MaxTime -> Nat]
  /\ rows \in RowSets(session)
  /\ cached \in Payloads
  /\ view \in [Views -> ViewStates(session)]

\* Sessions are known in their order.
KnownInOrder ==
  /\ \A t \in 0..now : known[t] <= session
  /\ \A t, u \in 0..now : t <= u => known[t] <= known[u]

\* A payload that was judged lacked at most one of the sessions known when the
\* moment began in which it was.
Lately(payload) ==
  payload.judged => payload.of \in 0..now /\ payload.latest >= known[payload.of] - 1

\* Rows that are judged or served are some.
ViewFits(x) ==
  /\ x.at \in {"judges", "rejudges", "keeps"} => x.bars.days # {}
  /\ Lately(x.payload)

\* The cache holds nothing that a view could not have been served.
BarsInv ==
  /\ BarsTypeOK
  /\ KnownInOrder
  /\ Lately(cached)
  /\ \A v \in Views : ViewFits(view[v])

-----------------------------------------------------------------------------
(* Bars: the steps.                                                        *)

LEMMA RestingIsTyped ==
  ASSUME NEW last \in Nat
  PROVE  /\ NoPayload \in Payloads /\ ~NoPayload.judged
         /\ NoBars \in RowSets(last)
         /\ Resting \in ViewStates(last) /\ ViewFits(Resting)
<1>1. NoPayload \in Payloads /\ ~NoPayload.judged
  BY DEF NoPayload, Payloads
<1>2. NoBars \in RowSets(last)
  BY DEF NoBars, Vendors, RowSets
<1>3. Resting \in ViewStates(last)
  BY <1>1, <1>2 DEF Resting, ViewStates
<1>4. ViewFits(Resting)
  BY <1>1 DEF Resting, ViewFits, Lately
<1>5. QED
  BY <1>1, <1>2, <1>3, <1>4

\* The latest of some days is one of them, and none is later.
LEMMA LatestIsLatest ==
  ASSUME NEW last \in Nat, NEW days \in SUBSET (1..last), days # {}
  PROVE  Latest(days) \in days
<1> DEFINE before == {last - d : d \in days}
<1>1. before \in SUBSET Nat /\ before # {}
  <2>1. \A d \in days : last - d \in Nat
    OBVIOUS
  <2> QED
    BY <2>1
<1>2. PICK least \in before : \A n \in before : least <= n
  BY <1>1, LeastExists
<1>3. PICK d \in days : least = last - d
  OBVIOUS
<1>4. \A e \in days : e <= d
  <2>1. SUFFICES ASSUME NEW e \in days PROVE e <= d
    OBVIOUS
  <2>2. last - e \in before
    OBVIOUS
  <2> HIDE DEF before
  <2>3. last - d <= last - e
    BY <1>2, <1>3, <2>2
  <2>4. QED
    BY <2>3
<1>5. QED
  BY <1>4 DEF Latest

\* No rows do not cover, and are not enough for the thin path.
LEMMA CoveredIsSome ==
  ASSUME NEW days, Covered(days) \/ Cardinality(days) >= ThinNeeded
  PROVE  days # {}
  BY BarsAssumption, FS_EmptySet DEF Covered

\* What the gate lets through was in time when it did.
LEMMA GateJudges ==
  ASSUME BarsInv, NEW v \in Views, Held(v) # {}, NEW judged \in BOOLEAN,
         NEW thin \in BOOLEAN, PassesGate(v, judged)
  PROVE  /\ Payload(Held(v), judged, thin) \in Payloads
         /\ Lately(Payload(Held(v), judged, thin))
<1>1. session \in Nat /\ now \in 0..MaxTime /\ now \in Int /\ Held(v) \in SUBSET (1..session)
  BY BarsAssumption DEF BarsInv, BarsTypeOK, ViewStates, RowSets, Held
<1>2. Latest(Held(v)) \in 1..session
  BY <1>1, LatestIsLatest
<1>3. known[now] <= session /\ known[now] \in Nat
  BY <1>1, BarsAssumption DEF BarsInv, BarsTypeOK, KnownInOrder
<1>4. judged => Latest(Held(v)) >= known[now] - 1
  BY <1>1, <1>2, <1>3 DEF PassesGate, Fresh
<1>5. QED
  BY <1>1, <1>2, <1>4, BarsAssumption DEF Payload, Payloads, Lately

\* What vendors hold are days that are over.
LEMMA HistoriesAreOver ==
  ASSUME BarsTypeOK
  PROVE  \A days \in Histories : days \in SUBSET (1..session)
<1>1. session \in Nat \ {0}
  BY DEF BarsTypeOK
<1>2. 1..session - 2 \subseteq 1..session /\ session \in 1..session
  BY <1>1
<1>3. QED
  BY <1>2 DEF Histories

LEMMA UpsertedIsTyped ==
  ASSUME BarsTypeOK, NEW days \in SUBSET (1..session), NEW source \in Vendors
  PROVE  Upserted(days, source) \in RowSets(session)
  BY DEF BarsTypeOK, Upserted, ViewStates, RowSets

\* A step of one view that leaves the days alone keeps the invariant if what it
\* leaves in the table, in the cache and in its hands fits.
LEMMA ViewKeeps ==
  ASSUME BarsInv, NEW v \in Views,
         NEW new \in ViewStates(session),
         ViewFits(new), view' = [view EXCEPT ![v] = new],
         UNCHANGED clock,
         rows' \in RowSets(session),
         NEW entry \in Payloads, Lately(entry), cached' = entry
  PROVE  BarsInv'
<1>1. now' = now /\ session' = session /\ known' = known
  BY DEF clock
<1>2. BarsTypeOK'
  BY <1>1 DEF BarsInv, BarsTypeOK
<1>3. ASSUME NEW w \in Views PROVE ViewFits(view[w])'
  <2>1. view'[w] = IF w = v THEN new ELSE view[w]
    BY DEF BarsInv, BarsTypeOK
  <2>2. ViewFits(view[w])
    BY DEF BarsInv
  <2>3. CASE w = v
    BY <1>1, <2>1, <2>3 DEF ViewFits, Lately
  <2>4. CASE w # v
    BY <1>1, <2>1, <2>2, <2>4 DEF ViewFits, Lately
  <2>5. QED
    BY <2>3, <2>4
<1>4. Lately(cached)'
  BY <1>1 DEF Lately
<1>5. KnownInOrder'
  BY <1>1 DEF BarsInv, KnownInOrder
<1>6. QED
  BY <1>2, <1>3, <1>4, <1>5 DEF BarsInv

LEMMA BarsInitEstablishes == Init => BarsInv
<1>1. SUFFICES ASSUME Init PROVE BarsInv
  OBVIOUS
<1>2. session \in Nat \ {0} /\ session = FirstSession /\ now = 0 /\ now \in 0..MaxTime
  BY <1>1, BarsAssumption DEF Init
<1>3. rows \in RowSets(session)
  <2>1. [NoBars EXCEPT !.days = 1..FirstSession] \in RowSets(session)
    BY <1>2 DEF NoBars, Vendors, RowSets
  <2>2. QED
    BY <1>1, <1>2, <2>1, RestingIsTyped DEF Init
<1>4. known \in [0..MaxTime -> Nat] /\ \A t \in 0..MaxTime : known[t] = session
  BY <1>1, <1>2, BarsAssumption DEF Init
<1>5. cached = NoPayload /\ view = [v \in Views |-> Resting]
  BY <1>1 DEF Init
<1>6. BarsTypeOK
  BY <1>2, <1>3, <1>4, <1>5, RestingIsTyped DEF BarsTypeOK
<1>7. KnownInOrder
  BY <1>2, <1>4, BarsAssumption DEF KnownInOrder
<1>8. Lately(cached) /\ \A v \in Views : ViewFits(view[v])
  BY <1>2, <1>5, RestingIsTyped DEF Lately
<1>9. QED
  BY <1>6, <1>7, <1>8 DEF BarsInv

\* What there is, typed.
LEMMA BarsFacts ==
  ASSUME BarsInv
  PROVE  /\ now \in Int /\ session \in Nat \ {0}
         /\ rows \in RowSets(session)
         /\ cached \in Payloads /\ Lately(cached)
         /\ NoBars \in RowSets(session)
         /\ NoPayload \in Payloads /\ ~NoPayload.judged
  BY RestingIsTyped DEF BarsInv, BarsTypeOK

\* A view that goes on leaves what it held.
LEMMA GoesKeeps ==
  ASSUME BarsInv, NEW v \in Views,
         NEW where \in {"idle", "reads", "asks", "alpaca", "chain", "rereads", "counts",
                        "thin"},
         Goes(v, where), UNCHANGED clock,
         NEW entry \in Payloads, Lately(entry), cached' = entry,
         rows' \in RowSets(session)
  PROVE  BarsInv'
<1> DEFINE new == [Resting EXCEPT !.at = where]
<1>1. view' = [view EXCEPT ![v] = new]
  BY DEF Goes
<1>2. new \in ViewStates(session) /\ ViewFits(new)
  BY BarsFacts DEF Resting, ViewStates, ViewFits, Lately
<1> HIDE DEF new
<1>3. QED
  BY <1>1, <1>2, ViewKeeps

\* A view is about to put into the cache what fits.
LEMMA MakesKeeps ==
  ASSUME BarsInv, NEW v \in Views, NEW payload \in Payloads, Lately(payload),
         Makes(v, payload), UNCHANGED clock, UNCHANGED cached,
         rows' \in RowSets(session)
  PROVE  BarsInv'
<1> DEFINE new == [Resting EXCEPT !.at = "puts", !.payload = payload]
<1>1. view' = [view EXCEPT ![v] = new]
  BY DEF Makes
<1>2. new \in ViewStates(session) /\ ViewFits(new)
  BY BarsFacts DEF Resting, ViewStates, ViewFits, Lately
<1> HIDE DEF new
<1>3. QED
  BY <1>1, <1>2, BarsFacts, ViewKeeps

\* A view holds rows, or what a vendor sent.
LEMMA HoldsKeeps ==
  ASSUME BarsInv, NEW v \in Views,
         NEW where \in {"judges", "rejudges", "keeps", "asks", "counts", "stores"},
         NEW days \in SUBSET (1..session), NEW source \in Vendors,
         where \in {"judges", "rejudges", "keeps"} => days # {},
         Holds(v, where, days, source), UNCHANGED <<clock, stores>>
  PROVE  BarsInv'
<1> DEFINE bars == [days |-> days, source |-> source]
           new == [Resting EXCEPT !.at = where, !.bars = bars]
<1>1. view' = [view EXCEPT ![v] = new] /\ rows' = rows /\ cached' = cached
  BY DEF Holds, stores
<1>2. bars \in RowSets(session) /\ bars.days = days
  BY DEF RowSets
<1> HIDE DEF bars
<1>3. new \in ViewStates(session) /\ ViewFits(new)
  BY <1>2, BarsFacts DEF Resting, ViewStates, ViewFits, Lately
<1> HIDE DEF new
<1>4. QED
  BY <1>1, <1>3, BarsFacts, ViewKeeps

\* The clock, the calendar and the scheduled ingestion.
LEMMA WorldKeeps ==
  ASSUME BarsInv, Ingest \/ Tick \/ Close
  PROVE  BarsInv'
<1>1. UNCHANGED <<cached, view>>
  BY DEF Ingest, Tick, Close, stores
<1>2. /\ now \in 0..MaxTime /\ now' \in 0..MaxTime /\ now <= now'
      /\ session' \in Nat \ {0} /\ session <= session'
      /\ 1..session \subseteq 1..session'
  BY BarsAssumption DEF BarsInv, BarsTypeOK, Ingest, Tick, Close, clock
<1>3. rows' \in RowSets(session)
  <2>1. CASE Ingest
    <3>1. PICK days \in Histories, source \in Chain : rows' = Upserted(days, source)
      BY <2>1 DEF Ingest
    <3>2. source \in Vendors
      BY DEF Chain
    <3>3. QED
      BY <3>1, <3>2, HistoriesAreOver, UpsertedIsTyped DEF BarsInv
  <2>2. CASE Tick \/ Close
    BY <2>2, BarsFacts DEF Tick, Close, stores
  <2>3. QED
    BY <2>1, <2>2
<1>4. rows' \in RowSets(session')
  BY <1>2, <1>3 DEF RowSets
<1>5. view \in [Views -> ViewStates(session')]
  BY <1>2 DEF BarsInv, BarsTypeOK, ViewStates, RowSets
<1>6. /\ known' \in [0..MaxTime -> Nat]
      /\ \A t \in 0..now : known'[t] = known[t]
      /\ now' # now => known'[now'] = session /\ now' = now + 1 /\ session' = session
  <2>1. CASE Tick
    <3>1. now' = now + 1 /\ known' = [known EXCEPT ![now'] = session] /\ session' = session
      BY <2>1 DEF Tick
    <3>2. known \in [0..MaxTime -> Nat] /\ session \in Nat
      BY DEF BarsInv, BarsTypeOK
    <3>3. \A t \in 0..now : t \in 0..MaxTime /\ t # now'
      BY <1>2, <3>1, BarsAssumption
    <3>4. QED
      BY <1>2, <3>1, <3>2, <3>3
  <2>2. CASE Ingest \/ Close
    BY <2>2 DEF Ingest, Close, clock, BarsInv, BarsTypeOK
  <2>3. QED
    BY <2>1, <2>2
<1>7. KnownInOrder'
  <2>1. \A t \in 0..now : known[t] <= session /\ known[t] \in Nat
    BY <1>2, BarsAssumption DEF BarsInv, BarsTypeOK, KnownInOrder
  <2>2. \A t, u \in 0..now : t <= u => known[t] <= known[u]
    BY DEF BarsInv, KnownInOrder
  <2>3. session \in Nat
    BY BarsFacts
  <2>4. CASE now' = now
    BY <1>2, <1>6, <2>1, <2>2, <2>3, <2>4 DEF KnownInOrder
  <2>5. CASE now' # now
    <3>1. \A t \in 0..now' : t \in 0..now \/ t = now'
      BY <1>2, <1>6, <2>5, BarsAssumption
    <3>2. \A t \in 0..now' : known'[t] <= session /\ known'[t] \in Nat
      BY <1>6, <2>1, <2>3, <2>5, <3>1
    <3>3. ASSUME NEW t \in 0..now', NEW u \in 0..now', t <= u
          PROVE  known'[t] <= known'[u]
      <4>1. CASE u = now'
        BY <1>6, <2>5, <3>2, <4>1
      <4>2. CASE u # now'
        <5>1. u \in 0..now /\ t \in 0..now
          BY <1>2, <3>1, <3>3, <4>2, BarsAssumption
        <5>2. QED
          BY <1>6, <2>2, <3>3, <5>1
      <4>3. QED
        BY <4>1, <4>2
    <3>4. QED
      BY <1>6, <2>5, <3>2, <3>3 DEF KnownInOrder
  <2>6. QED
    BY <2>4, <2>5
<1>8. ASSUME NEW payload, Lately(payload)
      PROVE  payload.judged => payload.of \in 0..now' /\ payload.latest >= known'[payload.of] - 1
  BY <1>2, <1>6, <1>8, BarsAssumption DEF Lately
<1>9. Lately(cached)'
  BY <1>1, <1>8 DEF BarsInv, Lately
<1>10. ASSUME NEW w \in Views PROVE ViewFits(view[w])'
  <2>1. ViewFits(view[w])
    BY DEF BarsInv
  <2>2. QED
    BY <1>1, <1>8, <2>1 DEF ViewFits, Lately
<1>11. BarsTypeOK'
  BY <1>1, <1>2, <1>4, <1>5, <1>6 DEF BarsInv, BarsTypeOK
<1>12. QED
  BY <1>7, <1>9, <1>10, <1>11 DEF BarsInv

\* The query and the gate.
LEMMA RowsKeep ==
  ASSUME BarsInv, NEW v \in Views, ReadRows(v) \/ Judge(v) \/ Rejudge(v)
  PROVE  BarsInv'
<1>1. UNCHANGED <<clock, stores>> /\ UNCHANGED cached /\ rows' \in RowSets(session)
  BY BarsFacts DEF ReadRows, Judge, Rejudge, stores
<1>2. CASE ReadRows(v)
  <2>1. rows.days \in SUBSET (1..session) /\ rows.source \in Vendors
    BY BarsFacts DEF RowSets
  <2>2. PICK where \in {"judges", "rejudges", "asks", "counts"} :
          /\ Holds(v, where, rows.days, rows.source)
          /\ where \in {"judges", "rejudges"} => Covered(rows.days)
    <3>1. CASE Covered(rows.days)
      BY <1>2, <3>1 DEF ReadRows
    <3>2. CASE ~Covered(rows.days)
      BY <1>2, <3>2 DEF ReadRows
    <3>3. QED
      BY <3>1, <3>2
  <2>3. where \in {"judges", "rejudges", "keeps"} => rows.days # {}
    BY <2>2, CoveredIsSome
  <2>4. QED
    BY <1>1, <2>1, <2>2, <2>3, HoldsKeeps
<1>3. CASE Judge(v) \/ Rejudge(v)
  <2>1. Held(v) # {}
    BY <1>3 DEF Judge, Rejudge, At, Held, BarsInv, ViewFits
  <2>2. \/ Goes(v, "asks") \/ Goes(v, "counts")
        \/ \E judged \in BOOLEAN :
             PassesGate(v, judged) /\ Makes(v, Payload(Held(v), judged, FALSE))
    BY <1>3 DEF Judge, Rejudge
  <2>3. CASE Goes(v, "asks") \/ Goes(v, "counts")
    BY <1>1, <2>3, BarsFacts, GoesKeeps
  <2>4. ASSUME NEW judged \in BOOLEAN, PassesGate(v, judged),
               Makes(v, Payload(Held(v), judged, FALSE))
        PROVE  BarsInv'
    <3>1. /\ Payload(Held(v), judged, FALSE) \in Payloads
          /\ Lately(Payload(Held(v), judged, FALSE))
      BY <2>1, <2>4, GateJudges
    <3>2. QED
      BY <1>1, <2>4, <3>1, MakesKeeps
  <2>5. QED
    BY <2>2, <2>3, <2>4
<1>4. QED
  BY <1>2, <1>3

\* The vendors.
LEMMA VendorsKeep ==
  ASSUME BarsInv, NEW v \in Views,
         AlpacaAnswers(v) \/ AlpacaMisses(v) \/ ChainAnswers(v) \/ ThinAnswers(v)
  PROVE  BarsInv'
<1>1. UNCHANGED <<clock, stores>>
  BY DEF AlpacaAnswers, AlpacaMisses, ChainAnswers, ThinAnswers
<1>2. CASE AlpacaAnswers(v) \/ ChainAnswers(v) \/ ThinAnswers(v)
  <2>1. PICK days \in Histories, source \in Vendors, where \in {"stores", "keeps"} :
          Holds(v, where, days, source) /\ (where = "keeps" => days # {})
    <3>1. CASE AlpacaAnswers(v)
      BY <3>1 DEF AlpacaAnswers, Vendors
    <3>2. CASE ChainAnswers(v)
      BY <3>2 DEF ChainAnswers, Chain
    <3>3. CASE ThinAnswers(v)
      BY <3>3, CoveredIsSome DEF ThinAnswers, Chain
    <3>4. QED
      BY <1>2, <3>1, <3>2, <3>3
  <2>2. days \in SUBSET (1..session)
    BY HistoriesAreOver DEF BarsInv
  <2>3. QED
    BY <1>1, <2>1, <2>2, HoldsKeeps
<1>3. CASE AlpacaMisses(v)
  <2> DEFINE new == [view[v] EXCEPT !.at = "chain", !.tried = TRUE]
  <2>1. view[v] \in ViewStates(session) /\ ViewFits(view[v])
    BY DEF BarsInv, BarsTypeOK
  <2>2. view' = [view EXCEPT ![v] = new] /\ rows' = rows /\ cached' = cached
    BY <1>1, <1>3, <2>1 DEF AlpacaMisses, stores, BarsInv, BarsTypeOK
  <2>3. new \in ViewStates(session) /\ ViewFits(new)
    BY <2>1 DEF ViewStates, ViewFits, Lately
  <2> HIDE DEF new
  <2>4. QED
    BY <1>1, <2>2, <2>3, BarsFacts, ViewKeeps
<1>4. QED
  BY <1>2, <1>3

LEMMA BarsStepKeeps ==
  ASSUME BarsInv, [Next]_vars
  PROVE  BarsInv'
<1>1. CASE UNCHANGED vars
  BY <1>1 DEF vars, clock, stores, BarsInv, BarsTypeOK, KnownInOrder, ViewFits, Lately
<1>2. CASE Ingest \/ Tick \/ Close
  BY <1>2, WorldKeeps
<1>3. ASSUME NEW v \in Views, GetBars(v) PROVE BarsInv'
  <2>1. CASE Start(v) \/ AskVendors(v) \/ Miss(v) \/ CountRows(v) \/ TooShort(v)
    <3>1. UNCHANGED clock /\ rows' \in RowSets(session) /\ UNCHANGED cached
      BY <2>1, BarsFacts DEF Start, AskVendors, Miss, CountRows, TooShort, stores
    <3>2. PICK where \in {"idle", "reads", "counts", "alpaca", "chain", "thin"} : Goes(v, where)
      BY <2>1 DEF Start, AskVendors, Miss, CountRows, TooShort
    <3>3. QED
      BY <3>1, <3>2, BarsFacts, GoesKeeps
  <2>2. CASE ReadRows(v) \/ Judge(v) \/ Rejudge(v)
    BY <2>2, RowsKeep
  <2>3. CASE AlpacaAnswers(v) \/ AlpacaMisses(v) \/ ChainAnswers(v) \/ ThinAnswers(v)
    BY <2>3, VendorsKeep
  <2>4. CASE Put(v)
    <3> DEFINE entry == [view[v].payload EXCEPT !.put = now]
    <3>1. view[v].payload \in Payloads /\ Lately(view[v].payload) /\ now \in Int
      BY BarsFacts DEF BarsInv, BarsTypeOK, ViewStates, ViewFits
    <3>2. entry \in Payloads /\ entry.judged = view[v].payload.judged
          /\ entry.of = view[v].payload.of /\ entry.latest = view[v].payload.latest
      BY <3>1 DEF Payloads
    <3>3. cached' = entry /\ Goes(v, "idle") /\ UNCHANGED clock /\ rows' \in RowSets(session)
      BY <2>4, BarsFacts DEF Put
    <3> HIDE DEF entry
    <3>4. Lately(entry)
      BY <3>1, <3>2 DEF Lately
    <3>5. QED
      BY <3>2, <3>3, <3>4, GoesKeeps
  <2>5. CASE Store(v)
    <3>1. /\ rows' = Upserted(view[v].bars.days, view[v].bars.source)
          /\ Goes(v, "rereads") /\ UNCHANGED clock /\ UNCHANGED cached
      BY <2>5 DEF Store
    <3>2. view[v].bars.days \in SUBSET (1..session) /\ view[v].bars.source \in Vendors
      BY DEF BarsInv, BarsTypeOK, ViewStates, RowSets
    <3>3. rows' \in RowSets(session)
      BY <3>1, <3>2, UpsertedIsTyped DEF BarsInv
    <3>4. QED
      BY <3>1, <3>3, BarsFacts, GoesKeeps
  <2>6. CASE KeepThin(v)
    <3>1. /\ At(v, "keeps") /\ Makes(v, Payload(Held(v), FALSE, TRUE))
          /\ rows' \in {rows, Upserted(Held(v), view[v].bars.source)}
          /\ UNCHANGED clock /\ UNCHANGED cached
      BY <2>6 DEF KeepThin
    <3>2. Held(v) \in SUBSET (1..session) /\ view[v].bars.source \in Vendors
      BY DEF BarsInv, BarsTypeOK, ViewStates, RowSets, Held
    <3>3. Held(v) # {}
      BY <3>1 DEF At, Held, BarsInv, ViewFits
    <3>4. rows' \in RowSets(session)
      BY <3>1, <3>2, BarsFacts, UpsertedIsTyped DEF BarsInv
    <3>5. PassesGate(v, FALSE)
      BY DEF PassesGate
    <3>6. /\ Payload(Held(v), FALSE, TRUE) \in Payloads
          /\ Lately(Payload(Held(v), FALSE, TRUE))
      BY <3>3, <3>5, GateJudges
    <3>7. QED
      BY <3>1, <3>4, <3>6, MakesKeeps
  <2>7. QED
    BY <1>3, <2>1, <2>2, <2>3, <2>4, <2>5, <2>6 DEF GetBars
<1>4. QED
  BY <1>1, <1>2, <1>3 DEF Next

\* What is served out of the cache lacks at most one of the sessions that were
\* over a payload's life before, and as long before as its writer was slow, for
\* any number of views and any lives of cache, marker and cooldown
\* (service.py:757, 781, 1329).
THEOREM BarsAreFresh == Spec => []ServedFresh
<1>1. ASSUME BarsInv PROVE ServedFresh
  <2> DEFINE since == now - BarsTtl - (cached.put - cached.of)
  <2>1. SUFFICES ASSUME Lives, cached.judged, since >= 0
                 PROVE  cached.latest >= known[since] - 1
    BY DEF ServedFresh, UpToDate
  <2>2. /\ now \in Int /\ BarsTtl \in Int /\ cached.put \in Int /\ cached.of \in Int
        /\ cached.latest \in Int /\ now \in 0..MaxTime /\ MaxTime \in Nat
    BY <1>1, BarsFacts, BarsAssumption DEF BarsInv, BarsTypeOK, Payloads
  <2>3. cached.of \in 0..now /\ cached.latest >= known[cached.of] - 1
    BY <1>1, <2>1 DEF BarsInv, Lately
  <2>4. now <= cached.put + BarsTtl
    BY <2>1 DEF Lives
  <2>5. since \in 0..now /\ since <= cached.of
    BY <2>1, <2>2, <2>3, <2>4
  <2> HIDE DEF since
  <2>6. known[since] <= known[cached.of] /\ known[since] \in Nat /\ known[cached.of] \in Nat
    BY <1>1, <2>2, <2>3, <2>5 DEF BarsInv, BarsTypeOK, KnownInOrder
  <2>7. QED
    BY <2>2, <2>3, <2>6
<1>2. BarsInv /\ [Next]_vars => BarsInv'
  BY BarsStepKeeps
<1>3. QED
  BY <1>1, <1>2, BarsInitEstablishes, PTL DEF Spec

-----------------------------------------------------------------------------
(* Charts: the invariant.                                                  *)

QuoteSet ==
  [price : Nat, open : Nat, day : Nat, late : BOOLEAN, ahead : BOOLEAN]

\* What a chart shows, if it says that it is stitched with a quote, or not.
Agrees(shown, stitched, bars, quote, venue) ==
  LET last == LastBar(shown)
  IN  IF stitched
      THEN /\ last.close = quote.price /\ last.day = quote.day
           /\ last.low <= last.close /\ last.close <= last.high
           /\ \A i, k \in DOMAIN shown : i < k => shown[i].day < shown[k].day
           /\ \A i \in DOMAIN shown :
                i < Len(shown) \/ venue = "answers" => shown[i].day \in Sessions
      ELSE shown = bars

AskFits(x) ==
  /\ x.quote \in QuoteSet
  /\ x.at = "shown"
       => Agrees(x.shown, x.stitched, x.bars, Dated(x.quote, x.venue), x.venue)

\* Every quote that is held somewhere is one a vendor gave, or none.
QuotesInv ==
  /\ remote.quote \in QuoteSet /\ local.quote \in QuoteSet
  /\ DOMAIN ask = Askers
  /\ \A a \in Askers : AskFits(ask[a])

-----------------------------------------------------------------------------
(* Charts: stitching.                                                      *)

LEMMA ChartIsOrdered ==
  ASSUME NEW bars \in Charts
  PROVE  /\ bars \in Seq(Bars)
         /\ \A i \in DOMAIN bars : bars[i].day \in Sessions
         /\ \A i, k \in DOMAIN bars : i < k => bars[i].day < bars[k].day
  BY QuotesAssumption

LEMMA OverlaidAgrees ==
  ASSUME NEW bars \in Charts, bars # <<>>, NEW quote \in QuoteSet, NEW venue,
         quote.day = LastBar(bars).day
  PROVE  Agrees([bars EXCEPT ![Len(bars)] = Overlaid(@, quote.price)], TRUE, bars, quote,
                venue)
<1> DEFINE n == Len(bars)
           new == Overlaid(bars[n], quote.price)
           shown == [bars EXCEPT ![n] = new]
<1>1. /\ bars \in Seq(Bars) /\ n \in Nat \ {0} /\ DOMAIN bars = 1..n
      /\ n \in DOMAIN bars /\ bars[n] \in Bars
  <2>1. bars \in Seq(Bars)
    BY QuotesAssumption
  <2>2. n \in Nat \ {0} /\ DOMAIN bars = 1..n
    BY <2>1, EmptySeq
  <2>3. n \in DOMAIN bars
    BY <2>2
  <2>4. QED
    BY <2>1, <2>2, <2>3, ElementOfSeq
<1>2. /\ new.close = quote.price /\ new.day = quote.day
      /\ new.low <= new.close /\ new.close <= new.high
  <2>1. bars[n].day = quote.day /\ bars[n].high \in Nat /\ bars[n].low \in Nat
        /\ quote.price \in Nat
    BY <1>1 DEF LastBar, Bars, QuoteSet
  <2>2. /\ new.close = quote.price /\ new.day = bars[n].day
        /\ new.low = Smallest(bars[n].low, quote.price)
        /\ new.high = Largest(bars[n].high, quote.price)
    BY <1>1 DEF Overlaid, Bars
  <2> HIDE DEF new
  <2>3. QED
    BY <2>1, <2>2 DEF Smallest, Largest
<1> HIDE DEF new
<1>3. /\ DOMAIN shown = 1..n /\ Len(shown) = n /\ shown[n] = new
      /\ \A i \in 1..n : i # n => shown[i] = bars[i]
  <2>1. DOMAIN shown = DOMAIN bars /\ shown[n] = new
        /\ \A i \in DOMAIN bars : i # n => shown[i] = bars[i]
    BY <1>1
  <2>2. shown = [i \in 1..n |-> shown[i]]
    BY <1>1, <2>1
  <2>3. Len([i \in 1..n |-> shown[i]]) = n
    BY <1>1
  <2>4. QED
    BY <1>1, <2>1, <2>2, <2>3
<1> HIDE DEF shown
<1>4. \A i \in 1..n : shown[i].day = bars[i].day
  <2>1. new.day = bars[n].day
    BY <1>2, Zenon DEF LastBar
  <2>2. SUFFICES ASSUME NEW i \in 1..n PROVE shown[i].day = bars[i].day
    OBVIOUS
  <2>3. CASE i = n
    BY <1>3, <2>1, <2>3, Zenon
  <2>4. CASE i # n
    BY <1>3, <2>4, Zenon
  <2>5. QED
    BY <2>3, <2>4
<1>5. DOMAIN shown = DOMAIN bars /\ \A i \in DOMAIN bars : shown[i].day = bars[i].day
  BY <1>1, <1>3, <1>4, Zenon
<1>6. ASSUME NEW i \in DOMAIN shown, NEW k \in DOMAIN shown, i < k
      PROVE  shown[i].day < shown[k].day
  <2>1. i \in DOMAIN bars /\ k \in DOMAIN bars
    BY <1>5
  <2>2. bars[i].day < bars[k].day
    BY <1>6, <2>1, ChartIsOrdered
  <2>3. shown[i].day = bars[i].day /\ shown[k].day = bars[k].day
    BY <1>5, <2>1
  <2>4. QED
    BY <2>2, <2>3
<1>7. ASSUME NEW i \in DOMAIN shown PROVE shown[i].day \in Sessions
  <2>1. i \in DOMAIN bars /\ shown[i].day = bars[i].day
    BY <1>5, <1>7, Zenon
  <2>2. \A k \in DOMAIN bars : bars[k].day \in Sessions
    BY ChartIsOrdered
  <2>3. QED
    BY <2>1, <2>2, Zenon
<1>8. LastBar(shown) = new
  BY <1>3, Zenon DEF LastBar
<1>9. Agrees(shown, TRUE, bars, quote, venue)
  BY <1>2, <1>6, <1>7, <1>8 DEF Agrees
<1>10. QED
  BY <1>9 DEF shown, new

LEMMA FormingAgrees ==
  ASSUME NEW bars \in Charts, bars # <<>>, NEW quote \in QuoteSet, NEW venue,
         quote.day > LastBar(bars).day, quote.open # 0,
         venue = "answers" => quote.day \in Sessions
  PROVE  Agrees(Append(bars, FormingBar(quote)), TRUE, bars, quote, venue)
<1> DEFINE n == Len(bars)
           new == FormingBar(quote)
           shown == Append(bars, new)
<1>1. /\ bars \in Seq(Bars) /\ n \in Nat \ {0} /\ DOMAIN bars = 1..n
      /\ n \in DOMAIN bars /\ bars[n] \in Bars
  <2>1. bars \in Seq(Bars)
    BY QuotesAssumption
  <2>2. n \in Nat \ {0} /\ DOMAIN bars = 1..n
    BY <2>1, EmptySeq
  <2>3. n \in DOMAIN bars
    BY <2>2
  <2>4. QED
    BY <2>1, <2>2, <2>3, ElementOfSeq
<1>2. /\ quote.price \in Nat /\ quote.open \in Nat /\ quote.day \in Nat
  BY DEF QuoteSet
<1>3. /\ new.close = quote.price /\ new.day = quote.day
      /\ new.low <= new.close /\ new.close <= new.high /\ new \in Bars
  BY <1>2 DEF Smallest, Largest, Bars, FormingBar
<1> HIDE DEF new
<1>4. /\ DOMAIN shown = 1..n + 1 /\ Len(shown) = n + 1 /\ shown[n + 1] = new
      /\ \A i \in 1..n : shown[i] = bars[i]
  BY <1>1, <1>3, AppendProperties
<1> HIDE DEF shown
<1>5. \A i \in 1..n : bars[i].day \in Nat /\ bars[i].day <= bars[n].day
  <2>1. SUFFICES ASSUME NEW i \in 1..n
        PROVE  bars[i].day \in Nat /\ bars[i].day <= bars[n].day
    OBVIOUS
  <2>2. bars[i].day \in Nat
    <3>1. bars[i] \in Bars
      BY <1>1, ElementOfSeq
    <3>2. QED
      BY <3>1 DEF Bars
  <2>3. CASE i = n
    BY <2>2, <2>3
  <2>4. CASE i < n
    <3>1. bars[i].day < bars[n].day
      BY <1>1, <2>4, QuotesAssumption
    <3>2. bars[n].day \in Nat
      BY <1>1 DEF Bars
    <3>3. QED
      BY <2>2, <3>1, <3>2
  <2>5. i = n \/ i < n
    <3>1. n \in Nat /\ i \in 1..n
      BY <1>1
    <3> HIDE DEF n
    <3>2. QED
      BY <3>1
  <2>6. QED
    BY <2>3, <2>4, <2>5
<1>6. ASSUME NEW i \in DOMAIN shown, NEW k \in DOMAIN shown, i < k
      PROVE  shown[i].day < shown[k].day
  <2>1. CASE k = n + 1
    <3>1. i \in 1..n /\ shown[i] = bars[i] /\ shown[k] = new
      BY <1>1, <1>4, <1>6, <2>1
    <3>2. bars[i].day <= bars[n].day /\ bars[i].day \in Nat /\ bars[n].day < quote.day
          /\ bars[n].day \in Nat
      BY <1>1, <1>5, <3>1 DEF LastBar
    <3>3. QED
      BY <1>2, <1>3, <3>1, <3>2
  <2>2. CASE k # n + 1
    <3>1. i \in 1..n /\ k \in 1..n
      BY <1>1, <1>4, <1>6, <2>2
    <3>2. QED
      BY <1>1, <1>4, <1>6, <3>1, QuotesAssumption
  <2>3. QED
    BY <2>1, <2>2
<1>7. ASSUME NEW i \in DOMAIN shown, i < Len(shown) \/ venue = "answers"
      PROVE  shown[i].day \in Sessions
  <2>1. CASE i = n + 1
    BY <1>1, <1>3, <1>4, <1>7, <2>1
  <2>2. CASE i # n + 1
    <3>1. i \in 1..n
      BY <1>1, <1>4, <2>2
    <3>2. QED
      BY <1>1, <1>4, <3>1, QuotesAssumption
  <2>3. QED
    BY <2>1, <2>2
<1>8. LastBar(shown) = new
  BY <1>4 DEF LastBar
<1>9. Agrees(shown, TRUE, bars, quote, venue)
  BY <1>3, <1>6, <1>7, <1>8 DEF Agrees
<1>10. QED
  BY <1>9 DEF shown, new

\* However a chart and a quote are put together, the result says what it is.
LEMMA StitchedAgrees ==
  ASSUME NEW bars \in Charts, NEW quote \in QuoteSet, NEW venue
  PROVE  Agrees(Stitched(bars, quote, venue).bars, Stitched(bars, quote, venue).stitched,
                bars, quote, venue)
<1>1. Agrees(Declined(bars).bars, Declined(bars).stitched, bars, quote, venue)
  BY DEF Declined, Agrees
<1>2. CASE bars = <<>> \/ quote.price = 0 \/ quote.day < LastBar(bars).day
  BY <1>1, <1>2 DEF Stitched
<1>3. CASE ~(bars = <<>> \/ quote.price = 0 \/ quote.day < LastBar(bars).day)
  <2>1. CASE quote.day > LastBar(bars).day
    <3>1. Stitched(bars, quote, venue) = Forming(bars, quote, venue)
      BY <1>3, <2>1 DEF Stitched
    <3> DEFINE declines == quote.open = 0 \/ (venue = "answers" /\ quote.day \notin Sessions)
    <3>2. CASE declines
      BY <1>1, <3>1, <3>2 DEF Forming
    <3>3. CASE ~declines
      <4>1. /\ Forming(bars, quote, venue).bars = Append(bars, FormingBar(quote))
            /\ Forming(bars, quote, venue).stitched = TRUE
        BY <3>3 DEF Forming
      <4>2. Agrees(Append(bars, FormingBar(quote)), TRUE, bars, quote, venue)
        BY <1>3, <2>1, <3>3, FormingAgrees
      <4>3. QED
        BY <3>1, <4>1, <4>2
    <3>4. QED
      BY <3>2, <3>3
  <2>2. CASE ~(quote.day > LastBar(bars).day)
    <3>1. bars \in Seq(Bars) /\ Len(bars) \in DOMAIN bars
      BY <1>3, QuotesAssumption, EmptySeq
    <3>2. LastBar(bars).day \in Nat /\ quote.day \in Nat
      <4>1. bars[Len(bars)] \in Bars
        BY <3>1, ElementOfSeq
      <4>2. QED
        BY <4>1 DEF LastBar, Bars, QuoteSet
    <3>3. quote.day = LastBar(bars).day
      BY <1>3, <2>2, <3>2
    <3>4. /\ Stitched(bars, quote, venue).bars
               = [bars EXCEPT ![Len(bars)] = Overlaid(@, quote.price)]
          /\ Stitched(bars, quote, venue).stitched = TRUE
      BY <1>3, <2>2 DEF Stitched
    <3>5. QED
      BY <1>3, <3>3, <3>4, OverlaidAgrees
  <2>3. QED
    BY <2>1, <2>2
<1>4. QED
  BY <1>2, <1>3

-----------------------------------------------------------------------------
(* Charts: the steps.                                                      *)

LEMMA NoQuoteIsTyped == NoQuote \in QuoteSet
  BY DEF NoQuote, QuoteSet

LEMMA NotAskingFits ==
  ASSUME NEW new, new.quote \in QuoteSet, new.at # "shown"
  PROVE  AskFits(new)
  BY DEF AskFits

LEMMA QuotesInitEstablishes == QuotesInit => QuotesInv
<1>1. NotAsking.quote = NoQuote /\ NotAsking.at = "idle" /\ NoEntry.quote = NoQuote
  BY DEF NotAsking, NoEntry, Entry
<1>2. AskFits(NotAsking)
  BY <1>1, NoQuoteIsTyped, NotAskingFits
<1>3. QED
  BY <1>1, <1>2, NoQuoteIsTyped DEF QuotesInit, QuotesInv

\* A step of one asker keeps the invariant if what it holds then fits.
LEMMA AskKeeps ==
  ASSUME QuotesInv, NEW a \in Askers, NEW new, AskFits(new),
         ask' = [ask EXCEPT ![a] = new],
         remote'.quote \in QuoteSet, local'.quote \in QuoteSet
  PROVE  QuotesInv'
<1>1. DOMAIN ask' = Askers
  BY DEF QuotesInv
<1>2. ASSUME NEW b \in Askers PROVE AskFits(ask'[b])
  <2>1. ask'[b] = IF b = a THEN new ELSE ask[b]
    BY DEF QuotesInv
  <2>2. QED
    BY <2>1 DEF QuotesInv
<1>3. QED
  BY <1>1, <1>2 DEF QuotesInv

LEMMA QuotesStepKeeps ==
  ASSUME QuotesInv, [QuotesNext]_quoteVars
  PROVE  QuotesInv'
<1>1. CASE UNCHANGED quoteVars \/ Flap \/ Second
  <2>1. remote' = remote /\ local' = local /\ ask' = ask
    BY <1>1 DEF quoteVars, Flap, Second
  <2>2. QED
    BY <2>1 DEF QuotesInv
<1>2. ASSUME NEW a \in Askers, AskQuote(a) PROVE QuotesInv'
  <2> DEFINE new == IF Hit # NoEntry
                    THEN [NotAsking EXCEPT !.at = "quoted", !.quote = Hit.quote]
                    ELSE [NotAsking EXCEPT !.at = "asks", !.legs = Feeds]
  <2>1. ask' = [ask EXCEPT ![a] = new] /\ remote' = remote /\ local' = local
    BY <1>2 DEF AskQuote
  <2>2. Hit.quote \in QuoteSet
    <3>1. NoEntry.quote \in QuoteSet
      BY NoQuoteIsTyped DEF NoEntry, Entry
    <3>2. QED
      BY <3>1 DEF Hit, QuotesInv
  <2>3. new.quote \in QuoteSet /\ new.at # "shown"
    BY <2>2, NoQuoteIsTyped DEF NotAsking
  <2> HIDE DEF new
  <2>4. QED
    BY <2>1, <2>3, NotAskingFits, AskKeeps DEF QuotesInv
<1>3. ASSUME NEW a \in Askers, FeedAnswers(a) PROVE QuotesInv'
  <2>1. PICK quote \in Quotations :
          ask' = [ask EXCEPT ![a] =
            IF Usable(quote) THEN [NotAsking EXCEPT !.at = "writes", !.quote = quote]
            ELSE [NotAsking EXCEPT !.at = "failed"]]
    BY <1>3, Zenon DEF FeedAnswers
  <2> DEFINE new == IF Usable(quote)
                    THEN [NotAsking EXCEPT !.at = "writes", !.quote = quote]
                    ELSE [NotAsking EXCEPT !.at = "failed"]
  <2>2. ask' = [ask EXCEPT ![a] = new] /\ remote' = remote /\ local' = local
    BY <1>3, <2>1 DEF FeedAnswers
  <2>3. quote \in QuoteSet
    BY QuotesAssumption DEF QuoteSet
  <2>4. new.quote \in QuoteSet /\ new.at # "shown"
    BY <2>3, NoQuoteIsTyped DEF NotAsking
  <2> HIDE DEF new
  <2>5. QED
    BY <2>2, <2>4, NotAskingFits, AskKeeps DEF QuotesInv
<1>4. ASSUME NEW a \in Askers, NEW new, ask' = [ask EXCEPT ![a] = new],
             new.quote = ask[a].quote, new.at # "shown",
             remote'.quote \in QuoteSet, local'.quote \in QuoteSet
      PROVE  QuotesInv'
  <2>1. new.quote \in QuoteSet
    BY <1>4 DEF QuotesInv, AskFits
  <2>2. QED
    BY <1>4, <2>1, NotAskingFits, AskKeeps
<1>5. ASSUME NEW a \in Askers, FeedMisses(a) PROVE QuotesInv'
  <2> DEFINE new == [ask[a] EXCEPT !.legs = Tail(@)]
  <2>1. /\ ask' = [ask EXCEPT ![a] = new] /\ ask[a].at = "asks"
        /\ remote' = remote /\ local' = local
    BY <1>5 DEF FeedMisses, AskAt, QuotesInv
  <2>2. new.quote = ask[a].quote /\ new.at = ask[a].at
    OBVIOUS
  <2> HIDE DEF new
  <2>3. QED
    BY <1>4, <2>1, <2>2 DEF QuotesInv
<1>6. ASSUME NEW a \in Askers, NothingLive(a) \/ Persist(a) \/ PersistFails(a)
      PROVE  QuotesInv'
  <2>1. PICK where \in {"failed", "caches"} : ask' = [ask EXCEPT ![a].at = where]
    BY <1>6 DEF NothingLive, Persist, PersistFails
  <2> DEFINE new == [ask[a] EXCEPT !.at = where]
  <2>2. ask' = [ask EXCEPT ![a] = new] /\ remote' = remote /\ local' = local
    BY <1>6, <2>1 DEF NothingLive, Persist, PersistFails, QuotesInv
  <2>3. new.quote = ask[a].quote /\ new.at \in {where, ask[a].at}
    OBVIOUS
  <2>4. ask[a].at # "shown"
    BY <1>6 DEF NothingLive, Persist, PersistFails, AskAt
  <2> HIDE DEF new
  <2>5. QED
    BY <1>4, <2>2, <2>3, <2>4 DEF QuotesInv
<1>7. ASSUME NEW a \in Askers, Cache(a) PROVE QuotesInv'
  <2> DEFINE new == [ask[a] EXCEPT !.at = "quoted"]
             entry == Entry(ask[a].quote, quoteNow)
  <2>1. /\ ask' = [ask EXCEPT ![a] = new]
        /\ remote' \in {entry, remote} /\ local' \in {entry, local}
    BY <1>7 DEF Cache, QuotesInv
  <2>2. new.quote = ask[a].quote /\ new.at \in {"quoted", ask[a].at} /\ ask[a].at # "shown"
    BY <1>7 DEF Cache, AskAt
  <2>3. entry.quote \in QuoteSet
    BY DEF Entry, QuotesInv, AskFits
  <2> HIDE DEF new, entry
  <2>4. QED
    BY <1>4, <2>1, <2>2, <2>3 DEF QuotesInv
<1>8. ASSUME NEW a \in Askers, ShowChart(a) PROVE QuotesInv'
  <2>1. PICK bars \in Charts, quote \in {ask[a].quote, NoQuote}, venue \in Venues :
          ShowsChart(a, bars, quote, venue)
    BY <1>8 DEF ShowChart, Venues
  <2>2. quote \in QuoteSet /\ remote' = remote /\ local' = local
    BY <1>8, <2>1, NoQuoteIsTyped DEF ShowChart, QuotesInv, AskFits
  <2> DEFINE dated == Dated(quote, venue)
             chart == Stitched(bars, dated, venue)
             new == [NotAsking EXCEPT !.at = "shown", !.quote = quote, !.venue = venue,
                                      !.bars = bars, !.shown = chart.bars,
                                      !.stitched = chart.stitched]
  <2>3. ask' = [ask EXCEPT ![a] = new]
    BY <2>1 DEF ShowsChart
  <2>4. dated \in QuoteSet
    BY <2>2 DEF Dated, QuoteSet
  <2> HIDE DEF dated
  <2>5. Agrees(chart.bars, chart.stitched, bars, dated, venue)
    BY <2>4, StitchedAgrees
  <2> HIDE DEF chart
  <2>6. /\ new.quote = quote /\ new.shown = chart.bars /\ new.bars = bars
        /\ new.venue = venue /\ new.stitched = chart.stitched
    BY DEF NotAsking
  <2> HIDE DEF new
  <2>7. AskFits(new)
    BY <2>2, <2>5, <2>6 DEF AskFits, dated
  <2>8. QED
    BY <2>2, <2>3, <2>7, AskKeeps DEF QuotesInv
<1>9. ASSUME NEW a \in Askers, Answered(a) PROVE QuotesInv'
  <2>1. NotAsking.quote \in QuoteSet /\ NotAsking.at # "shown"
    BY NoQuoteIsTyped DEF NotAsking
  <2>2. QED
    BY <1>9, <2>1, NotAskingFits, AskKeeps DEF Answered, QuotesInv
<1>10. QED
  BY <1>1, <1>2, <1>3, <1>5, <1>6, <1>7, <1>8, <1>9 DEF QuotesNext

\* A chart into which a quote is stitched agrees with that quote and with the
\* venue's sessions, whichever cache either came from, for any chart and quote
\* (service.py:977, 1157).
THEOREM ChartsAgree == QuotesSpec => []ChartAgrees
<1>1. ASSUME QuotesInv PROVE ChartAgrees
  <2>1. SUFFICES ASSUME NEW a \in Askers, AskAt(a, "shown")
                 PROVE  Agrees(ask[a].shown, ask[a].stitched, ask[a].bars,
                               Dated(ask[a].quote, ask[a].venue), ask[a].venue)
    <3>1. \A x : Dated(x.quote, x.venue).price = x.quote.price
      BY DEF Dated
    <3>2. QED
      BY <3>1, Zenon DEF ChartAgrees, Agrees
  <2>2. QED
    BY <1>1, <2>1, Zenon DEF QuotesInv, AskAt, AskFits
<1>2. QuotesInv /\ [QuotesNext]_quoteVars => QuotesInv'
  BY QuotesStepKeeps
<1>3. QED
  BY <1>1, <1>2, QuotesInitEstablishes, PTL DEF QuotesSpec

-----------------------------------------------------------------------------
(* Ticks: the invariant.                                                   *)

EverySymbol == ToSet(Universe) \cup ToSet(Named)

\* The symbols a shard, or the list by name, stands for.
Slice(shard) == IF shard = 0 THEN Named ELSE Shard(shard)

TickStates ==
  [at : {"idle", "connects", "fetches", "persists", "inserts", "upserts", "ends"},
   shard : 0..Shards, wanted : Seq(EverySymbol), elapsed : Nat, connected : Nat,
   errors : SUBSET EverySymbol, fetched : SUBSET EverySymbol,
   left : SUBSET EverySymbol, inserted : SUBSET EverySymbol,
   ingested : SUBSET EverySymbol]

IngestTypeOK ==
  /\ tick \in [Ticks -> TickStates]
  /\ clean \subseteq 0..Shards

\* What a tick was asked for is what it has failed, written or still to write,
\* and no symbol is two of these.
Balanced(x) ==
  /\ x.errors \cup x.ingested \cup x.left = ToSet(x.wanted)
  /\ x.errors \cap x.ingested = {}
  /\ x.left \cap (x.errors \cup x.ingested) = {}

\* A budgeted tick is within its budget, or over it by what the pool is sure to
\* get or by one symbol.
InBudget(x) ==
  x.shard > 0 =>
    x.elapsed <= Greater(TickBudget + Slow - 1, x.connected + PoolFloor)

TickFits(x) ==
  /\ x.at # "idle" => x.wanted = Slice(x.shard)
  /\ x.at \in {"idle", "connects", "fetches"} =>
       x.errors = {} /\ x.ingested = {} /\ x.left = {} /\ x.elapsed = x.connected
  /\ x.at \in {"persists", "inserts", "upserts", "ends"} => Balanced(x)
  /\ x.at \in {"inserts", "upserts"} =>
       x.left # {} /\ (x.shard > 0 => x.elapsed < TickBudget)
  /\ x.at = "ends" => x.left = {}
  /\ InBudget(x)

\* What a tick has written is committed, and a slice that went through without
\* an error is.
IngestInv ==
  /\ IngestTypeOK
  /\ \A t \in Ticks : TickFits(tick[t]) /\ tick[t].ingested \subseteq barred
  /\ \A shard \in clean : ToSet(Slice(shard)) \subseteq barred

-----------------------------------------------------------------------------
(* Ticks: shards.                                                          *)

LEMMA ShardIsTyped ==
  ASSUME NEW shard \in 0..Shards
  PROVE  Slice(shard) \in Seq(EverySymbol)
<1>1. CASE shard = 0
  <2>1. Named \in Seq(ToSet(Named)) /\ ToSet(Named) \subseteq EverySymbol
    BY IngestAssumption DEF EverySymbol
  <2>2. QED
    BY <1>1, <2>1 DEF Slice
<1>2. CASE shard # 0
  <2> DEFINE last == (Len(Universe) - shard) \div Shards + 1
  <2>1. /\ shard \in Nat \ {0} /\ Shards \in Nat \ {0} /\ shard <= Shards
        /\ Len(Universe) \in Nat
    BY <1>2, IngestAssumption
  <2>2. last \in Int /\ last >= 0
    BY <2>1
  <2>3. ASSUME NEW k \in 1..last PROVE Universe[shard + (k - 1) * Shards] \in EverySymbol
    <3> DEFINE gap == (Len(Universe) - shard) \div Shards
    <3>1. gap \in Int /\ gap * Shards <= Len(Universe) - shard
      BY <2>1
    <3>2. k - 1 <= gap /\ k - 1 \in Nat
      BY <2>1, <2>3
    <3> HIDE DEF gap
    <3>3. (k - 1) * Shards <= gap * Shards /\ (k - 1) * Shards \in Nat
      BY <2>1, <3>1, <3>2
    <3>4. shard + (k - 1) * Shards \in 1..Len(Universe)
      BY <2>1, <3>1, <3>3
    <3>5. DOMAIN Universe = 1..Len(Universe)
      BY IngestAssumption
    <3>6. QED
      BY <3>4, <3>5 DEF EverySymbol, ToSet
  <2>4. Slice(shard) = [k \in 1..last |-> Universe[shard + (k - 1) * Shards]]
    BY <1>2 DEF Slice, Shard
  <2> HIDE DEF last
  <2>5. QED
    BY <2>2, <2>3, <2>4, IsASeq
<1>3. QED
  BY <1>1, <1>2

\* Every symbol of the universe is in one of the shards.
LEMMA ShardsCover ==
  ASSUME NEW symbol \in ToSet(Universe)
  PROVE  \E shard \in 1..Shards : symbol \in ToSet(Slice(shard))
<1>1. PICK i \in 1..Len(Universe) : symbol = Universe[i]
  <2>1. DOMAIN Universe = 1..Len(Universe)
    BY IngestAssumption
  <2> QED
    BY <2>1 DEF ToSet
<1> DEFINE shard == ((i - 1) % Shards) + 1
           k == (i - 1) \div Shards + 1
<1>2. Shards \in Nat \ {0} /\ i \in Nat \ {0} /\ Len(Universe) \in Nat /\ i <= Len(Universe)
  BY IngestAssumption
<1>3. /\ i - 1 = Shards * ((i - 1) \div Shards) + ((i - 1) % Shards)
      /\ (i - 1) % Shards \in 0..Shards - 1 /\ (i - 1) \div Shards \in Nat
  BY <1>2
<1>4. /\ shard \in 1..Shards /\ k \in Nat \ {0} /\ k - 1 \in Nat
      /\ i = shard + (k - 1) * Shards
  BY <1>2, <1>3
<1> HIDE DEF shard, k
<1>5. k - 1 <= (Len(Universe) - shard) \div Shards
  <2>1. Len(Universe) - shard >= (k - 1) * Shards
    BY <1>2, <1>4
  <2>2. QED
    BY <1>2, <1>4, <2>1
<1>6. (Len(Universe) - shard) \div Shards \in Int
  BY <1>2, <1>4
<1>7. k \in 1..(Len(Universe) - shard) \div Shards + 1
  BY <1>4, <1>5, <1>6
<1>8. Slice(shard) = [j \in 1..(Len(Universe) - shard) \div Shards + 1 |->
                        Universe[shard + (j - 1) * Shards]]
  BY <1>4 DEF Slice, Shard
<1>9. k \in DOMAIN Slice(shard) /\ Slice(shard)[k] = symbol
  BY <1>1, <1>4, <1>7, <1>8
<1>10. QED
  BY <1>4, <1>9 DEF ToSet

-----------------------------------------------------------------------------
(* Ticks: the steps.                                                       *)

LEMMA IngestNumbers ==
  /\ {TickBudget, Reserve, PoolFloor, PoolCeiling, LegacyPool} \subseteq Nat
  /\ Shards \in Nat \ {0} /\ Slow \in Nat \ {0} /\ 0 \in 0..Shards
  BY IngestAssumption

LEMMA NoTickFits == NoTick \in TickStates /\ TickFits(NoTick) /\ NoTick.ingested = {}
<1>1. NoTick.wanted \in Seq(EverySymbol)
  BY EmptySeq DEF NoTick
<1>2. NoTick \in TickStates
  BY <1>1, IngestNumbers DEF NoTick, TickStates
<1>3. QED
  BY <1>2 DEF NoTick, TickFits, InBudget

LEMMA IngestInitEstablishes == IngestInit => IngestInv
  BY NoTickFits DEF IngestInit, IngestInv, IngestTypeOK

\* A step of one tick keeps the invariant if the tick fits, what it calls
\* written is committed and what was committed stays.
LEMMA TickKeeps ==
  ASSUME IngestInv, NEW t \in Ticks, NEW new \in TickStates, TickFits(new),
         Update(t, new), new.ingested \subseteq barred', barred \subseteq barred',
         clean' = clean
  PROVE  IngestInv'
<1>1. IngestTypeOK'
  BY DEF IngestInv, IngestTypeOK, Update
<1>2. ASSUME NEW u \in Ticks
      PROVE  TickFits(tick'[u]) /\ tick'[u].ingested \subseteq barred'
  <2>1. tick'[u] = IF u = t THEN new ELSE tick[u]
    BY DEF IngestInv, IngestTypeOK, Update
  <2>2. QED
    BY <2>1 DEF IngestInv
<1>3. \A shard \in clean' : ToSet(Slice(shard)) \subseteq barred'
  BY DEF IngestInv
<1>4. QED
  BY <1>1, <1>2, <1>3 DEF IngestInv, TickFits, Balanced, InBudget

\* The symbol whose turn it is is one of those left.
LEMMA CurrentIsLeft ==
  ASSUME NEW t \in Ticks, tick[t] \in TickStates, tick[t].left # {}, Balanced(tick[t])
  PROVE  Current(t) \in tick[t].left
<1> DEFINE wanted == tick[t].wanted
           places == {i \in DOMAIN wanted : wanted[i] \in tick[t].left}
<1>1. DOMAIN wanted \subseteq Nat
  BY DEF TickStates
<1>2. places \in SUBSET Nat /\ places # {}
  BY <1>1 DEF Balanced, ToSet
<1>3. PICK first \in places : \A i \in places : first <= i
  BY <1>2, LeastExists
<1>4. DOMAIN wanted = 1..Len(wanted) /\ Len(wanted) \in Nat
  BY DEF TickStates
<1>5. \A k \in 1..first - 1 : wanted[k] \notin tick[t].left
  <2>1. SUFFICES ASSUME NEW k \in 1..first - 1, wanted[k] \in tick[t].left PROVE FALSE
    OBVIOUS
  <2>2. first \in 1..Len(wanted)
    BY <1>4
  <2>3. k \in DOMAIN wanted /\ k < first
    BY <1>4, <2>2
  <2>4. k \in places
    BY <2>1, <2>3
  <2> HIDE DEF places, wanted
  <2>5. QED
    BY <1>2, <1>3, <2>3, <2>4
<1>6. first \in DOMAIN wanted /\ wanted[first] \in tick[t].left
  OBVIOUS
<1>7. QED
  BY <1>5, <1>6 DEF Current

\* The pool is given what leaves the reserve, or the least it is sure to get.
LEMMA PoolInBudget ==
  ASSUME NEW t \in Ticks, tick[t] \in TickStates, tick[t].elapsed = tick[t].connected
  PROVE  /\ Pool(t) \in Nat
         /\ tick[t].shard > 0 =>
              tick[t].elapsed + Pool(t)
                <= Greater(TickBudget + Slow - 1, tick[t].connected + PoolFloor)
<1> DEFINE spent == tick[t].elapsed
<1>1. spent \in Nat /\ tick[t].connected = spent
  BY DEF TickStates
<1> HIDE DEF spent
<1>2. CASE Budgeted(t)
  <2>1. Pool(t) = Greater(PoolFloor, Lesser(PoolCeiling, TickBudget - spent - Reserve))
    BY <1>2 DEF Pool, spent
  <2>2. QED
    BY <1>1, <2>1, IngestNumbers DEF Greater, Lesser, spent
<1>3. CASE ~Budgeted(t)
  BY <1>3, IngestNumbers DEF Pool, Budgeted
<1>4. QED
  BY <1>2, <1>3

\* What comes out of the fetching is balanced and in time.
LEMMA FetchesKeeps ==
  ASSUME IngestInv, NEW t \in Ticks, TickAt(t, "fetches"), NEW fetched \in SUBSET Resolved(t),
         NEW seconds \in {0, Pool(t)}, Fetches(t, fetched, seconds),
         UNCHANGED <<instruments, barred, clean>>
  PROVE  IngestInv'
<1> DEFINE new == [tick[t] EXCEPT !.at = "persists", !.elapsed = @ + seconds,
                     !.fetched = fetched, !.errors = WantedBy(t) \ fetched,
                     !.left = fetched]
<1>1. /\ tick[t] \in TickStates /\ TickFits(tick[t]) /\ tick[t].ingested = {}
      /\ tick[t].elapsed = tick[t].connected /\ tick[t].wanted = Slice(tick[t].shard)
  BY DEF IngestInv, IngestTypeOK, TickAt, TickFits
<1>2. seconds \in Nat
  BY <1>1, PoolInBudget
<1>3. WantedBy(t) \subseteq EverySymbol /\ fetched \subseteq WantedBy(t)
  BY <1>1 DEF WantedBy, ToSet, TickStates, Resolved
<1>4. new \in TickStates
  <2>1. tick[t].elapsed + seconds \in Nat
    BY <1>1, <1>2 DEF TickStates
  <2>2. fetched \in SUBSET EverySymbol /\ WantedBy(t) \ fetched \in SUBSET EverySymbol
    BY <1>3
  <2>3. QED
    BY <1>1, <2>1, <2>2 DEF TickStates
<1>5. /\ Update(t, new)
      /\ new.at = "persists" /\ new.shard = tick[t].shard /\ new.wanted = tick[t].wanted
      /\ new.left = fetched /\ new.ingested = {} /\ new.errors = WantedBy(t) \ fetched
      /\ new.elapsed = tick[t].elapsed + seconds /\ new.connected = tick[t].connected
  BY <1>1 DEF TickStates, Fetches
<1> HIDE DEF new
<1>6. Balanced(new)
  BY <1>3, <1>5 DEF Balanced, WantedBy
<1>7. InBudget(new)
  <2>1. SUFFICES ASSUME new.shard > 0
        PROVE  tick[t].elapsed + seconds
                 <= Greater(TickBudget + Slow - 1, tick[t].connected + PoolFloor)
    BY <1>5 DEF InBudget
  <2>2. CASE seconds = Pool(t)
    BY <1>1, <1>5, <2>1, <2>2, PoolInBudget
  <2>3. CASE seconds = 0
    <3>1. tick[t].elapsed \in Nat
      BY <1>1 DEF TickStates
    <3>2. tick[t].elapsed <= Greater(TickBudget + Slow - 1, tick[t].elapsed + PoolFloor)
      BY <3>1, IngestNumbers DEF Greater
    <3>3. QED
      BY <1>1, <2>3, <3>1, <3>2
  <2>4. QED
    BY <2>2, <2>3
<1>8. TickFits(new)
  BY <1>1, <1>5, <1>6, <1>7 DEF TickFits
<1>9. QED
  BY <1>4, <1>5, <1>8, TickKeeps

\* The current symbol fails: it is an error now, and no longer left.
LEMMA FailedKeeps ==
  ASSUME IngestInv, NEW t \in Ticks, tick[t].at \in {"persists", "inserts", "upserts"},
         tick[t].left # {}, NEW spent \in Nat,
         Failed(t, [tick[t] EXCEPT !.elapsed = spent]),
         InBudget([tick[t] EXCEPT !.elapsed = spent]),
         UNCHANGED <<instruments, barred, clean>>
  PROVE  IngestInv'
<1> DEFINE new == [tick[t] EXCEPT !.elapsed = spent, !.at = "persists", !.inserted = {},
                     !.errors = @ \cup {Current(t)}, !.left = @ \ {Current(t)}]
<1>1. /\ tick[t] \in TickStates /\ TickFits(tick[t]) /\ Balanced(tick[t])
      /\ tick[t].ingested \subseteq barred
  BY DEF IngestInv, IngestTypeOK, TickFits
<1>2. Current(t) \in tick[t].left
  BY <1>1, CurrentIsLeft
<1>3. Update(t, new)
  BY <1>1 DEF Failed, TickStates
<1>4. new \in TickStates
  BY <1>1, <1>2 DEF TickStates
<1>5. /\ new.at = "persists" /\ new.shard = tick[t].shard /\ new.wanted = tick[t].wanted
      /\ new.left = tick[t].left \ {Current(t)} /\ new.ingested = tick[t].ingested
      /\ new.errors = tick[t].errors \cup {Current(t)}
      /\ new.elapsed = spent /\ new.connected = tick[t].connected
  BY <1>1 DEF TickStates
<1> HIDE DEF new
<1>6. Balanced(new)
  BY <1>1, <1>2, <1>5 DEF Balanced
<1>7. InBudget(new)
  BY <1>1, <1>5 DEF InBudget, TickStates
<1>8. TickFits(new)
  BY <1>1, <1>5, <1>6, <1>7 DEF TickFits
<1>9. QED
  BY <1>1, <1>3, <1>4, <1>5, <1>8, TickKeeps

LEMMA IngestStepKeeps ==
  ASSUME IngestInv, [IngestNext]_ingestVars
  PROVE  IngestInv'
<1>1. CASE UNCHANGED ingestVars
  <2>1. tick' = tick /\ barred' = barred /\ clean' = clean
    BY <1>1 DEF ingestVars
  <2>2. QED
    BY <2>1 DEF IngestInv, IngestTypeOK, TickFits, Balanced, InBudget
<1>2. ASSUME NEW t \in Ticks PROVE tick[t] \in TickStates /\ TickFits(tick[t])
  BY <1>2 DEF IngestInv, IngestTypeOK
<1>3. ASSUME NEW t \in Ticks, Request(t) PROVE IngestInv'
  <2>1. PICK shard \in 0..Shards :
          Update(t, [NoTick EXCEPT !.at = "connects", !.shard = shard,
                       !.wanted = IF shard = 0 THEN Named ELSE Shard(shard)])
    BY <1>3 DEF Request
  <2> DEFINE new == [NoTick EXCEPT !.at = "connects", !.shard = shard,
                       !.wanted = Slice(shard)]
  <2>2. Update(t, new) /\ UNCHANGED <<instruments, barred, clean>>
    BY <1>3, <2>1 DEF Slice, Request
  <2>3. Slice(shard) \in Seq(EverySymbol)
    BY ShardIsTyped
  <2>4. new \in TickStates
    BY <2>3, NoTickFits DEF TickStates
  <2>5. TickFits(new) /\ new.ingested = {}
    BY IngestNumbers DEF TickFits, InBudget, NoTick, Greater
  <2> HIDE DEF new
  <2>6. QED
    BY <2>2, <2>4, <2>5, TickKeeps
<1>4. ASSUME NEW t \in Ticks, Connect(t) PROVE IngestInv'
  <2>1. PICK s \in {0, Slow} :
          Update(t, [tick[t] EXCEPT !.at = "fetches", !.elapsed = s, !.connected = s])
    BY <1>4 DEF Connect
  <2> DEFINE new == [tick[t] EXCEPT !.at = "fetches", !.elapsed = s, !.connected = s]
  <2>2. s \in Nat
    BY IngestNumbers
  <2>3. TickAt(t, "connects") /\ UNCHANGED <<instruments, barred, clean>>
    BY <1>4 DEF Connect
  <2>4. /\ new \in TickStates /\ new.at = "fetches" /\ new.shard = tick[t].shard
        /\ new.wanted = tick[t].wanted /\ new.errors = tick[t].errors
        /\ new.ingested = tick[t].ingested /\ new.left = tick[t].left
        /\ new.elapsed = s /\ new.connected = s
    BY <1>2, <2>2 DEF TickStates
  <2>5. InBudget(new)
    BY <2>2, <2>4, IngestNumbers DEF InBudget, Greater
  <2>6. Update(t, new)
    BY <2>1
  <2> HIDE DEF new
  <2>7. TickFits(new)
    BY <1>2, <2>3, <2>4, <2>5 DEF TickFits, TickAt
  <2>8. QED
    BY <2>3, <2>4, <2>6, <2>7, TickKeeps DEF IngestInv
<1>5. ASSUME NEW t \in Ticks, Unreachable(t) PROVE IngestInv'
  <2> DEFINE new == [tick[t] EXCEPT !.at = "ends", !.errors = ToSet(tick[t].wanted)]
  <2>1. /\ TickAt(t, "connects") /\ Update(t, new)
        /\ UNCHANGED <<instruments, barred, clean>>
    BY <1>5 DEF Unreachable, WantedBy
  <2>2. ToSet(tick[t].wanted) \in SUBSET EverySymbol
    BY <1>2 DEF TickStates, ToSet
  <2>3. /\ new \in TickStates /\ new.at = "ends" /\ new.shard = tick[t].shard
        /\ new.wanted = tick[t].wanted /\ new.errors = ToSet(tick[t].wanted)
        /\ new.ingested = tick[t].ingested /\ new.left = tick[t].left
        /\ new.elapsed = tick[t].elapsed /\ new.connected = tick[t].connected
    BY <1>2, <2>2 DEF TickStates
  <2> HIDE DEF new
  <2>4. TickFits(new)
    BY <1>2, <2>1, <2>3 DEF TickFits, TickAt, InBudget, Balanced
  <2>5. QED
    BY <2>1, <2>3, <2>4, TickKeeps DEF IngestInv
<1>6. ASSUME NEW t \in Ticks, FetchAll(t) \/ FetchSome(t) PROVE IngestInv'
  <2>1. PICK fetched \in SUBSET Resolved(t), seconds \in {0, Pool(t)} :
          Fetches(t, fetched, seconds)
    BY <1>6 DEF FetchAll, FetchSome
  <2>2. TickAt(t, "fetches") /\ UNCHANGED <<instruments, barred, clean>>
    BY <1>6 DEF FetchAll, FetchSome
  <2>3. QED
    BY <2>1, <2>2, FetchesKeeps
<1>7. ASSUME NEW t \in Ticks, FetchOneByOne(t) PROVE IngestInv'
  <2>1. PICK heard \in SUBSET Resolved(t), late \in SUBSET Resolved(t) :
          Fetches(t, heard \cup late, Pool(t))
    BY <1>7 DEF FetchOneByOne
  <2>2. TickAt(t, "fetches") /\ UNCHANGED <<instruments, barred, clean>>
    BY <1>7 DEF FetchOneByOne
  <2>3. heard \cup late \in SUBSET Resolved(t) /\ Pool(t) \in {0, Pool(t)}
    OBVIOUS
  <2>4. QED
    BY <2>1, <2>2, <2>3, FetchesKeeps
<1>8. ASSUME NEW t \in Ticks, Defer(t) PROVE IngestInv'
  <2>1. [tick[t] EXCEPT !.elapsed = tick[t].elapsed] = tick[t] /\ tick[t].elapsed \in Nat
    BY <1>2 DEF TickStates
  <2>2. /\ tick[t].at = "persists" /\ tick[t].left # {} /\ Failed(t, tick[t])
        /\ UNCHANGED <<instruments, barred, clean>>
    BY <1>8 DEF Defer, Working, TickAt
  <2>3. InBudget(tick[t])
    BY <1>2 DEF TickFits
  <2>4. QED
    BY <2>1, <2>2, <2>3, FailedKeeps
<1>9. ASSUME NEW t \in Ticks, Find(t) PROVE IngestInv'
  <2>1. PICK where \in {"upserts", "inserts"} :
          Update(t, [tick[t] EXCEPT !.at = where])
    BY <1>9 DEF Find
  <2> DEFINE new == [tick[t] EXCEPT !.at = where]
  <2>2. /\ tick[t].at = "persists" /\ tick[t].left # {} /\ ~Expired(t)
        /\ UNCHANGED <<instruments, barred, clean>>
    BY <1>9 DEF Find, Working, TickAt
  <2>3. /\ Update(t, new) /\ new \in TickStates /\ new.at = where
        /\ new.shard = tick[t].shard /\ new.wanted = tick[t].wanted
        /\ new.errors = tick[t].errors /\ new.ingested = tick[t].ingested
        /\ new.left = tick[t].left /\ new.elapsed = tick[t].elapsed
        /\ new.connected = tick[t].connected
    BY <1>2, <2>1 DEF TickStates
  <2>4. tick[t].shard > 0 => tick[t].elapsed < TickBudget
    BY <1>2, <2>2, IngestNumbers DEF Expired, Budgeted, TickStates
  <2> HIDE DEF new
  <2>5. TickFits(new)
    BY <1>2, <2>2, <2>3, <2>4 DEF TickFits, InBudget, Balanced
  <2>6. QED
    BY <2>2, <2>3, <2>5, TickKeeps DEF IngestInv
<1>10. ASSUME NEW t \in Ticks, Insert(t) \/ LoseRace(t) PROVE IngestInv'
  <2>1. PICK inserted \in (SUBSET tick[t].left) \cup {tick[t].inserted} :
          Update(t, [tick[t] EXCEPT !.at = "upserts", !.inserted = inserted])
    <3>1. Balanced(tick[t]) /\ tick[t].left # {}
      BY <1>2, <1>10 DEF Insert, LoseRace, TickAt, TickFits
    <3>2. Current(t) \in tick[t].left
      BY <1>2, <3>1, CurrentIsLeft
    <3>3. CASE Insert(t)
      BY <3>2, <3>3 DEF Insert
    <3>4. CASE LoseRace(t)
      <4>1. [tick[t] EXCEPT !.at = "upserts"]
              = [tick[t] EXCEPT !.at = "upserts", !.inserted = tick[t].inserted]
        BY <1>2 DEF TickStates
      <4>2. Update(t, [tick[t] EXCEPT !.at = "upserts"])
        BY <3>4 DEF LoseRace
      <4>3. Update(t, [tick[t] EXCEPT !.at = "upserts", !.inserted = tick[t].inserted])
        BY <4>1, <4>2
      <4>4. QED
        BY <4>3
    <3>5. QED
      BY <1>10, <3>3, <3>4
  <2> DEFINE new == [tick[t] EXCEPT !.at = "upserts", !.inserted = inserted]
  <2>2. tick[t].at = "inserts" /\ UNCHANGED <<instruments, barred, clean>>
    BY <1>10 DEF Insert, LoseRace, TickAt
  <2>3. inserted \in SUBSET EverySymbol
    <3>1. tick[t].left \in SUBSET EverySymbol /\ tick[t].inserted \in SUBSET EverySymbol
      BY <1>2 DEF TickStates
    <3>2. QED
      BY <2>1, <3>1
  <2>4. /\ Update(t, new) /\ new \in TickStates /\ new.at = "upserts"
        /\ new.shard = tick[t].shard /\ new.wanted = tick[t].wanted
        /\ new.errors = tick[t].errors /\ new.ingested = tick[t].ingested
        /\ new.left = tick[t].left /\ new.elapsed = tick[t].elapsed
        /\ new.connected = tick[t].connected
    BY <1>2, <2>1, <2>3 DEF TickStates
  <2> HIDE DEF new
  <2>5. TickFits(new)
    BY <1>2, <2>2, <2>4 DEF TickFits, InBudget, Balanced
  <2>6. QED
    BY <2>2, <2>4, <2>5, TickKeeps DEF IngestInv
<1>11. ASSUME NEW t \in Ticks, Commit(t) PROVE IngestInv'
  <2>1. PICK s \in {0, Slow} :
          Update(t, [tick[t] EXCEPT
            !.at = "persists", !.elapsed = @ + s, !.inserted = {},
            !.ingested = @ \cup {Current(t)}, !.left = @ \ {Current(t)}])
    BY <1>11 DEF Commit
  <2> DEFINE new == [tick[t] EXCEPT
                       !.at = "persists", !.elapsed = @ + s, !.inserted = {},
                       !.ingested = @ \cup {Current(t)}, !.left = @ \ {Current(t)}]
  <2>2. /\ tick[t].at = "upserts" /\ barred' = barred \cup {Current(t)} /\ clean' = clean
    BY <1>11 DEF Commit, TickAt
  <2>3. Current(t) \in tick[t].left /\ Current(t) \in EverySymbol
    BY <1>2, <2>2, CurrentIsLeft DEF TickFits, TickStates
  <2>4. s \in Nat /\ s <= Slow /\ tick[t].elapsed + s \in Nat
    BY <1>2, IngestNumbers DEF TickStates
  <2>5. /\ Update(t, new) /\ new \in TickStates /\ new.at = "persists"
        /\ new.shard = tick[t].shard /\ new.wanted = tick[t].wanted
        /\ new.errors = tick[t].errors /\ new.ingested = tick[t].ingested \cup {Current(t)}
        /\ new.left = tick[t].left \ {Current(t)} /\ new.elapsed = tick[t].elapsed + s
        /\ new.connected = tick[t].connected
    BY <1>2, <2>1, <2>3, <2>4 DEF TickStates
  <2> HIDE DEF new
  <2>6. Balanced(new)
    BY <1>2, <2>2, <2>3, <2>5 DEF TickFits, Balanced
  <2>7. InBudget(new)
    <3>1. tick[t].shard > 0 => tick[t].elapsed < TickBudget
      BY <1>2, <2>2 DEF TickFits
    <3>2. tick[t].elapsed \in Nat /\ tick[t].connected \in Nat
      BY <1>2 DEF TickStates
    <3>3. QED
      BY <2>4, <2>5, <3>1, <3>2, IngestNumbers DEF InBudget, Greater
  <2>8. TickFits(new)
    BY <1>2, <2>2, <2>5, <2>6, <2>7 DEF TickFits
  <2>9. new.ingested \subseteq barred' /\ barred \subseteq barred'
    BY <2>2, <2>5 DEF IngestInv
  <2>10. QED
    BY <2>2, <2>5, <2>8, <2>9, TickKeeps
<1>12. ASSUME NEW t \in Ticks, RowFails(t) PROVE IngestInv'
  <2>1. PICK s \in {0, Slow} : Failed(t, [tick[t] EXCEPT !.elapsed = @ + s])
    BY <1>12 DEF RowFails
  <2> DEFINE spent == tick[t].elapsed + s
  <2>2. tick[t].at \in {"inserts", "upserts"} /\ UNCHANGED <<instruments, barred, clean>>
    BY <1>12 DEF RowFails, TickAt
  <2>3. /\ s \in Nat /\ s <= Slow /\ spent \in Nat /\ tick[t].elapsed \in Nat
        /\ tick[t].connected \in Nat
    BY <1>2, IngestNumbers DEF TickStates
  <2>4. tick[t].left # {} /\ (tick[t].shard > 0 => tick[t].elapsed < TickBudget)
    BY <1>2, <2>2 DEF TickFits
  <2>5. tick[t].shard > 0 => spent <= Greater(TickBudget + Slow - 1, tick[t].connected + PoolFloor)
    BY <2>3, <2>4, IngestNumbers DEF Greater
  <2>6. Failed(t, [tick[t] EXCEPT !.elapsed = spent])
    BY <1>2, <2>1 DEF TickStates
  <2> HIDE DEF spent
  <2>7. InBudget([tick[t] EXCEPT !.elapsed = spent])
    BY <1>2, <2>3, <2>5 DEF InBudget, TickStates
  <2>8. QED
    BY <2>2, <2>3, <2>4, <2>6, <2>7, FailedKeeps
<1>13. ASSUME NEW t \in Ticks, LastCommitted(t) PROVE IngestInv'
  <2> DEFINE new == [tick[t] EXCEPT !.at = "ends"]
  <2>1. /\ tick[t].at = "persists" /\ tick[t].left = {} /\ Update(t, new)
        /\ UNCHANGED <<instruments, barred, clean>>
    BY <1>13 DEF LastCommitted, TickAt
  <2>2. /\ new \in TickStates /\ new.at = "ends"
        /\ new.shard = tick[t].shard /\ new.wanted = tick[t].wanted
        /\ new.errors = tick[t].errors /\ new.ingested = tick[t].ingested
        /\ new.left = tick[t].left /\ new.elapsed = tick[t].elapsed
        /\ new.connected = tick[t].connected
    BY <1>2 DEF TickStates
  <2> HIDE DEF new
  <2>3. TickFits(new)
    BY <1>2, <2>1, <2>2 DEF TickFits, InBudget, Balanced
  <2>4. QED
    BY <2>1, <2>2, <2>3, TickKeeps DEF IngestInv
<1>14. ASSUME NEW t \in Ticks, Report(t) PROVE IngestInv'
  <2>1. /\ tick[t].at = "ends" /\ Update(t, NoTick) /\ UNCHANGED <<instruments, barred>>
        /\ clean' = IF tick[t].errors = {} THEN clean \cup {tick[t].shard} ELSE clean
    BY <1>14 DEF Report, TickAt
  <2>2. /\ Balanced(tick[t]) /\ tick[t].left = {} /\ tick[t].wanted = Slice(tick[t].shard)
        /\ tick[t].ingested \subseteq barred /\ tick[t].shard \in 0..Shards
    BY <1>2, <2>1 DEF TickFits, TickStates, IngestInv
  <2>3. \A shard \in clean' : ToSet(Slice(shard)) \subseteq barred'
    <3>1. tick[t].errors = {} => ToSet(Slice(tick[t].shard)) \subseteq barred
      BY <2>2 DEF Balanced
    <3>2. QED
      BY <2>1, <3>1 DEF IngestInv
  <2>4. clean' \subseteq 0..Shards
    BY <2>1, <2>2 DEF IngestInv, IngestTypeOK
  <2>5. IngestTypeOK'
    BY <2>1, <2>4, NoTickFits DEF IngestInv, IngestTypeOK, Update
  <2>6. ASSUME NEW u \in Ticks
        PROVE  TickFits(tick'[u]) /\ tick'[u].ingested \subseteq barred'
    <3>1. tick'[u] = IF u = t THEN NoTick ELSE tick[u]
      BY <2>1 DEF IngestInv, IngestTypeOK, Update
    <3>2. QED
      BY <2>1, <3>1, NoTickFits DEF IngestInv
  <2>7. QED
    BY <2>3, <2>5, <2>6 DEF IngestInv, TickFits, Balanced, InBudget
<1>15. ASSUME NEW t \in Ticks, Kill(t) PROVE IngestInv'
  BY <1>15, NoTickFits, TickKeeps DEF Kill
<1>16. QED
  BY <1>1, <1>3, <1>4, <1>5, <1>6, <1>7, <1>8, <1>9, <1>10, <1>11, <1>12, <1>13, <1>14,
     <1>15 DEF IngestNext

\* Whatever other ticks, failures and kills do, a tick that ends accounts for
\* each of its symbols, is over its budget by one symbol or the pool's floor at
\* most, and once every shard has ended well the universe is warm, for any
\* universe and any number of shards (ingest.py:188, 803, 943).
THEOREM TicksKeepTheirWord == IngestSpec => []TickKeepsItsWord
<1>1. IngestInv => TickAccounts
  BY DEF IngestInv, TickAccounts, TickAt, TickFits, Balanced, WantedBy
<1>2. IngestInv => TickInTime
  BY DEF IngestInv, TickInTime, TickFits, InBudget, Budgeted
<1>3. IngestInv => UniverseWarm
  BY ShardsCover DEF IngestInv, UniverseWarm
<1>4. IngestInv /\ [IngestNext]_ingestVars => IngestInv'
  BY IngestStepKeeps
<1>5. IngestInv => TickKeepsItsWord
  BY <1>1, <1>2, <1>3 DEF TickKeepsItsWord
<1>6. QED
  BY <1>4, <1>5, IngestInitEstablishes, PTL DEF IngestSpec

-----------------------------------------------------------------------------
(* Snapshots: the invariant.                                               *)

BatchStates ==
  [at : {"idle", "collects", "ended"}, late : BOOLEAN, asked : Seq(Symbols),
   left : SUBSET Symbols, snapshots : SUBSET Symbols, errors : SUBSET Symbols]

JobStates ==
  {"queued", "works", "failed", "persisted", "thinned", "remembered", "cancelled"}

SnapshotTypeOK ==
  /\ batch \in [Batches -> BatchStates]
  /\ job \in [Batches -> [Symbols -> JobStates]]

Told(x) == x.snapshots \cup x.errors

\* What a batch was asked for is what it has told of and what is left of it.
BatchFits(x) ==
  /\ Told(x) \cup x.left = ToSet(x.asked)
  /\ Told(x) \cap x.left = {}
  /\ x.at = "idle" => Told(x) = {}
  /\ x.at = "ended" => x.left = {}

\* What was told of a call stays true of it: it is not in the queue, it has
\* failed, or what it took is kept.
CallFits(b, s) ==
  /\ job[b][s] = "persisted" => <<b, s>> \in table
  /\ s \in Told(batch[b]) => job[b][s] # "queued"
  /\ s \in batch[b].snapshots \cap batch[b].errors => job[b][s] = "failed"
  /\ s \in batch[b].snapshots \ batch[b].errors =>
       <<b, s>> \in table \/ job[b][s] = "remembered"

SnapshotInv ==
  /\ SnapshotTypeOK
  /\ \A b \in Batches : BatchFits(batch[b])
  /\ \A b \in Batches, s \in Symbols : CallFits(b, s)

-----------------------------------------------------------------------------
(* Snapshots: the steps.                                                   *)

LEMMA SnapshotInitEstablishes == SnapshotInit => SnapshotInv
<1>1. SUFFICES ASSUME SnapshotInit PROVE SnapshotInv
  OBVIOUS
<1>2. Unheard \in BatchStates
  <2>1. <<>> \in Seq(Symbols)
    BY EmptySeq
  <2>2. QED
    BY <2>1 DEF Unheard, BatchStates
<1>3. SnapshotTypeOK
  BY <1>1, <1>2 DEF SnapshotInit, SnapshotTypeOK, JobStates
<1>4. BatchFits(Unheard)
  BY DEF Unheard, BatchFits, Told, ToSet
<1>5. QED
  BY <1>1, <1>3, <1>4 DEF SnapshotInit, SnapshotInv, CallFits, Told, Unheard

\* A call that moves on, and not back into the queue, keeps the invariant: nothing
\* was told of it that could turn false.
LEMMA CallKeeps ==
  ASSUME SnapshotInv, NEW b \in Batches, NEW s \in Symbols,
         NEW state \in JobStates \ {"queued"}, Becomes(b, s, state), batch' = batch,
         job[b][s] \in {"queued", "works", "thinned"}, table \subseteq table',
         state = "persisted" => <<b, s>> \in table'
  PROVE  SnapshotInv'
<1> DEFINE calls == [job[b] EXCEPT ![s] = state]
<1>1. /\ job' = [job EXCEPT ![b] = calls]
      /\ calls \in [Symbols -> JobStates]
      /\ \A r \in Symbols : calls[r] = IF r = s THEN state ELSE job[b][r]
  BY DEF Becomes, SnapshotInv, SnapshotTypeOK
<1> HIDE DEF calls
<1>2. SnapshotTypeOK'
  BY <1>1 DEF SnapshotInv, SnapshotTypeOK
<1>3. ASSUME NEW c \in Batches, NEW r \in Symbols PROVE CallFits(c, r)'
  <2>1. CASE c = b /\ r = s
    <3>1. job'[c][r] = state
      BY <1>1, <2>1 DEF SnapshotInv, SnapshotTypeOK
    <3>2. CallFits(c, r) /\ job[c][r] \in {"queued", "works", "thinned"}
      BY <2>1 DEF SnapshotInv
    <3>3. QED
      BY <2>1, <3>1, <3>2 DEF CallFits, Told
  <2>2. CASE ~(c = b /\ r = s)
    <3>1. job'[c][r] = job[c][r]
      BY <1>1, <2>2 DEF SnapshotInv, SnapshotTypeOK
    <3>2. CallFits(c, r)
      BY DEF SnapshotInv
    <3>3. QED
      BY <3>1, <3>2 DEF CallFits, Told
  <2>3. QED
    BY <2>1, <2>2
<1>4. QED
  BY <1>2, <1>3 DEF SnapshotInv

\* The symbol whose result is due is one of those left.
LEMMA AwaitedIsLeft ==
  ASSUME NEW b \in Batches, batch[b] \in BatchStates, batch[b].left # {},
         BatchFits(batch[b])
  PROVE  Awaited(b) \in batch[b].left
<1> DEFINE asked == batch[b].asked
           places == {i \in DOMAIN asked : asked[i] \in batch[b].left}
<1>1. DOMAIN asked = 1..Len(asked) /\ Len(asked) \in Nat
  BY DEF BatchStates
<1>2. places \in SUBSET Nat /\ places # {}
  BY <1>1 DEF BatchFits, ToSet
<1>3. PICK first \in places : \A i \in places : first <= i
  BY <1>2, LeastExists
<1>4. \A k \in 1..first - 1 : asked[k] \notin batch[b].left
  <2>1. SUFFICES ASSUME NEW k \in 1..first - 1, asked[k] \in batch[b].left PROVE FALSE
    OBVIOUS
  <2>2. first \in 1..Len(asked)
    BY <1>1
  <2>3. k \in DOMAIN asked /\ k < first
    BY <1>1, <2>2
  <2>4. k \in places
    BY <2>1, <2>3
  <2> HIDE DEF places, asked
  <2>5. QED
    BY <1>2, <1>3, <2>3, <2>4
<1>5. first \in DOMAIN asked /\ asked[first] \in batch[b].left
  OBVIOUS
<1>6. QED
  BY <1>4, <1>5 DEF Awaited

\* A batch that moves on keeps the invariant if what it tells of its calls is so.
LEMMA BatchKeeps ==
  ASSUME SnapshotInv, NEW b \in Batches, NEW new \in BatchStates,
         batch' = [batch EXCEPT ![b] = new], BatchFits(new),
         job' \in [Batches -> [Symbols -> JobStates]], table' = table,
         \A c \in Batches \ {b} : job'[c] = job[c],
         \A s \in Symbols : CallFits(b, s)'
  PROVE  SnapshotInv'
<1>1. SnapshotTypeOK'
  BY DEF SnapshotInv, SnapshotTypeOK
<1>2. ASSUME NEW c \in Batches PROVE batch'[c] = IF c = b THEN new ELSE batch[c]
  BY DEF SnapshotInv, SnapshotTypeOK
<1>3. ASSUME NEW c \in Batches PROVE BatchFits(batch[c])'
  BY <1>2 DEF SnapshotInv, BatchFits, Told
<1>4. ASSUME NEW c \in Batches, NEW s \in Symbols PROVE CallFits(c, s)'
  <2>1. CASE c = b
    BY <2>1
  <2>2. CASE c # b
    <3>1. batch'[c] = batch[c] /\ job'[c] = job[c] /\ CallFits(c, s)
      BY <1>2, <2>2 DEF SnapshotInv
    <3>2. QED
      BY <3>1 DEF CallFits, Told
  <2>3. QED
    BY <2>1, <2>2
<1>5. QED
  BY <1>1, <1>3, <1>4 DEF SnapshotInv

\* Either list a batch is given is one of listed symbols.
LEMMA AskedIsListed ==
  ASSUME NEW asked \in {Listed, SubSeq(Listed, 1, FewEnough)}
  PROVE  asked \in Seq(Symbols) /\ ToSet(asked) \in SUBSET Symbols
<1>1. Listed \in Seq(Symbols) /\ FewEnough \in Nat \ {0} /\ FewEnough <= Len(Listed)
  BY SnapshotAssumption DEF Symbols
<1>2. SubSeq(Listed, 1, FewEnough) \in Seq(Symbols)
  <2>1. 1 \in 1..Len(Listed) + 1 /\ FewEnough \in 0..Len(Listed)
    BY <1>1
  <2>2. QED
    BY <1>1, <2>1, SubSeqProperties
<1>3. asked \in Seq(Symbols)
  BY <1>1, <1>2
<1>4. \A i \in DOMAIN asked : asked[i] \in Symbols
  BY <1>3
<1>5. QED
  BY <1>3, <1>4 DEF ToSet

\* A batch that tells of the symbol whose turn it is, and of nothing else.
LEMMA RecordKeeps ==
  ASSUME SnapshotInv, NEW b \in Batches, Collecting(b),
         NEW heard \in BOOLEAN, NEW erred \in BOOLEAN, heard \/ erred,
         Record(b, heard, erred), table' = table,
         job' \in [Batches -> [Symbols -> JobStates]],
         \A c \in Batches, s \in Symbols :
           job'[c][s] = job[c][s] \/ (c = b /\ s = Awaited(b) /\ job'[c][s] = "cancelled"),
         LET s == Awaited(b)
         IN  /\ job'[b][s] # "queued"
             /\ heard /\ erred => job'[b][s] = "failed"
             /\ heard /\ ~erred => job'[b][s] \in {"persisted", "remembered"}
  PROVE  SnapshotInv'
<1> DEFINE s == Awaited(b)
           new == [batch[b] EXCEPT !.left = @ \ {s},
                     !.snapshots = IF heard THEN @ \cup {s} ELSE @,
                     !.errors = IF erred THEN @ \cup {s} ELSE @]
<1>1. /\ batch[b] \in BatchStates /\ BatchFits(batch[b]) /\ batch[b].at = "collects"
      /\ batch[b].left # {}
  BY DEF SnapshotInv, SnapshotTypeOK, Collecting
<1>2. s \in batch[b].left /\ s \in Symbols
  BY <1>1, AwaitedIsLeft DEF BatchStates
<1>3. batch' = [batch EXCEPT ![b] = new]
  BY <1>1 DEF Record, SnapshotInv, SnapshotTypeOK, BatchStates
<1> HIDE DEF s
<1>4. /\ new \in BatchStates /\ new.at = "collects" /\ new.asked = batch[b].asked
      /\ new.left = batch[b].left \ {s}
      /\ new.snapshots = IF heard THEN batch[b].snapshots \cup {s} ELSE batch[b].snapshots
      /\ new.errors = IF erred THEN batch[b].errors \cup {s} ELSE batch[b].errors
  BY <1>1, <1>2 DEF BatchStates
<1> HIDE DEF new
<1>5. BatchFits(new)
  BY <1>1, <1>2, <1>4 DEF BatchFits, Told
<1>6. batch'[b] = new
  BY <1>3 DEF SnapshotInv, SnapshotTypeOK
<1>7. ASSUME NEW r \in Symbols PROVE CallFits(b, r)'
  <2>1. CallFits(b, r)
    BY DEF SnapshotInv
  <2>2. CASE r = s
    <3>1. s \notin Told(batch[b])
      BY <1>1, <1>2 DEF BatchFits
    <3>2. job'[b][s] = job[b][s] \/ job'[b][s] = "cancelled"
      BY <1>2 DEF s
    <3>3. /\ job'[b][s] # "queued"
          /\ heard /\ erred => job'[b][s] = "failed"
          /\ heard /\ ~erred => job'[b][s] \in {"persisted", "remembered"}
      BY DEF s
    <3>4. job'[b][s] = "persisted" => <<b, s>> \in table
      BY <2>1, <2>2, <3>2 DEF CallFits
    <3>5. /\ s \in new.snapshots <=> heard
          /\ s \in new.errors <=> erred
      BY <1>4, <3>1 DEF Told
    <3>6. QED
      BY <1>6, <2>2, <3>3, <3>4, <3>5 DEF CallFits, Told
  <2>3. CASE r # s
    <3>1. job'[b][r] = job[b][r]
      BY <2>3 DEF s
    <3>2. /\ r \in new.snapshots <=> r \in batch[b].snapshots
          /\ r \in new.errors <=> r \in batch[b].errors
      BY <1>4, <2>3
    <3>3. QED
      BY <1>6, <2>1, <3>1, <3>2 DEF CallFits, Told
  <2>4. QED
    BY <2>2, <2>3
<1>8. ASSUME NEW c \in Batches \ {b} PROVE job'[c] = job[c]
  <2>1. \A r \in Symbols : job'[c][r] = job[c][r]
    OBVIOUS
  <2>2. job'[c] \in [Symbols -> JobStates] /\ job[c] \in [Symbols -> JobStates]
    BY DEF SnapshotInv, SnapshotTypeOK
  <2>3. QED
    BY <2>1, <2>2
<1>9. QED
  BY <1>3, <1>4, <1>5, <1>7, <1>8, BatchKeeps

\* A batch that starts, runs late or answers tells of nothing.
LEMMA TurnsKeep ==
  ASSUME SnapshotInv, NEW b \in Batches, NEW new \in BatchStates,
         batch' = [batch EXCEPT ![b] = new], BatchFits(new),
         new.snapshots = batch[b].snapshots, new.errors = batch[b].errors,
         UNCHANGED <<job, table>>
  PROVE  SnapshotInv'
<1>1. batch'[b] = new /\ job' \in [Batches -> [Symbols -> JobStates]]
  BY DEF SnapshotInv, SnapshotTypeOK
<1>2. \A s \in Symbols : CallFits(b, s)'
  BY <1>1 DEF SnapshotInv, CallFits, Told
<1>3. QED
  BY <1>1, <1>2, BatchKeeps

LEMMA SnapshotStepKeeps ==
  ASSUME SnapshotInv, [SnapshotNext]_snapshotVars
  PROVE  SnapshotInv'
<1>1. CASE UNCHANGED snapshotVars
  <2>1. batch' = batch /\ job' = job /\ table' = table
    BY <1>1 DEF snapshotVars
  <2>2. QED
    BY <2>1 DEF SnapshotInv, SnapshotTypeOK, BatchFits, CallFits, Told
<1>2. ASSUME NEW b \in Batches PROVE batch[b] \in BatchStates /\ BatchFits(batch[b])
  BY DEF SnapshotInv, SnapshotTypeOK
<1>3. ASSUME NEW b \in Batches, StartBatch(b) PROVE SnapshotInv'
  <2>1. PICK asked \in {Listed, SubSeq(Listed, 1, FewEnough)} :
          batch' = [batch EXCEPT ![b].at = "collects", ![b].asked = asked,
                                 ![b].left = ToSet(asked)]
    BY <1>3 DEF StartBatch
  <2> DEFINE new == [batch[b] EXCEPT !.at = "collects", !.asked = asked,
                                     !.left = ToSet(asked)]
  <2>2. batch[b].at = "idle" /\ UNCHANGED <<job, table>>
    BY <1>3 DEF StartBatch
  <2>3. batch' = [batch EXCEPT ![b] = new]
    BY <2>1 DEF SnapshotInv, SnapshotTypeOK
  <2>4. /\ new \in BatchStates /\ new.at = "collects" /\ new.asked = asked
        /\ new.left = ToSet(asked) /\ new.snapshots = batch[b].snapshots
        /\ new.errors = batch[b].errors
    BY <1>2, AskedIsListed DEF BatchStates
  <2> HIDE DEF new
  <2>5. QED
    BY <1>2, <2>2, <2>3, <2>4, TurnsKeep DEF BatchFits, Told
<1>4. ASSUME NEW b \in Batches, Hear(b) PROVE SnapshotInv'
  <2>1. /\ Collecting(b) /\ Ended(b, Awaited(b)) /\ UNCHANGED <<job, table>>
        /\ Record(b, TRUE, job[b][Awaited(b)] = "failed")
    BY <1>4 DEF Hear
  <2>2. job' \in [Batches -> [Symbols -> JobStates]]
    BY <2>1 DEF SnapshotInv, SnapshotTypeOK
  <2>3. job[b][Awaited(b)] \in {"failed", "persisted", "remembered"}
    BY <2>1 DEF Ended
  <2>4. CASE job[b][Awaited(b)] = "failed"
    <3>1. Record(b, TRUE, TRUE)
      BY <2>1, <2>4
    <3>2. QED
      BY <2>1, <2>2, <2>4, <3>1, RecordKeeps
  <2>5. CASE job[b][Awaited(b)] # "failed"
    <3>1. Record(b, TRUE, FALSE)
      BY <2>1, <2>5
    <3>2. QED
      BY <2>1, <2>2, <2>3, <2>5, <3>1, RecordKeeps
  <2>6. QED
    BY <2>4, <2>5
<1>5. ASSUME NEW b \in Batches, TimeIsUp(b) PROVE SnapshotInv'
  <2> DEFINE new == [batch[b] EXCEPT !.late = TRUE]
  <2>1. batch' = [batch EXCEPT ![b] = new] /\ UNCHANGED <<job, table>>
    BY <1>5 DEF TimeIsUp, SnapshotInv, SnapshotTypeOK
  <2>2. /\ new \in BatchStates /\ new.at = batch[b].at /\ new.asked = batch[b].asked
        /\ new.left = batch[b].left /\ new.snapshots = batch[b].snapshots
        /\ new.errors = batch[b].errors
    BY <1>2 DEF BatchStates
  <2> HIDE DEF new
  <2>3. QED
    BY <1>2, <2>1, <2>2, TurnsKeep DEF BatchFits, Told
<1>6. ASSUME NEW b \in Batches, GiveUp(b) PROVE SnapshotInv'
  <2> DEFINE s == Awaited(b)
             state == IF job[b][s] = "queued" THEN "cancelled" ELSE job[b][s]
             calls == [job[b] EXCEPT ![s] = state]
  <2>1. /\ Collecting(b) /\ Record(b, FALSE, TRUE) /\ table' = table
        /\ job' = [job EXCEPT ![b] = calls]
    BY <1>6 DEF GiveUp, Becomes, SnapshotInv, SnapshotTypeOK
  <2>2. s \in Symbols
    BY <1>2, <2>1, AwaitedIsLeft DEF Collecting, BatchStates
  <2>3. state \in JobStates /\ state # "queued" /\ (state = job[b][s] \/ state = "cancelled")
    BY <2>2 DEF SnapshotInv, SnapshotTypeOK, JobStates
  <2> HIDE DEF state
  <2>4. calls \in [Symbols -> JobStates] /\ calls[s] = state
        /\ \A r \in Symbols \ {s} : calls[r] = job[b][r]
    BY <2>2, <2>3 DEF SnapshotInv, SnapshotTypeOK
  <2> HIDE DEF calls
  <2>5. /\ job' \in [Batches -> [Symbols -> JobStates]]
        /\ \A c \in Batches : job'[c] = IF c = b THEN calls ELSE job[c]
    BY <2>1, <2>4 DEF SnapshotInv, SnapshotTypeOK
  <2>6. \A c \in Batches, r \in Symbols :
          job'[c][r] = job[c][r] \/ (c = b /\ r = s /\ job'[c][r] = "cancelled")
    BY <2>3, <2>4, <2>5
  <2>7. job'[b][s] # "queued"
    BY <2>3, <2>4, <2>5
  <2>8. QED
    BY <2>1, <2>5, <2>6, <2>7, RecordKeeps
<1>7. ASSUME NEW b \in Batches, Respond(b) PROVE SnapshotInv'
  <2> DEFINE new == [batch[b] EXCEPT !.at = "ended"]
  <2>1. batch' = [batch EXCEPT ![b] = new] /\ batch[b].left = {} /\ UNCHANGED <<job, table>>
    BY <1>7 DEF Respond, SnapshotInv, SnapshotTypeOK
  <2>2. /\ new \in BatchStates /\ new.at = "ended" /\ new.asked = batch[b].asked
        /\ new.left = batch[b].left /\ new.snapshots = batch[b].snapshots
        /\ new.errors = batch[b].errors
    BY <1>2 DEF BatchStates
  <2> HIDE DEF new
  <2>3. QED
    BY <1>2, <2>1, <2>2, TurnsKeep DEF BatchFits, Told
<1>8. ASSUME NEW b \in Batches, NEW s \in Symbols,
             Begin(b, s) \/ NoRows(b, s) \/ MakeRoom(b, s) \/ Remember(b, s)
      PROVE  SnapshotInv'
  <2>1. PICK state \in {"works", "failed", "thinned", "remembered"} : Becomes(b, s, state)
    BY <1>8 DEF Begin, NoRows, MakeRoom, Remember
  <2>2. /\ job[b][s] \in {"queued", "works", "thinned"} /\ batch' = batch
        /\ table' = table
    BY <1>8 DEF Begin, NoRows, MakeRoom, Remember
  <2>3. state \in JobStates \ {"queued"}
    BY DEF JobStates
  <2>4. QED
    BY <2>1, <2>2, <2>3, CallKeeps
<1>9. ASSUME NEW b \in Batches, NEW s \in Symbols, Save(b, s) PROVE SnapshotInv'
  <2>1. "persisted" \in JobStates \ {"queued"}
    BY DEF JobStates
  <2>2. QED
    BY <1>9, <2>1, CallKeeps DEF Save
<1>10. QED
  BY <1>1, <1>3, <1>4, <1>5, <1>6, <1>7, <1>8, <1>9 DEF SnapshotNext

\* A batch of snapshots that has answered, in time or not, names every symbol it
\* was asked for and tells of each what is so, for any list and any pool
\* (cron.py:432, 498, 525).
THEOREM BatchesAccount == SnapshotSpec => []BatchAccounts
<1>1. SnapshotInv => BatchAccounts
  <2>1. SUFFICES ASSUME SnapshotInv, NEW b \in Batches, batch[b].at = "ended"
        PROVE  /\ batch[b].snapshots \cup batch[b].errors = Asked(b)
               /\ \A s \in batch[b].snapshots \ batch[b].errors :
                    <<b, s>> \in table \/ job[b][s] = "remembered"
               /\ \A s \in batch[b].snapshots \cap batch[b].errors : job[b][s] = "failed"
               /\ \A s \in Asked(b) : job[b][s] # "queued"
    BY DEF BatchAccounts
  <2>2. Told(batch[b]) = Asked(b) /\ Told(batch[b]) \subseteq Symbols
    BY <2>1 DEF SnapshotInv, SnapshotTypeOK, BatchFits, BatchStates, Asked, Told
  <2>3. \A s \in Told(batch[b]) : CallFits(b, s)
    BY <2>1, <2>2 DEF SnapshotInv
  <2>4. QED
    BY <2>2, <2>3 DEF CallFits, Told
<1>2. SnapshotInv /\ [SnapshotNext]_snapshotVars => SnapshotInv'
  BY SnapshotStepKeeps
<1>3. QED
  BY <1>1, <1>2, SnapshotInitEstablishes, PTL DEF SnapshotSpec

-----------------------------------------------------------------------------
(* Calendars: which session's bar is expected.                             *)

LEMMA Division ==
  ASSUME NEW a \in Int, NEW b \in Nat \ {0}
  PROVE  /\ a \div b \in Int /\ a % b \in Int
         /\ 0 <= a % b /\ a % b < b
         /\ a = b * (a \div b) + (a % b)
OBVIOUS

LEMMA DivisionIsUnique ==
  ASSUME NEW q \in Int, NEW r \in Int, NEW b \in Nat \ {0}, 0 <= r, r < b
  PROVE  (b * q + r) \div b = q
OBVIOUS

LEMMA DaysAreApart ==
  ASSUME NEW a \in Int, NEW c \in Int, NEW b \in Nat \ {0}, a < c
  PROVE  b * a \in Int /\ b * c \in Int /\ b * a + b <= b * c
OBVIOUS

\* The days in front of the walk are within its range, which holds a session; the
\* holidays known to the rules of thumb are none.
CalendarInv ==
  /\ utc \in Int /\ offset \in Offsets
  /\ WalkDays <= LocalDay(utc) /\ LocalDay(utc) <= CalendarDays
  /\ trading \subseteq {day \in DayRange : Weekday(day)}
  /\ feasts \cap trading = {}
  /\ Opens(trading)

LEMMA CalendarConstants ==
  /\ DayHours \in Nat \ {0} /\ WalkDays \in Nat \ {0} /\ CalendarDays \in Nat
  /\ OpensAt \in Nat /\ ClosesAt \in Nat /\ ClosesEarly \in Nat /\ Grace \in Nat
  /\ \A hours \in Offsets : hours \in Int /\ -DayHours < hours /\ hours < DayHours
  /\ WalkDays + 1 <= CalendarDays /\ ClosesEarly < ClosesAt /\ ClosesAt + Grace < DayHours
  BY CalendarAssumption

\* A set of days up to some day has a last one.
LEMMA LastDay ==
  ASSUME NEW S \in SUBSET Int, NEW bound \in Int, S # {}, \A n \in S : n <= bound
  PROVE  Max(S) \in S /\ \A n \in S : n <= Max(S)
<1> DEFINE T == {bound - n : n \in S}
<1>1. T \in SUBSET Nat /\ T # {}
  <2>1. \A n \in S : bound - n \in Nat
    OBVIOUS
  <2> QED
    BY <2>1
<1>2. PICK least \in T : \A n \in T : least <= n
  BY <1>1, LeastExists
<1>3. PICK last \in S : least = bound - last
  BY <1>2
<1>4. ASSUME NEW n \in S PROVE n <= last
  <2>1. bound - n \in T
    OBVIOUS
  <2>2. bound - last <= bound - n
    BY <1>2, <1>3, <2>1
  <2>3. bound \in Int /\ last \in Int /\ n \in Int
    BY <1>3
  <2> QED
    BY <2>2, <2>3
<1> QED
  BY <1>4 DEF Max

\* The day and the hour of the venue's clock.
LEMMA Clock ==
  ASSUME CalendarInv
  PROVE  /\ LocalDay(utc) \in Nat /\ LocalHour(utc) \in Nat /\ LocalHour(utc) < DayHours
         /\ utc + offset = DayHours * LocalDay(utc) + LocalHour(utc)
         /\ utc \in Int /\ offset \in Int
<1>1. utc + offset \in Int /\ utc \in Int /\ offset \in Int /\ DayHours \in Nat \ {0} /\ WalkDays \in Nat
  BY CalendarConstants DEF CalendarInv
<1>2. LocalDay(utc) \in Int /\ LocalDay(utc) >= WalkDays
  BY <1>1, Division DEF CalendarInv, LocalDay
<1> QED
  BY <1>1, <1>2, Division DEF LocalDay, LocalHour

LEMMA CalendarStarts == ASSUME CalendarInit PROVE CalendarInv
<1>1. /\ utc = (WalkDays + 1) * DayHours /\ offset \in Offsets /\ offset \in Int
      /\ DayHours \in Nat \ {0} /\ WalkDays \in Nat /\ CalendarDays \in Nat
      /\ -DayHours < offset /\ offset < DayHours /\ WalkDays + 1 <= CalendarDays
  BY CalendarConstants DEF CalendarInit
<1>2. (WalkDays + 1) * DayHours = DayHours * (WalkDays + 1)
  BY <1>1
<1>3. CASE offset >= 0
  <2>1. (DayHours * (WalkDays + 1) + offset) \div DayHours = WalkDays + 1
    BY <1>1, <1>3, DivisionIsUnique
  <2>2. LocalDay(utc) = WalkDays + 1
    BY <1>1, <1>2, <2>1 DEF LocalDay
  <2> QED
    BY <1>1, <2>2 DEF CalendarInit, CalendarInv
<1>4. CASE offset < 0
  <2>1. (DayHours * WalkDays + (DayHours + offset)) \div DayHours = WalkDays
    BY <1>1, <1>4, DivisionIsUnique
  <2>2. DayHours * (WalkDays + 1) + offset = DayHours * WalkDays + (DayHours + offset)
    BY <1>1
  <2>3. LocalDay(utc) = WalkDays
    BY <1>1, <1>2, <2>1, <2>2 DEF LocalDay
  <2> QED
    BY <1>1, <2>3 DEF CalendarInit, CalendarInv
<1> QED
  BY <1>1, <1>3, <1>4

LEMMA CalendarKeeps == ASSUME CalendarInv, [CalendarNext]_calendarVars PROVE CalendarInv'
<1>1. CASE CalendarTick
  <2>1. /\ utc' = utc + 1 /\ LocalDay(utc) < CalendarDays
        /\ UNCHANGED <<offset, trading, feasts>>
    BY <1>1 DEF CalendarTick, site
  <2>2. PICK d \in Int : d = LocalDay(utc)
    BY Clock
  <2>3. PICK h \in Nat : h = LocalHour(utc)
    BY Clock
  <2>4. utc + offset = DayHours * d + h /\ h < DayHours /\ utc \in Int /\ offset \in Int
    BY <2>2, <2>3, Clock
  <2>5. PICK o \in Int : o = offset
    BY <2>4
  <2>6. DayHours \in Nat \ {0} /\ CalendarDays \in Nat /\ DayHours * d \in Int /\ DayHours * (d + 1) \in Int
    BY CalendarConstants
  <2>7. CASE h + 1 < DayHours
    <3>1. (DayHours * d + (h + 1)) \div DayHours = d
      BY <2>6, <2>7, DivisionIsUnique
    <3>2. utc' + offset' = DayHours * d + (h + 1)
      BY <2>1, <2>4, <2>6
    <3>3. LocalDay(utc)' = d
      BY <3>1, <3>2 DEF LocalDay
    <3> QED
      BY <2>1, <2>2, <2>4, <3>3 DEF CalendarInv, Opens
  <2>8. CASE h + 1 = DayHours
    <3>1. (DayHours * (d + 1) + 0) \div DayHours = d + 1
      BY <2>6, DivisionIsUnique
    <3>2. DayHours * (d + 1) = DayHours * d + DayHours
      BY <2>6
    <3>3. utc' + offset' = DayHours * (d + 1) + 0
      BY <2>1, <2>4, <2>6, <2>8, <3>2
    <3>4. LocalDay(utc)' = d + 1
      BY <3>1, <3>3 DEF LocalDay
    <3>5. WalkDays \in Nat /\ WalkDays <= d
      BY <2>2, CalendarConstants DEF CalendarInv
    <3>6. WalkDays <= d + 1 /\ d + 1 <= CalendarDays
      BY <2>1, <2>2, <2>6, <3>5
    <3> QED
      BY <2>1, <2>4, <3>4, <3>6 DEF CalendarInv, Opens
  <2> QED
    BY <2>4, <2>6, <2>7, <2>8
<1>2. CASE LibraryLoads \/ UNCHANGED calendarVars
  BY <1>2 DEF LibraryLoads, calendarVars, site, CalendarInv, LocalDay, Opens
<1> QED
  BY <1>1, <1>2 DEF CalendarNext

\* What the walk back finds.
LEMMA WalkFinds ==
  ASSUME CalendarInv, NEW last \in Int, LocalDay(utc) - 1 <= last, last <= LocalDay(utc)
  PROVE  \E day \in last - WalkDays + 1..last : IsTradingDay(day) /\ day \in DayRange
<1>1. /\ WalkDays \in Nat \ {0} /\ CalendarDays \in Nat /\ LocalDay(utc) \in Nat
      /\ WalkDays <= LocalDay(utc) /\ LocalDay(utc) <= CalendarDays
  BY CalendarConstants, Clock DEF CalendarInv
<1>2. PICK first \in Int : first = last - WalkDays + 1
  BY <1>1
<1>3. first \in 0..CalendarDays - WalkDays + 1 /\ first + WalkDays - 1 = last
  BY <1>1, <1>2
<1>4. (first..first + WalkDays - 1) \cap trading # {}
  BY <1>3 DEF CalendarInv, Opens
<1>5. PICK day \in first..last : day \in trading
  BY <1>3, <1>4
<1>6. IsTradingDay(day) /\ day \in DayRange
  BY <1>5 DEF CalendarInv, IsTradingDay, LibrarySession, StubHoliday
<1> QED
  BY <1>2, <1>5, <1>6

LEMMA ExpectedIsOut == ASSUME CalendarInv PROVE ExpectedBarIsOut
<1>1. /\ DayHours \in Nat \ {0} /\ WalkDays \in Nat \ {0} /\ CalendarDays \in Nat
      /\ ClosesAt \in Nat /\ Grace \in Nat /\ ClosesEarly \in Nat /\ ClosesEarly < ClosesAt
      /\ ClosesAt + Grace < DayHours /\ OpensAt \in Nat
  BY CalendarConstants
<1>2. PICK today \in Nat : today = LocalDay(utc)
  BY Clock
<1>3. PICK hour \in Nat : hour = LocalHour(utc)
  BY Clock
<1>4. /\ utc + offset = DayHours * today + hour /\ hour < DayHours
      /\ utc \in Int /\ offset \in Int
      /\ WalkDays <= today /\ today <= CalendarDays
  BY <1>2, <1>3, Clock DEF CalendarInv
<1>5. ASSUME NEW day \in DayRange PROVE SessionDate(Stamp(day)) = day
  <2>1. day \in Int /\ DayHours * day \in Int /\ day * DayHours = DayHours * day
    BY <1>1 DEF DayRange
  <2>2. (DayHours * day + 0) \div DayHours = day
    BY <1>1, <2>1, DivisionIsUnique
  <2>3. Stamp(day) + offset = DayHours * day + 0
    BY <1>4, <2>1 DEF Stamp
  <2> QED
    BY <2>2, <2>3 DEF SessionDate, LocalDay
<1> DEFINE last == IF CompletedToday(utc) THEN today ELSE today - 1
           Known == {day \in DayRange : IsTradingDay(day) /\ OutAt(day) <= utc}
<1>6. last \in Int /\ today - 1 <= last /\ last <= today
  OBVIOUS
<1>7. Candidates(utc) = {day \in last - WalkDays + 1..last : IsTradingDay(day)}
  BY <1>2 DEF Candidates
<1>8. CompletedToday(utc) <=> IsTradingDay(today) /\ hour >= ClosesAt + Grace
  BY <1>2, <1>3 DEF CompletedToday
<1>9. ASSUME NEW day \in DayRange, IsTradingDay(day) PROVE OutAt(day) <= utc <=> day <= last
  <2>1. day \in Int /\ day * DayHours = DayHours * day /\ DayHours * day \in Int /\ DayHours * today \in Int
    BY <1>1 DEF DayRange
  <2>2. OutAt(day) <= utc <=> DayHours * day + ClosesAt + Grace <= DayHours * today + hour
    BY <1>1, <1>4, <2>1 DEF OutAt, Stamp
  <2>3. CASE day < today
    <3>1. DayHours * day + DayHours <= DayHours * today
      BY <1>1, <2>1, <2>3, DaysAreApart
    <3>2. DayHours * day + ClosesAt + Grace <= DayHours * today + hour
      BY <1>1, <2>1, <3>1
    <3> QED
      BY <1>6, <2>1, <2>2, <2>3, <3>2
  <2>4. CASE day = today
    <3>1. OutAt(day) <= utc <=> ClosesAt + Grace <= hour
      BY <1>1, <2>1, <2>2, <2>4
    <3> QED
      BY <1>8, <1>9, <2>4, <3>1
  <2>5. CASE day > today
    <3>1. DayHours * today + DayHours <= DayHours * day
      BY <1>1, <2>1, <2>5, DaysAreApart
    <3>2. ~(DayHours * day + ClosesAt + Grace <= DayHours * today + hour)
      BY <1>1, <1>4, <2>1, <3>1
    <3> QED
      BY <1>6, <2>1, <2>2, <2>5, <3>2
  <2> QED
    BY <2>1, <2>3, <2>4, <2>5
<1> HIDE DEF last
<1>10. PICK found \in Candidates(utc) : TRUE
  BY <1>2, <1>6, <1>7, WalkFinds
<1>11. LastCompleted(utc) = Max(Candidates(utc))
  BY <1>10 DEF LastCompleted
<1>12. PICK m \in Candidates(utc) : LastCompleted(utc) = m /\ \A day \in Candidates(utc) : day <= m
  <2>1. Candidates(utc) \in SUBSET Int /\ Candidates(utc) # {} /\ \A day \in Candidates(utc) : day <= last
    BY <1>6, <1>7, <1>10
  <2> QED
    BY <1>6, <1>11, <2>1, LastDay
<1>13. m \in DayRange /\ m <= last /\ last - WalkDays + 1 <= m /\ IsTradingDay(m) /\ m \in Int
  BY <1>1, <1>4, <1>6, <1>7 DEF DayRange
<1>14. m \in Known /\ \A day \in Known : day <= m
  <2>1. m \in Known
    BY <1>9, <1>13
  <2>2. ASSUME NEW day \in Known PROVE day <= m
    <3>1. day \in Int /\ IsTradingDay(day) /\ day <= last
      BY <1>9 DEF DayRange
    <3>2. CASE last - WalkDays + 1 <= day
      <4>1. day \in Candidates(utc)
        BY <1>6, <1>7, <3>1, <3>2
      <4> QED
        BY <1>12, <4>1
    <3>3. CASE day < last - WalkDays + 1
      BY <1>1, <1>6, <1>13, <3>1, <3>3
    <3> QED
      BY <1>1, <1>6, <3>1, <3>2, <3>3
  <2> QED
    BY <2>1, <2>2
<1>15. Max(Known) = m
  <2>1. Known \in SUBSET Int /\ \A day \in Known : day <= CalendarDays
    BY <1>1 DEF DayRange
  <2> HIDE DEF Known
  <2>2. Max(Known) \in Known /\ \A day \in Known : day <= Max(Known)
    BY <1>1, <1>14, <2>1, LastDay
  <2>3. Max(Known) <= m /\ m <= Max(Known) /\ Max(Known) \in Int /\ m \in Int
    BY <1>14, <2>1, <2>2
  <2> QED
    BY <2>3
<1>16. ASSUME IsOpen(utc) PROVE LastCompleted(utc) < SessionDate(utc)
  <2>1. hour \in OpensAt..Closing(today) - 1
    BY <1>2, <1>3, <1>16 DEF IsOpen
  <2>2. Closing(today) \in {ClosesEarly, ClosesAt}
    BY DEF Closing
  <2>3. hour < ClosesAt
    BY <1>1, <2>1, <2>2
  <2>4. last = today - 1
    BY <1>1, <1>8, <2>3 DEF last
  <2> QED
    BY <1>2, <1>12, <1>13, <2>4 DEF SessionDate
<1> QED
  BY <1>5, <1>12, <1>15, <1>16 DEF ExpectedBarIsOut

\* Of the sessions that the calendar in use knows, the bar of the last one that is
\* out is expected, never that of one that goes on, for all offsets of the venue's
\* clock and all hours of its session (calendars.py:373).
THEOREM ExpectedBarsAreOut == CalendarSpec => []ExpectedBarIsOut
<1> QED
  BY CalendarStarts, CalendarKeeps, ExpectedIsOut, PTL DEF CalendarSpec

-----------------------------------------------------------------------------
(* ProviderHealth: the circuit opens in time.                              *)

Outcomes == {"ok"} \cup {"failed", "quota"}

Samples == [outcome : Outcomes, age : Nat]

Circuits == [state : {"closed", "open", "half-open"}, age : Nat]

Places == {"idle", "fetching", "noting", "appended", "easing", "closing", "counting",
           "judging", "evaluating", "weighing", "opening"}

Calls == [at : Places, outcome : Outcomes, count : Nat]

HealthTypes ==
  /\ samples \in Seq(Samples)
  /\ call \in [Callers -> Calls]
  /\ circuit \in Circuits
  /\ streak \in Nat

\* A call that will still weigh the window, unless it finds the circuit open.
Weighs(asked) ==
  \/ asked.at \in {"counting", "judging", "evaluating", "weighing", "opening"}
  \/ asked.at = "appended" /\ asked.outcome = "failed"

\* A call that may still close the circuit.
Closes(asked) ==
  \/ asked.at \in {"easing", "closing"}
  \/ asked.at = "appended" /\ asked.outcome = "ok"

\* Only an answer closes the circuit, and in a spell without one somebody weighs the
\* window of a closed circuit that has enough failures.
HealthInv ==
  /\ HealthTypes
  /\ \A c \in Callers : Closes(call[c]) => spell = "answered"
  /\ circuit.state = "closed" /\ spell = "failing" /\ WindowFailures >= Threshold
     => \E c \in Callers : Weighs(call[c])

LEMMA HealthConstants ==
  /\ Threshold \in Nat \ {0} /\ OpenFor \in Nat /\ Recent \in Nat /\ Hour \in Nat /\ Recent <= Hour
  /\ MaxSamples \in Nat \ {0} /\ Failures \subseteq {"failed", "quota"}
  BY HealthAssumption

\* The places of the failures in the window.
FailedAt(calls) == {i \in DOMAIN calls : calls[i].age <= Recent /\ calls[i].outcome = "failed"}

LEMMA FailuresAreFinite ==
  ASSUME NEW calls \in Seq(Samples)
  PROVE  IsFiniteSet(FailedAt(calls)) /\ Cardinality(FailedAt(calls)) \in Nat
<1>1. PICK n \in Nat : n = Len(calls) /\ DOMAIN calls = 1..n
  OBVIOUS
<1>2. IsFiniteSet(1..n)
  <2>1. 1 \in Int /\ n \in Int
    OBVIOUS
  <2> QED
    BY <2>1, FS_Interval
<1>3. FailedAt(calls) \in SUBSET (1..n)
  BY <1>1 DEF FailedAt
<1> QED
  BY <1>2, <1>3, FS_Subset, FS_CardinalityType

LEMMA FailuresAreCounted == WindowFailures = Cardinality(FailedAt(samples))
<1>1. {i \in Within(Recent) : samples[i].outcome \in {"failed"}} = FailedAt(samples)
  BY DEF Within, FailedAt
<1> QED
  BY <1>1 DEF WindowFailures, Count

\* Samples that lose their first, or grow older, have no more failures in the window.
LEMMA FailuresGoDown ==
  ASSUME NEW old \in Seq(Samples), NEW new \in Seq(Samples), NEW shift \in Nat,
         \A i \in FailedAt(new) : i + shift \in FailedAt(old),
         IsFiniteSet(FailedAt(old))
  PROVE  Cardinality(FailedAt(new)) <= Cardinality(FailedAt(old))
<1> DEFINE f == [i \in FailedAt(new) |-> i + shift]
<1>1. FailedAt(new) \subseteq Int
  BY DEF FailedAt
<1>2. f \in Injection(FailedAt(new), FailedAt(old))
  <2>1. f \in [FailedAt(new) -> FailedAt(old)]
    OBVIOUS
  <2>2. \A i, k \in FailedAt(new) : f[i] = f[k] => i = k
    BY <1>1
  <2> QED
    BY <2>1, <2>2 DEF Injection, IsInjective
<1> HIDE DEF f
<1> QED
  BY <1>2, FS_Injection

LEMMA HealthStarts == ASSUME HealthInit PROVE HealthInv
  BY DEF HealthInit, HealthInv, HealthTypes, Samples, Circuits, Calls, Places, Outcomes, Unasked,
         Closes

\* A step of the samples after which there are no more failures in the window, and which
\* takes no call that weighs it away.
LEMMA QuietStep ==
  ASSUME HealthInv, HealthTypes', NEW shift \in Nat,
         \A i \in FailedAt(samples)' : i + shift \in FailedAt(samples),
         circuit'.state = circuit.state,
         spell' = "failing" => spell = "failing",
         \A c \in Callers : Closes(call[c])' => spell' = "answered",
         (\E c \in Callers : Weighs(call[c])) => \E c \in Callers : Weighs(call[c])'
  PROVE  HealthInv'
<1>1. PICK old \in Seq(Samples) : old = samples
  BY DEF HealthInv, HealthTypes
<1>2. PICK new \in Seq(Samples) : new = samples'
  BY DEF HealthTypes
<1>3. /\ Cardinality(FailedAt(new)) <= Cardinality(FailedAt(old))
      /\ Cardinality(FailedAt(new)) \in Nat /\ Cardinality(FailedAt(old)) \in Nat
  BY <1>1, <1>2, FailuresAreFinite, FailuresGoDown DEF FailedAt
<1>4. WindowFailures = Cardinality(FailedAt(old))
  BY <1>1, FailuresAreCounted
<1>5. {i \in Within(Recent)' : samples'[i].outcome \in {"failed"}} = FailedAt(new)
  BY <1>2 DEF Within, FailedAt
<1>6. WindowFailures' = Cardinality(FailedAt(new))
  BY <1>2, <1>5 DEF WindowFailures, Count
<1>7. PICK m \in Nat, n \in Nat : n <= m /\ WindowFailures = m /\ WindowFailures' = n
  BY <1>3, <1>4, <1>6
<1>8. WindowFailures' >= Threshold => WindowFailures >= Threshold
  BY <1>7, HealthConstants
<1> QED
  BY <1>8 DEF HealthInv

\* A step of a call that appends no sample.
LEMMA CallStep ==
  ASSUME HealthInv, NEW c \in Callers, NEW new \in Calls,
         call' = [call EXCEPT ![c] = new], UNCHANGED <<samples, spell>>,
         streak' \in Nat, circuit' \in Circuits,
         circuit'.state = "closed" => circuit.state = "closed" \/ spell = "answered",
         Closes(new) => Closes(call[c]),
         Weighs(call[c]) => \/ Weighs(new)
                            \/ circuit'.state # "closed"
                            \/ ~(WindowFailures >= Threshold)
  PROVE  HealthInv'
<1>1. /\ call' \in [Callers -> Calls] /\ call'[c] = new
      /\ \A d \in Callers \ {c} : call'[d] = call[d]
  BY DEF HealthInv, HealthTypes
<1>2. HealthTypes'
  BY <1>1 DEF HealthInv, HealthTypes
<1>3. WindowFailures' = WindowFailures
  BY DEF WindowFailures, Count, Within
<1>4. ASSUME NEW d \in Callers, Closes(call'[d]) PROVE spell' = "answered"
  <2>1. Closes(call[d])
    BY <1>1, <1>4
  <2> QED
    BY <2>1 DEF HealthInv
<1>5. ASSUME circuit'.state = "closed", spell' = "failing", WindowFailures' >= Threshold
      PROVE  \E d \in Callers : Weighs(call'[d])
  <2>1. PICK d \in Callers : Weighs(call[d])
    BY <1>3, <1>5 DEF HealthInv
  <2>2. Weighs(call'[d])
    BY <1>1, <1>3, <1>5, <2>1
  <2> QED
    BY <2>2
<1> QED
  BY <1>2, <1>4, <1>5 DEF HealthInv, Closes, Weighs

LEMMA NoteKeeps == ASSUME HealthInv, NEW c \in Callers, Note(c) PROVE HealthInv'
<1>1. PICK sample : sample = [outcome |-> call[c].outcome, age |-> 0]
  OBVIOUS
<1>2. PICK new : new = [call[c] EXCEPT !.at = "appended"]
  OBVIOUS
<1>3. PICK longer : longer = Append(samples, sample)
  OBVIOUS
<1>4. /\ call[c].at = "noting" /\ call' = [call EXCEPT ![c] = new]
      /\ samples' = (IF Len(longer) > MaxSamples THEN Tail(longer) ELSE longer)
      /\ UNCHANGED <<circuit, streak>>
      /\ spell' = Joined(IF Inside = {} THEN "quiet" ELSE spell, call[c].outcome)
  BY <1>1, <1>2, <1>3 DEF Note, Moves
<1>5. /\ call[c] \in Calls /\ streak \in Nat /\ samples \in Seq(Samples)
  BY DEF HealthInv, HealthTypes
<1>6. new \in Calls /\ new.at = "appended" /\ new.outcome = call[c].outcome
  BY <1>2, <1>5 DEF Calls, Places
<1>7. sample \in Samples /\ sample.outcome = call[c].outcome
  BY <1>1, <1>5 DEF Samples, Calls
<1>8. PICK n \in Nat : n = Len(samples)
  BY <1>5
<1>9. /\ longer \in Seq(Samples) /\ Len(longer) = n + 1 /\ longer[n + 1] = sample
      /\ \A i \in 1..n : longer[i] = samples[i]
  BY <1>3, <1>5, <1>7, <1>8
<1>10. /\ Tail(longer) \in Seq(Samples) /\ Len(Tail(longer)) = n
       /\ \A i \in 1..n : Tail(longer)[i] = longer[i + 1]
  BY <1>9
<1>11. samples' \in Seq(Samples)
  BY <1>4, <1>9, <1>10
<1>12. call' \in [Callers -> Calls] /\ call'[c] = new /\ \A d \in Callers \ {c} : call'[d] = call[d]
  BY <1>4, <1>6 DEF HealthInv, HealthTypes
<1>13. HealthTypes'
  BY <1>4, <1>11, <1>12 DEF HealthInv, HealthTypes
<1>14. ASSUME NEW d \in Callers, Closes(call'[d]) PROVE spell' = "answered"
  <2>1. CASE d = c
    <3>1. call[c].outcome = "ok"
      BY <1>6, <1>12, <1>14, <2>1 DEF Closes
    <3> QED
      BY <1>4, <3>1 DEF Joined
  <2>2. CASE d # c
    <3>1. Closes(call[d])
      BY <1>12, <1>14, <2>2
    <3>2. d \in Inside
      BY <3>1 DEF Inside, Closes
    <3>3. spell = "answered"
      BY <3>1 DEF HealthInv
    <3> QED
      BY <1>4, <3>2, <3>3 DEF Joined
  <2> QED
    BY <2>1, <2>2
<1>15. CASE call[c].outcome = "failed"
  <2>1. Weighs(call'[c])
    BY <1>6, <1>12, <1>15 DEF Weighs
  <2> QED
    BY <1>13, <1>14, <2>1 DEF HealthInv, Weighs, Closes
<1>16. CASE call[c].outcome # "failed"
  <2>1. ASSUME NEW d \in Callers, Weighs(call[d]) PROVE Weighs(call'[d])
    <3>1. d # c
      BY <1>4, <2>1 DEF Weighs
    <3> QED
      BY <1>12, <2>1, <3>1
  <2>2. spell' = "failing" => spell = "failing"
    BY <1>4, <1>16 DEF Joined
  <2>3. /\ \A d \in Callers : Closes(call[d])' => spell' = "answered"
        /\ (\E d \in Callers : Weighs(call[d])) => \E d \in Callers : Weighs(call[d])'
    BY <1>14, <2>1 DEF Closes, Weighs
  <2>4. CASE samples' = longer
    <3>1. \A i \in FailedAt(samples)' : i + 0 \in FailedAt(samples)
      <4>1. DOMAIN samples' = 1..n + 1 /\ DOMAIN samples = 1..n
        BY <1>5, <1>8, <1>9, <2>4
      <4>2. ASSUME NEW i \in 1..n + 1, longer[i].outcome = "failed" PROVE i \in 1..n
        BY <1>7, <1>9, <1>16, <4>2
      <4> QED
        BY <1>9, <2>4, <4>1, <4>2 DEF FailedAt
    <3> QED
      BY <1>4, <1>13, <2>2, <2>3, <3>1, QuietStep
  <2>5. CASE samples' = Tail(longer)
    <3>1. \A i \in FailedAt(samples)' : i + 1 \in FailedAt(samples)
      <4>1. DOMAIN samples' = 1..n /\ DOMAIN samples = 1..n
        BY <1>5, <1>8, <1>10, <2>5
      <4>2. ASSUME NEW i \in 1..n, Tail(longer)[i].outcome = "failed"
            PROVE  i + 1 \in 1..n /\ Tail(longer)[i] = samples[i + 1]
        <5>1. i # n
          BY <1>7, <1>9, <1>10, <1>16, <4>2
        <5>2. i + 1 \in 1..n
          BY <5>1
        <5> QED
          BY <1>9, <1>10, <5>2
      <4> QED
        BY <2>5, <4>1, <4>2 DEF FailedAt
    <3> QED
      BY <1>4, <1>13, <2>2, <2>3, <3>1, QuietStep
  <2> QED
    BY <1>4, <2>4, <2>5
<1> QED
  BY <1>15, <1>16

\* A call that goes on inside record, or leaves it, without writing the circuit.
LEMMA RecordStep ==
  ASSUME HealthInv, NEW c \in Callers, NEW new \in Calls,
         call' = [call EXCEPT ![c] = new], UNCHANGED <<recorded, circuit>>, streak' \in Nat,
         Closes(new) => Closes(call[c]),
         Weighs(call[c]) => \/ Weighs(new)
                            \/ circuit.state # "closed"
                            \/ ~(WindowFailures >= Threshold)
  PROVE  HealthInv'
<1>1. UNCHANGED <<samples, spell, circuit>>
  BY DEF recorded, seen
<1>2. circuit \in Circuits
  BY DEF HealthInv, HealthTypes
<1> QED
  BY <1>1, <1>2, CallStep

\* Who weighs the window opens the circuit, finds it open, or finds too few failures.
LEMMA ConcludeKeeps == ASSUME HealthInv, NEW c \in Callers, Conclude(c) PROVE HealthInv'
<1>1. /\ call[c] \in Calls /\ streak \in Nat /\ circuit \in Circuits
      /\ call[c].outcome \in Outcomes /\ call[c].count \in Nat
  BY DEF HealthInv, HealthTypes, Calls
<1>2. Unasked \in Calls /\ Unasked.at = "idle"
  BY DEF Unasked, Calls, Places, Outcomes
<1>3. ~Closes(Unasked)
  BY <1>2 DEF Closes
<1>4. ASSUME NEW where \in Places
      PROVE  LET new == [call[c] EXCEPT !.at = where]
             IN new \in Calls /\ new.at = where /\ new.outcome = call[c].outcome
  BY <1>1 DEF Calls
<1>5. {"easing", "closing", "counting", "judging", "evaluating", "weighing", "opening"} \subseteq Places
  BY DEF Places
<1>6. ASSUME ClearStreak(c) PROVE HealthInv'
  <2>1. PICK new : new = [call[c] EXCEPT !.at = "easing"]
    OBVIOUS
  <2>2. new \in Calls
    BY <1>4, <1>5, <2>1
  <2>3. /\ call' = [call EXCEPT ![c] = new] /\ UNCHANGED <<recorded, circuit>> /\ streak' \in Nat
        /\ call[c].at = "appended" /\ call[c].outcome = "ok"
    BY <1>6, <2>1 DEF ClearStreak, Moves
  <2>4. Closes(call[c]) /\ ~Weighs(call[c])
    BY <2>3 DEF Closes, Weighs
  <2> QED
    BY <2>2, <2>3, <2>4, RecordStep
<1>7. ASSUME FindHalfOpen(c) PROVE HealthInv'
  <2>1. PICK new : new = IF circuit.state = "half-open" THEN [call[c] EXCEPT !.at = "closing"] ELSE Unasked
    OBVIOUS
  <2>2. new \in Calls
    BY <1>2, <1>4, <1>5, <2>1
  <2>3. /\ call' = [call EXCEPT ![c] = new] /\ UNCHANGED <<recorded, circuit>> /\ streak' \in Nat
        /\ call[c].at = "easing"
    BY <1>1, <1>7, <2>1 DEF FindHalfOpen
  <2>4. Closes(call[c]) /\ ~Weighs(call[c])
    BY <2>3 DEF Closes, Weighs
  <2> QED
    BY <2>2, <2>3, <2>4, RecordStep
<1>8. ASSUME CloseCircuit(c) PROVE HealthInv'
  <2>1. /\ call' = [call EXCEPT ![c] = Unasked] /\ UNCHANGED <<samples, spell>> /\ streak' \in Nat
        /\ call[c].at = "closing" /\ circuit' = Shut
    BY <1>1, <1>8 DEF CloseCircuit, recorded, seen
  <2>2. Closes(call[c]) /\ ~Weighs(call[c]) /\ Shut \in Circuits
    BY <2>1 DEF Closes, Weighs, Shut, Circuits
  <2>3. spell = "answered"
    BY <2>2 DEF HealthInv
  <2> QED
    BY <1>2, <1>3, <2>1, <2>2, <2>3, CallStep
<1>9. ASSUME Mark(c) PROVE HealthInv'
  <2>1. /\ call' = [call EXCEPT ![c] = Unasked] /\ UNCHANGED <<recorded, circuit>> /\ streak' \in Nat
        /\ call[c].at = "appended" /\ call[c].outcome = "quota"
    BY <1>1, <1>9 DEF Mark
  <2>2. ~Weighs(call[c])
    BY <2>1 DEF Weighs
  <2> QED
    BY <1>2, <1>3, <2>1, <2>2, RecordStep
<1>10. ASSUME ReadStreak(c) PROVE HealthInv'
  <2>1. PICK n \in Nat : n = Counted(streak)
    BY <1>1, HealthConstants DEF Counted
  <2>2. PICK new : new = [call[c] EXCEPT !.at = "counting", !.count = n]
    OBVIOUS
  <2>3. new \in Calls /\ new.at = "counting"
    BY <1>1, <1>5, <2>2 DEF Calls
  <2>4. call' = [call EXCEPT ![c] = new] /\ UNCHANGED <<recorded, circuit>> /\ streak' \in Nat
    BY <1>1, <1>10, <2>1, <2>2 DEF ReadStreak
  <2>5. ~Closes(new) /\ Weighs(new)
    BY <2>3 DEF Closes, Weighs
  <2> QED
    BY <2>3, <2>4, <2>5, RecordStep
<1>11. ASSUME WriteStreak(c) PROVE HealthInv'
  <2>1. PICK new : new = [call[c] EXCEPT !.at = "judging", !.count = 0]
    OBVIOUS
  <2>2. new \in Calls /\ new.at = "judging"
    BY <1>1, <1>5, <2>1 DEF Calls
  <2>3. call' = [call EXCEPT ![c] = new] /\ UNCHANGED <<recorded, circuit>> /\ streak' \in Nat
    BY <1>1, <1>11, <2>1 DEF WriteStreak
  <2>4. ~Closes(new) /\ Weighs(new)
    BY <2>2 DEF Closes, Weighs
  <2> QED
    BY <2>2, <2>3, <2>4, RecordStep
<1>12. ASSUME JudgeCircuit(c) PROVE HealthInv'
  <2>1. PICK where \in Places : /\ where = (IF circuit.state = "half-open" THEN "opening" ELSE "evaluating")
                                /\ where \in {"opening", "evaluating"}
    BY <1>5
  <2>2. PICK new : new = [call[c] EXCEPT !.at = where]
    OBVIOUS
  <2>3. new \in Calls /\ new.at = where
    BY <1>4, <2>2
  <2>4. call' = [call EXCEPT ![c] = new] /\ UNCHANGED <<recorded, circuit>> /\ streak' \in Nat
    BY <1>1, <1>12, <2>1, <2>2 DEF JudgeCircuit, Moves
  <2>5. ~Closes(new) /\ Weighs(new)
    BY <2>1, <2>3 DEF Closes, Weighs
  <2> QED
    BY <2>3, <2>4, <2>5, RecordStep
<1>13. ASSUME FindOpen(c) PROVE HealthInv'
  <2>1. PICK new : new = IF circuit.state = "open" THEN Unasked ELSE [call[c] EXCEPT !.at = "weighing"]
    OBVIOUS
  <2>2. new \in Calls
    BY <1>2, <1>4, <1>5, <2>1
  <2>3. call' = [call EXCEPT ![c] = new] /\ UNCHANGED <<recorded, circuit>> /\ streak' \in Nat
    BY <1>1, <1>13, <2>1 DEF FindOpen
  <2>4. ~Closes(new) /\ (Weighs(new) \/ circuit.state # "closed")
    <3>1. CASE circuit.state = "open"
      BY <1>3, <2>1, <3>1
    <3>2. CASE circuit.state # "open"
      <4>1. new.at = "weighing"
        BY <1>4, <1>5, <2>1, <3>2
      <4> QED
        BY <4>1 DEF Closes, Weighs
    <3> QED
      BY <3>1, <3>2
  <2> QED
    BY <2>2, <2>3, <2>4, RecordStep
<1>14. ASSUME Weigh(c) PROVE HealthInv'
  <2>1. PICK new : new = IF Tripping THEN [call[c] EXCEPT !.at = "opening"] ELSE Unasked
    OBVIOUS
  <2>2. new \in Calls
    BY <1>2, <1>4, <1>5, <2>1
  <2>3. call' = [call EXCEPT ![c] = new] /\ UNCHANGED <<recorded, circuit>> /\ streak' \in Nat
    BY <1>1, <1>14, <2>1 DEF Weigh
  <2>4. ~Closes(new) /\ (Weighs(new) \/ ~(WindowFailures >= Threshold))
    <3>1. CASE Tripping
      <4>1. new.at = "opening"
        BY <1>4, <1>5, <2>1, <3>1
      <4> QED
        BY <4>1 DEF Closes, Weighs
    <3>2. CASE ~Tripping
      BY <1>3, <2>1, <3>2 DEF Tripping
    <3> QED
      BY <3>1, <3>2
  <2> QED
    BY <2>2, <2>3, <2>4, RecordStep
<1>15. ASSUME OpenCircuit(c) PROVE HealthInv'
  <2>1. /\ call' = [call EXCEPT ![c] = Unasked] /\ UNCHANGED <<samples, spell>> /\ streak' \in Nat
        /\ circuit' = Open
    BY <1>1, <1>15 DEF OpenCircuit, recorded, seen
  <2>2. circuit' \in Circuits /\ circuit'.state # "closed"
    BY <2>1 DEF Open, Circuits
  <2> QED
    BY <1>2, <1>3, <2>1, <2>2, CallStep
<1> QED
  BY <1>6, <1>7, <1>8, <1>9, <1>10, <1>11, <1>12, <1>13, <1>14, <1>15 DEF Conclude

LEMMA TimeKeepsHealth == ASSUME HealthInv, HealthTick PROVE HealthInv'
<1>1. PICK new : new = [i \in DOMAIN samples |-> [samples[i] EXCEPT !.age = Older(@, Hour + 1)]]
  OBVIOUS
<1>2. /\ samples' = new /\ UNCHANGED <<call, streak, spell>>
      /\ circuit' = IF circuit.state = "open" THEN [circuit EXCEPT !.age = Older(@, OpenFor)] ELSE circuit
      /\ circuit \in Circuits /\ samples \in Seq(Samples)
  BY <1>1 DEF HealthTick, HealthInv, HealthTypes, seen
<1>3. ASSUME NEW age \in Nat, NEW limit \in Nat
      PROVE  Older(age, limit) \in Nat /\ age <= Older(age, limit)
  BY DEF Older
<1>4. circuit' \in Circuits /\ circuit'.state = circuit.state
  BY <1>2, <1>3, HealthConstants DEF Circuits
<1>5. PICK n \in Nat : n = Len(samples) /\ DOMAIN samples = 1..n
  BY <1>2
<1>6. ASSUME NEW i \in 1..n
      PROVE  new[i] \in Samples /\ new[i].outcome = samples[i].outcome /\ samples[i].age <= new[i].age
             /\ samples[i].age \in Nat /\ new[i].age \in Nat
  <2>1. samples[i] \in Samples /\ new[i] = [samples[i] EXCEPT !.age = Older(@, Hour + 1)]
    BY <1>1, <1>2, <1>5
  <2> QED
    BY <1>3, <2>1, HealthConstants DEF Samples
<1>7. new \in Seq(Samples) /\ DOMAIN new = 1..n
  <2>1. new = [i \in 1..n |-> new[i]]
    BY <1>1, <1>5
  <2>2. new \in [1..n -> Samples]
    BY <1>6, <2>1
  <2> QED
    BY <2>2, SeqDef
<1>8. \A i \in FailedAt(samples)' : i + 0 \in FailedAt(samples)
  BY <1>2, <1>5, <1>6, <1>7, HealthConstants DEF FailedAt
<1>9. HealthTypes'
  BY <1>2, <1>4, <1>7 DEF HealthInv, HealthTypes
<1>10. /\ \A c \in Callers : Closes(call[c])' => spell' = "answered"
       /\ (\E c \in Callers : Weighs(call[c])) => \E c \in Callers : Weighs(call[c])'
  BY <1>2 DEF HealthInv, Closes, Weighs
<1> QED
  BY <1>2, <1>4, <1>8, <1>9, <1>10, QuietStep

LEMMA HealthKeeps == ASSUME HealthInv, [HealthNext]_healthVars PROVE HealthInv'
<1>1. ASSUME UNCHANGED <<samples, circuit, streak, call, spell>> PROVE HealthInv'
  BY <1>1 DEF HealthInv, HealthTypes, Closes, Weighs, WindowFailures, Count, Within
<1>2. ASSUME NEW c \in Callers, NEW new \in Calls, call' = [call EXCEPT ![c] = new],
             new.at \in {"fetching", "noting"}, call[c].at \in {"idle", "fetching"},
             UNCHANGED <<samples, circuit, streak, spell>>
      PROVE  HealthInv'
  <2>1. ~Closes(new) /\ ~Weighs(call[c])
    BY <1>2 DEF Closes, Weighs
  <2>2. streak \in Nat /\ circuit \in Circuits
    BY DEF HealthInv, HealthTypes
  <2> QED
    BY <1>2, <2>1, <2>2, CallStep
<1>3. ASSUME NEW c \in Callers, Ask(c) PROVE HealthInv'
  <2>1. PICK new : new = [call[c] EXCEPT !.at = "fetching"]
    OBVIOUS
  <2>2. call' = [call EXCEPT ![c] = new] /\ call[c].at = "idle" /\ UNCHANGED <<samples, circuit, streak, spell>>
    BY <1>3, <2>1 DEF Ask, seen
  <2>3. new \in Calls /\ new.at = "fetching"
    BY <2>1 DEF HealthInv, HealthTypes, Calls, Places
  <2> QED
    BY <1>2, <2>2, <2>3
<1>4. Answers \subseteq Outcomes
  BY HealthConstants DEF Answers, Outcomes
<1>5. ASSUME NEW c \in Callers, FailFast(c) \/ Fetch(c) \/ Probe(c) PROVE HealthInv'
  <2>1. PICK outcome \in Outcomes : call' = Heard(c, outcome)
    BY <1>4, <1>5 DEF FailFast, Fetch, Probe, Outcomes
  <2>2. call[c].at \in {"idle", "fetching"} /\ UNCHANGED <<samples, circuit, streak, spell>>
    BY <1>5 DEF FailFast, Fetch, Probe, seen
  <2>3. PICK new : new = [Unasked EXCEPT !.at = "noting", !.outcome = outcome]
    OBVIOUS
  <2>4. new \in Calls /\ new.at = "noting"
    BY <2>3 DEF Calls, Places, Outcomes, Unasked
  <2>5. call' = [call EXCEPT ![c] = new]
    BY <2>1, <2>3 DEF Heard
  <2> QED
    BY <1>2, <2>2, <2>4, <2>5
<1>6. ASSUME NEW l \in Lookers, Look(l) PROVE HealthInv'
  BY <1>1, <1>6 DEF Look
<1>7. ASSUME NEW l \in Lookers, HalfOpen(l) PROVE HealthInv'
  <2>1. UNCHANGED <<call, samples, streak, spell>> /\ circuit' = HalfOpened
    BY <1>7 DEF HalfOpen
  <2>2. circuit' \in Circuits /\ circuit'.state # "closed"
    BY <2>1 DEF HalfOpened, Circuits
  <2> QED
    BY <2>1, <2>2 DEF HealthInv, HealthTypes, Closes
<1>8. CASE \E c \in Callers : Throttle(c)
  BY <1>1, <1>8 DEF Throttle, seen
<1>9. CASE Mend \/ UNCHANGED healthVars
  BY <1>1, <1>9 DEF Mend, healthVars, seen
<1> QED
  BY <1>3, <1>5, <1>6, <1>7, <1>8, <1>9, NoteKeeps, ConcludeKeeps, TimeKeepsHealth
  DEF HealthNext, Proceeds

\* Once calls that were recorded side by side are over, some of them failures and none of
\* them an answer, enough failures in the window have opened the circuit, although threads
\* share counter and circuit without a lock (record and _window_failures of
\* ProviderHealthTracker).
THEOREM CircuitTripsInTime == HealthSpec => []TripsInTime
<1>1. HealthInv => TripsInTime
  BY DEF HealthInv, Weighs, Inside, TripsInTime
<1> QED
  BY <1>1, HealthStarts, HealthKeeps, PTL DEF HealthSpec

=============================================================================
