--------------------------- MODULE ForecastServing ---------------------------
(***************************************************************************)
(* A forecast on its way to a reader: ForecastService of backend/          *)
(* forecasting/service.py over get_bundle of backend/forecasting/v4/       *)
(* store.py.  One symbol and one venue.  Requests are threads; they share  *)
(* four caches, of the model, of the venue's market series, of the latest  *)
(* cross-section and of the forecasts.  Each is looked up under a lock,    *)
(* filled without it, and written back stamped with the time of the        *)
(* look-up, so that fillings overtake each other.  The data itself is      *)
(* abstracted to the time it was read.                                     *)
(***************************************************************************)
EXTENDS Integers, FiniteSetsExt

CONSTANTS
  Askers,        \* requests
  ForecastTtl,   \* _FORECAST_TTL_S
  MarketTtl,     \* _MARKET_TTL_S
  ModelTtl,      \* _RECHECK_SECONDS, for the model and the cross-section
  CacheMax,      \* _FORECAST_CACHE_MAX
  MaxModels,     \* bound: models trained
  LastTick       \* bound on the clock

ASSUME ServingAssumption ==
  {ForecastTtl, MarketTtl, ModelTtl, CacheMax, MaxModels, LastTick} \subseteq Nat \ {0}

VARIABLES
  tick,       \* the clock
  since,      \* when each model became the active one; the last is active
  dbFailed,   \* when the database last failed to give the model
  model,      \* _cache of the store: the model and the stamp of the check
  market,     \* _markets: when the series was read or found missing, and the stamp
  sections,   \* _cache of the store: the same for the latest cross-section
  forecasts,  \* _cache of the service: a forecast for each model
  asker       \* what each request does and holds

caches == <<model, market, sections, forecasts>>

servingVars == <<tick, since, dbFailed, caches, asker>>

-----------------------------------------------------------------------------

Never == -LastTick - 1

Active == Max(DOMAIN since)

NoModel == 0

\* The bundle shipped with the code.
Shipped == 1

Unknown == [of |-> NoModel, bars |-> Never, market |-> Never, section |-> Never]

Unasked == [at |-> "idle", asked |-> Never, stamp |-> Never, looked |-> Never, got |-> Unknown]

Emptied == [read |-> Never, stamp |-> Never]

ServingInit ==
  /\ tick = 0
  /\ since = [m \in {Shipped} |-> Never]
  /\ dbFailed = Never
  /\ model = [of |-> NoModel, stamp |-> Never]
  /\ market = Emptied
  /\ sections = Emptied
  /\ forecasts = [m \in {} |-> Unknown]
  /\ asker = [a \in Askers |-> Unasked]

At(a, at) == asker[a].at = at

Got(a) == asker[a].got

\* The stamp of the forecast is taken once and goes along; looked is that of the
\* cache the request is filling.
Goes(a, at, stamp, looked, got) ==
  asker' = [asker EXCEPT ![a] =
    [at |-> at, asked |-> @.asked, stamp |-> stamp, looked |-> looked, got |-> got]]

Asks(a, at, looked, got) ==
  asker' = [asker EXCEPT ![a] =
    [at |-> at, asked |-> tick, stamp |-> Never, looked |-> looked, got |-> got]]

-----------------------------------------------------------------------------
(* get_bundle.                                                             *)

AskForecast(a) ==
  /\ asker[a].at \in {"idle", "answered"}
  /\ IF model.of # NoModel /\ tick - model.stamp < ModelTtl
     THEN Asks(a, "model", Never, [Unknown EXCEPT !.of = model.of])
     ELSE Asks(a, "reads", tick, Unknown)
  /\ UNCHANGED <<tick, since, dbFailed, caches>>

\* What is served when the database fails: the model at hand.
AtHand == IF model.of = NoModel THEN Shipped ELSE model.of

ReadModel(a) ==
  /\ At(a, "reads")
  /\ \/ /\ Goes(a, "stores", Never, asker[a].looked, [Unknown EXCEPT !.of = Active])
        /\ UNCHANGED dbFailed
     \/ /\ Goes(a, "stores", Never, asker[a].looked, [Unknown EXCEPT !.of = AtHand])
        /\ dbFailed' = tick
  /\ UNCHANGED <<tick, since, caches>>

\* A slip: the model holds from when it is stored.
StoreModelLate(a) ==
  /\ At(a, "stores")
  /\ model' = [of |-> Got(a).of, stamp |-> tick]
  /\ Goes(a, "model", Never, Never, Got(a))
  /\ UNCHANGED <<tick, since, dbFailed, market, sections, forecasts>>

StoreModel(a) ==
  /\ At(a, "stores")
  /\ model' = [of |-> Got(a).of, stamp |-> asker[a].looked]
  /\ Goes(a, "model", Never, Never, Got(a))
  /\ UNCHANGED <<tick, since, dbFailed, market, sections, forecasts>>

-----------------------------------------------------------------------------
(* forecast_all.                                                           *)

\* The cache is keyed by the model as well as by the symbol.
LookUp(a) ==
  /\ At(a, "model")
  /\ LET m == Got(a).of IN
       IF m \in DOMAIN forecasts /\ tick - forecasts[m].stamp < ForecastTtl
       THEN Goes(a, "answered", Never, Never, forecasts[m].forecast)
       ELSE Goes(a, "loads", tick, Never, Got(a))
  /\ UNCHANGED <<tick, since, dbFailed, caches>>

\* _load, which fails when the market service does or the bars are too few.
LoadBars(a) ==
  /\ At(a, "loads")
  /\ \/ Goes(a, "bars", asker[a].stamp, Never, [Got(a) EXCEPT !.bars = tick])
     \/ asker' = [asker EXCEPT ![a] = Unasked]
  /\ UNCHANGED <<tick, since, dbFailed, caches>>

\* _market_frame: looked up, read while others go on, written back.
LookForMarket(a) ==
  /\ At(a, "bars")
  /\ IF tick - market.stamp < MarketTtl
     THEN Goes(a, "market", asker[a].stamp, Never, [Got(a) EXCEPT !.market = market.read])
     ELSE Goes(a, "series", asker[a].stamp, tick, Got(a))
  /\ UNCHANGED <<tick, since, dbFailed, caches>>

\* A series that cannot be read is kept as well, as one that is missing.
ReadMarket(a) ==
  /\ At(a, "series")
  /\ Goes(a, "keeps series", asker[a].stamp, asker[a].looked, [Got(a) EXCEPT !.market = tick])
  /\ UNCHANGED <<tick, since, dbFailed, caches>>

StoreMarket(a) ==
  /\ At(a, "keeps series")
  /\ market' = [read |-> Got(a).market, stamp |-> asker[a].looked]
  /\ Goes(a, "market", asker[a].stamp, Never, Got(a))
  /\ UNCHANGED <<tick, since, dbFailed, model, sections, forecasts>>

\* latest_cross_section, which does the same with the day's row.
LookForSection(a) ==
  /\ At(a, "market")
  /\ IF tick - sections.stamp < ModelTtl
     THEN Goes(a, "computes", asker[a].stamp, Never, [Got(a) EXCEPT !.section = sections.read])
     ELSE Goes(a, "section", asker[a].stamp, tick, Got(a))
  /\ UNCHANGED <<tick, since, dbFailed, caches>>

\* The newest row or, when there is none or the database fails, the section shipped
\* with the model.
ReadSection(a) ==
  /\ At(a, "section")
  /\ Goes(a, "keeps section", asker[a].stamp, asker[a].looked, [Got(a) EXCEPT !.section = tick])
  /\ UNCHANGED <<tick, since, dbFailed, caches>>

StoreSection(a) ==
  /\ At(a, "keeps section")
  /\ sections' = [read |-> Got(a).section, stamp |-> asker[a].looked]
  /\ Goes(a, "computes", asker[a].stamp, Never, Got(a))
  /\ UNCHANGED <<tick, since, dbFailed, model, market, forecasts>>

Entry(a, stamp) == [stamp |-> stamp, forecast |-> Got(a)]

\* A full cache is emptied first.
Room == IF Cardinality(DOMAIN forecasts) >= CacheMax THEN {} ELSE DOMAIN forecasts

Keep(a, stamp) ==
  /\ At(a, "computes")
  /\ forecasts' = [m \in Room \cup {Got(a).of} |->
       IF m = Got(a).of THEN Entry(a, stamp) ELSE forecasts[m]]
  /\ Goes(a, "answered", Never, Never, Got(a))
  /\ UNCHANGED <<tick, since, dbFailed, model, market, sections>>

Finish(a) == Keep(a, asker[a].stamp)

-----------------------------------------------------------------------------

\* save_bundle, which ends with reset_cache: of this process when the training
\* runs inside the API, of its own when it is a child.
Train ==
  /\ Active < MaxModels
  /\ since' = [m \in DOMAIN since \cup {Active + 1} |-> IF m > Active THEN tick ELSE since[m]]
  /\ \/ /\ model' = [of |-> NoModel, stamp |-> Never]
        /\ sections' = Emptied
     \/ UNCHANGED <<model, sections>>
  /\ UNCHANGED <<tick, dbFailed, market, forecasts, asker>>

\* save_cross_section of a predict run inside the API, which keeps the section it
\* has made.
SaveOwnSection ==
  /\ sections' = [read |-> tick, stamp |-> tick]
  /\ UNCHANGED <<tick, since, dbFailed, model, market, forecasts, asker>>

PassTick ==
  /\ tick < LastTick
  /\ tick' = tick + 1
  /\ UNCHANGED <<since, dbFailed, caches, asker>>

ServingNext ==
  \/ \E a \in Askers :
       \/ AskForecast(a) \/ ReadModel(a) \/ StoreModel(a) \/ LookUp(a) \/ LoadBars(a)
       \/ LookForMarket(a) \/ ReadMarket(a) \/ StoreMarket(a)
       \/ LookForSection(a) \/ ReadSection(a) \/ StoreSection(a) \/ Finish(a)
  \/ Train \/ SaveOwnSection \/ PassTick

ServingSpec == ServingInit /\ [][ServingNext]_servingVars

-----------------------------------------------------------------------------
(* Properties.                                                             *)

\* The bars behind an answer were read less than ForecastTtl before it was asked
\* for, however long the request that filled the cache took; the market series
\* less than MarketTtl and the cross-section less than ModelTtl before those
\* (service.py:166, 187 and store.py:123).
ForecastIsRecent ==
  \A a \in Askers : At(a, "answered") =>
    /\ asker[a].asked - Got(a).bars < ForecastTtl
    /\ asker[a].asked - Got(a).market < ForecastTtl + MarketTtl
    /\ asker[a].asked - Got(a).section < ForecastTtl + ModelTtl

\* An answer comes from the model that was active ModelTtl before it was asked
\* for or a newer one, although slow requests write an older model back into the
\* cache; only a failing database keeps an older one (get_bundle).
ModelIsCurrent ==
  \A a \in Askers : \A m \in DOMAIN since :
    At(a, "answered") /\ m > Got(a).of /\ since[m] <= asker[a].asked - ModelTtl =>
      dbFailed >= since[m]

\* All that an answer is made of is recent: bars, market series, cross-section
\* and model.
AnswerIsCurrent == ForecastIsRecent /\ ModelIsCurrent
=============================================================================
