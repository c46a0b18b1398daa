--------------------------- MODULE ProviderHealth ---------------------------
(***************************************************************************)
(* One market data vendor, the circuit breaker of its client               *)
(* (backend/market_data/providers/base.py and the get_quote of each        *)
(* client), and the tracker that hears of every call and keeps a circuit   *)
(* of its own (backend/market_data/health/__init__.py).                    *)
(*                                                                         *)
(* Request threads share both without a lock.  record appends a sample,    *)
(* then reads and writes a counter, then looks at the circuit and writes   *)
(* it: each of these is a step, and those of two threads interleave.  The  *)
(* circuit half-opens only when somebody looks at it, and a look is a read *)
(* and, later, a write as well.                                            *)
(*                                                                         *)
(* Times are ages, which stop growing once nothing compares them any more. *)
(***************************************************************************)
EXTENDS Integers, Sequences, SequencesExt, FiniteSetsExt

CONSTANTS
  Callers,    \* request threads, which ask the vendor for quotes
  Probers,    \* those that also serve an administrator's probe of it
  Lookers,    \* those that look at the tracker: health pages and the daily job
  Threshold,  \* failures that open a breaker: 5 in the client, 5 in the tracker
  OpenFor,    \* how long a breaker stays open: 60 s, in both
  Recent,     \* the window of the tracker: 5 minutes
  Hour,       \* its longer window
  MaxSamples, \* what the tracker remembers of a vendor: 500 calls
  Failures    \* how the vendor can fail: "quota" is a 429 or a refused key

ASSUME HealthAssumption ==
  /\ {Threshold, OpenFor, Recent, Hour, MaxSamples} \subseteq Nat \ {0}
  /\ OpenFor <= Recent /\ Recent <= Hour /\ Threshold <= MaxSamples
  /\ Probers \subseteq Callers
  /\ Failures \subseteq {"failed", "quota"}

VARIABLES
  up,       \* the vendor answers from now on
  breaker,  \* the client's breaker
  call,     \* what each thread does
  samples,  \* the calls the tracker remembers, the oldest first
  circuit,  \* the tracker's breaker
  streak,   \* its count of consecutive failures
  limited,  \* its mark that the vendor's quota is used up or the key refused
  looking,  \* the looks that have found the circuit open for long enough
  spell     \* history: of the calls recorded side by side at last, that some
            \* failed and none was an answer, that one was, or neither

seen == <<looking, spell>>

healthVars == <<up, breaker, call, samples, circuit, streak, limited, seen>>

-----------------------------------------------------------------------------

\* The vendor's possible answers.
Answers == IF up THEN {"ok"} ELSE {"ok"} \cup Failures

Unasked == [at |-> "idle", outcome |-> "ok", count |-> 0]

Older(age, limit) == IF age < limit THEN age + 1 ELSE age

\* Only comparisons with Threshold use the counters.
Counted(n) == IF n < Threshold THEN n + 1 ELSE n

HealthInit ==
  /\ up = FALSE
  /\ breaker = [state |-> "closed", failures |-> 0, age |-> 0]
  /\ call = [c \in Callers |-> Unasked]
  /\ samples = <<>>
  /\ circuit = [state |-> "closed", age |-> 0]
  /\ streak = 0
  /\ limited = FALSE
  /\ looking = {}
  /\ spell = "quiet"

-----------------------------------------------------------------------------
(* The client's breaker.                                                   *)

Lapsed == breaker.state = "open" /\ breaker.age >= OpenFor

Allows == breaker.state # "open" \/ Lapsed

\* What a request that is let through makes of the breaker.
Admitted == IF Lapsed THEN [breaker EXCEPT !.state = "half-open"] ELSE breaker

Succeeded == [state |-> "closed", failures |-> 0, age |-> 0]

Failing ==
  LET n == Counted(breaker.failures)
  IN IF breaker.state = "half-open" \/ n >= Threshold
     THEN [state |-> "open", failures |-> n, age |-> 0]
     ELSE [breaker EXCEPT !.failures = n]

-----------------------------------------------------------------------------
(* A call.                                                                 *)

Heard(c, outcome) ==
  [call EXCEPT ![c] = [Unasked EXCEPT !.at = "noting", !.outcome = outcome]]

\* The request goes to the vendor.
Ask(c) ==
  /\ call[c].at = "idle"
  /\ Allows
  /\ breaker' = Admitted
  /\ call' = [call EXCEPT ![c].at = "fetching"]
  /\ UNCHANGED <<up, samples, circuit, streak, limited, seen>>

\* The client's own quota is used up, which the tracker is not told.
Throttle(c) ==
  /\ call[c].at = "idle"
  /\ Allows
  /\ breaker' = Admitted
  /\ UNCHANGED <<up, call, samples, circuit, streak, limited, seen>>

\* The breaker refuses, and the tracker is told of a failed call.
FailFast(c) ==
  /\ call[c].at = "idle"
  /\ ~Allows
  /\ call' = Heard(c, "failed")
  /\ UNCHANGED <<up, breaker, samples, circuit, streak, limited, seen>>

\* The vendor's answer, after the retry of a transient error.
Fetch(c) ==
  /\ call[c].at = "fetching"
  /\ \E answer \in Answers :
       /\ breaker' = IF answer = "ok" THEN Succeeded ELSE Failing
       /\ call' = Heard(c, answer)
  /\ UNCHANGED <<up, samples, circuit, streak, limited, seen>>

\* A probe asks through a client of its own, whose breaker is new, and whose
\* stub hides why the vendor failed.
Probe(c) ==
  /\ call[c].at = "idle" /\ c \in Probers
  /\ \E answer \in Answers :
       /\ call' = Heard(c, IF answer = "ok" THEN "ok" ELSE "failed")
  /\ UNCHANGED <<up, breaker, samples, circuit, streak, limited, seen>>

-----------------------------------------------------------------------------
(* The tracker.                                                            *)

\* The calls inside record, their sample appended.
Inside == {c \in Callers : call[c].at \notin {"idle", "fetching", "noting"}}

\* A spell of calls once another takes part.
Joined(before, outcome) ==
  IF before = "answered" \/ outcome = "ok" THEN "answered"
  ELSE IF before = "failing" \/ outcome = "failed" THEN "failing" ELSE "quiet"

Moves(c, where) == call' = [call EXCEPT ![c].at = where]

\* The sample is appended.
Note(c) ==
  /\ call[c].at = "noting"
  /\ LET longer == Append(samples, [outcome |-> call[c].outcome, age |-> 0])
     IN samples' = IF Len(longer) > MaxSamples THEN Tail(longer) ELSE longer
  /\ spell' = Joined(IF Inside = {} THEN "quiet" ELSE spell, call[c].outcome)
  /\ Moves(c, "appended")
  /\ UNCHANGED <<up, breaker, circuit, streak, limited, looking>>

\* The calls of a window, by their places among the samples.
Within(limit) == {i \in DOMAIN samples : samples[i].age <= limit}

Count(calls, outcomes) == Cardinality({i \in calls : samples[i].outcome \in outcomes})

WindowFailures == Count(Within(Recent), {"failed"})

\* The window is forgotten.
TrippingByStreak == streak >= Threshold

\* _evaluate_breaker
Tripping == streak >= Threshold \/ WindowFailures >= Threshold

Open == [state |-> "open", age |-> 0]

Shut == [state |-> "closed", age |-> 0]

HalfOpened == [state |-> "half-open", age |-> 0]

recorded == <<up, breaker, samples, seen>>

\* An answer ends the streak and takes the mark away, and later closes a circuit
\* that it finds half-open.
ClearStreak(c) ==
  /\ call[c].at = "appended" /\ call[c].outcome = "ok"
  /\ streak' = 0
  /\ limited' = FALSE
  /\ Moves(c, "easing")
  /\ UNCHANGED <<recorded, circuit>>

FindHalfOpen(c) ==
  /\ call[c].at = "easing"
  /\ call' = [call EXCEPT ![c] =
       IF circuit.state = "half-open" THEN [@ EXCEPT !.at = "closing"] ELSE Unasked]
  /\ UNCHANGED <<recorded, circuit, streak, limited>>

CloseCircuit(c) ==
  /\ call[c].at = "closing"
  /\ circuit' = Shut
  /\ call' = [call EXCEPT ![c] = Unasked]
  /\ UNCHANGED <<recorded, streak, limited>>

\* A refusal is marked, and no more.
Mark(c) ==
  /\ call[c].at = "appended" /\ call[c].outcome = "quota"
  /\ limited' = TRUE
  /\ call' = [call EXCEPT ![c] = Unasked]
  /\ UNCHANGED <<recorded, circuit, streak>>

\* A failure adds to the streak it reads, opens the circuit again if it finds it
\* half-open, leaves it if it finds it open, and weighs streak and window
\* otherwise.
ReadStreak(c) ==
  /\ call[c].at = "appended" /\ call[c].outcome = "failed"
  /\ call' = [call EXCEPT ![c].at = "counting", ![c].count = Counted(streak)]
  /\ UNCHANGED <<recorded, circuit, streak, limited>>

WriteStreak(c) ==
  /\ call[c].at = "counting"
  /\ streak' = call[c].count
  /\ call' = [call EXCEPT ![c].at = "judging", ![c].count = 0]
  /\ UNCHANGED <<recorded, circuit, limited>>

JudgeCircuit(c) ==
  /\ call[c].at = "judging"
  /\ Moves(c, IF circuit.state = "half-open" THEN "opening" ELSE "evaluating")
  /\ UNCHANGED <<recorded, circuit, streak, limited>>

FindOpen(c) ==
  /\ call[c].at = "evaluating"
  /\ call' = [call EXCEPT ![c] =
       IF circuit.state = "open" THEN Unasked ELSE [@ EXCEPT !.at = "weighing"]]
  /\ UNCHANGED <<recorded, circuit, streak, limited>>

Weigh(c) ==
  /\ call[c].at = "weighing"
  /\ call' = [call EXCEPT ![c] = IF Tripping THEN [@ EXCEPT !.at = "opening"] ELSE Unasked]
  /\ UNCHANGED <<recorded, circuit, streak, limited>>

OpenCircuit(c) ==
  /\ call[c].at = "opening"
  /\ circuit' = Open
  /\ call' = [call EXCEPT ![c] = Unasked]
  /\ UNCHANGED <<recorded, streak, limited>>

Conclude(c) ==
  \/ ClearStreak(c) \/ FindHalfOpen(c) \/ CloseCircuit(c)
  \/ Mark(c)
  \/ ReadStreak(c) \/ WriteStreak(c) \/ JudgeCircuit(c) \/ FindOpen(c)
  \/ Weigh(c) \/ OpenCircuit(c)

-----------------------------------------------------------------------------
(* The looks: the health pages and the daily job, which probes nobody, as  *)
(* every call of its pool ends in a TypeError (probe_all_providers).       *)

\* Nothing half-opens the circuit.
ShownStuck == circuit

\* get_circuit
Shown ==
  IF circuit.state = "open" /\ circuit.age >= OpenFor
  THEN HalfOpened
  ELSE circuit

\* More than one call in twenty failed.
Erring(calls) == 20 * Count(calls, {"failed", "quota"}) > Cardinality(calls)

AllErred(calls) == calls # {} /\ Count(calls, {"ok"}) = 0

\* _derive_state, of a data vendor.  Threshold is also MIN_CALLS.
State(shown) ==
  CASE samples = <<>>              -> "unknown"
    [] shown = "open"              -> IF limited THEN "degraded" ELSE "down"
    [] shown = "half-open"         -> "degraded"
    [] limited                     -> "degraded"
    [] Cardinality(Within(Recent)) >= Threshold /\ Erring(Within(Recent)) -> "degraded"
    [] /\ Within(Recent) = {}
       /\ Cardinality(Within(Hour)) >= Threshold /\ Erring(Within(Hour)) -> "degraded"
    [] AllErred(Within(Recent))    -> "degraded"
    [] OTHER                       -> "up"

Look(l) ==
  /\ l \notin looking
  /\ circuit # Shown
  /\ looking' = looking \cup {l}
  /\ UNCHANGED <<up, breaker, call, samples, circuit, streak, limited, spell>>

\* Whatever the circuit has become since.
HalfOpen(l) ==
  /\ l \in looking
  /\ circuit' = HalfOpened
  /\ looking' = looking \ {l}
  /\ UNCHANGED <<up, breaker, call, samples, streak, limited, spell>>

\* What GET /health answers: "ok" or "degraded".
PageOk == Shown.state = "closed" /\ State(Shown.state) \notin {"down", "degraded"}

\* What the daily job answers.
JobOk == Shown.state # "open" /\ State(Shown.state) # "down"

\* Whether the dashboard shows an alert of the vendor or a banner.
Alerting ==
  \/ Shown.state # "closed"
  \/ State(Shown.state) \in {"down", "degraded"}
  \/ limited
  \/ Cardinality(Within(Recent)) >= Threshold /\ Erring(Within(Recent))
  \/ Cardinality(Within(Hour)) >= Threshold /\ Erring(Within(Hour))
  \/ AllErred(Within(Recent))

-----------------------------------------------------------------------------

Mend ==
  /\ ~up
  /\ up' = TRUE
  /\ UNCHANGED <<breaker, call, samples, circuit, streak, limited, seen>>

HealthTick ==
  /\ breaker' = IF breaker.state = "open"
                THEN [breaker EXCEPT !.age = Older(@, OpenFor)] ELSE breaker
  /\ circuit' = IF circuit.state = "open"
                THEN [circuit EXCEPT !.age = Older(@, OpenFor)] ELSE circuit
  /\ samples' = [i \in DOMAIN samples |-> [samples[i] EXCEPT !.age = Older(@, Hour + 1)]]
  /\ UNCHANGED <<up, call, streak, limited, seen>>

Proceeds(c) == Ask(c) \/ FailFast(c) \/ Fetch(c) \/ Note(c) \/ Conclude(c)

HealthNext ==
  \/ \E c \in Callers : Proceeds(c) \/ Throttle(c) \/ Probe(c)
  \/ \E l \in Lookers : Look(l) \/ HalfOpen(l)
  \/ Mend \/ HealthTick

\* Calls end, quotes are asked for again (the ingest job asks every minute),
\* the health page is looked at (at least by the daily job), time passes.
HealthFairness ==
  /\ \A c \in Callers : WF_healthVars(Proceeds(c))
  /\ \A l \in Lookers : WF_healthVars(Look(l)) /\ WF_healthVars(HalfOpen(l))
  /\ WF_healthVars(HealthTick)

HealthSpec == HealthInit /\ [][HealthNext]_healthVars /\ HealthFairness

-----------------------------------------------------------------------------
(* Properties.                                                             *)

\* Once calls that were recorded side by side are over, some of them failures and
\* none of them an answer, enough failures in the window have opened the circuit,
\* although two threads may have counted the same one, looked at the circuit
\* before the other wrote it, or while a third half-opened it (record and
\* _window_failures of ProviderHealthTracker).
TripsInTime ==
  /\ Inside = {}
  /\ spell = "failing"
  /\ WindowFailures >= Threshold
  => circuit.state # "closed"

\* A vendor that answers again is used again, shown as up and fails no batch,
\* although refusals are noted as failures, a circuit half-opens only when looked
\* at and the mark of a used up quota does not expire (allow_request,
\* record_success, get_circuit, record and _derive_state).
ComesBack == up ~> [](breaker.state = "closed" /\ PageOk /\ JobOk /\ ~Alerting)
=============================================================================
