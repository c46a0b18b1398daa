------------------------------ MODULE AIRouter ------------------------------
(***************************************************************************)
(* Questions to the AI router (backend/ai/router.py) and the endpoints     *)
(* that ask them (backend/api/ai.py): an opinion at once, an opinion that  *)
(* is blended into a forecast, and a background job.  The daily quota is   *)
(* asked for the first and the last of them only.  One provider, so one    *)
(* circuit breaker; a cache key stands for evidence, profile and horizon.  *)
(*                                                                         *)
(* One event loop runs everything, so a step here is what happens between  *)
(* two awaits: the look into the caches and the choice between joining a   *)
(* call and leading one are one step, while a leader learns of its own     *)
(* call's end only some steps later.  A restart loses the process; the     *)
(* shared cache, the ledger and the documents of the jobs stay.  A write   *)
(* to the shared store may fail unseen; the process then has its own copy, *)
(* which nobody asks for while the store answers.                          *)
(*                                                                         *)
(* An opinion is what the properties tell apart: whether it is a stub and  *)
(* when it was made.  Token counts, the scoreboard and a client that hangs *)
(* up are left out.                                                        *)
(***************************************************************************)
EXTENDS Integers, Sequences, SequencesExt

CONSTANTS
  Requests,     \* the questions, of one user
  Keys,         \* cache keys
  NoOne,        \* no leader, no key
  Limit,        \* AI_DAILY_CALLS_PER_USER, 0 for no limit
  Attempts,     \* max_retries + 1
  Threshold,    \* failure_threshold of the breaker
  Reset,        \* its reset_timeout_s
  Ttl,          \* cache_ttl_s of the profile
  CacheSize,    \* entries the local cache holds
  MaxTime,      \* bound: the clock
  MaxRestarts   \* bound: restarts of the process

ASSUME RouterAssumption ==
  /\ NoOne \notin Requests
  /\ Limit \in Nat
  /\ {Attempts, Threshold, Reset, Ttl, CacheSize} \subseteq Nat \ {0}

VARIABLES
  now,         \* the monotonic clock
  configured,  \* the provider has a key
  breaker,     \* AICircuitBreaker: state, consecutive failures, opened_at
  local,       \* _cache, the least recently used first
  shared,      \* the distributed cache
  inflight,    \* _inflight: who leads the call for a key
  call,        \* the task a leader has started: attempts made, or "idle"
  req,         \* a question: where it stands and what it holds
  rows,        \* rows of the user in ai_token_ledger, of questions under the quota
  extra,       \* and those of opinions for a forecast
  doc,         \* the document of a background job in the shared store
  unsaved,     \* the jobs whose last document the store did not take
  streak,      \* the failures in a row the breaker heard of, and the last's time
  peak,        \* the most questions under the quota ever under way at once
  restarts

world == <<now, configured, restarts>>

caches == <<local, shared>>

ledger == <<rows, extra>>

docs == <<doc, unsaved>>

vars == <<world, breaker, caches, inflight, call, req, ledger, docs, streak, peak>>

-----------------------------------------------------------------------------

Nothing == [made |-> -1, stub |-> TRUE]

Idle == -1

\* An opinion at once, one that is blended into a forecast, a background job.
Kinds == {"insight", "forecast", "job"}

\* The questions that ask enforce_ai_quota first.
Gated == {"insight", "job"}

NewRequest ==
  [at |-> "idle", kind |-> "insight", key |-> NoOne, opinion |-> Nothing]

NoFailure == [long |-> 0, last |-> 0]

Closed == [state |-> "closed", failures |-> 0, opened |-> 0]

Init ==
  /\ now = 0
  /\ configured \in BOOLEAN
  /\ breaker = Closed
  /\ local = <<>>
  /\ shared = [k \in Keys |-> Nothing]
  /\ inflight = [k \in Keys |-> NoOne]
  /\ call = [r \in Requests |-> Idle]
  /\ req = [r \in Requests |-> NewRequest]
  /\ rows = 0
  /\ extra = 0
  /\ unsaved = {}
  /\ doc = [r \in Requests |-> "none"]
  /\ streak = NoFailure
  /\ peak = 0
  /\ restarts = 0

At(r, where) == req[r].at = where

UnderWay == {r \in Requests : req[r].at \notin {"idle", "over", "lost"}}

Metered == {r \in UnderWay : req[r].kind \in Gated}

\* _job_put: the store takes the document, or keeps the one it has.
Save(r, document) ==
  \/ doc' = [doc EXCEPT ![r] = document] /\ UNCHANGED unsaved
  \/ UNCHANGED doc /\ unsaved' = unsaved \cup {r}

\* A question that is over holds nothing any more.
Gone(how) == [NewRequest EXCEPT !.at = how]

\* The endpoint ends with a status, a job writes "done" or "error" in its document.
Ends(r) ==
  /\ req' = [req EXCEPT ![r] = Gone("over")]
  /\ IF req[r].kind = "job" THEN Save(r, "ended") ELSE UNCHANGED docs

-----------------------------------------------------------------------------
(* The endpoints, up to the router.                                        *)

\* A slip: the quota lets one more through.
OverQuotaLate == Limit > 0 /\ rows + extra > Limit

\* Every row of the user counts, whatever wrote it.
OverQuota == Limit > 0 /\ rows + extra >= Limit

\* enforce_ai_quota comes first, for a job when it is posted and not again: 429.
Refuse(r, kind) ==
  /\ At(r, "idle")
  /\ kind \in Gated
  /\ OverQuota
  /\ req' = [req EXCEPT ![r] = Gone("over")]
  /\ UNCHANGED <<world, breaker, caches, inflight, call, ledger, docs, streak, peak>>

\* An endpoint asks for the provider's key at once, a job when it starts.
Gate(kind) ==
  IF kind = "job" THEN "gate" ELSE IF configured THEN "evidence" ELSE "over"

\* An opinion for a forecast is let in whatever the quota says.  No key: 423.
Accept(r, kind, k) ==
  /\ At(r, "idle")
  /\ kind \in Gated => ~OverQuota
  /\ req' = [req EXCEPT ![r] =
               IF Gate(kind) = "over" THEN Gone("over")
               ELSE [NewRequest EXCEPT !.at = Gate(kind), !.kind = kind, !.key = k]]
  /\ doc' \in IF kind = "job" THEN {doc, [doc EXCEPT ![r] = "pending"]} ELSE {doc}
  /\ peak' = IF kind \in Gated /\ Cardinality(Metered) >= peak
             THEN Cardinality(Metered) + 1 ELSE peak
  /\ UNCHANGED <<world, breaker, caches, inflight, call, ledger, unsaved, streak>>

\* No key: 423, before any evidence is gathered.
NoKey(r) ==
  /\ At(r, "gate")
  /\ ~configured
  /\ Ends(r)
  /\ UNCHANGED <<world, breaker, caches, inflight, call, ledger, streak, peak>>

\* The gate is passed and the evidence is gathered in a thread.
Gather(r) ==
  /\ At(r, "gate")
  /\ configured
  /\ req' = [req EXCEPT ![r].at = "evidence"]
  /\ UNCHANGED <<world, breaker, caches, inflight, call, ledger, docs, streak, peak>>

\* No quote, no packet: 502.
NoEvidence(r) ==
  /\ At(r, "evidence")
  /\ Ends(r)
  /\ UNCHANGED <<world, breaker, caches, inflight, call, ledger, streak, peak>>

-----------------------------------------------------------------------------
(* The caches.                                                             *)

Entry(k) == {i \in DOMAIN local : local[i].key = k}

\* A slip: an entry lives a moment longer.
ExpiredLate(e) == e.expires + 1 < now

Expired(e) == e.expires < now

\* The local cache after a hit: the entry becomes the most recently used.
Used(i) == Append(RemoveAt(local, i), local[i])

Live(k) == {i \in Entry(k) : ~Expired(local[i])}

\* A hit, an entry whose time is up, or what the shared cache has, if it answers.
Lookups(k) ==
  IF Live(k) # {}
  THEN {[opinion |-> local[i].opinion, local |-> Used(i), shared |-> shared] : i \in Live(k)}
  ELSE IF Entry(k) # {}
  THEN {[opinion |-> Nothing, local |-> RemoveAt(local, i), shared |-> s]
          : i \in Entry(k), s \in {shared, [shared EXCEPT ![k] = Nothing]}}
  ELSE {[opinion |-> o, local |-> local, shared |-> shared]
          : o \in {shared[k], Nothing}}

\* The most recently used entries stay.
Trimmed(entries) ==
  IF Len(entries) <= CacheSize THEN entries
  ELSE SubSeq(entries, Len(entries) - CacheSize + 1, Len(entries))

\* _cache_put: a key that is there already keeps its place in the order.
Put(k, opinion) ==
  LET entry == [key |-> k, opinion |-> opinion, expires |-> now + Ttl]
  IN  /\ local' = IF Entry(k) = {}
                  THEN Trimmed(Append(local, entry))
                  ELSE [i \in DOMAIN local |->
                          IF local[i].key = k THEN entry ELSE local[i]]
      /\ shared' \in {shared, [shared EXCEPT ![k] = opinion]}

-----------------------------------------------------------------------------
(* get_insight.                                                            *)

Waiting(r) == At(r, "waits")

\* A call for the key is under way: its leader has not been answered.
Running(k) == inflight[k] # NoOne /\ Waiting(inflight[k])

\* A hit is answered at once, a miss joins the call under way or leads one.
LookUp(r) ==
  LET k == req[r].key
  IN  /\ At(r, "evidence")
      /\ \E look \in Lookups(k) :
           /\ local' = look.local
           /\ shared' = look.shared
           /\ IF look.opinion # Nothing
              THEN /\ req' = [req EXCEPT ![r].at = "told",
                                         ![r].opinion = look.opinion]
                   /\ UNCHANGED <<inflight, call>>
              ELSE /\ req' = [req EXCEPT ![r].at = "waits"]
                   /\ IF Running(k) THEN UNCHANGED <<inflight, call>>
                      ELSE /\ inflight' = [inflight EXCEPT ![k] = r]
                           /\ call' = [call EXCEPT ![r] = 0]
      /\ UNCHANGED <<world, breaker, ledger, docs, streak, peak>>

\* Who waits for the call that r leads: r and all who joined it.
Crowd(r) == {s \in Requests : Waiting(s) /\ req[s].key = req[r].key}

Answer(r, opinion) ==
  /\ req' = [s \in Requests |->
               IF s \in Crowd(r)
               THEN [req[s] EXCEPT !.at = "told", !.opinion = opinion]
               ELSE req[s]]
  /\ call' = [call EXCEPT ![r] = Idle]

\* A slip: whoever led the key last is forgotten.
Cleared(r) == [inflight EXCEPT ![req[r].key] = NoOne]

\* The leader takes its own entry out of the table, and no one else's.
Released(r) ==
  IF inflight[req[r].key] = r THEN [inflight EXCEPT ![req[r].key] = NoOne]
  ELSE inflight

-----------------------------------------------------------------------------
(* _fetch_with_resilience and the breaker.                                 *)

\* A slip: the rest ends a moment early.
MayCallEarly ==
  \/ breaker.state # "open"
  \/ now - breaker.opened + 1 >= Reset

\* allow_request.
MayCall ==
  \/ breaker.state # "open"
  \/ now - breaker.opened >= Reset

Succeeded == breaker' = Closed /\ streak' = NoFailure

Failed ==
  LET n == breaker.failures + 1
  IN  /\ breaker' = IF breaker.state = "half_open" \/ n >= Threshold
                    THEN [state |-> "open", failures |-> n, opened |-> now]
                    ELSE [breaker EXCEPT !.failures = n]
      /\ streak' = [long |-> IF streak.long < Threshold THEN streak.long + 1 ELSE Threshold,
                    last |-> now]

\* The circuit is open: a stub, which is kept like an opinion.
ShortCircuit(r) ==
  /\ call[r] = 0
  /\ ~MayCall
  /\ LET stub == [made |-> now, stub |-> TRUE]
     IN  Answer(r, stub) /\ Put(req[r].key, stub)
  /\ UNCHANGED <<world, breaker, inflight, ledger, docs, streak, peak>>

\* The first attempt; the circuit is asked only now, not before a retry.  The
\* key is read when an attempt begins.
Dial(r) ==
  /\ call[r] = 0
  /\ MayCall
  /\ configured
  /\ breaker' = IF breaker.state = "open"
                THEN [breaker EXCEPT !.state = "half_open"] ELSE breaker
  /\ call' = [call EXCEPT ![r] = 1]
  /\ UNCHANGED <<world, caches, inflight, req, ledger, docs, streak, peak>>

\* A time-out, an error, or a stub for a failure that may pass: once more, after
\* a pause.
Redial(r) ==
  /\ call[r] \in 1..Attempts - 1
  /\ configured
  /\ call' = [call EXCEPT ![r] = @ + 1]
  /\ UNCHANGED <<world, breaker, caches, inflight, req, ledger, docs, streak, peak>>

\* The last attempt failed that way.
GiveUp(r) ==
  /\ call[r] = Attempts
  /\ LET stub == [made |-> now, stub |-> TRUE]
     IN  Answer(r, stub) /\ Put(req[r].key, stub)
  /\ Failed
  /\ UNCHANGED <<world, inflight, ledger, docs, peak>>

\* The call ends in what the circuit counts as a success.
Conclude(r, opinion) ==
  /\ Answer(r, opinion)
  /\ Put(req[r].key, opinion)
  /\ Succeeded
  /\ UNCHANGED <<world, inflight, ledger, docs, peak>>

\* An opinion, or a stub that says that the answer was not valid.
Opine(r, stub) ==
  /\ call[r] >= 1
  /\ Conclude(r, [made |-> now, stub |-> stub])

\* An attempt finds no key when it begins: a stub that says so.
Unkeyed(r) ==
  /\ call[r] \in 0..Attempts - 1
  /\ call[r] = 0 => MayCall
  /\ ~configured
  /\ Conclude(r, [made |-> now, stub |-> TRUE])

\* A slip: the error reaches no one but the leader.
BreakQuietly(r) ==
  /\ call[r] >= 1
  /\ call' = [call EXCEPT ![r] = Idle]
  /\ req' = [req EXCEPT ![r].at = "told"]
  /\ UNCHANGED <<world, breaker, caches, inflight, ledger, docs, streak, peak>>

\* A broken contract is raised to everyone who waits: nothing is kept, and the
\* breaker does not hear of it.
Break(r) ==
  /\ call[r] >= 1
  /\ Answer(r, Nothing)
  /\ UNCHANGED <<world, breaker, caches, inflight, ledger, docs, streak, peak>>

-----------------------------------------------------------------------------
(* The endpoints, from the router on.                                      *)

IsStub(r) == req[r].opinion.stub

\* The error of a broken contract: 422 or 502.
Raise(r) ==
  /\ At(r, "told")
  /\ req[r].opinion = Nothing
  /\ inflight' = Released(r)
  /\ Ends(r)
  /\ UNCHANGED <<world, breaker, caches, call, ledger, streak, peak>>

\* A stub never reaches the client, and leaves no row: 502.
RefuseStub(r) ==
  /\ At(r, "told")
  /\ req[r].opinion # Nothing
  /\ IsStub(r)
  /\ inflight' = Released(r)
  /\ Ends(r)
  /\ UNCHANGED <<world, breaker, caches, call, ledger, streak, peak>>

\* The forecast cannot be blended: the opinion is lost, and leaves no row.
Unblended(r) ==
  /\ At(r, "told")
  /\ req[r].opinion # Nothing
  /\ req[r].kind = "forecast"
  /\ ~IsStub(r)
  /\ inflight' = Released(r)
  /\ Ends(r)
  /\ UNCHANGED <<world, breaker, caches, call, ledger, streak, peak>>

\* An opinion is recorded, if the database lets it, and passed on.
Serve(r) ==
  /\ At(r, "told")
  /\ req[r].opinion # Nothing
  /\ ~IsStub(r)
  /\ inflight' = Released(r)
  /\ \/ UNCHANGED ledger
     \/ req[r].kind \in Gated /\ rows' = rows + 1 /\ UNCHANGED extra
     \/ req[r].kind \notin Gated /\ extra' = extra + 1 /\ UNCHANGED rows
  /\ Ends(r)
  /\ UNCHANGED <<world, breaker, caches, call, streak, peak>>

-----------------------------------------------------------------------------
(* The world.                                                              *)

\* Redis drops an entry whose time is up.
Lapsed(k, t) == shared[k] # Nothing /\ shared[k].made + Ttl <= t

Tick ==
  /\ now < MaxTime
  /\ now' = now + 1
  /\ shared' = [k \in Keys |-> IF Lapsed(k, now + 1) THEN Nothing ELSE shared[k]]
  /\ UNCHANGED <<configured, restarts, breaker, local, inflight, call, req, ledger,
                 docs, streak, peak>>

\* The key is saved or removed in the settings.
ChangeKey ==
  /\ configured' = ~configured
  /\ UNCHANGED <<now, restarts, breaker, caches, inflight, call, req, ledger, docs,
                 streak, peak>>

Restart ==
  /\ restarts < MaxRestarts
  /\ restarts' = restarts + 1
  /\ breaker' = Closed
  /\ local' = <<>>
  /\ inflight' = [k \in Keys |-> NoOne]
  /\ call' = [r \in Requests |-> Idle]
  /\ req' = [r \in Requests |->
               IF r \in UnderWay THEN Gone("lost") ELSE req[r]]
  /\ streak' = NoFailure
  /\ UNCHANGED <<now, configured, shared, ledger, docs, peak>>

-----------------------------------------------------------------------------

Ask(r) ==
  \/ \E kind \in Kinds : Refuse(r, kind) \/ \E k \in Keys : Accept(r, kind, k)

Proceed(r) ==
  \/ NoKey(r) \/ Gather(r) \/ NoEvidence(r) \/ LookUp(r)
  \/ Raise(r) \/ RefuseStub(r) \/ Unblended(r) \/ Serve(r)

Work(r) ==
  \/ ShortCircuit(r) \/ Dial(r) \/ Redial(r) \/ GiveUp(r) \/ Break(r)
  \/ Unkeyed(r) \/ \E stub \in BOOLEAN : Opine(r, stub)

Next ==
  \/ \E r \in Requests : Ask(r) \/ Proceed(r) \/ Work(r)
  \/ Tick \/ ChangeKey \/ Restart

Spec == Init /\ [][Next]_vars

-----------------------------------------------------------------------------
(* Properties.                                                             *)

\* Identical questions share one call: no two calls for a key run at once, also
\* when a leader learns late that its call is over and another call for the key
\* has been started meanwhile (router.py:599).
SingleFlight ==
  \A r, s \in Requests :
    call[r] # Idle /\ call[s] # Idle /\ req[r].key = req[s].key => r = s

\* Nobody waits for a call that nobody makes (router.py:593).
WaitersHaveACall ==
  \A r \in Requests :
    Waiting(r) => \E s \in Requests : call[s] # Idle /\ req[s].key = req[r].key

\* The last calls the breaker heard of have all failed.
Tripped == streak.long >= Threshold

\* When the last calls have all failed, nobody is called before the provider has
\* had its rest since the last failure (router.py:155).
ProviderRests ==
  [][\A r \in Requests :
       call[r] = 0 /\ call'[r] = 1 => ~Tripped \/ now - streak.last >= Reset]_vars

\* What a question finds kept was made at most the life of a cache entry before,
\* whichever layer kept it; so a provider's failure is held against
\* it no longer than that (router.py:467).
NothingStale ==
  [][\A r \in Requests :
       At(r, "evidence") /\ req'[r].at = "told" =>
         req'[r].opinion.made + Ttl >= now]_vars

\* The quota is asked before a call and a row is written after it: the questions
\* that ask it may overrun it, but only by those that were under way at once, and
\* those of other kinds only take from what is left (quota.py:51).
QuotaOverrun == Limit > 0 /\ rows > 0 => rows <= Limit + peak - 1

\* A job is pending only while it is at work, or since a restart has lost it, or
\* the store has not taken its end (api/ai.py:748).
PendingIsAtWork ==
  \A r \in Requests :
    doc[r] = "pending" => r \in UnderWay \/ At(r, "lost") \/ r \in unsaved

\* Who waits for a call waits for one that is at work; and so does who waits for a
\* job, unless the process or a write of its document was lost.
NobodyWaitsInVain == WaitersHaveACall /\ PendingIsAtWork
=============================================================================
