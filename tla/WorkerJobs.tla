----------------------------- MODULE WorkerJobs -----------------------------
(***************************************************************************)
(* The jobs of backend/workers/jobs.py as the command line runs them: one  *)
(* by name (enqueue), or all of them for a symbol (run_once).  A job by    *)
(* name is pushed to a Redis queue where one is set up; if the push raises *)
(* an error the job runs in the process, although the entry may be in the  *)
(* queue, where only the reply was lost.                                   *)
(*                                                                         *)
(* Neither way hands a job a database session.  A job never raises: what   *)
(* goes wrong inside ends up in its report.                                *)
(***************************************************************************)
EXTENDS Integers, Sequences, SequencesExt

CONSTANTS
  Shells,      \* processes started from the command line
  Consumer,    \* the queue's worker process
  HorizonDays, \* the horizons of a forecast
  JobMaxDay    \* bound: trading days

ASSUME JobsAssumption == Consumer \notin Shells /\ JobMaxDay \in Nat

VARIABLES
  jobDay,   \* trading days that have ended
  newest,   \* the last of them whose bar the database holds
  waiting,  \* the queue: the shells whose request is in it
  unheard,  \* shells that did not hear that their push had been taken
  order,    \* the job that a shell was started for, or all
  hand,     \* what a process does
  ran       \* how often what a shell asked for has been run

jobVars == <<jobDay, newest, waiting, unheard, order, hand, ran>>

-----------------------------------------------------------------------------

Hands == Shells \cup {Consumer}

\* The order of run_once, and the names of JOB_REGISTRY.
OncePlan ==
  <<"ingest_bars", "refresh_forecast", "capture_snapshot", "generate_report",
    "evaluate_alerts", "score_forecasts">>

JobNames == ToSet(OncePlan)

\* for: whose request it is; left: the jobs to run; fetched: the last day of the
\* bars that ingest_bars has got; news: what the jobs so far have reported.
Off(shell) ==
  [at |-> "idle", for |-> shell, left |-> <<>>, fetched |-> 0,
   news |-> [job \in {} |-> TRUE]]

JobsInit ==
  /\ jobDay = 1 /\ newest = 0
  /\ waiting = <<>> /\ unheard = {}
  /\ order = [c \in Shells |-> "all"]
  /\ hand = [h \in Hands |-> Off(h)]
  /\ ran = [c \in Shells |-> 0]

Doing(h, where) == hand[h].at = where

Job(h) == Head(hand[h].left)

Becomes(h, state) == hand' = [hand EXCEPT ![h] = state]

Runs(shell, plan) == [Off(shell) EXCEPT !.at = "runs", !.left = plan]

\* What is left to do when a job has reported.
LeftAfter(h, ok) == Tail(hand[h].left)

\* _log_result.
Report(h, ok) ==
  Becomes(h, [hand[h] EXCEPT
    !.at = IF LeftAfter(h, ok) = <<>> THEN "ended" ELSE "runs",
    !.left = LeftAfter(h, ok),
    !.news = [job \in DOMAIN @ \cup {Job(h)} |-> IF job = Job(h) THEN ok ELSE @[job]]])

Working(h, job) == Doing(h, "runs") /\ Job(h) = job

-----------------------------------------------------------------------------
(* main, enqueue and run_once.                                             *)

\* --once.
Once(c) ==
  /\ Doing(c, "idle") /\ ran[c] = 0
  /\ Becomes(c, Runs(c, OncePlan))
  /\ ran' = [ran EXCEPT ![c] = 1]
  /\ UNCHANGED <<jobDay, newest, waiting, unheard, order>>

\* --job.
AskFor(c, job) ==
  /\ Doing(c, "idle") /\ ran[c] = 0 /\ order[c] = "all"
  /\ order' = [order EXCEPT ![c] = job]
  /\ Becomes(c, [hand[c] EXCEPT !.at = "enqueues"])
  /\ UNCHANGED <<jobDay, newest, waiting, unheard, ran>>

\* A slip: the job runs in the process too.
PushedAndRun(c) == Runs(c, <<order[c]>>)

\* The push is taken: the process prints the entry's id and ends.
AfterPush(c) == [hand[c] EXCEPT !.at = "ended"]

CountRun(c, state) ==
  ran' = [ran EXCEPT ![c] = IF state.at = "runs" THEN @ + 1 ELSE @]

Push(c) ==
  /\ Doing(c, "enqueues")
  /\ waiting' = Append(waiting, c)
  /\ Becomes(c, AfterPush(c)) /\ CountRun(c, AfterPush(c))
  /\ UNCHANGED <<jobDay, newest, unheard, order>>

\* No queue is set up, or it cannot be reached; or the entry is in it, and only
\* the reply did not come through.
RunHere(c) ==
  /\ Doing(c, "enqueues")
  /\ \/ UNCHANGED <<waiting, unheard>>
     \/ waiting' = Append(waiting, c) /\ unheard' = unheard \cup {c}
  /\ Becomes(c, Runs(c, <<order[c]>>)) /\ CountRun(c, hand'[c])
  /\ UNCHANGED <<jobDay, newest, order>>

\* The consumer takes up the next entry.
Consume ==
  /\ waiting # <<>> /\ hand[Consumer].at \in {"idle", "ended"}
  /\ waiting' = Tail(waiting)
  /\ Becomes(Consumer, Runs(Head(waiting), <<order[Head(waiting)]>>))
  /\ ran' = [ran EXCEPT ![Head(waiting)] = @ + 1]
  /\ UNCHANGED <<jobDay, newest, unheard, order>>

-----------------------------------------------------------------------------
(* The jobs.                                                               *)

Alone == UNCHANGED <<jobDay, newest, waiting, unheard, order, ran>>

\* ingest_bars: a vendor has the days so far, or is one behind.
FetchBars(h) ==
  /\ Working(h, "ingest_bars")
  /\ \E day \in {jobDay - 1, jobDay} \ {0} :
       Becomes(h, [hand[h] EXCEPT !.at = "stores", !.fetched = day])
  /\ Alone

NoBars(h) ==
  /\ Working(h, "ingest_bars")
  /\ Report(h, FALSE)
  /\ Alone

\* The bars are merged into those that are there.
StoreBars(h) ==
  /\ Doing(h, "stores")
  /\ newest' = IF hand[h].fetched > newest THEN hand[h].fetched ELSE newest
  /\ Report(h, TRUE)
  /\ UNCHANGED <<jobDay, waiting, unheard, order, ran>>

\* A row that another process inserts at the same time.
StoreFails(h) ==
  /\ Doing(h, "stores")
  /\ Report(h, FALSE)
  /\ Alone

\* refresh_forecast: each horizon may fail for itself.
RefreshForecasts(h) ==
  /\ Working(h, "refresh_forecast")
  /\ \E done \in SUBSET HorizonDays : Report(h, done = HorizonDays)
  /\ Alone

\* capture_snapshot: without a session it is kept in the process.
Capture(h) ==
  /\ Working(h, "capture_snapshot")
  /\ \E found \in BOOLEAN : Report(h, found)
  /\ Alone

\* generate_report: not wired; evaluate_alerts: the rules are in the database.
Decline(h) ==
  /\ Working(h, "generate_report") \/ Working(h, "evaluate_alerts")
  /\ Report(h, FALSE)
  /\ Alone

\* score_forecasts: without a session nothing is due.
ScoreNothing(h) ==
  /\ Working(h, "score_forecasts")
  /\ Report(h, TRUE)
  /\ Alone

-----------------------------------------------------------------------------

DayEnds ==
  /\ jobDay < JobMaxDay
  /\ jobDay' = jobDay + 1
  /\ UNCHANGED <<newest, waiting, unheard, order, hand, ran>>

JobsNext ==
  \/ Consume \/ DayEnds
  \/ \E c \in Shells :
       Once(c) \/ Push(c) \/ RunHere(c) \/ \E job \in JobNames : AskFor(c, job)
  \/ \E h \in Hands :
       \/ FetchBars(h) \/ NoBars(h) \/ StoreBars(h) \/ StoreFails(h)
       \/ RefreshForecasts(h) \/ Capture(h) \/ Decline(h) \/ ScoreNothing(h)

JobsSpec == JobsInit /\ [][JobsNext]_jobVars

-----------------------------------------------------------------------------
(* Properties.                                                             *)

\* What a shell asks for is run once, here or by the consumer of the queue, and
\* twice only where the reply to its push was lost (jobs.py:538).
AskedRunsOnce ==
  \A c \in Shells : ran[c] <= IF c \in unheard THEN 2 ELSE 1

\* A run of all jobs gets to the last of them whatever has failed before, and
\* bars that are reported as ingested are in the database, whoever else writes
\* (jobs.py:558).
NoJobIsSkipped ==
  \A h \in Hands :
    /\ Doing(h, "ended") /\ hand[h].news # Off(h).news
         => DOMAIN hand[h].news =
              IF order[hand[h].for] = "all" THEN JobNames ELSE {order[hand[h].for]}
    /\ \A job \in DOMAIN hand[h].news \cap {"ingest_bars"} :
         hand[h].news[job] => newest >= hand[h].fetched /\ newest > 0

\* What is asked for is run, once and to its end.
JobsAreRun == AskedRunsOnce /\ NoJobIsSkipped
=============================================================================
