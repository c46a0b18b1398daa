----------------------------- MODULE ForecastLog -----------------------------
(***************************************************************************)
(* What becomes of a forecast once it is served: it is logged in the       *)
(* background (backend/forecasting/persist.py), scored when it is due      *)
(* (backend/forecasting/accuracy.py) and purged with its score             *)
(* (backend/observability/retention.py).                                   *)
(*                                                                         *)
(* One symbol whose every day is a session.  The clock counts half days:   *)
(* an even time is the morning of day Day(time), when the jobs run, an odd *)
(* one the evening, when the day's bar exists.  Of a bar only its day      *)
(* matters, and of a score the days of the two bars it compares.           *)
(***************************************************************************)
EXTENDS Integers, FiniteSetsExt

CONSTANTS
  Servings,    \* background tasks that log a forecast
  Scorers,     \* runs of the score job that may be under way
  Horizons,    \* FORECAST_HORIZONS, in sessions
  BatchLimit,  \* limit of score_due_forecasts
  LookBack,    \* the newest bars a scorer reads
  KeepLog,     \* the window of the forecasts rule, in half days
  KeepScores,  \* the window of the forecast_accuracy rule
  LastTime     \* bound on the clock

ASSUME LogAssumption ==
  /\ {BatchLimit, LookBack, KeepLog, KeepScores, LastTime} \subseteq Nat \ {0}
  /\ Horizons \subseteq Nat \ {0}

VARIABLES
  time,       \* the clock
  lastBar,    \* bars are stored for the days 1 to lastBar
  tasks,      \* what each background task does, and the forecast it carries
  listed,     \* the row of the instrument: absent, stored, or the task about to commit it
  log,        \* table forecasts
  scores,     \* table forecast_accuracy
  scorers,    \* what each scorer does
  graded      \* every forecast that was ever scored

logVars == <<time, lastBar, tasks, listed, log, scores, scorers, graded>>

-----------------------------------------------------------------------------

Day(t) == t \div 2

\* The last day whose session is over.
LastClosed == (time - 1) \div 2

NoRun == [asOf |-> 0, horizon |-> 0]

\* _target_date: the session horizon sessions after the last bar
Target(run) == run.asOf + run.horizon

NoForecast == [run |-> NoRun, created |-> 0]

Resting == [at |-> "idle", moment |-> 0, batch |-> {}, row |-> NoForecast]

LogInit ==
  /\ time = 4
  /\ lastBar = 1
  /\ tasks = [s \in Servings |-> [at |-> "idle", run |-> NoRun]]
  /\ listed = "absent"
  /\ log = {}
  /\ scores = {}
  /\ scorers = [s \in Scorers |-> Resting]
  /\ graded = {}

\* The ingest job stores the bars of sessions that are over, some of them late.
StoreBars ==
  /\ \E day \in lastBar + 1..LastClosed : lastBar' = day
  /\ UNCHANGED <<time, tasks, listed, log, scores, scorers, graded>>

-----------------------------------------------------------------------------
(* persist_forecast_record, in a session of its own.                       *)

TaskGoes(s, at) ==
  tasks' = [tasks EXCEPT ![s] = [at |-> at, run |-> IF at \in {"done", "idle"} THEN NoRun ELSE tasks[s].run]]

Logged(run) == \E row \in log : row.run = run

\* The end of a session that was not committed.
RolledBack(s) == IF listed = s THEN "absent" ELSE listed

\* A forecast of the bars so far goes out, and a task of its own will log it.
ServeForecast(s) ==
  /\ tasks[s].at \in {"idle", "done"}
  /\ \E h \in Horizons :
       tasks' = [tasks EXCEPT ![s] = [at |-> "served", run |-> [asOf |-> lastBar, horizon |-> h]]]
  /\ UNCHANGED <<time, lastBar, listed, log, scores, scorers, graded>>

\* The symbol does not resolve, a field is missing, or the process ends.
DropForecast(s) ==
  /\ tasks[s].at \in {"served", "located", "new"}
  /\ TaskGoes(s, "idle")
  /\ listed' = RolledBack(s)
  /\ UNCHANGED <<time, lastBar, log, scores, scorers, graded>>

\* Find or insert the instrument.  An insert waits for another that is not
\* committed, and then finds the other's row or inserts its own.
Locate(s) ==
  /\ tasks[s].at = "served"
  /\ listed \notin Servings
  /\ TaskGoes(s, "located")
  /\ listed' = IF listed = "absent" THEN s ELSE listed
  /\ UNCHANGED <<time, lastBar, log, scores, scorers, graded>>

LookForRun(s) ==
  /\ tasks[s].at = "located"
  /\ TaskGoes(s, IF Logged(tasks[s].run) THEN "done" ELSE "new")
  /\ listed' = IF Logged(tasks[s].run) THEN RolledBack(s) ELSE listed
  /\ UNCHANGED <<time, lastBar, log, scores, scorers, graded>>

LogRow(s) ==
  /\ tasks[s].at = "new"
  /\ log' = log \cup {[run |-> tasks[s].run, created |-> time]}
  /\ listed' = "stored"
  /\ TaskGoes(s, "done")
  /\ UNCHANGED <<time, lastBar, scores, scorers, graded>>

\* The insert runs into uq_forecast_run: rolled back and ignored.
MeetDuplicate(s) ==
  /\ tasks[s].at = "new"
  /\ Logged(tasks[s].run)
  /\ TaskGoes(s, "done")
  /\ listed' = RolledBack(s)
  /\ UNCHANGED <<time, lastBar, log, scores, scorers, graded>>

InsertRun(s) == ~Logged(tasks[s].run) /\ LogRow(s)

-----------------------------------------------------------------------------
(* score_due_forecasts.                                                    *)

ScorerGoes(s, at, batch, row) ==
  scorers' = [scorers EXCEPT ![s] = [at |-> at, moment |-> @.moment, batch |-> batch, row |-> row]]

\* The batch is the oldest rows, whether or not they are scored or due.
LoadBatch(s) ==
  /\ scorers[s].at = "idle"
  /\ \E batch \in SUBSET log :
       /\ Cardinality(batch) = Min({Cardinality(log), BatchLimit})
       /\ \A taken \in batch, left \in log \ batch : taken.created <= left.created
       /\ scorers' = [scorers EXCEPT ![s] =
            [at |-> "goes", moment |-> time, batch |-> batch, row |-> NoForecast]]
  /\ UNCHANGED <<time, lastBar, tasks, listed, log, scores, graded>>

\* The last stored bar at or before a day, among the newest LookBack; 0 is none.
BarAt(day) == Max({0} \cup {d \in lastBar - LookBack + 1..lastBar : d <= day})

Scored(row) == \E score \in scores : score.row = row

\* The last bar that was closed when the forecast was made.
BaseBar(row) == BarAt(Day(row.created))

Due(s, row) == Target(row.run) <= Day(scorers[s].moment)

Scorable(s, row) ==
  /\ Due(s, row)
  /\ ~Scored(row)
  /\ BaseBar(row) > 0 /\ BarAt(Target(row.run)) > 0

\* The oldest row that is left is passed over, or its score is worked out.
Consider(s) ==
  /\ scorers[s].at = "goes"
  /\ \E row \in scorers[s].batch :
       /\ \A other \in scorers[s].batch : row.created <= other.created
       /\ IF Scorable(s, row) THEN ScorerGoes(s, "writes", scorers[s].batch \ {row}, row)
                              ELSE ScorerGoes(s, "goes", scorers[s].batch \ {row}, NoForecast)
  /\ UNCHANGED <<time, lastBar, tasks, listed, log, scores, graded>>

\* Looking for the score fails, and with it every later statement of the
\* transaction: none of the rows that are left is scored.
FailCheck(s) ==
  /\ scorers[s].at = "goes" /\ scorers[s].batch # {}
  /\ ScorerGoes(s, "goes", {}, NoForecast)
  /\ UNCHANGED <<time, lastBar, tasks, listed, log, scores, graded>>

\* The score is dated with the beginning of the batch.
WriteScore(s) ==
  /\ scorers[s].at = "writes"
  /\ LET row == scorers[s].row IN
       /\ scores' = scores \cup
            {[row |-> row, base |-> BaseBar(row), target |-> BarAt(Target(row.run)), at |-> scorers[s].moment]}
       /\ graded' = graded \cup {row}
  /\ ScorerGoes(s, "goes", scorers[s].batch, NoForecast)
  /\ UNCHANGED <<time, lastBar, tasks, listed, log>>

\* The commit fails: the row stays unscored until the next batch.
FailScore(s) ==
  /\ scorers[s].at = "writes"
  /\ ScorerGoes(s, "goes", scorers[s].batch, NoForecast)
  /\ UNCHANGED <<time, lastBar, tasks, listed, log, scores, graded>>

EndBatch(s) ==
  /\ scorers[s].at = "goes" /\ scorers[s].batch = {}
  /\ scorers' = [scorers EXCEPT ![s] = Resting]
  /\ UNCHANGED <<time, lastBar, tasks, listed, log, scores, graded>>

-----------------------------------------------------------------------------
(* purge, and time.                                                        *)

\* A slip: a score goes with the day it is about.
KeptByTarget(score) == 2 * Target(score.row.run) >= time - KeepScores

Kept(score) == score.at >= time - KeepScores

\* One transaction.  The crontab has it hours from the score job.
PurgeLog ==
  /\ \A s \in Scorers : scorers[s].at = "idle"
  /\ log' = {row \in log : row.created >= time - KeepLog}
  /\ scores' = {score \in scores : Kept(score)}
  /\ UNCHANGED <<time, lastBar, tasks, listed, scorers, graded>>

PassHalfDay ==
  /\ time < LastTime
  /\ time' = time + 1
  /\ UNCHANGED <<lastBar, tasks, listed, log, scores, scorers, graded>>

LogNext ==
  \/ \E s \in Servings :
       \/ ServeForecast(s) \/ DropForecast(s) \/ Locate(s)
       \/ LookForRun(s) \/ MeetDuplicate(s) \/ InsertRun(s)
  \/ \E s \in Scorers :
       LoadBatch(s) \/ Consider(s) \/ FailCheck(s) \/ WriteScore(s) \/ FailScore(s) \/ EndBatch(s)
  \/ StoreBars \/ PurgeLog \/ PassHalfDay

LogSpec == LogInit /\ [][LogNext]_logVars

-----------------------------------------------------------------------------
(* Properties.                                                             *)

\* A run is scored once as long as it is in the log: tasks that race log it in one
\* row (the check at persist.py:160 is made before the other's insert), and the
\* score of a row is never purged before the row (retention.py:33, "forecasts purge
\* first, so rescore-after-purge is impossible").
ScoredOnce ==
  [][\A s \in Scorers : WriteScore(s) =>
       \A row \in graded : row.run = scorers[s].row.run =>
         row # scorers[s].row /\ row \notin log]_logVars

\* A score is made of the session it is about (accuracy.py:3, "computed only
\* once its horizon is observable").
HorizonObserved ==
  \A score \in scores : score.target = Target(score.row.run)
=============================================================================
