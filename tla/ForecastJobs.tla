---------------------------- MODULE ForecastJobs ----------------------------
(***************************************************************************)
(* The predict and train jobs of forecast engine v4: the lock file and the *)
(* child processes (backend/forecasting/v4/jobs.py), what they write       *)
(* (backend/forecasting/v4/store.py, scripts/train_models.py) and the      *)
(* endpoints that start them (backend/api/cron.py).                        *)
(*                                                                         *)
(* A job runs as a child process under a lock file, or inside the API when *)
(* a POST asks to wait, without it.  Time appears as the age of the lock   *)
(* files and of the runs.  Model versions are numbered in the order of     *)
(* their creation, 0 being the bundle shipped with the code.  The score    *)
(* rows are written in one transaction and stand for one row here: its     *)
(* model_version column and all the others.                                *)
(***************************************************************************)
EXTENDS Integers, FiniteSets

CONSTANTS
  Requests,      \* handlers that can be starting a job at the same time
  Runs,          \* slots for runs in progress
  Started,       \* the jobs that are asked for
  Waits,         \* whether a POST may ask to wait
  StalePredict,  \* age at which a lock file no longer counts (30 minutes)
  StaleTrain,    \* the same for train (3 hours)
  LimitPredict,  \* bound: the age at which a predict run has ended
  LimitTrain,    \* bound: the age at which a train run has ended
  MaxVersions,   \* bound: models trained
  MaxFaults      \* bound: failures of the database, a download, a process

Jobs == {"predict", "train"}

ASSUME JobsAssumption == Started \subseteq Jobs /\ Waits \in BOOLEAN

ASSUME TimesAssumption ==
  /\ StalePredict \in Nat \ {0}
  /\ StaleTrain \in Nat \ {0}
  /\ LimitPredict \in Nat
  /\ LimitTrain \in Nat

ASSUME BoundsAssumption == MaxVersions \in Nat /\ MaxFaults \in Nat

VARIABLES
  lock,    \* the age of each job's lock file, up to the point where it is stale
  asking,  \* the job a handler found not to be running
  stage,   \* where each run is
  task,    \* the job of each run
  waited,  \* whether the run is inside the API
  age,     \* how long each run has been going on
  bundle,  \* the model version a run works with
  basis,   \* the model_version a run has loaded with the score row
  made,    \* models trained so far
  active,  \* the versions marked active
  cached,  \* the version the API holds, if any
  section, \* the version of the day's cross-section
  label,   \* the score row's model_version column
  values,  \* the version that computed the score row's other columns
  tangled,    \* auxiliary: jobs whose lock failed while a child of theirs ran
  overtaken,  \* auxiliary: runs writing a row another wrote since they read it
  torn,       \* auxiliary: whether the last write was such a run's
  faults   \* failures so far

locks == <<lock, asking>>
runs == <<stage, task, waited, age, bundle, basis>>
models == <<made, active, cached>>
scoreRow == <<section, label, values>>
ghosts == <<overtaken, torn>>

vars == <<locks, runs, models, scoreRow, tangled, ghosts, faults>>

-----------------------------------------------------------------------------

NoLock == -1
NoRow == -1
NoBundle == -1
Nothing == "nothing"

Stale(job) == IF job = "predict" THEN StalePredict ELSE StaleTrain
Limit(job) == IF job = "predict" THEN LimitPredict ELSE LimitTrain

Versions == 0..MaxVersions

\* A slip: a lock file counts whatever its age.
LockExists(job) == lock[job] # NoLock

\* is_running.
IsRunning(job) == lock[job] # NoLock /\ lock[job] < Stale(job)

InProgress(r) == stage[r] # "off"

Child(r) == InProgress(r) /\ ~waited[r]

\* What _load_active_from_db returns, else the bundle shipped with the code.
Newest == IF active = {} THEN 0 ELSE CHOOSE v \in active : \A u \in active : u <= v

Init ==
  /\ lock = [job \in Jobs |-> NoLock]
  /\ asking = [q \in Requests |-> Nothing]
  /\ stage = [r \in Runs |-> "off"]
  /\ task = [r \in Runs |-> "predict"]
  /\ waited = [r \in Runs |-> FALSE]
  /\ age = [r \in Runs |-> 0]
  /\ bundle = [r \in Runs |-> 0]
  /\ basis = [r \in Runs |-> NoRow]
  /\ made = 0
  /\ active = {}
  /\ cached = NoBundle
  /\ section = NoRow
  /\ label = NoRow
  /\ values = NoRow
  /\ tangled = {}
  /\ overtaken = {}
  /\ torn = FALSE
  /\ faults = 0

Fault == faults < MaxFaults /\ faults' = faults + 1

-----------------------------------------------------------------------------
(* Starting a job.                                                         *)

Begin(r, job, inside) ==
  /\ ~InProgress(r)
  /\ stage' = [stage EXCEPT ![r] = "begun"]
  /\ task' = [task EXCEPT ![r] = job]
  /\ waited' = [waited EXCEPT ![r] = inside]
  /\ age' = [age EXCEPT ![r] = 0]
  /\ bundle' = [bundle EXCEPT ![r] = 0]
  /\ basis' = [basis EXCEPT ![r] = NoRow]

\* The first half of spawn.  A job that is running is refused, which changes
\* nothing.
Ask(q, job) ==
  /\ asking[q] = Nothing
  /\ job \in Started
  /\ ~IsRunning(job)
  /\ asking' = [asking EXCEPT ![q] = job]
  /\ UNCHANGED <<lock, runs, models, scoreRow, tangled, ghosts, faults>>

\* The second half writes the lock file and starts the child.  Whoever else
\* found no lock before will start a child of the same job.
Spawn(q, r) ==
  /\ asking[q] # Nothing
  /\ Begin(r, asking[q], FALSE)
  /\ lock' = [lock EXCEPT ![asking[q]] = 0]
  /\ asking' = [asking EXCEPT ![q] = Nothing]
  /\ tangled' = IF \E other \in Requests \ {q} : asking[other] = asking[q]
                THEN tangled \cup {asking[q]} ELSE tangled
  /\ UNCHANGED <<models, scoreRow, ghosts, faults>>

\* The process cannot be started; the lock file is there already.
SpawnFails(q) ==
  /\ asking[q] # Nothing
  /\ Fault
  /\ lock' = [lock EXCEPT ![asking[q]] = 0]
  /\ asking' = [asking EXCEPT ![q] = Nothing]
  /\ UNCHANGED <<runs, models, scoreRow, tangled, ghosts>>

\* A POST that waits runs the job in its own thread and looks at no lock.
RunInside(r, job) ==
  /\ Waits
  /\ job \in Started
  /\ Begin(r, job, TRUE)
  /\ UNCHANGED <<locks, models, scoreRow, tangled, ghosts, faults>>

-----------------------------------------------------------------------------
(* Training.                                                               *)

\* save_bundle: the older versions are deactivated in the same transaction.
Store ==
  /\ made < MaxVersions
  /\ made' = made + 1
  /\ active' = {made + 1}

\* The child goes on to rescore; a run inside the API returns.  save_bundle ends
\* with reset_cache, which empties the cache of its own process.
TrainStores(r) ==
  /\ stage[r] = "begun" /\ task[r] = "train"
  /\ Store
  /\ cached' = IF waited[r] THEN NoBundle ELSE cached
  /\ stage' = [stage EXCEPT ![r] = IF waited[r] THEN "done" ELSE "stored"]
  /\ UNCHANGED <<task, waited, age, bundle, basis>>
  /\ UNCHANGED <<locks, scoreRow, tangled, ghosts, faults>>

\* The download, the fit or the commit fails.
TrainFails(r) ==
  /\ stage[r] = "begun" /\ task[r] = "train"
  /\ Fault
  /\ stage' = [stage EXCEPT ![r] = "done"]
  /\ UNCHANGED <<task, waited, age, bundle, basis>>
  /\ UNCHANGED <<locks, models, scoreRow, tangled, ghosts>>

\* scripts/train_models.py --store, by hand.
TrainByHand ==
  /\ Store
  /\ UNCHANGED cached
  /\ UNCHANGED <<locks, runs, scoreRow, tangled, ghosts, faults>>

-----------------------------------------------------------------------------
(* Scoring: a predict run, or a train run that has stored its model.       *)

CanScore(r) ==
  \/ stage[r] = "begun" /\ task[r] = "predict"
  \/ stage[r] = "stored"

\* get_bundle: a child has an empty cache, the API one that may still count.
ReadBundle(r) ==
  /\ CanScore(r)
  /\ \E version \in IF waited[r] THEN {Newest, cached} \ {NoBundle} ELSE {Newest} :
       /\ bundle' = [bundle EXCEPT ![r] = version]
       /\ cached' = IF waited[r] THEN version ELSE cached
  /\ stage' = [stage EXCEPT ![r] = "scoring"]
  /\ UNCHANGED <<task, waited, age, basis, made, active>>
  /\ UNCHANGED <<locks, scoreRow, tangled, ghosts, faults>>

\* The database does not answer: what the API holds, or the shipped bundle.
MissBundle(r) ==
  /\ CanScore(r)
  /\ Fault
  /\ \E version \in IF waited[r] /\ cached # NoBundle THEN {cached} ELSE {0} :
       /\ bundle' = [bundle EXCEPT ![r] = version]
       /\ cached' = IF waited[r] THEN version ELSE cached
  /\ stage' = [stage EXCEPT ![r] = "scoring"]
  /\ UNCHANGED <<task, waited, age, basis, made, active>>
  /\ UNCHANGED <<locks, scoreRow, tangled, ghosts>>

\* The cross-section is skipped when too few instruments have a history.
SaveSection(r) ==
  /\ stage[r] = "scoring"
  /\ section' \in {bundle[r], section}
  /\ stage' = [stage EXCEPT ![r] = "scored"]
  /\ UNCHANGED <<label, values, task, waited, age, bundle, basis>>
  /\ UNCHANGED <<locks, models, tangled, ghosts, faults>>

\* save_scores loads the row it is going to change.
ReadRow(r) ==
  /\ stage[r] = "scored"
  /\ basis' = [basis EXCEPT ![r] = label]
  /\ overtaken' = overtaken \ {r}
  /\ stage' = [stage EXCEPT ![r] = "writing"]
  /\ UNCHANGED <<task, waited, age, bundle>>
  /\ UNCHANGED <<locks, models, scoreRow, tangled, torn, faults>>

\* A slip: the column is written by an INSERT and by no UPDATE.
WrittenOnce(old, new, loaded) == IF loaded = NoRow THEN new ELSE old

\* An UPDATE writes only the columns that differ from what was loaded.
Written(old, new, loaded) == IF new = loaded THEN old ELSE new

\* An INSERT fails when another run has inserted the row meanwhile.
WriteRow(r) ==
  /\ stage[r] = "writing"
  /\ basis[r] = NoRow => label = NoRow
  /\ label' = Written(label, bundle[r], basis[r])
  /\ values' = bundle[r]
  /\ stage' = [stage EXCEPT ![r] = "done"]
  /\ torn' = (r \in overtaken)
  /\ overtaken' = (overtaken \cup {s \in Runs : stage[s] = "writing"}) \ {r}
  /\ UNCHANGED <<section, task, waited, age, bundle, basis>>
  /\ UNCHANGED <<locks, models, tangled, faults>>

WriteFails(r) ==
  /\ stage[r] = "writing"
  /\ \/ basis[r] = NoRow /\ label # NoRow /\ UNCHANGED faults
     \/ Fault
  /\ stage' = [stage EXCEPT ![r] = "done"]
  /\ UNCHANGED <<task, waited, age, bundle, basis>>
  /\ UNCHANGED <<locks, models, scoreRow, tangled, ghosts>>

-----------------------------------------------------------------------------
(* The end of a run.                                                       *)

\* A child removes the lock file of its job, whoever wrote it.
Unlocked(job) == [lock EXCEPT ![job] = NoLock]

\* The lock covers a job again once none of its children is left.
Untangled(r) ==
  IF Child(r) /\ ~\E s \in Runs \ {r} : Child(s) /\ task[s] = task[r]
  THEN tangled \ {task[r]} ELSE tangled

\* The run is over.
Free(r) ==
  /\ stage' = [stage EXCEPT ![r] = "off"]
  /\ task' = [task EXCEPT ![r] = "predict"]
  /\ waited' = [waited EXCEPT ![r] = FALSE]
  /\ age' = [age EXCEPT ![r] = 0]
  /\ bundle' = [bundle EXCEPT ![r] = 0]
  /\ basis' = [basis EXCEPT ![r] = NoRow]

\* A slip: a run inside the API removes it too.
ExitUnlocks(r) ==
  /\ stage[r] = "done"
  /\ Free(r)
  /\ lock' = Unlocked(task[r])
  /\ tangled' = Untangled(r)
  /\ UNCHANGED asking
  /\ UNCHANGED <<models, scoreRow, ghosts, faults>>

Exit(r) ==
  /\ stage[r] = "done"
  /\ Free(r)
  /\ lock' = IF waited[r] THEN lock ELSE Unlocked(task[r])
  /\ tangled' = Untangled(r)
  /\ UNCHANGED asking
  /\ UNCHANGED <<models, scoreRow, ghosts, faults>>

\* The process is killed: its lock file stays.
Die(r) ==
  /\ InProgress(r)
  /\ Fault
  /\ Free(r)
  /\ tangled' = Untangled(r)
  /\ UNCHANGED <<locks, models, scoreRow, ghosts>>

\* A request to the API after the cache has run out.
ServeBundle ==
  /\ cached' = Newest
  /\ UNCHANGED <<made, active>>
  /\ UNCHANGED <<locks, runs, scoreRow, tangled, ghosts, faults>>

Tick ==
  /\ \A r \in Runs : InProgress(r) => age[r] < Limit(task[r])
  /\ age' = [r \in Runs |-> IF InProgress(r) THEN age[r] + 1 ELSE age[r]]
  /\ lock' = [job \in Jobs |->
       IF lock[job] = NoLock \/ lock[job] = Stale(job) THEN lock[job] ELSE lock[job] + 1]
  /\ tangled' = tangled \cup {task[r] : r \in {s \in Runs :
       Child(s) /\ age[s] + 1 >= Stale(task[s])}}
  /\ UNCHANGED <<asking, stage, task, waited, bundle, basis>>
  /\ UNCHANGED <<models, scoreRow, ghosts, faults>>

-----------------------------------------------------------------------------

Handler(q) ==
  \/ \E job \in Jobs : Ask(q, job)
  \/ \E r \in Runs : Spawn(q, r)
  \/ SpawnFails(q)

Work(r) ==
  \/ TrainStores(r) \/ ReadBundle(r) \/ SaveSection(r) \/ ReadRow(r)
  \/ WriteRow(r) \/ WriteFails(r) \/ Exit(r)

Run(r) ==
  \/ \E job \in Jobs : RunInside(r, job)
  \/ Work(r)
  \/ TrainFails(r) \/ MissBundle(r) \/ Die(r)

Next ==
  \/ \E q \in Requests : Handler(q)
  \/ \E r \in Runs : Run(r)
  \/ TrainByHand \/ ServeBundle \/ Tick

Spec == Init /\ [][Next]_vars

\* Time passes, and a run goes on with its work.
Fairness == WF_vars(Tick) /\ \A r \in Runs : WF_vars(Work(r) \/ TrainFails(r))

FairSpec == Spec /\ Fairness

-----------------------------------------------------------------------------
(* Properties.                                                             *)

\* Every variable keeps its type.
TypeOK ==
  /\ \A job \in Jobs : lock[job] \in 0..Stale(job) \cup {NoLock}
  /\ lock \in [Jobs -> Int]
  /\ asking \in [Requests -> Jobs \cup {Nothing}]
  /\ stage \in [Runs ->
       {"off", "begun", "stored", "scoring", "scored", "writing", "done"}]
  /\ task \in [Runs -> Jobs]
  /\ waited \in [Runs -> BOOLEAN]
  /\ age \in [Runs -> Nat]
  /\ bundle \in [Runs -> Versions]
  /\ basis \in [Runs -> Versions \cup {NoRow}]
  /\ made \in Versions
  /\ active \subseteq 1..made
  /\ cached \in Versions \cup {NoBundle}
  /\ {section, label, values} \subseteq Versions \cup {NoRow}
  /\ tangled \subseteq Jobs
  /\ overtaken \subseteq Runs
  /\ torn \in BOOLEAN
  /\ faults \in 0..MaxFaults

\* The lock does what it is for (jobs.py:5, "a lock file keeps two runs from
\* overlapping") but for the two ways it fails, two handlers that both find no
\* lock and a child older than its lock counts: a child has a fresh lock file and
\* its job to itself.  Neither a kill, a failed start, a run inside the API nor
\* the end of another child breaks it, and it is whole again as soon as the
\* children that overlapped have ended.
LockProtects ==
  \A r \in Runs : Child(r) /\ task[r] \notin tangled =>
    /\ IsRunning(task[r])
    /\ \A s \in Runs : Child(s) /\ task[s] = task[r] => s = r

\* The model_version of the score row is the model that computed the row, however
\* predict runs and rescorings overlap, fail or are killed, unless the last write
\* was of a run that had read the row before another wrote it; the next run that
\* is not overtaken puts such a row right (save_scores).
LabelUnlessTorn == ~torn => label = values

\* A run that was killed does not keep its job from ever starting again.
LocksExpire == \A job \in Jobs : []<>~IsRunning(job)
=============================================================================
