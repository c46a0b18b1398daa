--------------------------- MODULE ForecastProofs ---------------------------
(***************************************************************************)
(* What holds of a forecast on its way from the job that computes it to    *)
(* the log, for any number of handlers, runs, requests and tasks and all   *)
(* ages, lives and windows: when the lock file of a job does what it is    *)
(* for (ForecastJobs), what an answer is made of (ForecastServing), and    *)
(* what is logged and scored of it (ForecastLog).                          *)
(***************************************************************************)
EXTENDS ForecastJobs, ForecastServing, ForecastLog, FiniteSetTheorems, TLAPS

-----------------------------------------------------------------------------
(* Types.                                                                  *)

\* At most one version is active, the last one made.
TypeInv == TypeOK /\ (active = {} \/ active = {made})

LEMMA NewestIsMade ==
  ASSUME TypeInv
  PROVE  Newest \in Versions
<1>1. CASE active = {}
  BY <1>1, BoundsAssumption DEF Newest, Versions
<1>2. CASE active = {made}
  <2>1. made \in Versions
    BY DEF TypeInv, TypeOK
  <2>2. made <= made
    BY <2>1, BoundsAssumption DEF Versions
  <2>3. (CHOOSE v \in active : \A u \in active : u <= v) = made
    BY <1>2, <2>2
  <2>4. QED
    BY <1>2, <2>1, <2>3 DEF Newest
<1>3. QED
  BY <1>1, <1>2 DEF TypeInv

LEMMA InitType == Init => TypeInv
<1> SUFFICES ASSUME Init PROVE TypeInv
  OBVIOUS
<1> USE BoundsAssumption DEF Init, Jobs, NoLock, NoRow, NoBundle, Versions
<1>1. /\ \A job \in Jobs : lock[job] \in 0..Stale(job) \cup {NoLock}
      /\ lock \in [Jobs -> Int]
  OBVIOUS
<1>2. asking \in [Requests -> Jobs \cup {Nothing}]
  OBVIOUS
<1>3. /\ stage \in [Runs ->
           {"off", "begun", "stored", "scoring", "scored", "writing", "done"}]
      /\ task \in [Runs -> Jobs]
      /\ waited \in [Runs -> BOOLEAN]
      /\ age \in [Runs -> Nat]
  OBVIOUS
<1>4. /\ bundle \in [Runs -> Versions]
      /\ basis \in [Runs -> Versions \cup {NoRow}]
  OBVIOUS
<1>5. /\ made \in Versions
      /\ active \subseteq 1..made
      /\ cached \in Versions \cup {NoBundle}
      /\ {section, label, values} \subseteq Versions \cup {NoRow}
      /\ faults \in 0..MaxFaults
      /\ active = {}
  OBVIOUS
<1>6. tangled \subseteq Jobs /\ overtaken \subseteq Runs /\ torn \in BOOLEAN
  OBVIOUS
<1>7. QED
  BY <1>1, <1>2, <1>3, <1>4, <1>5, <1>6 DEF TypeInv, TypeOK

LEMMA HandlerType ==
  ASSUME TypeInv, NEW q \in Requests, Handler(q)
  PROVE  TypeInv'
<1> USE BoundsAssumption, TimesAssumption
<1>1. ASSUME NEW job \in Jobs, Ask(q, job) PROVE TypeInv'
  BY <1>1 DEF Ask, TypeInv, TypeOK, runs, models, scoreRow, ghosts
<1>2. ASSUME NEW job \in Jobs, lock' = [lock EXCEPT ![job] = 0]
      PROVE  /\ \A j \in Jobs : lock'[j] \in 0..Stale(j) \cup {NoLock}
             /\ lock' \in [Jobs -> Int]
  <2>1. 0 \in 0..Stale(job)
    BY DEF Stale
  <2>2. QED
    BY <1>2, <2>1 DEF TypeInv, TypeOK
<1>3. ASSUME NEW r \in Runs, Spawn(q, r) PROVE TypeInv'
  <2>1. asking[q] \in Jobs
    BY <1>3 DEF Spawn, TypeInv, TypeOK
  <2>2. /\ \A j \in Jobs : lock'[j] \in 0..Stale(j) \cup {NoLock}
        /\ lock' \in [Jobs -> Int]
    BY <1>2, <1>3, <2>1 DEF Spawn
  <2>3. tangled' = tangled \/ tangled' = tangled \cup {asking[q]}
    BY <1>3, Zenon DEF Spawn
  <2>4. tangled' \subseteq Jobs
    BY <2>1, <2>3 DEF TypeInv, TypeOK
  <2>5. QED
    BY <1>3, <2>1, <2>2, <2>4
       DEF Spawn, Begin, TypeInv, TypeOK, models, scoreRow, ghosts, Versions, NoRow
<1>4. CASE SpawnFails(q)
  <2>1. asking[q] \in Jobs
    BY <1>4 DEF SpawnFails, TypeInv, TypeOK
  <2>2. /\ \A j \in Jobs : lock'[j] \in 0..Stale(j) \cup {NoLock}
        /\ lock' \in [Jobs -> Int]
    BY <1>2, <1>4, <2>1 DEF SpawnFails
  <2>3. QED
    BY <1>4, <2>1, <2>2 DEF SpawnFails, Fault, TypeInv, TypeOK, runs, models, scoreRow, ghosts
<1>5. QED
  BY <1>1, <1>3, <1>4 DEF Handler

\* The end of a run frees its slot.
LEMMA FreeType ==
  ASSUME TypeInv, NEW r \in Runs, Free(r)
  PROVE  /\ stage' \in [Runs -> {"off", "begun", "stored", "scoring", "scored",
                                 "writing", "done"}]
         /\ task' \in [Runs -> Jobs] /\ waited' \in [Runs -> BOOLEAN]
         /\ age' \in [Runs -> Nat] /\ bundle' \in [Runs -> Versions]
         /\ basis' \in [Runs -> Versions \cup {NoRow}]
  BY BoundsAssumption DEF Free, TypeInv, TypeOK, Jobs, Versions

LEMMA UntangledType ==
  ASSUME TypeInv, NEW r \in Runs
  PROVE  Untangled(r) \subseteq Jobs
<1>1. Untangled(r) = tangled \/ Untangled(r) = tangled \ {task[r]}
  BY Zenon DEF Untangled
<1>2. QED
  BY <1>1 DEF TypeInv, TypeOK

LEMMA WorkType ==
  ASSUME TypeInv, NEW r \in Runs, Run(r)
  PROVE  TypeInv'
<1> USE BoundsAssumption, TimesAssumption
<1>1. ASSUME NEW job \in Jobs, RunInside(r, job) PROVE TypeInv'
  BY <1>1 DEF RunInside, Begin, TypeInv, TypeOK, locks, models, scoreRow, ghosts,
              Versions, NoRow
<1>2. CASE TrainStores(r)
  <2>1. made' \in Versions /\ made' = made + 1 /\ active' = {made'}
    BY <1>2 DEF TrainStores, Store, TypeInv, TypeOK, Versions
  <2>2. active' \subseteq 1..made'
    BY <2>1 DEF TypeInv, TypeOK, Versions
  <2>3. cached' \in Versions \cup {NoBundle}
    BY <1>2, <2>1 DEF TrainStores, TypeInv, TypeOK
  <2>4. stage' = [stage EXCEPT ![r] = "done"] \/ stage' = [stage EXCEPT ![r] = "stored"]
    BY <1>2, Zenon DEF TrainStores
  <2>5. QED
    BY <1>2, <2>1, <2>2, <2>3, <2>4
       DEF TrainStores, TypeInv, TypeOK, locks, scoreRow, ghosts
<1>3. CASE ReadBundle(r)
  <2>1. PICK version \in {Newest, cached} :
          /\ version # NoBundle \/ version = Newest
          /\ bundle' = [bundle EXCEPT ![r] = version]
          /\ cached' \in {version, cached}
    BY <1>3 DEF ReadBundle
  <2>2. version \in Versions
    BY <2>1, NewestIsMade DEF TypeInv, TypeOK
  <2>3. QED
    BY <1>3, <2>1, <2>2 DEF ReadBundle, TypeInv, TypeOK, locks, scoreRow, ghosts
<1>4. CASE MissBundle(r)
  <2>1. PICK version \in {0, cached} :
          /\ version # NoBundle \/ version = 0
          /\ bundle' = [bundle EXCEPT ![r] = version]
          /\ cached' \in {version, cached}
    BY <1>4 DEF MissBundle
  <2>2. version \in Versions
    BY <2>1 DEF TypeInv, TypeOK, Versions
  <2>3. QED
    BY <1>4, <2>1, <2>2
       DEF MissBundle, Fault, TypeInv, TypeOK, locks, scoreRow, ghosts
<1>5. CASE SaveSection(r)
  BY <1>5 DEF SaveSection, TypeInv, TypeOK, locks, models, ghosts
<1>6. CASE ReadRow(r)
  BY <1>6 DEF ReadRow, TypeInv, TypeOK, locks, models, scoreRow
<1>7. CASE WriteRow(r)
  <2>1. /\ stage' = [stage EXCEPT ![r] = "done"]
        /\ label' = Written(label, bundle[r], basis[r]) /\ values' = bundle[r]
        /\ torn' = (r \in overtaken) /\ overtaken' \subseteq Runs
        /\ UNCHANGED <<section, task, waited, age, bundle, basis, locks, models, tangled,
                       faults>>
    BY <1>7 DEF WriteRow, TypeInv, TypeOK
  <2>2. label' \in Versions \cup {NoRow} /\ values' \in Versions
    BY <2>1 DEF Written, TypeInv, TypeOK
  <2>3. torn' \in BOOLEAN
    BY <2>1
  <2>4. QED
    BY <2>1, <2>2, <2>3 DEF TypeInv, TypeOK, locks, models
<1>8. CASE Exit(r)
  <2>1. lock' = lock \/ lock' = [lock EXCEPT ![task[r]] = NoLock]
    BY <1>8, Zenon DEF Exit, Unlocked
  <2>2. /\ \A j \in Jobs : lock'[j] \in 0..Stale(j) \cup {NoLock}
        /\ lock' \in [Jobs -> Int]
    BY <2>1 DEF TypeInv, TypeOK, NoLock
  <2>3. tangled' \subseteq Jobs
    BY <1>8, UntangledType DEF Exit
  <2>4. QED
    BY <1>8, <2>2, <2>3, FreeType
       DEF Exit, TypeInv, TypeOK, models, scoreRow, ghosts
<1>9. CASE Die(r)
  <2>1. tangled' \subseteq Jobs /\ faults' \in 0..MaxFaults
    BY <1>9, UntangledType DEF Die, Fault, TypeInv, TypeOK
  <2>2. QED
    BY <1>9, <2>1, FreeType DEF Die, TypeInv, TypeOK, locks, models, scoreRow, ghosts
<1>10. CASE WriteFails(r) \/ TrainFails(r)
  <2>1. faults' \in 0..MaxFaults
    BY <1>10 DEF WriteFails, TrainFails, Fault, TypeInv, TypeOK
  <2>2. QED
    BY <1>10, <2>1
       DEF WriteFails, TrainFails, TypeInv, TypeOK, locks, models, scoreRow, ghosts
<1>11. QED
  BY <1>1, <1>2, <1>3, <1>4, <1>5, <1>6, <1>7, <1>8, <1>9, <1>10 DEF Run, Work

LEMMA TickType ==
  ASSUME TypeInv, Tick
  PROVE  TypeInv'
<1> USE TimesAssumption
<1>1. ASSUME NEW job \in Jobs
      PROVE  lock'[job] \in 0..Stale(job) \cup {NoLock} /\ lock'[job] \in Int
  <2>1. Stale(job) \in Nat /\ lock[job] \in 0..Stale(job) \cup {NoLock}
    BY DEF Stale, TypeInv, TypeOK
  <2>2. lock'[job] = IF lock[job] = NoLock \/ lock[job] = Stale(job) THEN lock[job] ELSE lock[job] + 1
    BY DEF Tick
  <2>3. QED
    BY <2>1, <2>2 DEF NoLock
<1>2. lock' \in [Jobs -> Int]
  BY <1>1 DEF Tick
<1>3. age' \in [Runs -> Nat]
  BY DEF Tick, TypeInv, TypeOK
<1>4. tangled' \subseteq Jobs
  BY DEF Tick, TypeInv, TypeOK
<1>5. QED
  BY <1>1, <1>2, <1>3, <1>4 DEF Tick, TypeInv, TypeOK, models, scoreRow, ghosts

LEMMA StepType == TypeInv /\ [Next]_vars => TypeInv'
<1> SUFFICES ASSUME TypeInv, [Next]_vars PROVE TypeInv'
  OBVIOUS
<1>1. CASE TrainByHand
  <2>1. made' \in Versions /\ made' = made + 1 /\ active' = {made'}
    BY <1>1, BoundsAssumption DEF TrainByHand, Store, TypeInv, TypeOK, Versions
  <2>2. active' \subseteq 1..made'
    BY <2>1 DEF TypeInv, TypeOK, Versions
  <2>3. QED
    BY <1>1, <2>1, <2>2 DEF TrainByHand, TypeInv, TypeOK, locks, runs, scoreRow, ghosts
<1>2. CASE ServeBundle
  BY <1>2, NewestIsMade DEF ServeBundle, TypeInv, TypeOK, locks, runs, scoreRow, ghosts
<1>3. CASE UNCHANGED vars
  BY <1>3 DEF vars, TypeInv, TypeOK, locks, runs, models, scoreRow, ghosts
<1>4. QED
  BY <1>1, <1>2, <1>3, HandlerType, WorkType, TickType DEF Next

\* Every variable keeps its type for any number of handlers, runs and models.
THEOREM TypeCorrect == Spec => []TypeOK
<1>1. Init => TypeInv
  BY InitType
<1>2. TypeInv /\ [Next]_vars => TypeInv'
  BY StepType
<1>3. TypeInv => TypeOK
  BY DEF TypeInv
<1>4. QED
  BY <1>1, <1>2, <1>3, PTL DEF Spec

-----------------------------------------------------------------------------
(* The lock file.                                                          *)

Stages == {"off", "begun", "stored", "scoring", "scored", "writing", "done"}

\* The types the locking depends on.
Types ==
  /\ lock \in [Jobs -> Int]
  /\ asking \in [Requests -> Jobs \cup {Nothing}]
  /\ stage \in [Runs -> Stages]
  /\ task \in [Runs -> Jobs]
  /\ waited \in [Runs -> BOOLEAN]
  /\ age \in [Runs -> Nat]

\* While the lock of its job holds, a child is as old as the lock file, which still
\* counts, no other child has the job and no handler is about to start one.
Holds(r) ==
  /\ lock[task[r]] = age[r] /\ age[r] < Stale(task[r])
  /\ \A s \in Runs : Child(s) /\ task[s] = task[r] => s = r
  /\ \A q \in Requests : asking[q] # task[r]

LockInv == Types /\ \A r \in Runs : Child(r) /\ task[r] \notin tangled => Holds(r)

LEMMA InitLock == Init => LockInv
  BY DEF Init, LockInv, Types, Child, InProgress, Jobs, NoLock, Stages

LEMMA StaleIsNatural ==
  ASSUME NEW job \in Jobs
  PROVE  Stale(job) \in Nat \ {0}
  BY TimesAssumption DEF Stale

\* A child's lock file counts.
LEMMA ChildIsRunning ==
  ASSUME LockInv, NEW r \in Runs, Child(r), task[r] \notin tangled
  PROVE  IsRunning(task[r])
<1>1. task[r] \in Jobs /\ age[r] \in Nat
  BY DEF LockInv, Types
<1>2. lock[task[r]] = age[r] /\ age[r] < Stale(task[r])
  BY DEF LockInv, Holds
<1>3. QED
  BY <1>1, <1>2 DEF IsRunning, NoLock

\* A step of a run that leaves its lock and its age alone, and starts nothing.
LEMMA QuietStep ==
  ASSUME LockInv, UNCHANGED <<lock, asking, task, waited, age, tangled>>,
         stage' \in [Runs -> Stages],
         \A r \in Runs : stage'[r] # "off" => stage[r] # "off"
  PROVE  LockInv'
<1>1. \A r \in Runs : Child(r)' => Child(r)
  BY DEF Child, InProgress
<1>2. QED
  BY <1>1 DEF LockInv, Types, Holds, Stale

LEMMA AskStep ==
  ASSUME LockInv, NEW q \in Requests, NEW job \in Jobs, Ask(q, job)
  PROVE  LockInv'
<1>1. /\ UNCHANGED <<lock, stage, task, waited, age, tangled>>
      /\ asking' = [asking EXCEPT ![q] = job]
      /\ ~IsRunning(job)
  BY DEF Ask, runs
<1>2. \A r \in Runs : Child(r)' <=> Child(r)
  BY <1>1 DEF Child, InProgress
<1>3. \A r \in Runs : Child(r) /\ task[r] \notin tangled => task[r] # job
  BY <1>1, ChildIsRunning
<1>4. Types'
  BY <1>1 DEF LockInv, Types
<1>5. \A r \in Runs : Child(r)' /\ task'[r] \notin tangled' => Holds(r)'
  BY <1>1, <1>2, <1>3 DEF LockInv, Types, Holds, Stale
<1>6. QED
  BY <1>4, <1>5 DEF LockInv

LEMMA SpawnStep ==
  ASSUME LockInv, NEW q \in Requests, NEW r \in Runs, Spawn(q, r)
  PROVE  LockInv'
<1> DEFINE job == asking[q]
<1>1. /\ job \in Jobs /\ ~InProgress(r)
      /\ stage' = [stage EXCEPT ![r] = "begun"]
      /\ task' = [task EXCEPT ![r] = job]
      /\ waited' = [waited EXCEPT ![r] = FALSE]
      /\ age' = [age EXCEPT ![r] = 0]
      /\ lock' = [lock EXCEPT ![job] = 0]
      /\ asking' = [asking EXCEPT ![q] = Nothing]
  BY DEF Spawn, Begin, LockInv, Types
<1>2. tangled \subseteq tangled'
  <2>1. tangled' = tangled \/ tangled' = tangled \cup {job}
    BY Zenon DEF Spawn
  <2>2. QED
    BY <2>1
<1>3. job \notin tangled' => \A other \in Requests \ {q} : asking[other] # job
  BY DEF Spawn
<1>4. Types'
  BY <1>1 DEF LockInv, Types, Stages
<1>5. \A s \in Runs : s # r => /\ Child(s)' <=> Child(s)
                               /\ task'[s] = task[s]
                               /\ age'[s] = age[s]
  BY <1>1 DEF Child, InProgress, LockInv, Types
<1>6. task'[r] = job /\ age'[r] = 0 /\ lock'[job] = 0 /\ asking'[q] = Nothing
  BY <1>1 DEF LockInv, Types
<1>7. \A p \in Requests : p # q => asking'[p] = asking[p]
  BY <1>1 DEF LockInv, Types
<1>8. \A s \in Runs : Child(s) /\ task[s] \notin tangled => task[s] # job
  BY DEF LockInv, Holds
<1>9. Nothing \notin Jobs
  BY DEF Nothing, Jobs
<1>10. ASSUME job \notin tangled' PROVE Holds(r)'
  <2>1. \A s \in Runs : Child(s)' /\ task'[s] = job => s = r
    BY <1>2, <1>5, <1>8, <1>10
  <2>2. \A p \in Requests : asking'[p] # job
    BY <1>1, <1>3, <1>6, <1>7, <1>9, <1>10
  <2>3. 0 < Stale(job)
    BY <1>1, StaleIsNatural
  <2>4. QED
    BY <1>6, <2>1, <2>2, <2>3 DEF Holds, Stale
<1>11. ASSUME NEW s \in Runs, s # r, Child(s)', task'[s] \notin tangled'
       PROVE  Holds(s)'
  <2>1. /\ Child(s) /\ task[s] \notin tangled /\ task'[s] = task[s] /\ age'[s] = age[s]
        /\ task[s] # job /\ task[s] \in Jobs
    BY <1>2, <1>5, <1>8, <1>11 DEF LockInv, Types
  <2>2. Holds(s)
    BY <2>1 DEF LockInv
  <2>3. lock'[task[s]] = lock[task[s]]
    BY <1>1, <2>1 DEF LockInv, Types
  <2>4. \A p \in Requests : asking'[p] # task[s]
    BY <1>6, <1>7, <1>9, <2>1, <2>2 DEF Holds
  <2>5. \A t \in Runs : Child(t)' /\ task'[t] = task[s] => t = s
    BY <1>5, <1>6, <2>1, <2>2 DEF Holds
  <2>6. QED
    BY <2>1, <2>2, <2>3, <2>4, <2>5 DEF Holds, Stale
<1>12. QED
  BY <1>4, <1>6, <1>10, <1>11 DEF LockInv

LEMMA SpawnFailsStep ==
  ASSUME LockInv, NEW q \in Requests, SpawnFails(q)
  PROVE  LockInv'
<1> DEFINE job == asking[q]
<1>1. /\ job \in Jobs
      /\ lock' = [lock EXCEPT ![job] = 0]
      /\ asking' = [asking EXCEPT ![q] = Nothing]
      /\ UNCHANGED <<stage, task, waited, age, tangled>>
  BY DEF SpawnFails, runs, LockInv, Types
<1>2. \A s \in Runs : Child(s)' <=> Child(s)
  BY <1>1 DEF Child, InProgress
<1>3. \A s \in Runs : Child(s) /\ task[s] \notin tangled => task[s] # job
  BY DEF LockInv, Holds
<1>4. Types'
  BY <1>1 DEF LockInv, Types
<1>5. \A s \in Runs : task[s] # Nothing
  BY DEF LockInv, Types, Jobs, Nothing
<1>6. \A s \in Runs : Child(s)' /\ task'[s] \notin tangled' => Holds(s)'
  BY <1>1, <1>2, <1>3, <1>5 DEF LockInv, Types, Holds, Stale
<1>7. QED
  BY <1>4, <1>6 DEF LockInv

\* A run ends: of its job's children no other is left, or the lock had failed.
LEMMA EndStep ==
  ASSUME LockInv, NEW r \in Runs, InProgress(r), Free(r), tangled' = Untangled(r),
         asking' = asking, lock' \in [Jobs -> Int],
         \A job \in Jobs : lock'[job] = lock[job] \/ (Child(r) /\ job = task[r])
  PROVE  LockInv'
<1>1. /\ stage' = [stage EXCEPT ![r] = "off"]
      /\ \A s \in Runs : s # r => /\ stage'[s] = stage[s] /\ task'[s] = task[s]
                                  /\ waited'[s] = waited[s] /\ age'[s] = age[s]
  BY DEF Free, LockInv, Types
<1>2. Types'
  BY DEF Free, LockInv, Types, Stages, Jobs
<1>3. \A s \in Runs : Child(s)' => s # r /\ Child(s)
  BY <1>1 DEF Child, InProgress, LockInv, Types
<1>4. ASSUME NEW s \in Runs, Child(s)', task'[s] \notin tangled'
      PROVE  Holds(s)'
  <2>1. s # r /\ Child(s) /\ task'[s] = task[s] /\ age'[s] = age[s] /\ task[s] \in Jobs
    BY <1>1, <1>3, <1>4 DEF LockInv, Types
  <2>2. task[s] \notin tangled /\ ~(Child(r) /\ task[s] = task[r])
    <3>1. CASE Child(r) /\ task[s] = task[r]
      <4>1. tangled' = tangled
        BY <2>1, <3>1, Zenon DEF Untangled
      <4>2. task[r] \notin tangled
        BY <1>4, <2>1, <3>1, <4>1
      <4>3. Holds(r)
        BY <3>1, <4>2 DEF LockInv
      <4>4. QED
        BY <2>1, <3>1, <4>3 DEF Holds
    <3>2. CASE ~(Child(r) /\ task[s] = task[r])
      <4>1. tangled' = tangled \/ (Child(r) /\ tangled' = tangled \ {task[r]})
        BY Zenon DEF Untangled
      <4>2. QED
        BY <1>4, <2>1, <3>2, <4>1
    <3>3. QED
      BY <3>1, <3>2
  <2>3. Holds(s) /\ lock'[task[s]] = lock[task[s]]
    BY <2>1, <2>2 DEF LockInv
  <2>4. \A t \in Runs : Child(t)' /\ task'[t] = task[s] => t = s
    BY <1>1, <1>3, <2>3 DEF Holds
  <2>5. QED
    BY <2>1, <2>3, <2>4 DEF Holds, Stale
<1>5. QED
  BY <1>2, <1>4 DEF LockInv

LEMMA RunStep ==
  ASSUME LockInv, NEW r \in Runs, Run(r)
  PROVE  LockInv'
<1>1. ASSUME NEW job \in Jobs, RunInside(r, job) PROVE LockInv'
  <2>1. /\ ~InProgress(r)
        /\ stage' = [stage EXCEPT ![r] = "begun"]
        /\ task' = [task EXCEPT ![r] = job]
        /\ waited' = [waited EXCEPT ![r] = TRUE]
        /\ age' = [age EXCEPT ![r] = 0]
        /\ UNCHANGED <<lock, asking, tangled>>
    BY <1>1 DEF RunInside, Begin, locks
  <2>2. Types'
    BY <2>1 DEF LockInv, Types, Stages
  <2>3. \A s \in Runs : Child(s)' => /\ s # r /\ Child(s)
                                     /\ task'[s] = task[s]
                                     /\ age'[s] = age[s]
    BY <2>1 DEF Child, InProgress, LockInv, Types
  <2>4. \A s \in Runs : Child(s)' /\ task'[s] \notin tangled' => Holds(s)'
    BY <2>1, <2>3 DEF LockInv, Holds, Stale
  <2>5. QED
    BY <2>2, <2>4 DEF LockInv
<1>2. CASE Exit(r)
  <2>1. /\ InProgress(r) /\ Free(r) /\ tangled' = Untangled(r) /\ asking' = asking
        /\ lock' = IF waited[r] THEN lock ELSE [lock EXCEPT ![task[r]] = NoLock]
    BY <1>2 DEF Exit, Unlocked, InProgress
  <2>2. CASE waited[r]
    <3>1. lock' = lock
      BY <2>1, <2>2
    <3>2. QED
      BY <2>1, <3>1, EndStep DEF LockInv, Types
  <2>3. CASE ~waited[r]
    <3>1. lock' = [lock EXCEPT ![task[r]] = NoLock] /\ Child(r)
      BY <2>1, <2>3 DEF Child
    <3>2. lock' \in [Jobs -> Int]
      BY <3>1 DEF LockInv, Types, NoLock
    <3>3. \A job \in Jobs : lock'[job] = lock[job] \/ (Child(r) /\ job = task[r])
      BY <3>1 DEF LockInv, Types
    <3>4. QED
      BY <2>1, <3>2, <3>3, EndStep
  <2>4. QED
    BY <2>2, <2>3
<1>3. CASE Die(r)
  <2>1. InProgress(r) /\ Free(r) /\ tangled' = Untangled(r) /\ asking' = asking /\ lock' = lock
    BY <1>3 DEF Die, locks
  <2>2. QED
    BY <2>1, EndStep DEF LockInv, Types
<1>4. CASE \/ TrainStores(r) \/ ReadBundle(r) \/ SaveSection(r) \/ ReadRow(r)
           \/ WriteRow(r) \/ WriteFails(r) \/ TrainFails(r) \/ MissBundle(r)
  <2>1. UNCHANGED <<lock, asking, task, waited, age, tangled>>
    BY <1>4 DEF TrainStores, ReadBundle, SaveSection, ReadRow, WriteRow, WriteFails,
                TrainFails, MissBundle, locks
  <2>2. stage[r] # "off"
    BY <1>4 DEF TrainStores, ReadBundle, SaveSection, ReadRow, WriteRow, WriteFails,
                TrainFails, MissBundle, CanScore
  <2>3. \E to \in Stages : stage' = [stage EXCEPT ![r] = to]
    <3>1. CASE TrainStores(r)
      <4>1. CASE waited[r]
        BY <3>1, <4>1 DEF TrainStores, Stages
      <4>2. CASE ~waited[r]
        BY <3>1, <4>2 DEF TrainStores, Stages
      <4>3. QED
        BY <4>1, <4>2
    <3>2. CASE ~TrainStores(r)
      BY <1>4, <3>2 DEF ReadBundle, SaveSection, ReadRow, WriteRow, WriteFails,
                        TrainFails, MissBundle, Stages
    <3>3. QED
      BY <3>1, <3>2
  <2>4. QED
    BY <2>1, <2>2, <2>3, QuietStep DEF LockInv, Types
<1>5. QED
  BY <1>1, <1>2, <1>3, <1>4 DEF Run, Work

LEMMA TickStep ==
  ASSUME LockInv, Tick
  PROVE  LockInv'
<1>1. /\ UNCHANGED <<asking, stage, task, waited>>
      /\ age' = [r \in Runs |-> IF InProgress(r) THEN age[r] + 1 ELSE age[r]]
      /\ lock' = [job \in Jobs |->
           IF lock[job] = NoLock \/ lock[job] = Stale(job) THEN lock[job] ELSE lock[job] + 1]
  BY DEF Tick
<1>2. Types'
  BY <1>1 DEF LockInv, Types
<1>3. \A r \in Runs : Child(r)' <=> Child(r)
  BY <1>1 DEF Child, InProgress
<1>4. /\ tangled \subseteq tangled'
      /\ \A r \in Runs : Child(r) /\ task[r] \notin tangled' => ~(age[r] + 1 >= Stale(task[r]))
  BY DEF Tick
<1>5. ASSUME NEW r \in Runs, Child(r), task[r] \notin tangled'
      PROVE  Holds(r)'
  <2>1. /\ task[r] \in Jobs /\ age[r] \in Nat
        /\ lock[task[r]] = age[r] /\ Holds(r)
    BY <1>4, <1>5 DEF LockInv, Types, Holds
  <2>2. age[r] + 1 < Stale(task[r]) /\ Stale(task[r]) \in Nat
    BY <1>4, <1>5, <2>1, StaleIsNatural
  <2>3. age'[r] = age[r] + 1
    BY <1>1, <1>5 DEF Child
  <2>4. lock'[task[r]] = age[r] + 1
    BY <1>1, <2>1, <2>2 DEF NoLock
  <2>5. QED
    BY <1>1, <1>3, <2>1, <2>2, <2>3, <2>4 DEF Holds, Stale
<1>6. QED
  BY <1>1, <1>2, <1>3, <1>5 DEF LockInv

LEMMA StepLock == LockInv /\ [Next]_vars => LockInv'
<1> SUFFICES ASSUME LockInv, [Next]_vars PROVE LockInv'
  OBVIOUS
<1>1. ASSUME NEW q \in Requests, Handler(q) PROVE LockInv'
  BY <1>1, AskStep, SpawnStep, SpawnFailsStep DEF Handler
<1>2. ASSUME NEW r \in Runs, Run(r) PROVE LockInv'
  BY <1>2, RunStep
<1>3. CASE Tick
  BY <1>3, TickStep
<1>4. CASE TrainByHand \/ ServeBundle \/ UNCHANGED vars
  <2>1. UNCHANGED <<lock, asking, stage, task, waited, age, tangled>>
    BY <1>4 DEF TrainByHand, ServeBundle, vars, locks, runs
  <2>2. QED
    BY <2>1, QuietStep DEF LockInv, Types
<1>5. QED
  BY <1>1, <1>2, <1>3, <1>4 DEF Next

\* "A lock file keeps two runs from overlapping" (jobs.py:5), for any number of
\* handlers and runs and any ages: a child has a fresh lock file and its job to
\* itself unless two handlers had both found no lock, or a child of the job has
\* outlived its lock, and then only until the last of these children has ended.
THEOREM LocksProtect == Spec => []LockProtects
<1>1. Init => LockInv
  BY InitLock
<1>2. LockInv /\ [Next]_vars => LockInv'
  BY StepLock
<1>3. LockInv => LockProtects
  BY ChildIsRunning DEF LockProtects, LockInv, Holds
<1>4. QED
  BY <1>1, <1>2, <1>3, PTL DEF Spec

-----------------------------------------------------------------------------
(* The score row: what a run that is not overtaken has loaded is what is   *)
(* there when it writes.                                                   *)

RowInv ==
  /\ LabelUnlessTorn
  /\ \A r \in Runs : stage[r] = "writing" /\ r \notin overtaken => basis[r] = label

LEMMA StepRow == TypeInv /\ RowInv /\ [Next]_vars => RowInv'
<1> SUFFICES ASSUME TypeInv, RowInv, [Next]_vars PROVE RowInv'
  OBVIOUS
<1>q. stage \in [Runs -> Stages] /\ basis \in [Runs -> Versions \cup {NoRow}]
  BY DEF TypeInv, TypeOK, Stages
<1>1. ASSUME UNCHANGED <<label, values, torn, overtaken>>,
             \A r \in Runs : stage'[r] = "writing" => stage[r] = "writing" /\ basis'[r] = basis[r]
      PROVE  RowInv'
  BY <1>1 DEF RowInv, LabelUnlessTorn
<1>2. ASSUME NEW r \in Runs, NEW to \in Stages \ {"writing"},
             stage' = [stage EXCEPT ![r] = to],
             \A s \in Runs : s # r => basis'[s] = basis[s]
      PROVE  \A s \in Runs : stage'[s] = "writing" => stage[s] = "writing" /\ basis'[s] = basis[s]
  BY <1>2, <1>q
<1>3. ASSUME NEW q \in Requests, Handler(q) PROVE RowInv'
  <2>1. UNCHANGED <<label, values, torn, overtaken>>
    BY <1>3 DEF Handler, Ask, Spawn, SpawnFails, scoreRow, ghosts
  <2>2. UNCHANGED <<stage, basis>> \/ \E r \in Runs : Spawn(q, r)
    BY <1>3 DEF Handler, Ask, SpawnFails, runs
  <2>3. ASSUME NEW r \in Runs, Spawn(q, r)
        PROVE  \A s \in Runs : stage'[s] = "writing" => stage[s] = "writing" /\ basis'[s] = basis[s]
    <3>1. stage' = [stage EXCEPT ![r] = "begun"] /\ basis' = [basis EXCEPT ![r] = NoRow]
      BY <2>3 DEF Spawn, Begin
    <3>2. QED
      BY <1>2, <1>q, <3>1 DEF Stages
  <2>4. QED
    BY <1>1, <2>1, <2>2, <2>3
<1>4. ASSUME NEW r \in Runs, ReadRow(r) PROVE RowInv'
  <2>1. /\ stage' = [stage EXCEPT ![r] = "writing"]
        /\ basis' = [basis EXCEPT ![r] = label]
        /\ overtaken' = overtaken \ {r}
        /\ UNCHANGED <<label, values, torn>>
    BY <1>4 DEF ReadRow, scoreRow
  <2>2. \A s \in Runs : stage'[s] = "writing" /\ s \notin overtaken' => basis'[s] = label
    BY <1>q, <2>1 DEF RowInv
  <2>3. QED
    BY <2>1, <2>2 DEF RowInv, LabelUnlessTorn
<1>5. ASSUME NEW r \in Runs, WriteRow(r) PROVE RowInv'
  <2>1. /\ stage[r] = "writing"
        /\ stage' = [stage EXCEPT ![r] = "done"]
        /\ label' = Written(label, bundle[r], basis[r])
        /\ values' = bundle[r] /\ torn' = (r \in overtaken)
        /\ overtaken' = (overtaken \cup {s \in Runs : stage[s] = "writing"}) \ {r}
    BY <1>5 DEF WriteRow
  <2>2. r \notin overtaken => label' = values'
    BY <2>1 DEF Written, RowInv
  <2>3. \A s \in Runs : stage'[s] = "writing" => s \in overtaken'
    BY <1>q, <2>1
  <2>4. QED
    BY <2>1, <2>2, <2>3 DEF RowInv, LabelUnlessTorn
<1>6. ASSUME NEW r \in Runs, Exit(r) \/ Die(r) PROVE RowInv'
  <2>1. /\ stage' = [stage EXCEPT ![r] = "off"] /\ basis' = [basis EXCEPT ![r] = NoRow]
        /\ UNCHANGED <<label, values, torn, overtaken>>
    BY <1>6 DEF Exit, Die, Free, scoreRow, ghosts
  <2>2. QED
    BY <1>1, <1>2, <1>q, <2>1 DEF Stages
<1>7. ASSUME NEW r \in Runs,
             \/ TrainStores(r) \/ ReadBundle(r) \/ SaveSection(r) \/ WriteFails(r)
             \/ TrainFails(r) \/ MissBundle(r)
      PROVE  RowInv'
  <2>1. UNCHANGED <<label, values, basis, torn, overtaken>>
    BY <1>7 DEF TrainStores, ReadBundle, SaveSection, WriteFails, TrainFails,
                MissBundle, scoreRow, ghosts
  <2>2. \E to \in Stages \ {"writing"} : stage' = [stage EXCEPT ![r] = to]
    <3>1. CASE TrainStores(r)
      <4>1. \/ stage' = [stage EXCEPT ![r] = "done"]
            \/ stage' = [stage EXCEPT ![r] = "stored"]
        BY <3>1, Zenon DEF TrainStores
      <4>2. QED
        BY <4>1 DEF Stages
    <3>2. CASE ~TrainStores(r)
      BY <1>7, <3>2 DEF ReadBundle, SaveSection, WriteFails, TrainFails, MissBundle, Stages
    <3>3. QED
      BY <3>1, <3>2
  <2>3. QED
    BY <1>1, <1>2, <2>1, <2>2
<1>8. ASSUME NEW r \in Runs, NEW job \in Jobs, RunInside(r, job) PROVE RowInv'
  <2>1. /\ stage' = [stage EXCEPT ![r] = "begun"] /\ basis' = [basis EXCEPT ![r] = NoRow]
        /\ UNCHANGED <<label, values, torn, overtaken>>
    BY <1>8 DEF RunInside, Begin, scoreRow, ghosts
  <2>2. QED
    BY <1>1, <1>2, <1>q, <2>1 DEF Stages
<1>9. CASE TrainByHand \/ ServeBundle \/ Tick \/ UNCHANGED vars
  BY <1>1, <1>9 DEF TrainByHand, ServeBundle, Tick, vars, scoreRow, ghosts, runs
<1>10. QED
  BY <1>3, <1>4, <1>5, <1>6, <1>7, <1>8, <1>9 DEF Next, Run, Work

\* The model_version of the score row is the model that computed it, for any number
\* of predict runs and rescorings inside the API and beside it, unless the last
\* write was of a run that another had overtaken since it read the row
\* (store.py:152-176).
THEOREM LabelsAreTrue == Spec => []LabelUnlessTorn
<1>1. Init => RowInv
  BY DEF Init, RowInv, LabelUnlessTorn
<1>2. TypeInv /\ [Next]_vars => TypeInv'
  BY StepType
<1>3. RowInv => LabelUnlessTorn
  BY DEF RowInv
<1>4. QED
  BY <1>1, <1>2, <1>3, InitType, StepRow, PTL DEF Spec

-----------------------------------------------------------------------------
(* ForecastServing: what an answer is made of.                             *)

Data == [of : Nat, bars : Int, market : Int, section : Int]

Places ==
  {"idle", "reads", "stores", "model", "loads", "bars", "series", "keeps series",
   "market", "section", "keeps section", "computes", "answered"}

Askings == [at : Places, asked : Int, stamp : Int, looked : Int, got : Data]

Models == [of : Nat, stamp : Int]

Series == [read : Int, stamp : Int]

Entries == [stamp : Int, forecast : Data]

ServingTypes ==
  /\ tick \in Nat /\ dbFailed \in Int /\ dbFailed <= tick
  /\ \E n \in Nat \ {0} : since \in [1..n -> Int]
  /\ \A m \in DOMAIN since : Never <= since[m] /\ since[m] <= tick
  /\ model \in Models /\ market \in Series /\ sections \in Series
  /\ \A m \in DOMAIN forecasts : forecasts[m] \in Entries
  /\ asker \in [Askers -> Askings]

\* No model newer than this one was active before a time, unless the database has
\* failed since.
CurrentBefore(m, t) ==
  \A newer \in DOMAIN since : newer > m /\ since[newer] < t => dbFailed >= since[newer]

\* The market series and the section were read not long before the bars they go with.
MarketFits(data) == data.bars - data.market < MarketTtl

SectionFits(data) == data.bars - data.section < ModelTtl

SharedFits ==
  /\ CurrentBefore(model.of, model.stamp) /\ model.stamp <= tick
  /\ market.stamp <= market.read /\ sections.stamp <= sections.read
  /\ \A m \in DOMAIN forecasts :
       /\ forecasts[m].forecast.of = m
       /\ forecasts[m].forecast.bars >= forecasts[m].stamp
       /\ MarketFits(forecasts[m].forecast) /\ SectionFits(forecasts[m].forecast)

\* The places at which a request has the model, the bars, the market series and the
\* section, and those at which it has a stamp for its forecast.
WithSection == {"computes", "answered"}

WithMarket == {"market", "section", "keeps section"} \cup WithSection

Stamped == {"loads", "bars", "series", "keeps series", "market", "section", "keeps section", "computes"}

WithModel == {"model", "answered"} \cup Stamped

\* What a request holds, by the place it has got to.
AskerFits(r) ==
  /\ r.at # "idle" => r.asked <= tick
  /\ r.at \in {"reads", "stores"} => r.looked = r.asked
  /\ r.at = "stores" => CurrentBefore(r.got.of, r.looked)
  /\ r.at \in WithModel => CurrentBefore(r.got.of, r.asked - ModelTtl + 1)
  /\ r.at \in Stamped => r.asked <= r.stamp /\ r.stamp <= tick
  /\ r.at \in Stamped \ {"loads"} => r.stamp <= r.got.bars /\ r.got.bars <= tick
  /\ r.at = "keeps series" => r.looked <= r.got.market /\ MarketFits(r.got)
  /\ r.at = "series" => r.looked <= tick
  /\ r.at \in WithMarket => MarketFits(r.got)
  /\ r.at = "section" => r.looked <= tick
  /\ r.at = "keeps section" => r.looked <= r.got.section /\ SectionFits(r.got)
  /\ r.at \in WithSection => SectionFits(r.got)
  /\ r.at = "answered" => r.asked - r.got.bars < ForecastTtl

ServingInv == ServingTypes /\ SharedFits /\ \A a \in Askers : AskerFits(asker[a])

LEMMA ServingConstants ==
  /\ ForecastTtl \in Nat \ {0} /\ MarketTtl \in Nat \ {0} /\ ModelTtl \in Nat \ {0}
  /\ LastTick \in Nat /\ Never \in Int /\ Never < 0
  BY ServingAssumption DEF Never

LEMMA UnknownIsData == Unknown \in Data
  BY ServingConstants DEF Unknown, NoModel, Data

LEMMA UnaskedIsIdle == Unasked \in Askings /\ Unasked.at = "idle" /\ AskerFits(Unasked)
<1>1. Unasked \in Askings /\ Unasked.at = "idle"
  BY UnknownIsData, ServingConstants DEF Unasked, Askings, Places
<1>2. QED
  BY <1>1 DEF AskerFits, WithSection, WithMarket, WithModel, Stamped

LEMMA EmptiedIsSeries == Emptied \in Series /\ Emptied.stamp = Never /\ Emptied.read = Never
  BY ServingConstants DEF Emptied, Series

\* What is known of a forecast while it is made.
LEMMA DataFilled ==
  ASSUME NEW data \in Data, NEW n \in Nat, NEW t \in Int
  PROVE  /\ [data EXCEPT !.of = n] \in Data /\ [data EXCEPT !.of = n].of = n
         /\ [data EXCEPT !.bars = t] \in Data /\ [data EXCEPT !.bars = t].bars = t
         /\ [data EXCEPT !.bars = t].of = data.of
         /\ [data EXCEPT !.market = t] \in Data /\ [data EXCEPT !.market = t].market = t
         /\ [data EXCEPT !.market = t].of = data.of /\ [data EXCEPT !.market = t].bars = data.bars
         /\ [data EXCEPT !.section = t] \in Data /\ [data EXCEPT !.section = t].section = t
         /\ [data EXCEPT !.section = t].of = data.of /\ [data EXCEPT !.section = t].bars = data.bars
         /\ [data EXCEPT !.section = t].market = data.market
  BY DEF Data

LEMMA ServingInitEstablishes == ServingInit => ServingInv
<1> SUFFICES ASSUME ServingInit PROVE ServingInv
  OBVIOUS
<1>1. /\ tick = 0 /\ dbFailed = Never /\ since = [m \in {1} |-> Never]
      /\ model = [of |-> 0, stamp |-> Never] /\ market = Emptied /\ sections = Emptied
      /\ DOMAIN forecasts = {} /\ asker = [a \in Askers |-> Unasked]
  BY DEF ServingInit, Shipped, NoModel
<1>2. since \in [1..1 -> Int]
  BY <1>1, ServingConstants
<1>3. model \in Models
  BY <1>1, ServingConstants DEF Models
<1>4. ServingTypes
  BY <1>1, <1>2, <1>3, UnaskedIsIdle, EmptiedIsSeries, ServingConstants DEF ServingTypes
<1>5. CurrentBefore(model.of, model.stamp)
  <2>1. \A m \in DOMAIN since : since[m] = Never
    BY <1>1
  <2>2. model.stamp = Never /\ Never \in Int
    BY <1>1, ServingConstants
  <2>3. QED
    BY <2>1, <2>2 DEF CurrentBefore
<1>6. SharedFits
  <2>1. model.stamp <= tick
    BY <1>1, ServingConstants
  <2>2. QED
    BY <1>1, <1>5, <2>1, EmptiedIsSeries, ServingConstants DEF SharedFits
<1>7. \A a \in Askers : AskerFits(asker[a])
  BY <1>1, UnaskedIsIdle
<1>8. QED
  BY <1>4, <1>6, <1>7 DEF ServingInv

\* The active model is the newest.
LEMMA ActiveIsNewest ==
  ASSUME ServingTypes
  PROVE  \E n \in Nat \ {0} : DOMAIN since = 1..n /\ since \in [1..n -> Int] /\ Active = n
<1>1. PICK n \in Nat \ {0} : since \in [1..n -> Int]
  BY DEF ServingTypes
<1>2. DOMAIN since = 1..n /\ n \in 1..n /\ \A m \in 1..n : n >= m
  BY <1>1
<1>3. Active \in 1..n /\ \A m \in 1..n : Active >= m
  BY <1>2 DEF Active, Max
<1>4. Active = n
  BY <1>2, <1>3
<1>5. QED
  BY <1>1, <1>2, <1>4

\* What holds of a request holds on when time passes or the database fails.
LEMMA FitsOn ==
  ASSUME ServingTypes, NEW r \in Askings, AskerFits(r), since' = since,
         tick' \in Nat, tick' >= tick, dbFailed' \in Int, dbFailed' >= dbFailed
  PROVE  AskerFits(r)'
<1>1. /\ tick \in Nat /\ dbFailed \in Int /\ r.asked \in Int /\ r.stamp \in Int
      /\ r.looked \in Int /\ r.got.bars \in Int /\ r.got.of \in Nat
      /\ \A m \in DOMAIN since : since[m] \in Int
  BY DEF ServingTypes, Askings, Data
<1>2. \A m, t : CurrentBefore(m, t) => CurrentBefore(m, t)'
  BY <1>1 DEF CurrentBefore
<1>3. /\ CurrentBefore(r.got.of, r.looked) => CurrentBefore(r.got.of, r.looked)'
      /\ CurrentBefore(r.got.of, r.asked - ModelTtl + 1) =>
           CurrentBefore(r.got.of, r.asked - ModelTtl + 1)'
  BY <1>2
<1>4. /\ r.at # "idle" => r.asked <= tick'
      /\ r.at \in Stamped => r.asked <= r.stamp /\ r.stamp <= tick'
      /\ r.at \in Stamped \ {"loads"} => r.stamp <= r.got.bars /\ r.got.bars <= tick'
      /\ r.at = "series" => r.looked <= tick'
      /\ r.at = "section" => r.looked <= tick'
  <2>1. /\ r.at # "idle" => r.asked <= tick
        /\ r.at \in Stamped => r.asked <= r.stamp /\ r.stamp <= tick
        /\ r.at \in Stamped \ {"loads"} => r.stamp <= r.got.bars /\ r.got.bars <= tick
        /\ r.at = "series" => r.looked <= tick
        /\ r.at = "section" => r.looked <= tick
    BY DEF AskerFits
  <2>2. QED
    BY <1>1, <2>1
<1>5. QED
  BY <1>3, <1>4 DEF AskerFits, MarketFits, SectionFits

\* A request moves and the caches stay as they are.
LEMMA OneMoves ==
  ASSUME ServingInv, NEW a \in Askers, NEW next \in Askings, asker' = [asker EXCEPT ![a] = next],
         AskerFits(next)', ServingTypes', SharedFits', since' = since, tick' = tick, dbFailed' >= dbFailed
  PROVE  ServingInv'
<1>1. tick' \in Nat /\ tick' >= tick /\ dbFailed' \in Int
  BY DEF ServingInv, ServingTypes
<1>2. asker \in [Askers -> Askings] /\ ServingTypes
  BY DEF ServingInv, ServingTypes
<1>3. ASSUME NEW other \in Askers PROVE AskerFits(asker[other])'
  <2>1. CASE other = a
    BY <1>2, <2>1
  <2>2. CASE other # a
    <3>1. PICK r \in Askings : r = asker[other]
      BY <1>2
    <3>2. AskerFits(r)
      BY <3>1 DEF ServingInv
    <3>3. AskerFits(r)'
      BY <1>1, <1>2, <3>2, FitsOn
    <3>4. asker'[other] = r
      BY <1>2, <2>2, <3>1
    <3>5. QED
      BY <3>3, <3>4
  <2>3. QED
    BY <2>1, <2>2
<1>4. QED
  BY <1>3 DEF ServingInv

\* The same when nothing is written to the caches.
LEMMA OneMovesAlone ==
  ASSUME ServingInv, NEW a \in Askers, NEW next \in Askings, asker' = [asker EXCEPT ![a] = next],
         AskerFits(next), UNCHANGED <<tick, since, dbFailed, model, market, sections, forecasts>>
  PROVE  ServingInv'
<1>1. asker' \in [Askers -> Askings]
  BY DEF ServingInv, ServingTypes
<1>2. /\ tick' = tick /\ since' = since /\ dbFailed' = dbFailed /\ model' = model
      /\ market' = market /\ sections' = sections /\ forecasts' = forecasts
  OBVIOUS
<1>3. ServingTypes'
  BY <1>1, <1>2 DEF ServingInv, ServingTypes
<1>4. SharedFits'
  BY <1>2 DEF ServingInv, SharedFits, CurrentBefore, MarketFits, SectionFits
<1>5. AskerFits(next)'
  BY <1>2 DEF AskerFits, CurrentBefore, MarketFits, SectionFits
<1>6. dbFailed' >= dbFailed
  BY <1>2 DEF ServingInv, ServingTypes
<1>7. QED
  BY <1>2, <1>3, <1>4, <1>5, <1>6, OneMoves

LEMMA AskForecastKeeps == ASSUME ServingInv, NEW a \in Askers, AskForecast(a) PROVE ServingInv'
<1>1. UNCHANGED <<tick, since, dbFailed, model, market, sections, forecasts>>
  BY DEF AskForecast, caches
<1>2. tick \in Nat /\ model \in Models /\ model.of \in Nat /\ model.stamp \in Int
  BY DEF ServingInv, ServingTypes, Models
<1>3. CASE model.of # NoModel /\ tick - model.stamp < ModelTtl
  <2>1. PICK data : data = [Unknown EXCEPT !.of = model.of]
    OBVIOUS
  <2>2. data \in Data /\ data.of = model.of
    <3>1. 0 \in Int
      OBVIOUS
    <3>2. QED
      BY <1>2, <2>1, <3>1, UnknownIsData, DataFilled
  <2>3. PICK next : next = [at |-> "model", asked |-> tick, stamp |-> Never, looked |-> Never, got |-> data]
    OBVIOUS
  <2>4. next \in Askings /\ next.at = "model" /\ next.asked = tick /\ next.got = data
    BY <1>2, <2>2, <2>3, ServingConstants DEF Askings, Places
  <2>5. asker' = [asker EXCEPT ![a] = next]
    BY <1>3, <2>1, <2>3 DEF AskForecast, Asks
  <2>6. CurrentBefore(data.of, tick - ModelTtl + 1)
    <3>1. CurrentBefore(model.of, model.stamp)
      BY DEF ServingInv, SharedFits
    <3>2. tick - ModelTtl + 1 <= model.stamp
      BY <1>2, <1>3, ServingConstants
    <3>3. tick - ModelTtl + 1 \in Int /\ \A m \in DOMAIN since : since[m] \in Int
      BY <1>2, ServingConstants DEF ServingInv, ServingTypes
    <3>4. QED
      BY <1>2, <2>2, <3>1, <3>2, <3>3 DEF CurrentBefore
  <2>7. AskerFits(next)
    BY <1>2, <2>4, <2>6 DEF AskerFits, WithSection, WithMarket, WithModel, Stamped
  <2>8. QED
    BY <1>1, <2>4, <2>5, <2>7, OneMovesAlone
<1>4. CASE ~(model.of # NoModel /\ tick - model.stamp < ModelTtl)
  <2>1. PICK next : next = [at |-> "reads", asked |-> tick, stamp |-> Never, looked |-> tick, got |-> Unknown]
    OBVIOUS
  <2>2. next \in Askings /\ next.at = "reads" /\ next.asked = tick /\ next.looked = tick
    BY <1>2, <2>1, UnknownIsData, ServingConstants DEF Askings, Places
  <2>3. asker' = [asker EXCEPT ![a] = next]
    BY <1>4, <2>1 DEF AskForecast, Asks
  <2>4. AskerFits(next)
    BY <1>2, <2>2 DEF AskerFits, WithSection, WithMarket, WithModel, Stamped
  <2>5. QED
    BY <1>1, <2>2, <2>3, <2>4, OneMovesAlone
<1>5. QED
  BY <1>3, <1>4

\* Where a request goes, and what it takes along.
LEMMA Going ==
  ASSUME ServingTypes, NEW a \in Askers, NEW at \in Places, NEW stamp \in Int, NEW looked \in Int,
         NEW got \in Data, Goes(a, at, stamp, looked, got)
  PROVE  \E next \in Askings :
           /\ next.at = at /\ next.asked = asker[a].asked /\ next.stamp = stamp
           /\ next.looked = looked /\ next.got = got
           /\ asker' = [asker EXCEPT ![a] = next]
<1>1. asker \in [Askers -> Askings] /\ asker[a].asked \in Int
  BY DEF ServingTypes, Askings
<1>2. PICK next :
        next = [at |-> at, asked |-> asker[a].asked, stamp |-> stamp, looked |-> looked, got |-> got]
  OBVIOUS
<1>3. /\ next \in Askings
      /\ next.at = at /\ next.asked = asker[a].asked /\ next.stamp = stamp
      /\ next.looked = looked /\ next.got = got
  BY <1>1, <1>2 DEF Askings
<1>4. asker' = [asker EXCEPT ![a] = next]
  BY <1>1, <1>2 DEF Goes
<1>5. QED
  BY <1>3, <1>4

\* A request as it is before its step.
LEMMA AskerHas ==
  ASSUME ServingInv, NEW a \in Askers
  PROVE  /\ asker[a] \in Askings /\ Got(a) \in Data /\ asker[a].stamp \in Int
         /\ asker[a].looked \in Int /\ asker[a].asked \in Int
         /\ AskerFits(asker[a]) /\ tick \in Nat
  BY DEF ServingInv, ServingTypes, Askings, Got

\* Between the look-up of the model and the answer: what every such step starts from.
LEMMA StampedHas ==
  ASSUME ServingInv, NEW a \in Askers, asker[a].at \in Stamped
  PROVE  /\ asker[a].asked <= asker[a].stamp /\ asker[a].stamp <= tick /\ asker[a].asked <= tick
         /\ CurrentBefore(Got(a).of, asker[a].asked - ModelTtl + 1)
         /\ asker[a].asked \in Int /\ asker[a].stamp \in Int /\ asker[a].looked \in Int
         /\ tick \in Nat /\ Got(a) \in Data
         /\ Got(a).bars \in Int /\ Got(a).market \in Int /\ Got(a).section \in Int
         /\ asker[a].at # "loads" => asker[a].stamp <= Got(a).bars /\ Got(a).bars <= tick
<1>1. asker[a].at \in WithModel /\ asker[a].at # "idle"
  BY DEF WithModel, Stamped
<1>2. QED
  BY <1>1, AskerHas DEF AskerFits, Got, Data

LEMMA ReadModelKeeps == ASSUME ServingInv, NEW a \in Askers, ReadModel(a) PROVE ServingInv'
<1>1. /\ asker[a].at = "reads" /\ asker[a].looked = asker[a].asked /\ asker[a].asked <= tick
      /\ asker[a].looked \in Int /\ tick \in Nat
  BY AskerHas DEF ReadModel, At, AskerFits
<1>2. /\ UNCHANGED <<tick, since, model, market, sections, forecasts>>
      /\ ServingTypes /\ SharedFits /\ model.of \in Nat /\ dbFailed \in Int
      /\ \A m \in DOMAIN since : since[m] \in Int /\ since[m] <= tick
  BY DEF ReadModel, caches, ServingInv, ServingTypes, Models
<1>3. ASSUME NEW m \in Nat, Goes(a, "stores", Never, asker[a].looked, [Unknown EXCEPT !.of = m]),
             dbFailed' \in Int, dbFailed' >= dbFailed, dbFailed' <= tick, CurrentBefore(m, asker[a].looked)'
      PROVE  ServingInv'
  <2>1. PICK data : data = [Unknown EXCEPT !.of = m]
    OBVIOUS
  <2>2. data \in Data /\ data.of = m
    <3>1. m \in Nat /\ 0 \in Int
      OBVIOUS
    <3>2. QED
      BY <2>1, <3>1, UnknownIsData, DataFilled
  <2>3. "stores" \in Places /\ Never \in Int
    BY ServingConstants DEF Places
  <2>4. PICK next \in Askings :
          /\ next.at = "stores" /\ next.asked = asker[a].asked /\ next.looked = asker[a].looked
          /\ next.got = data /\ asker' = [asker EXCEPT ![a] = next]
    BY <1>1, <1>2, <1>3, <2>1, <2>2, <2>3, Going
  <2>5. PICK stamp \in Int : stamp = asker[a].looked
    BY <1>1
  <2>6. CurrentBefore(m, stamp)'
    <3>1. stamp = asker[a].looked /\ asker'[a].looked = asker[a].looked
      BY <1>2, <2>4, <2>5 DEF ServingTypes
    <3>2. QED
      BY <1>3, <3>1
  <2>7. AskerFits(next)'
    BY <1>1, <1>2, <2>2, <2>4, <2>5, <2>6 DEF AskerFits, WithSection, WithMarket, WithModel, Stamped
  <2>8. ServingTypes'
    BY <1>2, <1>3, <2>4 DEF ServingTypes
  <2>9. SharedFits'
    BY <1>2, <1>3 DEF SharedFits, CurrentBefore, MarketFits, SectionFits
  <2>10. QED
    BY <1>2, <1>3, <2>4, <2>7, <2>8, <2>9, OneMoves
<1>4. CASE dbFailed' = dbFailed /\ Goes(a, "stores", Never, asker[a].looked, [Unknown EXCEPT !.of = Active])
  <2>1. PICK n \in Nat \ {0} : DOMAIN since = 1..n /\ Active = n
    BY <1>2, ActiveIsNewest
  <2>2. CurrentBefore(n, asker[a].looked)'
    BY <1>2, <2>1 DEF CurrentBefore
  <2>3. dbFailed' \in Int /\ dbFailed' >= dbFailed /\ dbFailed' <= tick /\ n \in Nat
    BY <1>2, <1>4 DEF ServingTypes
  <2>4. Goes(a, "stores", Never, asker[a].looked, [Unknown EXCEPT !.of = n])
    BY <1>4, <2>1
  <2>5. QED
    BY <1>3, <2>2, <2>3, <2>4
<1>5. CASE dbFailed' = tick /\ Goes(a, "stores", Never, asker[a].looked, [Unknown EXCEPT !.of = AtHand])
  <2>1. \A m, t : CurrentBefore(m, t)'
    BY <1>2, <1>5 DEF CurrentBefore
  <2>2. tick >= dbFailed
    BY DEF ServingInv, ServingTypes
  <2>3. AtHand \in Nat
    BY <1>2 DEF AtHand, Shipped
  <2>4. QED
    BY <1>1, <1>2, <1>3, <1>5, <2>1, <2>2, <2>3
<1>6. QED
  BY <1>4, <1>5 DEF ReadModel

LEMMA StoreModelKeeps == ASSUME ServingInv, NEW a \in Askers, StoreModel(a) PROVE ServingInv'
<1>1. /\ asker[a].at = "stores" /\ asker[a].looked = asker[a].asked /\ asker[a].asked <= tick
      /\ CurrentBefore(Got(a).of, asker[a].looked)
      /\ asker[a].looked \in Int /\ tick \in Nat /\ Got(a) \in Data /\ Got(a).of \in Nat
  BY AskerHas DEF StoreModel, At, AskerFits, Got, Data
<1>2. /\ UNCHANGED <<tick, since, dbFailed, market, sections, forecasts>>
      /\ ServingTypes /\ SharedFits
      /\ \A m \in DOMAIN since : since[m] \in Int
  BY DEF StoreModel, ServingInv, ServingTypes
<1>3. Goes(a, "model", Never, Never, Got(a)) /\ model' = [of |-> Got(a).of, stamp |-> asker[a].looked]
  BY DEF StoreModel
<1>4. PICK data \in Data : data = Got(a)
  BY <1>1
<1>5. "model" \in Places /\ Never \in Int
  BY ServingConstants DEF Places
<1>6. PICK next \in Askings :
        /\ next.at = "model" /\ next.asked = asker[a].asked /\ next.got = data
        /\ asker' = [asker EXCEPT ![a] = next]
  BY <1>2, <1>3, <1>4, <1>5, Going
<1>7. model' \in Models /\ model'.of = data.of /\ model'.stamp = asker[a].looked
  BY <1>1, <1>3, <1>4 DEF Models
<1>8. CurrentBefore(data.of, asker[a].asked - ModelTtl + 1)
  <2>1. PICK asked \in Int : asked = asker[a].asked
    BY <1>1
  <2>2. CurrentBefore(data.of, asked)
    BY <1>1, <1>4, <2>1
  <2>3. asked - ModelTtl + 1 <= asked
    BY ServingConstants
  <2>4. asked - ModelTtl + 1 \in Int
    BY ServingConstants
  <2>5. CurrentBefore(data.of, asked - ModelTtl + 1)
    BY <1>2, <2>2, <2>3, <2>4 DEF CurrentBefore
  <2>6. QED
    BY <2>1, <2>5
<1>9. AskerFits(next)'
  <2>1. AskerFits(next)
    BY <1>1, <1>6, <1>8 DEF AskerFits, WithSection, WithMarket, WithModel, Stamped
  <2>2. QED
    BY <1>2, <2>1 DEF AskerFits, CurrentBefore, MarketFits, SectionFits
<1>10. ServingTypes'
  BY <1>2, <1>6, <1>7 DEF ServingTypes
<1>11. SharedFits'
  <2>1. CurrentBefore(model.of, model.stamp)'
    <3>1. CurrentBefore(model'.of, model'.stamp)
      BY <1>1, <1>4, <1>7
    <3>2. QED
      BY <1>2, <3>1 DEF CurrentBefore
  <2>2. QED
    BY <1>1, <1>2, <1>7, <2>1 DEF SharedFits, MarketFits, SectionFits
<1>12. dbFailed' >= dbFailed
  BY <1>2 DEF ServingTypes
<1>13. QED
  BY <1>2, <1>6, <1>9, <1>10, <1>11, <1>12, OneMoves

LEMMA LookUpKeeps == ASSUME ServingInv, NEW a \in Askers, LookUp(a) PROVE ServingInv'
<1>1. /\ asker[a].at = "model" /\ asker[a].asked <= tick
      /\ CurrentBefore(Got(a).of, asker[a].asked - ModelTtl + 1)
      /\ asker[a].asked \in Int /\ tick \in Nat /\ Got(a) \in Data
  BY AskerHas DEF LookUp, At, AskerFits, WithModel, Got
<1>2. UNCHANGED <<tick, since, dbFailed, model, market, sections, forecasts>> /\ ServingTypes
  BY DEF LookUp, caches, ServingInv
<1>3. PICK m : m = Got(a).of
  OBVIOUS
<1>4. CASE m \in DOMAIN forecasts /\ tick - forecasts[m].stamp < ForecastTtl
  <2>1. /\ forecasts[m].forecast \in Data /\ forecasts[m].stamp \in Int
        /\ forecasts[m].forecast.of = m /\ forecasts[m].forecast.bars >= forecasts[m].stamp
        /\ MarketFits(forecasts[m].forecast) /\ SectionFits(forecasts[m].forecast)
    BY <1>4 DEF ServingInv, ServingTypes, SharedFits, Entries
  <2>2. PICK data \in Data : data = forecasts[m].forecast
    BY <2>1
  <2>3. Goes(a, "answered", Never, Never, data)
    BY <1>3, <1>4, <2>2 DEF LookUp
  <2>4. "answered" \in Places /\ Never \in Int
    BY ServingConstants DEF Places
  <2>5. PICK next \in Askings :
          /\ next.at = "answered" /\ next.asked = asker[a].asked /\ next.got = data
          /\ asker' = [asker EXCEPT ![a] = next]
    BY <1>2, <2>3, <2>4, Going
  <2>6. data.of = m /\ MarketFits(data) /\ SectionFits(data)
    BY <2>1, <2>2
  <2>7. next.asked - data.bars < ForecastTtl
    <3>1. PICK stamp \in Int, bars \in Int : stamp = forecasts[m].stamp /\ bars = data.bars
      BY <2>1 DEF Data
    <3>2. bars >= stamp /\ tick - stamp < ForecastTtl
      BY <1>4, <2>1, <2>2, <3>1
    <3>3. asker[a].asked - bars < ForecastTtl
      BY <1>1, <3>2, ServingConstants
    <3>4. QED
      BY <2>5, <3>1, <3>3
  <2>8. AskerFits(next)
    BY <1>1, <1>3, <2>5, <2>6, <2>7 DEF AskerFits, WithSection, WithMarket, WithModel, Stamped
  <2>9. QED
    BY <1>2, <2>5, <2>8, OneMovesAlone
<1>5. CASE ~(m \in DOMAIN forecasts /\ tick - forecasts[m].stamp < ForecastTtl)
  <2>1. PICK data \in Data : data = Got(a)
    BY <1>1
  <2>2. Goes(a, "loads", tick, Never, data)
    BY <1>3, <1>5, <2>1 DEF LookUp
  <2>3. "loads" \in Places /\ tick \in Int /\ Never \in Int
    BY <1>1, ServingConstants DEF Places
  <2>4. PICK next \in Askings :
          /\ next.at = "loads" /\ next.asked = asker[a].asked /\ next.stamp = tick /\ next.got = data
          /\ asker' = [asker EXCEPT ![a] = next]
    BY <1>2, <2>2, <2>3, Going
  <2>5. AskerFits(next)
    BY <1>1, <2>1, <2>4 DEF AskerFits, WithSection, WithMarket, WithModel, Stamped
  <2>6. QED
    BY <1>2, <2>4, <2>5, OneMovesAlone
<1>6. QED
  BY <1>4, <1>5

LEMMA LoadBarsKeeps == ASSUME ServingInv, NEW a \in Askers, LoadBars(a) PROVE ServingInv'
<1>1. asker[a].at = "loads" /\ asker[a].at \in Stamped
  BY DEF LoadBars, At, Stamped
<1>2. UNCHANGED <<tick, since, dbFailed, model, market, sections, forecasts>> /\ ServingTypes
  BY DEF LoadBars, caches, ServingInv
<1>3. CASE Goes(a, "bars", asker[a].stamp, Never, [Got(a) EXCEPT !.bars = tick])
  <2>1. PICK data : data = [Got(a) EXCEPT !.bars = tick]
    OBVIOUS
  <2>2. tick \in Int /\ 0 \in Nat /\ Got(a) \in Data
    BY <1>1, StampedHas
  <2>3. data \in Data /\ data.of = Got(a).of /\ data.bars = tick
    BY <2>1, <2>2, DataFilled
  <2>4. "bars" \in Places /\ Never \in Int /\ asker[a].stamp \in Int
    BY <1>1, StampedHas, ServingConstants DEF Places
  <2>5. PICK next \in Askings :
          /\ next.at = "bars" /\ next.asked = asker[a].asked /\ next.stamp = asker[a].stamp
          /\ next.got = data /\ asker' = [asker EXCEPT ![a] = next]
    BY <1>2, <1>3, <2>1, <2>3, <2>4, Going
  <2>6. /\ next.at \in Stamped \ {"loads"} /\ next.at \in WithModel
        /\ next.at \notin WithMarket /\ next.at \notin WithSection
    BY <2>5 DEF WithSection, WithMarket, WithModel, Stamped
  <2>8. /\ asker[a].asked <= asker[a].stamp /\ asker[a].stamp <= tick /\ asker[a].asked <= tick
        /\ CurrentBefore(Got(a).of, asker[a].asked - ModelTtl + 1)
    BY <1>1, StampedHas
  <2>9. AskerFits(next)
    BY <2>2, <2>3, <2>5, <2>6, <2>8 DEF AskerFits
  <2>7. QED
    BY <1>2, <2>5, <2>9, OneMovesAlone
<1>4. CASE asker' = [asker EXCEPT ![a] = Unasked]
  BY <1>2, <1>4, UnaskedIsIdle, OneMovesAlone
<1>5. QED
  BY <1>3, <1>4 DEF LoadBars

\* A request that has its bars goes on with the same model and bars.
LEMMA GoesOn ==
  ASSUME ServingInv, NEW a \in Askers, asker[a].at \in Stamped \ {"loads"},
         UNCHANGED <<tick, since, dbFailed, model, market, sections, forecasts>>,
         NEW at \in Stamped \ {"loads"}, NEW looked \in Int, NEW data \in Data,
         data.of = Got(a).of, data.bars = Got(a).bars,
         Goes(a, at, asker[a].stamp, looked, data),
         at \in {"series", "section"} => looked <= tick,
         at = "keeps series" => looked <= data.market /\ MarketFits(data),
         at \in {"market", "section", "keeps section", "computes"} => MarketFits(data),
         at = "keeps section" => looked <= data.section,
         at \in {"keeps section", "computes"} => SectionFits(data)
  PROVE  ServingInv'
<1>1. at \in Places /\ ServingTypes
  BY DEF Stamped, Places, ServingInv
<1>2. PICK stamp \in Int, asked \in Int : stamp = asker[a].stamp /\ asked = asker[a].asked
  BY StampedHas
<1>3. PICK next : next = [at |-> at, asked |-> asked, stamp |-> stamp, looked |-> looked, got |-> data]
  OBVIOUS
<1>4. /\ next \in Askings
      /\ next.at = at /\ next.asked = asker[a].asked /\ next.stamp = stamp
      /\ next.looked = looked /\ next.got = data /\ asker' = [asker EXCEPT ![a] = next]
  <2>1. looked \in Int /\ data \in Data
    OBVIOUS
  <2>2. next \in Askings /\ next.asked = asked
    BY <1>1, <1>2, <1>3, <2>1 DEF Askings
  <2>3. asker' = [asker EXCEPT ![a] = next]
    BY <1>1, <1>2, <1>3 DEF Goes, ServingTypes
  <2>4. QED
    BY <1>2, <1>3, <2>2, <2>3
<1>5. /\ next.at \notin {"idle", "reads", "stores", "answered"} /\ next.at \in WithModel
      /\ next.at \in Stamped \ {"loads"}
      /\ next.at \in WithMarket => next.at \in {"market", "section", "keeps section", "computes"}
      /\ next.at \in WithSection => next.at = "computes"
  BY <1>4 DEF WithSection, WithMarket, WithModel, Stamped
<1>6. /\ next.asked <= next.stamp /\ next.stamp <= tick /\ next.asked <= tick
      /\ CurrentBefore(next.got.of, next.asked - ModelTtl + 1)
      /\ next.stamp <= next.got.bars /\ next.got.bars <= tick
  BY <1>2, <1>4, StampedHas
<1>7. AskerFits(next)
  BY <1>4, <1>5, <1>6 DEF AskerFits
<1>8. QED
  BY <1>4, <1>7, OneMovesAlone

LEMMA LookForMarketKeeps == ASSUME ServingInv, NEW a \in Askers, LookForMarket(a) PROVE ServingInv'
<1>1. asker[a].at \in Stamped \ {"loads"} /\ "market" \in Stamped \ {"loads"} /\ "series" \in Stamped \ {"loads"}
  BY DEF LookForMarket, At, Stamped
<1>2. UNCHANGED <<tick, since, dbFailed, model, market, sections, forecasts>>
  BY DEF LookForMarket, caches
<1>3. /\ market.read \in Int /\ market.stamp \in Int /\ market.stamp <= market.read
      /\ tick \in Nat /\ Got(a) \in Data /\ Got(a).bars \in Int /\ Got(a).bars <= tick /\ Never \in Int
  BY <1>1, StampedHas, ServingConstants DEF ServingInv, ServingTypes, SharedFits, Series
<1>4. CASE tick - market.stamp < MarketTtl
  <2>1. PICK data : data = [Got(a) EXCEPT !.market = market.read]
    OBVIOUS
  <2>2. data \in Data /\ data.of = Got(a).of /\ data.bars = Got(a).bars /\ data.market = market.read
    <3>1. 0 \in Nat
      OBVIOUS
    <3>2. QED
      BY <1>3, <2>1, <3>1, DataFilled
  <2>3. MarketFits(data)
    BY <1>3, <1>4, <2>2, ServingConstants DEF MarketFits
  <2>4. Goes(a, "market", asker[a].stamp, Never, data)
    BY <1>4, <2>1 DEF LookForMarket
  <2>5. QED
    BY <1>1, <1>2, <1>3, <2>2, <2>3, <2>4, GoesOn
<1>5. CASE ~(tick - market.stamp < MarketTtl)
  <2>1. Goes(a, "series", asker[a].stamp, tick, Got(a))
    BY <1>5 DEF LookForMarket
  <2>2. tick \in Int /\ tick <= tick
    BY <1>3
  <2>3. QED
    BY <1>1, <1>2, <1>3, <2>1, <2>2, GoesOn
<1>6. QED
  BY <1>4, <1>5

LEMMA ReadMarketKeeps == ASSUME ServingInv, NEW a \in Askers, ReadMarket(a) PROVE ServingInv'
<1>1. /\ asker[a].at = "series" /\ asker[a].at \in Stamped \ {"loads"}
      /\ "keeps series" \in Stamped \ {"loads"}
  BY DEF ReadMarket, At, Stamped
<1>2. UNCHANGED <<tick, since, dbFailed, model, market, sections, forecasts>>
  BY DEF ReadMarket, caches
<1>3. /\ tick \in Int /\ Got(a) \in Data /\ Got(a).bars \in Int /\ Got(a).bars <= tick
      /\ asker[a].looked \in Int /\ asker[a].looked <= tick /\ 0 \in Nat
  <2>1. AskerFits(asker[a])
    BY AskerHas
  <2>2. asker[a].looked <= tick
    BY <1>1, <2>1 DEF AskerFits
  <2>3. asker[a].at \in Stamped /\ asker[a].at # "loads"
    BY <1>1
  <2>4. /\ tick \in Nat /\ Got(a) \in Data /\ Got(a).bars \in Int /\ Got(a).bars <= tick
        /\ asker[a].looked \in Int
    BY <2>3, StampedHas
  <2>5. QED
    BY <2>2, <2>4
<1>4. PICK data : data = [Got(a) EXCEPT !.market = tick]
  OBVIOUS
<1>5. data \in Data /\ data.of = Got(a).of /\ data.bars = Got(a).bars /\ data.market = tick
  BY <1>3, <1>4, DataFilled
<1>6. MarketFits(data)
  BY <1>3, <1>5, ServingConstants DEF MarketFits
<1>7. Goes(a, "keeps series", asker[a].stamp, asker[a].looked, data)
  BY <1>4 DEF ReadMarket
<1>8. asker[a].looked <= data.market
  BY <1>3, <1>5
<1>9. QED
  BY <1>1, <1>2, <1>3, <1>5, <1>6, <1>7, <1>8, GoesOn

LEMMA LookForSectionKeeps == ASSUME ServingInv, NEW a \in Askers, LookForSection(a) PROVE ServingInv'
<1>1. /\ asker[a].at = "market" /\ asker[a].at \in Stamped \ {"loads"}
      /\ "computes" \in Stamped \ {"loads"} /\ "section" \in Stamped \ {"loads"}
  BY DEF LookForSection, At, Stamped
<1>2. UNCHANGED <<tick, since, dbFailed, model, market, sections, forecasts>>
  BY DEF LookForSection, caches
<1>3. /\ sections.read \in Int /\ sections.stamp \in Int /\ sections.stamp <= sections.read
      /\ tick \in Nat /\ Got(a) \in Data /\ Got(a).bars \in Int /\ Got(a).bars <= tick /\ Never \in Int
  BY <1>1, StampedHas, ServingConstants DEF ServingInv, ServingTypes, SharedFits, Series
<1>4. MarketFits(Got(a))
  BY <1>1, AskerHas DEF AskerFits, WithMarket, Got
<1>5. CASE tick - sections.stamp < ModelTtl
  <2>1. PICK data : data = [Got(a) EXCEPT !.section = sections.read]
    OBVIOUS
  <2>2. /\ data \in Data /\ data.of = Got(a).of /\ data.bars = Got(a).bars
        /\ data.market = Got(a).market /\ data.section = sections.read
    <3>1. 0 \in Nat
      OBVIOUS
    <3>2. QED
      BY <1>3, <2>1, <3>1, DataFilled
  <2>3. SectionFits(data) /\ MarketFits(data)
    BY <1>3, <1>4, <1>5, <2>2, ServingConstants DEF SectionFits, MarketFits
  <2>4. Goes(a, "computes", asker[a].stamp, Never, data)
    BY <1>5, <2>1 DEF LookForSection
  <2>5. QED
    BY <1>1, <1>2, <1>3, <2>2, <2>3, <2>4, GoesOn
<1>6. CASE ~(tick - sections.stamp < ModelTtl)
  <2>1. Goes(a, "section", asker[a].stamp, tick, Got(a))
    BY <1>6 DEF LookForSection
  <2>2. tick \in Int /\ tick <= tick
    BY <1>3
  <2>3. QED
    BY <1>1, <1>2, <1>3, <1>4, <2>1, <2>2, GoesOn
<1>7. QED
  BY <1>5, <1>6

LEMMA ReadSectionKeeps == ASSUME ServingInv, NEW a \in Askers, ReadSection(a) PROVE ServingInv'
<1>1. /\ asker[a].at = "section" /\ asker[a].at \in Stamped \ {"loads"}
      /\ "keeps section" \in Stamped \ {"loads"}
  BY DEF ReadSection, At, Stamped
<1>2. UNCHANGED <<tick, since, dbFailed, model, market, sections, forecasts>>
  BY DEF ReadSection, caches
<1>3. /\ tick \in Int /\ Got(a) \in Data /\ Got(a).bars \in Int /\ Got(a).bars <= tick
      /\ asker[a].looked \in Int /\ asker[a].looked <= tick /\ 0 \in Nat
  <2>1. AskerFits(asker[a])
    BY AskerHas
  <2>2. asker[a].looked <= tick
    BY <1>1, <2>1 DEF AskerFits
  <2>3. asker[a].at \in Stamped /\ asker[a].at # "loads"
    BY <1>1
  <2>4. /\ tick \in Nat /\ Got(a) \in Data /\ Got(a).bars \in Int /\ Got(a).bars <= tick
        /\ asker[a].looked \in Int
    BY <2>3, StampedHas
  <2>5. QED
    BY <2>2, <2>4
<1>4. MarketFits(Got(a))
  BY <1>1, AskerHas DEF AskerFits, WithMarket, Got
<1>5. PICK data : data = [Got(a) EXCEPT !.section = tick]
  OBVIOUS
<1>6. /\ data \in Data /\ data.of = Got(a).of /\ data.bars = Got(a).bars
      /\ data.market = Got(a).market /\ data.section = tick
  BY <1>3, <1>5, DataFilled
<1>7. SectionFits(data) /\ MarketFits(data)
  BY <1>3, <1>4, <1>6, ServingConstants DEF SectionFits, MarketFits
<1>8. Goes(a, "keeps section", asker[a].stamp, asker[a].looked, data)
  BY <1>5 DEF ReadSection
<1>9. asker[a].looked <= data.section
  BY <1>3, <1>6
<1>10. QED
  BY <1>1, <1>2, <1>3, <1>6, <1>7, <1>8, <1>9, GoesOn

LEMMA StoreMarketKeeps == ASSUME ServingInv, NEW a \in Askers, StoreMarket(a) PROVE ServingInv'
<1>1. asker[a].at = "keeps series" /\ asker[a].at \in Stamped /\ asker[a].at # "loads"
  BY DEF StoreMarket, At, Stamped
<1>2. /\ UNCHANGED <<tick, since, dbFailed, model, sections, forecasts>> /\ ServingTypes /\ SharedFits
      /\ Goes(a, "market", asker[a].stamp, Never, Got(a))
      /\ market' = [read |-> Got(a).market, stamp |-> asker[a].looked]
  BY DEF StoreMarket, ServingInv
<1>3. asker[a].looked <= Got(a).market /\ MarketFits(Got(a))
  BY <1>1, AskerHas DEF AskerFits, Got
<1>4. market' \in Series /\ market'.stamp <= market'.read
  BY <1>1, <1>2, <1>3, StampedHas DEF Series
<1>5. PICK data \in Data : data = Got(a)
  BY <1>1, StampedHas
<1>6. "market" \in Places /\ Never \in Int /\ asker[a].stamp \in Int
  BY <1>1, StampedHas, ServingConstants DEF Places
<1>7. PICK next \in Askings :
        /\ next.at = "market" /\ next.asked = asker[a].asked /\ next.stamp = asker[a].stamp
        /\ next.got = data /\ asker' = [asker EXCEPT ![a] = next]
  BY <1>2, <1>5, <1>6, Going
<1>8. AskerFits(next)
  BY <1>1, <1>3, <1>5, <1>7, StampedHas DEF AskerFits, WithSection, WithMarket, WithModel, Stamped
<1>9. AskerFits(next)'
  BY <1>2, <1>8 DEF AskerFits, CurrentBefore, MarketFits, SectionFits
<1>10. ServingTypes'
  BY <1>2, <1>4, <1>7 DEF ServingTypes
<1>11. SharedFits'
  BY <1>2, <1>4 DEF SharedFits, CurrentBefore, MarketFits, SectionFits
<1>12. dbFailed' >= dbFailed
  BY <1>2 DEF ServingTypes
<1>13. QED
  BY <1>2, <1>7, <1>9, <1>10, <1>11, <1>12, OneMoves

LEMMA StoreSectionKeeps == ASSUME ServingInv, NEW a \in Askers, StoreSection(a) PROVE ServingInv'
<1>1. asker[a].at = "keeps section" /\ asker[a].at \in Stamped /\ asker[a].at # "loads"
  BY DEF StoreSection, At, Stamped
<1>2. /\ UNCHANGED <<tick, since, dbFailed, model, market, forecasts>> /\ ServingTypes /\ SharedFits
      /\ Goes(a, "computes", asker[a].stamp, Never, Got(a))
      /\ sections' = [read |-> Got(a).section, stamp |-> asker[a].looked]
  BY DEF StoreSection, ServingInv
<1>3. asker[a].looked <= Got(a).section /\ MarketFits(Got(a)) /\ SectionFits(Got(a))
  BY <1>1, AskerHas DEF AskerFits, WithMarket, Got
<1>4. sections' \in Series /\ sections'.stamp <= sections'.read
  BY <1>1, <1>2, <1>3, StampedHas DEF Series
<1>5. PICK data \in Data : data = Got(a)
  BY <1>1, StampedHas
<1>6. "computes" \in Places /\ Never \in Int /\ asker[a].stamp \in Int
  BY <1>1, StampedHas, ServingConstants DEF Places
<1>7. PICK next \in Askings :
        /\ next.at = "computes" /\ next.asked = asker[a].asked /\ next.stamp = asker[a].stamp
        /\ next.got = data /\ asker' = [asker EXCEPT ![a] = next]
  BY <1>2, <1>5, <1>6, Going
<1>8. AskerFits(next)
  BY <1>1, <1>3, <1>5, <1>7, StampedHas DEF AskerFits, WithSection, WithMarket, WithModel, Stamped
<1>9. AskerFits(next)'
  BY <1>2, <1>8 DEF AskerFits, CurrentBefore, MarketFits, SectionFits
<1>10. ServingTypes'
  BY <1>2, <1>4, <1>7 DEF ServingTypes
<1>11. SharedFits'
  BY <1>2, <1>4 DEF SharedFits, CurrentBefore, MarketFits, SectionFits
<1>12. dbFailed' >= dbFailed
  BY <1>2 DEF ServingTypes
<1>13. QED
  BY <1>2, <1>7, <1>9, <1>10, <1>11, <1>12, OneMoves

LEMMA FinishKeeps == ASSUME ServingInv, NEW a \in Askers, Finish(a) PROVE ServingInv'
<1>1. /\ asker[a].at = "computes" /\ asker[a].at \in Stamped /\ asker[a].at # "loads"
      /\ asker[a].asked <= asker[a].stamp /\ asker[a].stamp <= tick
      /\ asker[a].asked <= tick /\ asker[a].stamp <= Got(a).bars /\ Got(a).bars <= tick
      /\ CurrentBefore(Got(a).of, asker[a].asked - ModelTtl + 1)
      /\ asker[a].asked \in Int /\ asker[a].stamp \in Int /\ tick \in Nat /\ Got(a) \in Data
      /\ Got(a).bars \in Int
  <2>1. asker[a].at = "computes" /\ asker[a].at \in Stamped /\ asker[a].at # "loads"
    BY DEF Finish, Keep, At, Stamped
  <2>2. QED
    BY <2>1, StampedHas
<1>0. MarketFits(Got(a)) /\ SectionFits(Got(a))
  BY <1>1, AskerHas DEF AskerFits, WithMarket, WithSection, Got
<1>2. UNCHANGED <<tick, since, dbFailed, model, market, sections>> /\ ServingTypes /\ SharedFits
  BY DEF Finish, Keep, ServingInv
<1>3. PICK data \in Data : data = Got(a)
  BY <1>1
<1>4. Goes(a, "answered", Never, Never, data)
  BY <1>3 DEF Finish, Keep
<1>5. "answered" \in Places /\ Never \in Int
  BY ServingConstants DEF Places
<1>6. PICK next \in Askings :
        /\ next.at = "answered" /\ next.asked = asker[a].asked /\ next.got = data
        /\ asker' = [asker EXCEPT ![a] = next]
  BY <1>2, <1>4, <1>5, Going
<1>7. AskerFits(next)
  <2>1. data.bars \in Int /\ asker[a].asked <= data.bars
    BY <1>1, <1>3
  <2>2. asker[a].asked - data.bars < ForecastTtl
    BY <1>1, <2>1, ServingConstants
  <2>3. QED
    BY <1>0, <1>1, <1>3, <1>6, <2>2 DEF AskerFits, WithSection, WithMarket, WithModel, Stamped
<1>8. AskerFits(next)'
  BY <1>2, <1>7 DEF AskerFits, CurrentBefore, MarketFits, SectionFits
\* The entry that is kept.
<1>9. PICK entry : entry = Entry(a, asker[a].stamp)
  OBVIOUS
<1>10. entry \in Entries /\ entry.stamp = asker[a].stamp /\ entry.forecast = data
  BY <1>1, <1>3, <1>9 DEF Entry, Entries
<1>11. Room \subseteq DOMAIN forecasts
  BY DEF Room
<1>12. forecasts' = [m \in Room \cup {data.of} |-> IF m = data.of THEN entry ELSE forecasts[m]]
  BY <1>3, <1>9 DEF Finish, Keep
<1>13. \A m \in DOMAIN forecasts' : \/ m = data.of /\ forecasts'[m] = entry
                                    \/ m \in DOMAIN forecasts /\ forecasts'[m] = forecasts[m]
  BY <1>11, <1>12
<1>14. ServingTypes'
  BY <1>2, <1>6, <1>10, <1>13 DEF ServingTypes
<1>15. \A m \in DOMAIN forecasts' :
         /\ forecasts'[m].forecast.of = m
         /\ forecasts'[m].forecast.bars >= forecasts'[m].stamp
         /\ MarketFits(forecasts'[m].forecast) /\ SectionFits(forecasts'[m].forecast)
  <2>1. /\ entry.forecast.of = data.of /\ entry.forecast.bars >= entry.stamp
        /\ MarketFits(entry.forecast) /\ SectionFits(entry.forecast)
    BY <1>0, <1>1, <1>3, <1>10
  <2>2. QED
    BY <1>2, <1>13, <2>1 DEF SharedFits
<1>16. SharedFits'
  BY <1>2, <1>15 DEF SharedFits, CurrentBefore, MarketFits, SectionFits
<1>17. dbFailed' >= dbFailed
  BY <1>2 DEF ServingTypes
<1>18. QED
  BY <1>2, <1>6, <1>8, <1>14, <1>16, <1>17, OneMoves

\* A model is trained: it is too new for anyone to miss it.
LEMMA TrainKeeps == ASSUME ServingInv, Train PROVE ServingInv'
<1>1. PICK n \in Nat \ {0} : DOMAIN since = 1..n /\ since \in [1..n -> Int] /\ Active = n
  BY ActiveIsNewest DEF ServingInv
<1>2. /\ since' = [m \in (1..n) \cup {n + 1} |-> IF m > n THEN tick ELSE since[m]]
      /\ UNCHANGED <<tick, dbFailed, market, forecasts, asker>>
  BY <1>1 DEF Train
<1>3. (1..n) \cup {n + 1} = 1..(n + 1)
  BY <1>1
<1>4. /\ since' \in [1..(n + 1) -> Int] /\ since'[n + 1] = tick
      /\ \A m \in 1..n : since'[m] = since[m]
  <2>1. tick \in Int
    BY DEF ServingInv, ServingTypes
  <2>2. QED
    BY <1>1, <1>2, <1>3, <2>1
<1>5. /\ tick \in Nat /\ dbFailed \in Int /\ model.stamp \in Int /\ model.stamp <= tick
      /\ asker \in [Askers -> Askings] /\ ServingTypes /\ SharedFits
  BY DEF ServingInv, ServingTypes, SharedFits, Models
<1>6. ASSUME NEW m, NEW t \in Int, t <= tick, CurrentBefore(m, t) PROVE CurrentBefore(m, t)'
  <2>1. SUFFICES ASSUME NEW newer \in 1..(n + 1), newer > m, since'[newer] < t PROVE dbFailed' >= since'[newer]
    BY <1>4 DEF CurrentBefore
  <2>2. newer # n + 1
    BY <1>4, <1>5, <1>6, <2>1
  <2>3. newer \in 1..n
    BY <1>1, <2>1, <2>2
  <2>4. QED
    BY <1>1, <1>2, <1>4, <1>6, <2>1, <2>3 DEF CurrentBefore
<1>11. model' \in Models /\ sections' \in Series /\ sections'.stamp <= sections'.read
  <2>1. CASE UNCHANGED <<model, sections>>
    BY <1>5, <2>1 DEF ServingTypes, SharedFits
  <2>2. CASE model' = [of |-> NoModel, stamp |-> Never] /\ sections' = Emptied
    BY <2>2, EmptiedIsSeries, ServingConstants DEF NoModel, Models
  <2>3. QED
    BY <2>1, <2>2 DEF Train
<1>7. ServingTypes'
  <2>1. n + 1 \in Nat \ {0}
    BY <1>1
  <2>2. \A m \in DOMAIN since' : Never <= since'[m] /\ since'[m] <= tick
    <3>1. \A m \in 1..n : Never <= since[m] /\ since[m] <= tick
      BY <1>1, <1>5 DEF ServingTypes
    <3>2. \A m \in 1..(n + 1) : m \in 1..n \/ m = n + 1
      BY <1>1
    <3>3. QED
      BY <1>4, <1>5, <3>1, <3>2, ServingConstants
  <2>3. QED
    BY <1>2, <1>4, <1>5, <1>11, <2>1, <2>2 DEF ServingTypes
<1>8. SharedFits'
  <2>1. CASE UNCHANGED model
    <3>1. PICK m \in Nat, t \in Int : m = model.of /\ t = model.stamp
      BY <1>5 DEF ServingTypes, Models
    <3>2. CurrentBefore(m, t)'
      BY <1>5, <1>6, <3>1 DEF SharedFits
    <3>3. model'.of = m /\ model'.stamp = t
      BY <2>1, <3>1
    <3>4. CurrentBefore(model.of, model.stamp)'
      BY <3>2, <3>3
    <3>5. QED
      BY <1>2, <1>5, <1>11, <2>1, <3>4 DEF SharedFits, MarketFits, SectionFits
  <2>2. CASE model' = [of |-> NoModel, stamp |-> Never]
    <3>1. model'.stamp = Never /\ Never \in Int /\ Never <= tick
      BY <1>5, <2>2, ServingConstants
    <3>2. \A m \in 1..(n + 1) : Never <= since'[m] /\ since'[m] \in Int
      <4>1. \A m \in 1..n : Never <= since[m]
        BY <1>1, <1>5 DEF ServingTypes
      <4>2. \A m \in 1..(n + 1) : m \in 1..n \/ m = n + 1
        BY <1>1
      <4>3. QED
        BY <1>1, <1>4, <1>5, <4>1, <4>2, ServingConstants
    <3>3. CurrentBefore(model.of, model.stamp)'
      BY <1>4, <3>1, <3>2 DEF CurrentBefore
    <3>4. QED
      BY <1>2, <1>5, <1>11, <3>1, <3>3 DEF SharedFits, MarketFits, SectionFits
  <2>3. QED
    BY <2>1, <2>2 DEF Train
<1>9. ASSUME NEW a \in Askers PROVE AskerFits(asker[a])'
  <2>1. PICK r \in Askings : r = asker[a]
    BY <1>5
  <2>2. AskerFits(r) /\ r.asked \in Int /\ r.looked \in Int /\ r.got.of \in Nat
    BY <2>1 DEF ServingInv, Askings, Data
  <2>3. r.at # "idle" => /\ r.asked - ModelTtl + 1 \in Int /\ r.asked - ModelTtl + 1 <= tick
                         /\ r.asked <= tick
    <3>1. r.at # "idle" => r.asked <= tick
      BY <2>2 DEF AskerFits
    <3>2. QED
      BY <1>5, <2>2, <3>1, ServingConstants
  <2>4. r.at = "stores" => CurrentBefore(r.got.of, r.looked)'
    BY <1>6, <2>2, <2>3 DEF AskerFits
  <2>5. r.at \in WithModel =>
          CurrentBefore(r.got.of, r.asked - ModelTtl + 1)'
    BY <1>6, <2>2, <2>3 DEF AskerFits, WithModel, Stamped
  <2>6. AskerFits(r)'
    BY <1>2, <2>2, <2>4, <2>5 DEF AskerFits, MarketFits, SectionFits
  <2>7. asker'[a] = r
    BY <1>2, <2>1
  <2>8. QED
    BY <2>6, <2>7
<1>10. QED
  BY <1>7, <1>8, <1>9 DEF ServingInv

LEMMA SaveOwnSectionKeeps == ASSUME ServingInv, SaveOwnSection PROVE ServingInv'
<1>1. /\ sections' = [read |-> tick, stamp |-> tick]
      /\ UNCHANGED <<tick, since, dbFailed, model, market, forecasts, asker>>
      /\ ServingTypes /\ SharedFits /\ tick \in Nat
  BY DEF SaveOwnSection, ServingInv, ServingTypes
<1>2. sections' \in Series /\ sections'.stamp <= sections'.read
  BY <1>1 DEF Series
<1>3. ServingTypes'
  BY <1>1, <1>2 DEF ServingTypes
<1>4. SharedFits'
  BY <1>1, <1>2 DEF SharedFits, CurrentBefore, MarketFits, SectionFits
<1>5. ASSUME NEW a \in Askers PROVE AskerFits(asker[a])'
  <2>1. AskerFits(asker[a])
    BY DEF ServingInv
  <2>2. QED
    BY <1>1, <2>1 DEF AskerFits, CurrentBefore, MarketFits, SectionFits
<1>6. QED
  BY <1>3, <1>4, <1>5 DEF ServingInv

LEMMA PassTickKeeps == ASSUME ServingInv, PassTick PROVE ServingInv'
<1>1. tick' = tick + 1 /\ UNCHANGED <<since, dbFailed, model, market, sections, forecasts, asker>>
  BY DEF PassTick, caches
<1>2. /\ tick \in Nat /\ dbFailed \in Int /\ model.stamp \in Int /\ asker \in [Askers -> Askings]
      /\ \A m \in DOMAIN since : since[m] \in Int
      /\ ServingTypes /\ SharedFits
  BY DEF ServingInv, ServingTypes, Models
<1>3. tick' \in Nat /\ tick' >= tick /\ dbFailed' \in Int /\ dbFailed' >= dbFailed /\ since' = since
  BY <1>1, <1>2
<1>4. ServingTypes'
  BY <1>1, <1>2 DEF ServingTypes
<1>5. SharedFits'
  BY <1>1, <1>2 DEF SharedFits, CurrentBefore, MarketFits, SectionFits
<1>6. ASSUME NEW a \in Askers PROVE AskerFits(asker[a])'
  <2>1. PICK r \in Askings : r = asker[a]
    BY <1>2
  <2>2. AskerFits(r)
    BY <2>1 DEF ServingInv
  <2>3. AskerFits(r)'
    BY <1>2, <1>3, <2>2, FitsOn
  <2>4. asker'[a] = r
    BY <1>1, <2>1
  <2>5. QED
    BY <2>3, <2>4
<1>7. QED
  BY <1>4, <1>5, <1>6 DEF ServingInv

LEMMA ServingStepKeeps == ServingInv /\ [ServingNext]_servingVars => ServingInv'
<1> SUFFICES ASSUME ServingInv, [ServingNext]_servingVars PROVE ServingInv'
  OBVIOUS
<1>1. CASE UNCHANGED servingVars
  BY <1>1 DEF servingVars, caches, ServingInv, ServingTypes, SharedFits, AskerFits, CurrentBefore,
     MarketFits, SectionFits
<1>2. QED
  BY <1>1, AskForecastKeeps, ReadModelKeeps, StoreModelKeeps, LookUpKeeps, LoadBarsKeeps,
     LookForMarketKeeps, ReadMarketKeeps, StoreMarketKeeps, LookForSectionKeeps, ReadSectionKeeps,
     StoreSectionKeeps, FinishKeeps, TrainKeeps, SaveOwnSectionKeeps, PassTickKeeps DEF ServingNext

LEMMA FittingIsCurrent == ServingInv => AnswerIsCurrent
<1> SUFFICES ASSUME ServingInv PROVE AnswerIsCurrent
  OBVIOUS
<1>1. ASSUME NEW a \in Askers, At(a, "answered")
      PROVE  /\ asker[a].asked - Got(a).bars < ForecastTtl
             /\ asker[a].asked - Got(a).market < ForecastTtl + MarketTtl
             /\ asker[a].asked - Got(a).section < ForecastTtl + ModelTtl
  <2>1. PICK asked \in Int, bars \in Int, series \in Int, day \in Int :
          /\ asked = asker[a].asked /\ bars = Got(a).bars
          /\ series = Got(a).market /\ day = Got(a).section
    BY AskerHas DEF Data
  <2>2. asked - bars < ForecastTtl /\ bars - series < MarketTtl /\ bars - day < ModelTtl
    BY <1>1, <2>1, AskerHas DEF At, Got, AskerFits, WithMarket, WithSection, MarketFits, SectionFits
  <2>3. asked - series < ForecastTtl + MarketTtl /\ asked - day < ForecastTtl + ModelTtl
    BY <2>2, ServingConstants
  <2>4. QED
    BY <2>1, <2>2, <2>3
<1>2. ASSUME NEW a \in Askers, NEW m \in DOMAIN since,
             At(a, "answered"), m > Got(a).of, since[m] <= asker[a].asked - ModelTtl
      PROVE  dbFailed >= since[m]
  <2>1. CurrentBefore(Got(a).of, asker[a].asked - ModelTtl + 1)
    BY <1>2, AskerHas DEF At, Got, AskerFits, WithModel
  <2>2. asker[a].asked \in Int /\ since[m] \in Int
    BY AskerHas DEF ServingInv, ServingTypes
  <2>3. since[m] < asker[a].asked - ModelTtl + 1
    BY <1>2, <2>2, ServingConstants
  <2>4. QED
    BY <1>2, <2>1, <2>3 DEF CurrentBefore
<1>3. QED
  BY <1>1, <1>2 DEF AnswerIsCurrent, ForecastIsRecent, ModelIsCurrent

\* Whatever the threads write back into the four caches, in whatever order and however
\* slowly: the bars, the market series, the cross-section and the model behind an answer
\* are as recent as the lives of the caches say; only a failing database keeps an older
\* model (service.py:160-204, get_bundle, latest_cross_section).
THEOREM AnswersAreCurrent == ServingSpec => []AnswerIsCurrent
<1>1. QED
  BY ServingInitEstablishes, ServingStepKeeps, FittingIsCurrent, PTL DEF ServingSpec

-----------------------------------------------------------------------------
(* ForecastLog: no forecast is scored twice, with one scorer at a time.    *)

\* What a scorer has in hand.
ScorerFits(s) ==
  /\ s.at \in {"idle", "goes", "writes"}
  /\ s.at # "idle" => s.batch \subseteq log
  /\ s.at # "idle" => \A row \in s.batch : row.created <= s.moment
  /\ s.moment \in Int
  /\ s.at = "writes" => s.row \in log \ graded /\ s.row.created <= s.moment

\* A forecast that was scored and is still in the log has its score there; the
\* score is younger than the forecast.
ScoresFit ==
  /\ \A row \in log : row.created \in Int /\ row.created <= time
  /\ \A row \in graded : row.created \in Int /\ (row \in log \/ row.created < time)
  /\ \A row \in graded \cap log : Scored(row)
  /\ \A score \in scores : score.at \in Int /\ score.row.created <= score.at

\* A run is logged in one row.
RunsFit == \A row, other \in log : row.run = other.run => row = other

LogInv ==
  /\ time \in Nat
  /\ scorers = [s \in Scorers |-> scorers[s]]
  /\ \A s \in Scorers : ScorerFits(scorers[s])
  /\ ScoresFit /\ RunsFit

\* What ScoredOnce says of a step.
FirstScore(s) ==
  \A row \in graded : row.run = scorers[s].row.run => row # scorers[s].row /\ row \notin log

ScorerSteps(s) == LoadBatch(s) \/ Consider(s) \/ FailCheck(s) \/ WriteScore(s) \/ FailScore(s) \/ EndBatch(s)

\* What the steps of a background task leave alone, but for a new row.
LEMMA LogRowFits ==
  ASSUME NEW s \in Servings, LogInv, InsertRun(s)
  PROVE  LogInv'
<1> DEFINE new == [run |-> tasks[s].run, created |-> time]
<1>1. /\ log' = log \cup {new} /\ new.created = time
      /\ UNCHANGED <<time, scores, scorers, graded>>
      /\ time \in Nat
  BY DEF InsertRun, LogRow, LogInv
<1>2. new \notin graded \/ new \in log
  BY <1>1 DEF LogInv, ScoresFit
<1> HIDE DEF new
<1>3. ScoresFit'
  BY <1>1, <1>2 DEF LogInv, ScoresFit, Scored
<1>4. ASSUME NEW t \in Scorers PROVE ScorerFits(scorers[t])'
  BY <1>1 DEF LogInv, ScorerFits
<1>5. \A row \in log : row.run # new.run
  BY DEF InsertRun, Logged, new
<1>6. RunsFit'
  BY <1>1, <1>5 DEF LogInv, RunsFit
<1> QED
  BY <1>1, <1>3, <1>4, <1>6 DEF LogInv

LEMMA PurgeLogFits ==
  ASSUME LogInv, PurgeLog, KeepLog <= KeepScores
  PROVE  LogInv'
<1>1. /\ UNCHANGED <<time, scorers, graded>>
      /\ \A t \in Scorers : scorers[t].at = "idle"
      /\ log' = {row \in log : row.created >= time - KeepLog}
      /\ scores' = {score \in scores : Kept(score)}
      /\ time \in Nat /\ KeepLog \in Nat \ {0} /\ KeepScores \in Nat \ {0}
  BY LogAssumption DEF PurgeLog, LogInv
<1>2. ASSUME NEW row \in graded PROVE row.created \in Int /\ (row \in log' \/ row.created < time)
  BY <1>1 DEF LogInv, ScoresFit
<1>3. ASSUME NEW row \in graded \cap log' PROVE Scored(row)'
  <2>1. row \in log /\ row.created \in Int /\ row.created >= time - KeepLog
    BY <1>1, <1>3 DEF LogInv, ScoresFit
  <2>2. PICK score \in scores : score.row = row
    BY <1>3, <2>1 DEF LogInv, ScoresFit, Scored
  <2>3. score.at \in Int /\ row.created <= score.at
    BY <2>2 DEF LogInv, ScoresFit
  <2>4. score.at >= time - KeepScores
    BY <1>1, <2>1, <2>3
  <2> QED
    BY <1>1, <2>2, <2>4 DEF Scored, Kept
<1>4. ScoresFit'
  BY <1>1, <1>2, <1>3 DEF LogInv, ScoresFit
<1>5. ASSUME NEW t \in Scorers PROVE ScorerFits(scorers[t])'
  BY <1>1 DEF LogInv, ScorerFits
<1>6. RunsFit'
  BY <1>1 DEF LogInv, RunsFit
<1> QED
  BY <1>1, <1>4, <1>5, <1>6 DEF LogInv

\* A step of the only scorer.
LEMMA ScorerStepFits ==
  ASSUME LogInv, NEW s \in Scorers, ScorerSteps(s), \A t, u \in Scorers : t = u
  PROVE  LogInv'
<1>1. /\ UNCHANGED <<time, log>> /\ time \in Nat
      /\ ScorerFits(scorers[s]) /\ ScoresFit
      /\ \A t \in Scorers : t = s
  BY DEF ScorerSteps, LoadBatch, Consider, FailCheck, WriteScore, FailScore, EndBatch, LogInv
<1>2. RunsFit'
  BY <1>1 DEF LogInv, RunsFit
<1>3. ASSUME NEW new, scorers' = [scorers EXCEPT ![s] = new], ScorerFits(new)', ScoresFit'
      PROVE  LogInv'
  <2>1. scorers' = [t \in Scorers |-> scorers'[t]] /\ scorers'[s] = new
    BY <1>3 DEF LogInv
  <2>2. \A t \in Scorers : ScorerFits(scorers[t])'
    BY <1>1, <1>3, <2>1 DEF ScorerFits
  <2> QED
    BY <1>1, <1>2, <1>3, <2>1, <2>2 DEF LogInv
<1>4. ASSUME UNCHANGED <<scores, graded>> PROVE ScoresFit'
  BY <1>1, <1>4 DEF ScoresFit, Scored
<1>5. CASE LoadBatch(s)
  <2>1. PICK batch \in SUBSET log :
          scorers' = [scorers EXCEPT ![s] = [at |-> "goes", moment |-> time, batch |-> batch, row |-> NoForecast]]
    BY <1>5 DEF LoadBatch
  <2>2. UNCHANGED <<scores, graded>>
    BY <1>5 DEF LoadBatch
  <2>3. PICK new : new = [at |-> "goes", moment |-> time, batch |-> batch, row |-> NoForecast]
    OBVIOUS
  <2>4. ScorerFits(new)'
    BY <1>1, <2>1, <2>2, <2>3 DEF ScorerFits, ScoresFit
  <2> QED
    BY <1>2, <1>3, <1>4, <2>1, <2>2, <2>3, <2>4
<1>6. ASSUME NEW at \in {"goes", "writes"}, NEW batch, NEW row, ScorerGoes(s, at, batch, row),
             scorers[s].at # "idle", batch \subseteq scorers[s].batch,
             at = "writes" => row \in log \ graded' /\ row.created <= scorers[s].moment,
             ScoresFit'
      PROVE  LogInv'
  <2>0. PICK new : new = [at |-> at, moment |-> scorers[s].moment, batch |-> batch, row |-> row]
    OBVIOUS
  <2>1. scorers' = [scorers EXCEPT ![s] = new]
    BY <1>6, <2>0 DEF ScorerGoes
  <2>2. ScorerFits(new)'
    BY <1>1, <1>6, <2>0 DEF ScorerFits
  <2> QED
    BY <1>3, <1>6, <2>1, <2>2
<1>7. CASE Consider(s)
  <2>1. PICK row \in scorers[s].batch :
          IF Scorable(s, row) THEN ScorerGoes(s, "writes", scorers[s].batch \ {row}, row)
                              ELSE ScorerGoes(s, "goes", scorers[s].batch \ {row}, NoForecast)
    BY <1>7 DEF Consider
  <2>2. scorers[s].at # "idle" /\ UNCHANGED <<scores, graded>>
    BY <1>7 DEF Consider
  <2>3. row \in log /\ row.created <= scorers[s].moment
    BY <1>1, <2>1, <2>2 DEF ScorerFits
  <2>4. Scorable(s, row) => row \notin graded
    BY <1>1, <2>3 DEF Scorable, ScoresFit
  <2> QED
    BY <1>2, <1>4, <1>6, <2>1, <2>2, <2>3, <2>4
<1>8. CASE WriteScore(s)
  <2> DEFINE row == scorers[s].row
             score == [row |-> row, base |-> BaseBar(row), target |-> BarAt(Target(row.run)),
                       at |-> scorers[s].moment]
  <2>1. /\ scores' = scores \cup {score} /\ graded' = graded \cup {row}
        /\ scorers[s].at = "writes" /\ ScorerGoes(s, "goes", scorers[s].batch, NoForecast)
    BY <1>8 DEF WriteScore
  <2>2. row \in log /\ row.created <= scorers[s].moment /\ scorers[s].moment \in Int
    BY <1>1, <2>1 DEF ScorerFits
  <2>3. score.row = row /\ score.at = scorers[s].moment
    OBVIOUS
  <2> HIDE DEF row, score
  <2>4. ScoresFit'
    BY <1>1, <2>1, <2>2, <2>3 DEF ScoresFit, Scored
  <2> QED
    BY <1>2, <1>6, <2>1, <2>4
<1>9. CASE FailScore(s)
  <2>1. /\ UNCHANGED <<scores, graded>> /\ scorers[s].at = "writes"
        /\ ScorerGoes(s, "goes", scorers[s].batch, NoForecast)
    BY <1>9 DEF FailScore
  <2> QED
    BY <1>2, <1>4, <1>6, <2>1
<1>11. CASE FailCheck(s)
  <2>1. /\ UNCHANGED <<scores, graded>> /\ scorers[s].at = "goes"
        /\ ScorerGoes(s, "goes", {}, NoForecast)
    BY <1>11 DEF FailCheck
  <2> QED
    BY <1>4, <1>6, <2>1
<1>10. CASE EndBatch(s)
  <2>1. UNCHANGED <<scores, graded>> /\ scorers' = [scorers EXCEPT ![s] = Resting]
    BY <1>10 DEF EndBatch
  <2>2. ScorerFits(Resting)'
    BY DEF ScorerFits, Resting
  <2> QED
    BY <1>2, <1>3, <1>4, <2>1, <2>2
<1> QED
  BY <1>5, <1>7, <1>8, <1>9, <1>10, <1>11 DEF ScorerSteps

\* Only one of several runs of the score job is thought of: nothing in the code
\* keeps two apart, and two that overlap may score a forecast twice.
LEMMA ScoresAreKept ==
  ASSUME KeepLog <= KeepScores, \A s, t \in Scorers : s = t
  PROVE  /\ LogInit => LogInv
         /\ LogInv /\ [LogNext]_logVars =>
              LogInv' /\ \A s \in Scorers : WriteScore(s) => FirstScore(s)
<1>1. LogInit => LogInv
  BY DEF LogInit, LogInv, ScorerFits, ScoresFit, RunsFit, Resting
<1>2. ASSUME LogInv, [LogNext]_logVars
      PROVE  LogInv' /\ \A s \in Scorers : WriteScore(s) => FirstScore(s)
  <2>1. \A s \in Scorers : WriteScore(s) => FirstScore(s)
    BY <1>2 DEF LogInv, ScorerFits, RunsFit, WriteScore, FirstScore
  <2>2. ASSUME UNCHANGED <<time, log, scores, scorers, graded>> PROVE LogInv'
    <3>1. ScoresFit'
      BY <1>2, <2>2 DEF LogInv, ScoresFit, Scored
    <3>2. ASSUME NEW s \in Scorers PROVE ScorerFits(scorers[s])'
      BY <1>2, <2>2 DEF LogInv, ScorerFits
    <3> QED
      BY <1>2, <2>2, <3>1, <3>2 DEF LogInv, RunsFit
  <2>3. CASE \E s \in Servings : InsertRun(s)
    BY <1>2, <2>1, <2>3, LogRowFits
  <2>4. CASE \E s \in Servings :
               ServeForecast(s) \/ DropForecast(s) \/ Locate(s) \/ LookForRun(s) \/ MeetDuplicate(s)
    BY <2>1, <2>2, <2>4 DEF ServeForecast, DropForecast, Locate, LookForRun, MeetDuplicate
  <2>5. CASE \E s \in Scorers : ScorerSteps(s)
    BY <1>2, <2>1, <2>5, ScorerStepFits
  <2>6. CASE StoreBars \/ UNCHANGED logVars
    BY <2>1, <2>2, <2>6 DEF StoreBars, logVars
  <2>7. CASE PurgeLog
    BY <1>2, <2>1, <2>7, PurgeLogFits
  <2>8. CASE PassHalfDay
    <3>1. time' = time + 1 /\ UNCHANGED <<log, scores, scorers, graded>> /\ time \in Nat
      BY <1>2, <2>8 DEF PassHalfDay, LogInv
    <3>2. ASSUME NEW row \in graded PROVE row.created \in Int /\ (row \in log \/ row.created < time')
      <4>1. row.created \in Int /\ (row \in log \/ row.created < time)
        BY <1>2, <3>2 DEF LogInv, ScoresFit
      <4> QED
        BY <3>1, <4>1
    <3>3. ScoresFit'
      BY <1>2, <3>1, <3>2 DEF LogInv, ScoresFit, Scored
    <3>4. ASSUME NEW s \in Scorers PROVE ScorerFits(scorers[s])'
      BY <1>2, <3>1 DEF LogInv, ScorerFits
    <3> QED
      BY <1>2, <2>1, <3>1, <3>3, <3>4 DEF LogInv, RunsFit
  <2> QED
    BY <1>2, <2>3, <2>4, <2>5, <2>6, <2>7, <2>8 DEF LogNext, ScorerSteps
<1> QED
  BY <1>1, <1>2

\* A run is scored once (persist.py, accuracy.py and retention.py together), when
\* the rule of the scores keeps them no less long than that of the forecasts and no
\* two runs of the score job overlap: no constraint of the database and no lock of
\* the job keeps them apart.
THEOREM ForecastsAreScoredOnce ==
  ASSUME KeepLog <= KeepScores, \A s, t \in Scorers : s = t
  PROVE  LogSpec => ScoredOnce
<1>1. LogInv /\ [LogNext]_logVars => [\A s \in Scorers : WriteScore(s) => FirstScore(s)]_logVars
  BY ScoresAreKept
<1>2. LogInit => LogInv
  BY ScoresAreKept
<1>3. LogInv /\ [LogNext]_logVars => LogInv'
  BY ScoresAreKept
<1>4. LogSpec => [][\A s \in Scorers : WriteScore(s) => FirstScore(s)]_logVars
  BY <1>1, <1>2, <1>3, PTL DEF LogSpec
<1> QED
  BY <1>4 DEF ScoredOnce, FirstScore
=============================================================================
