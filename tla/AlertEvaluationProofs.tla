----------------------- MODULE AlertEvaluationProofs -----------------------
(***************************************************************************)
(* What AlertEvaluation guarantees for every number of rules and batches,  *)
(* every cap, cooldown and level.                                          *)
(***************************************************************************)
EXTENDS AlertEvaluation, FiniteSetTheorems, TLAPS

LEMMA SelectedAreLive == Selected \subseteq live
  BY DEF Selected, Active

LEMMA InitType == Init => TypeOK
<1> SUFFICES ASSUME Init PROVE TypeOK
  OBVIOUS
<1> USE BoundsAssumption, DataAssumption
<1>1. PICK cond \in Conditions, level \in Levels :
        rows = [a \in Alerts |-> NewRow(cond, level)]
  BY DEF Init
<1>2. NewRow(cond, level) \in Row
  BY DEF NewRow, Row, Never
<1>3. rows \in [Alerts -> Row]
  BY <1>1, <1>2
<1>4. view \in [Evaluators -> [Alerts -> Row]]
  BY <1>3 DEF Init
<1>5. 0 \in Times /\ 0 \in 0..MaxAlerts /\ 0 \in 0..MaxEdits /\ 0 \in 0..MaxFaults
  BY DEF Times
<1>6. events \in [Alerts -> Seq(Event)]
  BY DEF Init
<1>7. QED
  BY <1>3, <1>4, <1>5, <1>6 DEF Init, TypeOK

\* A rule's row stays a row when a firing or a patch changes it.
LEMMA FiredRow ==
  ASSUME NEW row \in Row, NEW last \in Times
  PROVE  [row EXCEPT !.last = last] \in Row
  BY DEF Row

LEMMA PatchedRow ==
  ASSUME NEW row \in Row, NEW active \in BOOLEAN,
         NEW threshold \in Levels, NEW cooldown \in Cooldowns
  PROVE  [row EXCEPT !.active = active, !.threshold = threshold,
                     !.cooldown = cooldown] \in Row
  BY DEF Row

LEMMA UserType == TypeOK /\ User => TypeOK'
<1> SUFFICES ASSUME TypeOK, User PROVE TypeOK'
  OBVIOUS
<1> USE BoundsAssumption, DataAssumption
<1>1. CASE CreateAlert
  <2>1. PICK cond \in Conditions, threshold \in Levels :
          rows' = [rows EXCEPT ![created + 1] = NewRow(cond, threshold)]
    BY <1>1 DEF CreateAlert
  <2>2. NewRow(cond, threshold) \in Row
    BY DEF NewRow, Row, Never
  <2>3. rows' \in [Alerts -> Row]
    BY <2>1, <2>2 DEF TypeOK
  <2>4. created' \in 0..MaxAlerts /\ live' \subseteq 1..created' /\ edits' \in 0..MaxEdits
    BY <1>1 DEF CreateAlert, TypeOK
  <2>5. QED
    BY <1>1, <2>3, <2>4 DEF CreateAlert, TypeOK, local, report, history
<1>2. ASSUME NEW a \in Alerts, UpdateAlert(a) PROVE TypeOK'
  <2>1. PICK active \in BOOLEAN, threshold \in Levels, cooldown \in Cooldowns :
          /\ rows' = [rows EXCEPT ![a] =
               [@ EXCEPT !.active = active, !.threshold = threshold,
                         !.cooldown = cooldown]]
          /\ pausedAt' = IF rows[a].active /\ ~active
                         THEN [pausedAt EXCEPT ![a] = clock] ELSE pausedAt
    BY <1>2 DEF UpdateAlert
  <2>2. rows' \in [Alerts -> Row]
    <3>1. [rows[a] EXCEPT !.active = active, !.threshold = threshold,
                          !.cooldown = cooldown] \in Row
      BY PatchedRow DEF TypeOK
    <3>2. QED
      BY <2>1, <3>1 DEF TypeOK
  <2>3. pausedAt' = pausedAt \/ pausedAt' = [pausedAt EXCEPT ![a] = clock]
    BY <2>1, Zenon
  <2>4. pausedAt' \in [Alerts -> Times]
    BY <2>3 DEF TypeOK
  <2>5. edits' \in 0..MaxEdits
    BY <1>2 DEF TypeOK, UpdateAlert
  <2>6. QED
    BY <1>2, <2>2, <2>4, <2>5 DEF UpdateAlert, TypeOK, local, report, history
<1>3. ASSUME NEW a \in Alerts, DeleteAlert(a) PROVE TypeOK'
  <2>1. events' \in [Alerts -> Seq(Event)]
    BY <1>3 DEF DeleteAlert, TypeOK
  <2>2. QED
    BY <1>3, <2>1 DEF DeleteAlert, TypeOK, local, report, history
<1>4. QED
  BY <1>1, <1>2, <1>3 DEF User

\* The part of the type that the batch's own steps change.
LEMMA BatchType ==
  ASSUME TypeOK, NEW e \in Evaluators,
         LoadBatch(e) \/ LoadFails(e) \/ Return(e)
  PROVE  TypeOK'
<1> USE BoundsAssumption, DataAssumption
<1>1. CASE LoadBatch(e)
  <2>1. Selected \in SUBSET Alerts
    BY SelectedAreLive DEF TypeOK, Alerts
  <2>2. QED
    BY <1>1, <2>1 DEF LoadBatch, TypeOK, table, environment
<1>2. CASE LoadFails(e)
  BY <1>2 DEF LoadFails, Fault, TypeOK, table, local, environment
<1>3. CASE Return(e)
  BY <1>3 DEF Return, TypeOK, table, history, environment
<1>4. QED
  BY <1>1, <1>2, <1>3

\* A firing stores an event and a row.
LEMMA StoredType ==
  ASSUME TypeOK, NEW e \in Evaluators, NEW a \in Alerts, StoreFiring(e, a)
  PROVE  /\ events' \in [Alerts -> Seq(Event)] /\ rows' \in [Alerts -> Row]
         /\ fires' \in [Alerts -> Nat] /\ wrote' \in [Evaluators -> SUBSET Alerts]
<1> DEFINE ev == [batch |-> moment[e], cooldown |-> view[e][a].cooldown,
                  overtaken |-> a \in overtaken[e]]
<1>1. moment[e] \in Times /\ view[e][a].cooldown \in Cooldowns
  BY DEF TypeOK, Row
<1>2. (a \in overtaken[e]) \in BOOLEAN
  OBVIOUS
<1>3. ev \in Event
  BY <1>1, <1>2 DEF Event
<1>4. Append(events[a], ev) \in Seq(Event)
  BY <1>3 DEF TypeOK
<1>5. events' \in [Alerts -> Seq(Event)]
  BY <1>4 DEF StoreFiring, TypeOK
<1>6. [rows[a] EXCEPT !.last = moment[e]] \in Row
  BY FiredRow DEF TypeOK
<1>7. rows' \in [Alerts -> Row]
  BY <1>6 DEF StoreFiring, TypeOK
<1>8. fires' \in [Alerts -> Nat] /\ wrote' \in [Evaluators -> SUBSET Alerts]
  BY DEF StoreFiring, TypeOK
<1>9. QED
  BY <1>5, <1>7, <1>8

LEMMA WorkType ==
  ASSUME TypeOK, NEW e \in Evaluators, NEW a \in Alerts, Work(e, a)
  PROVE  TypeOK'
<1> USE BoundsAssumption, DataAssumption
<1> DEFINE Refreshed == Refresh(e, a) => /\ view' \in [Evaluators -> [Alerts -> Row]]
                                         /\ loaded' \in [Evaluators -> SUBSET Alerts]
<1>0. Refreshed
  <2>1. Read(e, a) \in Row
    BY DEF Read, TypeOK
  <2>2. QED
    BY <2>1 DEF Refresh, TypeOK
<1>1. CASE SkipNotDue(e, a)
  BY <1>0, <1>1 DEF SkipNotDue, Finish, TypeOK, table, history, environment
<1>2. CASE BeginObserve(e, a)
  BY <1>0, <1>2 DEF BeginObserve, TypeOK, table, history, environment
<1>3. CASE ObserveNotMet(e, a)
  BY <1>3 DEF ObserveNotMet, Finish, TypeOK, table, history, environment
<1>4. CASE ObserveMet(e, a)
  BY <1>4 DEF ObserveMet, TypeOK, table, history, environment
<1>5. CASE Commit(e, a)
  <2>1. /\ events' \in [Alerts -> Seq(Event)] /\ rows' \in [Alerts -> Row]
        /\ fires' \in [Alerts -> Nat] /\ wrote' \in [Evaluators -> SUBSET Alerts]
    BY <1>5, StoredType DEF Commit
  <2>2. overtaken' \in [Evaluators -> SUBSET Alerts]
    BY <1>5 DEF Commit, Overtaken, TypeOK
  <2>3. view' \in [Evaluators -> [Alerts -> Row]]
    <3>1. [view[e][a] EXCEPT !.last = moment[e]] \in Row
      BY FiredRow DEF TypeOK
    <3>2. view' = [view EXCEPT ![e] = [view[e] EXCEPT ![a] =
                     [view[e][a] EXCEPT !.last = moment[e]]]]
      BY <1>5 DEF Commit, TypeOK
    <3>3. [view[e] EXCEPT ![a] = [view[e][a] EXCEPT !.last = moment[e]]]
            \in [Alerts -> Row]
      BY <3>1 DEF TypeOK
    <3>4. QED
      BY <3>2, <3>3 DEF TypeOK
  <2>4. pc' \in [Evaluators ->
          {"idle", "next", "observing", "firing", "auditing", "delivering"}]
    BY <1>5 DEF Commit, TypeOK
  <2>5. QED
    BY <1>5, <2>1, <2>2, <2>3, <2>4 DEF Commit, TypeOK, report, environment
<1>6. CASE AuditAppend(e, a)
  BY <1>6 DEF AuditAppend, TypeOK, table, report, history, environment
<1>7. CASE Deliver(e, a)
  BY <1>7 DEF Deliver, Finish, TypeOK, table, environment
<1>8. CASE ReadRaises(e, a)
  BY <1>8 DEF ReadRaises, Raise, TypeOK, table, history, environment
<1>9. CASE CommitFails(e, a)
  BY <1>9 DEF CommitFails, Fault, Finish, Expire, TypeOK, table, history, environment
<1>10. QED
  BY <1>1, <1>2, <1>3, <1>4, <1>5, <1>6, <1>7, <1>8, <1>9 DEF Work

LEMMA FailureType ==
  ASSUME TypeOK, NEW e \in Evaluators, NEW a \in Alerts, Failure(e, a)
  PROVE  TypeOK'
<1> USE BoundsAssumption, DataAssumption
<1>1. CASE ObserveFails(e, a)
  BY <1>1 DEF ObserveFails, Fault, Finish, TypeOK, table, history, environment
<1>2. CASE AuditAborts(e, a)
  BY <1>2 DEF AuditAborts, Fault, TypeOK, table, report, history, environment
<1>3. CASE AuditFlushRaises(e, a)
  BY <1>3 DEF AuditFlushRaises, Fault, Raise, TypeOK, table, environment
<1>4. CASE CommitUnheard(e, a)
  <2>1. /\ events' \in [Alerts -> Seq(Event)] /\ rows' \in [Alerts -> Row]
        /\ fires' \in [Alerts -> Nat] /\ wrote' \in [Evaluators -> SUBSET Alerts]
    BY <1>4, StoredType DEF CommitUnheard
  <2>2. overtaken' \in [Evaluators -> SUBSET Alerts]
    BY <1>4 DEF CommitUnheard, Overtaken, TypeOK
  <2>3. /\ pc' \in [Evaluators ->
            {"idle", "next", "observing", "firing", "auditing", "delivering"}]
        /\ queue' \in [Evaluators -> SUBSET Alerts]
        /\ loaded' \in [Evaluators -> SUBSET Alerts]
        /\ session' \in [Evaluators -> {"clean", "aborted"}]
        /\ errors' \in [Evaluators -> SUBSET Alerts]
    BY <1>4 DEF CommitUnheard, Finish, Expire, TypeOK
  <2>4. lost' \in [Alerts -> Nat] /\ faults' \in 0..MaxFaults
    BY <1>4 DEF CommitUnheard, Fault, TypeOK
  <2>5. UNCHANGED <<live, moment, view, checked, fired, outcome, notes, environment>>
    BY <1>4 DEF CommitUnheard
  <2>6. QED
    BY <2>1, <2>2, <2>3, <2>4, <2>5 DEF TypeOK, environment
<1>5. QED
  BY <1>1, <1>2, <1>3, <1>4 DEF Failure

LEMMA EnvironmentType ==
  ASSUME TypeOK, Restart \/ Tick \/ \E a \in Alerts : MarketMoves(a)
  PROVE  TypeOK'
<1> USE BoundsAssumption, DataAssumption
<1>1. CASE Restart
  <2>1. \A a \in Alerts : lost'[a] \in Nat
    <3>1. TAKE a \in Alerts
    <3> DEFINE gone == {e \in Evaluators :
                 pc[e] \in {"auditing", "delivering"} /\ Current(e, a)}
    <3>2. IsFiniteSet(gone)
      BY EvaluatorsAssumption, FS_Subset
    <3>3. Cardinality(gone) \in Nat
      BY <3>2, FS_CardinalityType
    <3>4. QED
      BY <1>1, <3>3 DEF Restart, TypeOK
  <2>2. lost' \in [Alerts -> Nat] /\ faults' \in 0..MaxFaults
    BY <1>1, <2>1 DEF Restart, Fault, TypeOK
  <2>3. /\ pc' \in [Evaluators ->
            {"idle", "next", "observing", "firing", "auditing", "delivering"}]
        /\ queue' \in [Evaluators -> SUBSET Alerts]
        /\ outcome' \in [Evaluators -> {"none", "returned", "unavailable", "raised"}]
    BY <1>1 DEF Restart
  <2>4. UNCHANGED <<table, environment, moment, loaded, view, session, checked, fired,
                    errors, wrote, overtaken, fires, notes>>
    BY <1>1 DEF Restart
  <2>5. QED
    BY <2>2, <2>3, <2>4 DEF TypeOK, table, environment
<1>2. CASE Tick
  BY <1>2 DEF Tick, Times, TypeOK, table, local, report, history
<1>3. ASSUME NEW a \in Alerts, MarketMoves(a) PROVE TypeOK'
  BY <1>3 DEF MarketMoves, TypeOK, table, local, report, history
<1>4. QED
  BY <1>1, <1>2, <1>3

LEMMA StepType == TypeOK /\ [Next]_vars => TypeOK'
<1> SUFFICES ASSUME TypeOK, [Next]_vars PROVE TypeOK'
  OBVIOUS
<1>1. CASE UNCHANGED vars
  BY <1>1 DEF vars, table, local, report, history, environment, TypeOK
<1>2. QED
  BY <1>1, UserType, BatchType, WorkType, FailureType, EnvironmentType DEF Next

\* Every variable always has its type, for every value of the constants.
THEOREM TypeCorrect == Spec => []TypeOK
  BY InitType, StepType, PTL DEF Spec
-----------------------------------------------------------------------------
(* A firing is one transaction: what a rule says of its last firing is what*)
(* its newest event says, and a rule without a row has no events.          *)

LastFiredMatchesEvents ==
  \A a \in live :
    IF events[a] = <<>> THEN rows[a].last = Never
                        ELSE rows[a].last = events[a][Len(events[a])].batch

NoOrphanEvents == \A a \in Alerts \ live : events[a] = <<>>

\* A batch commits a firing, whether it learns of it or not.
Fires(e, a) == Commit(e, a) \/ CommitUnheard(e, a)

FiringInv == TypeOK /\ LastFiredMatchesEvents /\ NoOrphanEvents

\* Every step but these three leaves the tables alone.
LEMMA TablesKept ==
  ASSUME [Next]_vars,
         ~CreateAlert,
         \A a \in Alerts : ~UpdateAlert(a) /\ ~DeleteAlert(a),
         \A e \in Evaluators, a \in Alerts : ~Fires(e, a)
  PROVE  UNCHANGED table
<1>1. CASE UNCHANGED vars
  BY <1>1 DEF vars
<1>2. ASSUME NEW e \in Evaluators, LoadBatch(e) \/ LoadFails(e) \/ Return(e)
      PROVE  UNCHANGED table
  BY <1>2 DEF LoadBatch, LoadFails, Return
<1>3. ASSUME NEW e \in Evaluators, NEW a \in Alerts, Work(e, a), ~Fires(e, a)
      PROVE  UNCHANGED table
  BY <1>3 DEF Fires, Work, SkipNotDue, BeginObserve, ObserveNotMet, ObserveMet,
              AuditAppend, Deliver, ReadRaises, CommitFails
<1>4. ASSUME NEW e \in Evaluators, NEW a \in Alerts, Failure(e, a), ~Fires(e, a)
      PROVE  UNCHANGED table
  BY <1>4 DEF Fires, Failure, ObserveFails, AuditAborts, AuditFlushRaises
<1>5. CASE Restart
  BY <1>5 DEF Restart
<1>6. CASE Tick
  BY <1>6 DEF Tick
<1>7. ASSUME NEW a \in Alerts, MarketMoves(a) PROVE UNCHANGED table
  BY <1>7 DEF MarketMoves
<1>8. QED
  BY <1>1, <1>2, <1>3, <1>4, <1>5, <1>6, <1>7 DEF Next, User

\* The event a firing appends is dated with the start of its batch.
LEMMA FiringEvents ==
  ASSUME TypeOK, NEW e \in Evaluators, NEW a \in Alerts, Fires(e, a)
  PROVE  /\ \A b \in Alerts \ {a} : rows'[b] = rows[b] /\ events'[b] = events[b]
         /\ Len(events'[a]) = Len(events[a]) + 1
         /\ \A i \in 1..Len(events[a]) : events'[a][i] = events[a][i]
         /\ events'[a][Len(events[a]) + 1].batch = moment[e]
         /\ events'[a][Len(events[a]) + 1].cooldown = view[e][a].cooldown
         /\ events'[a][Len(events[a]) + 1].overtaken = (a \in overtaken[e])
         /\ rows'[a].last = moment[e]
         /\ \A b \in Alerts : rows'[b].active = rows[b].active
         /\ a \in live /\ live' = live
         /\ pc[e] = "firing" /\ Current(e, a) /\ moment' = moment
         /\ UNCHANGED <<clock, created, market, edits, pausedAt>>
<1> DEFINE ev == [batch |-> moment[e], cooldown |-> view[e][a].cooldown,
                  overtaken |-> a \in overtaken[e]]
<1>1. /\ StoreFiring(e, a) /\ UpdateMatches(a) /\ live' = live
      /\ pc[e] = "firing" /\ Current(e, a) /\ moment' = moment
      /\ UNCHANGED <<clock, created, market, edits, pausedAt>>
  BY DEF Fires, Commit, CommitUnheard, environment
<1>2. /\ moment[e] \in Times /\ view[e][a].cooldown \in Cooldowns
      /\ (a \in overtaken[e]) \in BOOLEAN
  BY DEF TypeOK, Row
<1>3. /\ ev \in Event /\ ev.batch = moment[e] /\ ev.cooldown = view[e][a].cooldown
      /\ ev.overtaken = (a \in overtaken[e])
  BY <1>2 DEF Event
<1>4. events'[a] = Append(events[a], ev) /\ events[a] \in Seq(Event)
  BY <1>1 DEF StoreFiring, TypeOK
<1>5. \A b \in Alerts \ {a} : rows'[b] = rows[b] /\ events'[b] = events[b]
  BY <1>1 DEF StoreFiring, TypeOK
<1>6. rows'[a].last = moment[e] /\ \A b \in Alerts : rows'[b].active = rows[b].active
  BY <1>1 DEF StoreFiring, TypeOK, Row
<1>7. a \in live
  BY <1>1 DEF UpdateMatches
<1> HIDE DEF ev
<1>8. /\ Len(events'[a]) = Len(events[a]) + 1
      /\ \A i \in 1..Len(events[a]) : events'[a][i] = events[a][i]
      /\ events'[a][Len(events[a]) + 1] = ev
  BY <1>3, <1>4
<1>9. QED
  BY <1>1, <1>3, <1>5, <1>6, <1>7, <1>8

LEMMA StepFiring == FiringInv /\ [Next]_vars => FiringInv'
<1> SUFFICES ASSUME FiringInv, [Next]_vars
             PROVE  LastFiredMatchesEvents' /\ NoOrphanEvents'
  BY StepType DEF FiringInv
<1> USE BoundsAssumption
<1>1. CASE CreateAlert
  <2>1. created + 1 \in Alerts \ live
    BY <1>1 DEF CreateAlert, FiringInv, TypeOK, Alerts
  <2>2. events[created + 1] = <<>>
    BY <2>1 DEF FiringInv, NoOrphanEvents
  <2>3. rows'[created + 1].last = Never
    BY <1>1, <2>1 DEF CreateAlert, FiringInv, TypeOK, NewRow
  <2>4. \A a \in live : rows'[a] = rows[a]
    BY <1>1, <2>1 DEF CreateAlert, FiringInv, TypeOK, Alerts
  <2>5. QED
    BY <1>1, <2>1, <2>2, <2>3, <2>4
       DEF CreateAlert, FiringInv, LastFiredMatchesEvents, NoOrphanEvents
<1>2. ASSUME NEW a \in Alerts, UpdateAlert(a)
      PROVE  LastFiredMatchesEvents' /\ NoOrphanEvents'
  <2>1. rows'[a].last = rows[a].last
    BY <1>2 DEF UpdateAlert, FiringInv, TypeOK, Row
  <2>2. \A b \in Alerts \ {a} : rows'[b] = rows[b]
    BY <1>2 DEF UpdateAlert, FiringInv, TypeOK
  <2>3. live' = live /\ events' = events /\ live \subseteq Alerts
    BY <1>2 DEF UpdateAlert, FiringInv, TypeOK, Alerts
  <2>4. QED
    BY <2>1, <2>2, <2>3 DEF FiringInv, LastFiredMatchesEvents, NoOrphanEvents
<1>3. ASSUME NEW a \in Alerts, DeleteAlert(a)
      PROVE  LastFiredMatchesEvents' /\ NoOrphanEvents'
  BY <1>3 DEF DeleteAlert, FiringInv, TypeOK, LastFiredMatchesEvents, NoOrphanEvents
<1>4. ASSUME NEW e \in Evaluators, NEW a \in Alerts, Fires(e, a)
      PROVE  LastFiredMatchesEvents' /\ NoOrphanEvents'
  <2>1. /\ \A b \in Alerts \ {a} : rows'[b] = rows[b] /\ events'[b] = events[b]
        /\ Len(events'[a]) = Len(events[a]) + 1
        /\ events'[a][Len(events[a]) + 1].batch = moment[e]
        /\ rows'[a].last = moment[e]
        /\ a \in live /\ live' = live
    BY <1>4, FiringEvents DEF FiringInv
  <2>2. Len(events[a]) \in Nat /\ live \subseteq Alerts
    BY DEF FiringInv, TypeOK, Alerts
  <2>3. events'[a] # <<>> /\ events'[a][Len(events'[a])].batch = moment[e]
    BY <2>1, <2>2
  <2>4. QED
    BY <2>1, <2>2, <2>3
       DEF FiringInv, LastFiredMatchesEvents, NoOrphanEvents
<1>5. CASE UNCHANGED table
  BY <1>5 DEF table, FiringInv, LastFiredMatchesEvents, NoOrphanEvents
<1>6. QED
  BY <1>1, <1>2, <1>3, <1>4, <1>5, TablesKept

LEMMA InitFiring == Init => FiringInv
<1> SUFFICES ASSUME Init PROVE LastFiredMatchesEvents /\ NoOrphanEvents
  BY InitType DEF FiringInv
<1>1. QED
  BY DEF Init, LastFiredMatchesEvents, NoOrphanEvents

-----------------------------------------------------------------------------
(* What a batch knows of the past: nothing is dated in the future, and a   *)
(* rule it holds was created before.                                       *)

Past ==
  /\ \A a \in Alerts : \A i \in 1..Len(events[a]) : events[a][i].batch <= clock
  /\ \A e \in Evaluators : moment[e] <= clock
  /\ \A e \in Evaluators : loaded[e] \subseteq 1..created
  /\ \A e \in Evaluators : queue[e] \subseteq 1..created

PastInv == FiringInv /\ Past

LEMMA StepPast == PastInv /\ [Next]_vars => Past'
<1> SUFFICES ASSUME PastInv, [Next]_vars PROVE Past'
  OBVIOUS
<1> USE BoundsAssumption
<1>0. TypeOK /\ TypeOK' /\ Past
  BY StepType DEF PastInv, FiringInv
<1>q. /\ moment \in [Evaluators -> Times]
      /\ queue \in [Evaluators -> SUBSET Alerts]
      /\ loaded \in [Evaluators -> SUBSET Alerts]
  BY <1>0 DEF TypeOK
<1>1. ASSUME [Next]_vars, \A e \in Evaluators : ~LoadBatch(e)
      PROVE  \A e \in Evaluators :
               /\ moment'[e] = moment[e]
               /\ queue'[e] \subseteq queue[e]
               /\ loaded'[e] \subseteq loaded[e] \cup live
  <2>1. CASE UNCHANGED vars
    BY <2>1 DEF vars, local
  <2>2. CASE User
    BY <2>2 DEF User, CreateAlert, UpdateAlert, DeleteAlert, local
  <2>3. ASSUME NEW e \in Evaluators, LoadFails(e) \/ Return(e)
        PROVE  UNCHANGED <<moment, queue, loaded>>
    BY <2>3 DEF LoadFails, Return, local
  <2>4. ASSUME NEW e \in Evaluators, NEW a \in Alerts, Work(e, a)
        PROVE  /\ UNCHANGED moment
               /\ \A d \in Evaluators : /\ queue'[d] \subseteq queue[d]
                                        /\ loaded'[d] \subseteq loaded[d] \cup live
    <3>1. CASE SkipNotDue(e, a)
      BY <1>q, <3>1 DEF SkipNotDue, Finish, Refresh, Unreadable
    <3>2. CASE BeginObserve(e, a)
      BY <1>q, <3>2 DEF BeginObserve, Refresh, Unreadable
    <3>3. CASE ObserveNotMet(e, a)
      BY <1>q, <3>3 DEF ObserveNotMet, Finish
    <3>4. CASE ObserveMet(e, a)
      BY <3>4 DEF ObserveMet
    <3>5. CASE Commit(e, a)
      BY <3>5 DEF Commit
    <3>6. CASE AuditAppend(e, a)
      BY <3>6 DEF AuditAppend
    <3>7. CASE Deliver(e, a)
      BY <1>q, <3>7 DEF Deliver, Finish
    <3>8. CASE ReadRaises(e, a)
      BY <1>q, <3>8 DEF ReadRaises, Raise
    <3>9. CASE CommitFails(e, a)
      BY <1>q, <3>9 DEF CommitFails, Finish, Expire
    <3>10. QED
      BY <2>4, <3>1, <3>2, <3>3, <3>4, <3>5, <3>6, <3>7, <3>8, <3>9 DEF Work
  <2>5. ASSUME NEW e \in Evaluators, NEW a \in Alerts, Failure(e, a)
        PROVE  /\ UNCHANGED moment
               /\ \A d \in Evaluators : /\ queue'[d] \subseteq queue[d]
                                        /\ loaded'[d] \subseteq loaded[d] \cup live
    <3>1. CASE ObserveFails(e, a)
      BY <1>q, <3>1 DEF ObserveFails, Finish
    <3>2. CASE AuditAborts(e, a)
      BY <3>2 DEF AuditAborts
    <3>3. CASE AuditFlushRaises(e, a)
      BY <1>q, <3>3 DEF AuditFlushRaises, Raise
    <3>4. CASE CommitUnheard(e, a)
      BY <1>q, <3>4 DEF CommitUnheard, Finish, Expire
    <3>5. QED
      BY <2>5, <3>1, <3>2, <3>3, <3>4 DEF Failure
  <2>6. CASE Restart
    BY <2>6 DEF Restart
  <2>7. CASE Tick
    BY <2>7 DEF Tick, local
  <2>8. ASSUME NEW a \in Alerts, MarketMoves(a)
        PROVE  UNCHANGED <<moment, queue, loaded>>
    BY <2>8 DEF MarketMoves, local
  <2>9. QED
    BY <1>1, <2>1, <2>2, <2>3, <2>4, <2>5, <2>6, <2>7, <2>8 DEF Next
<1>2. clock <= clock' /\ 1..created \subseteq 1..created'
  <2>1. clock \in Int /\ created \in Int
    BY <1>0 DEF TypeOK, Times
  <2>2. CASE CreateAlert
    BY <2>1, <2>2 DEF CreateAlert
  <2>3. CASE Tick
    BY <2>1, <2>3 DEF Tick
  <2>4. CASE UNCHANGED <<clock, created>>
    BY <2>1, <2>4
  <2>5. ASSUME ~CreateAlert, ~Tick PROVE UNCHANGED <<clock, created>>
    <3>1. CASE UNCHANGED vars
      BY <3>1 DEF vars, environment
    <3>2. ASSUME NEW a \in Alerts, UpdateAlert(a) \/ DeleteAlert(a) \/ MarketMoves(a)
          PROVE  UNCHANGED <<clock, created>>
      BY <3>2 DEF UpdateAlert, DeleteAlert, MarketMoves
    <3>3. ASSUME NEW e \in Evaluators, LoadBatch(e) \/ LoadFails(e) \/ Return(e)
          PROVE  UNCHANGED <<clock, created>>
      BY <3>3 DEF LoadBatch, LoadFails, Return, environment
    <3>4. ASSUME NEW e \in Evaluators, NEW a \in Alerts, Work(e, a)
          PROVE  UNCHANGED <<clock, created>>
      BY <3>4 DEF Work, SkipNotDue, BeginObserve, ObserveNotMet, ObserveMet,
         Commit, AuditAppend, Deliver, ReadRaises, CommitFails, environment
    <3>5. ASSUME NEW e \in Evaluators, NEW a \in Alerts, Failure(e, a)
          PROVE  UNCHANGED <<clock, created>>
      BY <3>5 DEF Failure, ObserveFails, CommitUnheard, AuditAborts,
                  AuditFlushRaises, environment
    <3>6. CASE Restart
      BY <3>6 DEF Restart, environment
    <3>7. QED
      BY <2>5, <3>1, <3>2, <3>3, <3>4, <3>5, <3>6 DEF Next, User
  <2>6. QED
    BY <2>2, <2>3, <2>4, <2>5
<1>3. ASSUME NEW e \in Evaluators
      PROVE  /\ moment'[e] <= clock'
             /\ loaded'[e] \subseteq 1..created'
             /\ queue'[e] \subseteq 1..created'
  <2>0. /\ moment[e] \in Int /\ clock \in Int /\ clock' \in Int
        /\ moment[e] <= clock
        /\ loaded[e] \subseteq 1..created
        /\ queue[e] \subseteq 1..created
        /\ live \subseteq 1..created
    BY <1>0 DEF TypeOK, Past, Times
  <2>1. ASSUME NEW d \in Evaluators, LoadBatch(d)
        PROVE  /\ moment'[e] <= clock'
               /\ loaded'[e] \subseteq 1..created'
               /\ queue'[e] \subseteq 1..created'
    <3>1. UNCHANGED <<clock, created>> /\ Selected \subseteq 1..created
      BY <2>0, <2>1, SelectedAreLive DEF LoadBatch, environment
    <3>2. /\ moment'[e] = clock \/ moment'[e] = moment[e]
          /\ loaded'[e] = Selected \/ loaded'[e] = loaded[e]
          /\ queue'[e] = Selected \/ queue'[e] = queue[e]
      BY <1>q, <2>1 DEF LoadBatch
    <3>3. moment'[e] <= clock'
      BY <2>0, <3>1, <3>2
    <3>4. loaded'[e] \subseteq 1..created' /\ queue'[e] \subseteq 1..created'
      BY <2>0, <3>1, <3>2, Zenon
    <3>5. QED
      BY <3>3, <3>4
  <2>2. CASE \A d \in Evaluators : ~LoadBatch(d)
    <3>1. /\ moment'[e] = moment[e]
          /\ queue'[e] \subseteq queue[e]
          /\ loaded'[e] \subseteq loaded[e] \cup live
      BY <1>1, <2>2
    <3>2. moment'[e] <= clock'
      BY <1>2, <2>0, <3>1
    <3>3. loaded'[e] \subseteq 1..created' /\ queue'[e] \subseteq 1..created'
      BY <1>2, <2>0, <3>1, Zenon
    <3>4. QED
      BY <3>2, <3>3
  <2>3. QED
    BY <2>1, <2>2
<1>4. ASSUME NEW a \in Alerts, NEW i \in 1..Len(events'[a])
      PROVE  events'[a][i].batch <= clock'
  <2>0. /\ Len(events[a]) \in Nat
        /\ \A j \in 1..Len(events[a]) : /\ events[a][j].batch \in Int
                                       /\ events[a][j].batch <= clock
    <3>1. events[a] \in Seq(Event)
      BY <1>0 DEF TypeOK
    <3>2. \A j \in 1..Len(events[a]) : events[a][j] \in Event
      BY <3>1
    <3>3. \A j \in 1..Len(events[a]) : events[a][j].batch \in Int
      BY <3>2, BoundsAssumption DEF Event, Times
    <3>4. QED
      BY <1>0, <3>1, <3>3 DEF Past
  <2>1. ASSUME NEW e \in Evaluators, NEW b \in Alerts, Fires(e, b)
        PROVE  events'[a][i].batch <= clock'
    <3>1. moment[e] <= clock
      BY <1>0 DEF Past
    <3>2. /\ \A c \in Alerts \ {b} : events'[c] = events[c]
          /\ Len(events'[b]) = Len(events[b]) + 1
          /\ \A j \in 1..Len(events[b]) : events'[b][j] = events[b][j]
          /\ events'[b][Len(events[b]) + 1].batch = moment[e]
          /\ clock' = clock
      BY <1>0, <2>1, FiringEvents
    <3>3. CASE a = b
      BY <2>0, <3>1, <3>2, <3>3
    <3>4. CASE a # b
      BY <2>0, <3>1, <3>2, <3>4
    <3>5. QED
      BY <3>3, <3>4
  <2>2. ASSUME NEW b \in Alerts, DeleteAlert(b)
        PROVE  events'[a][i].batch <= clock'
    <3>1. events'[a] = <<>> \/ events'[a] = events[a]
      BY <1>0, <2>2 DEF DeleteAlert, TypeOK
    <3>2. clock' = clock
      BY <2>2 DEF DeleteAlert
    <3>3. QED
      BY <1>0, <3>1, <3>2 DEF Past
  <2>3. CASE UNCHANGED events
    <3>1. clock \in Int /\ clock' \in Int
      BY <1>0 DEF TypeOK, Times
    <3>2. QED
      BY <1>2, <2>0, <2>3, <3>1
  <2>4. CreateAlert => UNCHANGED events
    BY DEF CreateAlert
  <2>5. ASSUME NEW b \in Alerts, UpdateAlert(b) PROVE UNCHANGED events
    BY <2>5 DEF UpdateAlert
  <2>6. QED
    BY <2>1, <2>2, <2>3, <2>4, <2>5, TablesKept DEF table
<1>5. QED
  BY <1>3, <1>4 DEF Past

LEMMA InitPast == Init => Past
  BY DEF Init, Past
-----------------------------------------------------------------------------
(* The cooldown.  The copy of last_fired_at a batch holds is the stored one*)
(* unless another batch has fired the rule since, because nobody else      *)
(* writes the column; and a rule a batch observes or fires was due against *)
(* the copy it holds.                                                      *)

CopyIsCurrent(e) ==
  Running(e) => \A a \in live \cap loaded[e] :
    a \notin overtaken[e] => view[e][a].last = rows[a].last

DecidedOnCopy(e) ==
  pc[e] \in {"observing", "firing"} => \A a \in Alerts :
    Current(e, a) => a \in loaded[e] /\ Due(view[e][a], moment[e])

Decisions == \A e \in Evaluators : CopyIsCurrent(e) /\ DecidedOnCopy(e)

LEMMA NewestEvent ==
  ASSUME FiringInv, NEW a \in live, events[a] # <<>>
  PROVE  /\ rows[a].last = events[a][Len(events[a])].batch
         /\ rows[a].last # Never
         /\ rows[a].last \in Int
<1> USE BoundsAssumption
<1>1. a \in Alerts /\ events[a] \in Seq(Event)
  BY DEF FiringInv, TypeOK, Alerts
<1>2. Len(events[a]) \in 1..Len(events[a])
  BY <1>1
<1>3. events[a][Len(events[a])] \in Event
  BY <1>1, <1>2
<1>4. events[a][Len(events[a])].batch \in Times
  BY <1>3 DEF Event
<1>5. rows[a].last = events[a][Len(events[a])].batch
  BY DEF FiringInv, LastFiredMatchesEvents
<1>6. QED
  BY <1>4, <1>5 DEF Times, Never

\* The steps of other batches and of the users, as batch d sees them.
LEMMA OthersDecide ==
  ASSUME PastInv, NEW d \in Evaluators, CopyIsCurrent(d), DecidedOnCopy(d),
         pc'[d] = pc[d], queue'[d] = queue[d], loaded'[d] = loaded[d],
         view'[d] = view[d], moment'[d] = moment[d],
         overtaken[d] \subseteq overtaken'[d],
         \A a \in live' \cap loaded[d] :
           /\ a \in live
           /\ Running(d) => rows'[a].last = rows[a].last \/ a \in overtaken'[d]
  PROVE  CopyIsCurrent(d)' /\ DecidedOnCopy(d)'
<1>1. CopyIsCurrent(d)'
  BY DEF CopyIsCurrent, Running
<1>2. DecidedOnCopy(d)'
  BY DEF DecidedOnCopy, Current, Due
<1>3. QED
  BY <1>1, <1>2

\* A batch that neither observes nor fires has decided nothing.
LEMMA Undecided ==
  ASSUME NEW d \in Evaluators, CopyIsCurrent(d), Running(d),
         pc'[d] \notin {"observing", "firing"},
         UNCHANGED <<live, rows>>, loaded'[d] = loaded[d] \/ loaded'[d] = {},
         view'[d] = view[d], loaded'[d] = {} \/ overtaken'[d] = overtaken[d]
  PROVE  CopyIsCurrent(d)' /\ DecidedOnCopy(d)'
  BY DEF CopyIsCurrent, DecidedOnCopy, Running

LEMMA OwnDecision ==
  ASSUME PastInv, NEW d \in Evaluators, CopyIsCurrent(d), DecidedOnCopy(d),
         \/ LoadBatch(d) \/ LoadFails(d) \/ Return(d)
         \/ \E a \in Alerts : Work(d, a) \/ Failure(d, a)
  PROVE  CopyIsCurrent(d)' /\ DecidedOnCopy(d)'
<1> USE BoundsAssumption
<1>q. /\ pc \in [Evaluators -> {"idle", "next", "observing", "firing",
                                "auditing", "delivering"}]
      /\ moment \in [Evaluators -> Times]
      /\ queue \in [Evaluators -> SUBSET Alerts]
      /\ loaded \in [Evaluators -> SUBSET Alerts]
      /\ overtaken \in [Evaluators -> SUBSET Alerts]
      /\ view \in [Evaluators -> [Alerts -> Row]]
      /\ rows \in [Alerts -> Row]
      /\ live \subseteq Alerts
  BY DEF PastInv, FiringInv, TypeOK, Alerts
<1>1. CASE LoadBatch(d)
  <2>1. /\ pc'[d] = "next" /\ view'[d] = rows /\ UNCHANGED <<live, rows>>
    BY <1>1, <1>q DEF LoadBatch, table
  <2>2. QED
    BY <2>1 DEF CopyIsCurrent, DecidedOnCopy
<1>2. CASE LoadFails(d)
  <2>1. pc'[d] = "idle"
    BY <1>2 DEF LoadFails, local
  <2>2. QED
    BY <2>1 DEF CopyIsCurrent, DecidedOnCopy, Running
<1>3. ASSUME pc'[d] = "idle" PROVE CopyIsCurrent(d)' /\ DecidedOnCopy(d)'
  BY <1>3 DEF CopyIsCurrent, DecidedOnCopy, Running
<1>4. Return(d) => pc'[d] = "idle"
  BY <1>q DEF Return
<1>5. ASSUME NEW a \in Alerts, SkipNotDue(d, a) \/ BeginObserve(d, a)
      PROVE  CopyIsCurrent(d)' /\ DecidedOnCopy(d)'
  <2>1. /\ Running(d) /\ Current(d, a) /\ ~Unreadable(d, a)
        /\ UNCHANGED <<live, rows, moment, overtaken>>
        /\ view'[d] = [view[d] EXCEPT ![a] = Read(d, a)]
        /\ loaded'[d] = loaded[d] \cup {a}
    BY <1>5, <1>q DEF SkipNotDue, BeginObserve, Refresh, table, history, Running
  <2>2. /\ view'[d][a] = Read(d, a)
        /\ \A b \in Alerts \ {a} : view'[d][b] = view[d][b]
    BY <1>q, <2>1
  <2>3. CopyIsCurrent(d)'
    BY <1>q, <2>1, <2>2 DEF CopyIsCurrent, Read
  <2>4. DecidedOnCopy(d)'
    <3>1. CASE SkipNotDue(d, a)
      BY <1>q, <3>1 DEF SkipNotDue, Finish, DecidedOnCopy
    <3>2. CASE BeginObserve(d, a)
      <4>1. UNCHANGED queue /\ Due(Read(d, a), moment[d])
        BY <3>2 DEF BeginObserve
      <4>2. \A b \in Alerts : Current(d, b)' => b = a
        BY <1>q, <2>1, <4>1 DEF Current, Alerts
      <4>3. QED
        BY <2>1, <2>2, <4>1, <4>2 DEF DecidedOnCopy, Due
    <3>3. QED
      BY <1>5, <3>1, <3>2
  <2>5. QED
    BY <2>3, <2>4
<1>6. ASSUME NEW a \in Alerts,
             \/ ObserveNotMet(d, a) \/ ObserveFails(d, a) \/ AuditAppend(d, a)
             \/ AuditAborts(d, a) \/ Deliver(d, a)
      PROVE  CopyIsCurrent(d)' /\ DecidedOnCopy(d)'
  <2>1. UNCHANGED <<live, rows, loaded, view, overtaken>>
    BY <1>6 DEF ObserveNotMet, ObserveFails, AuditAppend, AuditAborts, Deliver,
                table, history
  <2>2. pc'[d] \notin {"observing", "firing"} /\ Running(d)
    BY <1>6, <1>q DEF ObserveNotMet, ObserveFails, AuditAppend, AuditAborts,
                      Deliver, Finish, Running
  <2>3. QED
    BY <2>1, <2>2, Undecided
<1>7. ASSUME NEW a \in Alerts, ObserveMet(d, a)
      PROVE  CopyIsCurrent(d)' /\ DecidedOnCopy(d)'
  <2>1. UNCHANGED <<live, rows, moment, loaded, view, queue, overtaken>>
    BY <1>7 DEF ObserveMet, table, history
  <2>2. Running(d) /\ pc[d] = "observing"
    BY <1>7 DEF ObserveMet, Running
  <2>3. QED
    BY <2>1, <2>2 DEF CopyIsCurrent, DecidedOnCopy, Running, Current, Due
<1>8. ASSUME NEW a \in Alerts, Commit(d, a)
      PROVE  CopyIsCurrent(d)' /\ DecidedOnCopy(d)'
  <2>1. /\ rows'[a].last = moment[d] /\ \A b \in Alerts \ {a} : rows'[b] = rows[b]
    BY <1>8, FiringEvents DEF Fires, PastInv, FiringInv
  <2>2. /\ view'[d][a].last = moment[d]
        /\ \A b \in Alerts \ {a} : view'[d][b] = view[d][b]
    <3>1. view'[d] = [view[d] EXCEPT ![a].last = moment[d]]
      BY <1>8, <1>q DEF Commit
    <3>2. QED
      BY <3>1, <1>q DEF Row
  <2>3. /\ UNCHANGED <<live, loaded>> /\ pc[d] = "firing"
        /\ pc'[d] = "auditing" /\ overtaken'[d] = overtaken[d]
    BY <1>8, <1>q DEF Commit, Overtaken
  <2>4. CopyIsCurrent(d)'
    BY <1>q, <2>1, <2>2, <2>3 DEF CopyIsCurrent, Running
  <2>5. QED
    BY <2>3, <2>4 DEF DecidedOnCopy
<1>9. ASSUME NEW a \in Alerts, CommitFails(d, a) \/ CommitUnheard(d, a)
      PROVE  CopyIsCurrent(d)' /\ DecidedOnCopy(d)'
  <2>1. loaded'[d] = {} /\ pc'[d] = "next"
    BY <1>9, <1>q DEF CommitFails, CommitUnheard, Finish, Expire
  <2>2. QED
    BY <2>1 DEF CopyIsCurrent, DecidedOnCopy
<1>10. ASSUME NEW a \in Alerts, ReadRaises(d, a) \/ AuditFlushRaises(d, a)
       PROVE  pc'[d] = "idle"
  BY <1>10, <1>q DEF ReadRaises, AuditFlushRaises, Raise
<1>11. QED
  BY <1>1, <1>2, <1>3, <1>4, <1>5, <1>6, <1>7, <1>8, <1>9, <1>10
     DEF Work, Failure

LEMMA StepDecisions == PastInv /\ Decisions /\ [Next]_vars => Decisions'
<1> SUFFICES ASSUME PastInv, Decisions, [Next]_vars, NEW d \in Evaluators
             PROVE  CopyIsCurrent(d)' /\ DecidedOnCopy(d)'
  BY DEF Decisions
<1> USE BoundsAssumption
<1>0. CopyIsCurrent(d) /\ DecidedOnCopy(d)
  BY DEF Decisions
<1>q. /\ pc \in [Evaluators -> {"idle", "next", "observing", "firing",
                                "auditing", "delivering"}]
      /\ moment \in [Evaluators -> Times]
      /\ queue \in [Evaluators -> SUBSET Alerts]
      /\ loaded \in [Evaluators -> SUBSET Alerts]
      /\ overtaken \in [Evaluators -> SUBSET Alerts]
      /\ view \in [Evaluators -> [Alerts -> Row]]
      /\ rows \in [Alerts -> Row]
      /\ live \subseteq Alerts
  BY DEF PastInv, FiringInv, TypeOK, Alerts
<1>1. CASE UNCHANGED vars
  BY <1>0, <1>1 DEF vars, table, local, history, CopyIsCurrent, DecidedOnCopy,
                    Running, Current, Due
<1>2. CASE CreateAlert
  <2>1. created + 1 \in Alerts /\ created + 1 \notin live \cup loaded[d]
    BY <1>2, <1>q DEF CreateAlert, PastInv, Past, FiringInv, TypeOK, Alerts
  <2>2. \A a \in live : rows'[a] = rows[a]
    BY <1>2, <1>q, <2>1 DEF CreateAlert
  <2>3. live' = live \cup {created + 1} /\ UNCHANGED <<local, history>>
    BY <1>2 DEF CreateAlert
  <2>4. QED
    BY <1>0, <2>1, <2>2, <2>3, OthersDecide DEF local, history
<1>3. ASSUME NEW b \in Alerts, UpdateAlert(b)
      PROVE  CopyIsCurrent(d)' /\ DecidedOnCopy(d)'
  <2>1. \A a \in live : rows'[a].last = rows[a].last
    BY <1>3, <1>q DEF UpdateAlert, Row
  <2>2. UNCHANGED <<live, local, history>>
    BY <1>3 DEF UpdateAlert
  <2>3. QED
    BY <1>0, <2>1, <2>2, OthersDecide DEF local, history
<1>4. ASSUME NEW b \in Alerts, DeleteAlert(b)
      PROVE  CopyIsCurrent(d)' /\ DecidedOnCopy(d)'
  <2>1. live' \subseteq live /\ UNCHANGED <<rows, local, history>>
    BY <1>4 DEF DeleteAlert
  <2>2. QED
    BY <1>0, <2>1, OthersDecide DEF local, history
<1>5. CASE \/ LoadBatch(d) \/ LoadFails(d) \/ Return(d)
           \/ \E a \in Alerts : Work(d, a) \/ Failure(d, a)
  BY <1>0, <1>5, OwnDecision
<1>6. ASSUME UNCHANGED <<live, rows>>, pc'[d] = pc[d], queue'[d] = queue[d],
             loaded'[d] = loaded[d], view'[d] = view[d], moment'[d] = moment[d],
             overtaken'[d] = overtaken[d]
      PROVE  CopyIsCurrent(d)' /\ DecidedOnCopy(d)'
  BY <1>0, <1>6, OthersDecide
<1>7. ASSUME NEW e \in Evaluators, e # d, LoadBatch(e) \/ LoadFails(e) \/ Return(e)
      PROVE  CopyIsCurrent(d)' /\ DecidedOnCopy(d)'
  BY <1>6, <1>7, <1>q DEF LoadBatch, LoadFails, Return, table, local, history
<1>8. ASSUME NEW e \in Evaluators, NEW a \in Alerts, e # d, Fires(e, a)
      PROVE  CopyIsCurrent(d)' /\ DecidedOnCopy(d)'
  <2>1. live' = live /\ \A b \in Alerts \ {a} : rows'[b] = rows[b]
    BY <1>8, FiringEvents DEF PastInv, FiringInv
  <2>2. /\ pc'[d] = pc[d] /\ queue'[d] = queue[d] /\ loaded'[d] = loaded[d]
        /\ view'[d] = view[d] /\ moment'[d] = moment[d]
    BY <1>8, <1>q DEF Fires, Commit, CommitUnheard, Finish, Expire
  <2>3. /\ overtaken[d] \subseteq overtaken'[d]
        /\ Running(d) /\ a \in loaded[d] => a \in overtaken'[d]
    <3>1. \/ overtaken' = Overtaken(e, a)
          \/ overtaken' = [Overtaken(e, a) EXCEPT ![e] = {}]
      BY <1>8 DEF Fires, Commit, CommitUnheard
    <3>2. overtaken'[d] = Overtaken(e, a)[d]
      BY <1>8, <3>1 DEF Overtaken
    <3>3. Running(d) /\ a \in loaded[d] => Overtaken(e, a)[d] = overtaken[d] \cup {a}
      BY <1>8 DEF Overtaken
    <3>4. ~(Running(d) /\ a \in loaded[d]) => Overtaken(e, a)[d] = overtaken[d]
      BY <1>8 DEF Overtaken
    <3>5. QED
      BY <3>2, <3>3, <3>4
  <2>4. \A b \in live' \cap loaded[d] :
          /\ b \in live
          /\ Running(d) => rows'[b].last = rows[b].last \/ b \in overtaken'[d]
    BY <1>q, <2>1, <2>3
  <2>5. QED
    BY <1>0, <2>2, <2>3, <2>4, OthersDecide
<1>9. ASSUME NEW e \in Evaluators, NEW a \in Alerts, e # d, ~Fires(e, a),
             Work(e, a) \/ Failure(e, a)
      PROVE  CopyIsCurrent(d)' /\ DecidedOnCopy(d)'
  <2>1. UNCHANGED <<live, rows>>
    BY <1>9 DEF Fires, Work, Failure, SkipNotDue, BeginObserve, ObserveNotMet,
       ObserveMet, AuditAppend, Deliver, ReadRaises, CommitFails, ObserveFails,
       AuditAborts, AuditFlushRaises, table
  <2>2. /\ pc'[d] = pc[d] /\ queue'[d] = queue[d] /\ moment'[d] = moment[d]
        /\ overtaken'[d] = overtaken[d]
    BY <1>9, <1>q DEF Fires, Work, Failure, SkipNotDue, BeginObserve, ObserveNotMet,
       ObserveMet, AuditAppend, Deliver, ReadRaises, CommitFails, ObserveFails,
       AuditAborts, AuditFlushRaises, Finish, Raise, history
  <2>3. loaded'[d] = loaded[d] /\ view'[d] = view[d]
    BY <1>9, <1>q DEF Fires, Work, Failure, SkipNotDue, BeginObserve, ObserveNotMet,
       ObserveMet, AuditAppend, Deliver, ReadRaises, CommitFails, ObserveFails,
       AuditAborts, AuditFlushRaises, Refresh, Expire
  <2>4. QED
    BY <1>6, <2>1, <2>2, <2>3
<1>10. CASE Restart
  <2>1. pc'[d] = "idle"
    BY <1>10 DEF Restart
  <2>2. QED
    BY <2>1 DEF CopyIsCurrent, DecidedOnCopy, Running
<1>11. CASE Tick \/ \E a \in Alerts : MarketMoves(a)
  BY <1>6, <1>11 DEF Tick, MarketMoves, table, local, history
<1>12. QED
  BY <1>1, <1>2, <1>3, <1>4, <1>5, <1>7, <1>8, <1>9, <1>10, <1>11 DEF Next, User

LEMMA StepCooldown ==
  ASSUME PastInv, Decisions, CooldownUnlessOvertaken, [Next]_vars
  PROVE  CooldownUnlessOvertaken'
<1> USE BoundsAssumption, DataAssumption
<1> DEFINE Apart(b, i) ==
      \/ events[b][i + 1].overtaken
      \/ events[b][i + 1].cooldown = 0
      \/ events[b][i + 1].batch - events[b][i].batch >= events[b][i + 1].cooldown
<1>1. ASSUME NEW e \in Evaluators, NEW a \in Alerts, Fires(e, a)
      PROVE  CooldownUnlessOvertaken'
  <2> DEFINE n == Len(events[a])
  <2>1. /\ \A b \in Alerts \ {a} : events'[b] = events[b]
        /\ Len(events'[a]) = n + 1
        /\ \A i \in 1..n : events'[a][i] = events[a][i]
        /\ events'[a][n + 1].batch = moment[e]
        /\ events'[a][n + 1].cooldown = view[e][a].cooldown
        /\ events'[a][n + 1].overtaken = (a \in overtaken[e])
        /\ a \in live /\ pc[e] = "firing" /\ Current(e, a)
    BY <1>1, FiringEvents DEF PastInv, FiringInv
  <2>2. n \in Nat
    BY DEF PastInv, FiringInv, TypeOK
  <2>3. a \in loaded[e] /\ Due(view[e][a], moment[e])
    BY <2>1 DEF Decisions, DecidedOnCopy
  <2>4. a \notin overtaken[e] => view[e][a].last = rows[a].last
    BY <2>1, <2>3 DEF Decisions, CopyIsCurrent, Running
  <2>5. view[e][a].cooldown \in Nat
    <3>1. view[e][a] \in Row
      BY DEF PastInv, FiringInv, TypeOK
    <3>2. QED
      BY <3>1 DEF Row
  <2>6. ASSUME n # 0, a \notin overtaken[e], view[e][a].cooldown # 0
        PROVE  moment[e] - events[a][n].batch >= view[e][a].cooldown
    <3>1. events[a] # <<>>
      BY <2>2, <2>6
    <3>2. rows[a].last # Never /\ events[a][n].batch = rows[a].last
      BY <2>1, <3>1, NewestEvent DEF PastInv
    <3>3. QED
      BY <2>3, <2>4, <2>5, <2>6, <3>2 DEF Due
  <2>7. ASSUME NEW b \in Alerts, NEW i \in 1..Len(events'[b]) - 1
        PROVE  Apart(b, i)'
    <3>1. CASE b # a
      BY <2>1, <2>7, <3>1 DEF CooldownUnlessOvertaken
    <3>2. CASE b = a /\ i = n
      <4>1. n # 0
        BY <2>1, <2>2, <2>7, <3>2
      <4>2. events'[a][n] = events[a][n]
        BY <2>1, <2>2, <4>1
      <4>3. QED
        BY <2>1, <2>6, <3>2, <4>1, <4>2
    <3>3. CASE b = a /\ i # n
      <4>1. i \in 1..n - 1 /\ i \in 1..n /\ i + 1 \in 1..n
        BY <2>1, <2>2, <2>7, <3>3
      <4>2. QED
        BY <2>1, <3>3, <4>1 DEF CooldownUnlessOvertaken
    <3>4. QED
      BY <3>1, <3>2, <3>3
  <2>8. QED
    BY <2>7 DEF CooldownUnlessOvertaken
<1>2. ASSUME NEW a \in Alerts, DeleteAlert(a) PROVE CooldownUnlessOvertaken'
  <2>1. \A b \in Alerts : events'[b] = events[b] \/ events'[b] = <<>>
    BY <1>2 DEF DeleteAlert, PastInv, FiringInv, TypeOK
  <2>2. QED
    BY <2>1 DEF CooldownUnlessOvertaken
<1>3. CASE UNCHANGED events
  BY <1>3 DEF CooldownUnlessOvertaken
<1>4. CreateAlert => UNCHANGED events
  BY DEF CreateAlert
<1>5. ASSUME NEW a \in Alerts, UpdateAlert(a) PROVE UNCHANGED events
  BY <1>5 DEF UpdateAlert
<1>6. QED
  BY <1>1, <1>2, <1>3, <1>4, <1>5, TablesKept DEF table

\* Whatever batches overlap, edits and failures come in between: a rule fires
\* inside its cooldown only for a batch that read it before another batch's firing
\* of it was committed (evaluate_due_alerts, alerts.py).
THEOREM CooldownsHold == Spec => []CooldownUnlessOvertaken
<1> DEFINE Inv == PastInv /\ Decisions /\ CooldownUnlessOvertaken
<1>1. Init => Inv
  BY InitFiring, InitPast DEF PastInv, Init, Decisions, CopyIsCurrent, DecidedOnCopy,
     Running, CooldownUnlessOvertaken
<1>2. Inv /\ [Next]_vars => Inv'
  BY StepFiring, StepPast, StepDecisions, StepCooldown DEF PastInv
<1>3. Inv => CooldownUnlessOvertaken
  OBVIOUS
<1>4. QED
  BY <1>1, <1>2, <1>3, PTL DEF Spec
-----------------------------------------------------------------------------
(* Pausing.  A batch may still fire a rule that was paused after the batch *)
(* loaded it; what it may not do is load a paused rule.                    *)

QueuedBeforePause ==
  \A e \in Evaluators : \A a \in queue[e] \cap live :
    ~rows[a].active => moment[e] <= pausedAt[a]

LEMMA StepPause ==
  ASSUME PastInv, QueuedBeforePause, PausedStaysQuiet, [Next]_vars
  PROVE  QueuedBeforePause' /\ PausedStaysQuiet'
<1> USE BoundsAssumption
<1>q. /\ moment \in [Evaluators -> Times]
      /\ queue \in [Evaluators -> SUBSET Alerts]
      /\ rows \in [Alerts -> Row]
      /\ pausedAt \in [Alerts -> Times]
      /\ live \subseteq Alerts
  BY DEF PastInv, FiringInv, TypeOK, Alerts
<1>1. CASE CreateAlert
  <2>1. created + 1 \in Alerts /\ created + 1 \notin live
    BY <1>1 DEF CreateAlert, PastInv, FiringInv, TypeOK, Alerts
  <2>2. rows'[created + 1].active
    BY <1>1, <1>q, <2>1 DEF CreateAlert, NewRow
  <2>3. \A a \in live : rows'[a] = rows[a]
    BY <1>1, <1>q, <2>1 DEF CreateAlert
  <2>4. live' = live \cup {created + 1} /\ UNCHANGED <<queue, moment, events, pausedAt>>
    BY <1>1 DEF CreateAlert, local
  <2>5. QED
    BY <2>2, <2>3, <2>4 DEF QueuedBeforePause, PausedStaysQuiet
<1>2. ASSUME NEW b \in Alerts, UpdateAlert(b)
      PROVE  QueuedBeforePause' /\ PausedStaysQuiet'
  <2>1. /\ \A a \in Alerts \ {b} : rows'[a] = rows[a] /\ pausedAt'[a] = pausedAt[a]
        /\ UNCHANGED <<live, queue, moment, events>>
    BY <1>2, <1>q DEF UpdateAlert, local
  <2>2. ~rows'[b].active => pausedAt'[b] = clock \/ (~rows[b].active /\ UNCHANGED pausedAt)
    <3>1. PICK active \in BOOLEAN, threshold \in Levels, cooldown \in Cooldowns :
            /\ rows' = [rows EXCEPT ![b] =
                 [@ EXCEPT !.active = active, !.threshold = threshold,
                           !.cooldown = cooldown]]
            /\ pausedAt' = IF rows[b].active /\ ~active
                           THEN [pausedAt EXCEPT ![b] = clock] ELSE pausedAt
      BY <1>2 DEF UpdateAlert
    <3>2. rows'[b].active = active
      BY <1>q, <3>1 DEF Row
    <3>3. CASE rows[b].active /\ ~active
      <4>1. pausedAt' = [pausedAt EXCEPT ![b] = clock]
        BY <3>1, <3>3, Zenon
      <4>2. QED
        BY <1>q, <4>1
    <3>4. CASE ~rows[b].active
      <4>1. pausedAt' = pausedAt
        BY <3>1, <3>4, Zenon
      <4>2. QED
        BY <3>4, <4>1
    <3>5. CASE active
      BY <3>2, <3>5, Zenon
    <3>6. QED
      BY <3>3, <3>4, <3>5, Zenon
  <2>3. /\ \A e \in Evaluators : moment[e] <= clock
        /\ \A i \in 1..Len(events[b]) : events[b][i].batch <= clock
    BY DEF PastInv, Past
  <2>4. \A e \in Evaluators : b \in queue'[e] \cap live' /\ ~rows'[b].active
          => moment'[e] <= pausedAt'[b]
    BY <2>1, <2>2, <2>3 DEF QueuedBeforePause
  <2>5. b \in live' /\ ~rows'[b].active =>
          \A i \in 1..Len(events'[b]) : events'[b][i].batch <= pausedAt'[b]
    BY <2>1, <2>2, <2>3 DEF PausedStaysQuiet
  <2>6. QED
    BY <1>q, <2>1, <2>4, <2>5 DEF QueuedBeforePause, PausedStaysQuiet
<1>3. ASSUME NEW b \in Alerts, DeleteAlert(b)
      PROVE  QueuedBeforePause' /\ PausedStaysQuiet'
  <2>1. \A a \in Alerts : events'[a] = events[a] \/ events'[a] = <<>>
    BY <1>3 DEF DeleteAlert, PastInv, FiringInv, TypeOK
  <2>2. live' \subseteq live /\ UNCHANGED <<rows, queue, moment, pausedAt>>
    BY <1>3 DEF DeleteAlert, local
  <2>3. QED
    BY <1>q, <2>1, <2>2 DEF QueuedBeforePause, PausedStaysQuiet
<1>4. ASSUME NEW e \in Evaluators, NEW a \in Alerts, Fires(e, a)
      PROVE  QueuedBeforePause' /\ PausedStaysQuiet'
  <2>1. /\ \A b \in Alerts : rows'[b].active = rows[b].active
        /\ a \in queue[e] \cap live
        /\ UNCHANGED <<live, moment, pausedAt>>
        /\ \A b \in Alerts \ {a} : events'[b] = events[b]
        /\ Len(events'[a]) = Len(events[a]) + 1
        /\ \A i \in 1..Len(events[a]) : events'[a][i] = events[a][i]
        /\ events'[a][Len(events[a]) + 1].batch = moment[e]
    BY <1>4, FiringEvents DEF PastInv, FiringInv, Current
  <2>2. \A d \in Evaluators : queue'[d] \subseteq queue[d]
    BY <1>4, <1>q DEF Fires, Commit, CommitUnheard, Finish
  <2>3. Len(events[a]) \in Nat
    BY DEF PastInv, FiringInv, TypeOK
  <2>4. QueuedBeforePause'
    BY <1>q, <2>1, <2>2 DEF QueuedBeforePause
  <2>5. ~rows[a].active => \A i \in 1..Len(events'[a]) : events'[a][i].batch <= pausedAt[a]
    BY <2>1, <2>3 DEF QueuedBeforePause, PausedStaysQuiet
  <2>6. PausedStaysQuiet'
    BY <1>q, <2>1, <2>5 DEF PausedStaysQuiet
  <2>7. QED
    BY <2>4, <2>6
<1>5. ASSUME NEW e \in Evaluators, LoadBatch(e) PROVE QueuedBeforePause'
  <2>1. \A a \in Selected : rows[a].active
    BY DEF Selected, Active
  <2>2. \A d \in Evaluators : queue'[d] = Selected
                          \/ (queue'[d] = queue[d] /\ moment'[d] = moment[d])
    BY <1>5, <1>q DEF LoadBatch
  <2>3. UNCHANGED <<live, rows, pausedAt>>
    BY <1>5 DEF LoadBatch, table, environment
  <2>4. QED
    BY <2>1, <2>2, <2>3 DEF QueuedBeforePause
<1>6. ASSUME UNCHANGED <<live, rows, moment, pausedAt>>,
             \A e \in Evaluators : queue'[e] \subseteq queue[e]
      PROVE  QueuedBeforePause'
  BY <1>6 DEF QueuedBeforePause
<1>7. ASSUME UNCHANGED table, \A e \in Evaluators : ~LoadBatch(e)
      PROVE  QueuedBeforePause'
  <2>1. CASE UNCHANGED vars
    BY <1>6, <2>1 DEF vars, table, local, environment
  <2>2. ASSUME NEW e \in Evaluators, LoadFails(e) \/ Return(e) PROVE QueuedBeforePause'
    BY <1>6, <2>2 DEF LoadFails, Return, table, local, environment
  <2>3. ASSUME NEW e \in Evaluators, NEW a \in Alerts, Work(e, a), ~Fires(e, a)
        PROVE  QueuedBeforePause'
    <3>1. UNCHANGED <<live, rows, moment, pausedAt>>
      BY <2>3 DEF Fires, Work, SkipNotDue, BeginObserve, ObserveNotMet, ObserveMet,
         AuditAppend, Deliver, ReadRaises, CommitFails, table, environment
    <3>2. UNCHANGED queue \/ Finish(e, a) \/ Raise(e)
      BY <2>3 DEF Fires, Work, SkipNotDue, BeginObserve, ObserveNotMet, ObserveMet,
         AuditAppend, Deliver, ReadRaises, CommitFails
    <3>3. \A d \in Evaluators : queue'[d] \subseteq queue[d]
      BY <1>q, <3>2 DEF Finish, Raise
    <3>4. QED
      BY <1>6, <3>1, <3>3
  <2>4. ASSUME NEW e \in Evaluators, NEW a \in Alerts, Failure(e, a), ~Fires(e, a)
        PROVE  QueuedBeforePause'
    <3>1. UNCHANGED <<live, rows, moment, pausedAt>>
      BY <2>4 DEF Fires, Failure, ObserveFails, AuditAborts, AuditFlushRaises,
                  table, environment
    <3>2. UNCHANGED queue \/ Finish(e, a) \/ Raise(e)
      BY <2>4 DEF Fires, Failure, ObserveFails, AuditAborts, AuditFlushRaises
    <3>3. \A d \in Evaluators : queue'[d] \subseteq queue[d]
      BY <1>q, <3>2 DEF Finish, Raise
    <3>4. QED
      BY <1>6, <3>1, <3>3
  <2>5. CASE Restart
    BY <1>6, <2>5 DEF Restart, table, environment
  <2>6. CASE Tick \/ \E a \in Alerts : MarketMoves(a)
    BY <1>6, <2>6 DEF Tick, MarketMoves, table, local
  <2>7. ASSUME NEW e \in Evaluators, NEW a \in Alerts, Fires(e, a)
        PROVE  QueuedBeforePause'
    BY <1>4, <2>7
  <2>8. QED
    BY <1>1, <1>2, <1>3, <1>7, <2>1, <2>2, <2>3, <2>4, <2>5, <2>6, <2>7 DEF Next, User
<1>8. ASSUME UNCHANGED <<table, pausedAt>> PROVE PausedStaysQuiet'
  BY <1>8 DEF table, PausedStaysQuiet
<1>9. ASSUME UNCHANGED table PROVE UNCHANGED pausedAt \/ User
  <2>1. CASE UNCHANGED vars
    BY <2>1 DEF vars, environment
  <2>2. ASSUME NEW e \in Evaluators, LoadBatch(e) \/ LoadFails(e) \/ Return(e)
        PROVE  UNCHANGED pausedAt
    BY <2>2 DEF LoadBatch, LoadFails, Return, environment
  <2>3. ASSUME NEW e \in Evaluators, NEW a \in Alerts, Work(e, a)
        PROVE  UNCHANGED pausedAt
    BY <2>3 DEF Work, SkipNotDue, BeginObserve, ObserveNotMet, ObserveMet, Commit,
       AuditAppend, Deliver, ReadRaises, CommitFails, environment
  <2>4. ASSUME NEW e \in Evaluators, NEW a \in Alerts, Failure(e, a)
        PROVE  UNCHANGED pausedAt
    BY <2>4 DEF Failure, ObserveFails, CommitUnheard, AuditAborts, AuditFlushRaises,
       environment
  <2>5. CASE Restart \/ Tick \/ \E a \in Alerts : MarketMoves(a)
    BY <2>5 DEF Restart, Tick, MarketMoves, environment
  <2>6. QED
    BY <2>1, <2>2, <2>3, <2>4, <2>5 DEF Next
<1>10. QED
  BY <1>1, <1>2, <1>3, <1>4, <1>5, <1>7, <1>8, <1>9, TablesKept DEF User

\* A rule that was paused before a batch started is never fired by it, for any
\* number of batches in flight and however late they fire.
THEOREM PauseIsRespected == Spec => []PausedStaysQuiet
<1> DEFINE Inv == PastInv /\ QueuedBeforePause /\ PausedStaysQuiet
<1>1. Init => Inv
  BY InitFiring, InitPast DEF PastInv, Init, QueuedBeforePause, PausedStaysQuiet
<1>2. Inv /\ [Next]_vars => Inv'
  BY StepFiring, StepPast, StepPause DEF PastInv
<1>3. Inv => PausedStaysQuiet
  OBVIOUS
<1>4. QED
  BY <1>1, <1>2, <1>3, PTL DEF Spec

-----------------------------------------------------------------------------
(* Every committed firing is accounted for.                                *)

\* The batches that have committed a firing of a rule and not announced it yet.
Announcing(a) ==
  {e \in Evaluators : pc[e] \in {"auditing", "delivering"} /\ Current(e, a)}

\* A batch works on one rule at a time.
LEMMA OneCurrent ==
  ASSUME TypeOK, NEW e \in Evaluators, NEW a \in Alerts, NEW b \in Alerts, Current(e, a), Current(e, b)
  PROVE  a = b
<1>1. a <= b /\ b <= a
  BY DEF Current
<1>2. QED
  BY <1>1, BoundsAssumption DEF Alerts

\* The step of a batch changes nobody else's place.
LEMMA PlacesKept ==
  ASSUME TypeOK, NEW e \in Evaluators,
         \E place \in {"idle", "next", "observing", "firing", "auditing", "delivering"} :
           pc' = [pc EXCEPT ![e] = place],
         \E rest \in SUBSET Alerts : queue' = [queue EXCEPT ![e] = rest],
         NEW a \in Alerts, NEW d \in Evaluators, d # e
  PROVE  d \in Announcing(a)' <=> d \in Announcing(a)
<1>1. pc'[d] = pc[d] /\ queue'[d] = queue[d]
  BY DEF TypeOK
<1>2. QED
  BY <1>1 DEF Announcing, Current

\* A step of a batch that neither commits nor announces.
LEMMA QuietStep ==
  ASSUME TypeOK, NEW e \in Evaluators,
         NEW place \in {"idle", "next", "observing", "firing"}, NEW rest \in SUBSET Alerts,
         pc[e] \notin {"auditing", "delivering"},
         pc' = [pc EXCEPT ![e] = place], queue' = [queue EXCEPT ![e] = rest],
         NEW a \in Alerts
  PROVE  Announcing(a)' = Announcing(a)
<1>1. \A d \in Evaluators \ {e} : d \in Announcing(a)' <=> d \in Announcing(a)
  BY PlacesKept
<1>2. e \notin Announcing(a) /\ e \notin Announcing(a)'
  BY DEF Announcing, TypeOK
<1>3. Announcing(a) \subseteq Evaluators /\ Announcing(a)' \subseteq Evaluators
  BY DEF Announcing
<1>4. QED
  BY <1>1, <1>2, <1>3

\* What the account of a rule says stays true when neither side of it changes.
LEMMA AccountKept ==
  ASSUME DeliveryAccounted, NEW a \in Alerts,
         fires'[a] = fires[a], notes'[a] = notes[a], lost'[a] = lost[a], Announcing(a)' = Announcing(a)
  PROVE  fires'[a] = notes'[a] + lost'[a] + Cardinality(Announcing(a))'
  BY DEF DeliveryAccounted, Announcing

\* The steps that commit, announce or lose a firing.
LEMMA FiringAccounted ==
  ASSUME TypeOK, DeliveryAccounted, NEW e \in Evaluators, NEW a \in Alerts,
         Fires(e, a) \/ Deliver(e, a) \/ AuditFlushRaises(e, a)
  PROVE  \A b \in Alerts : fires'[b] = notes'[b] + lost'[b] + Cardinality(Announcing(b))'
<1>1. /\ \A d \in Evaluators : pc[d] \in {"idle", "next", "observing", "firing", "auditing", "delivering"}
      /\ fires \in [Alerts -> Nat] /\ notes \in [Alerts -> Nat] /\ lost \in [Alerts -> Nat]
      /\ queue \in [Evaluators -> SUBSET Alerts] /\ DOMAIN pc = Evaluators /\ pc = [d \in Evaluators |-> pc[d]]
  BY DEF TypeOK
<1>2. Current(e, a)
  BY DEF Fires, Commit, CommitUnheard, Deliver, AuditFlushRaises
<1>3. \A b \in Alerts : b # a => ~Current(e, b)
  BY <1>2, OneCurrent
<1>4. \A b \in Alerts : fires[b] = notes[b] + lost[b] + Cardinality(Announcing(b))
  BY DEF DeliveryAccounted, Announcing
<1>5. \A b \in Alerts : /\ IsFiniteSet(Announcing(b)) /\ Cardinality(Announcing(b)) \in Nat
                        /\ Announcing(b) \subseteq Evaluators /\ Announcing(b)' \subseteq Evaluators
  <2>1. \A b \in Alerts : Announcing(b) \subseteq Evaluators /\ Announcing(b)' \subseteq Evaluators
    BY DEF Announcing
  <2>2. QED
    BY <2>1, EvaluatorsAssumption, FS_Subset, FS_CardinalityType
<1>6. CASE Commit(e, a)
  <2>1. /\ pc[e] = "firing" /\ pc' = [pc EXCEPT ![e] = "auditing"]
        /\ queue' = queue /\ notes' = notes /\ lost' = lost /\ fires' = [fires EXCEPT ![a] = @ + 1]
    BY <1>6 DEF Commit, StoreFiring
  <2>2. queue' = [queue EXCEPT ![e] = queue[e]]
    BY <1>1, <2>1
  <2>3. queue[e] \in SUBSET Alerts
    BY <1>1
  <2>4. \A b \in Alerts, d \in Evaluators : d # e => (d \in Announcing(b)' <=> d \in Announcing(b))
    BY <2>1, <2>2, <2>3, PlacesKept
  <2>5. e \notin Announcing(a) /\ e \in Announcing(a)'
    BY <1>1, <1>2, <2>1 DEF Announcing, Current
  <2>6. \A b \in Alerts : b # a => e \notin Announcing(b) /\ e \notin Announcing(b)'
    BY <1>3, <2>1 DEF Announcing, Current
  <2>7. Announcing(a)' = Announcing(a) \cup {e}
    BY <1>5, <2>4, <2>5
  <2>8. Cardinality(Announcing(a))' = Cardinality(Announcing(a)) + 1
    BY <1>5, <2>5, <2>7, FS_AddElement
  <2>9. \A b \in Alerts : b # a => Announcing(b)' = Announcing(b)
    <3>1. SUFFICES ASSUME NEW b \in Alerts, b # a PROVE Announcing(b)' = Announcing(b)
      OBVIOUS
    <3>2. Announcing(b) \subseteq Evaluators /\ Announcing(b)' \subseteq Evaluators
      BY <1>5
    <3>3. \A d \in Evaluators : d \in Announcing(b)' <=> d \in Announcing(b)
      BY <2>4, <2>6, <3>1
    <3>4. QED
      BY <3>2, <3>3
  <2>10. fires'[a] = fires[a] + 1 /\ \A b \in Alerts : b # a => fires'[b] = fires[b]
    BY <1>1, <2>1
  <2>11. fires'[a] = notes'[a] + lost'[a] + Cardinality(Announcing(a))'
    BY <1>1, <1>4, <1>5, <2>1, <2>8, <2>10
  <2>12. \A b \in Alerts : b # a => fires'[b] = notes'[b] + lost'[b] + Cardinality(Announcing(b))'
    BY <2>1, <2>9, <2>10, AccountKept
  <2>13. QED
    BY <2>11, <2>12
<1>7. ASSUME pc[e] \in {"auditing", "delivering"},
             NEW place \in {"idle", "next"}, pc' = [pc EXCEPT ![e] = place],
             NEW rest \in SUBSET Alerts, queue' = [queue EXCEPT ![e] = rest]
      PROVE  /\ Cardinality(Announcing(a))' = Cardinality(Announcing(a)) - 1
             /\ \A b \in Alerts : b # a => Announcing(b)' = Announcing(b)
  <2>1. \A b \in Alerts, d \in Evaluators : d # e => (d \in Announcing(b)' <=> d \in Announcing(b))
    BY <1>7, PlacesKept
  <2>2. e \in Announcing(a) /\ \A b \in Alerts : e \notin Announcing(b)'
    BY <1>1, <1>2, <1>7 DEF Announcing
  <2>3. \A b \in Alerts : b # a => e \notin Announcing(b)
    BY <1>3 DEF Announcing
  <2>4. Announcing(a)' = Announcing(a) \ {e}
    BY <1>5, <2>1, <2>2
  <2>5. Cardinality(Announcing(a))' = Cardinality(Announcing(a)) - 1
    BY <1>5, <2>2, <2>4, FS_RemoveElement
  <2>6. \A b \in Alerts : b # a => Announcing(b)' = Announcing(b)
    <3>1. SUFFICES ASSUME NEW b \in Alerts, b # a PROVE Announcing(b)' = Announcing(b)
      OBVIOUS
    <3>2. Announcing(b) \subseteq Evaluators /\ Announcing(b)' \subseteq Evaluators
      BY <1>5
    <3>3. \A d \in Evaluators : d \in Announcing(b)' <=> d \in Announcing(b)
      BY <2>1, <2>2, <2>3, <3>1
    <3>4. QED
      BY <3>2, <3>3
  <2>7. QED
    BY <2>5, <2>6
<1>8. CASE Deliver(e, a)
  <2>1. /\ pc[e] = "delivering" /\ pc' = [pc EXCEPT ![e] = "next"]
        /\ queue' = [queue EXCEPT ![e] = queue[e] \ {a}]
        /\ fires' = fires /\ lost' = lost /\ notes' = [notes EXCEPT ![a] = @ + 1]
    BY <1>8 DEF Deliver, Finish
  <2>2. queue[e] \ {a} \in SUBSET Alerts
    BY <1>1
  <2>3. /\ Cardinality(Announcing(a))' = Cardinality(Announcing(a)) - 1
        /\ \A b \in Alerts : b # a => Announcing(b)' = Announcing(b)
    BY <1>7, <2>1, <2>2
  <2>4. notes'[a] = notes[a] + 1 /\ \A b \in Alerts : b # a => notes'[b] = notes[b]
    BY <1>1, <2>1
  <2>5. fires'[a] = notes'[a] + lost'[a] + Cardinality(Announcing(a))'
    BY <1>1, <1>4, <1>5, <2>1, <2>3, <2>4
  <2>6. \A b \in Alerts : b # a => fires'[b] = notes'[b] + lost'[b] + Cardinality(Announcing(b))'
    BY <2>1, <2>3, <2>4, AccountKept
  <2>7. QED
    BY <2>5, <2>6
<1>9. CASE AuditFlushRaises(e, a)
  <2>1. /\ pc[e] = "auditing" /\ pc' = [pc EXCEPT ![e] = "idle"]
        /\ queue' = [queue EXCEPT ![e] = {}]
        /\ fires' = fires /\ notes' = notes /\ lost' = [lost EXCEPT ![a] = @ + 1]
    BY <1>9 DEF AuditFlushRaises, Raise
  <2>2. {} \in SUBSET Alerts
    OBVIOUS
  <2>3. /\ Cardinality(Announcing(a))' = Cardinality(Announcing(a)) - 1
        /\ \A b \in Alerts : b # a => Announcing(b)' = Announcing(b)
    BY <1>7, <2>1, <2>2
  <2>4. lost'[a] = lost[a] + 1 /\ \A b \in Alerts : b # a => lost'[b] = lost[b]
    BY <1>1, <2>1
  <2>5. fires'[a] = notes'[a] + lost'[a] + Cardinality(Announcing(a))'
    BY <1>1, <1>4, <1>5, <2>1, <2>3, <2>4
  <2>6. \A b \in Alerts : b # a => fires'[b] = notes'[b] + lost'[b] + Cardinality(Announcing(b))'
    BY <2>1, <2>3, <2>4, AccountKept
  <2>7. QED
    BY <2>5, <2>6
<1>10. CASE CommitUnheard(e, a)
  <2>1. /\ pc[e] = "firing" /\ pc' = [pc EXCEPT ![e] = "next"]
        /\ queue' = [queue EXCEPT ![e] = queue[e] \ {a}] /\ notes' = notes
        /\ fires' = [fires EXCEPT ![a] = @ + 1] /\ lost' = [lost EXCEPT ![a] = @ + 1]
    BY <1>10 DEF CommitUnheard, StoreFiring, Finish
  <2>2. queue[e] \ {a} \in SUBSET Alerts
    BY <1>1
  <2>3. \A b \in Alerts : Announcing(b)' = Announcing(b)
    BY <2>1, <2>2, QuietStep
  <2>4. /\ fires'[a] = fires[a] + 1 /\ lost'[a] = lost[a] + 1
        /\ \A b \in Alerts : b # a => fires'[b] = fires[b] /\ lost'[b] = lost[b]
    BY <1>1, <2>1
  <2>5. fires'[a] = notes'[a] + lost'[a] + Cardinality(Announcing(a))'
    BY <1>1, <1>4, <1>5, <2>1, <2>3, <2>4
  <2>6. \A b \in Alerts : b # a => fires'[b] = notes'[b] + lost'[b] + Cardinality(Announcing(b))'
    BY <2>1, <2>3, <2>4, AccountKept
  <2>7. QED
    BY <2>5, <2>6
<1>11. QED
  BY <1>6, <1>8, <1>9, <1>10 DEF Fires

\* Any other step of the batches leaves each account as it is.
LEMMA OtherAccounted ==
  ASSUME TypeOK, [Next]_vars, ~Restart,
         \A e \in Evaluators, a \in Alerts :
           ~Fires(e, a) /\ ~Deliver(e, a) /\ ~AuditFlushRaises(e, a),
         NEW b \in Alerts
  PROVE  /\ fires'[b] = fires[b] /\ notes'[b] = notes[b] /\ lost'[b] = lost[b]
         /\ Announcing(b)' = Announcing(b)
<1>1. ASSUME UNCHANGED <<pc, queue, history>>
      PROVE  /\ fires'[b] = fires[b] /\ notes'[b] = notes[b] /\ lost'[b] = lost[b]
             /\ Announcing(b)' = Announcing(b)
  <2>1. fires' = fires /\ notes' = notes /\ lost' = lost /\ pc' = pc /\ queue' = queue
    BY <1>1 DEF history
  <2>2. QED
    BY <2>1 DEF Announcing, Current
<1>2. ASSUME NEW e \in Evaluators, NEW place \in {"idle", "next", "observing", "firing"},
             NEW rest \in SUBSET Alerts, pc[e] \notin {"auditing", "delivering"},
             pc' = [pc EXCEPT ![e] = place], queue' = [queue EXCEPT ![e] = rest],
             UNCHANGED <<fires, notes, lost>>
      PROVE  /\ fires'[b] = fires[b] /\ notes'[b] = notes[b] /\ lost'[b] = lost[b]
             /\ Announcing(b)' = Announcing(b)
  BY <1>2, QuietStep
<1>3. \A e \in Evaluators : queue[e] \in SUBSET Alerts /\ queue' = queue => queue' = [queue EXCEPT ![e] = queue[e]]
  BY DEF TypeOK
<1>4. queue \in [Evaluators -> SUBSET Alerts] /\ DOMAIN pc = Evaluators /\ pc = [d \in Evaluators |-> pc[d]]
  BY DEF TypeOK
<1>5. CASE UNCHANGED vars
  BY <1>1, <1>5 DEF vars, local, history
<1>6. CASE User
  BY <1>1, <1>6 DEF User, CreateAlert, UpdateAlert, DeleteAlert, local, history
<1>7. CASE Tick \/ \E a \in Alerts : MarketMoves(a)
  BY <1>1, <1>7 DEF Tick, MarketMoves, local, history
<1>8. ASSUME NEW e \in Evaluators, LoadBatch(e) \/ LoadFails(e) \/ Return(e)
      PROVE  /\ fires'[b] = fires[b] /\ notes'[b] = notes[b] /\ lost'[b] = lost[b]
             /\ Announcing(b)' = Announcing(b)
  <2>1. CASE LoadBatch(e)
    <3>1. Selected \in SUBSET Alerts
      BY SelectedAreLive, BoundsAssumption DEF TypeOK, Alerts
    <3>2. QED
      BY <1>2, <2>1, <3>1 DEF LoadBatch
  <2>2. CASE LoadFails(e)
    <3>1. UNCHANGED <<pc, queue, fires, notes, lost>>
      BY <2>2 DEF LoadFails, local
    <3>2. QED
      BY <3>1 DEF Announcing, Current
  <2>3. CASE Return(e)
    BY <1>2, <1>3, <1>4, <2>3 DEF Return, history
  <2>4. QED
    BY <1>8, <2>1, <2>2, <2>3
<1>9. ASSUME NEW e \in Evaluators, NEW a \in Alerts, Work(e, a) \/ Failure(e, a)
      PROVE  /\ fires'[b] = fires[b] /\ notes'[b] = notes[b] /\ lost'[b] = lost[b]
             /\ Announcing(b)' = Announcing(b)
  <2>1. queue[e] \ {a} \in SUBSET Alerts /\ queue[e] \in SUBSET Alerts /\ {} \in SUBSET Alerts
    BY <1>4
  <2>2. CASE SkipNotDue(e, a)
    BY <1>2, <2>1, <2>2 DEF SkipNotDue, Finish, history
  <2>3. CASE BeginObserve(e, a)
    BY <1>2, <1>3, <2>1, <2>3 DEF BeginObserve, history
  <2>4. CASE ObserveNotMet(e, a)
    BY <1>2, <2>1, <2>4 DEF ObserveNotMet, Finish, history
  <2>5. CASE ObserveMet(e, a)
    BY <1>2, <1>3, <2>1, <2>5 DEF ObserveMet, history
  <2>6. CASE ObserveFails(e, a)
    BY <1>2, <2>1, <2>6 DEF ObserveFails, Finish, history
  <2>7. CASE ReadRaises(e, a)
    BY <1>2, <2>1, <2>7 DEF ReadRaises, Raise, history
  <2>8. CASE CommitFails(e, a)
    BY <1>2, <2>1, <2>8 DEF CommitFails, Finish
  <2>9. CASE AuditAppend(e, a) \/ AuditAborts(e, a)
    <3>1. /\ pc[e] = "auditing" /\ pc' = [pc EXCEPT ![e] = "delivering"] /\ queue' = queue
          /\ fires' = fires /\ notes' = notes /\ lost' = lost
      BY <2>9 DEF AuditAppend, AuditAborts, history
    <3>2. pc'[e] = "delivering" /\ \A d \in Evaluators : d # e => pc'[d] = pc[d]
      BY <1>4, <3>1
    <3>3. \A d \in Evaluators :
            pc'[d] \in {"auditing", "delivering"} <=> pc[d] \in {"auditing", "delivering"}
      BY <3>1, <3>2
    <3>4. QED
      BY <3>1, <3>3 DEF Announcing, Current
  <2>10. QED
    BY <1>9, <2>2, <2>3, <2>4, <2>5, <2>6, <2>7, <2>8, <2>9 DEF Fires, Work, Failure
<1>10. QED
  BY <1>5, <1>6, <1>7, <1>8, <1>9 DEF Next

LEMMA StepAccount == TypeOK /\ DeliveryAccounted /\ [Next]_vars => DeliveryAccounted'
<1> SUFFICES ASSUME TypeOK, DeliveryAccounted, [Next]_vars,  NEW b \in Alerts
             PROVE  fires'[b] = notes'[b] + lost'[b] + Cardinality(Announcing(b))'
  BY DEF DeliveryAccounted, Announcing
<1>1. CASE \E e \in Evaluators, a \in Alerts : Fires(e, a) \/ Deliver(e, a) \/ AuditFlushRaises(e, a)
  BY <1>1, FiringAccounted
\* A restart loses what was about to be announced.
<1>2. CASE Restart
  <2>1. /\ fires' = fires /\ notes' = notes
        /\ lost'[b] = lost[b] + Cardinality(Announcing(b))
        /\ pc' = [e \in Evaluators |-> "idle"]
    BY <1>2 DEF Restart, Announcing
  <2>2. Announcing(b)' = {}
    BY <2>1 DEF Announcing
  <2>3. Cardinality(Announcing(b))' = 0
    BY <2>2, FS_EmptySet
  <2>4. fires[b] = notes[b] + lost[b] + Cardinality(Announcing(b))
    BY DEF DeliveryAccounted, Announcing
  <2>5. Cardinality(Announcing(b)) \in Nat
    BY EvaluatorsAssumption, FS_Subset, FS_CardinalityType DEF Announcing
  <2>6. notes[b] \in Nat /\ lost[b] \in Nat
    BY DEF TypeOK
  <2>7. QED
    BY <2>1, <2>3, <2>4, <2>5, <2>6
<1>3. CASE ~Restart /\ \A e \in Evaluators, a \in Alerts :
             ~Fires(e, a) /\ ~Deliver(e, a) /\ ~AuditFlushRaises(e, a)
  BY <1>3, OtherAccounted, AccountKept
<1>4. QED
  BY <1>1, <1>2, <1>3

LEMMA InitAccount == Init => DeliveryAccounted
<1> SUFFICES ASSUME Init, NEW a \in Alerts
             PROVE  fires[a] = notes[a] + lost[a] + Cardinality(Announcing(a))
  BY DEF DeliveryAccounted, Announcing
<1>1. Announcing(a) = {}
  BY DEF Init, Announcing
<1>2. Cardinality(Announcing(a)) = 0
  BY <1>1, FS_EmptySet
<1>3. QED
  BY <1>2 DEF Init

\* However the batches overlap, fail and die: no firing is announced that was not
\* committed, and each committed one is announced once, about to be, or lost with its
\* batch (evaluate_due_alerts, alerts.py).
THEOREM FiringsAreAccounted == Spec => []DeliveryAccounted
<1>1. TypeOK /\ DeliveryAccounted /\ [Next]_vars => TypeOK' /\ DeliveryAccounted'
  BY StepType, StepAccount
<1>2. QED
  BY InitType, InitAccount, <1>1, PTL DEF Spec

=============================================================================
