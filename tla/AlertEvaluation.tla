-------------------------- MODULE AlertEvaluation --------------------------
(***************************************************************************)
(* Alert rules and their evaluation: the CRUD handlers and                 *)
(* evaluate_due_alerts of backend/api/alerts.py, with the callers of the   *)
(* batch in backend/api/cron.py and backend/workers/jobs.py.               *)
(*                                                                         *)
(* Several batches may be in flight: the scheduler calls the endpoint      *)
(* every fifteen minutes, gives up on an answer after fifteen but does not *)
(* stop the handler, and an operator may POST at any moment.  A batch      *)
(* reads its alerts once, then takes one of them at a time through         *)
(* observation, commit, audit and delivery on one database session, whose  *)
(* copy of the rows is refreshed only after a rollback has expired it.     *)
(*                                                                         *)
(* Alerts are numbered in the order of created_at.  Time is counted in     *)
(* units in which the cooldowns are whole.                                 *)
(***************************************************************************)
EXTENDS Integers, Sequences, FiniteSets

CONSTANTS
  Evaluators,       \* batches that can be in flight at the same time
  MaxAlerts,        \* bound: alert rules ever created
  Conditions,       \* a subset of {"above", "below"}
  Levels,           \* observable values and thresholds
  Cooldowns,        \* values of cooldown_hours a PATCH can set
  DefaultCooldown,  \* cooldown_hours of a new rule (24)
  Cap,              \* max_alerts: the LIMIT of the batch query
  MaxTime,          \* bound: last value of the clock
  MaxEdits,         \* bound: user requests
  MaxFires,         \* bound: no batch starts once a rule fired this often
  MaxFaults         \* bound: failures of the database, the providers, a process

Alerts == 1..MaxAlerts

ASSUME BoundsAssumption ==
  /\ MaxAlerts \in Nat
  /\ MaxTime \in Nat
  /\ MaxEdits \in Nat
  /\ MaxFires \in Nat
  /\ MaxFaults \in Nat
  /\ Cap \in Nat \ {0}

ASSUME EvaluatorsAssumption == IsFiniteSet(Evaluators)

ASSUME DataAssumption ==
  /\ Conditions \subseteq {"above", "below"}
  /\ Levels \subseteq Int
  /\ Cooldowns \subseteq Nat
  /\ DefaultCooldown \in Cooldowns

VARIABLES
  clock,     \* the time
  created,   \* how many rules were ever created
  live,      \* rules that have a row in the alerts table
  rows,      \* the row of each live rule
  events,    \* the alert_events rows of each rule, in commit order
  market,    \* what an observation of each rule would return now
  edits,     \* user requests made so far
  faults,    \* failures so far
  pc,        \* where each batch is
  moment,    \* the time each batch started
  queue,     \* rules a batch has not finished with
  loaded,    \* rules whose attributes the session holds
  view,      \* the attributes the session holds
  session,   \* whether the session's connection can execute statements
  checked,   \* rules the batch observed
  fired,     \* rules the batch reports as fired
  errors,    \* rules the batch reports as failed
  outcome,   \* how the last batch ended
  wrote,     \* auxiliary: rules for which this batch committed an event
  overtaken, \* auxiliary: rules another batch fired since this one read them
  fires,     \* auxiliary: events ever committed for each rule
  notes,     \* auxiliary: deliveries attempted for each rule
  lost,      \* auxiliary: committed events whose batch ended before delivery
  pausedAt   \* auxiliary: when each rule was last made inactive

table == <<live, rows, events>>
local == <<pc, moment, queue, loaded, view, session>>
report == <<checked, fired, errors, outcome>>
history == <<wrote, overtaken, fires, notes, lost>>
environment == <<clock, created, market, edits, pausedAt>>

vars == <<table, local, report, history, environment, faults>>

-----------------------------------------------------------------------------
(* Rows, and the decisions the batch takes on them.                        *)

Never == -1
Times == 0..MaxTime

Row == [active : BOOLEAN, cond : Conditions, threshold : Levels,
        cooldown : Cooldowns, last : Times \cup {Never}]

\* What an event row is remembered for: the moment of its batch, which is what
\* last_fired_at is set to (created_at is stamped by the flush and read by
\* nobody here); what it was checked against is auxiliary.
Event == [batch : Times, cooldown : Cooldowns, overtaken : BOOLEAN]

\* A slip: a rule counts as fired when it is made.
NewRowFired(cond, threshold) ==
  [active |-> TRUE, cond |-> cond, threshold |-> threshold,
   cooldown |-> DefaultCooldown, last |-> 0]

NewRow(cond, threshold) ==
  [active |-> TRUE, cond |-> cond, threshold |-> threshold,
   cooldown |-> DefaultCooldown, last |-> Never]

\* A slip: due one unit early.
DueEarly(row, now) ==
  row.last = Never \/ now - row.last >= row.cooldown - 1

Due(row, now) ==
  \/ row.last = Never
  \/ row.cooldown <= 0
  \/ now - row.last >= row.cooldown

Met(row, observed) ==
  IF row.cond = "above" THEN observed >= row.threshold
                        ELSE observed <= row.threshold

\* A slip: the is_active filter is left out.
ActiveOrPaused == live

Active == {a \in live : rows[a].active}

\* The rules the batch query returns: the oldest Cap of the active ones.
Selected == {a \in Active : Cardinality({b \in Active : b < a}) < Cap}

\* The rule a batch is working on.
Current(e, a) == a \in queue[e] /\ \A b \in queue[e] : a <= b

\* The attributes the batch works with: the copy, or the row if it expired.
Read(e, a) == IF a \in loaded[e] THEN view[e][a] ELSE rows[a]

\* Reading an expired attribute needs the row and a usable connection.
Unreadable(e, a) ==
  /\ a \notin loaded[e]
  /\ a \notin live \/ session[e] = "aborted"

Running(e) == pc[e] # "idle"

Init ==
  /\ clock = 0
  /\ created = 0
  /\ live = {}
  /\ \E cond \in Conditions, level \in Levels :
       rows = [a \in Alerts |-> NewRow(cond, level)]
  /\ events = [a \in Alerts |-> <<>>]
  /\ market \in [Alerts -> Levels]
  /\ edits = 0
  /\ faults = 0
  /\ pc = [e \in Evaluators |-> "idle"]
  /\ moment = [e \in Evaluators |-> 0]
  /\ queue = [e \in Evaluators |-> {}]
  /\ loaded = [e \in Evaluators |-> {}]
  /\ view = [e \in Evaluators |-> rows]
  /\ session = [e \in Evaluators |-> "clean"]
  /\ checked = [e \in Evaluators |-> {}]
  /\ fired = [e \in Evaluators |-> {}]
  /\ errors = [e \in Evaluators |-> {}]
  /\ outcome = [e \in Evaluators |-> "none"]
  /\ wrote = [e \in Evaluators |-> {}]
  /\ overtaken = [e \in Evaluators |-> {}]
  /\ fires = [a \in Alerts |-> 0]
  /\ notes = [a \in Alerts |-> 0]
  /\ lost = [a \in Alerts |-> 0]
  /\ pausedAt = [a \in Alerts |-> 0]

-----------------------------------------------------------------------------
(* The CRUD handlers.  Each of them is one transaction; a failed commit    *)
(* answers 502 and changes nothing.                                        *)

CreateAlert ==
  /\ edits < MaxEdits
  /\ created < MaxAlerts
  /\ edits' = edits + 1
  /\ created' = created + 1
  /\ live' = live \cup {created + 1}
  /\ \E cond \in Conditions, threshold \in Levels :
       rows' = [rows EXCEPT ![created + 1] = NewRow(cond, threshold)]
  /\ UNCHANGED <<clock, events, market, pausedAt, faults>>
  /\ UNCHANGED <<local, report, history>>

\* A field the request leaves out keeps its value.
UpdateAlert(a) ==
  /\ edits < MaxEdits
  /\ a \in live
  /\ edits' = edits + 1
  /\ \E active \in BOOLEAN, threshold \in Levels, cooldown \in Cooldowns :
       /\ rows' = [rows EXCEPT ![a] = [@ EXCEPT !.active = active,
                                                !.threshold = threshold,
                                                !.cooldown = cooldown]]
       /\ pausedAt' = IF rows[a].active /\ ~active
                      THEN [pausedAt EXCEPT ![a] = clock] ELSE pausedAt
  /\ UNCHANGED <<clock, created, live, events, market, faults>>
  /\ UNCHANGED <<local, report, history>>

\* The rule's events go first, then the rule, in one transaction.
DeleteAlert(a) ==
  /\ edits < MaxEdits
  /\ a \in live
  /\ edits' = edits + 1
  /\ live' = live \ {a}
  /\ events' = [events EXCEPT ![a] = <<>>]
  /\ UNCHANGED <<clock, created, rows, market, pausedAt, faults>>
  /\ UNCHANGED <<local, report, history>>

-----------------------------------------------------------------------------
(* The batch.                                                              *)

Fault == faults < MaxFaults /\ faults' = faults + 1

LoadBatch(e) ==
  /\ pc[e] = "idle"
  /\ \A a \in Alerts : fires[a] < MaxFires
  /\ pc' = [pc EXCEPT ![e] = "next"]
  /\ moment' = [moment EXCEPT ![e] = clock]
  /\ queue' = [queue EXCEPT ![e] = Selected]
  /\ loaded' = [loaded EXCEPT ![e] = Selected]
  /\ view' = [view EXCEPT ![e] = rows]
  /\ session' = [session EXCEPT ![e] = "clean"]
  /\ checked' = [checked EXCEPT ![e] = {}]
  /\ fired' = [fired EXCEPT ![e] = {}]
  /\ errors' = [errors EXCEPT ![e] = {}]
  /\ outcome' = [outcome EXCEPT ![e] = "none"]
  /\ wrote' = [wrote EXCEPT ![e] = {}]
  /\ overtaken' = [overtaken EXCEPT ![e] = {}]
  /\ UNCHANGED <<fires, notes, lost, faults>>
  /\ UNCHANGED <<table, environment>>

\* No session, or the query failed: the answer is an empty batch.
LoadFails(e) ==
  /\ pc[e] = "idle"
  /\ Fault
  /\ checked' = [checked EXCEPT ![e] = {}]
  /\ fired' = [fired EXCEPT ![e] = {}]
  /\ errors' = [errors EXCEPT ![e] = {}]
  /\ outcome' = [outcome EXCEPT ![e] = "unavailable"]
  /\ wrote' = [wrote EXCEPT ![e] = {}]
  /\ UNCHANGED <<overtaken, fires, notes, lost>>
  /\ UNCHANGED <<table, local, environment>>

\* A slip: the loop breaks where it continues.
FinishAll(e, a) ==
  /\ pc' = [pc EXCEPT ![e] = "next"]
  /\ queue' = [queue EXCEPT ![e] = {}]

\* The batch is done with rule a and goes on to the next one.
Finish(e, a) ==
  /\ pc' = [pc EXCEPT ![e] = "next"]
  /\ queue' = [queue EXCEPT ![e] = @ \ {a}]

\* rollback() expires every object the session holds.
Expire(e) ==
  /\ session' = [session EXCEPT ![e] = "clean"]
  /\ loaded' = [loaded EXCEPT ![e] = {}]

\* An exception leaves the loop: the callers answer with a batch error.
Raise(e) ==
  /\ pc' = [pc EXCEPT ![e] = "idle"]
  /\ queue' = [queue EXCEPT ![e] = {}]
  /\ outcome' = [outcome EXCEPT ![e] = "raised"]

\* The alert_id is read before the try block of the iteration.
ReadRaises(e, a) ==
  /\ pc[e] = "next"
  /\ Current(e, a)
  /\ Unreadable(e, a)
  /\ Raise(e)
  /\ UNCHANGED <<moment, loaded, view, session, checked, fired, errors>>
  /\ UNCHANGED <<table, history, environment, faults>>

\* A refresh of an expired object keeps what it read for later reads.
Refresh(e, a) ==
  /\ view' = [view EXCEPT ![e][a] = Read(e, a)]
  /\ loaded' = [loaded EXCEPT ![e] = @ \cup {a}]

SkipNotDue(e, a) ==
  /\ pc[e] = "next"
  /\ Current(e, a)
  /\ ~Unreadable(e, a)
  /\ ~Due(Read(e, a), moment[e])
  /\ Finish(e, a)
  /\ Refresh(e, a)
  /\ UNCHANGED <<moment, session, checked, fired, errors, outcome>>
  /\ UNCHANGED <<table, history, environment, faults>>

BeginObserve(e, a) ==
  /\ pc[e] = "next"
  /\ Current(e, a)
  /\ ~Unreadable(e, a)
  /\ Due(Read(e, a), moment[e])
  /\ pc' = [pc EXCEPT ![e] = "observing"]
  /\ Refresh(e, a)
  /\ UNCHANGED <<moment, queue, session, checked, fired, errors, outcome>>
  /\ UNCHANGED <<table, history, environment, faults>>

\* Thin history, no price, no rate, or a provider that fails.
ObserveFails(e, a) ==
  /\ pc[e] = "observing" /\ Current(e, a)
  /\ Fault
  /\ errors' = [errors EXCEPT ![e] = @ \cup {a}]
  /\ Finish(e, a)
  /\ UNCHANGED <<moment, loaded, view, session, checked, fired, outcome>>
  /\ UNCHANGED <<table, history, environment>>

ObserveNotMet(e, a) ==
  /\ pc[e] = "observing" /\ Current(e, a)
  /\ ~Met(view[e][a], market[a])
  /\ checked' = [checked EXCEPT ![e] = @ \cup {a}]
  /\ Finish(e, a)
  /\ UNCHANGED <<moment, loaded, view, session, fired, errors, outcome>>
  /\ UNCHANGED <<table, history, environment, faults>>

ObserveMet(e, a) ==
  /\ pc[e] = "observing" /\ Current(e, a)
  /\ Met(view[e][a], market[a])
  /\ checked' = [checked EXCEPT ![e] = @ \cup {a}]
  /\ pc' = [pc EXCEPT ![e] = "firing"]
  /\ UNCHANGED <<moment, queue, loaded, view, session, fired, errors, outcome>>
  /\ UNCHANGED <<table, history, environment, faults>>

\* The UPDATE of last_fired_at names the rule by its key alone, and the flush
\* fails when it matches no row.
UpdateMatches(a) == a \in live

\* The event and last_fired_at are one transaction.
StoreFiring(e, a) ==
  /\ events' = [events EXCEPT ![a] =
       Append(@, [batch |-> moment[e], cooldown |-> view[e][a].cooldown,
                  overtaken |-> a \in overtaken[e]])]
  /\ rows' = [rows EXCEPT ![a].last = moment[e]]
  /\ wrote' = [wrote EXCEPT ![e] = @ \cup {a}]
  /\ fires' = [fires EXCEPT ![a] = @ + 1]

\* The other batches that hold a copy of the rule now hold an old one.
Overtaken(e, a) ==
  [d \in Evaluators |->
     IF d # e /\ Running(d) /\ a \in loaded[d] THEN overtaken[d] \cup {a}
                                             ELSE overtaken[d]]

Commit(e, a) ==
  /\ pc[e] = "firing" /\ Current(e, a)
  /\ session[e] = "clean"
  /\ UpdateMatches(a)
  /\ StoreFiring(e, a)
  /\ overtaken' = Overtaken(e, a)
  /\ view' = [view EXCEPT ![e][a].last = moment[e]]
  /\ pc' = [pc EXCEPT ![e] = "auditing"]
  /\ UNCHANGED <<live, moment, queue, loaded, session, notes, lost, faults>>
  /\ UNCHANGED <<report, environment>>

\* The commit is stored and its answer is lost: the batch reports a failure.
CommitUnheard(e, a) ==
  /\ pc[e] = "firing" /\ Current(e, a)
  /\ session[e] = "clean"
  /\ UpdateMatches(a)
  /\ Fault
  /\ StoreFiring(e, a)
  /\ overtaken' = [Overtaken(e, a) EXCEPT ![e] = {}]
  /\ errors' = [errors EXCEPT ![e] = @ \cup {a}]
  /\ Finish(e, a)
  /\ Expire(e)
  /\ lost' = [lost EXCEPT ![a] = @ + 1]
  /\ UNCHANGED <<live, moment, view, checked, fired, outcome, notes>>
  /\ UNCHANGED environment

CommitFails(e, a) ==
  /\ pc[e] = "firing" /\ Current(e, a)
  /\ \/ /\ session[e] = "aborted" \/ ~UpdateMatches(a)
        /\ UNCHANGED faults
     \/ Fault
  /\ errors' = [errors EXCEPT ![e] = @ \cup {a}]
  /\ Finish(e, a)
  /\ Expire(e)
  /\ overtaken' = [overtaken EXCEPT ![e] = {}]
  /\ UNCHANGED <<moment, view, checked, fired, outcome, wrote, fires, notes, lost>>
  /\ UNCHANGED <<table, environment>>

\* A slip: a firing that was audited is not delivered.
AuditOnly(e, a) ==
  /\ pc[e] = "auditing" /\ Current(e, a)
  /\ Finish(e, a)
  /\ UNCHANGED <<moment, loaded, view, session>>
  /\ UNCHANGED <<table, report, history, environment, faults>>

AuditAppend(e, a) ==
  /\ pc[e] = "auditing" /\ Current(e, a)
  /\ pc' = [pc EXCEPT ![e] = "delivering"]
  /\ UNCHANGED <<moment, queue, loaded, view, session>>
  /\ UNCHANGED <<table, report, history, environment, faults>>

\* A statement of the append fails.  Nobody rolls back: the connection
\* refuses every later statement until a commit of the loop fails on it.
AuditAborts(e, a) ==
  /\ pc[e] = "auditing" /\ Current(e, a)
  /\ Fault
  /\ session' = [session EXCEPT ![e] = "aborted"]
  /\ pc' = [pc EXCEPT ![e] = "delivering"]
  /\ UNCHANGED <<moment, queue, loaded, view>>
  /\ UNCHANGED <<table, report, history, environment>>

\* The append fails while the session flushes its row.  The session then
\* holds expired objects and refuses to refresh them, so building the
\* notification fails and the report line after it, outside any try, raises.
AuditFlushRaises(e, a) ==
  /\ pc[e] = "auditing" /\ Current(e, a)
  /\ Fault
  /\ Raise(e)
  /\ lost' = [lost EXCEPT ![a] = @ + 1]
  /\ UNCHANGED <<moment, loaded, view, session, checked, fired, errors>>
  /\ UNCHANGED <<wrote, overtaken, fires, notes>>
  /\ UNCHANGED <<table, environment>>

\* One attempt; a notifier that fails is not called again.
Deliver(e, a) ==
  /\ pc[e] = "delivering" /\ Current(e, a)
  /\ notes' = [notes EXCEPT ![a] = @ + 1]
  /\ fired' = [fired EXCEPT ![e] = @ \cup {a}]
  /\ Finish(e, a)
  /\ UNCHANGED <<moment, loaded, view, session, checked, errors, outcome>>
  /\ UNCHANGED <<wrote, overtaken, fires, lost, faults>>
  /\ UNCHANGED <<table, environment>>

Return(e) ==
  /\ pc[e] = "next"
  /\ queue[e] = {}
  /\ pc' = [pc EXCEPT ![e] = "idle"]
  /\ outcome' = [outcome EXCEPT ![e] = "returned"]
  /\ UNCHANGED <<moment, queue, loaded, view, session, checked, fired, errors>>
  /\ UNCHANGED <<table, history, environment, faults>>

\* The process dies and comes back: every batch is gone.
Restart ==
  /\ \E e \in Evaluators : Running(e)
  /\ Fault
  /\ pc' = [e \in Evaluators |-> "idle"]
  /\ queue' = [e \in Evaluators |-> {}]
  /\ outcome' = [e \in Evaluators |-> "none"]
  /\ lost' = [a \in Alerts |->
       lost[a] + Cardinality({e \in Evaluators :
                    pc[e] \in {"auditing", "delivering"} /\ Current(e, a)})]
  /\ UNCHANGED <<moment, loaded, view, session, checked, fired, errors>>
  /\ UNCHANGED <<wrote, overtaken, fires, notes>>
  /\ UNCHANGED <<table, environment>>

-----------------------------------------------------------------------------
(* The world outside.                                                      *)

Tick ==
  /\ clock < MaxTime
  /\ clock' = clock + 1
  /\ UNCHANGED <<created, market, edits, pausedAt, faults>>
  /\ UNCHANGED <<table, local, report, history>>

MarketMoves(a) ==
  /\ \E level \in Levels \ {market[a]} : market' = [market EXCEPT ![a] = level]
  /\ UNCHANGED <<clock, created, edits, pausedAt, faults>>
  /\ UNCHANGED <<table, local, report, history>>

-----------------------------------------------------------------------------

Work(e, a) ==
  \/ SkipNotDue(e, a) \/ BeginObserve(e, a)
  \/ ObserveNotMet(e, a) \/ ObserveMet(e, a)
  \/ Commit(e, a) \/ AuditAppend(e, a) \/ Deliver(e, a)
  \/ ReadRaises(e, a) \/ CommitFails(e, a)

Failure(e, a) ==
  \/ ObserveFails(e, a) \/ CommitUnheard(e, a)
  \/ AuditAborts(e, a) \/ AuditFlushRaises(e, a)

User == CreateAlert \/ \E a \in Alerts : UpdateAlert(a) \/ DeleteAlert(a)

Next ==
  \/ User
  \/ \E e \in Evaluators : LoadBatch(e) \/ LoadFails(e) \/ Return(e)
  \/ \E e \in Evaluators, a \in Alerts : Work(e, a) \/ Failure(e, a)
  \/ Restart
  \/ Tick
  \/ \E a \in Alerts : MarketMoves(a)

Spec == Init /\ [][Next]_vars

\* A batch that has started goes on, and the scheduler starts another.
Fairness ==
  \A e \in Evaluators :
    WF_vars(LoadBatch(e) \/ Return(e) \/ \E a \in Alerts : Work(e, a))

FairSpec == Spec /\ Fairness

-----------------------------------------------------------------------------
(* Properties.                                                             *)

\* Every variable keeps its type, and a batch works on rules it loaded.
TypeOK ==
  /\ clock \in Times
  /\ created \in 0..MaxAlerts
  /\ live \subseteq 1..created
  /\ rows \in [Alerts -> Row]
  /\ events \in [Alerts -> Seq(Event)]
  /\ market \in [Alerts -> Levels]
  /\ edits \in 0..MaxEdits
  /\ faults \in 0..MaxFaults
  /\ pc \in [Evaluators ->
       {"idle", "next", "observing", "firing", "auditing", "delivering"}]
  /\ moment \in [Evaluators -> Times]
  /\ queue \in [Evaluators -> SUBSET Alerts]
  /\ loaded \in [Evaluators -> SUBSET Alerts]
  /\ view \in [Evaluators -> [Alerts -> Row]]
  /\ session \in [Evaluators -> {"clean", "aborted"}]
  /\ checked \in [Evaluators -> SUBSET Alerts]
  /\ fired \in [Evaluators -> SUBSET Alerts]
  /\ errors \in [Evaluators -> SUBSET Alerts]
  /\ outcome \in [Evaluators -> {"none", "returned", "unavailable", "raised"}]
  /\ wrote \in [Evaluators -> SUBSET Alerts]
  /\ overtaken \in [Evaluators -> SUBSET Alerts]
  /\ fires \in [Alerts -> Nat]
  /\ notes \in [Alerts -> Nat]
  /\ lost \in [Alerts -> Nat]
  /\ pausedAt \in [Alerts -> Times]

\* Two firings of a rule are at least the cooldown apart that the later one
\* was checked against (test_alerts.py, "the same cooldown gate (no
\* double-fire)").
CooldownHonored ==
  \A a \in Alerts : \A i \in 1..Len(events[a]) - 1 :
    events[a][i + 1].batch - events[a][i].batch >= events[a][i + 1].cooldown

\* The one way to fire a rule twice inside its cooldown is a second batch that
\* read the rule before the first had committed.  A patch, a commit that failed,
\* one whose answer was lost, the rules read again after a rollback, a restart
\* and the order of the commits never do it (evaluate_due_alerts).
CooldownUnlessOvertaken ==
  \A a \in Alerts : \A i \in 1..Len(events[a]) - 1 :
    \/ events[a][i + 1].overtaken
    \/ events[a][i + 1].cooldown = 0
    \/ events[a][i + 1].batch - events[a][i].batch >= events[a][i + 1].cooldown

\* A rule somebody paused is not fired by a batch that started later: its
\* events are of batches that began before the pause or at the same time.
PausedStaysQuiet ==
  \A a \in live : ~rows[a].active =>
    \A i \in 1..Len(events[a]) : events[a][i].batch <= pausedAt[a]

\* Nothing is announced that was not committed first, and every committed
\* firing is announced, about to be, or lost with the batch that made it
\* (evaluate_due_alerts commits before it notifies, and never retries).
DeliveryAccounted ==
  \A a \in Alerts :
    fires[a] = notes[a] + lost[a] +
      Cardinality({e \in Evaluators :
         pc[e] \in {"auditing", "delivering"} /\ Current(e, a)})

Waiting(a) ==
  /\ a \in Active
  /\ Due(rows[a], clock)
  /\ Met(rows[a], market[a])

\* A rule inside the cap that stays active, due and met does not stay unfired.
DueAlertFires ==
  \A a \in Alerts : ~ <>[](Waiting(a) /\ a \in Selected)
=============================================================================
