----------------------------- MODULE Calendars ------------------------------
(***************************************************************************)
(* One venue's calendar as backend/instruments/calendars.py computes it    *)
(* from the clock: the last session whose bar must exist by now            *)
(* (last_completed_trading_day, against which BarsService takes bars for   *)
(* fresh), the session a stored bar belongs to (session_date), and whether *)
(* the venue is open (market_state_at).                                    *)
(*                                                                         *)
(* Days and hours are numbered, a day having DayHours of them, and the     *)
(* venue's clock is offset ahead of UTC.  Which days are sessions a        *)
(* library knows, early closes included; where it is missing or cannot     *)
(* answer, rules of thumb take its place, which may be wrong about a       *)
(* holiday.                                                                *)
(***************************************************************************)
EXTENDS Integers, FiniteSetsExt

CONSTANTS
  DayHours,    \* hours of a day
  WeekDays,    \* days of a week
  Offsets,     \* hours that a venue's clock may be ahead of UTC, or behind
  OpensAt,     \* hours of the venue's clock
  ClosesAt,
  ClosesEarly,
  Grace,       \* BAR_CLOSE_GRACE_MIN
  WalkDays,    \* how far back last_completed_trading_day looks: 14 days
  CalendarDays \* bound: the last day

ASSUME CalendarAssumption ==
  /\ {DayHours, WeekDays, WalkDays} \subseteq Nat \ {0} /\ CalendarDays \in Nat
  /\ {OpensAt, ClosesAt, ClosesEarly, Grace} \subseteq Nat /\ Offsets \subseteq Int
  /\ WalkDays + 1 <= CalendarDays
  /\ OpensAt < ClosesEarly /\ ClosesEarly < ClosesAt
  /\ ClosesAt + Grace < DayHours
  /\ \A hours \in Offsets : -DayHours < hours /\ hours < DayHours

VARIABLES
  utc,       \* the clock
  offset,    \* the venue's offset
  trading,   \* the days that are sessions
  early,     \* those that close early
  feasts,    \* the holidays that the rules of thumb know
  library,   \* whether the library answers
  ruled      \* whether the venue's sessions are the library's: not in Shanghai

site == <<offset, trading, early, feasts, ruled>>

calendarVars == <<utc, library, site>>

-----------------------------------------------------------------------------

DayRange == 0..CalendarDays

\* The last day of a week stands for the weekend.
Weekday(day) == day % WeekDays # WeekDays - 1

\* No venue is closed for as long as the walk goes back.
Opens(days) ==
  \A day \in 0..CalendarDays - WalkDays + 1 : (day..day + WalkDays - 1) \cap days # {}

CalendarInit ==
  /\ utc = (WalkDays + 1) * DayHours
  /\ offset \in Offsets
  /\ trading \in {days \in SUBSET {day \in DayRange : Weekday(day)} : Opens(days)}
  /\ early \in SUBSET (trading \cap {WalkDays + 1, WalkDays + 2})
  /\ feasts \in {{day \in DayRange \ trading : Weekday(day)}, {}}
  /\ library \in BOOLEAN /\ ruled \in BOOLEAN

\* _exchange_now.
LocalDay(time) == (time + offset) \div DayHours

LocalHour(time) == (time + offset) % DayHours

\* session_date: daily bars are stamped with the local midnight, in UTC.
SessionDate(stamp) == LocalDay(stamp)

LibrarySession(day) == day \in trading

\* The rules of thumb.
StubHoliday(day) == day \in feasts

IsTradingDay(day) ==
  IF ruled /\ library THEN LibrarySession(day)
  ELSE Weekday(day) /\ ~StubHoliday(day)

\* A slip: a session's bar is expected as soon as it closes.
CompletedAtClose(time) ==
  IsTradingDay(LocalDay(time)) /\ LocalHour(time) >= ClosesAt

\* The close that counts is the regular one, early closes or not.
CompletedToday(time) ==
  IsTradingDay(LocalDay(time)) /\ LocalHour(time) >= ClosesAt + Grace

Candidates(time) ==
  LET last == IF CompletedToday(time) THEN LocalDay(time) ELSE LocalDay(time) - 1
  IN {day \in last - WalkDays + 1..last : IsTradingDay(day)}

LastCompleted(time) ==
  IF Candidates(time) = {} THEN LocalDay(time) ELSE Max(Candidates(time))

Closing(day) == IF ruled /\ library /\ day \in early THEN ClosesEarly ELSE ClosesAt

\* market_state_at, without the age of the data and the lunch in Shanghai.
IsOpen(time) ==
  /\ IsTradingDay(LocalDay(time))
  /\ LocalHour(time) \in OpensAt..Closing(LocalDay(time)) - 1

-----------------------------------------------------------------------------

CalendarTick ==
  /\ LocalDay(utc) < CalendarDays
  /\ utc' = utc + 1
  /\ UNCHANGED <<library, site>>

\* The library is loaded when it is first asked, and again after it failed.
LibraryLoads ==
  /\ ~library
  /\ library' = TRUE
  /\ UNCHANGED <<utc, site>>

CalendarNext == CalendarTick \/ LibraryLoads

CalendarSpec == CalendarInit /\ [][CalendarNext]_calendarVars

-----------------------------------------------------------------------------
(* Properties.                                                             *)

\* The time at which the bar of a day was stamped, and at which it is out.
Stamp(day) == day * DayHours - offset

OutAt(day) == Stamp(day) + ClosesAt + Grace

\* Of the sessions known to the calendar in use the last whose bar has been out
\* is expected: never one that is still going on, which would make bars that are
\* up to date stale, and none that has been over for long, which would let old
\* ones pass; wherever the venue lies (calendars.py:373).
ExpectedBarIsOut ==
  /\ \A day \in DayRange : SessionDate(Stamp(day)) = day
  /\ IsOpen(utc) => LastCompleted(utc) < SessionDate(utc)
  /\ LastCompleted(utc) =
       Max({day \in DayRange : IsTradingDay(day) /\ OutAt(day) <= utc})
=============================================================================
