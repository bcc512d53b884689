------------------------------ MODULE Schedule ------------------------------
(***************************************************************************)
(* Local time, opening hours and shifts: schedule.util.ts, and the test    *)
(* that AppointmentsService makes of a slot before it books it.            *)
(*                                                                         *)
(* An instant is a number of ticks, finer than the minutes in which hours  *)
(* are given.  A zone is its offset from UTC at every instant, so that     *)
(* clock changes are changes of the offset.                                *)
(***************************************************************************)
EXTENDS Integers

CONSTANTS
  MinutesPerDay,
  TicksPerMinute,
  Horizon,       \* bound of the instants
  Zone,
  Offset,        \* UTC offset of each zone at each instant, in ticks
  NoTime         \* a time that is not given

Instant == 0..Horizon
Weekday == 0..6
Time    == 0..MinutesPerDay - 1

ASSUME ScheduleAssumption ==
  /\ MinutesPerDay \in Nat \ {0}
  /\ TicksPerMinute \in Nat \ {0}
  /\ Horizon \in Nat
  /\ Offset \in [Zone -> [Instant -> Int]]
  /\ NoTime \notin Nat

-----------------------------------------------------------------------------
\* getLocalParts, which drops the seconds.

LocalTick(z, t)   == t + Offset[z][t]
LocalMinute(z, t) == (LocalTick(z, t) \div TicksPerMinute) % MinutesPerDay
LocalDay(z, t)    == (LocalTick(z, t) \div TicksPerMinute) \div MinutesPerDay

LocalWeekday(z, t) == LocalDay(z, t) % 7

\* Mutant of WithinWindow: the days of the two ends are not compared.
WithinHours(z, start, end, from, to) ==
  from <= LocalMinute(z, start) /\ LocalMinute(z, end) <= to

\* checkWithinWindow
WithinWindow(z, start, end, from, to) ==
  /\ LocalDay(z, start) = LocalDay(z, end)
  /\ from <= LocalMinute(z, start)
  /\ LocalMinute(z, end) <= to

-----------------------------------------------------------------------------
\* assertBookable

IsOpen(day) == ~day.closed /\ day.open # NoTime /\ day.close # NoTime

WorksOn(shift, weekday) == shift.workDays = {} \/ weekday \in shift.workDays

HasShift(shift) == shift.workStartTime # NoTime /\ shift.workEndTime # NoTime

\* The slot from start to end can be booked at now with a barber of that
\* shift in a shop with these opening hours.
Bookable(now, z, hours, shift, start, end) ==
  LET weekday == LocalWeekday(z, start)
      day     == hours[weekday]
  IN  /\ now < start
      /\ IsOpen(day)
      /\ WithinWindow(z, start, end, day.open, day.close)
      /\ WorksOn(shift, weekday)
      /\ HasShift(shift) =>
           WithinWindow(z, start, end, shift.workStartTime, shift.workEndTime)
=============================================================================
