------------------------------ MODULE Calendar ------------------------------
(***************************************************************************)
(* JavaScript dates, as the cron strategy uses them: the fields of a date   *)
(* and the carries of its setters.  The clock of the process is taken to be *)
(* in UTC.  A date is counted in whole seconds; every use of a date in      *)
(* next.ts but the two comparisons drops its milliseconds.                  *)
(*                                                                         *)
(* The sizes of the units are parameters, so that TLC can walk through      *)
(* years of a short calendar.                                              *)
(***************************************************************************)
EXTENDS Integers, Sequences

CONSTANTS
  SecondsPerMinute, MinutesPerHour, HoursPerDay, DaysPerWeek, MonthsPerYear,
  LongestMonth,
  MonthDays     \* for each year of the leap cycle, the lengths of its months

ASSUME CalendarAssumption ==
  /\ SecondsPerMinute \in Nat \ {0}
  /\ MinutesPerHour \in Nat \ {0}
  /\ HoursPerDay \in Nat \ {0}
  /\ DaysPerWeek \in Nat \ {0}
  /\ MonthsPerYear \in Nat \ {0}
  /\ LongestMonth \in Nat
  /\ MonthDays \in Seq([1..MonthsPerYear -> 1..LongestMonth])
  /\ MonthDays # << >>

Dates ==
  [ year : Int, month : 1..MonthsPerYear, date : Nat \ {0},
    hours : 0..(HoursPerDay - 1), minutes : 0..(MinutesPerHour - 1),
    seconds : 0..(SecondsPerMinute - 1) ]

DaysIn(year, month) == MonthDays[(year % Len(MonthDays)) + 1][month]

\* The dates of days that exist, which are those that a Date can hold.
RealDates == { d \in Dates : d.date <= DaysIn(d.year, d.month) }

\* The days before month k, counted from the first month of year 0, which begins
\* on a Sunday.
DaysBefore[k \in Nat] ==
  IF k = 0 THEN 0
  ELSE DaysBefore[k - 1]
         + DaysIn((k - 1) \div MonthsPerYear, ((k - 1) % MonthsPerYear) + 1)

\* getDay(): 0 is Sunday.
WeekDay(d) ==
  (DaysBefore[d.year * MonthsPerYear + d.month - 1] + d.date - 1) % DaysPerWeek

Fields(d) == << d.year, d.month, d.date, d.hours, d.minutes, d.seconds >>
Earlier(d, e) ==
  \E i \in 1..6 :
    /\ Fields(d)[i] < Fields(e)[i]
    /\ \A j \in 1..(i - 1) : Fields(d)[j] = Fields(e)[j]

------------------------------------------------------------------------------
(* A setter called with one more than the field holds *)

\* setDate(1), setMonth(getMonth() + 1)
NextMonth(d) ==
  IF d.month < MonthsPerYear THEN [d EXCEPT !.date = 1, !.month = @ + 1]
  ELSE [d EXCEPT !.date = 1, !.month = 1, !.year = @ + 1]

NextDay(d) ==
  IF d.date < DaysIn(d.year, d.month) THEN [d EXCEPT !.date = @ + 1] ELSE NextMonth(d)

PreviousDay(d) ==
  IF d.date > 1 THEN [d EXCEPT !.date = @ - 1]
  ELSE IF d.month > 1
       THEN [d EXCEPT !.month = @ - 1, !.date = DaysIn(d.year, d.month - 1)]
       ELSE [d EXCEPT !.year = @ - 1, !.month = MonthsPerYear,
                      !.date = DaysIn(d.year - 1, MonthsPerYear)]

NextHour(d) ==
  IF d.hours + 1 < HoursPerDay THEN [d EXCEPT !.hours = @ + 1]
  ELSE NextDay([d EXCEPT !.hours = 0])

NextMinute(d) ==
  IF d.minutes + 1 < MinutesPerHour THEN [d EXCEPT !.minutes = @ + 1]
  ELSE NextHour([d EXCEPT !.minutes = 0])

NextSecond(d) ==
  IF d.seconds + 1 < SecondsPerMinute THEN [d EXCEPT !.seconds = @ + 1]
  ELSE NextMinute([d EXCEPT !.seconds = 0])

\* A shift by minutes, of at most a day either way.
AddMinutes(d, n) ==
  LET total == d.hours * MinutesPerHour + d.minutes + n
      day   == IF total < 0 THEN PreviousDay(d)
               ELSE IF total >= HoursPerDay * MinutesPerHour THEN NextDay(d) ELSE d
      rest  == total % (HoursPerDay * MinutesPerHour)
  IN [day EXCEPT !.hours = rest \div MinutesPerHour, !.minutes = rest % MinutesPerHour]

==============================================================================
