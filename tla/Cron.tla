-------------------------------- MODULE Cron --------------------------------
(***************************************************************************)
(* The life of one schedule under the cron strategy (strategy.ts and        *)
(* next.ts under packages/core/src/lib/strategies/task-creation/cron): the  *)
(* search for its first date, and for another one whenever a task starts.   *)
(* One step is one turn of a loop of nextCronTime.                          *)
(***************************************************************************)
EXTENDS CronExpression

CONSTANTS
  None,                     \* null
  InvalidDate,              \* a Date object that holds NaN
  MAXIMUM_YEAR_IN_FUTURE,
  Crons,                    \* the cron expressions that users write
  Offsets,                  \* utcOffsetMinutes
  Nows,                     \* when the schedule is created
  StartAfters, EndBys,      \* dates, or None
  MaxRuns                   \* bound: tasks started

ASSUME CronAssumption ==
  /\ None \notin Int \cup Dates /\ InvalidDate \notin Dates \cup {None}
  /\ MAXIMUM_YEAR_IN_FUTURE \in Nat
  /\ Crons \subseteq Expressions
  /\ Offsets \subseteq Int
  /\ \A n \in Offsets : -(HoursPerDay * MinutesPerHour) <= n /\ n <= HoursPerDay * MinutesPerHour
  /\ Nows \subseteq RealDates
  /\ StartAfters \ {None} \subseteq RealDates
  /\ EndBys \ {None} \subseteq Dates
  /\ MaxRuns \in Nat

VARIABLES
  model,      \* the ScheduleCronModel, None before there is one
  now,        \* the date that the strategy is asked at
  ret,        \* the date that nextCronTime moves forward, in the zone of the search
  pc,         \* where nextCronTime is, or what the strategy answered
  runAt,      \* the date of the task that is queued, in UTC
  runs        \* tasks started so far

vars == << model, now, ret, pc, runAt, runs >>

cron == model.cron
farthestYear == now.year + MAXIMUM_YEAR_IN_FUTURE

Init ==
  /\ model = None
  /\ now \in Nows
  /\ ret = InvalidDate
  /\ pc = "new"
  /\ runAt = None
  /\ runs = 0

\* A user has an expression read and creates a schedule with it.
CreateSchedule ==
  /\ pc = "new"
  /\ \E parts \in Crons, offset \in Offsets, startAfter \in StartAfters, endBy \in EndBys :
       model' = [ cronExpression |-> parts, cron |-> cronToModel(parts),
                  utcOffsetMinutes |-> offset, startAfter |-> startAfter, endBy |-> endBy ]
  /\ ret' = now
  /\ pc' = "begin"
  /\ UNCHANGED << now, runAt, runs >>

------------------------------------------------------------------------------
(* The time of day *)

findNext(value, range) ==
  LET later == { i \in range : i >= value }
  IN IF later = {} THEN None ELSE Min(later)

SecondsFrom(d) ==
  LET next == findNext(d.seconds, cron.seconds)
  IN IF next # None THEN [d EXCEPT !.seconds = next]
     ELSE NextMinute([d EXCEPT !.seconds = Min(cron.seconds)])

\* A later minute is set, and the seconds stay as they are.
MinutesFrom(d) ==
  LET next == findNext(d.minutes, cron.minutes)
  IN IF next # None THEN [d EXCEPT !.minutes = next]
     ELSE NextHour([d EXCEPT !.minutes = Min(cron.minutes)])

MutHourWithoutDay(d) ==
  LET next == findNext(d.hours, cron.hours)
  IN [d EXCEPT !.hours = IF next # None THEN next ELSE Min(cron.hours)]
\* A later hour is set, and the minutes and seconds stay as they are.
HoursFrom(d) ==
  LET next == findNext(d.hours, cron.hours)
  IN IF next # None THEN [d EXCEPT !.hours = next]
     ELSE NextDay([d EXCEPT !.hours = Min(cron.hours)])

\* fromUTC adds the offset, and Finish subtracts it again.  (Its comment and api.ts:44-51
\* have the offset lead from the zone TO UTC: the search works in the mirrored zone.)
fromUTC(d, timezoneOffsetMinutes) == AddMinutes(d, timezoneOffsetMinutes)

SearchFrom ==
  IF model.startAfter # None /\ Earlier(now, model.startAfter) THEN model.startAfter ELSE now

Ended == model.endBy # None /\ ~Earlier(now, model.endBy)

\* Null: createFromNewSchedule rejects the schedule, createAfterTaskStarts disables it.
NoDate == pc' = IF runs = 0 THEN "rejected" ELSE "disabled"

EarlyExit ==
  /\ pc = "begin"
  /\ Ended
  /\ NoDate
  /\ UNCHANGED << model, now, ret, runAt, runs >>

BeginSearch ==
  /\ pc = "begin"
  /\ ~Ended
  /\ ret' = NextSecond(SearchFrom)
  /\ pc' = "utc"
  /\ UNCHANGED << model, now, runAt, runs >>

ToZone ==
  /\ pc = "utc"
  /\ ret' = fromUTC(ret, model.utcOffsetMinutes)
  /\ pc' = "seconds"
  /\ UNCHANGED << model, now, runAt, runs >>

\* Setting a field to the first of no values makes the date invalid, and it stays so.
FindTime(field, values, next, after) ==
  /\ pc = field
  /\ IF values = {} THEN ret' = InvalidDate /\ pc' = "month"
     ELSE ret' = next /\ pc' = after
  /\ UNCHANGED << model, now, runAt, runs >>

FindSeconds == FindTime("seconds", cron.seconds, SecondsFrom(ret), "minutes")
FindMinutes == FindTime("minutes", cron.minutes, MinutesFrom(ret), "hours")
FindHours   == FindTime("hours", cron.hours, HoursFrom(ret), "month")

------------------------------------------------------------------------------
(* The day *)

MutMonthKeepsDate(d) ==
  LET next == findNext(d.month, cron.months)
  IN IF next # None THEN [d EXCEPT !.month = next]
     ELSE [d EXCEPT !.date = 1, !.month = Min(cron.months), !.year = @ + 1]
MutSameYear(d) ==
  LET next == findNext(d.month, cron.months)
  IN IF next = d.month THEN d
     ELSE [d EXCEPT !.date = 1, !.month = IF next # None THEN next ELSE Min(cron.months)]
MonthFrom(d) ==
  LET next == findNext(d.month, cron.months)
  IN IF next = d.month THEN d
     ELSE IF next # None THEN [d EXCEPT !.date = 1, !.month = next]
     ELSE [d EXCEPT !.date = 1, !.month = Min(cron.months), !.year = @ + 1]

\* One turn of the outer loop.
FindMonth ==
  /\ pc = "month"
  /\ ret # InvalidDate
  /\ ret.year < farthestYear
  /\ IF cron.months = {} THEN ret' = InvalidDate /\ pc' = pc
     ELSE ret' = MonthFrom(ret) /\ pc' = "day"
  /\ UNCHANGED << model, now, runAt, runs >>

MutAnyDate == findNext(ret.date, cron.daysOfMonth) # None
\* A day of this month is left to try.
DayInMonth ==
  LET next == findNext(ret.date, cron.daysOfMonth)
  IN next # None /\ next <= DaysIn(ret.year, ret.month)

TriedDay == [ret EXCEPT !.date = findNext(ret.date, cron.daysOfMonth)]

\* One turn of the inner loop, which found its day.
MatchDay ==
  /\ pc = "day"
  /\ DayInMonth
  /\ WeekDay(TriedDay) \in cron.daysOfWeek
  /\ ret' = TriedDay
  /\ pc' = "found"
  /\ UNCHANGED << model, now, runAt, runs >>

\* One turn of the inner loop, which found a day that is on another day of the week.
SameMonth ==
  /\ pc = "day"
  /\ DayInMonth
  /\ WeekDay(TriedDay) \notin cron.daysOfWeek
  /\ ret' = TriedDay
  /\ UNCHANGED << model, now, pc, runAt, runs >>

MutStayInMonth ==
  /\ pc = "day"
  /\ ~DayInMonth
  /\ ret' = [ret EXCEPT !.date = 1]
  /\ pc' = "month"
  /\ UNCHANGED << model, now, runAt, runs >>
IncMonth ==
  /\ pc = "day"
  /\ ~DayInMonth
  /\ ret' = NextMonth(ret)
  /\ pc' = "month"
  /\ UNCHANGED << model, now, runAt, runs >>

SearchOver ==
  \/ pc = "found"
  \/ pc = "month" /\ (ret # InvalidDate => ret.year >= farthestYear)

TooFar(utc) ==
  /\ utc # InvalidDate
  /\ \/ model.endBy # None /\ ~Earlier(utc, model.endBy)
     \/ utc.year >= farthestYear

Finish ==
  /\ SearchOver
  /\ LET utc == IF ret = InvalidDate THEN InvalidDate
                ELSE AddMinutes(ret, -model.utcOffsetMinutes)
     IN IF TooFar(utc) THEN NoDate /\ UNCHANGED runAt
        ELSE pc' = "queued" /\ runAt' = utc
  /\ UNCHANGED << model, now, ret, runs >>

------------------------------------------------------------------------------

\* The task is started, at once or late, and the strategy is asked again.  No poll
\* finds a task that runs at an invalid date.
TaskStarts ==
  /\ pc = "queued"
  /\ runAt # InvalidDate
  /\ runs < MaxRuns
  /\ now' \in { runAt, NextSecond(runAt), NextDay(runAt) }
  /\ pc' = "begin"
  /\ runs' = runs + 1
  /\ UNCHANGED << model, ret, runAt >>

nextCronTime ==
  \/ EarlyExit \/ BeginSearch \/ ToZone \/ FindSeconds \/ FindMinutes \/ FindHours
  \/ FindMonth \/ MatchDay \/ SameMonth \/ IncMonth \/ Finish
Next == CreateSchedule \/ nextCronTime \/ TaskStarts

Spec == Init /\ [][Next]_vars
\* nextCronTime is a synchronous call: nothing else runs until it returns.
FairSpec == Spec /\ WF_vars(nextCronTime)

==============================================================================
