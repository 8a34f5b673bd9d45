------------------------------ MODULE CronProps ------------------------------
(* What a schedule under the cron strategy must do. *)
EXTENDS Cron

CronModels ==
  [ seconds     : SUBSET (0..(SecondsPerMinute - 1)),
    minutes     : SUBSET (0..(MinutesPerHour - 1)),
    hours       : SUBSET (0..(HoursPerDay - 1)),
    daysOfMonth : SUBSET (1..LongestMonth),
    months      : SUBSET (1..MonthsPerYear),
    daysOfWeek  : SUBSET (0..(DaysPerWeek - 1)) ]

\* Every field of every date is in its range, whatever carries made it, and each
\* field of the model holds only values that dates can have.
CronTypeOK ==
  /\ pc # "new" => cron \in CronModels
  /\ now \in Dates
  /\ ret \in Dates \cup {InvalidDate}
  /\ pc \in {"new", "begin", "utc", "seconds", "minutes", "hours", "month", "day", "found", "queued", "rejected", "disabled"}
  /\ ret = InvalidDate => pc \notin {"utc", "seconds", "minutes", "hours", "day"}
  /\ runAt \in Dates \cup {None, InvalidDate}
  /\ runs \in 0..MaxRuns

Matches(d) ==
  /\ d.seconds \in cron.seconds
  /\ d.minutes \in cron.minutes
  /\ d.hours \in cron.hours
  /\ d.date \in cron.daysOfMonth
  /\ d.month \in cron.months
  /\ WeekDay(d) \in cron.daysOfWeek

Found == pc = "queued" /\ ret # InvalidDate /\ ret.year < farthestYear

\* A task is queued for a date that exists in its month and agrees with all six fields,
\* when it is read in the zone that nextCronTime works in (fromUTC again, from the date in
\* UTC).  The fields are set one after the other (next.ts:42-162), each carry moves a
\* field that was already set, and the shift back moves all but the seconds.  (That zone
\* is utcOffsetMinutes ahead of UTC, where api.ts:44-51 has the offset lead TO UTC.)
ResultMatches ==
  pc = "queued" /\ runAt # InvalidDate =>
    LET d == fromUTC(runAt, model.utcOffsetMinutes)
    IN d.year < farthestYear => Matches(d) /\ d.date <= DaysIn(d.year, d.month)

\* The task runs after the date that the strategy was asked at, after startAfter and
\* before endBy, in UTC, although the search works in another zone and from fields
\* that it sets to lower values (next.ts:38-77, 165-168).
RunInWindow ==
  pc = "queued" /\ runAt # InvalidDate =>
    /\ Earlier(now, runAt)
    /\ model.startAfter # None => Earlier(model.startAfter, runAt)
    /\ model.endBy # None => Earlier(runAt, model.endBy)

------------------------------------------------------------------------------
(* No day is passed over *)

Midnight(d) == [d EXCEPT !.hours = 0, !.minutes = 0, !.seconds = 0]

\* The last second that matches of each day that matches, by a search of the calendar.
LastMatches ==
  IF {} \in { cron.seconds, cron.minutes, cron.hours } THEN {}
  ELSE { d \in [ year : now.year..(farthestYear - 1), month : cron.months,
                 date : cron.daysOfMonth, hours : { Max(cron.hours) },
                 minutes : { Max(cron.minutes) }, seconds : { Max(cron.seconds) } ] :
           d.date <= DaysIn(d.year, d.month) /\ Matches(d) }

Candidates ==
  { d \in LastMatches :
      /\ Earlier(fromUTC(SearchFrom, model.utcOffsetMinutes), d)
      /\ AddMinutes(d, -model.utcOffsetMinutes).year < farthestYear }

\* The search stops on the first day that has a matching second left, and finds no
\* date only if there is none in its years.  (Within that day it may stop on a later
\* second than the first: a jump of the hour keeps the minutes.)
DayIsEarliest ==
  /\ Found =>
       \A d \in Candidates : ~Earlier(Midnight(d), Midnight(ret))
  /\ pc \in {"rejected", "disabled"} /\ model.endBy = None => Candidates = {}

------------------------------------------------------------------------------
(* The fields of an expression *)

\* The usual reading of a range with a step: every step-th value from its start.
Written(expr, allowed) ==
  (IF expr.star THEN { v \in allowed : (v - Min(allowed)) % expr.step = 0 } ELSE {})
    \cup { v \in allowed :
             \E r \in expr.ranges :
               LET first == Min({r[1], r[2]})
               IN v \in first..Max({r[1], r[2]}) /\ (v - first) % expr.step = 0 }

\* The two readings differ when a range begins off the multiples of the step.
Aligned(expr, allowed) ==
  /\ expr.step > 0
  /\ expr.star => Min(allowed) % expr.step = 0
  /\ \A r \in expr.ranges : Min({r[1], r[2]}) % expr.step = 0

\* A field holds what a reader of cron expressions expects, with ranges written
\* either way round and Sunday written as 0 or as 7.
FieldsAsWritten ==
  LET parts  == model.cronExpression
      six    == IF Len(parts) = 5 THEN << Star >> \o parts ELSE parts
      agree(field, i) ==
        Aligned(six[i], ALLOWED_RANGES[field]) =>
          cron[field] = Written(six[i], ALLOWED_RANGES[field])
      days == Written(six[6], ALLOWED_RANGES.daysOfWeek)
  IN pc # "new" =>
     /\ agree("seconds", 1) /\ agree("minutes", 2) /\ agree("hours", 3)
     /\ agree("daysOfMonth", 4) /\ agree("months", 5)
     /\ Aligned(six[6], ALLOWED_RANGES.daysOfWeek) =>
          \A d \in 0..(DaysPerWeek - 1) :
            d \in cron.daysOfWeek <=> d \in days \/ (d = 0 /\ DaysPerWeek \in days)

------------------------------------------------------------------------------
(* The search advances *)

LaterMonth(d, e) == d.year < e.year \/ (d.year = e.year /\ d.month < e.month)
InMonth(d, e)    == d.year = e.year /\ d.month = e.month

\* To a later month, within a month to its days, and among its days to a later one.
Forward ==
  \/ LaterMonth(ret, ret')
  \/ InMonth(ret, ret') /\ pc' = "day" /\ (pc = "day" => ret.date < ret'.date)

\* Each turn of the two loops that look for a day (next.ts:87-162) that changes
\* anything goes forward, over the ends of months and years, and none goes back.  As
\* the outer loop is bounded by a year and a month by its days, the search can go on
\* for ever only in a turn that changes nothing.
SearchAdvances ==
  [][{pc, pc'} \subseteq {"month", "day"} /\ ret' # InvalidDate => Forward]_vars

------------------------------------------------------------------------------
(* The search ends *)

Answered == pc \in {"queued", "rejected", "disabled"}

\* With every day of the week allowed, the search ends, also when no month has the
\* day it looks for.
SearchEnds == pc = "begin" /\ cron.daysOfWeek = 0..(DaysPerWeek - 1) ~> Answered

\* next.ts:85-87 says of every search: "We will loop until we go beyond a reasonable
\* time in the future to look for a date.  If one isn't found beyond that time, then
\* we stop looking for one and consider the date dead."
EverySearchEnds == pc = "begin" ~> Answered

==============================================================================
