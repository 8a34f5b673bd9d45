--------------------------- MODULE CronExpression ---------------------------
(***************************************************************************)
(* From the fields of a cron expression to the values they allow            *)
(* (packages/core/src/lib/strategies/task-creation/cron/expression.ts).     *)
(*                                                                         *)
(* A field is read as a list of ranges and single numbers (a number n is    *)
(* the range n-n), perhaps with a star among them, and at most one slash.   *)
(***************************************************************************)
EXTENDS Calendar, FiniteSets, FiniteSetsExt

ALLOWED_RANGES ==
  [ seconds     |-> 0..(SecondsPerMinute - 1),
    minutes     |-> 0..(MinutesPerHour - 1),
    hours       |-> 0..(HoursPerDay - 1),
    daysOfMonth |-> 1..LongestMonth,
    months      |-> 1..MonthsPerYear,
    daysOfWeek  |-> 0..DaysPerWeek ]

Star == [ star |-> TRUE, ranges |-> {}, step |-> 1 ]

\* A field as it is read; a number may be out of range.
FieldExpressions == [ star : BOOLEAN, ranges : SUBSET (Int \X Int), step : Nat ]

\* The expressions that cronToModel does not reject.
Expressions == { parts \in Seq(FieldExpressions) : Len(parts) \in {5, 6} }

MutLastExcluded(expr, allowed) ==
  (IF expr.star THEN allowed ELSE {})
    \cup UNION { IF r[1] = r[2] THEN {r[1]} ELSE r[1]..(r[2] - 1) : r \in expr.ranges }
\* replaceAsteriskWithRange, then convertRange: a range may be written either way round.
convertRange(expr, allowed) ==
  (IF expr.star THEN allowed ELSE {})
    \cup UNION { r[1]..r[2] \cup r[2]..r[1] : r \in expr.ranges }

\* One step for the whole field, counted from 0 wherever a range begins.
\* A remainder by 0 is NaN, which equals nothing.
convertStep(values, step) == { v \in values : step # 0 /\ v % step = 0 }

MutNoRangeCheck(expr, allowed) == convertStep(convertRange(expr, allowed), expr.step)
\* removeDuplicates also drops what is out of range.
convertToModel(expr, allowed) ==
  convertStep(convertRange(expr, allowed), expr.step) \cap allowed

handleSundays(days) ==
  { IF d = DaysPerWeek THEN 0 ELSE d : d \in days } \cap 0..(DaysPerWeek - 1)

\* An expression of five fields has no seconds.  The code rejects every other
\* number of fields than five and six.
cronToModel(parts) ==
  LET six == IF Len(parts) = 5 THEN << Star >> \o parts ELSE parts
  IN [ seconds     |-> convertToModel(six[1], ALLOWED_RANGES.seconds),
       minutes     |-> convertToModel(six[2], ALLOWED_RANGES.minutes),
       hours       |-> convertToModel(six[3], ALLOWED_RANGES.hours),
       daysOfMonth |-> convertToModel(six[4], ALLOWED_RANGES.daysOfMonth),
       months      |-> convertToModel(six[5], ALLOWED_RANGES.months),
       daysOfWeek  |-> handleSundays(convertToModel(six[6], ALLOWED_RANGES.daysOfWeek)) ]

==============================================================================
