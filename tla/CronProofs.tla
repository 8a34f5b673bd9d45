------------------------------ MODULE CronProofs ------------------------------
(***************************************************************************)
(* For a calendar of any size and any expressions, offsets and windows:     *)
(* the search of the cron strategy keeps its types, and a date that it      *)
(* finds within its years agrees with every field of the expression, lies   *)
(* in the window of the schedule and is on the first day that does; the     *)
(* fields hold what the expression says; and the search goes forward.       *)
(*                                                                         *)
(* That it agrees rests on the order in which the fields are set: a carry   *)
(* out of a field moves the larger ones only, and those are set after it.   *)
(* That it lies in the window, because no step of the search leads back,    *)
(* and because a shift between zones keeps the order of dates and can be    *)
(* taken back.  That it is on the first day, because no step passes over a  *)
(* date that agrees.                                                        *)
(***************************************************************************)
EXTENDS CronProps, CalendarProofs, WellFoundedInduction, SequenceTheorems

\* A set of natural numbers that is not empty has a least member.
LEMMA MinIsLeast ==
  ASSUME NEW S, S \subseteq Nat, S # {}
  PROVE  /\ Min(S) \in S
         /\ \A y \in S : Min(S) <= y
<1>1. PICK x \in S : \A y \in S : ~(<< y, x >> \in OpToRel(<, Nat))
  BY NatLessThanWellFounded, WFMin, Zenon
<1>2. \A y \in S : ~(y < x)
  BY <1>1, Zenon DEF OpToRel
<1>3. \A y \in S : x <= y
  BY <1>2
<1> QED
  BY <1>3 DEF Min

\* What findNext returns is a value of the range, and not below the one it was given.
LEMMA FindNextInRange ==
  ASSUME NEW value \in Int, NEW range, range \subseteq Nat,
         findNext(value, range) # None
  PROVE  findNext(value, range) \in range /\ findNext(value, range) >= value
<1> DEFINE later == { i \in range : i >= value }
<1>1. later # {} /\ findNext(value, range) = Min(later)
  BY DEF findNext
<1>2. Min(later) \in later
  BY <1>1, MinIsLeast
<1> QED
  BY <1>1, <1>2

------------------------------------------------------------------------------
(* The invariant *)

Models ==
  [ cronExpression : Crons, cron : CronModels, utcOffsetMinutes : Offsets,
    startAfter : StartAfters, endBy : EndBys ]

\* The fields that each step of the search has set agree with the expression.
SecondsSet(d) == d.seconds \in cron.seconds
MinutesSet(d) == SecondsSet(d) /\ d.minutes \in cron.minutes
HoursSet(d)   == MinutesSet(d) /\ d.hours \in cron.hours
MonthSet(d)   == HoursSet(d) /\ d.month \in cron.months
DaySet(d) ==
  /\ MonthSet(d)
  /\ d.date \in cron.daysOfMonth /\ d.date <= DaysIn(d.year, d.month)
  /\ WeekDay(d) \in cron.daysOfWeek

SetSoFar ==
  /\ pc = "minutes" => SecondsSet(ret)
  /\ pc = "hours" => MinutesSet(ret)
  /\ pc = "month" /\ ret # InvalidDate => HoursSet(ret)
  /\ pc = "day" => MonthSet(ret)
  /\ pc = "found" => DaySet(ret)
  /\ Found => DaySet(ret)

CInv ==
  /\ CronTypeOK
  /\ pc # "new" => model \in Models
  /\ pc = "found" => ret # InvalidDate
  /\ pc = "queued" => runAt # None
  /\ SetSoFar

LEMMA ModelTyped ==
  ASSUME CInv, pc # "new"
  PROVE  /\ cron \in CronModels
         /\ model.utcOffsetMinutes \in Int
         /\ -model.utcOffsetMinutes \in Int
         /\ model.startAfter # None => model.startAfter \in Dates
         /\ model.endBy # None => model.endBy \in Dates
<1>1. model \in Models
  BY DEF CInv
<1>2. model.utcOffsetMinutes \in Offsets /\ model.startAfter \in StartAfters /\ model.endBy \in EndBys
  BY <1>1 DEF Models
<1>3. model.utcOffsetMinutes \in Int
  BY <1>2, CronAssumption
<1> QED
  BY <1>1, <1>2, <1>3, CronAssumption DEF cron, Models, RealDates

\* The sets of the fields hold numbers.
LEMMA FieldsAreNumbers ==
  ASSUME cron \in CronModels
  PROVE  /\ cron.seconds \subseteq Nat /\ cron.minutes \subseteq Nat /\ cron.hours \subseteq Nat
         /\ cron.daysOfMonth \subseteq Nat \ {0} /\ cron.months \subseteq 1..MonthsPerYear
         /\ cron.seconds \subseteq 0..(SecondsPerMinute - 1)
         /\ cron.minutes \subseteq 0..(MinutesPerHour - 1)
         /\ cron.hours \subseteq 0..(HoursPerDay - 1)
<1>1. LongestMonth \in Nat
  BY CalendarAssumption
<1> QED
  BY <1>1, UnitsArePositive DEF CronModels

\* Whatever the user wrote, a model holds values that dates can have.
LEMMA CronToModelTyped ==
  ASSUME NEW parts
  PROVE  cronToModel(parts) \in CronModels
<1>1. \A expr, allowed : convertToModel(expr, allowed) \subseteq allowed
  BY DEF convertToModel
<1>2. \A days : handleSundays(days) \subseteq 0..(DaysPerWeek - 1)
  BY DEF handleSundays
<1> QED
  BY <1>1, <1>2 DEF cronToModel, CronModels, ALLOWED_RANGES
------------------------------------------------------------------------------
(* What each step of the search returns *)

LEMMA SecondsFromSets ==
  ASSUME cron \in CronModels, cron.seconds # {}, NEW d \in Dates
  PROVE  SecondsFrom(d) \in Dates /\ SecondsSet(SecondsFrom(d))
<1> DEFINE next == findNext(d.seconds, cron.seconds)
           first == [d EXCEPT !.seconds = Min(cron.seconds)]
<1>1. CASE next # None
  <2>1. next \in cron.seconds
    BY <1>1, FindNextInRange, FieldsAreNumbers, DateFields
  <2>2. next \in 0..(SecondsPerMinute - 1)
    BY <2>1, FieldsAreNumbers
  <2>3. SecondsFrom(d) = [d EXCEPT !.seconds = next]
    BY <1>1 DEF SecondsFrom
  <2> QED
    BY <2>1, <2>2, <2>3 DEF SecondsSet, Dates
<1>2. CASE next = None
  <2>1. Min(cron.seconds) \in cron.seconds
    BY MinIsLeast, FieldsAreNumbers
  <2>2. Min(cron.seconds) \in 0..(SecondsPerMinute - 1)
    BY <2>1, FieldsAreNumbers
  <2>3. first \in Dates /\ first.seconds = Min(cron.seconds)
    BY <2>2 DEF Dates
  <2>4. SecondsFrom(d) = NextMinute(first)
    BY <1>2 DEF SecondsFrom
  <2> QED
    BY <2>1, <2>3, <2>4, NextMinuteTyped, NextMinuteKeepsSeconds DEF SecondsSet
<1> QED
  BY <1>1, <1>2

LEMMA MinutesFromSets ==
  ASSUME cron \in CronModels, cron.minutes # {}, NEW d \in Dates, SecondsSet(d)
  PROVE  MinutesFrom(d) \in Dates /\ MinutesSet(MinutesFrom(d))
<1> DEFINE next == findNext(d.minutes, cron.minutes)
           first == [d EXCEPT !.minutes = Min(cron.minutes)]
<1>1. CASE next # None
  <2>1. next \in cron.minutes
    BY <1>1, FindNextInRange, FieldsAreNumbers, DateFields
  <2>2. next \in 0..(MinutesPerHour - 1)
    BY <2>1, FieldsAreNumbers
  <2>3. MinutesFrom(d) = [d EXCEPT !.minutes = next]
    BY <1>1 DEF MinutesFrom
  <2> QED
    BY <2>1, <2>2, <2>3 DEF MinutesSet, SecondsSet, Dates
<1>2. CASE next = None
  <2>1. Min(cron.minutes) \in cron.minutes
    BY MinIsLeast, FieldsAreNumbers
  <2>2. Min(cron.minutes) \in 0..(MinutesPerHour - 1)
    BY <2>1, FieldsAreNumbers
  <2>3. first \in Dates /\ first.minutes = Min(cron.minutes) /\ first.seconds = d.seconds
    BY <2>2 DEF Dates
  <2>4. MinutesFrom(d) = NextHour(first)
    BY <1>2 DEF MinutesFrom
  <2> QED
    BY <2>1, <2>3, <2>4, NextHourTyped, NextHourKeepsMinutes DEF MinutesSet, SecondsSet
<1> QED
  BY <1>1, <1>2

LEMMA HoursFromSets ==
  ASSUME cron \in CronModels, cron.hours # {}, NEW d \in Dates, MinutesSet(d)
  PROVE  HoursFrom(d) \in Dates /\ HoursSet(HoursFrom(d))
<1> DEFINE next == findNext(d.hours, cron.hours)
           first == [d EXCEPT !.hours = Min(cron.hours)]
<1>1. CASE next # None
  <2>1. next \in cron.hours
    BY <1>1, FindNextInRange, FieldsAreNumbers, DateFields
  <2>2. next \in 0..(HoursPerDay - 1)
    BY <2>1, FieldsAreNumbers
  <2>3. HoursFrom(d) = [d EXCEPT !.hours = next]
    BY <1>1 DEF HoursFrom
  <2> QED
    BY <2>1, <2>2, <2>3 DEF HoursSet, MinutesSet, SecondsSet, Dates
<1>2. CASE next = None
  <2>1. Min(cron.hours) \in cron.hours
    BY MinIsLeast, FieldsAreNumbers
  <2>2. Min(cron.hours) \in 0..(HoursPerDay - 1)
    BY <2>1, FieldsAreNumbers
  <2>3. /\ first \in Dates /\ first.hours = Min(cron.hours)
        /\ first.minutes = d.minutes /\ first.seconds = d.seconds
    BY <2>2 DEF Dates
  <2>4. HoursFrom(d) = NextDay(first)
    BY <1>2 DEF HoursFrom
  <2> QED
    BY <2>1, <2>3, <2>4, NextDayTyped, NextDayKeepsTime DEF HoursSet, MinutesSet, SecondsSet
<1> QED
  BY <1>1, <1>2

LEMMA MonthFromSets ==
  ASSUME cron \in CronModels, cron.months # {}, NEW d \in Dates, HoursSet(d)
  PROVE  MonthFrom(d) \in Dates /\ MonthSet(MonthFrom(d))
<1> DEFINE next == findNext(d.month, cron.months)
           first == Min(cron.months)
<1>0. cron.months \subseteq 1..MonthsPerYear /\ cron.months \subseteq Nat
  BY FieldsAreNumbers, UnitsArePositive
<1>1. CASE next = d.month
  <2>1. MonthFrom(d) = d
    BY <1>1 DEF MonthFrom
  <2>2. next # None
    BY <1>1, DateFields, CronAssumption
  <2>3. next \in cron.months
    BY <1>0, <2>2, FindNextInRange, DateFields
  <2> QED
    BY <1>1, <2>1, <2>3 DEF MonthSet
<1>2. CASE next # d.month /\ next # None
  <2>1. next \in cron.months
    BY <1>0, <1>2, FindNextInRange, DateFields
  <2>2. MonthFrom(d) = [d EXCEPT !.date = 1, !.month = next]
    BY <1>2 DEF MonthFrom
  <2>3. MonthFrom(d) \in Dates
    <3>1. next \in 1..MonthsPerYear
      BY <1>0, <2>1
    <3> HIDE DEF next
    <3>2. [d EXCEPT !.date = 1, !.month = next] \in Dates
      BY <3>1, FirstOfMonth, DateFields, Zenon
    <3> QED
      BY <2>2, <3>2
  <2>4. /\ MonthFrom(d).month = next /\ MonthFrom(d).hours = d.hours
        /\ MonthFrom(d).minutes = d.minutes /\ MonthFrom(d).seconds = d.seconds
    BY <2>2 DEF Dates
  <2> QED
    BY <2>1, <2>3, <2>4 DEF MonthSet, HoursSet, MinutesSet, SecondsSet
<1>3. CASE next # d.month /\ next = None
  <2>1. first \in cron.months
    BY <1>0, MinIsLeast
  <2>2. MonthFrom(d) = [d EXCEPT !.date = 1, !.month = first, !.year = d.year + 1]
    BY <1>3 DEF MonthFrom
  <2>3. d.year + 1 \in Int /\ first \in 1..MonthsPerYear
    BY <1>0, <2>1, DateFields
  <2> HIDE DEF first
  <2>4. MonthFrom(d) \in Dates
    <3>1. [d EXCEPT !.date = 1, !.month = first, !.year = d.year + 1] \in Dates
      BY <2>3, FirstOfMonth, Zenon
    <3> QED
      BY <2>2, <3>1
  <2>5. /\ MonthFrom(d).month = first /\ MonthFrom(d).hours = d.hours
        /\ MonthFrom(d).minutes = d.minutes /\ MonthFrom(d).seconds = d.seconds
    BY <2>2 DEF Dates
  <2> QED
    BY <2>1, <2>4, <2>5 DEF MonthSet, HoursSet, MinutesSet, SecondsSet
<1> QED
  BY <1>1, <1>2, <1>3

\* A day that is tried is a day of its month.
LEMMA TriedDaySets ==
  ASSUME cron \in CronModels, ret \in Dates, MonthSet(ret), DayInMonth
  PROVE  /\ TriedDay \in Dates /\ MonthSet(TriedDay)
         /\ TriedDay.date \in cron.daysOfMonth
         /\ TriedDay.date <= DaysIn(TriedDay.year, TriedDay.month)
<1> DEFINE next == findNext(ret.date, cron.daysOfMonth)
<1>1. next # None /\ next <= DaysIn(ret.year, ret.month)
  BY DEF DayInMonth
<1>2. next \in cron.daysOfMonth /\ next \in Nat \ {0}
  BY <1>1, FindNextInRange, FieldsAreNumbers, DateFields
<1>3. TriedDay = [ret EXCEPT !.date = next]
  BY DEF TriedDay
<1>4. /\ TriedDay \in Dates
      /\ TriedDay.date = next /\ TriedDay.year = ret.year /\ TriedDay.month = ret.month
      /\ TriedDay.hours = ret.hours /\ TriedDay.minutes = ret.minutes /\ TriedDay.seconds = ret.seconds
  BY <1>2, <1>3 DEF Dates
<1> QED
  BY <1>1, <1>2, <1>4 DEF MonthSet, HoursSet, MinutesSet, SecondsSet
------------------------------------------------------------------------------
(* Initial states and steps *)

LEMMA InitCInv == Init => CInv
  BY CronAssumption DEF Init, CInv, CronTypeOK, SetSoFar, Found, RealDates

\* What a step of the search must show.
LEMMA SearchStepKeeps ==
  ASSUME CInv, pc \notin {"new", "queued"},
         UNCHANGED << model, now, runAt, runs >>,
         pc' \in {"utc", "seconds", "minutes", "hours", "month", "day", "found", "rejected", "disabled"},
         ret' \in Dates \cup {InvalidDate},
         ret' = InvalidDate => pc' \in {"month", "rejected", "disabled"},
         SetSoFar'
  PROVE  CInv'
  BY DEF CInv, CronTypeOK, CronModels, Models, cron

LEMMA CreateScheduleKeeps == ASSUME CInv, CreateSchedule PROVE CInv'
<1>1. PICK parts \in Crons, offset \in Offsets, startAfter \in StartAfters, endBy \in EndBys :
        model' = [ cronExpression |-> parts, cron |-> cronToModel(parts),
                   utcOffsetMinutes |-> offset, startAfter |-> startAfter, endBy |-> endBy ]
  BY DEF CreateSchedule
<1>2. model' \in Models /\ cron' \in CronModels
  BY <1>1, CronToModelTyped DEF Models, cron
<1>3. pc' = "begin" /\ ret' = now /\ UNCHANGED << now, runAt, runs >>
  BY DEF CreateSchedule
<1> QED
  BY <1>2, <1>3 DEF CInv, CronTypeOK, CronModels, SetSoFar, Found

LEMMA EarlyExitKeeps == ASSUME CInv, EarlyExit PROVE CInv'
<1>1. SetSoFar'
  BY DEF EarlyExit, NoDate, SetSoFar, Found
<1> QED
  BY <1>1 DEF EarlyExit, NoDate, CInv, CronTypeOK, CronModels, Models, cron

LEMMA BeginSearchKeeps == ASSUME CInv, BeginSearch PROVE CInv'
<1>1. SearchFrom \in Dates
  BY ModelTyped DEF BeginSearch, SearchFrom, CInv, CronTypeOK
<1>2. ret' \in Dates
  BY <1>1, NextSecondTyped DEF BeginSearch
<1>3. SetSoFar'
  BY DEF BeginSearch, SetSoFar, Found
<1> QED
  BY <1>2, <1>3, CronAssumption, SearchStepKeeps DEF BeginSearch

LEMMA ToZoneKeeps == ASSUME CInv, ToZone PROVE CInv'
<1>1. ret \in Dates /\ model.utcOffsetMinutes \in Int
  BY ModelTyped DEF ToZone, CInv, CronTypeOK
<1>2. ret' \in Dates
  BY <1>1, AddMinutesTyped DEF ToZone, fromUTC
<1>3. SetSoFar'
  BY DEF ToZone, SetSoFar, Found
<1> QED
  BY <1>2, <1>3, CronAssumption, SearchStepKeeps DEF ToZone

\* A field without values ends the search at once, with no date.
LEMMA NoValuesKeeps ==
  ASSUME CInv, pc \in {"seconds", "minutes", "hours", "month"},
         ret' = InvalidDate, pc' = "month",
         UNCHANGED << model, now, runAt, runs >>
  PROVE  CInv'
<1>1. SetSoFar'
  BY DEF SetSoFar, Found
<1> QED
  BY <1>1, SearchStepKeeps

LEMMA FindSecondsKeeps == ASSUME CInv, FindSeconds PROVE CInv'
<1>0. /\ pc = "seconds" /\ UNCHANGED << model, now, runAt, runs >>
      /\ ret \in Dates /\ cron \in CronModels
  BY ModelTyped DEF FindSeconds, FindTime, CInv, CronTypeOK
<1>1. CASE cron.seconds = {}
  BY <1>0, <1>1, NoValuesKeeps DEF FindSeconds, FindTime
<1>2. CASE cron.seconds # {}
  <2>1. ret' = SecondsFrom(ret) /\ pc' = "minutes"
    BY <1>2 DEF FindSeconds, FindTime
  <2>2. ret' \in Dates /\ SecondsSet(ret)'
    BY <1>0, <1>2, <2>1, SecondsFromSets DEF SecondsSet, cron
  <2>3. SetSoFar'
    BY <2>1, <2>2 DEF SetSoFar, Found
  <2> QED
    BY <1>0, <2>1, <2>2, <2>3, CronAssumption, SearchStepKeeps
<1> QED
  BY <1>1, <1>2

LEMMA FindMinutesKeeps == ASSUME CInv, FindMinutes PROVE CInv'
<1>0. /\ pc = "minutes" /\ UNCHANGED << model, now, runAt, runs >>
      /\ ret \in Dates /\ cron \in CronModels /\ SecondsSet(ret)
  BY ModelTyped DEF FindMinutes, FindTime, CInv, CronTypeOK, SetSoFar
<1>1. CASE cron.minutes = {}
  BY <1>0, <1>1, NoValuesKeeps DEF FindMinutes, FindTime
<1>2. CASE cron.minutes # {}
  <2>1. ret' = MinutesFrom(ret) /\ pc' = "hours"
    BY <1>2 DEF FindMinutes, FindTime
  <2>2. ret' \in Dates /\ MinutesSet(ret)'
    BY <1>0, <1>2, <2>1, MinutesFromSets DEF MinutesSet, SecondsSet, cron
  <2>3. SetSoFar'
    BY <2>1, <2>2 DEF SetSoFar, Found
  <2> QED
    BY <1>0, <2>1, <2>2, <2>3, CronAssumption, SearchStepKeeps
<1> QED
  BY <1>1, <1>2

LEMMA FindHoursKeeps == ASSUME CInv, FindHours PROVE CInv'
<1>0. /\ pc = "hours" /\ UNCHANGED << model, now, runAt, runs >>
      /\ ret \in Dates /\ cron \in CronModels /\ MinutesSet(ret)
  BY ModelTyped DEF FindHours, FindTime, CInv, CronTypeOK, SetSoFar
<1>1. CASE cron.hours = {}
  BY <1>0, <1>1, NoValuesKeeps DEF FindHours, FindTime
<1>2. CASE cron.hours # {}
  <2>1. ret' = HoursFrom(ret) /\ pc' = "month"
    BY <1>2 DEF FindHours, FindTime
  <2>2. ret' \in Dates /\ HoursSet(ret)'
    BY <1>0, <1>2, <2>1, HoursFromSets DEF HoursSet, MinutesSet, SecondsSet, cron
  <2>3. SetSoFar'
    BY <2>1, <2>2 DEF SetSoFar, Found
  <2> QED
    BY <1>0, <2>1, <2>2, <2>3, CronAssumption, SearchStepKeeps
<1> QED
  BY <1>1, <1>2

LEMMA FindMonthKeeps == ASSUME CInv, FindMonth PROVE CInv'
<1>0. /\ pc = "month" /\ UNCHANGED << model, now, runAt, runs >>
      /\ ret \in Dates /\ cron \in CronModels /\ HoursSet(ret)
  BY ModelTyped DEF FindMonth, CInv, CronTypeOK, SetSoFar
<1>1. CASE cron.months = {}
  BY <1>0, <1>1, NoValuesKeeps DEF FindMonth
<1>2. CASE cron.months # {}
  <2>1. ret' = MonthFrom(ret) /\ pc' = "day"
    BY <1>2 DEF FindMonth
  <2>2. ret' \in Dates /\ MonthSet(ret)'
    BY <1>0, <1>2, <2>1, MonthFromSets DEF MonthSet, HoursSet, MinutesSet, SecondsSet, cron
  <2>3. SetSoFar'
    BY <2>1, <2>2 DEF SetSoFar, Found
  <2> QED
    BY <1>0, <2>1, <2>2, <2>3, CronAssumption, SearchStepKeeps
<1> QED
  BY <1>1, <1>2

\* The three steps that look for a day begin with every other field set.
LEMMA AtDay ==
  ASSUME CInv, pc = "day"
  PROVE  ret \in Dates /\ cron \in CronModels /\ MonthSet(ret)
  BY ModelTyped DEF CInv, CronTypeOK, SetSoFar

LEMMA MatchDayKeeps == ASSUME CInv, MatchDay PROVE CInv'
<1>1. /\ pc = "day" /\ DayInMonth /\ WeekDay(TriedDay) \in cron.daysOfWeek
      /\ ret' = TriedDay /\ pc' = "found" /\ UNCHANGED << model, now, runAt, runs >>
  BY DEF MatchDay
<1>2. TriedDay \in Dates /\ DaySet(TriedDay)
  BY <1>1, AtDay, TriedDaySets DEF DaySet
<1>3. ret' \in Dates /\ DaySet(ret)'
  BY <1>1, <1>2 DEF DaySet, MonthSet, HoursSet, MinutesSet, SecondsSet, cron
<1>4. SetSoFar'
  BY <1>1, <1>3 DEF SetSoFar, Found
<1> QED
  BY <1>1, <1>3, <1>4, CronAssumption, SearchStepKeeps

LEMMA SameMonthKeeps == ASSUME CInv, SameMonth PROVE CInv'
<1>1. /\ pc = "day" /\ DayInMonth
      /\ ret' = TriedDay /\ pc' = "day" /\ UNCHANGED << model, now, runAt, runs >>
  BY DEF SameMonth
<1>2. TriedDay \in Dates /\ MonthSet(TriedDay)
  BY <1>1, AtDay, TriedDaySets
<1>3. ret' \in Dates /\ MonthSet(ret)'
  BY <1>1, <1>2 DEF MonthSet, HoursSet, MinutesSet, SecondsSet, cron
<1>4. SetSoFar'
  BY <1>1, <1>3 DEF SetSoFar, Found
<1> QED
  BY <1>1, <1>3, <1>4, CronAssumption, SearchStepKeeps

LEMMA IncMonthKeeps == ASSUME CInv, IncMonth PROVE CInv'
<1>1. /\ pc = "day" /\ ret' = NextMonth(ret) /\ pc' = "month"
      /\ UNCHANGED << model, now, runAt, runs >>
  BY DEF IncMonth
<1>2. NextMonth(ret) \in Dates /\ HoursSet(NextMonth(ret))
  BY <1>1, AtDay, NextMonthTyped, NextMonthKeepsTime DEF MonthSet, HoursSet, MinutesSet, SecondsSet
<1>3. ret' \in Dates /\ HoursSet(ret)'
  BY <1>1, <1>2 DEF HoursSet, MinutesSet, SecondsSet, cron
<1>4. SetSoFar'
  BY <1>1, <1>3 DEF SetSoFar, Found
<1> QED
  BY <1>1, <1>3, <1>4, CronAssumption, SearchStepKeeps

\* A search that ended without a match ended beyond its years.
LEMMA FinishKeeps == ASSUME CInv, Finish PROVE CInv'
<1> DEFINE utc == IF ret = InvalidDate THEN InvalidDate ELSE AddMinutes(ret, -model.utcOffsetMinutes)
<1>1. /\ SearchOver /\ pc \in {"found", "month"} /\ UNCHANGED << model, now, ret, runs >>
      /\ IF TooFar(utc) THEN NoDate /\ UNCHANGED runAt ELSE pc' = "queued" /\ runAt' = utc
  BY DEF Finish, SearchOver
<1>2. ret \in Dates \cup {InvalidDate} /\ -model.utcOffsetMinutes \in Int
  BY <1>1, ModelTyped DEF CInv, CronTypeOK
<1>3. utc \in Dates \cup {InvalidDate}
  BY <1>2, AddMinutesTyped
<1>4. CASE TooFar(utc)
  <2>1. pc' \in {"rejected", "disabled"} /\ UNCHANGED runAt
    BY <1>1, <1>4 DEF NoDate
  <2>2. SetSoFar'
    BY <2>1 DEF SetSoFar, Found
  <2> QED
    BY <1>1, <1>2, <2>1, <2>2, SearchStepKeeps
<1>5. CASE ~TooFar(utc)
  <2>1. pc' = "queued" /\ runAt' = utc
    BY <1>1, <1>5
  <2>2. Found' => pc = "found"
    <3>1. now \in Dates /\ farthestYear \in Int
      BY DateFields, CronAssumption DEF CInv, CronTypeOK, farthestYear
    <3>2. ret # InvalidDate => ret.year \in Int
      BY <1>2, DateFields
    <3>3. farthestYear' = farthestYear
      BY <1>1 DEF farthestYear
    <3> QED
      BY <1>1, <3>1, <3>2, <3>3 DEF Found, SearchOver
  <2>3. DaySet(ret) => DaySet(ret)'
    BY <1>1 DEF DaySet, MonthSet, HoursSet, MinutesSet, SecondsSet, cron
  <2>4. SetSoFar'
    BY <2>1, <2>2, <2>3 DEF SetSoFar, CInv
  <2>5. utc # None
    BY <1>3, CronAssumption
  <2> QED
    BY <1>1, <1>3, <2>1, <2>4, <2>5 DEF CInv, CronTypeOK, CronModels, Models, cron
<1> QED
  BY <1>4, <1>5

LEMMA TaskStartsKeeps == ASSUME CInv, TaskStarts PROVE CInv'
<1>1. runAt \in Dates
  BY DEF TaskStarts, CInv, CronTypeOK
<1>2. now' \in Dates
  BY <1>1, NextSecondTyped, NextDayTyped DEF TaskStarts
<1>3. runs' \in 0..MaxRuns
  BY CronAssumption DEF TaskStarts, CInv, CronTypeOK
<1>4. SetSoFar'
  BY DEF TaskStarts, SetSoFar, Found
<1> QED
  BY <1>2, <1>3, <1>4 DEF TaskStarts, CInv, CronTypeOK, CronModels, Models, cron

LEMMA StutterKeeps == ASSUME CInv, UNCHANGED vars PROVE CInv'
  BY DEF vars, CInv, CronTypeOK, CronModels, Models, SetSoFar, DaySet, MonthSet, HoursSet,
         MinutesSet, SecondsSet, cron, Found, farthestYear

LEMMA NextCInv == CInv /\ [Next]_vars => CInv'
<1> SUFFICES ASSUME CInv, [Next]_vars PROVE CInv'
  OBVIOUS
<1>1. CASE CreateSchedule
  BY <1>1, CreateScheduleKeeps
<1>2. CASE EarlyExit
  BY <1>2, EarlyExitKeeps
<1>3. CASE BeginSearch
  BY <1>3, BeginSearchKeeps
<1>4. CASE ToZone
  BY <1>4, ToZoneKeeps
<1>5. CASE FindSeconds
  BY <1>5, FindSecondsKeeps
<1>6. CASE FindMinutes
  BY <1>6, FindMinutesKeeps
<1>7. CASE FindHours
  BY <1>7, FindHoursKeeps
<1>8. CASE FindMonth
  BY <1>8, FindMonthKeeps
<1>9. CASE MatchDay
  BY <1>9, MatchDayKeeps
<1>10. CASE SameMonth
  BY <1>10, SameMonthKeeps
<1>11. CASE IncMonth
  BY <1>11, IncMonthKeeps
<1>12. CASE Finish
  BY <1>12, FinishKeeps
<1>13. CASE TaskStarts
  BY <1>13, TaskStartsKeeps
<1>14. CASE UNCHANGED vars
  BY <1>14, StutterKeeps
<1> QED
  BY <1>1, <1>2, <1>3, <1>4, <1>5, <1>6, <1>7, <1>8, <1>9, <1>10, <1>11, <1>12, <1>13, <1>14
     DEF Next, nextCronTime

LEMMA AlwaysCInv == Spec => []CInv
  BY InitCInv, NextCInv, PTL DEF Spec

------------------------------------------------------------------------------

\* Every date that the strategy handles exists in the calendar, in each of its fields,
\* and each field of a model holds only values that dates can have, whatever the user
\* wrote and wherever the carries went.
THEOREM CronTypeCorrect == Spec => []CronTypeOK
<1>1. CInv => CronTypeOK
  BY DEF CInv
<1> QED
  BY <1>1, AlwaysCInv, PTL

------------------------------------------------------------------------------
(* No step of the search leads back                                        *)

\* Every value of a field is a number that a date can have in it.
LEMMA SecondsFromIsLater ==
  ASSUME cron \in CronModels, cron.seconds # {}, NEW d \in RealDates
  PROVE  SecondsFrom(d) \in RealDates /\ NotLater(d, SecondsFrom(d))
<1> DEFINE next == findNext(d.seconds, cron.seconds)
           first == [d EXCEPT !.seconds = Min(cron.seconds)]
<1>0. d \in Dates /\ d.seconds \in Nat
  BY RealDateFields
<1>1. CASE next # None
  <2>1. next \in cron.seconds /\ next >= d.seconds
    BY <1>0, <1>1, FindNextInRange, FieldsAreNumbers
  <2>2. next \in 0..(SecondsPerMinute - 1) /\ next \in Nat
    BY <2>1, FieldsAreNumbers
  <2>3. SecondsFrom(d) = [d EXCEPT !.seconds = next]
    BY <1>1 DEF SecondsFrom
  <2>4. SecondsFrom(d) \in RealDates /\ SameMinute(d, SecondsFrom(d))
    BY <1>0, <2>2, <2>3 DEF RealDates, Dates, SameMinute, SameDay, MinuteOf
  <2>5. SecondsFrom(d).seconds = next
    BY <1>0, <2>3 DEF Dates
  <2> QED
    BY <1>0, <2>1, <2>2, <2>4, <2>5 DEF NotLater
<1>2. CASE next = None
  <2>1. Min(cron.seconds) \in 0..(SecondsPerMinute - 1)
    BY MinIsLeast, FieldsAreNumbers
  <2>2. first \in RealDates /\ SameMinute(d, first)
    BY <1>0, <2>1 DEF RealDates, Dates, SameMinute, SameDay, MinuteOf
  <2>3. SecondsFrom(d) = NextMinute(first)
    BY <1>2 DEF SecondsFrom
  <2> HIDE DEF first
  <2>4. /\ NextMinute(first) \in RealDates
        /\ \/ EarlierDay(first, NextMinute(first))
           \/ SameDay(first, NextMinute(first)) /\ MinuteOf(first) < MinuteOf(NextMinute(first))
    BY <2>2, NextMinuteIsLater
  <2> QED
    BY <2>2, <2>3, <2>4 DEF NotLater, EarlierDay, SameDay, SameMinute
<1> QED
  BY <1>1, <1>2

LEMMA MinutesFromIsLater ==
  ASSUME cron \in CronModels, cron.minutes # {}, NEW d \in RealDates
  PROVE  MinutesFrom(d) \in RealDates /\ NotLater(d, MinutesFrom(d))
<1> DEFINE next == findNext(d.minutes, cron.minutes)
           first == [d EXCEPT !.minutes = Min(cron.minutes)]
<1>0. d \in Dates /\ d.minutes \in Nat /\ d.seconds \in Nat
  BY RealDateFields, DateFields
<1>1. CASE next # None
  <2>1. next \in cron.minutes /\ next >= d.minutes
    BY <1>0, <1>1, FindNextInRange, FieldsAreNumbers
  <2>2. next \in 0..(MinutesPerHour - 1) /\ next \in Nat
    BY <2>1, FieldsAreNumbers
  <2>3. MinutesFrom(d) = [d EXCEPT !.minutes = next]
    BY <1>1 DEF MinutesFrom
  <2>4. /\ MinutesFrom(d) \in RealDates /\ MinutesFrom(d) \in Dates /\ SameDay(d, MinutesFrom(d))
        /\ MinutesFrom(d).hours = d.hours
        /\ MinutesFrom(d).minutes = next /\ MinutesFrom(d).seconds = d.seconds
    BY <1>0, <2>2, <2>3 DEF RealDates, Dates, SameDay
  <2>5. MinuteOf(d) < MinuteOf(MinutesFrom(d)) \/ MinuteOf(d) = MinuteOf(MinutesFrom(d))
    BY <1>0, <2>1, <2>2, <2>4, MinuteOrder
  <2> QED
    BY <1>0, <2>4, <2>5 DEF NotLater, SameMinute
<1>2. CASE next = None
  <2>1. Min(cron.minutes) \in 0..(MinutesPerHour - 1)
    BY MinIsLeast, FieldsAreNumbers
  <2>2. first \in RealDates /\ SameDay(d, first) /\ first.hours = d.hours
    BY <1>0, <2>1 DEF RealDates, Dates, SameDay
  <2>3. MinutesFrom(d) = NextHour(first)
    BY <1>2 DEF MinutesFrom
  <2> HIDE DEF first
  <2>4. /\ NextHour(first) \in RealDates /\ NextHour(first) \in Dates
        /\ \/ EarlierDay(first, NextHour(first))
           \/ SameDay(first, NextHour(first)) /\ first.hours < NextHour(first).hours
    BY <2>2, NextHourIsLater DEF RealDates
  <2>5. d.hours < NextHour(first).hours => MinuteOf(d) < MinuteOf(NextHour(first))
    BY <1>0, <2>4, MinuteOrder
  <2> QED
    BY <2>2, <2>3, <2>4, <2>5 DEF NotLater, EarlierDay, SameDay
<1> QED
  BY <1>1, <1>2

LEMMA HoursFromIsLater ==
  ASSUME cron \in CronModels, cron.hours # {}, NEW d \in RealDates
  PROVE  HoursFrom(d) \in RealDates /\ NotLater(d, HoursFrom(d))
<1> DEFINE next == findNext(d.hours, cron.hours)
           first == [d EXCEPT !.hours = Min(cron.hours)]
<1>0. d \in Dates /\ d.hours \in Nat /\ d.seconds \in Nat
  BY RealDateFields, DateFields
<1>1. CASE next # None
  <2>1. next \in cron.hours /\ next >= d.hours
    BY <1>0, <1>1, FindNextInRange, FieldsAreNumbers
  <2>2. next \in 0..(HoursPerDay - 1) /\ next \in Nat
    BY <2>1, FieldsAreNumbers
  <2>3. HoursFrom(d) = [d EXCEPT !.hours = next]
    BY <1>1 DEF HoursFrom
  <2>4. /\ HoursFrom(d) \in RealDates /\ HoursFrom(d) \in Dates /\ SameDay(d, HoursFrom(d))
        /\ HoursFrom(d).hours = next
        /\ HoursFrom(d).minutes = d.minutes /\ HoursFrom(d).seconds = d.seconds
    BY <1>0, <2>2, <2>3 DEF RealDates, Dates, SameDay
  <2>5. MinuteOf(d) < MinuteOf(HoursFrom(d)) \/ MinuteOf(d) = MinuteOf(HoursFrom(d))
    BY <1>0, <2>1, <2>2, <2>4, MinuteOrder
  <2> QED
    BY <1>0, <2>4, <2>5 DEF NotLater, SameMinute
<1>2. CASE next = None
  <2>1. Min(cron.hours) \in 0..(HoursPerDay - 1)
    BY MinIsLeast, FieldsAreNumbers
  <2>2. first \in RealDates /\ SameDay(d, first)
    BY <1>0, <2>1 DEF RealDates, Dates, SameDay
  <2>3. HoursFrom(d) = NextDay(first)
    BY <1>2 DEF HoursFrom
  <2> HIDE DEF first
  <2>4. NextDay(first) \in RealDates /\ EarlierDay(first, NextDay(first))
    BY <2>2, NextDayIsLater
  <2> QED
    BY <2>2, <2>3, <2>4 DEF NotLater, EarlierDay, SameDay
<1> QED
  BY <1>1, <1>2

LEMMA MonthFromIsLater ==
  ASSUME cron \in CronModels, cron.months # {}, NEW d \in RealDates
  PROVE  MonthFrom(d) \in RealDates /\ NotLater(d, MonthFrom(d))
<1> DEFINE next == findNext(d.month, cron.months)
           first == Min(cron.months)
<1>0. /\ cron.months \subseteq 1..MonthsPerYear /\ cron.months \subseteq Nat
      /\ d \in Dates /\ d.month \in Int /\ d.year \in Int
  BY FieldsAreNumbers, UnitsArePositive, RealDateFields
<1>1. CASE next = d.month
  BY <1>0, <1>1, OrderIsReflexive DEF MonthFrom
<1>2. CASE next # d.month /\ next # None
  <2>1. next \in cron.months /\ next >= d.month
    BY <1>0, <1>2, FindNextInRange
  <2>2. MonthFrom(d) = [d EXCEPT !.date = 1, !.month = next]
    BY <1>2 DEF MonthFrom
  <2>3. MonthFrom(d) \in Dates
    <3>1. next \in 1..MonthsPerYear
      BY <1>0, <2>1
    <3> HIDE DEF next
    <3>2. [d EXCEPT !.date = 1, !.month = next] \in Dates
      BY <1>0, <3>1, FirstOfMonth, Zenon
    <3> QED
      BY <2>2, <3>2
  <2>4. MonthFrom(d).date = 1 /\ MonthFrom(d).month = next /\ MonthFrom(d).year = d.year
    BY <1>0, <2>2 DEF Dates
  <2>5. EarlierDay(d, MonthFrom(d))
    BY <1>0, <1>2, <2>1, <2>4 DEF EarlierDay
  <2> QED
    BY <2>3, <2>4, <2>5, FirstIsReal DEF NotLater
<1>3. CASE next # d.month /\ next = None
  <2>1. first \in cron.months
    BY <1>0, MinIsLeast
  <2>2. MonthFrom(d) = [d EXCEPT !.date = 1, !.month = first, !.year = d.year + 1]
    BY <1>3 DEF MonthFrom
  <2>3. MonthFrom(d) \in Dates
    <3>1. first \in 1..MonthsPerYear /\ d.year + 1 \in Int
      BY <1>0, <2>1
    <3> HIDE DEF first
    <3>2. [d EXCEPT !.date = 1, !.month = first, !.year = d.year + 1] \in Dates
      BY <1>0, <3>1, FirstOfMonth, Zenon
    <3> QED
      BY <2>2, <3>2
  <2>4. MonthFrom(d).date = 1 /\ MonthFrom(d).year = d.year + 1
    BY <1>0, <2>2 DEF Dates
  <2>5. EarlierDay(d, MonthFrom(d))
    BY <1>0, <2>4 DEF EarlierDay
  <2> QED
    BY <2>3, <2>4, <2>5, FirstIsReal DEF NotLater
<1> QED
  BY <1>1, <1>2, <1>3

LEMMA TriedDayIsLater ==
  ASSUME cron \in CronModels, ret \in RealDates, DayInMonth
  PROVE  TriedDay \in RealDates /\ NotLater(ret, TriedDay)
<1> DEFINE next == findNext(ret.date, cron.daysOfMonth)
<1>0. ret \in Dates /\ ret.date \in Nat /\ ret.seconds \in Nat
  BY RealDateFields
<1>1. next # None /\ next <= DaysIn(ret.year, ret.month)
  BY DEF DayInMonth
<1>2. next \in cron.daysOfMonth /\ next \in Nat \ {0} /\ next >= ret.date
  BY <1>0, <1>1, FindNextInRange, FieldsAreNumbers
<1>3. TriedDay = [ret EXCEPT !.date = next]
  BY DEF TriedDay
<1>4. /\ TriedDay \in Dates
      /\ TriedDay.date = next /\ TriedDay.year = ret.year /\ TriedDay.month = ret.month
      /\ TriedDay.hours = ret.hours /\ TriedDay.minutes = ret.minutes
      /\ TriedDay.seconds = ret.seconds
  BY <1>0, <1>2, <1>3 DEF Dates
<1>5. TriedDay \in RealDates
  BY <1>1, <1>4 DEF RealDates
<1>6. EarlierDay(ret, TriedDay) \/ (SameMinute(ret, TriedDay) /\ ret.seconds <= TriedDay.seconds)
  BY <1>0, <1>2, <1>4 DEF EarlierDay, SameMinute, SameDay, MinuteOf
<1> QED
  BY <1>5, <1>6 DEF NotLater

------------------------------------------------------------------------------
(* The date lies in the window                                             *)

Searching == pc \in {"seconds", "minutes", "hours", "month", "day", "found"}

\* Where the search began, in the zone that it works in.
Floor == fromUTC(NextSecond(SearchFrom), model.utcOffsetMinutes)

WInv ==
  /\ now \in RealDates
  /\ ret \in RealDates \cup {InvalidDate}
  /\ pc # "new" => model.startAfter \in RealDates \cup {None}
  /\ pc = "utc" => ret = NextSecond(SearchFrom)
  /\ Searching /\ ret # InvalidDate => NotLater(Floor, ret)
  /\ pc = "queued" => runAt \in RealDates \cup {InvalidDate}
  /\ pc = "queued" /\ runAt # InvalidDate =>
       ret # InvalidDate /\ fromUTC(runAt, model.utcOffsetMinutes) = ret
  /\ RunInWindow

LEMMA WindowTyped ==
  ASSUME CInv, WInv, pc # "new"
  PROVE  /\ SearchFrom \in RealDates /\ NextSecond(SearchFrom) \in RealDates
         /\ Floor \in RealDates /\ Floor \in Dates
         /\ model.utcOffsetMinutes \in Int /\ -model.utcOffsetMinutes \in Int
         /\ -MinutesPerDay <= model.utcOffsetMinutes /\ model.utcOffsetMinutes <= MinutesPerDay
         /\ -MinutesPerDay <= -model.utcOffsetMinutes /\ -model.utcOffsetMinutes <= MinutesPerDay
<1>1. SearchFrom \in RealDates
  BY DEF WInv, SearchFrom
<1>2. NextSecond(SearchFrom) \in RealDates
  BY <1>1, NextSecondIsLater
<1>3. model.utcOffsetMinutes \in Offsets
  BY DEF CInv, Models
<1>4. MinutesPerDay \in Nat
  BY UnitsArePositive DEF MinutesPerDay
<1>5. /\ model.utcOffsetMinutes \in Int
      /\ -MinutesPerDay <= model.utcOffsetMinutes /\ model.utcOffsetMinutes <= MinutesPerDay
  BY <1>3, CronAssumption DEF MinutesPerDay
<1>6. Floor \in RealDates
  BY <1>2, <1>5, AddMinutesMoves DEF Floor, fromUTC
<1>7. Floor \in Dates
  BY <1>6 DEF RealDates
<1> QED
  BY <1>1, <1>2, <1>4, <1>5, <1>6, <1>7

\* The search starts after the date it is asked at and after startAfter.
LEMMA SearchFromIsLater ==
  ASSUME CInv, WInv, pc # "new", NEW d \in RealDates, NotLater(NextSecond(SearchFrom), d)
  PROVE  /\ Earlier(now, d)
         /\ model.startAfter # None => Earlier(model.startAfter, d)
<1>1. /\ now \in Dates /\ SearchFrom \in Dates /\ NextSecond(SearchFrom) \in Dates /\ d \in Dates
      /\ model.startAfter # None => model.startAfter \in Dates
  BY WindowTyped DEF WInv, RealDates
<1>2. Earlier(SearchFrom, d)
  BY <1>1, WindowTyped, NextSecondIsLater, OrderIsTransitive
<1>3. NotLater(now, SearchFrom)
  <2>1. CASE SearchFrom = now
    BY <1>1, <2>1, OrderIsReflexive
  <2>2. CASE SearchFrom # now
    <3>1. Earlier(now, SearchFrom)
      BY <2>2 DEF SearchFrom
    <3>2. now.seconds \in Nat /\ SearchFrom.seconds \in Nat
      BY <1>1, DateFields
    <3> QED
      BY <1>1, <3>1, <3>2, EarlierOrder DEF NotLater, SameMinute
  <2> QED
    BY <2>1, <2>2
<1>4. model.startAfter # None => NotLater(model.startAfter, SearchFrom)
  <2> SUFFICES ASSUME model.startAfter # None PROVE NotLater(model.startAfter, SearchFrom)
    OBVIOUS
  <2>1. CASE Earlier(now, model.startAfter)
    BY <1>1, <2>1, OrderIsReflexive DEF SearchFrom
  <2>2. CASE ~Earlier(now, model.startAfter)
    BY <1>1, <2>2, OrderIsTotal DEF SearchFrom
  <2> QED
    BY <2>1, <2>2
<1> QED
  BY <1>1, <1>2, <1>3, <1>4, OrderIsTransitive

\* A step of the search that moves to a later date.
LEMMA SearchStepWindow ==
  ASSUME CInv, WInv, pc # "new", UNCHANGED << model, now, runAt >>, Searching,
         pc' # "utc", pc' # "queued", ret \in RealDates,
         \/ ret' = InvalidDate
         \/ ret' \in RealDates /\ NotLater(ret, ret')
  PROVE  WInv'
<1>1. Floor' = Floor
  BY DEF Floor, SearchFrom
<1>2. CASE ret' = InvalidDate
  BY <1>2 DEF WInv, RunInWindow
<1>3. CASE ret' \in RealDates /\ NotLater(ret, ret')
  <2>1. ret # InvalidDate
    BY CronAssumption DEF RealDates
  <2>2. NotLater(Floor, ret)
    BY <2>1 DEF WInv
  <2>3. NotLater(Floor, ret')
    BY <1>3, <2>2, WindowTyped, OrderIsTransitive DEF RealDates
  <2> QED
    BY <1>1, <1>3, <2>3 DEF WInv, RunInWindow
<1> QED
  BY <1>2, <1>3

LEMMA InitWInv == Init => WInv
  BY CronAssumption DEF Init, WInv, RunInWindow, Searching

LEMMA ToZoneWindow == ASSUME CInv, WInv, ToZone PROVE WInv'
<1>1. /\ pc = "utc" /\ pc' = "seconds" /\ ret = NextSecond(SearchFrom)
      /\ ret' = fromUTC(ret, model.utcOffsetMinutes)
      /\ UNCHANGED << model, now, runAt >>
  BY DEF ToZone, WInv
<1>2. ret' = Floor /\ Floor' = Floor
  BY <1>1 DEF Floor, SearchFrom
<1>3. Floor \in RealDates /\ NotLater(Floor, Floor)
  BY <1>1, WindowTyped, OrderIsReflexive
<1> QED
  BY <1>1, <1>2, <1>3 DEF WInv, RunInWindow

LEMMA FinishWindow == ASSUME CInv, WInv, Finish PROVE WInv'
<1> DEFINE utc == IF ret = InvalidDate THEN InvalidDate
                  ELSE AddMinutes(ret, -model.utcOffsetMinutes)
<1>1. /\ pc \in {"found", "month"} /\ UNCHANGED << model, now, ret, runs >>
      /\ IF TooFar(utc) THEN NoDate /\ UNCHANGED runAt ELSE pc' = "queued" /\ runAt' = utc
  BY DEF Finish, SearchOver
<1>2. CASE TooFar(utc)
  <2>1. pc' \in {"rejected", "disabled"}
    BY <1>1, <1>2 DEF NoDate
  <2> QED
    BY <1>1, <2>1 DEF WInv, RunInWindow, Searching
<1>3. CASE ~TooFar(utc) /\ ret = InvalidDate
  BY <1>1, <1>3 DEF WInv, RunInWindow, Searching
<1>4. CASE ~TooFar(utc) /\ ret # InvalidDate
  <2> DEFINE n == model.utcOffsetMinutes   start == NextSecond(SearchFrom)
  <2>1. /\ ret \in RealDates /\ NotLater(Floor, ret) /\ pc # "new"
        /\ utc = AddMinutes(ret, -n) /\ pc' = "queued" /\ runAt' = utc
    BY <1>1, <1>4 DEF WInv, Searching
  <2>2. utc \in RealDates
    BY <2>1, WindowTyped, AddMinutesMoves
  <2>3. NotLater(AddMinutes(Floor, -n), utc)
    BY <2>1, WindowTyped, ShiftKeepsOrder
  <2>4. NotLater(start, AddMinutes(Floor, -n))
    BY <2>1, WindowTyped, ShiftBack DEF Floor, fromUTC
  <2>5. AddMinutes(Floor, -n) \in RealDates /\ start \in RealDates
    BY <2>1, WindowTyped, AddMinutesMoves
  <2>6. NotLater(start, utc)
    BY <2>2, <2>3, <2>4, <2>5, OrderIsTransitive DEF RealDates
  <2>7. Earlier(now, utc) /\ (model.startAfter # None => Earlier(model.startAfter, utc))
    BY <2>1, <2>2, <2>6, SearchFromIsLater
  <2>8. model.endBy # None => Earlier(utc, model.endBy)
    <3>1. utc # InvalidDate
      BY <2>2, CronAssumption DEF RealDates
    <3> QED
      BY <1>4, <3>1 DEF TooFar
  <2>9. fromUTC(utc, n) = ret
    BY <2>1, WindowTyped, ShiftBackIsSame DEF fromUTC
  <2> QED
    BY <1>1, <1>4, <2>1, <2>2, <2>7, <2>8, <2>9 DEF WInv, RunInWindow, Searching
<1> QED
  BY <1>2, <1>3, <1>4

LEMMA TaskStartsWindow == ASSUME CInv, WInv, TaskStarts PROVE WInv'
<1>1. runAt \in RealDates
  BY DEF TaskStarts, WInv
<1>2. NextSecond(runAt) \in RealDates /\ NextDay(runAt) \in RealDates
  BY <1>1, NextSecondIsLater, NextDayIsLater
<1> QED
  BY <1>1, <1>2 DEF TaskStarts, WInv, RunInWindow, Searching

LEMMA CreateScheduleWindow == ASSUME CInv, WInv, CreateSchedule PROVE WInv'
<1>1. /\ pc' = "begin" /\ ret' = now /\ now' = now
      /\ model'.startAfter \in StartAfters
  BY DEF CreateSchedule
<1>2. model'.startAfter \in RealDates \cup {None}
  BY <1>1, CronAssumption
<1> QED
  BY <1>1, <1>2 DEF WInv, RunInWindow, Searching

LEMMA NextWInv == CInv /\ WInv /\ [Next]_vars => WInv'
<1> SUFFICES ASSUME CInv, WInv, [Next]_vars PROVE WInv'
  OBVIOUS
<1>1. CASE CreateSchedule
  BY <1>1, CreateScheduleWindow
<1>2. CASE EarlyExit
  BY <1>2 DEF EarlyExit, NoDate, WInv, RunInWindow, Searching
<1>3. CASE BeginSearch
  <2>1. /\ pc # "new" /\ pc' = "utc" /\ ret' = NextSecond(SearchFrom)
        /\ UNCHANGED << model, now, runAt >>
    BY <1>3 DEF BeginSearch
  <2>2. SearchFrom' = SearchFrom /\ ret' \in RealDates
    BY <2>1, WindowTyped DEF SearchFrom
  <2> QED
    BY <2>1, <2>2 DEF WInv, RunInWindow, Searching
<1>4. CASE ToZone
  BY <1>4, ToZoneWindow
<1>5. CASE FindSeconds \/ FindMinutes \/ FindHours \/ FindMonth
  <2>1. /\ pc \in {"seconds", "minutes", "hours", "month"} /\ pc' \notin {"utc", "queued"}
        /\ UNCHANGED << model, now, runAt >>
    BY <1>5 DEF FindSeconds, FindMinutes, FindHours, FindMonth, FindTime
  <2>2. ret # InvalidDate
    BY <1>5, <2>1 DEF FindMonth, FindSeconds, FindMinutes, FindHours, FindTime, CInv, CronTypeOK
  <2>3. ret \in RealDates /\ cron \in CronModels
    BY <2>1, <2>2, ModelTyped DEF WInv
  <2>4. ret' = InvalidDate \/ (ret' \in RealDates /\ NotLater(ret, ret'))
    BY <1>5, <2>3, SecondsFromIsLater, MinutesFromIsLater, HoursFromIsLater, MonthFromIsLater
       DEF FindSeconds, FindMinutes, FindHours, FindMonth, FindTime
  <2> QED
    BY <2>1, <2>3, <2>4, SearchStepWindow DEF Searching
<1>6. CASE MatchDay \/ SameMonth \/ IncMonth
  <2>1. /\ pc = "day" /\ pc' \notin {"utc", "queued"} /\ UNCHANGED << model, now, runAt >>
    BY <1>6 DEF MatchDay, SameMonth, IncMonth
  <2>2. ret \in RealDates /\ cron \in CronModels /\ ret \in Dates
    BY <2>1, ModelTyped DEF WInv, CInv, CronTypeOK
  <2>3. ret' \in RealDates /\ NotLater(ret, ret')
    BY <1>6, <2>2, TriedDayIsLater, NextMonthIsLater DEF MatchDay, SameMonth, IncMonth, NotLater
  <2> QED
    BY <2>1, <2>2, <2>3, SearchStepWindow DEF Searching
<1>7. CASE Finish
  BY <1>7, FinishWindow
<1>8. CASE TaskStarts
  BY <1>8, TaskStartsWindow
<1>9. CASE UNCHANGED vars
  BY <1>9 DEF vars, WInv, RunInWindow, Searching, Floor, SearchFrom
<1> QED
  BY <1>1, <1>2, <1>3, <1>4, <1>5, <1>6, <1>7, <1>8, <1>9 DEF Next, nextCronTime

\* A task runs after the date that the strategy was asked at, after startAfter and
\* before endBy, in UTC, although the search works in another zone, for any offset
\* of at most a day (next.ts).
THEOREM RunsInWindow == Spec => []RunInWindow
<1>1. WInv => RunInWindow
  BY DEF WInv
<1> QED
  BY <1>1, AlwaysCInv, InitWInv, NextWInv, PTL DEF Spec

\* The date of a task that is queued for a date within the years of the search is on a
\* day of its month and agrees with all six fields of the expression, in the zone that
\* nextCronTime works in: the shift to UTC is the opposite of the one that the search
\* began with (next.ts:39, 165).
THEOREM ResultsMatch == Spec => []ResultMatches
<1>1. CInv /\ WInv => ResultMatches
  <2> SUFFICES ASSUME CInv, WInv, pc = "queued", runAt # InvalidDate,
                      fromUTC(runAt, model.utcOffsetMinutes).year < farthestYear
               PROVE  /\ Matches(fromUTC(runAt, model.utcOffsetMinutes))
                      /\ fromUTC(runAt, model.utcOffsetMinutes).date <=
                           DaysIn(fromUTC(runAt, model.utcOffsetMinutes).year,
                                  fromUTC(runAt, model.utcOffsetMinutes).month)
    BY Zenon DEF ResultMatches
  <2>1. fromUTC(runAt, model.utcOffsetMinutes) = ret /\ ret # InvalidDate
    BY DEF WInv
  <2>2. DaySet(ret)
    BY <2>1 DEF CInv, SetSoFar, Found
  <2> QED
    BY <2>1, <2>2 DEF Matches, DaySet, MonthSet, HoursSet, MinutesSet, SecondsSet
<1> QED
  BY <1>1, AlwaysCInv, InitWInv, NextWInv, PTL DEF Spec

------------------------------------------------------------------------------
(* No candidate is passed over                                             *)

\* A set of numbers with a bound that is not empty has a greatest member.
LEMMA MaxIsGreatest ==
  ASSUME NEW S, NEW n \in Nat, S \subseteq 0..n, S # {}
  PROVE  /\ Max(S) \in S
         /\ \A y \in S : y <= Max(S)
<1> DEFINE T == { n - x : x \in S }
<1>1. T \subseteq Nat /\ T # {}
  <2>1. PICK x : x \in S
    OBVIOUS
  <2>2. n - x \in T
    BY <2>1
  <2>3. \A y \in S : n - y \in Nat
    OBVIOUS
  <2> QED
    BY <2>2, <2>3
<1>2. Min(T) \in T /\ \A y \in T : Min(T) <= y
  BY <1>1, MinIsLeast
<1>3. PICK x \in S : \A y \in S : n - x <= n - y
  BY <1>2
<1>4. x \in S /\ \A y \in S : x >= y
  BY <1>3
<1>5. Max(S) \in S /\ \A y \in S : Max(S) >= y
  BY <1>4 DEF Max
<1> QED
  BY <1>5

\* Nothing that the range holds lies between a number and what findNext returns.
LEMMA FindNextIsLeast ==
  ASSUME NEW value \in Int, NEW range, range \subseteq Nat, NEW x \in range, value <= x
  PROVE  findNext(value, range) # None /\ findNext(value, range) <= x
<1> DEFINE later == { i \in range : i >= value }
<1>1. x \in later /\ later # {} /\ later \subseteq Nat
  OBVIOUS
<1>2. findNext(value, range) = Min(later)
  BY <1>1 DEF findNext
<1>3. Min(later) \in later /\ \A y \in later : Min(later) <= y
  BY <1>1, MinIsLeast
<1>4. Min(later) \in Int /\ Min(later) <= x
  BY <1>1, <1>3
<1> HIDE DEF later
<1>5. Min(later) # None
  BY <1>4, CronAssumption
<1> QED
  BY <1>2, <1>4, <1>5

\* The time of a candidate is the last that the expression allows.
LastTime(c) ==
  /\ c.seconds \in cron.seconds /\ \A s \in cron.seconds : s <= c.seconds
  /\ c.minutes \in cron.minutes /\ \A m \in cron.minutes : m <= c.minutes
  /\ c.hours \in cron.hours /\ \A h \in cron.hours : h <= c.hours

LEMMA CandidateFields ==
  ASSUME CInv, pc # "new", NEW c \in Candidates
  PROVE  /\ c \in RealDates /\ LastTime(c)
         /\ c.date \in cron.daysOfMonth /\ c.month \in cron.months
         /\ Earlier(fromUTC(SearchFrom, model.utcOffsetMinutes), c)
         /\ AddMinutes(c, -model.utcOffsetMinutes).year < farthestYear
<1>1. cron \in CronModels /\ now.year \in Int /\ farthestYear \in Int
  BY ModelTyped, CronAssumption, DateFields DEF CInv, CronTypeOK, farthestYear
<1>2. /\ c \in LastMatches
      /\ Earlier(fromUTC(SearchFrom, model.utcOffsetMinutes), c)
      /\ AddMinutes(c, -model.utcOffsetMinutes).year < farthestYear
  BY DEF Candidates
<1>3. cron.seconds # {} /\ cron.minutes # {} /\ cron.hours # {}
  BY <1>2 DEF LastMatches
<1>4. /\ c \in [ year : now.year..(farthestYear - 1), month : cron.months,
                 date : cron.daysOfMonth, hours : { Max(cron.hours) },
                 minutes : { Max(cron.minutes) }, seconds : { Max(cron.seconds) } ]
      /\ c.date <= DaysIn(c.year, c.month)
  BY <1>2, <1>3 DEF LastMatches
<1>5. /\ SecondsPerMinute - 1 \in Nat /\ MinutesPerHour - 1 \in Nat /\ HoursPerDay - 1 \in Nat
  BY UnitsArePositive
<1>6. /\ Max(cron.seconds) \in cron.seconds /\ \A s \in cron.seconds : s <= Max(cron.seconds)
      /\ Max(cron.minutes) \in cron.minutes /\ \A m \in cron.minutes : m <= Max(cron.minutes)
      /\ Max(cron.hours) \in cron.hours /\ \A h \in cron.hours : h <= Max(cron.hours)
  BY <1>1, <1>3, <1>5, MaxIsGreatest, FieldsAreNumbers
<1>7. LastTime(c)
  BY <1>4, <1>6 DEF LastTime
<1>8. /\ c.year \in Int /\ c.month \in 1..MonthsPerYear /\ c.date \in Nat \ {0}
      /\ c.hours \in 0..(HoursPerDay - 1) /\ c.minutes \in 0..(MinutesPerHour - 1)
      /\ c.seconds \in 0..(SecondsPerMinute - 1)
  BY <1>1, <1>4, <1>6, FieldsAreNumbers
<1>9. c \in Dates
  BY <1>4, <1>8 DEF Dates
<1> QED
  BY <1>2, <1>4, <1>7, <1>9 DEF RealDates

\* The times of day, one field after the other.
LEMMA SecondsFromInOrder ==
  ASSUME cron \in CronModels, cron.seconds # {}, NEW d \in RealDates, NEW c \in RealDates,
         NotLater(d, c), LastTime(c)
  PROVE  NotLater(SecondsFrom(d), c)
<1> DEFINE next == findNext(d.seconds, cron.seconds)
           first == [d EXCEPT !.seconds = Min(cron.seconds)]
<1>0. /\ d \in Dates /\ c \in Dates /\ d.seconds \in Nat /\ c.seconds \in Nat
      /\ cron.seconds \subseteq Nat /\ cron.seconds \subseteq 0..(SecondsPerMinute - 1)
      /\ d.minutes \in Nat /\ c.minutes \in Nat
  BY RealDateFields, DateFields, FieldsAreNumbers
<1>1. CASE next # None
  <2>1. next \in cron.seconds
    BY <1>0, <1>1, FindNextInRange
  <2>2. SecondsFrom(d) = [d EXCEPT !.seconds = next]
    BY <1>1 DEF SecondsFrom
  <2>3. /\ SecondsFrom(d) \in Dates /\ SameDay(SecondsFrom(d), d)
        /\ SecondsFrom(d).hours = d.hours /\ SecondsFrom(d).minutes = d.minutes
        /\ SecondsFrom(d).seconds = next
    BY <1>0, <2>1, <2>2 DEF Dates, SameDay
  <2>4. next <= c.seconds
    BY <2>1 DEF LastTime
  <2> HIDE DEF next
  <2>5. \/ BeforeMinute(SecondsFrom(d), c)
        \/ /\ SameDay(SecondsFrom(d), c) /\ SecondsFrom(d).hours = c.hours
           /\ SecondsFrom(d).minutes = c.minutes /\ SecondsFrom(d).seconds <= c.seconds
    BY <1>0, <2>3, <2>4, FieldOrder DEF BeforeMinute, BeforeHour, EarlierDay, SameDay
  <2> QED
    BY <1>0, <2>3, <2>5, FieldOrder
<1>2. CASE next = None
  <2>1. Min(cron.seconds) \in cron.seconds
    BY <1>0, MinIsLeast
  <2>2. /\ first \in Dates /\ SameDay(first, d) /\ first.seconds = Min(cron.seconds)
        /\ first.hours = d.hours /\ first.minutes = d.minutes
    BY <1>0, <2>1 DEF Dates, SameDay
  <2>3. first \in RealDates
    BY <2>2, RealDateFields DEF RealDates, SameDay
  <2>4. SecondsFrom(d) = NextMinute(first)
    BY <1>2 DEF SecondsFrom
  <2>5. ~(d.seconds <= c.seconds)
    BY <1>0, <1>2, FindNextIsLeast DEF LastTime
  <2> HIDE DEF first
  <2>6. BeforeMinute(d, c)
    BY <1>0, <2>5, FieldOrder
  <2>7. BeforeMinute(first, c)
    BY <2>2, <2>6 DEF BeforeMinute, BeforeHour, EarlierDay, SameDay
  <2>8. NotAfterMinute(NextMinute(first), c)
    BY <2>3, <2>7, NoMinuteBetween
  <2>9. NextMinute(first) \in Dates /\ NextMinute(first).seconds <= c.seconds
    BY <2>1, <2>2, NextMinuteTyped, NextMinuteKeepsSeconds DEF LastTime
  <2>10. NextMinute(first).minutes \in Nat
    BY <2>9, DateFields
  <2>11. \/ BeforeMinute(NextMinute(first), c)
         \/ /\ SameDay(NextMinute(first), c) /\ NextMinute(first).hours = c.hours
            /\ NextMinute(first).minutes = c.minutes /\ NextMinute(first).seconds <= c.seconds
    BY <1>0, <2>8, <2>9, <2>10 DEF BeforeMinute, NotAfterMinute
  <2> QED
    BY <1>0, <2>4, <2>9, <2>11, FieldOrder
<1> QED
  BY <1>1, <1>2

LEMMA MinutesFromInOrder ==
  ASSUME cron \in CronModels, cron.minutes # {}, NEW d \in RealDates, NEW c \in RealDates,
         SecondsSet(d), NotLater(d, c), LastTime(c)
  PROVE  NotLater(MinutesFrom(d), c)
<1> DEFINE next == findNext(d.minutes, cron.minutes)
           first == [d EXCEPT !.minutes = Min(cron.minutes)]
<1>0. /\ d \in Dates /\ c \in Dates /\ d.minutes \in Nat /\ c.minutes \in Nat
      /\ cron.minutes \subseteq Nat /\ cron.minutes \subseteq 0..(MinutesPerHour - 1)
      /\ d.hours \in Nat /\ c.hours \in Nat /\ d.seconds <= c.seconds
  BY RealDateFields, DateFields, FieldsAreNumbers DEF LastTime, SecondsSet
<1>1. CASE next # None
  <2>1. next \in cron.minutes
    BY <1>0, <1>1, FindNextInRange
  <2>2. MinutesFrom(d) = [d EXCEPT !.minutes = next]
    BY <1>1 DEF MinutesFrom
  <2>3. /\ MinutesFrom(d) \in Dates /\ SameDay(MinutesFrom(d), d)
        /\ MinutesFrom(d).hours = d.hours /\ MinutesFrom(d).minutes = next
        /\ MinutesFrom(d).seconds = d.seconds
    BY <1>0, <2>1, <2>2 DEF Dates, SameDay
  <2>4. next <= c.minutes /\ next \in Nat
    BY <1>0, <2>1 DEF LastTime
  <2> HIDE DEF next
  <2>5. \/ BeforeMinute(MinutesFrom(d), c)
        \/ /\ SameDay(MinutesFrom(d), c) /\ MinutesFrom(d).hours = c.hours
           /\ MinutesFrom(d).minutes = c.minutes /\ MinutesFrom(d).seconds <= c.seconds
    BY <1>0, <2>3, <2>4, FieldOrder DEF BeforeMinute, BeforeHour, EarlierDay, SameDay
  <2> QED
    BY <1>0, <2>3, <2>5, FieldOrder
<1>2. CASE next = None
  <2>1. Min(cron.minutes) \in cron.minutes
    BY <1>0, MinIsLeast
  <2>2. /\ first \in Dates /\ SameDay(first, d) /\ first.minutes = Min(cron.minutes)
        /\ first.hours = d.hours /\ first.seconds = d.seconds
    BY <1>0, <2>1 DEF Dates, SameDay
  <2>3. first \in RealDates
    BY <2>2, RealDateFields DEF RealDates, SameDay
  <2>4. MinutesFrom(d) = NextHour(first)
    BY <1>2 DEF MinutesFrom
  <2>5. ~(d.minutes <= c.minutes)
    BY <1>0, <1>2, FindNextIsLeast DEF LastTime
  <2> HIDE DEF first
  <2>6. BeforeHour(d, c)
    BY <1>0, <2>5, FieldOrder DEF BeforeMinute
  <2>7. BeforeHour(first, c)
    BY <2>2, <2>6 DEF BeforeHour, EarlierDay, SameDay
  <2>8. NotAfterHour(NextHour(first), c)
    BY <2>3, <2>7, NoHourBetween
  <2>9. /\ NextHour(first) \in Dates /\ NextHour(first).minutes <= c.minutes
        /\ NextHour(first).seconds <= c.seconds
    BY <1>0, <2>1, <2>2, NextHourTyped, NextHourKeepsMinutes DEF LastTime
  <2>10. NextHour(first).minutes \in Nat /\ NextHour(first).hours \in Nat
    BY <2>9, DateFields
  <2>11. \/ BeforeMinute(NextHour(first), c)
         \/ /\ SameDay(NextHour(first), c) /\ NextHour(first).hours = c.hours
            /\ NextHour(first).minutes = c.minutes /\ NextHour(first).seconds <= c.seconds
    BY <1>0, <2>8, <2>9, <2>10 DEF BeforeMinute, BeforeHour, NotAfterHour
  <2> QED
    BY <1>0, <2>4, <2>9, <2>11, FieldOrder
<1> QED
  BY <1>1, <1>2

\* Once the time is set, only the day matters.
LEMMA TimeSetInOrder ==
  ASSUME cron \in CronModels, NEW d \in Dates, NEW c \in Dates, HoursSet(d), LastTime(c)
  PROVE  NotLater(d, c) <=> ~EarlierDay(c, d)
<1>1. /\ d.hours \in Nat /\ d.minutes \in Nat /\ d.seconds \in Nat
      /\ c.hours \in Nat /\ c.minutes \in Nat /\ c.seconds \in Nat
      /\ d.year \in Int /\ d.month \in Int /\ d.date \in Nat
      /\ c.year \in Int /\ c.month \in Int /\ c.date \in Nat
  BY DateFields
<1>2. d.hours <= c.hours /\ d.minutes <= c.minutes /\ d.seconds <= c.seconds
  BY DEF HoursSet, MinutesSet, SecondsSet, LastTime
<1>3. SameDay(d, c) => NotLater(d, c)
  BY <1>1, <1>2, FieldOrder DEF BeforeMinute, BeforeHour
<1>4. NotLater(d, c) => EarlierDay(d, c) \/ SameDay(d, c)
  BY DEF NotLater, SameMinute
<1>5. EarlierDay(d, c) \/ SameDay(d, c) <=> ~EarlierDay(c, d)
  BY <1>1 DEF EarlierDay, SameDay
<1> QED
  BY <1>3, <1>4, <1>5 DEF NotLater

LEMMA HoursFromInOrder ==
  ASSUME cron \in CronModels, cron.hours # {}, NEW d \in RealDates, NEW c \in RealDates,
         MinutesSet(d), NotLater(d, c), LastTime(c)
  PROVE  NotLater(HoursFrom(d), c)
<1> DEFINE next == findNext(d.hours, cron.hours)
           first == [d EXCEPT !.hours = Min(cron.hours)]
<1>0. /\ d \in Dates /\ c \in Dates /\ d.hours \in Nat /\ c.hours \in Nat
      /\ cron.hours \subseteq Nat /\ cron.hours \subseteq 0..(HoursPerDay - 1)
  BY RealDateFields, DateFields, FieldsAreNumbers
<1>1. HoursFrom(d) \in Dates /\ HoursSet(HoursFrom(d))
  BY <1>0, HoursFromSets
<1>2. EarlierDay(d, c) \/ SameDay(d, c)
  BY DEF NotLater, SameMinute
<1>3. CASE next # None
  <2>1. next \in cron.hours
    BY <1>0, <1>3, FindNextInRange
  <2>2. HoursFrom(d) = [d EXCEPT !.hours = next]
    BY <1>3 DEF HoursFrom
  <2>3. SameDay(HoursFrom(d), d)
    BY <1>0, <2>1, <2>2 DEF Dates, SameDay
  <2>4. ~EarlierDay(c, HoursFrom(d))
    <3>1. /\ d.year \in Int /\ d.month \in Int /\ d.date \in Nat
          /\ c.year \in Int /\ c.month \in Int /\ c.date \in Nat
      BY <1>0, DateFields
    <3> QED
      BY <1>2, <2>3, <3>1 DEF EarlierDay, SameDay
  <2> QED
    BY <1>0, <1>1, <2>4, TimeSetInOrder
<1>4. CASE next = None
  <2>1. Min(cron.hours) \in cron.hours
    BY <1>0, MinIsLeast
  <2>2. first \in Dates /\ SameDay(first, d)
    BY <1>0, <2>1 DEF Dates, SameDay
  <2>3. first \in RealDates
    BY <2>2, RealDateFields DEF RealDates, SameDay
  <2>4. HoursFrom(d) = NextDay(first)
    BY <1>4 DEF HoursFrom
  <2>5. ~(d.hours <= c.hours)
    BY <1>0, <1>4, FindNextIsLeast DEF LastTime
  <2> HIDE DEF first
  <2>6. EarlierDay(d, c)
    BY <1>0, <2>5, FieldOrder DEF BeforeMinute, BeforeHour
  <2>7. EarlierDay(first, c)
    BY <2>2, <2>6 DEF EarlierDay, SameDay
  <2>8. ~EarlierDay(c, NextDay(first))
    BY <2>3, <2>7, NoDayBetween
  <2> QED
    BY <1>0, <1>1, <2>4, <2>8, TimeSetInOrder
<1> QED
  BY <1>3, <1>4


\* The days.
LEMMA MonthFromInOrder ==
  ASSUME cron \in CronModels, cron.months # {}, NEW d \in RealDates, NEW c \in RealDates,
         c.month \in cron.months, ~EarlierDay(c, d)
  PROVE  ~EarlierDay(c, MonthFrom(d))
<1> DEFINE next == findNext(d.month, cron.months)
           first == Min(cron.months)
<1>0. /\ cron.months \subseteq 1..MonthsPerYear /\ cron.months \subseteq Nat
      /\ d \in Dates /\ c \in Dates
      /\ d.year \in Int /\ d.month \in Int /\ d.date \in Nat
      /\ c.year \in Int /\ c.month \in Int /\ c.date \in Nat \ {0}
  BY FieldsAreNumbers, UnitsArePositive, RealDateFields
<1>1. CASE next = d.month
  BY <1>1 DEF MonthFrom
<1>2. CASE next # d.month /\ next # None
  <2>1. next \in cron.months
    BY <1>0, <1>2, FindNextInRange
  <2>2. MonthFrom(d) = [d EXCEPT !.date = 1, !.month = next]
    BY <1>2 DEF MonthFrom
  <2>3. MonthFrom(d).date = 1 /\ MonthFrom(d).month = next /\ MonthFrom(d).year = d.year
    BY <1>0, <2>2 DEF Dates
  <2>4. d.month <= c.month => next <= c.month
    BY <1>0, FindNextIsLeast
  <2>5. next \in Int
    BY <1>0, <2>1
  <2> HIDE DEF next
  <2> QED
    BY <1>0, <2>3, <2>4, <2>5 DEF EarlierDay
<1>3. CASE next # d.month /\ next = None
  <2>1. first \in cron.months /\ first <= c.month /\ first \in Int
    BY <1>0, MinIsLeast
  <2>2. MonthFrom(d) = [d EXCEPT !.date = 1, !.month = first, !.year = d.year + 1]
    BY <1>3 DEF MonthFrom
  <2>3. /\ MonthFrom(d).date = 1 /\ MonthFrom(d).month = first
        /\ MonthFrom(d).year = d.year + 1
    BY <1>0, <2>2 DEF Dates
  <2>4. ~(d.month <= c.month)
    BY <1>0, <1>3, FindNextIsLeast
  <2> HIDE DEF first
  <2> QED
    BY <1>0, <2>1, <2>3, <2>4 DEF EarlierDay
<1> QED
  BY <1>1, <1>2, <1>3

LEMMA TriedDayInOrder ==
  ASSUME cron \in CronModels, ret \in RealDates, DayInMonth, NEW c \in RealDates,
         c.date \in cron.daysOfMonth, ~EarlierDay(c, ret)
  PROVE  ~EarlierDay(c, TriedDay)
<1> DEFINE next == findNext(ret.date, cron.daysOfMonth)
<1>0. /\ cron.daysOfMonth \subseteq Nat
      /\ ret \in Dates /\ c \in Dates
      /\ ret.year \in Int /\ ret.month \in Int /\ ret.date \in Nat
      /\ c.year \in Int /\ c.month \in Int /\ c.date \in Nat
  BY FieldsAreNumbers, RealDateFields
<1>1. next \in cron.daysOfMonth /\ next \in Int
  BY <1>0, FindNextInRange DEF DayInMonth
<1>2. TriedDay.date = next /\ TriedDay.year = ret.year /\ TriedDay.month = ret.month
  BY <1>0 DEF TriedDay, Dates
<1>3. ret.date <= c.date => next <= c.date
  BY <1>0, FindNextIsLeast
<1> HIDE DEF next
<1> QED
  BY <1>0, <1>1, <1>2, <1>3 DEF EarlierDay

LEMMA NextMonthInOrder ==
  ASSUME cron \in CronModels, ret \in RealDates, ~DayInMonth, NEW c \in RealDates,
         c.date \in cron.daysOfMonth, ~EarlierDay(c, ret)
  PROVE  ~EarlierDay(c, NextMonth(ret))
<1> DEFINE next == findNext(ret.date, cron.daysOfMonth)
<1>0. /\ cron.daysOfMonth \subseteq Nat
      /\ ret \in Dates /\ c \in Dates
      /\ ret.year \in Int /\ ret.month \in 1..MonthsPerYear /\ ret.date \in Nat
      /\ c.year \in Int /\ c.month \in 1..MonthsPerYear /\ c.date \in Nat \ {0}
      /\ c.date <= DaysIn(c.year, c.month) /\ DaysIn(ret.year, ret.month) \in Nat
      /\ MonthsPerYear \in Nat
  BY FieldsAreNumbers, RealDateFields, UnitsArePositive
<1>1. ret.date <= c.date => next # None /\ next <= c.date /\ next \in Int
  BY <1>0, FindNextIsLeast, FindNextInRange
<1>2. ~(next # None /\ next <= DaysIn(ret.year, ret.month))
  BY DEF DayInMonth
<1> HIDE DEF next
<1>3. ~(c.year = ret.year /\ c.month = ret.month)
  BY <1>0, <1>1, <1>2 DEF EarlierDay
<1>4. CASE ret.month < MonthsPerYear
  <2>1. /\ NextMonth(ret).year = ret.year /\ NextMonth(ret).month = ret.month + 1
        /\ NextMonth(ret).date = 1
    BY <1>0, <1>4 DEF NextMonth, Dates
  <2> QED
    BY <1>0, <1>3, <2>1 DEF EarlierDay
<1>5. CASE ~(ret.month < MonthsPerYear)
  <2>1. /\ NextMonth(ret).year = ret.year + 1 /\ NextMonth(ret).month = 1
        /\ NextMonth(ret).date = 1
    BY <1>0, <1>5 DEF NextMonth, Dates
  <2> QED
    BY <1>0, <1>3, <1>5, <2>1 DEF EarlierDay
<1> QED
  BY <1>4, <1>5

------------------------------------------------------------------------------
(* The day is the earliest                                                 *)

EInv ==
  /\ pc = "utc" =>
       \A c \in Candidates : NotLater(fromUTC(ret, model.utcOffsetMinutes), c)
  /\ (Searching \/ Found) /\ ret # InvalidDate => \A c \in Candidates : NotLater(ret, c)
  /\ pc \in {"rejected", "disabled"} /\ model.endBy = None => Candidates = {}

\* The candidates are those of one search.
LEMMA SameCandidates ==
  ASSUME UNCHANGED << model, now >> PROVE Candidates' = Candidates /\ farthestYear' = farthestYear
  BY DEF Candidates, LastMatches, Matches, SearchFrom, cron, farthestYear

\* A step of the search that does not pass a candidate.
LEMMA SearchStepEarliest ==
  ASSUME EInv, pc # "new", UNCHANGED << model, now >>,
         pc' \in {"minutes", "hours", "month", "day", "found"},
         \/ ret' = InvalidDate
         \/ \A c \in Candidates : NotLater(ret', c)
  PROVE  EInv'
  BY SameCandidates DEF EInv, Found

LEMMA BeginSearchEarliest == ASSUME CInv, WInv, EInv, BeginSearch PROVE EInv'
<1> DEFINE n == model.utcOffsetMinutes
<1>1. /\ pc # "new" /\ pc' = "utc" /\ ret' = NextSecond(SearchFrom)
      /\ UNCHANGED << model, now, runAt >>
  BY DEF BeginSearch
<1>2. \A c \in Candidates : NotLater(fromUTC(NextSecond(SearchFrom), n), c)
  <2> SUFFICES ASSUME NEW c \in Candidates
               PROVE  NotLater(AddMinutes(NextSecond(SearchFrom), n), c)
    BY DEF fromUTC
  <2> DEFINE y == AddMinutes(c, -n)
  <2>1. c \in RealDates /\ Earlier(AddMinutes(SearchFrom, n), c)
    BY <1>1, CandidateFields DEF fromUTC
  <2>2. /\ n \in Int /\ -n \in Int /\ -(-n) = n
        /\ -MinutesPerDay <= n /\ n <= MinutesPerDay
        /\ -MinutesPerDay <= -n /\ -n <= MinutesPerDay
        /\ SearchFrom \in RealDates /\ NextSecond(SearchFrom) \in RealDates
    BY <1>1, WindowTyped
  <2>3. y \in RealDates
    BY <2>1, <2>2, AddMinutesMoves
  <2>4. NotLater(c, AddMinutes(y, n)) /\ NotLater(AddMinutes(y, n), c)
    BY <2>1, <2>2, ShiftBack
  <2> HIDE DEF y, n
  <2>5. /\ AddMinutes(y, n) \in RealDates /\ AddMinutes(SearchFrom, n) \in RealDates
        /\ AddMinutes(NextSecond(SearchFrom), n) \in RealDates
    BY <2>2, <2>3, AddMinutesMoves
  <2>6. \A e \in RealDates : e \in Dates
    BY DEF RealDates
  <2>7. Earlier(SearchFrom, y)
    <3> SUFFICES ASSUME ~Earlier(SearchFrom, y) PROVE FALSE
      OBVIOUS
    <3>1. NotLater(y, SearchFrom)
      BY <2>2, <2>3, <2>6, OrderIsTotal
    <3>2. NotLater(AddMinutes(y, n), AddMinutes(SearchFrom, n))
      BY <2>2, <2>3, <3>1, ShiftKeepsOrder
    <3>3. NotLater(c, AddMinutes(SearchFrom, n))
      BY <2>1, <2>4, <2>5, <2>6, <3>2, OrderIsTransitive
    <3> QED
      BY <2>1, <2>5, <2>6, <3>3, OrderIsTotal
  <2>8. NotLater(NextSecond(SearchFrom), y)
    BY <2>2, <2>3, <2>7, NoSecondBetween
  <2>9. NotLater(AddMinutes(NextSecond(SearchFrom), n), AddMinutes(y, n))
    BY <2>2, <2>3, <2>8, ShiftKeepsOrder
  <2> QED
    BY <2>1, <2>4, <2>5, <2>6, <2>9, OrderIsTransitive
<1> QED
  BY <1>1, <1>2, SameCandidates DEF EInv, Searching, Found

LEMMA FinishEarliest == ASSUME CInv, WInv, EInv, Finish PROVE EInv'
<1> DEFINE n == model.utcOffsetMinutes
           utc == IF ret = InvalidDate THEN InvalidDate ELSE AddMinutes(ret, -n)
<1>1. /\ pc \in {"found", "month"} /\ UNCHANGED << model, now, ret, runs >>
      /\ IF TooFar(utc) THEN NoDate /\ UNCHANGED runAt ELSE pc' = "queued" /\ runAt' = utc
  BY DEF Finish, SearchOver
<1>2. Candidates' = Candidates
  BY <1>1, SameCandidates
<1>3. CASE TooFar(utc)
  <2>1. pc' \in {"rejected", "disabled"} /\ model' = model /\ ret # InvalidDate /\ utc = AddMinutes(ret, -n)
    BY <1>1, <1>3 DEF NoDate, TooFar
  <2>2. model.endBy = None => Candidates = {}
    <3> SUFFICES ASSUME model.endBy = None, NEW c \in Candidates PROVE FALSE
      OBVIOUS
    <3>1. AddMinutes(ret, -n).year >= farthestYear
      BY <1>3, <2>1 DEF TooFar
    <3>2. ret \in RealDates /\ NotLater(ret, c)
      BY <1>1, <2>1 DEF EInv, WInv, Searching
    <3>3. /\ c \in RealDates /\ AddMinutes(c, -n).year < farthestYear
          /\ -n \in Int /\ -MinutesPerDay <= -n /\ -n <= MinutesPerDay
      BY <1>1, CandidateFields, WindowTyped
    <3> HIDE DEF n
    <3>4. NotLater(AddMinutes(ret, -n), AddMinutes(c, -n))
      BY <3>2, <3>3, ShiftKeepsOrder
    <3>5. AddMinutes(ret, -n).year \in Int /\ AddMinutes(c, -n).year \in Int
      BY <3>2, <3>3, AddMinutesMoves, RealDateFields
    <3>6. farthestYear \in Int
      BY CronAssumption, DateFields DEF CInv, CronTypeOK, farthestYear
    <3> QED
      BY <3>1, <3>3, <3>4, <3>5, <3>6 DEF NotLater, EarlierDay, SameMinute, SameDay
  <2> QED
    BY <1>2, <2>1, <2>2 DEF EInv, Searching, Found
<1>4. CASE ~TooFar(utc)
  BY <1>1, <1>2, <1>4 DEF EInv, Searching, Found
<1> QED
  BY <1>3, <1>4

LEMMA InitEInv == Init => EInv
  BY DEF Init, EInv, Searching, Found

LEMMA NextEInv == CInv /\ WInv /\ EInv /\ [Next]_vars => EInv'
<1> SUFFICES ASSUME CInv, WInv, EInv, [Next]_vars PROVE EInv'
  OBVIOUS
<1>1. CASE CreateSchedule
  BY <1>1 DEF CreateSchedule, EInv, Searching, Found
<1>2. CASE EarlyExit
  BY <1>2 DEF EarlyExit, NoDate, Ended, EInv, Searching, Found
<1>3. CASE BeginSearch
  BY <1>3, BeginSearchEarliest
<1>4. CASE ToZone
  <2>1. /\ pc = "utc" /\ pc' = "seconds" /\ UNCHANGED << model, now >>
        /\ ret' = fromUTC(ret, model.utcOffsetMinutes)
    BY <1>4 DEF ToZone
  <2> QED
    BY <2>1, SameCandidates DEF EInv, Searching, Found
<1>5. CASE FindSeconds \/ FindMinutes \/ FindHours \/ FindMonth
  <2>1. /\ pc \in {"seconds", "minutes", "hours", "month"}
        /\ pc' \in {"minutes", "hours", "month", "day"}
        /\ UNCHANGED << model, now >>
    BY <1>5 DEF FindSeconds, FindMinutes, FindHours, FindMonth, FindTime
  <2>2. ret # InvalidDate
    BY <1>5, <2>1 DEF FindMonth, FindSeconds, FindMinutes, FindHours, FindTime, CInv, CronTypeOK
  <2>3. ret \in RealDates /\ ret \in Dates /\ cron \in CronModels
    BY <2>1, <2>2, ModelTyped DEF WInv, RealDates
  <2>4. \A c \in Candidates :
          /\ c \in RealDates /\ c \in Dates /\ LastTime(c) /\ c.month \in cron.months
          /\ NotLater(ret, c)
    BY <2>1, <2>2, CandidateFields DEF EInv, Searching, RealDates
  <2>5. CASE FindSeconds
    BY <2>1, <2>3, <2>4, <2>5, SecondsFromInOrder, SearchStepEarliest DEF FindSeconds, FindTime
  <2>6. CASE FindMinutes
    <3>1. SecondsSet(ret)
      BY <2>6 DEF FindMinutes, FindTime, CInv, SetSoFar
    <3> QED
      BY <2>1, <2>3, <2>4, <2>6, <3>1, MinutesFromInOrder, SearchStepEarliest DEF FindMinutes, FindTime
  <2>7. CASE FindHours
    <3>1. MinutesSet(ret)
      BY <2>7 DEF FindHours, FindTime, CInv, SetSoFar
    <3> QED
      BY <2>1, <2>3, <2>4, <2>7, <3>1, HoursFromInOrder, SearchStepEarliest DEF FindHours, FindTime
  <2>8. CASE FindMonth
    <3>1. HoursSet(ret)
      BY <2>2, <2>8 DEF FindMonth, CInv, SetSoFar
    <3>2. ret' = InvalidDate \/ (cron.months # {} /\ ret' = MonthFrom(ret))
      BY <2>8 DEF FindMonth
    <3>3. CASE cron.months # {} /\ ret' = MonthFrom(ret)
      <4>1. ret' \in Dates /\ HoursSet(ret')
        BY <2>3, <3>1, <3>3, MonthFromSets DEF MonthSet
      <4>2. \A c \in Candidates : ~EarlierDay(c, ret')
        BY <2>3, <2>4, <3>1, <3>3, MonthFromInOrder, TimeSetInOrder
      <4>3. \A c \in Candidates : NotLater(ret', c)
        BY <2>3, <2>4, <3>3, <4>1, <4>2, TimeSetInOrder
      <4> QED
        BY <2>1, <4>3, SearchStepEarliest
    <3> QED
      BY <2>1, <3>2, <3>3, SearchStepEarliest
  <2> QED
    BY <1>5, <2>5, <2>6, <2>7, <2>8
<1>6. CASE MatchDay \/ SameMonth \/ IncMonth
  <2>1. /\ pc = "day" /\ pc' \in {"day", "month", "found"} /\ UNCHANGED << model, now >>
        /\ \/ DayInMonth /\ ret' = TriedDay
           \/ ~DayInMonth /\ ret' = NextMonth(ret)
    BY <1>6 DEF MatchDay, SameMonth, IncMonth
  <2>2. ret \in RealDates /\ ret \in Dates /\ cron \in CronModels /\ MonthSet(ret) /\ HoursSet(ret)
    BY <2>1, ModelTyped DEF WInv, CInv, CronTypeOK, SetSoFar, MonthSet
  <2>3. \A c \in Candidates :
          /\ c \in RealDates /\ c \in Dates /\ LastTime(c) /\ c.date \in cron.daysOfMonth
          /\ ~EarlierDay(c, ret)
    <3> SUFFICES ASSUME NEW c \in Candidates
                 PROVE  /\ c \in RealDates /\ c \in Dates /\ LastTime(c)
                        /\ c.date \in cron.daysOfMonth /\ ~EarlierDay(c, ret)
      OBVIOUS
    <3>1. c \in RealDates /\ c \in Dates /\ LastTime(c) /\ c.date \in cron.daysOfMonth
      BY <2>1, CandidateFields DEF RealDates
    <3>2. NotLater(ret, c)
      BY <2>1, <2>2, CronAssumption DEF EInv, Searching
    <3> QED
      BY <2>2, <3>1, <3>2, TimeSetInOrder
  <2>4. \A c \in Candidates : ~EarlierDay(c, ret')
    BY <2>1, <2>2, <2>3, TriedDayInOrder, NextMonthInOrder
  <2>5. ret' \in Dates /\ HoursSet(ret')
    <3>1. HoursSet(TriedDay) \/ ~DayInMonth
      BY <2>2, TriedDaySets DEF MonthSet
    <3>2. HoursSet(NextMonth(ret))
      BY <2>2, NextMonthKeepsTime DEF HoursSet, MinutesSet, SecondsSet
    <3> QED
      BY <2>1, <2>2, <3>1, <3>2, TriedDaySets, NextMonthTyped DEF HoursSet, MinutesSet, SecondsSet
  <2>6. \A c \in Candidates : NotLater(ret', c)
    BY <2>2, <2>3, <2>4, <2>5, TimeSetInOrder
  <2> QED
    BY <2>1, <2>6, SearchStepEarliest
<1>7. CASE Finish
  BY <1>7, FinishEarliest
<1>8. CASE TaskStarts
  BY <1>8 DEF TaskStarts, EInv, Searching, Found
<1>9. CASE UNCHANGED vars
  <2>1. UNCHANGED << model, now, ret, pc >>
    BY <1>9 DEF vars
  <2> QED
    BY <2>1, SameCandidates DEF EInv, Searching, Found, fromUTC
<1> QED
  BY <1>1, <1>2, <1>3, <1>4, <1>5, <1>6, <1>7, <1>8, <1>9 DEF Next, nextCronTime

LEMMA MidnightOfDay ==
  ASSUME NEW d \in Dates
  PROVE  /\ Midnight(d) \in Dates /\ SameDay(Midnight(d), d)
         /\ Midnight(d).hours = 0 /\ Midnight(d).minutes = 0 /\ Midnight(d).seconds = 0
<1>1. /\ 0 \in 0..(HoursPerDay - 1) /\ 0 \in 0..(MinutesPerHour - 1)
      /\ 0 \in 0..(SecondsPerMinute - 1)
  BY UnitsArePositive
<1> QED
  BY <1>1 DEF Midnight, Dates, SameDay

\* A date that the search finds lies on the first day with a matching second left, and
\* the search gives up only when its years hold none, for a calendar of any size
\* (next.ts).
THEOREM DaysAreEarliest == Spec => []DayIsEarliest
<1>1. CInv /\ WInv /\ EInv => DayIsEarliest
  <2> SUFFICES ASSUME CInv, WInv, EInv PROVE DayIsEarliest
    OBVIOUS
  <2>1. ASSUME Found, NEW c \in Candidates
        PROVE  ~Earlier(Midnight(c), Midnight(ret))
    <3>1. ret \in RealDates /\ ret \in Dates /\ NotLater(ret, c)
      BY <2>1, CronAssumption DEF Found, EInv, WInv, RealDates
    <3>2. c \in RealDates /\ c \in Dates
      BY <2>1, CandidateFields DEF Found, RealDates
    <3>3. /\ Midnight(c) \in Dates /\ Midnight(ret) \in Dates
          /\ SameDay(Midnight(c), c) /\ SameDay(Midnight(ret), ret)
          /\ MinuteOf(Midnight(c)) = MinuteOf(Midnight(ret))
          /\ Midnight(c).seconds = 0 /\ Midnight(ret).seconds = 0
      BY <3>1, <3>2, MidnightOfDay DEF MinuteOf
    <3>4. EarlierDay(ret, c) \/ SameDay(ret, c)
      BY <3>1 DEF NotLater, SameMinute
    <3>5. NotLater(Midnight(ret), Midnight(c))
      BY <3>3, <3>4 DEF NotLater, SameMinute, EarlierDay, SameDay
    <3> QED
      BY <3>3, <3>5, OrderIsTotal
  <2> QED
    BY <2>1 DEF DayIsEarliest, EInv
<1>2. Spec => [](CInv /\ WInv)
  BY AlwaysCInv, InitWInv, NextWInv, PTL DEF Spec
<1>3. Spec => [](CInv /\ WInv /\ EInv)
  BY <1>2, InitEInv, NextEInv, PTL DEF Spec
<1> QED
  BY <1>1, <1>3, PTL

------------------------------------------------------------------------------
(* Each turn of the search goes forward                                    *)

\* The turn of the outer loop keeps the month or goes to a later one.
LEMMA MonthFromIsForward ==
  ASSUME cron \in CronModels, cron.months # {}, NEW d \in Dates
  PROVE  LaterMonth(d, MonthFrom(d)) \/ InMonth(d, MonthFrom(d))
<1> DEFINE next == findNext(d.month, cron.months)
           first == Min(cron.months)
<1>0. /\ cron.months \subseteq Nat /\ d.month \in Int /\ d.year \in Int
  BY FieldsAreNumbers, UnitsArePositive, DateFields
<1>1. CASE next = d.month
  BY <1>1 DEF MonthFrom, InMonth
<1>2. CASE next # d.month /\ next # None
  <2>1. next \in cron.months /\ next >= d.month
    BY <1>0, <1>2, FindNextInRange
  <2>2. MonthFrom(d) = [d EXCEPT !.date = 1, !.month = next]
    BY <1>2 DEF MonthFrom
  <2>3. MonthFrom(d).month = next /\ MonthFrom(d).year = d.year
    BY <2>2 DEF Dates
  <2> QED
    BY <1>0, <1>2, <2>1, <2>3 DEF LaterMonth
<1>3. CASE next # d.month /\ next = None
  <2>1. MonthFrom(d) = [d EXCEPT !.date = 1, !.month = first, !.year = d.year + 1]
    BY <1>3 DEF MonthFrom
  <2>2. MonthFrom(d).year = d.year + 1
    BY <2>1 DEF Dates
  <2> QED
    BY <1>0, <2>2 DEF LaterMonth
<1> QED
  BY <1>1, <1>2, <1>3

LEMMA NextMonthIsForward == ASSUME NEW d \in Dates PROVE LaterMonth(d, NextMonth(d))
<1>1. d.year \in Int /\ d.month \in 1..MonthsPerYear /\ MonthsPerYear \in Nat
  BY UnitsArePositive, DateFields DEF Dates
<1> QED
  BY <1>1 DEF NextMonth, Dates, LaterMonth

\* A day that is tried is a later one, or the search stays where it is.
LEMMA TriedDayIsForward ==
  ASSUME cron \in CronModels, ret \in Dates, DayInMonth
  PROVE  InMonth(ret, TriedDay) /\ (ret.date < TriedDay.date \/ TriedDay = ret)
<1> DEFINE next == findNext(ret.date, cron.daysOfMonth)
<1>1. ret.date \in Nat \ {0} /\ cron.daysOfMonth \subseteq Nat
  BY FieldsAreNumbers, DateFields
<1>2. next \in Nat /\ next >= ret.date
  BY <1>1, FindNextInRange DEF DayInMonth
<1>3. TriedDay = [ret EXCEPT !.date = next]
  BY DEF TriedDay
<1>4. TriedDay.date = next /\ InMonth(ret, TriedDay)
  BY <1>3 DEF Dates, InMonth
<1>5. next = ret.date => TriedDay = ret
  BY <1>3 DEF Dates
<1> QED
  BY <1>1, <1>2, <1>4, <1>5

LEMMA NextForward ==
  ASSUME CInv, Next, {pc, pc'} \subseteq {"month", "day"}, ret' # InvalidDate,
         ~ UNCHANGED vars
  PROVE  Forward
<1>0. ret \in Dates \cup {InvalidDate} /\ (pc = "day" => ret \in Dates) /\ cron \in CronModels
  BY ModelTyped DEF CInv, CronTypeOK
<1>1. CASE FindMonth
  <2>1. /\ ret \in Dates /\ cron.months # {} /\ ret' = MonthFrom(ret)
        /\ pc = "month" /\ pc' = "day"
    BY <1>0, <1>1 DEF FindMonth
  <2> QED
    BY <1>0, <2>1, MonthFromIsForward DEF Forward, LaterMonth, InMonth
<1>2. CASE SameMonth
  <2>1. /\ ret \in Dates /\ DayInMonth /\ ret' = TriedDay /\ pc = "day" /\ pc' = "day"
        /\ UNCHANGED << model, now, runAt, runs >>
    BY <1>0, <1>2 DEF SameMonth
  <2>2. ret' # ret
    BY <2>1 DEF vars
  <2>3. InMonth(ret, TriedDay) /\ ret.date < TriedDay.date
    BY <1>0, <2>1, <2>2, TriedDayIsForward
  <2> QED
    BY <2>1, <2>3 DEF Forward, InMonth
<1>3. CASE IncMonth
  <2>1. ret \in Dates /\ ret' = NextMonth(ret)
    BY <1>0, <1>3 DEF IncMonth
  <2> QED
    BY <2>1, NextMonthIsForward DEF Forward, LaterMonth
<1>4. ~(CreateSchedule \/ EarlyExit \/ BeginSearch \/ ToZone \/ FindSeconds \/ FindMinutes
        \/ FindHours \/ MatchDay \/ Finish \/ TaskStarts)
  BY DEF CreateSchedule, EarlyExit, BeginSearch, ToZone, FindSeconds, FindMinutes, FindHours,
         FindTime, MatchDay, Finish, NoDate, TaskStarts
<1> QED
  BY <1>1, <1>2, <1>3, <1>4 DEF Next, nextCronTime

\* For a calendar of any size and any expression, each turn of the search for a day
\* goes forward, so that it can last for ever only in a turn that changes nothing
\* (next.ts:87-162).
THEOREM SearchGoesForward == Spec => SearchAdvances
<1>1. CInv /\ [Next]_vars => [{pc, pc'} \subseteq {"month", "day"} /\ ret' # InvalidDate => Forward]_vars
  BY NextForward
<1> QED
  BY <1>1, AlwaysCInv, PTL DEF Spec, SearchAdvances

------------------------------------------------------------------------------
(* The fields of an expression                                             *)

LEMMA Division ==
  ASSUME NEW x \in Int, NEW s \in Nat \ {0}
  PROVE  /\ x = s * (x \div s) + (x % s)
         /\ x \div s \in Int /\ x % s \in 0..(s - 1)
  OBVIOUS

LEMMA Multiples ==
  ASSUME NEW x \in Int, NEW s \in Nat \ {0}
  PROVE  x % s = 0 <=> \E k \in Int : x = k * s
<1>0. /\ x = s * (x \div s) + (x % s)
      /\ x \div s \in Int /\ x % s \in 0..(s - 1)
  BY Division
<1>1. x % s = 0 => \E k \in Int : x = k * s
  BY <1>0
<1>2. ASSUME NEW k \in Int, x = k * s PROVE x % s = 0
  <2> DEFINE q == x \div s   r == x % s
  <2>1. r = (k - q) * s /\ k - q \in Int /\ r \in 0..(s - 1)
    BY <1>0, <1>2
  <2> HIDE DEF q, r
  <2>2. k - q >= 1 => (k - q) * s >= s
    BY <2>1
  <2>3. k - q <= -1 => (k - q) * s <= -s
    BY <2>1
  <2>4. k - q = 0
    BY <2>1, <2>2, <2>3
  <2> QED
    BY <2>1, <2>4 DEF r
<1> QED
  BY <1>1, <1>2

\* Steps counted from a multiple of the step are steps counted from 0.
LEMMA ShiftedMultiple ==
  ASSUME NEW v \in Int, NEW f \in Int, NEW s \in Nat \ {0}, f % s = 0
  PROVE  (v - f) % s = 0 <=> v % s = 0
<1>1. PICK k \in Int : f = k * s
  BY Multiples
<1>2. ASSUME NEW m \in Int, v = m * s PROVE \E j \in Int : v - f = j * s
  <2>1. v - f = (m - k) * s /\ m - k \in Int
    BY <1>1, <1>2
  <2> QED
    BY <2>1
<1>3. ASSUME NEW m \in Int, v - f = m * s PROVE \E j \in Int : v = j * s
  <2>1. v = (m + k) * s /\ m + k \in Int
    BY <1>1, <1>3
  <2> QED
    BY <2>1
<1>4. v - f \in Int
  OBVIOUS
<1> QED
  BY <1>2, <1>3, <1>4, Multiples

LEMMA EndsOfPair ==
  ASSUME NEW a \in Int, NEW b \in Int
  PROVE  /\ Min({a, b}) = IF a <= b THEN a ELSE b
         /\ Max({a, b}) = IF a <= b THEN b ELSE a
  BY DEF Min, Max

\* A field whose ranges begin at multiples of its step is read as it is written.
LEMMA FieldIsAsWritten ==
  ASSUME NEW expr \in FieldExpressions, NEW allowed, allowed \subseteq Nat, allowed # {},
         Aligned(expr, allowed)
  PROVE  convertToModel(expr, allowed) = Written(expr, allowed)
<1>1. /\ expr.star \in BOOLEAN /\ expr.step \in Nat \ {0}
      /\ \A r \in expr.ranges : r[1] \in Int /\ r[2] \in Int
  BY DEF FieldExpressions, Aligned
<1>2. \A v \in allowed : v \in convertToModel(expr, allowed) <=>
        /\ expr.star \/ \E r \in expr.ranges : v \in r[1]..r[2] \/ v \in r[2]..r[1]
        /\ v % expr.step = 0
  BY <1>1 DEF convertToModel, convertStep, convertRange
<1>3. \A v \in allowed : v \in Written(expr, allowed) <=>
        \/ expr.star /\ (v - Min(allowed)) % expr.step = 0
        \/ \E r \in expr.ranges : /\ v \in Min({r[1], r[2]})..Max({r[1], r[2]})
                                  /\ (v - Min({r[1], r[2]})) % expr.step = 0
  BY <1>1 DEF Written
<1>4. convertToModel(expr, allowed) \subseteq allowed /\ Written(expr, allowed) \subseteq allowed
  BY DEF convertToModel, Written
<1>5. ASSUME NEW v \in allowed, expr.star
      PROVE  (v - Min(allowed)) % expr.step = 0 <=> v % expr.step = 0
  <2>1. Min(allowed) \in Int /\ Min(allowed) % expr.step = 0
    <3>1. allowed \subseteq Int
      OBVIOUS
    <3>2. Min(allowed) \in allowed
      BY <3>1, MinIsLeast
    <3> QED
      BY <1>5, <3>1, <3>2 DEF Aligned
  <2>2. v \in Int
    OBVIOUS
  <2> QED
    BY <1>1, <2>1, <2>2, ShiftedMultiple
<1>6. ASSUME NEW v \in allowed, NEW r \in expr.ranges
      PROVE  /\ /\ v \in Min({r[1], r[2]})..Max({r[1], r[2]})
                /\ (v - Min({r[1], r[2]})) % expr.step = 0
             <=>
             /\ v \in r[1]..r[2] \/ v \in r[2]..r[1]
             /\ v % expr.step = 0
  <2> DEFINE first == Min({r[1], r[2]})   last == Max({r[1], r[2]})
  <2>1. /\ first = IF r[1] <= r[2] THEN r[1] ELSE r[2]
        /\ last = IF r[1] <= r[2] THEN r[2] ELSE r[1]
        /\ r[1] \in Int /\ r[2] \in Int
    BY <1>1, EndsOfPair
  <2>2. v \in first..last <=> v \in r[1]..r[2] \/ v \in r[2]..r[1]
    BY <2>1
  <2>3. first \in Int /\ first % expr.step = 0 /\ v \in Int
    BY <2>1 DEF Aligned
  <2>4. (v - first) % expr.step = 0 <=> v % expr.step = 0
    BY <1>1, <2>3, ShiftedMultiple
  <2> QED
    BY <2>2, <2>4
<1> QED
  BY <1>2, <1>3, <1>4, <1>5, <1>6, Zenon

LEMMA SixFields ==
  ASSUME NEW F, NEW star \in F, NEW parts \in Seq(F), Len(parts) \in {5, 6},
         NEW i \in 1..6
  PROVE  (IF Len(parts) = 5 THEN << star >> \o parts ELSE parts)[i] \in F
<1>1. \A j \in 1..Len(parts) : parts[j] \in F
  OBVIOUS
<1>2. CASE Len(parts) = 5
  <2>1. i # 1 => i - 1 \in 1..5 /\ Len(<< star >>) = 1
    OBVIOUS
  <2>2. (<< star >> \o parts)[i] = IF i = 1 THEN star ELSE parts[i - 1]
    <3> DEFINE one == << star >>
    <3>1. one \in Seq(F) /\ Len(one) = 1 /\ one[1] = star
      OBVIOUS
    <3> HIDE DEF one
    <3>2. \A j \in 1..(Len(one) + Len(parts)) :
            (one \o parts)[j] = IF j <= Len(one) THEN one[j] ELSE parts[j - Len(one)]
      BY <3>1, ConcatProperties
    <3>3. (one \o parts)[i] = IF i <= 1 THEN one[i] ELSE parts[i - 1]
      <4>1. i \in 1..(Len(one) + Len(parts))
        BY <1>2, <3>1
      <4>2. (one \o parts)[i] = IF i <= Len(one) THEN one[i] ELSE parts[i - Len(one)]
        BY <3>2, <4>1, Zenon
      <4> QED
        BY <3>1, <4>2, Zenon
    <3>4. i <= 1 => i = 1
      OBVIOUS
    <3> QED
      BY <3>1, <3>3, <3>4 DEF one
  <2>3. (<< star >> \o parts)[i] \in F
    BY <1>1, <1>2, <2>1, <2>2
  <2> QED
    BY <1>2, <2>3
<1>3. CASE Len(parts) = 6
  <2>1. Len(parts) # 5 /\ parts[i] \in F
    BY <1>1, <1>3
  <2> QED
    BY <2>1
<1> QED
  BY <1>2, <1>3

\* The model of a schedule is the one of its expression.
DInv == pc # "new" => cron = cronToModel(model.cronExpression)

LEMMA InitDInv == Init => DInv
  BY DEF Init, DInv

LEMMA NextDInv == DInv /\ [Next]_vars => DInv'
<1> SUFFICES ASSUME DInv, [Next]_vars PROVE DInv'
  OBVIOUS
<1>1. CASE CreateSchedule
  BY <1>1 DEF CreateSchedule, DInv, cron
<1>2. CASE nextCronTime \/ TaskStarts \/ UNCHANGED vars
  <2>1. UNCHANGED model /\ (pc' # "new" => pc # "new")
    BY <1>2 DEF nextCronTime, TaskStarts, vars, EarlyExit, NoDate, BeginSearch, ToZone, FindTime,
       FindSeconds, FindMinutes, FindHours, FindMonth, MatchDay, SameMonth, IncMonth, Finish,
       SearchOver
  <2> QED
    BY <2>1 DEF DInv, cron
<1> QED
  BY <1>1, <1>2 DEF Next

\* Each field of a schedule allows the values that a reader of its expression expects,
\* when steps are counted from multiples of the step (expression.ts).
THEOREM ReadAsWritten == Spec => []FieldsAsWritten
<1>1. CInv /\ DInv => FieldsAsWritten
  <2> SUFFICES ASSUME CInv, DInv, pc # "new" PROVE FieldsAsWritten
    BY DEF FieldsAsWritten
  <2> DEFINE parts == model.cronExpression
             six == IF Len(parts) = 5 THEN << Star >> \o parts ELSE parts
  <2>1. parts \in Seq(FieldExpressions) /\ Len(parts) \in {5, 6}
    BY CronAssumption DEF CInv, Models, Expressions
  <2>2. Star \in FieldExpressions
    BY DEF Star, FieldExpressions
  <2>4. \A i \in 1..6 : six[i] \in FieldExpressions
    BY <2>1, <2>2, SixFields
  <2>5. /\ cron.seconds     = convertToModel(six[1], ALLOWED_RANGES.seconds)
        /\ cron.minutes     = convertToModel(six[2], ALLOWED_RANGES.minutes)
        /\ cron.hours       = convertToModel(six[3], ALLOWED_RANGES.hours)
        /\ cron.daysOfMonth = convertToModel(six[4], ALLOWED_RANGES.daysOfMonth)
        /\ cron.months      = convertToModel(six[5], ALLOWED_RANGES.months)
        /\ cron.daysOfWeek  = handleSundays(convertToModel(six[6], ALLOWED_RANGES.daysOfWeek))
    <3>1. cron = cronToModel(parts)
      BY DEF DInv
    <3> HIDE DEF parts
    <3> QED
      BY <3>1 DEF cronToModel
  <2>6. LongestMonth \in Nat \ {0}
    <3>1. 1 \in 1..Len(MonthDays) /\ 1 \in 1..MonthsPerYear
      BY CalendarAssumption
    <3>2. MonthDays[1] \in [1..MonthsPerYear -> 1..LongestMonth]
      BY <3>1, CalendarAssumption
    <3>3. MonthDays[1][1] \in 1..LongestMonth
      BY <3>1, <3>2
    <3> QED
      BY <3>3, CalendarAssumption
  <2>7. \A field \in {"seconds", "minutes", "hours", "daysOfMonth", "months", "daysOfWeek"} :
          ALLOWED_RANGES[field] \subseteq Nat /\ ALLOWED_RANGES[field] # {}
    <3>1. \A n \in Nat : 0..n \subseteq Nat /\ 0 \in 0..n
      OBVIOUS
    <3>2. \A n \in Nat \ {0} : 1..n \subseteq Nat /\ 1 \in 1..n
      OBVIOUS
    <3>3. /\ SecondsPerMinute - 1 \in Nat /\ MinutesPerHour - 1 \in Nat
          /\ HoursPerDay - 1 \in Nat /\ MonthsPerYear \in Nat \ {0} /\ DaysPerWeek \in Nat
      BY UnitsArePositive
    <3>4. /\ ALLOWED_RANGES["seconds"]     = 0..(SecondsPerMinute - 1)
          /\ ALLOWED_RANGES["minutes"]     = 0..(MinutesPerHour - 1)
          /\ ALLOWED_RANGES["hours"]       = 0..(HoursPerDay - 1)
          /\ ALLOWED_RANGES["daysOfMonth"] = 1..LongestMonth
          /\ ALLOWED_RANGES["months"]      = 1..MonthsPerYear
          /\ ALLOWED_RANGES["daysOfWeek"]  = 0..DaysPerWeek
      BY DEF ALLOWED_RANGES
    <3>5. /\ 0..(SecondsPerMinute - 1) \subseteq Nat /\ 0..(SecondsPerMinute - 1) # {}
          /\ 0..(MinutesPerHour - 1) \subseteq Nat /\ 0..(MinutesPerHour - 1) # {}
          /\ 0..(HoursPerDay - 1) \subseteq Nat /\ 0..(HoursPerDay - 1) # {}
          /\ 1..LongestMonth \subseteq Nat /\ 1..LongestMonth # {}
          /\ 1..MonthsPerYear \subseteq Nat /\ 1..MonthsPerYear # {}
          /\ 0..DaysPerWeek \subseteq Nat /\ 0..DaysPerWeek # {}
      BY <2>6, <3>1, <3>2, <3>3
    <3> QED
      BY <3>4, <3>5, Zenon
  <2> HIDE DEF six
  <2>8. \A i \in 1..6, field \in {"seconds", "minutes", "hours", "daysOfMonth", "months", "daysOfWeek"} :
          Aligned(six[i], ALLOWED_RANGES[field]) =>
            convertToModel(six[i], ALLOWED_RANGES[field]) = Written(six[i], ALLOWED_RANGES[field])
    BY <2>4, <2>7, FieldIsAsWritten
  <2>9. /\ Aligned(six[1], ALLOWED_RANGES["seconds"]) => cron["seconds"] = Written(six[1], ALLOWED_RANGES["seconds"])
        /\ Aligned(six[2], ALLOWED_RANGES["minutes"]) => cron["minutes"] = Written(six[2], ALLOWED_RANGES["minutes"])
        /\ Aligned(six[3], ALLOWED_RANGES["hours"]) => cron["hours"] = Written(six[3], ALLOWED_RANGES["hours"])
        /\ Aligned(six[4], ALLOWED_RANGES["daysOfMonth"]) =>
             cron["daysOfMonth"] = Written(six[4], ALLOWED_RANGES["daysOfMonth"])
        /\ Aligned(six[5], ALLOWED_RANGES["months"]) => cron["months"] = Written(six[5], ALLOWED_RANGES["months"])
    <3>1. /\ 1 \in 1..6 /\ 2 \in 1..6 /\ 3 \in 1..6 /\ 4 \in 1..6 /\ 5 \in 1..6
      OBVIOUS
    <3> QED
      BY <2>5, <2>8, <3>1, Zenon
  <2>10. ASSUME Aligned(six[6], ALLOWED_RANGES.daysOfWeek), NEW d \in 0..(DaysPerWeek - 1)
         PROVE  d \in cron.daysOfWeek <=>
                  \/ d \in Written(six[6], ALLOWED_RANGES.daysOfWeek)
                  \/ d = 0 /\ DaysPerWeek \in Written(six[6], ALLOWED_RANGES.daysOfWeek)
    <3> DEFINE days == Written(six[6], ALLOWED_RANGES.daysOfWeek)
    <3>1. cron.daysOfWeek = handleSundays(days)
      <4>1. 6 \in 1..6
        OBVIOUS
      <4> QED
        BY <2>5, <2>8, <2>10, <4>1, Zenon
    <3>2. DaysPerWeek \in Nat \ {0}
      BY UnitsArePositive
    <3> HIDE DEF days
    <3>3. d \in handleSundays(days) <=> d \in days \/ (d = 0 /\ DaysPerWeek \in days)
      BY <2>10, <3>2 DEF handleSundays
    <3> QED
      BY <3>1, <3>3 DEF days
  <2> QED
    BY <2>9, <2>10, Zenon DEF FieldsAsWritten, six
<1> QED
  BY <1>1, AlwaysCInv, InitDInv, NextDInv, PTL DEF Spec

=============================================================================
