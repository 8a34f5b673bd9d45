---------------------------- MODULE CalendarProofs ----------------------------
(***************************************************************************)
(* For a calendar of any size: what the carries of a date return, that they *)
(* lead to a later date and pass nothing over, and that a shift keeps the   *)
(* order of dates and can be taken back.                                    *)
(***************************************************************************)
EXTENDS Calendar, TLAPS

\* The sizes of the units.
LEMMA UnitsArePositive ==
  /\ SecondsPerMinute \in Nat \ {0}
  /\ MinutesPerHour \in Nat \ {0}
  /\ HoursPerDay \in Nat \ {0}
  /\ DaysPerWeek \in Nat \ {0}
  /\ MonthsPerYear \in Nat \ {0}
  BY CalendarAssumption

\* A month of any year has a length.
LEMMA MonthHasLength ==
  ASSUME NEW year \in Int, NEW month \in 1..MonthsPerYear
  PROVE  DaysIn(year, month) \in Nat \ {0}
<1> DEFINE L == Len(MonthDays)
<1>1. L \in Nat \ {0}
  BY CalendarAssumption
<1>2. (year % L) + 1 \in 1..L
  BY <1>1
<1>3. MonthDays[(year % L) + 1] \in [1..MonthsPerYear -> 1..LongestMonth]
  BY <1>2, CalendarAssumption
<1> QED
  BY <1>3, CalendarAssumption DEF DaysIn

\* The fields of a date.
LEMMA DateFields ==
  ASSUME NEW d \in Dates
  PROVE  /\ d.year \in Int /\ d.month \in Int /\ 1 <= d.month /\ d.month <= MonthsPerYear
         /\ d.date \in Nat \ {0}
         /\ d.hours \in 0..(HoursPerDay - 1)
         /\ d.minutes \in 0..(MinutesPerHour - 1)
         /\ d.seconds \in 0..(SecondsPerMinute - 1)
  BY UnitsArePositive DEF Dates

\* A date with another day is a date.
LEMMA OtherDay ==
  ASSUME NEW d \in Dates, NEW year \in Int, NEW month \in 1..MonthsPerYear, NEW date \in Nat \ {0}
  PROVE  /\ [d EXCEPT !.date = date, !.month = month] \in Dates
         /\ [d EXCEPT !.date = date, !.month = month, !.year = year] \in Dates
  BY DEF Dates

\* So is the first day of another month.
LEMMA FirstOfMonth ==
  ASSUME NEW d \in Dates, NEW year \in Int, NEW month \in 1..MonthsPerYear
  PROVE  /\ [d EXCEPT !.date = 1, !.month = month] \in Dates
         /\ [d EXCEPT !.date = 1, !.month = month, !.year = year] \in Dates
<1>1. 1 \in Nat \ {0}
  OBVIOUS
<1> QED
  BY <1>1, OtherDay, Zenon

\* Each carry of a setter gives a date.
LEMMA NextMonthTyped == ASSUME NEW d \in Dates PROVE NextMonth(d) \in Dates
<1>1. CASE d.month < MonthsPerYear
  <2>1. d.month + 1 \in 1..MonthsPerYear
    BY <1>1, DateFields, UnitsArePositive
  <2>2. [d EXCEPT !.date = 1, !.month = d.month + 1] \in Dates
    BY <2>1, DateFields, FirstOfMonth
  <2> QED
    BY <1>1, <2>2 DEF NextMonth
<1>2. CASE ~(d.month < MonthsPerYear)
  <2>1. 1 \in 1..MonthsPerYear /\ d.year + 1 \in Int
    BY DateFields, UnitsArePositive
  <2>2. [d EXCEPT !.date = 1, !.month = 1, !.year = d.year + 1] \in Dates
    BY <2>1, FirstOfMonth
  <2> QED
    BY <1>2, <2>2 DEF NextMonth
<1> QED
  BY <1>1, <1>2

LEMMA NextDayTyped == ASSUME NEW d \in Dates PROVE NextDay(d) \in Dates
<1>1. DaysIn(d.year, d.month) \in Nat
  BY MonthHasLength DEF Dates
<1> QED
  BY <1>1, NextMonthTyped DEF NextDay, Dates

LEMMA PreviousDayTyped == ASSUME NEW d \in Dates PROVE PreviousDay(d) \in Dates
<1>1. CASE d.date > 1
  BY <1>1 DEF PreviousDay, Dates
<1>2. CASE ~(d.date > 1) /\ d.month > 1
  <2>1. d.month - 1 \in 1..MonthsPerYear
    BY <1>2, DateFields, UnitsArePositive
  <2>2. DaysIn(d.year, d.month - 1) \in Nat \ {0}
    BY <2>1, DateFields, MonthHasLength
  <2>3. PreviousDay(d) = [d EXCEPT !.month = @ - 1, !.date = DaysIn(d.year, d.month - 1)]
    BY <1>2 DEF PreviousDay
  <2> QED
    BY <2>1, <2>2, <2>3 DEF Dates
<1>3. CASE ~(d.date > 1) /\ ~(d.month > 1)
  <2>1. MonthsPerYear \in 1..MonthsPerYear /\ d.year - 1 \in Int
    BY DateFields, UnitsArePositive
  <2>2. DaysIn(d.year - 1, MonthsPerYear) \in Nat \ {0}
    BY <2>1, MonthHasLength
  <2>3. PreviousDay(d) = [d EXCEPT !.year = @ - 1, !.month = MonthsPerYear,
                                   !.date = DaysIn(d.year - 1, MonthsPerYear)]
    BY <1>3 DEF PreviousDay
  <2> QED
    BY <2>1, <2>2, <2>3 DEF Dates
<1> QED
  BY <1>1, <1>2, <1>3

LEMMA NextHourTyped == ASSUME NEW d \in Dates PROVE NextHour(d) \in Dates
<1>1. [d EXCEPT !.hours = 0] \in Dates
  BY UnitsArePositive DEF Dates
<1> QED
  BY <1>1, NextDayTyped, UnitsArePositive DEF NextHour, Dates

LEMMA NextMinuteTyped == ASSUME NEW d \in Dates PROVE NextMinute(d) \in Dates
<1>1. [d EXCEPT !.minutes = 0] \in Dates
  BY UnitsArePositive DEF Dates
<1> QED
  BY <1>1, NextHourTyped, UnitsArePositive DEF NextMinute, Dates

LEMMA NextSecondTyped == ASSUME NEW d \in Dates PROVE NextSecond(d) \in Dates
<1>1. [d EXCEPT !.seconds = 0] \in Dates
  BY UnitsArePositive DEF Dates
<1> QED
  BY <1>1, NextMinuteTyped, UnitsArePositive DEF NextSecond, Dates

LEMMA AddMinutesTyped ==
  ASSUME NEW d \in Dates, NEW n \in Int
  PROVE  AddMinutes(d, n) \in Dates
<1> DEFINE total == d.hours * MinutesPerHour + d.minutes + n
           inDay == HoursPerDay * MinutesPerHour
           day   == IF total < 0 THEN PreviousDay(d)
                    ELSE IF total >= inDay THEN NextDay(d) ELSE d
           rest  == total % inDay
<1>1. day \in Dates
  BY PreviousDayTyped, NextDayTyped
<1>2. inDay \in Nat \ {0} /\ total \in Int
  BY UnitsArePositive DEF Dates
<1>3. rest \in 0..(inDay - 1)
  BY <1>2
<1>4. rest % MinutesPerHour \in 0..(MinutesPerHour - 1)
  BY <1>3, UnitsArePositive
<1>5. rest \div MinutesPerHour \in 0..(HoursPerDay - 1)
  BY <1>3, UnitsArePositive
<1>6. AddMinutes(d, n) = [day EXCEPT !.hours = rest \div MinutesPerHour, !.minutes = rest % MinutesPerHour]
  BY DEF AddMinutes
<1> QED
  BY <1>1, <1>4, <1>5, <1>6 DEF Dates

------------------------------------------------------------------------------
(* What the carries leave alone *)

LEMMA NextMonthKeepsTime ==
  ASSUME NEW d \in Dates
  PROVE  /\ NextMonth(d).hours = d.hours
         /\ NextMonth(d).minutes = d.minutes
         /\ NextMonth(d).seconds = d.seconds
  BY DEF NextMonth, Dates

LEMMA NextDayKeepsTime ==
  ASSUME NEW d \in Dates
  PROVE  /\ NextDay(d).hours = d.hours
         /\ NextDay(d).minutes = d.minutes
         /\ NextDay(d).seconds = d.seconds
  BY NextMonthKeepsTime DEF NextDay, Dates

LEMMA NextHourKeepsMinutes ==
  ASSUME NEW d \in Dates
  PROVE  /\ NextHour(d).minutes = d.minutes
         /\ NextHour(d).seconds = d.seconds
<1> DEFINE e == [d EXCEPT !.hours = 0]
<1>1. e \in Dates /\ e.minutes = d.minutes /\ e.seconds = d.seconds
  BY UnitsArePositive DEF Dates
<1>2. NextDay(e).minutes = d.minutes /\ NextDay(e).seconds = d.seconds
  BY <1>1, NextDayKeepsTime
<1>3. CASE d.hours + 1 < HoursPerDay
  BY <1>3 DEF NextHour, Dates
<1>4. CASE ~(d.hours + 1 < HoursPerDay)
  BY <1>2, <1>4 DEF NextHour
<1> QED
  BY <1>3, <1>4

LEMMA NextMinuteKeepsSeconds ==
  ASSUME NEW d \in Dates
  PROVE  NextMinute(d).seconds = d.seconds
<1> DEFINE e == [d EXCEPT !.minutes = 0]
<1>1. e \in Dates /\ e.seconds = d.seconds
  BY UnitsArePositive DEF Dates
<1>2. NextHour(e).seconds = d.seconds
  BY <1>1, NextHourKeepsMinutes
<1>3. CASE d.minutes + 1 < MinutesPerHour
  BY <1>3 DEF NextMinute, Dates
<1>4. CASE ~(d.minutes + 1 < MinutesPerHour)
  BY <1>2, <1>4 DEF NextMinute
<1> QED
  BY <1>3, <1>4

------------------------------------------------------------------------------
(* The order of dates                                                      *)

SameDay(d, e) == d.year = e.year /\ d.month = e.month /\ d.date = e.date
EarlierDay(d, e) ==
  \/ d.year < e.year
  \/ d.year = e.year /\ d.month < e.month
  \/ d.year = e.year /\ d.month = e.month /\ d.date < e.date

\* The minute of the day.
MinuteOf(d) == d.hours * MinutesPerHour + d.minutes

SameMinute(d, e) == SameDay(d, e) /\ MinuteOf(d) = MinuteOf(e)

NotLater(d, e) ==
  \/ EarlierDay(d, e)
  \/ SameDay(d, e) /\ MinuteOf(d) < MinuteOf(e)
  \/ SameMinute(d, e) /\ d.seconds <= e.seconds

\* The minute of the day orders the hours and the minutes.
LEMMA MinuteOrder ==
  ASSUME NEW d \in Dates, NEW e \in Dates
  PROVE  /\ MinuteOf(d) \in 0..(HoursPerDay * MinutesPerHour - 1)
         /\ d.hours < e.hours => MinuteOf(d) < MinuteOf(e)
         /\ d.hours = e.hours => (MinuteOf(d) < MinuteOf(e) <=> d.minutes < e.minutes)
         /\ d.hours = e.hours => (MinuteOf(d) = MinuteOf(e) <=> d.minutes = e.minutes)
<1>1. /\ MinutesPerHour \in Nat \ {0} /\ HoursPerDay \in Nat \ {0}
      /\ d.hours \in Nat /\ d.hours < HoursPerDay /\ e.hours \in Nat
      /\ d.minutes \in Nat /\ d.minutes < MinutesPerHour /\ e.minutes \in Nat
  BY UnitsArePositive, DateFields
<1>2. \A a, b, m \in Nat : a < b => a * m + m <= b * m
  <2> SUFFICES ASSUME NEW a \in Nat, NEW b \in Nat, NEW m \in Nat, a < b
               PROVE  a * m + m <= b * m
    OBVIOUS
  <2>1. PICK k \in Nat : b = a + 1 + k
    <3>1. b - a - 1 \in Nat /\ b = a + 1 + (b - a - 1)
      OBVIOUS
    <3> QED
      BY <3>1
  <2>2. b * m = a * m + m + k * m /\ k * m \in Nat /\ a * m \in Nat
    BY <2>1
  <2> QED
    BY <2>2
<1>3. /\ d.hours * MinutesPerHour \in Nat /\ e.hours * MinutesPerHour \in Nat
      /\ HoursPerDay * MinutesPerHour \in Nat
  BY <1>1
<1>4. d.hours * MinutesPerHour + MinutesPerHour <= HoursPerDay * MinutesPerHour
  BY <1>1, <1>2
<1>5. d.hours < e.hours =>
        d.hours * MinutesPerHour + MinutesPerHour <= e.hours * MinutesPerHour
  BY <1>1, <1>2
<1>6. MinuteOf(d) \in 0..(HoursPerDay * MinutesPerHour - 1)
  BY <1>1, <1>3, <1>4 DEF MinuteOf
<1>7. d.hours < e.hours => MinuteOf(d) < MinuteOf(e)
  BY <1>1, <1>3, <1>5 DEF MinuteOf
<1>8. d.hours = e.hours => (MinuteOf(d) < MinuteOf(e) <=> d.minutes < e.minutes)
  BY <1>1, <1>3 DEF MinuteOf
<1>9. d.hours = e.hours => (MinuteOf(d) = MinuteOf(e) <=> d.minutes = e.minutes)
  <2>1. \A n \in Nat : n + d.minutes = n + e.minutes <=> d.minutes = e.minutes
    BY <1>1
  <2> QED
    BY <1>3, <2>1, Zenon DEF MinuteOf
<1> QED
  BY <1>6, <1>7, <1>8, <1>9

\* Earlier is the order of days, minutes and seconds.
LEMMA EarlierOrder ==
  ASSUME NEW d \in Dates, NEW e \in Dates
  PROVE  Earlier(d, e) <=> \/ EarlierDay(d, e)
                           \/ SameDay(d, e) /\ MinuteOf(d) < MinuteOf(e)
                           \/ SameMinute(d, e) /\ d.seconds < e.seconds
<1> DEFINE P(i) == /\ Fields(d)[i] < Fields(e)[i]
                   /\ \A j \in 1..(i - 1) : Fields(d)[j] = Fields(e)[j]
<1>1. /\ P(1) <=> d.year < e.year
      /\ P(2) <=> d.month < e.month /\ d.year = e.year
      /\ P(3) <=> d.date < e.date /\ d.year = e.year /\ d.month = e.month
  BY DEF Fields
<1>2. /\ P(4) <=> d.hours < e.hours /\ SameDay(d, e)
      /\ P(5) <=> d.minutes < e.minutes /\ SameDay(d, e) /\ d.hours = e.hours
      /\ P(6) <=> d.seconds < e.seconds /\ SameDay(d, e) /\ d.hours = e.hours
                    /\ d.minutes = e.minutes
  BY DEF Fields, SameDay
<1>3. Earlier(d, e) <=> P(1) \/ P(2) \/ P(3) \/ P(4) \/ P(5) \/ P(6)
  <2> HIDE DEF P
  <2>1. Earlier(d, e) <=> \E i \in 1..6 : P(i)
    BY DEF Earlier, P
  <2> QED
    BY <2>1
<1> HIDE DEF P
<1>4. /\ MinuteOf(d) \in Nat /\ MinuteOf(e) \in Nat
      /\ d.hours \in Nat /\ e.hours \in Nat
  BY MinuteOrder, DateFields
<1>5. d.hours < e.hours => MinuteOf(d) < MinuteOf(e)
  BY MinuteOrder
<1>6. e.hours < d.hours => MinuteOf(e) < MinuteOf(d)
  BY MinuteOrder
<1>7. d.hours = e.hours => /\ MinuteOf(d) < MinuteOf(e) <=> d.minutes < e.minutes
                           /\ MinuteOf(d) = MinuteOf(e) <=> d.minutes = e.minutes
  BY MinuteOrder
<1>8. MinuteOf(d) < MinuteOf(e) <=>
        \/ d.hours < e.hours
        \/ d.hours = e.hours /\ d.minutes < e.minutes
  BY <1>4, <1>5, <1>6, <1>7
<1>9. MinuteOf(d) = MinuteOf(e) <=> d.hours = e.hours /\ d.minutes = e.minutes
  BY <1>4, <1>5, <1>6, <1>7
<1> QED
  BY <1>1, <1>2, <1>3, <1>8, <1>9 DEF EarlierDay, SameMinute, SameDay

LEMMA OrderIsTotal ==
  ASSUME NEW d \in Dates, NEW e \in Dates
  PROVE  Earlier(d, e) <=> ~NotLater(e, d)
<1>1. /\ MinuteOf(d) \in Nat /\ MinuteOf(e) \in Nat
      /\ d.year \in Int /\ d.month \in Int /\ d.date \in Nat /\ d.seconds \in Nat
      /\ e.year \in Int /\ e.month \in Int /\ e.date \in Nat /\ e.seconds \in Nat
  BY MinuteOrder, DateFields
<1> QED
  BY <1>1, EarlierOrder DEF NotLater, EarlierDay, SameDay, SameMinute

LEMMA OrderIsTransitive ==
  ASSUME NEW d \in Dates, NEW e \in Dates, NEW f \in Dates
  PROVE  /\ NotLater(d, e) /\ NotLater(e, f) => NotLater(d, f)
         /\ Earlier(d, e) /\ NotLater(e, f) => Earlier(d, f)
         /\ NotLater(d, e) /\ Earlier(e, f) => Earlier(d, f)
<1>1. /\ MinuteOf(d) \in Nat /\ MinuteOf(e) \in Nat /\ MinuteOf(f) \in Nat
      /\ d.year \in Int /\ d.month \in Int /\ d.date \in Nat /\ d.seconds \in Nat
      /\ e.year \in Int /\ e.month \in Int /\ e.date \in Nat /\ e.seconds \in Nat
      /\ f.year \in Int /\ f.month \in Int /\ f.date \in Nat /\ f.seconds \in Nat
  BY MinuteOrder, DateFields
<1>2. NotLater(d, e) /\ NotLater(e, f) => NotLater(d, f)
  BY <1>1 DEF NotLater, EarlierDay, SameDay, SameMinute
<1>3. NotLater(e, f) /\ NotLater(f, d) => NotLater(e, d)
  BY <1>1 DEF NotLater, EarlierDay, SameDay, SameMinute
<1>4. NotLater(f, d) /\ NotLater(d, e) => NotLater(f, e)
  BY <1>1 DEF NotLater, EarlierDay, SameDay, SameMinute
<1> QED
  BY <1>2, <1>3, <1>4, OrderIsTotal

LEMMA OrderIsReflexive ==
  ASSUME NEW d \in Dates PROVE NotLater(d, d)
<1>1. d.seconds \in Nat
  BY DateFields
<1> QED
  BY <1>1 DEF NotLater, SameMinute, SameDay

------------------------------------------------------------------------------
(* A carry leads to a later date                                           *)

LEMMA RealDateFields ==
  ASSUME NEW d \in RealDates
  PROVE  /\ d \in Dates
         /\ d.year \in Int /\ d.month \in 1..MonthsPerYear /\ d.date \in Nat \ {0}
         /\ DaysIn(d.year, d.month) \in Nat \ {0} /\ d.date <= DaysIn(d.year, d.month)
         /\ MinuteOf(d) \in Nat /\ d.seconds \in Nat
<1>1. d \in Dates
  BY DEF RealDates
<1>2. d.year \in Int /\ d.month \in 1..MonthsPerYear
  BY <1>1 DEF Dates
<1>3. DaysIn(d.year, d.month) \in Nat \ {0}
  BY <1>2, MonthHasLength
<1>4. MinuteOf(d) \in Nat /\ d.seconds \in Nat
  BY <1>1, MinuteOrder, DateFields
<1> QED
  BY <1>1, <1>2, <1>3, <1>4, DateFields DEF RealDates

\* The first of a month is a day that exists.
LEMMA FirstIsReal ==
  ASSUME NEW d \in Dates, d.date = 1
  PROVE  d \in RealDates
<1>1. DaysIn(d.year, d.month) \in Nat \ {0}
  BY MonthHasLength DEF Dates
<1> QED
  BY <1>1 DEF RealDates

LEMMA NextMonthIsLater ==
  ASSUME NEW d \in Dates
  PROVE  /\ NextMonth(d) \in RealDates
         /\ EarlierDay(d, NextMonth(d))
         /\ MinuteOf(NextMonth(d)) = MinuteOf(d) /\ NextMonth(d).seconds = d.seconds
<1>1. /\ d.year \in Int /\ d.month \in 1..MonthsPerYear /\ MonthsPerYear \in Nat
      /\ NextMonth(d) \in Dates
  BY NextMonthTyped, UnitsArePositive DEF Dates
<1>2. NextMonth(d).date = 1
  BY DEF NextMonth, Dates
<1>3. EarlierDay(d, NextMonth(d))
  BY <1>1 DEF NextMonth, Dates, EarlierDay
<1>4. MinuteOf(NextMonth(d)) = MinuteOf(d)
  BY NextMonthKeepsTime DEF MinuteOf
<1> QED
  BY <1>1, <1>2, <1>3, <1>4, FirstIsReal, NextMonthKeepsTime

LEMMA NextDayIsLater ==
  ASSUME NEW d \in RealDates
  PROVE  /\ NextDay(d) \in RealDates
         /\ EarlierDay(d, NextDay(d))
         /\ MinuteOf(NextDay(d)) = MinuteOf(d) /\ NextDay(d).seconds = d.seconds
<1>1. d \in Dates /\ d.date \in Nat /\ DaysIn(d.year, d.month) \in Nat
  BY RealDateFields
<1>2. CASE d.date < DaysIn(d.year, d.month)
  <2>1. NextDay(d) = [d EXCEPT !.date = @ + 1]
    BY <1>2 DEF NextDay
  <2>2. NextDay(d) \in Dates
    BY <1>1, NextDayTyped
  <2>3. /\ NextDay(d).year = d.year /\ NextDay(d).month = d.month
        /\ NextDay(d).date = d.date + 1
    BY <1>1, <2>1 DEF Dates
  <2>4. NextDay(d) \in RealDates
    BY <1>1, <1>2, <2>2, <2>3 DEF RealDates
  <2>5. EarlierDay(d, NextDay(d))
    BY <1>1, <2>3 DEF EarlierDay
  <2>6. MinuteOf(NextDay(d)) = MinuteOf(d) /\ NextDay(d).seconds = d.seconds
    BY <1>1, NextDayKeepsTime DEF MinuteOf
  <2> QED
    BY <2>4, <2>5, <2>6
<1>3. CASE ~(d.date < DaysIn(d.year, d.month))
  BY <1>1, <1>3, NextMonthIsLater DEF NextDay
<1> QED
  BY <1>2, <1>3

LEMMA PreviousDayIsEarlier ==
  ASSUME NEW d \in RealDates
  PROVE  /\ PreviousDay(d) \in RealDates
         /\ SameDay(NextDay(PreviousDay(d)), d)
<1> DEFINE e == PreviousDay(d)
<1>1. /\ d \in Dates /\ d.year \in Int /\ d.month \in 1..MonthsPerYear
      /\ d.date \in Nat \ {0} /\ MonthsPerYear \in Nat \ {0} /\ e \in Dates
      /\ d.date <= DaysIn(d.year, d.month)
      /\ DaysIn(d.year, d.month) \in Nat
  BY RealDateFields, PreviousDayTyped, UnitsArePositive
<1>2. CASE d.date > 1
  <2>1. e = [d EXCEPT !.date = @ - 1]
    BY <1>2 DEF PreviousDay
  <2>2. e.year = d.year /\ e.month = d.month /\ e.date = d.date - 1
    BY <1>1, <2>1 DEF Dates
  <2>3. e.date < DaysIn(e.year, e.month)
    BY <1>1, <2>2
  <2>4. e \in RealDates
    BY <1>1, <2>2, <2>3 DEF RealDates
  <2>5. NextDay(e) = [e EXCEPT !.date = @ + 1]
    BY <2>3 DEF NextDay
  <2>6. SameDay(NextDay(e), d)
    BY <1>1, <2>2, <2>5 DEF SameDay, Dates
  <2> QED
    BY <2>4, <2>6
<1>3. CASE ~(d.date > 1) /\ d.month > 1
  <2>1. e = [d EXCEPT !.month = @ - 1, !.date = DaysIn(d.year, d.month - 1)]
    BY <1>3 DEF PreviousDay
  <2>2. e.year = d.year /\ e.month = d.month - 1 /\ e.date = DaysIn(e.year, e.month)
    BY <1>1, <2>1 DEF Dates
  <2>3. DaysIn(e.year, e.month) \in Nat
    BY <1>1, MonthHasLength DEF Dates
  <2>4. e \in RealDates
    BY <1>1, <2>2, <2>3 DEF RealDates
  <2>5. NextDay(e) = [e EXCEPT !.date = 1, !.month = @ + 1]
    BY <1>1, <1>3, <2>2, <2>3 DEF NextDay, NextMonth
  <2>6. SameDay(NextDay(e), d)
    BY <1>1, <1>3, <2>2, <2>5 DEF SameDay, Dates
  <2> QED
    BY <2>4, <2>6
<1>4. CASE ~(d.date > 1) /\ ~(d.month > 1)
  <2>1. e = [d EXCEPT !.year = @ - 1, !.month = MonthsPerYear,
                      !.date = DaysIn(d.year - 1, MonthsPerYear)]
    BY <1>4 DEF PreviousDay
  <2>2. e.year = d.year - 1 /\ e.month = MonthsPerYear /\ e.date = DaysIn(e.year, e.month)
    BY <1>1, <2>1 DEF Dates
  <2>3. DaysIn(e.year, e.month) \in Nat
    BY <1>1, MonthHasLength DEF Dates
  <2>4. e \in RealDates
    BY <1>1, <2>2, <2>3 DEF RealDates
  <2>5. NextDay(e) = [e EXCEPT !.date = 1, !.month = 1, !.year = @ + 1]
    BY <1>1, <2>2, <2>3 DEF NextDay, NextMonth
  <2>6. SameDay(NextDay(e), d)
    BY <1>1, <1>4, <2>2, <2>5 DEF SameDay, Dates
  <2> QED
    BY <2>4, <2>6
<1> QED
  BY <1>1, <1>2, <1>3, <1>4

\* No day lies between a day and the next.
LEMMA NoDayBetween ==
  ASSUME NEW d \in RealDates, NEW e \in RealDates, EarlierDay(d, e)
  PROVE  ~EarlierDay(e, NextDay(d))
<1>1. /\ d \in Dates /\ d.year \in Int /\ d.month \in 1..MonthsPerYear /\ d.date \in Nat \ {0}
      /\ DaysIn(d.year, d.month) \in Nat
      /\ e.year \in Int /\ e.month \in 1..MonthsPerYear /\ e.date \in Nat \ {0}
      /\ e.date <= DaysIn(e.year, e.month) /\ MonthsPerYear \in Nat \ {0}
  BY RealDateFields, UnitsArePositive
<1>2. CASE d.date < DaysIn(d.year, d.month)
  <2>1. /\ NextDay(d).year = d.year /\ NextDay(d).month = d.month
        /\ NextDay(d).date = d.date + 1
    BY <1>1, <1>2 DEF NextDay, Dates
  <2> QED
    BY <1>1, <2>1 DEF EarlierDay
<1>3. CASE ~(d.date < DaysIn(d.year, d.month))
  <2>1. NextDay(d) = NextMonth(d) /\ NextMonth(d).date = 1
    BY <1>1, <1>3 DEF NextDay, NextMonth, Dates
  <2>2. ~(d.year = e.year /\ d.month = e.month)
    BY <1>1, <1>3 DEF EarlierDay
  <2>3. CASE d.month < MonthsPerYear
    <3>1. NextMonth(d).year = d.year /\ NextMonth(d).month = d.month + 1
      BY <1>1, <2>3 DEF NextMonth, Dates
    <3> QED
      BY <1>1, <2>1, <2>2, <3>1 DEF EarlierDay
  <2>4. CASE ~(d.month < MonthsPerYear)
    <3>1. NextMonth(d).year = d.year + 1 /\ NextMonth(d).month = 1
      BY <1>1, <2>4 DEF NextMonth, Dates
    <3> QED
      BY <1>1, <2>1, <2>2, <2>4, <3>1 DEF EarlierDay
  <2> QED
    BY <2>3, <2>4
<1> QED
  BY <1>2, <1>3

LEMMA NextHourIsLater ==
  ASSUME NEW d \in RealDates
  PROVE  /\ NextHour(d) \in RealDates
         /\ EarlierDay(d, NextHour(d)) \/ (SameDay(d, NextHour(d)) /\ d.hours < NextHour(d).hours)
<1>1. d \in Dates /\ d.hours \in Nat
  BY RealDateFields, DateFields
<1>2. CASE d.hours + 1 < HoursPerDay
  <2>1. NextHour(d) = [d EXCEPT !.hours = @ + 1]
    BY <1>2 DEF NextHour
  <2>2. /\ NextHour(d) \in Dates /\ NextHour(d).hours = d.hours + 1
        /\ NextHour(d).year = d.year /\ NextHour(d).month = d.month /\ NextHour(d).date = d.date
    BY <1>1, <2>1, NextHourTyped DEF Dates
  <2> QED
    BY <1>1, <2>2 DEF RealDates, SameDay
<1>3. CASE ~(d.hours + 1 < HoursPerDay)
  <2> DEFINE e == [d EXCEPT !.hours = 0]
  <2>1. e \in Dates /\ SameDay(e, d)
    BY <1>1, UnitsArePositive DEF Dates, SameDay
  <2>2. e \in RealDates
    BY <2>1, RealDateFields DEF RealDates, SameDay
  <2>3. NextDay(e) \in RealDates /\ EarlierDay(e, NextDay(e))
    BY <2>2, NextDayIsLater
  <2>4. NextHour(d) = NextDay(e)
    BY <1>3 DEF NextHour
  <2> HIDE DEF e
  <2> QED
    BY <2>1, <2>3, <2>4 DEF EarlierDay, SameDay
<1> QED
  BY <1>2, <1>3

LEMMA NextMinuteIsLater ==
  ASSUME NEW d \in RealDates
  PROVE  /\ NextMinute(d) \in RealDates
         /\ \/ EarlierDay(d, NextMinute(d))
            \/ SameDay(d, NextMinute(d)) /\ MinuteOf(d) < MinuteOf(NextMinute(d))
<1>1. d \in Dates /\ d.minutes \in Nat /\ NextMinute(d) \in Dates
  BY RealDateFields, DateFields, NextMinuteTyped
<1>2. CASE d.minutes + 1 < MinutesPerHour
  <2>1. NextMinute(d) = [d EXCEPT !.minutes = @ + 1]
    BY <1>2 DEF NextMinute
  <2>2. /\ NextMinute(d).minutes = d.minutes + 1 /\ NextMinute(d).hours = d.hours
        /\ NextMinute(d).year = d.year /\ NextMinute(d).month = d.month
        /\ NextMinute(d).date = d.date
    BY <1>1, <2>1 DEF Dates
  <2>3. MinuteOf(d) < MinuteOf(NextMinute(d))
    BY <1>1, <2>2, MinuteOrder
  <2> QED
    BY <1>1, <2>2, <2>3 DEF RealDates, SameDay
<1>3. CASE ~(d.minutes + 1 < MinutesPerHour)
  <2> DEFINE e == [d EXCEPT !.minutes = 0]
  <2>1. e \in Dates /\ SameDay(e, d) /\ e.hours = d.hours
    BY <1>1, UnitsArePositive DEF Dates, SameDay
  <2>2. e \in RealDates
    BY <2>1, RealDateFields DEF RealDates, SameDay
  <2>3. NextMinute(d) = NextHour(e)
    BY <1>3 DEF NextMinute
  <2>4. /\ NextHour(e) \in RealDates
        /\ EarlierDay(e, NextHour(e)) \/ (SameDay(e, NextHour(e)) /\ e.hours < NextHour(e).hours)
    BY <2>2, NextHourIsLater
  <2> HIDE DEF e
  <2>5. d.hours < NextMinute(d).hours => MinuteOf(d) < MinuteOf(NextMinute(d))
    BY <1>1, MinuteOrder
  <2> QED
    BY <2>1, <2>3, <2>4, <2>5 DEF EarlierDay, SameDay
<1> QED
  BY <1>2, <1>3

LEMMA NextSecondIsLater ==
  ASSUME NEW d \in RealDates
  PROVE  NextSecond(d) \in RealDates /\ Earlier(d, NextSecond(d))
<1>1. d \in Dates /\ d.seconds \in Nat /\ NextSecond(d) \in Dates
  BY RealDateFields, DateFields, NextSecondTyped
<1>2. CASE d.seconds + 1 < SecondsPerMinute
  <2>1. NextSecond(d) = [d EXCEPT !.seconds = @ + 1]
    BY <1>2 DEF NextSecond
  <2>2. /\ NextSecond(d).seconds = d.seconds + 1
        /\ NextSecond(d).minutes = d.minutes /\ NextSecond(d).hours = d.hours
        /\ NextSecond(d).year = d.year /\ NextSecond(d).month = d.month
        /\ NextSecond(d).date = d.date
    BY <1>1, <2>1 DEF Dates
  <2>3. SameMinute(d, NextSecond(d)) /\ d.seconds < NextSecond(d).seconds
    BY <1>1, <2>2 DEF SameMinute, SameDay, MinuteOf
  <2>4. NextSecond(d) \in RealDates
    BY <1>1, <2>2 DEF RealDates
  <2> QED
    BY <1>1, <2>3, <2>4, EarlierOrder
<1>3. CASE ~(d.seconds + 1 < SecondsPerMinute)
  <2> DEFINE e == [d EXCEPT !.seconds = 0]
  <2>1. e \in Dates /\ SameMinute(e, d)
    BY <1>1, UnitsArePositive DEF Dates, SameDay, SameMinute, MinuteOf
  <2>2. e \in RealDates
    BY <2>1, RealDateFields DEF RealDates, SameDay, SameMinute
  <2>3. NextSecond(d) = NextMinute(e)
    BY <1>3 DEF NextSecond
  <2>4. /\ NextMinute(e) \in RealDates
        /\ \/ EarlierDay(e, NextMinute(e))
           \/ SameDay(e, NextMinute(e)) /\ MinuteOf(e) < MinuteOf(NextMinute(e))
    BY <2>2, NextMinuteIsLater
  <2> HIDE DEF e
  <2>5. \/ EarlierDay(d, NextSecond(d))
        \/ SameDay(d, NextSecond(d)) /\ MinuteOf(d) < MinuteOf(NextSecond(d))
    BY <2>1, <2>3, <2>4 DEF EarlierDay, SameDay, SameMinute
  <2> QED
    BY <1>1, <2>3, <2>4, <2>5, EarlierOrder
<1> QED
  BY <1>2, <1>3

------------------------------------------------------------------------------
(* A carry passes nothing over                                             *)

BeforeHour(d, e)     == EarlierDay(d, e) \/ (SameDay(d, e) /\ d.hours < e.hours)
NotAfterHour(d, e)   == EarlierDay(d, e) \/ (SameDay(d, e) /\ d.hours <= e.hours)
BeforeMinute(d, e)   == BeforeHour(d, e) \/ (SameDay(d, e) /\ d.hours = e.hours /\ d.minutes < e.minutes)
NotAfterMinute(d, e) == BeforeHour(d, e) \/ (SameDay(d, e) /\ d.hours = e.hours /\ d.minutes <= e.minutes)

\* The order of dates is that of their fields.
LEMMA FieldOrder ==
  ASSUME NEW d \in Dates, NEW e \in Dates
  PROVE  NotLater(d, e) <=>
           \/ BeforeMinute(d, e)
           \/ SameDay(d, e) /\ d.hours = e.hours /\ d.minutes = e.minutes /\ d.seconds <= e.seconds
<1>1. /\ MinuteOf(d) \in Nat /\ MinuteOf(e) \in Nat
      /\ d.hours \in Nat /\ e.hours \in Nat
      /\ d.minutes \in Nat /\ e.minutes \in Nat
  BY MinuteOrder, DateFields
<1>2. /\ d.hours < e.hours => MinuteOf(d) < MinuteOf(e)
      /\ e.hours < d.hours => MinuteOf(e) < MinuteOf(d)
      /\ d.hours = e.hours => /\ MinuteOf(d) < MinuteOf(e) <=> d.minutes < e.minutes
                              /\ MinuteOf(d) = MinuteOf(e) <=> d.minutes = e.minutes
  BY MinuteOrder
<1>3. /\ MinuteOf(d) < MinuteOf(e) <=>
           \/ d.hours < e.hours
           \/ d.hours = e.hours /\ d.minutes < e.minutes
      /\ MinuteOf(d) = MinuteOf(e) <=> d.hours = e.hours /\ d.minutes = e.minutes
  BY <1>1, <1>2
<1> QED
  BY <1>3 DEF NotLater, SameMinute, BeforeMinute, BeforeHour

\* The order of days is total.
LEMMA DaysAreOrdered ==
  ASSUME NEW d \in Dates, NEW e \in Dates
  PROVE  EarlierDay(d, e) \/ SameDay(d, e) \/ EarlierDay(e, d)
<1>1. /\ d.year \in Int /\ d.month \in Int /\ d.date \in Nat
      /\ e.year \in Int /\ e.month \in Int /\ e.date \in Nat
  BY DateFields
<1> QED
  BY <1>1 DEF EarlierDay, SameDay

LEMMA NoHourBetween ==
  ASSUME NEW d \in RealDates, NEW e \in RealDates, BeforeHour(d, e)
  PROVE  NotAfterHour(NextHour(d), e)
<1>1. /\ d \in Dates /\ d.hours \in Nat /\ d.hours < HoursPerDay
      /\ e \in Dates /\ e.hours \in Nat /\ e.hours < HoursPerDay
      /\ NextHour(d) \in Dates /\ HoursPerDay \in Nat
  BY RealDateFields, DateFields, NextHourTyped, UnitsArePositive
<1>2. CASE d.hours + 1 < HoursPerDay
  <2>1. NextHour(d) = [d EXCEPT !.hours = @ + 1]
    BY <1>2 DEF NextHour
  <2>2. /\ NextHour(d).hours = d.hours + 1
        /\ NextHour(d).year = d.year /\ NextHour(d).month = d.month /\ NextHour(d).date = d.date
    BY <1>1, <2>1 DEF Dates
  <2> QED
    BY <1>1, <2>2 DEF BeforeHour, NotAfterHour, EarlierDay, SameDay
<1>3. CASE ~(d.hours + 1 < HoursPerDay)
  <2> DEFINE f == [d EXCEPT !.hours = 0]
  <2>1. f \in Dates /\ SameDay(f, d) /\ f.hours = 0
    BY <1>1, UnitsArePositive DEF Dates, SameDay
  <2>2. f \in RealDates
    BY <2>1, RealDateFields DEF RealDates, SameDay
  <2>3. NextHour(d) = NextDay(f)
    BY <1>3 DEF NextHour
  <2>4. EarlierDay(d, e)
    BY <1>1, <1>3 DEF BeforeHour
  <2> HIDE DEF f
  <2>5. EarlierDay(f, e)
    BY <2>1, <2>4 DEF EarlierDay, SameDay
  <2>6. ~EarlierDay(e, NextDay(f))
    BY <2>2, <2>5, NoDayBetween
  <2>7. NextDay(f).hours = 0
    BY <2>1, NextDayKeepsTime
  <2> QED
    BY <1>1, <2>3, <2>6, <2>7, DaysAreOrdered DEF NotAfterHour
<1> QED
  BY <1>2, <1>3

LEMMA NoMinuteBetween ==
  ASSUME NEW d \in RealDates, NEW e \in RealDates, BeforeMinute(d, e)
  PROVE  NotAfterMinute(NextMinute(d), e)
<1>1. /\ d \in Dates /\ d.minutes \in Nat /\ d.minutes < MinutesPerHour /\ d.hours \in Nat
      /\ e \in Dates /\ e.minutes \in Nat /\ e.minutes < MinutesPerHour /\ e.hours \in Nat
      /\ MinutesPerHour \in Nat
  BY RealDateFields, DateFields, UnitsArePositive
<1>2. CASE d.minutes + 1 < MinutesPerHour
  <2>1. NextMinute(d) = [d EXCEPT !.minutes = @ + 1]
    BY <1>2 DEF NextMinute
  <2>2. /\ NextMinute(d).minutes = d.minutes + 1 /\ NextMinute(d).hours = d.hours
        /\ NextMinute(d).year = d.year /\ NextMinute(d).month = d.month
        /\ NextMinute(d).date = d.date
    BY <1>1, <2>1 DEF Dates
  <2> QED
    BY <1>1, <2>2 DEF BeforeMinute, NotAfterMinute, BeforeHour, EarlierDay, SameDay
<1>3. CASE ~(d.minutes + 1 < MinutesPerHour)
  <2> DEFINE f == [d EXCEPT !.minutes = 0]
  <2>1. f \in Dates /\ SameDay(f, d) /\ f.hours = d.hours /\ f.minutes = 0
    BY <1>1, UnitsArePositive DEF Dates, SameDay
  <2>2. f \in RealDates
    BY <2>1, RealDateFields DEF RealDates, SameDay
  <2>3. NextMinute(d) = NextHour(f)
    BY <1>3 DEF NextMinute
  <2>4. BeforeHour(d, e)
    BY <1>1, <1>3 DEF BeforeMinute
  <2> HIDE DEF f
  <2>5. BeforeHour(f, e)
    BY <2>1, <2>4 DEF BeforeHour, EarlierDay, SameDay
  <2>6. NotAfterHour(NextHour(f), e)
    BY <2>2, <2>5, NoHourBetween
  <2>7. NextHour(f).minutes = 0 /\ NextHour(f) \in Dates
    BY <2>1, NextHourKeepsMinutes, NextHourTyped
  <2>8. NextHour(f).hours \in Nat
    BY <2>7, DateFields
  <2> QED
    BY <1>1, <2>3, <2>6, <2>7, <2>8 DEF NotAfterHour, NotAfterMinute, BeforeHour
<1> QED
  BY <1>2, <1>3

\* No second lies between a second and the next.
LEMMA NoSecondBetween ==
  ASSUME NEW d \in RealDates, NEW e \in RealDates, Earlier(d, e)
  PROVE  NotLater(NextSecond(d), e)
<1>1. /\ d \in Dates /\ d.seconds \in Nat /\ d.seconds < SecondsPerMinute
      /\ e \in Dates /\ e.seconds \in Nat /\ e.seconds < SecondsPerMinute
      /\ d.hours \in Nat /\ e.hours \in Nat /\ d.minutes \in Nat /\ e.minutes \in Nat
      /\ NextSecond(d) \in Dates /\ SecondsPerMinute \in Nat
  BY RealDateFields, DateFields, UnitsArePositive, NextSecondTyped
<1>2. ~NotLater(e, d)
  BY <1>1, OrderIsTotal
<1>3. BeforeMinute(d, e) \/ (/\ SameDay(d, e) /\ d.hours = e.hours /\ d.minutes = e.minutes
                             /\ d.seconds < e.seconds)
  <2>1. ~BeforeMinute(e, d)
    BY <1>1, <1>2, FieldOrder
  <2>2. ~(/\ SameDay(e, d) /\ e.hours = d.hours /\ e.minutes = d.minutes
          /\ e.seconds <= d.seconds)
    BY <1>1, <1>2, FieldOrder
  <2>3. EarlierDay(d, e) \/ SameDay(d, e)
    BY <1>1, <2>1, DaysAreOrdered DEF BeforeMinute, BeforeHour
  <2>4. SameDay(d, e) => SameDay(e, d)
    BY DEF SameDay
  <2> QED
    BY <1>1, <2>1, <2>2, <2>3, <2>4 DEF BeforeMinute, BeforeHour
<1>4. CASE d.seconds + 1 < SecondsPerMinute
  <2>1. NextSecond(d) = [d EXCEPT !.seconds = @ + 1]
    BY <1>4 DEF NextSecond
  <2>2. /\ NextSecond(d).seconds = d.seconds + 1
        /\ NextSecond(d).minutes = d.minutes /\ NextSecond(d).hours = d.hours
        /\ NextSecond(d).year = d.year /\ NextSecond(d).month = d.month
        /\ NextSecond(d).date = d.date
    BY <1>1, <2>1 DEF Dates
  <2>3. \/ BeforeMinute(NextSecond(d), e)
        \/ /\ SameDay(NextSecond(d), e) /\ NextSecond(d).hours = e.hours
           /\ NextSecond(d).minutes = e.minutes /\ NextSecond(d).seconds <= e.seconds
    BY <1>1, <1>3, <2>2 DEF BeforeMinute, BeforeHour, EarlierDay, SameDay
  <2> QED
    BY <1>1, <2>3, FieldOrder
<1>5. CASE ~(d.seconds + 1 < SecondsPerMinute)
  <2> DEFINE f == [d EXCEPT !.seconds = 0]
  <2>1. /\ f \in Dates /\ SameDay(f, d) /\ f.hours = d.hours /\ f.minutes = d.minutes
        /\ f.seconds = 0
    BY <1>1, UnitsArePositive DEF Dates, SameDay
  <2>2. f \in RealDates
    BY <2>1, RealDateFields DEF RealDates, SameDay
  <2>3. NextSecond(d) = NextMinute(f)
    BY <1>5 DEF NextSecond
  <2>4. BeforeMinute(d, e)
    BY <1>1, <1>3, <1>5
  <2> HIDE DEF f
  <2>5. BeforeMinute(f, e)
    BY <2>1, <2>4 DEF BeforeMinute, BeforeHour, EarlierDay, SameDay
  <2>6. NotAfterMinute(NextMinute(f), e)
    BY <2>2, <2>5, NoMinuteBetween
  <2>7. NextMinute(f).seconds = 0 /\ NextMinute(f) \in Dates
    BY <2>1, NextMinuteKeepsSeconds, NextMinuteTyped
  <2>8. NextMinute(f).minutes \in Nat
    BY <2>7, DateFields
  <2>9. \/ BeforeMinute(NextMinute(f), e)
        \/ /\ SameDay(NextMinute(f), e) /\ NextMinute(f).hours = e.hours
           /\ NextMinute(f).minutes = e.minutes /\ NextMinute(f).seconds <= e.seconds
    BY <1>1, <2>6, <2>7, <2>8 DEF BeforeMinute, NotAfterMinute
  <2> QED
    BY <1>1, <2>3, <2>7, <2>9, FieldOrder
<1> QED
  BY <1>4, <1>5

------------------------------------------------------------------------------
(* A shift by minutes keeps the order, and can be taken back                *)

MinutesPerDay == HoursPerDay * MinutesPerHour

\* The remainder of a number that is less than a divisor away from its range.
LEMMA RestOfMinutes ==
  ASSUME NEW N \in Nat \ {0}, NEW x \in 0..(N - 1)
  PROVE  x % N = x /\ (x + N) % N = x /\ (x - N) % N = x
<1>1. \A q \in Int : q <= -1 => q * N <= -N
  <2> SUFFICES ASSUME NEW q \in Int, q <= -1 PROVE q * N <= -N
    OBVIOUS
  <2>1. (-1 - q) \in Nat /\ (-1 - q) * N \in Nat
    OBVIOUS
  <2>2. (-1 - q) * N = -N - q * N /\ q * N \in Int
    OBVIOUS
  <2> QED
    BY <2>1, <2>2
<1>2. \A q \in Int : q >= 1 => q * N >= N
  <2> SUFFICES ASSUME NEW q \in Int, q >= 1 PROVE q * N >= N
    OBVIOUS
  <2>1. (q - 1) \in Nat /\ (q - 1) * N \in Nat
    OBVIOUS
  <2>2. (q - 1) * N = q * N - N /\ q * N \in Int
    OBVIOUS
  <2> QED
    BY <2>1, <2>2
<1>3. ASSUME NEW y \in Int, NEW q \in Int, NEW r \in 0..(N - 1), y = q * N + r,
             NEW p \in Int, y = p * N + x
      PROVE  r = x
  <2>1. (q - p) \in Int /\ (q - p) * N = x - r
    <3>1. (q - p) * N = q * N - p * N /\ q * N \in Int /\ p * N \in Int
      OBVIOUS
    <3> QED
      BY <1>3, <3>1
  <2>2. x - r < N /\ x - r > -N
    OBVIOUS
  <2>3. ~(q - p <= -1) /\ ~(q - p >= 1)
    BY <1>1, <1>2, <2>1, <2>2
  <2>4. q - p = 0
    BY <2>1, <2>3
  <2> QED
    BY <2>1, <2>4
<1>4. \A y \in Int : /\ y \div N \in Int /\ y % N \in 0..(N - 1)
                     /\ y = (y \div N) * N + (y % N)
  OBVIOUS
<1>5. x = 0 * N + x /\ x + N = 1 * N + x /\ x - N = (-1) * N + x
  OBVIOUS
<1>6. x \in Int /\ x + N \in Int /\ x - N \in Int
  OBVIOUS
<1> QED
  BY <1>3, <1>4, <1>5, <1>6

\* Where a shift by at most a day leads to.
LEMMA AddMinutesMoves ==
  ASSUME NEW d \in RealDates, NEW n \in Int, -MinutesPerDay <= n, n <= MinutesPerDay
  PROVE  LET e == AddMinutes(d, n)
             total == MinuteOf(d) + n
         IN /\ e \in RealDates /\ e.seconds = d.seconds
            /\ total < 0 => /\ SameDay(e, PreviousDay(d))
                            /\ MinuteOf(e) = total + MinutesPerDay
            /\ total \in 0..(MinutesPerDay - 1) => SameDay(e, d) /\ MinuteOf(e) = total
            /\ total >= MinutesPerDay => /\ SameDay(e, NextDay(d))
                                         /\ MinuteOf(e) = total - MinutesPerDay
<1> DEFINE total == MinuteOf(d) + n
           day   == IF total < 0 THEN PreviousDay(d)
                    ELSE IF total >= MinutesPerDay THEN NextDay(d) ELSE d
           rest  == total % MinutesPerDay
           e     == [day EXCEPT !.hours = rest \div MinutesPerHour, !.minutes = rest % MinutesPerHour]
<1>1. /\ d \in Dates /\ MinutesPerDay \in Nat \ {0} /\ MinutesPerHour \in Nat \ {0}
      /\ MinuteOf(d) \in 0..(MinutesPerDay - 1)
  BY UnitsArePositive, MinuteOrder, RealDateFields DEF MinutesPerDay
<1>2. AddMinutes(d, n) = e /\ e \in Dates
  <2>1. AddMinutes(d, n) = e
    BY DEF AddMinutes, MinuteOf, MinutesPerDay
  <2> QED
    BY <1>1, <2>1, AddMinutesTyped
<1>3. day \in RealDates
  BY NextDayIsLater, PreviousDayIsEarlier
<1>4. SameDay(e, day) /\ e.seconds = day.seconds
      /\ e.hours = rest \div MinutesPerHour /\ e.minutes = rest % MinutesPerHour
  <2>1. day \in Dates
    BY <1>3 DEF RealDates
  <2> HIDE DEF day, rest
  <2> QED
    BY <2>1 DEF Dates, SameDay
<1>5. day.seconds = d.seconds
  <2>1. PreviousDay(d).seconds = d.seconds
    BY <1>1 DEF PreviousDay, Dates
  <2> QED
    BY <2>1, NextDayIsLater
<1>6. e \in RealDates
  <2> HIDE DEF day, e
  <2> QED
    BY <1>2, <1>3, <1>4 DEF RealDates, SameDay
<1>7. rest \in Int /\ MinuteOf(e) = rest
  <2>1. total \in Int
    BY <1>1
  <2>2. rest \in Int
    BY <1>1, <2>1
  <2>3. \A r \in Int : (r \div MinutesPerHour) * MinutesPerHour + (r % MinutesPerHour) = r
    BY <1>1
  <2> HIDE DEF rest, day, e
  <2> QED
    BY <1>4, <2>2, <2>3 DEF MinuteOf
<1>8. /\ total < 0 => rest = total + MinutesPerDay
      /\ total \in 0..(MinutesPerDay - 1) => rest = total
      /\ total >= MinutesPerDay => rest = total - MinutesPerDay
  <2>1. total \in Int /\ -MinutesPerDay <= total /\ total < MinutesPerDay + MinutesPerDay
    BY <1>1
  <2> HIDE DEF total
  <2>2. CASE total < 0
    <3>1. total + MinutesPerDay \in 0..(MinutesPerDay - 1)
      BY <1>1, <2>1, <2>2
    <3>2. ((total + MinutesPerDay) - MinutesPerDay) % MinutesPerDay = total + MinutesPerDay
      BY <1>1, <3>1, RestOfMinutes
    <3>3. (total + MinutesPerDay) - MinutesPerDay = total
      BY <1>1, <2>1
    <3> QED
      BY <1>1, <2>1, <2>2, <3>2, <3>3
  <2>3. CASE total \in 0..(MinutesPerDay - 1)
    BY <1>1, <2>3, RestOfMinutes
  <2>4. CASE total >= MinutesPerDay
    <3>1. total - MinutesPerDay \in 0..(MinutesPerDay - 1)
      BY <1>1, <2>1, <2>4
    <3>2. ((total - MinutesPerDay) + MinutesPerDay) % MinutesPerDay = total - MinutesPerDay
      BY <1>1, <3>1, RestOfMinutes
    <3>3. (total - MinutesPerDay) + MinutesPerDay = total
      BY <1>1, <2>1
    <3> QED
      BY <1>1, <2>1, <2>4, <3>2, <3>3
  <2> QED
    BY <1>1, <2>1, <2>2, <2>3, <2>4
<1>9. /\ total < 0 => day = PreviousDay(d)
      /\ total \in 0..(MinutesPerDay - 1) => day = d
      /\ total >= MinutesPerDay => day = NextDay(d)
  BY <1>1
<1> HIDE DEF day, rest, e
<1> QED
  BY <1>2, <1>4, <1>5, <1>6, <1>7, <1>8, <1>9

\* Days are in order.
LEMMA DaysInOrder ==
  ASSUME NEW d \in RealDates, NEW e \in RealDates, NEW f \in RealDates
  PROVE  /\ EarlierDay(d, e) \/ SameDay(d, e) \/ EarlierDay(e, d)
         /\ SameDay(d, e) => SameDay(e, d) /\ ~EarlierDay(d, e) /\ ~EarlierDay(e, d)
         /\ EarlierDay(d, e) /\ EarlierDay(e, f) => EarlierDay(d, f)
         /\ EarlierDay(d, e) /\ SameDay(e, f) => EarlierDay(d, f)
         /\ SameDay(d, e) /\ EarlierDay(e, f) => EarlierDay(d, f)
         /\ SameDay(d, e) /\ SameDay(e, f) => SameDay(d, f)
         /\ ~(EarlierDay(d, e) /\ EarlierDay(e, d))
<1>1. /\ d.year \in Int /\ d.month \in Int /\ d.date \in Nat
      /\ e.year \in Int /\ e.month \in Int /\ e.date \in Nat
      /\ f.year \in Int /\ f.month \in Int /\ f.date \in Nat
  BY DateFields, RealDateFields
<1> QED
  BY <1>1 DEF EarlierDay, SameDay

LEMMA NeighboursOfSameDay ==
  ASSUME NEW d \in RealDates, NEW e \in RealDates, SameDay(d, e)
  PROVE  SameDay(NextDay(d), NextDay(e)) /\ SameDay(PreviousDay(d), PreviousDay(e))
<1>1. d \in Dates /\ e \in Dates /\ d.year = e.year /\ d.month = e.month /\ d.date = e.date
  BY DEF RealDates, SameDay
<1>2. SameDay(NextDay(d), NextDay(e))
  BY <1>1 DEF NextDay, NextMonth, SameDay, Dates
<1>3. SameDay(PreviousDay(d), PreviousDay(e))
  BY <1>1 DEF PreviousDay, SameDay, Dates
<1> QED
  BY <1>2, <1>3

\* Of two days, the day after the first is not after the second, and so on.
LEMMA NeighboursInOrder ==
  ASSUME NEW d \in RealDates, NEW e \in RealDates
  PROVE  /\ EarlierDay(PreviousDay(d), d)
         /\ SameDay(PreviousDay(NextDay(d)), d)
         /\ EarlierDay(d, e) => /\ ~EarlierDay(e, NextDay(d))
                                /\ ~EarlierDay(PreviousDay(e), d)
                                /\ EarlierDay(NextDay(d), NextDay(e))
                                /\ EarlierDay(PreviousDay(d), PreviousDay(e))
<1>1. \A x \in RealDates : /\ NextDay(x) \in RealDates /\ EarlierDay(x, NextDay(x))
                           /\ PreviousDay(x) \in RealDates /\ SameDay(NextDay(PreviousDay(x)), x)
  BY NextDayIsLater, PreviousDayIsEarlier
<1>2. \A x \in RealDates : EarlierDay(PreviousDay(x), x)
  BY <1>1, DaysInOrder
<1>3. \A x, y \in RealDates : EarlierDay(x, y) => ~EarlierDay(y, NextDay(x))
  BY NoDayBetween
<1>4. \A x, y \in RealDates : EarlierDay(x, y) => ~EarlierDay(PreviousDay(y), x)
  <2> SUFFICES ASSUME NEW x \in RealDates, NEW y \in RealDates, EarlierDay(x, y),
                      EarlierDay(PreviousDay(y), x)
               PROVE  FALSE
    OBVIOUS
  <2>1. ~EarlierDay(x, NextDay(PreviousDay(y)))
    BY <1>1, <1>3
  <2>2. NextDay(PreviousDay(y)) \in RealDates
    BY <1>1
  <2>3. SameDay(y, NextDay(PreviousDay(y)))
    BY <1>1, <2>2, DaysInOrder
  <2> QED
    BY <1>1, <2>1, <2>2, <2>3, DaysInOrder
<1>5. \A x, y \in RealDates : EarlierDay(x, y) => EarlierDay(NextDay(x), NextDay(y))
  <2> SUFFICES ASSUME NEW x \in RealDates, NEW y \in RealDates, EarlierDay(x, y)
               PROVE  EarlierDay(NextDay(x), NextDay(y))
    OBVIOUS
  <2>1. EarlierDay(NextDay(x), y) \/ SameDay(NextDay(x), y)
    BY <1>1, <1>3, DaysInOrder
  <2> QED
    BY <1>1, <2>1, DaysInOrder
<1>6. \A x, y \in RealDates : EarlierDay(x, y) => EarlierDay(PreviousDay(x), PreviousDay(y))
  <2> SUFFICES ASSUME NEW x \in RealDates, NEW y \in RealDates, EarlierDay(x, y)
               PROVE  EarlierDay(PreviousDay(x), PreviousDay(y))
    OBVIOUS
  <2>1. EarlierDay(x, PreviousDay(y)) \/ SameDay(x, PreviousDay(y))
    BY <1>1, <1>4, DaysInOrder
  <2> QED
    BY <1>1, <1>2, <2>1, DaysInOrder
<1>7. SameDay(PreviousDay(NextDay(d)), d)
  <2> DEFINE p == PreviousDay(NextDay(d))
  <2>1. p \in RealDates /\ SameDay(NextDay(p), NextDay(d)) /\ NextDay(p) \in RealDates
    BY <1>1
  <2> HIDE DEF p
  <2>2. ~EarlierDay(p, d) /\ ~EarlierDay(d, p)
    BY <1>1, <1>5, <2>1, DaysInOrder
  <2> QED
    BY <2>1, <2>2, DaysInOrder DEF p
<1> QED
  BY <1>2, <1>3, <1>4, <1>5, <1>6, <1>7

LEMMA ShiftKeepsOrder ==
  ASSUME NEW d \in RealDates, NEW e \in RealDates, NotLater(d, e),
         NEW n \in Int, -MinutesPerDay <= n, n <= MinutesPerDay
  PROVE  NotLater(AddMinutes(d, n), AddMinutes(e, n))
<1> DEFINE a == AddMinutes(d, n)   b == AddMinutes(e, n)
           s == MinuteOf(d) + n    t == MinuteOf(e) + n
<1>0. /\ MinuteOf(d) \in 0..(MinutesPerDay - 1) /\ MinuteOf(e) \in 0..(MinutesPerDay - 1)
      /\ MinutesPerDay \in Nat \ {0} /\ d.seconds \in Nat /\ e.seconds \in Nat
  BY UnitsArePositive, MinuteOrder, RealDateFields DEF MinutesPerDay
<1>1. /\ a \in RealDates /\ a.seconds = d.seconds
      /\ s < 0 => SameDay(a, PreviousDay(d)) /\ MinuteOf(a) = s + MinutesPerDay
      /\ s \in 0..(MinutesPerDay - 1) => SameDay(a, d) /\ MinuteOf(a) = s
      /\ s >= MinutesPerDay => SameDay(a, NextDay(d)) /\ MinuteOf(a) = s - MinutesPerDay
  BY AddMinutesMoves
<1>2. /\ b \in RealDates /\ b.seconds = e.seconds
      /\ t < 0 => SameDay(b, PreviousDay(e)) /\ MinuteOf(b) = t + MinutesPerDay
      /\ t \in 0..(MinutesPerDay - 1) => SameDay(b, e) /\ MinuteOf(b) = t
      /\ t >= MinutesPerDay => SameDay(b, NextDay(e)) /\ MinuteOf(b) = t - MinutesPerDay
  BY AddMinutesMoves
<1>3. /\ PreviousDay(d) \in RealDates /\ NextDay(d) \in RealDates
      /\ PreviousDay(e) \in RealDates /\ NextDay(e) \in RealDates
      /\ EarlierDay(d, NextDay(d)) /\ EarlierDay(e, NextDay(e))
      /\ EarlierDay(PreviousDay(d), d) /\ EarlierDay(PreviousDay(e), e)
  BY NextDayIsLater, PreviousDayIsEarlier, NeighboursInOrder
<1>4. s \in Int /\ t \in Int /\ MinuteOf(d) = s - n /\ MinuteOf(e) = t - n
  BY <1>0
<1> SUFFICES NotLater(a, b)
  OBVIOUS
<1> HIDE DEF a, b, s, t
<1>5. CASE SameDay(d, e)
  <2>1. s <= t /\ (s = t => d.seconds <= e.seconds)
    BY <1>0, <1>4, <1>5, DaysInOrder DEF NotLater, SameMinute
  <2>2. SameDay(NextDay(d), NextDay(e)) /\ SameDay(PreviousDay(d), PreviousDay(e))
    BY <1>5, NeighboursOfSameDay
  <2>3. CASE s < 0 /\ t < 0
    <3>1. SameDay(a, b)
      BY <1>1, <1>2, <1>3, <2>2, <2>3, DaysInOrder
    <3> QED
      BY <1>0, <1>1, <1>2, <1>4, <2>1, <2>3, <3>1 DEF NotLater, SameMinute
  <2>4. CASE s \in 0..(MinutesPerDay - 1) /\ t \in 0..(MinutesPerDay - 1)
    <3>1. SameDay(a, b)
      BY <1>1, <1>2, <1>3, <1>5, <2>4, DaysInOrder
    <3> QED
      BY <1>0, <1>1, <1>2, <1>4, <2>1, <2>4, <3>1 DEF NotLater, SameMinute
  <2>5. CASE s >= MinutesPerDay /\ t >= MinutesPerDay
    <3>1. SameDay(a, b)
      BY <1>1, <1>2, <1>3, <2>2, <2>5, DaysInOrder
    <3> QED
      BY <1>0, <1>1, <1>2, <1>4, <2>1, <2>5, <3>1 DEF NotLater, SameMinute
  <2>6. CASE s < 0 /\ t \in 0..(MinutesPerDay - 1)
    BY <1>1, <1>2, <1>3, <1>5, <2>6, DaysInOrder DEF NotLater
  <2>7. CASE s < 0 /\ t >= MinutesPerDay
    BY <1>1, <1>2, <1>3, <1>5, <2>7, DaysInOrder DEF NotLater
  <2>8. CASE s \in 0..(MinutesPerDay - 1) /\ t >= MinutesPerDay
    BY <1>1, <1>2, <1>3, <1>5, <2>8, DaysInOrder DEF NotLater
  <2> QED
    BY <1>0, <1>4, <2>1, <2>3, <2>4, <2>5, <2>6, <2>7, <2>8
<1>6. CASE EarlierDay(d, e)
  <2>1. /\ EarlierDay(NextDay(d), e) \/ SameDay(NextDay(d), e)
        /\ EarlierDay(d, PreviousDay(e)) \/ SameDay(d, PreviousDay(e))
        /\ EarlierDay(NextDay(d), NextDay(e)) /\ EarlierDay(PreviousDay(d), PreviousDay(e))
    BY <1>3, <1>6, NeighboursInOrder, DaysInOrder
  <2>2. s < MinutesPerDay + n /\ t < MinutesPerDay + n /\ s >= n /\ t >= n
    BY <1>0, <1>4
  <2>3. CASE s < 0 /\ t < 0
    BY <1>1, <1>2, <1>3, <2>1, <2>3, DaysInOrder DEF NotLater
  <2>4. CASE s \in 0..(MinutesPerDay - 1) /\ t \in 0..(MinutesPerDay - 1)
    BY <1>1, <1>2, <1>3, <1>6, <2>4, DaysInOrder DEF NotLater
  <2>5. CASE s >= MinutesPerDay /\ t >= MinutesPerDay
    BY <1>1, <1>2, <1>3, <2>1, <2>5, DaysInOrder DEF NotLater
  <2>6. CASE s < 0 /\ t >= 0
    <3>1. EarlierDay(a, d) /\ (SameDay(b, e) \/ SameDay(b, NextDay(e)))
      <4>1. t \in 0..(MinutesPerDay - 1) \/ t >= MinutesPerDay
        BY <1>0, <1>4, <2>6
      <4> QED
        BY <1>1, <1>2, <1>3, <2>6, <4>1, DaysInOrder
    <3> QED
      BY <1>1, <1>2, <1>3, <1>6, <2>6, <3>1, DaysInOrder DEF NotLater
  <2>7. CASE s \in 0..(MinutesPerDay - 1) /\ t >= MinutesPerDay
    BY <1>1, <1>2, <1>3, <1>6, <2>7, DaysInOrder DEF NotLater
  <2>8. CASE s \in 0..(MinutesPerDay - 1) /\ t < 0
    <3>1. MinuteOf(a) < MinuteOf(b)
      BY <1>0, <1>1, <1>2, <1>4, <2>2, <2>8
    <3>2. EarlierDay(a, b) \/ SameDay(a, b)
      BY <1>1, <1>2, <1>3, <2>1, <2>8, DaysInOrder
    <3> QED
      BY <3>1, <3>2 DEF NotLater
  <2>9. CASE s >= MinutesPerDay /\ t \in 0..(MinutesPerDay - 1)
    <3>1. MinuteOf(a) < MinuteOf(b)
      BY <1>0, <1>1, <1>2, <1>4, <2>2, <2>9
    <3>2. EarlierDay(a, b) \/ SameDay(a, b)
      BY <1>1, <1>2, <1>3, <2>1, <2>9, DaysInOrder
    <3> QED
      BY <3>1, <3>2 DEF NotLater
  <2>10. ~(s >= MinutesPerDay /\ t < 0)
    BY <1>0, <1>4, <2>2
  <2> QED
    BY <1>0, <1>4, <2>3, <2>4, <2>5, <2>6, <2>7, <2>8, <2>9, <2>10
<1> QED
  BY <1>5, <1>6 DEF NotLater, SameMinute

\* Two dates of which neither is later are the same date.
LEMMA OrderIsAntisymmetric ==
  ASSUME NEW d \in Dates, NEW e \in Dates, NotLater(d, e), NotLater(e, d)
  PROVE  d = e
<1>1. /\ MinuteOf(d) \in Nat /\ MinuteOf(e) \in Nat
      /\ d.seconds \in Nat /\ e.seconds \in Nat
      /\ d.year \in Int /\ d.month \in Int /\ d.date \in Int /\ d.hours \in Nat
      /\ e.year \in Int /\ e.month \in Int /\ e.date \in Int /\ e.hours \in Nat
  BY UnitsArePositive, MinuteOrder, DateFields
<1>2. SameDay(d, e) /\ MinuteOf(d) = MinuteOf(e) /\ d.seconds = e.seconds
  BY <1>1 DEF NotLater, EarlierDay, SameDay, SameMinute
<1>3. d.hours = e.hours
  BY <1>1, <1>2, MinuteOrder
<1>4. d.minutes = e.minutes
  BY <1>2, <1>3, MinuteOrder
<1> QED
  BY <1>2, <1>3, <1>4 DEF SameDay, Dates

\* A shift and its opposite lead back to the same second.
LEMMA ShiftBack ==
  ASSUME NEW d \in RealDates, NEW n \in Int, -MinutesPerDay <= n, n <= MinutesPerDay
  PROVE  /\ NotLater(d, AddMinutes(AddMinutes(d, n), -n))
         /\ NotLater(AddMinutes(AddMinutes(d, n), -n), d)
<1> DEFINE a == AddMinutes(d, n)   b == AddMinutes(a, -n)
           s == MinuteOf(d) + n    t == MinuteOf(a) + (-n)
<1>0. /\ MinuteOf(d) \in 0..(MinutesPerDay - 1)
      /\ MinutesPerDay \in Nat \ {0} /\ d.seconds \in Nat
  BY UnitsArePositive, MinuteOrder, RealDateFields DEF MinutesPerDay
<1>1. /\ a \in RealDates /\ a.seconds = d.seconds
      /\ s < 0 => SameDay(a, PreviousDay(d)) /\ MinuteOf(a) = s + MinutesPerDay
      /\ s \in 0..(MinutesPerDay - 1) => SameDay(a, d) /\ MinuteOf(a) = s
      /\ s >= MinutesPerDay => SameDay(a, NextDay(d)) /\ MinuteOf(a) = s - MinutesPerDay
  BY AddMinutesMoves
<1>2. /\ b \in RealDates /\ b.seconds = a.seconds
      /\ t < 0 => SameDay(b, PreviousDay(a)) /\ MinuteOf(b) = t + MinutesPerDay
      /\ t \in 0..(MinutesPerDay - 1) => SameDay(b, a) /\ MinuteOf(b) = t
      /\ t >= MinutesPerDay => SameDay(b, NextDay(a)) /\ MinuteOf(b) = t - MinutesPerDay
  <2>1. -n \in Int /\ -MinutesPerDay <= -n /\ -n <= MinutesPerDay
    BY <1>0
  <2> HIDE DEF a
  <2> QED
    BY <1>1, <2>1, AddMinutesMoves
<1>3. /\ PreviousDay(d) \in RealDates /\ NextDay(d) \in RealDates
      /\ PreviousDay(a) \in RealDates /\ NextDay(a) \in RealDates
      /\ NextDay(PreviousDay(d)) \in RealDates /\ PreviousDay(NextDay(d)) \in RealDates
      /\ SameDay(NextDay(PreviousDay(d)), d) /\ SameDay(PreviousDay(NextDay(d)), d)
  BY <1>1, NextDayIsLater, PreviousDayIsEarlier, NeighboursInOrder
<1>4. /\ s \in Int /\ MinuteOf(d) = s - n
      /\ s < 0 => t = MinuteOf(d) + MinutesPerDay
      /\ s \in 0..(MinutesPerDay - 1) => t = MinuteOf(d)
      /\ s >= MinutesPerDay => t = MinuteOf(d) - MinutesPerDay
  BY <1>0, <1>1
<1> HIDE DEF a, b, s, t
<1>5. SameDay(d, b) /\ MinuteOf(b) = MinuteOf(d)
  <2>1. CASE s < 0
    <3>1. SameDay(b, NextDay(a)) /\ MinuteOf(b) = MinuteOf(d)
      BY <1>0, <1>2, <1>4, <2>1
    <3>2. SameDay(NextDay(a), NextDay(PreviousDay(d)))
      BY <1>1, <1>3, <2>1, NeighboursOfSameDay
    <3> QED
      BY <1>2, <1>3, <3>1, <3>2, DaysInOrder
  <2>2. CASE s \in 0..(MinutesPerDay - 1)
    BY <1>0, <1>1, <1>2, <1>4, <2>2, DaysInOrder
  <2>3. CASE s >= MinutesPerDay
    <3>1. SameDay(b, PreviousDay(a)) /\ MinuteOf(b) = MinuteOf(d)
      BY <1>0, <1>2, <1>4, <2>3
    <3>2. SameDay(PreviousDay(a), PreviousDay(NextDay(d)))
      BY <1>1, <1>3, <2>3, NeighboursOfSameDay
    <3> QED
      BY <1>2, <1>3, <3>1, <3>2, DaysInOrder
  <2> QED
    BY <1>0, <1>4, <2>1, <2>2, <2>3
<1> QED
  BY <1>0, <1>1, <1>2, <1>5 DEF NotLater, SameMinute, SameDay, a, b

\* A date that was shifted is found again by the opposite shift.
LEMMA ShiftBackIsSame ==
  ASSUME NEW d \in RealDates, NEW n \in Int, -MinutesPerDay <= n, n <= MinutesPerDay
  PROVE  AddMinutes(AddMinutes(d, -n), n) = d
<1>1. MinutesPerDay \in Nat /\ -n \in Int /\ -MinutesPerDay <= -n /\ -n <= MinutesPerDay
  BY UnitsArePositive DEF MinutesPerDay
<1>2. /\ NotLater(d, AddMinutes(AddMinutes(d, -n), -(-n)))
      /\ NotLater(AddMinutes(AddMinutes(d, -n), -(-n)), d)
  BY <1>1, ShiftBack
<1>3. -(-n) = n
  OBVIOUS
<1>4. AddMinutes(AddMinutes(d, -n), n) \in Dates /\ d \in Dates
  BY <1>1, AddMinutesMoves DEF RealDates
<1> QED
  BY <1>2, <1>3, <1>4, OrderIsAntisymmetric


==============================================================================
