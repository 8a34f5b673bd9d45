------------------------------- MODULE MCCron -------------------------------
(***************************************************************************)
(* The instances of Cron that TLC checks: a calendar of two months a year,  *)
(* with a leap year every other year.                                      *)
(***************************************************************************)
EXTENDS CronProps

TwoYears == << << 3, 2 >>, << 3, 1 >> >>

At(year, month, date, hours, minutes, seconds) ==
  [ year |-> year, month |-> month, date |-> date,
    hours |-> hours, minutes |-> minutes, seconds |-> seconds ]

Moments == { At(1, 1, 1, 0, 0, 0), At(1, 1, 3, 0, 1, 1), At(2, 2, 1, 1, 2, 1), At(2, 2, 2, 1, 0, 0) }
Starts  == { None, At(2, 1, 2, 1, 0, 1) }
Ends    == { None, At(2, 2, 1, 0, 1, 0), At(3, 1, 3, 1, 1, 0) }
MinuteOffsets == { 0, 4, -2 }

Numbers(values) == [ star |-> FALSE, ranges |-> { << v, v >> : v \in values }, step |-> 1 ]
Span(first, last) == [ star |-> FALSE, ranges |-> { << first, last >> }, step |-> 1 ]
Every(expr, step) == [ expr EXCEPT !.step = step ]

\* Minutes 0-2, hours 0-1, days 1-3, months 1-2, days of the week 0-2.
Seconds == { Star, Numbers({0}) }
Minutes == { Star, Numbers({1}) }
Hours   == { Star, Span(1, 0), Numbers({1}) }
Days    == { Star, Numbers({3}), Every(Span(3, 1), 2), Numbers({1, 2}) }
Months  == { Star, Numbers({2}), Numbers({1}) }
Week    == { Star, Numbers({3, 1}), Span(1, 2) }

SixFields ==
  { << s, mi, h, d, mo, w >> :
      s \in Seconds, mi \in Minutes, h \in {Star, Numbers({0, 5})}, d \in Days, mo \in Months, w \in Week }
FiveFields ==
  { << mi, h, d, mo, w >> :
      mi \in { Numbers({0}), Every(Star, 2) }, h \in Hours, d \in Days,
      mo \in Months \cup { Every(Star, 3) }, w \in {Star} }
Fields56 == SixFields \cup FiveFields

Monday == { << Star, Star, Star, Star, Numbers({1}) >> }
==============================================================================
