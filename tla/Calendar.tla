------------------------------ MODULE Calendar ------------------------------
(***************************************************************************)
(* When a report is due (calculateNextSendAt, api/src/subscriptions).      *)
(* Time counts the hours of the subscription's time zone; it begins with a *)
(* week and with a month.  Days and weeks are as short as the constants    *)
(* make them and months are all alike: the DTO admits only days (1 to 28)   *)
(* that every month has.  Changes of the clock in spring and autumn are     *)
(* left out, and so is a plan without its day, which update would accept.   *)
(***************************************************************************)
EXTENDS Integers

CONSTANTS HoursPerDay, DaysPerWeek, DaysPerMonth

ASSUME CalendarAssumption ==
  /\ HoursPerDay \in Nat \ {0}
  /\ DaysPerWeek \in Nat \ {0}
  /\ DaysPerMonth \in Nat \ {0}

\* frequency, hour, day_of_week or day_of_month (counted from 0 here)
Plan == [frequency : {"daily"}, hour : 0..HoursPerDay - 1, day : {0}]
   \cup [frequency : {"weekly"}, hour : 0..HoursPerDay - 1, day : 0..DaysPerWeek - 1]
   \cup [frequency : {"monthly"}, hour : 0..HoursPerDay - 1, day : 0..DaysPerMonth - 1]

Day(time) == time \div HoursPerDay
Hour(time) == time % HoursPerDay

\* How many days it takes until a plan comes round again.
Period(plan) == CASE plan.frequency = "daily" -> 1
                  [] plan.frequency = "weekly" -> DaysPerWeek
                  [] plan.frequency = "monthly" -> DaysPerMonth

\* The time of the plan in the day, week or month of now.
InThisPeriod(plan, now) ==
  (Day(now) - (Day(now) % Period(plan)) + plan.day) * HoursPerDay + plan.hour

\* A time on the day of now has passed once its hour has begun.
Passed(time, now) == time < now \/ (Day(time) = Day(now) /\ Hour(now) >= Hour(time))

NextSendAt(plan, now) ==
  LET this == InThisPeriod(plan, now)
  IN this + IF Passed(this, now) THEN Period(plan) * HoursPerDay ELSE 0

-----------------------------------------------------------------------------
\* The reference: the times at which a plan wants a report.
Occurs(plan, time) ==
  /\ Hour(time) = plan.hour
  /\ Day(time) % Period(plan) = plan.day
=============================================================================
