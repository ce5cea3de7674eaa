------------------------ MODULE Subscriptions_proofs ------------------------
(***************************************************************************)
(* Proofs about Subscriptions for any number of subscriptions, jobs and     *)
(* requests, any plans, any length of the day, the week and the month.      *)
(*                                                                         *)
(* First the calendar: the time that calculateNextSendAt gives is the first  *)
(* later one of the plan.  Then Sane: every row, stored or read by somebody   *)
(* who may store it later, fits its plan.  Then Mailing: of a subscription    *)
(* that no two jobs held at once and no job left mailed but unmarked, what    *)
(* was mailed lies behind what it waits for, or the job that mailed it has     *)
(* still to mark it.                                                        *)
(*                                                                         *)
(* Last the figures of which the mailed reports are made (Figures): sums and   *)
(* medians over groups of sessions, the buckets of a series, the period of      *)
(* comparison, and rows cut off at a limit.                                  *)
(***************************************************************************)
EXTENDS Subscriptions, Figures, FiniteSetTheorems, SequenceTheorems, WellFoundedInduction, TLAPS

-----------------------------------------------------------------------------
(* Quotients and remainders. *)

\* A number is made of its quotient and its remainder.
LEMMA Division ==
  ASSUME NEW x \in Nat, NEW n \in Nat \ {0}
  PROVE  x = (x \div n) * n + (x % n) /\ x % n \in 0..n - 1 /\ x \div n \in Nat
<1>1. x = n * (x \div n) + (x % n)
  OBVIOUS
<1>2. x % n \in 0..n - 1
  OBVIOUS
<1>3. x \div n \in Nat
  OBVIOUS
<1> QED BY <1>1, <1>2, <1>3

\* Multiplication keeps the order.
LEMMA Monotone ==
  ASSUME NEW a \in Int, NEW b \in Int, NEW n \in Nat, a <= b
  PROVE  a * n <= b * n
OBVIOUS

\* A greater quotient makes a greater number, whatever the remainders.
LEMMA GreaterQuotient ==
  ASSUME NEW n \in Nat \ {0}, NEW a \in Int, NEW b \in Int, NEW r \in 0..n - 1, NEW s \in 0..n - 1, a < b
  PROVE  a * n + r < b * n + s
<1>1. (a + 1) * n <= b * n
  BY Monotone
<1>2. (a + 1) * n = a * n + n /\ a * n \in Int /\ b * n \in Int
  OBVIOUS
<1> QED BY <1>1, <1>2

\* Quotient and remainder are unique.
LEMMA Unique ==
  ASSUME NEW n \in Nat \ {0}, NEW a \in Nat, NEW r \in 0..n - 1
  PROVE  a * n + r \in Nat /\ (a * n + r) \div n = a /\ (a * n + r) % n = r
<1>1. a * n \in Nat
  OBVIOUS
<1>2. PICK x : x = a * n + r
  OBVIOUS
<1>3. x \in Nat
  BY <1>1, <1>2
<1>4. x = (x \div n) * n + (x % n) /\ x % n \in 0..n - 1 /\ x \div n \in Nat
  BY <1>3, Division
<1>5. PICK q, s : q = x \div n /\ s = x % n
  OBVIOUS
<1>6. q \in Nat /\ s \in 0..n - 1 /\ a * n + r = q * n + s
  BY <1>2, <1>4, <1>5
<1>7. ~(a < q) /\ ~(q < a)
  BY <1>6, GreaterQuotient
<1>8. a = q
  BY <1>6, <1>7
<1>9. s = r
  BY <1>1, <1>6, <1>8
<1> QED BY <1>2, <1>3, <1>5, <1>8, <1>9

-----------------------------------------------------------------------------
(* The calendar. *)

\* The time of a plan in the q-th day, week or month.
TimeOf(plan, q) == (q * Period(plan) + plan.day) * HoursPerDay + plan.hour

\* Every plan comes round at a day of its period and an hour of that.
LEMMA PlansFit ==
  ASSUME NEW plan \in Plan
  PROVE  Period(plan) \in Nat \ {0} /\ plan.day \in 0..Period(plan) - 1 /\ plan.hour \in 0..HoursPerDay - 1
<1>1. CASE plan \in [frequency : {"daily"}, hour : 0..HoursPerDay - 1, day : {0}]
  BY <1>1 DEF Period
<1>2. CASE plan \in [frequency : {"weekly"}, hour : 0..HoursPerDay - 1, day : 0..DaysPerWeek - 1]
  BY <1>2, CalendarAssumption DEF Period
<1>3. CASE plan \in [frequency : {"monthly"}, hour : 0..HoursPerDay - 1, day : 0..DaysPerMonth - 1]
  BY <1>3, CalendarAssumption DEF Period
<1> QED BY <1>1, <1>2, <1>3 DEF Plan

\* Those are times at which it occurs.
LEMMA TimesOccur ==
  ASSUME NEW plan \in Plan, NEW q \in Nat
  PROVE  /\ TimeOf(plan, q) \in Nat
         /\ Day(TimeOf(plan, q)) = q * Period(plan) + plan.day /\ Hour(TimeOf(plan, q)) = plan.hour
         /\ Occurs(plan, TimeOf(plan, q))
<1> DEFINE d == q * Period(plan) + plan.day
<1>0. Period(plan) \in Nat \ {0} /\ plan.day \in 0..Period(plan) - 1 /\ plan.hour \in 0..HoursPerDay - 1
  BY PlansFit
<1>1. d \in Nat /\ d % Period(plan) = plan.day
  BY <1>0, Unique
<1> HIDE DEF d
<1>2. HoursPerDay \in Nat \ {0}
  BY CalendarAssumption
<1>3. /\ d * HoursPerDay + plan.hour \in Nat
      /\ (d * HoursPerDay + plan.hour) \div HoursPerDay = d
      /\ (d * HoursPerDay + plan.hour) % HoursPerDay = plan.hour
  BY <1>0, <1>1, <1>2, Unique
<1>4. TimeOf(plan, q) = d * HoursPerDay + plan.hour
  BY DEF TimeOf, d
<1>5. TimeOf(plan, q) \in Nat /\ Day(TimeOf(plan, q)) = d /\ Hour(TimeOf(plan, q)) = plan.hour
  BY <1>3, <1>4 DEF Day, Hour
<1> QED BY <1>1, <1>5 DEF Occurs, d

\* And there are no others.
LEMMA OccursAtTimes ==
  ASSUME NEW plan \in Plan, NEW time \in Nat, Occurs(plan, time)
  PROVE  \E q \in Nat : time = TimeOf(plan, q)
<1>0. Period(plan) \in Nat \ {0} /\ plan.day \in 0..Period(plan) - 1 /\ HoursPerDay \in Nat \ {0}
  BY PlansFit, CalendarAssumption
<1>1. time = Day(time) * HoursPerDay + plan.hour /\ Day(time) \in Nat
  BY <1>0, Division DEF Occurs, Day, Hour
<1>2. PICK q : q = Day(time) \div Period(plan)
  OBVIOUS
<1>3. Day(time) = q * Period(plan) + plan.day /\ q \in Nat
  BY <1>0, <1>1, <1>2, Division DEF Occurs
<1> QED BY <1>1, <1>3 DEF TimeOf

\* Later periods have later times, and those of earlier ones than today's have passed.
LEMMA TimesAreOrdered ==
  ASSUME NEW plan \in Plan, NEW q \in Nat, NEW p \in Nat, q < p
  PROVE  TimeOf(plan, q) < TimeOf(plan, p) /\ TimeOf(plan, q) < p * Period(plan) * HoursPerDay
<1>0. /\ Period(plan) \in Nat \ {0} /\ plan.day \in 0..Period(plan) - 1
      /\ plan.hour \in 0..HoursPerDay - 1 /\ HoursPerDay \in Nat \ {0}
  BY PlansFit, CalendarAssumption
<1> DEFINE dq == q * Period(plan) + plan.day
           dp == p * Period(plan) + plan.day
           d0 == p * Period(plan) + 0
<1>1. dq < dp
  BY <1>0, GreaterQuotient
<1>2. dq < d0
  <2>1. 0 \in 0..Period(plan) - 1
    BY <1>0
  <2> QED BY <1>0, <2>1, GreaterQuotient
<1>3. dq \in Nat /\ dp \in Nat /\ d0 \in Nat /\ d0 = p * Period(plan)
  BY <1>0
<1> HIDE DEF dq, dp, d0
<1>4. dq * HoursPerDay + plan.hour < dp * HoursPerDay + plan.hour
  BY <1>0, <1>1, <1>3, GreaterQuotient
<1>5. dq * HoursPerDay + plan.hour < d0 * HoursPerDay + 0
  <2>1. 0 \in 0..HoursPerDay - 1
    BY <1>0
  <2> QED BY <1>0, <1>2, <1>3, <2>1, GreaterQuotient
<1>6. d0 * HoursPerDay + 0 = p * Period(plan) * HoursPerDay
  BY <1>0, <1>3
<1> QED BY <1>4, <1>5, <1>6 DEF TimeOf, dq, dp

\* calculateNextSendAt gives a time later than now at which the plan occurs, and the first of them.
THEOREM NextIsFirst ==
  ASSUME NEW plan \in Plan, NEW now \in Nat
  PROVE  /\ NextSendAt(plan, now) \in Nat /\ NextSendAt(plan, now) > now
         /\ Occurs(plan, NextSendAt(plan, now))
         /\ \A time \in now + 1..NextSendAt(plan, now) - 1 : ~Occurs(plan, time)
<1>0. /\ Period(plan) \in Nat \ {0} /\ plan.day \in 0..Period(plan) - 1
      /\ plan.hour \in 0..HoursPerDay - 1 /\ HoursPerDay \in Nat \ {0}
  BY PlansFit, CalendarAssumption
<1>1. now = Day(now) * HoursPerDay + Hour(now) /\ Day(now) \in Nat /\ Hour(now) \in 0..HoursPerDay - 1
  BY <1>0, Division DEF Day, Hour
<1>2. PICK q : q = Day(now) \div Period(plan)
  OBVIOUS
<1>3. q \in Nat /\ Day(now) = q * Period(plan) + (Day(now) % Period(plan)) /\ Day(now) % Period(plan) \in Nat
  <2>1. PICK d : d = Day(now)
    OBVIOUS
  <2>2. d = (d \div Period(plan)) * Period(plan) + (d % Period(plan)) /\ d % Period(plan) \in 0..Period(plan) - 1
        /\ d \div Period(plan) \in Nat
    BY <1>0, <1>1, <2>1, Division
  <2>3. d % Period(plan) \in Nat
    BY <1>0, <2>2
  <2> QED BY <1>2, <2>1, <2>2, <2>3
<1>4. Day(now) - (Day(now) % Period(plan)) = q * Period(plan)
  BY <1>0, <1>1, <1>3
<1>5. InThisPeriod(plan, now) = TimeOf(plan, q)
  BY <1>4 DEF InThisPeriod, TimeOf
<1>6. TimeOf(plan, q) + Period(plan) * HoursPerDay = TimeOf(plan, q + 1)
  BY <1>0, <1>3 DEF TimeOf
<1>7. q * Period(plan) * HoursPerDay <= now
  <2>1. q * Period(plan) <= Day(now) /\ q * Period(plan) \in Int
    BY <1>0, <1>1, <1>3
  <2>2. (q * Period(plan)) * HoursPerDay <= Day(now) * HoursPerDay
    BY <1>0, <1>1, <2>1, Monotone
  <2>3. (q * Period(plan)) * HoursPerDay \in Int /\ Day(now) * HoursPerDay \in Int
    BY <1>0, <1>1, <2>1
  <2> QED BY <1>0, <1>1, <2>2, <2>3
<1>8. TimeOf(plan, q) \in Nat /\ TimeOf(plan, q + 1) \in Nat
  BY <1>3, TimesOccur
<1>9. CASE Passed(TimeOf(plan, q), now)
  <2>1. NextSendAt(plan, now) = TimeOf(plan, q + 1)
    BY <1>5, <1>6, <1>9 DEF NextSendAt
  <2>2. TimeOf(plan, q) <= now
    <3>1. CASE TimeOf(plan, q) < now
      BY <1>8, <3>1
    <3>2. CASE Day(TimeOf(plan, q)) = Day(now) /\ Hour(now) >= Hour(TimeOf(plan, q))
      <4>1. TimeOf(plan, q) = Day(TimeOf(plan, q)) * HoursPerDay + Hour(TimeOf(plan, q))
        BY <1>3, TimesOccur DEF TimeOf
      <4>2. Hour(TimeOf(plan, q)) \in Int /\ Day(now) * HoursPerDay \in Int
        BY <1>0, <1>1, <1>3, TimesOccur
      <4> QED BY <1>1, <3>2, <4>1, <4>2
    <3> QED BY <1>9, <3>1, <3>2 DEF Passed
  <2>3. TimeOf(plan, q + 1) > now
    <3>1. Day(now) < (q + 1) * Period(plan)
      <4>1. Day(now) % Period(plan) \in 0..Period(plan) - 1
        BY <1>0, <1>1, Division
      <4>2. (q + 1) * Period(plan) = q * Period(plan) + Period(plan) /\ q * Period(plan) \in Int
        BY <1>0, <1>3
      <4> QED BY <1>0, <1>3, <4>1, <4>2
    <3>2. PICK e : e = (q + 1) * Period(plan) + plan.day
      OBVIOUS
    <3>3. e \in Nat /\ Day(now) < e
      <4>1. (q + 1) * Period(plan) \in Nat
        BY <1>0, <1>3
      <4> QED BY <1>0, <1>1, <3>1, <3>2, <4>1
    <3>4. Day(now) * HoursPerDay + Hour(now) < e * HoursPerDay + plan.hour
      BY <1>0, <1>1, <3>3, GreaterQuotient
    <3> QED BY <1>1, <3>2, <3>4 DEF TimeOf
  <2>4. ASSUME NEW time \in now + 1..TimeOf(plan, q + 1) - 1, Occurs(plan, time) PROVE FALSE
    <3>0. time \in Nat /\ time > now /\ time < TimeOf(plan, q + 1)
      BY <1>8
    <3>1. PICK p \in Nat : time = TimeOf(plan, p)
      BY <2>4, <3>0, OccursAtTimes
    <3>2. CASE q + 1 < p
      BY <1>3, <1>8, <3>0, <3>1, <3>2, TimesAreOrdered
    <3>3. CASE p < q
      BY <1>3, <1>8, <2>2, <3>0, <3>1, <3>3, TimesAreOrdered
    <3>4. CASE p = q \/ p = q + 1
      BY <1>8, <2>2, <3>0, <3>1, <3>4
    <3> QED BY <1>3, <3>2, <3>3, <3>4
  <2> QED BY <1>3, <1>8, <2>1, <2>3, <2>4, TimesOccur
<1>10. CASE ~Passed(TimeOf(plan, q), now)
  <2>1. NextSendAt(plan, now) = TimeOf(plan, q)
    BY <1>5, <1>8, <1>10 DEF NextSendAt
  <2>2. TimeOf(plan, q) > now
    <3>1. TimeOf(plan, q) # now
      <4> SUFFICES ASSUME TimeOf(plan, q) = now PROVE FALSE
        OBVIOUS
      <4> QED BY <1>1, <1>10 DEF Passed
    <3> QED BY <1>8, <1>10, <3>1 DEF Passed
  <2>3. ASSUME NEW time \in now + 1..TimeOf(plan, q) - 1, Occurs(plan, time) PROVE FALSE
    <3>0. time \in Nat /\ time > now /\ time < TimeOf(plan, q)
      BY <1>8
    <3>1. PICK p \in Nat : time = TimeOf(plan, p)
      BY <2>3, <3>0, OccursAtTimes
    <3>2. CASE q < p
      BY <1>3, <1>8, <3>0, <3>1, <3>2, TimesAreOrdered
    <3>3. CASE p < q
      <4>1. time < q * Period(plan) * HoursPerDay
        BY <1>3, <3>1, <3>3, TimesAreOrdered
      <4>2. q * Period(plan) * HoursPerDay \in Int
        BY <1>0, <1>3
      <4> QED BY <1>7, <3>0, <4>1, <4>2
    <3> QED BY <1>3, <3>0, <3>1, <3>2, <3>3
  <2> QED BY <1>3, <1>8, <2>1, <2>2, <2>3, TimesOccur
<1> QED BY <1>9, <1>10

-----------------------------------------------------------------------------
(* Rows and tasks. *)

\* A row waits for a time its plan wants, and none between now and then is left out.
Awaits(row, now) ==
  /\ row.next \in Nat /\ Occurs(row.plan, row.next)
  /\ \A time \in now + 1..row.next - 1 : ~Occurs(row.plan, time)

RowFits(row, now) ==
  /\ row.status \in {"active", "paused"} => row.failures < MaxFailures
  /\ row.status = "active" => Awaits(row, now)

Stores == {"update", "pause", "resume", "delete", "markSent", "markFailed"}

\* What a task is about to store it makes of a row that fits; a job has only what was due.
TaskFits(w, x, now) ==
  x \in Task =>
    /\ x.at = "store" => /\ x.op \in Stores /\ x.row \in Row
                         /\ x.row.status \in {"active", "paused"} /\ RowFits(x.row, now)
    /\ w \in Jobs => /\ x.op \in {"markSent", "markFailed"}
                     /\ x.due.next <= now /\ \A k \in DOMAIN x.rest : x.rest[k].next <= now
    /\ w \in Calls => x.op # "markFailed"

Sane ==
  /\ clock \in 0..MaxClock /\ faults \in 0..MaxFaults
  /\ rows \in [Subs -> Row \cup {NoRow}] /\ work \in [Workers -> {Idle, Done} \cup Task]
  /\ \A s \in Subs : RowFits(rows[s], clock)
  /\ \A w \in Workers : TaskFits(w, work[w], clock)

\* Time only takes away from what lies between.
LEMMA FitsLater ==
  ASSUME NEW now \in Nat, NEW later \in Nat, now <= later
  PROVE  /\ \A row : RowFits(row, now) => RowFits(row, later)
         /\ \A w \in Workers : \A x : TaskFits(w, x, now) => TaskFits(w, x, later)
<1>1. ASSUME NEW row, RowFits(row, now) PROVE RowFits(row, later)
  <2>1. ASSUME row.status = "active" PROVE Awaits(row, later)
    <3>1. Awaits(row, now)
      BY <1>1, <2>1 DEF RowFits
    <3>2. \A time \in later + 1..row.next - 1 : time \in now + 1..row.next - 1
      BY <3>1 DEF Awaits
    <3> QED BY <3>1, <3>2 DEF Awaits
  <2> QED BY <1>1, <2>1 DEF RowFits
<1>2. ASSUME NEW w \in Workers, NEW x, TaskFits(w, x, now) PROVE TaskFits(w, x, later)
  <2> SUFFICES ASSUME x \in Task PROVE TaskFits(w, x, later)
    BY DEF TaskFits
  <2>1. x.at = "store" => /\ x.op \in Stores /\ x.row \in Row
                          /\ x.row.status \in {"active", "paused"} /\ RowFits(x.row, later)
    BY <1>1, <1>2 DEF TaskFits
  <2>2. x.due.next \in Nat /\ \A k \in DOMAIN x.rest : x.rest[k].next \in Nat
    <3>1. x.due \in Due /\ x.rest \in Seq(Due)
      BY DEF Task
    <3>2. \A k \in DOMAIN x.rest : x.rest[k] \in Due
      BY <3>1
    <3> QED BY <3>1, <3>2 DEF Due
  <2>3. w \in Jobs => /\ x.op \in {"markSent", "markFailed"}
                      /\ x.due.next <= later /\ \A k \in DOMAIN x.rest : x.rest[k].next <= later
    BY <1>2, <2>2 DEF TaskFits
  <2>4. w \in Calls => x.op # "markFailed"
    BY <1>2 DEF TaskFits
  <2> QED BY <2>1, <2>3, <2>4 DEF TaskFits
<1> QED BY <1>1, <1>2

\* A worker without a task has none of the fields of one.
LEMMA TasksDiffer == Idle \notin Task /\ Done \notin Task /\ Idle.at = "idle" /\ Done.at = "done"
<1>1. \A x \in Task : x.at \in {"check", "mail", "read", "store", "audit"}
  BY DEF Task
<1>2. Idle.at = "idle" /\ Done.at = "done"
  BY DEF Idle, Done
<1> QED BY <1>1, <1>2

\* A row that is given its next time from now on.
LEMMA RowFromNow ==
  ASSUME Sane, NEW row \in Row, NEW plan \in Plan, NEW x, x = FromNow(row, plan)
  PROVE  /\ x \in Row /\ x.plan = plan /\ x.status = row.status /\ x.failures = row.failures
         /\ Awaits(x, clock) /\ x.next > clock
<1>1. clock \in Nat
  BY DEF Sane
<1>2. PICK next : next = NextSendAt(plan, clock)
  OBVIOUS
<1>3. /\ next \in Nat /\ next > clock /\ Occurs(plan, next)
      /\ \A time \in clock + 1..next - 1 : ~Occurs(plan, time)
  BY <1>1, <1>2, NextIsFirst
<1>4. /\ x \in Row /\ x.plan = plan /\ x.status = row.status /\ x.failures = row.failures /\ x.next = next
  <2>1. x = [row EXCEPT !.plan = plan, !.next = next]
    BY <1>2 DEF FromNow
  <2>2. next \in Int
    BY <1>3
  <2> QED BY <2>1, <2>2 DEF Row
<1> QED BY <1>3, <1>4 DEF Awaits

\* What the operations make of a row that fits: one that fits, that only resume makes active and only
\* markFailed leaves waiting for the same time.
LEMMA ChangesFit ==
  ASSUME Sane, NEW op \in Stores, NEW row \in Row, row.status \in {"active", "paused"}, RowFits(row, clock),
         NEW x \in Changed(op, row)
  PROVE  /\ x \in Row /\ RowFits(x, clock)
         /\ x.status = "active" => /\ row.status = "active" \/ op = "resume"
                                   /\ x.next > clock \/ (op = "markFailed" /\ x.next = row.next)
<1>0. /\ row.status \in {"active", "paused", "disabled"} /\ row.plan \in Plan /\ row.next \in Int
      /\ row.failures \in 0..MaxFailures /\ row.failures < MaxFailures /\ Plans \subseteq Plan
      /\ MaxFailures \in Nat /\ Never \in Int
  BY SubscriptionsAssumption DEF Row, RowFits, Never
<1>1. CASE op = "update"
  <2>1. PICK plan \in Plans : x = Update(row, plan)
    BY <1>1 DEF Changed
  <2>2. CASE row.status = "active"
    BY <1>0, <2>1, <2>2, RowFromNow DEF Update, RowFits
  <2>3. CASE row.status # "active"
    <3>1. x = [row EXCEPT !.plan = plan, !.next = Never]
      BY <2>1, <2>3 DEF Update
    <3>2. x \in Row /\ x.status = row.status /\ x.failures = row.failures
      BY <1>0, <2>1, <3>1 DEF Row
    <3> QED BY <1>0, <2>3, <3>2 DEF RowFits
  <2> QED BY <2>2, <2>3
<1>2. CASE op = "pause" \/ op = "delete"
  <2>1. x = Pause(row) \/ x = Delete(row)
    BY <1>2 DEF Changed
  <2>2. x \in Row /\ x.status # "active" /\ x.failures = row.failures
    BY <1>0, <2>1 DEF Pause, Delete, Row
  <2> QED BY <1>0, <2>2 DEF RowFits
<1>3. CASE op = "resume"
  <2>1. PICK y : y = FromNow(row, row.plan)
    OBVIOUS
  <2>2. /\ y \in Row /\ y.plan = row.plan /\ y.failures = row.failures /\ Awaits(y, clock) /\ y.next > clock
    BY <1>0, <2>1, RowFromNow
  <2>3. x = [y EXCEPT !.status = "active"]
    BY <1>3, <2>1 DEF Changed, Resume
  <2>4. x \in Row /\ x.plan = y.plan /\ x.failures = y.failures /\ x.next = y.next
    BY <2>2, <2>3 DEF Row
  <2> QED BY <1>0, <1>3, <2>2, <2>4 DEF RowFits, Awaits
<1>4. CASE op = "markSent"
  <2>1. PICK y : y = FromNow(row, row.plan)
    OBVIOUS
  <2>2. /\ y \in Row /\ y.plan = row.plan /\ y.status = row.status /\ Awaits(y, clock) /\ y.next > clock
    BY <1>0, <2>1, RowFromNow
  <2>3. x = [y EXCEPT !.failures = 0]
    BY <1>4, <2>1 DEF Changed, MarkSent
  <2>4. x \in Row /\ x.plan = y.plan /\ x.status = y.status /\ x.next = y.next /\ x.failures = 0
    BY <1>0, <2>2, <2>3 DEF Row
  <2> QED BY <1>0, <2>2, <2>4 DEF RowFits, Awaits
<1>5. CASE op = "markFailed"
  <2>1. x = MarkFailed(row)
    BY <1>5 DEF Changed
  <2>2. /\ x \in Row /\ x.failures = row.failures + 1 /\ x.next = row.next /\ x.plan = row.plan
        /\ x.status = IF row.failures + 1 >= MaxFailures THEN "disabled" ELSE row.status
    <3>1. PICK status, failures : /\ status = IF row.failures + 1 >= MaxFailures THEN "disabled" ELSE row.status
                                  /\ failures = row.failures + 1
      OBVIOUS
    <3>2. x = [row EXCEPT !.failures = failures, !.status = status]
      BY <2>1, <3>1 DEF MarkFailed
    <3>3. failures \in 0..MaxFailures /\ status \in {"active", "paused", "disabled"}
      BY <1>0, <3>1
    <3> QED BY <3>1, <3>2, <3>3 DEF Row
  <2>3. x.status \in {"active", "paused"} => x.failures < MaxFailures /\ x.status = row.status
    BY <1>0, <2>2
  <2> QED BY <1>0, <1>5, <2>2, <2>3 DEF RowFits, Awaits
<1> QED BY <1>1, <1>2, <1>3, <1>4, <1>5 DEF Stores

Places == {"check", "mail", "read", "store", "audit"}
Ops == {"update", "pause", "resume", "delete", "sendNow", "markSent", "markFailed"}

\* A task that only goes to another place is one about the same subscription.
LEMMA TaskMoves ==
  ASSUME NEW t \in Task, NEW at \in Places, NEW x, x = [t EXCEPT !.at = at]
  PROVE  x \in Task /\ x.at = at /\ x.op = t.op /\ x.row = t.row /\ x.due = t.due /\ x.rest = t.rest
BY DEF Task, Places

\* What a task becomes that goes on to another place, operation and row.
Going(t, at, op, row) == [t EXCEPT !.at = at, !.op = op, !.row = row]

\* It is about the same subscription.
LEMMA TaskGoesOn ==
  ASSUME NEW t \in Task, NEW at \in Places, NEW op \in Ops, NEW row, row \in Row \/ row = NoRow
  PROVE  /\ Going(t, at, op, row) \in Task
         /\ Going(t, at, op, row).at = at /\ Going(t, at, op, row).op = op
         /\ Going(t, at, op, row).row = row
         /\ Going(t, at, op, row).due = t.due /\ Going(t, at, op, row).rest = t.rest
BY DEF Task, Places, Ops, Going

\* It fits if it has read nothing or a row that fits.
LEMMA FitsOn ==
  ASSUME NEW now, NEW w \in Workers, NEW t \in Task, TaskFits(w, t, now),
         NEW x, x.due = t.due, x.rest = t.rest,
         x.op = t.op \/ x.op = "markSent" \/ (w \notin Calls /\ x.op = "markFailed"),
         x.at = "store" => x.op \in Stores /\ x.row \in Row /\ x.row.status \in {"active",
         "paused"} /\ RowFits(x.row, now)
  PROVE  TaskFits(w, x, now)
BY DEF TaskFits

\* A job turns to what was due when it began.
LEMMA CheckFits ==
  ASSUME NEW now \in Nat, NEW j \in Jobs, NEW due \in Seq(Due), \A k \in DOMAIN due : due[k].next <= now,
         NEW x, x = Check(due)
  PROVE  x \in {Idle, Done} \cup Task /\ TaskFits(j, x, now) /\ x.at \in {"idle", "check"}
<1>1. CASE due = <<>>
  BY <1>1, TasksDiffer DEF Check, TaskFits
<1>2. CASE due # <<>>
  <2>1. /\ Head(due) \in Due /\ Head(due) = due[1] /\ 1 \in DOMAIN due
        /\ Tail(due) \in Seq(Due) /\ \A k \in DOMAIN Tail(due) : k + 1 \in DOMAIN due /\ Tail(due)[k] = due[k + 1]
    BY <1>2, HeadTailProperties
  <2>2. x = [at |-> "check", op |-> "markSent", due |-> Head(due), rest |-> Tail(due), row |-> NoRow]
    BY <1>2 DEF Check
  <2>3. x \in Task /\ x.at = "check" /\ x.op = "markSent" /\ x.due = Head(due) /\ x.rest = Tail(due)
    BY <2>1, <2>2 DEF Task
  <2>4. x.due.next <= now /\ \A k \in DOMAIN x.rest : x.rest[k].next <= now
    BY <2>1, <2>3
  <2>5. j \notin Calls
    BY SubscriptionsAssumption
  <2> QED BY <2>3, <2>4, <2>5 DEF TaskFits
<1> QED BY <1>1, <1>2

\* What an error makes of a task.
LEMMA ThrownFits ==
  ASSUME Sane, NEW w \in Workers, work[w] \in Task, NEW x, x = Thrown(w)
  PROVE  /\ x \in {Idle, Done} \cup Task /\ TaskFits(w, x, clock)
         /\ \/ x.at \in {"idle", "done"} /\ (w \in Jobs => work[w].op = "markFailed")
            \/ x.at = "read" /\ x.op = "markFailed" /\ x.due = work[w].due /\ w \in Jobs
<1>1. CASE w \in Calls \/ work[w].op = "markFailed"
  <2>1. x = Done \/ x = Idle
    BY <1>1 DEF Thrown
  <2> QED BY <1>1, <2>1, TasksDiffer, SubscriptionsAssumption DEF TaskFits
<1>2. CASE w \notin Calls /\ work[w].op # "markFailed"
  <2>1. x = [work[w] EXCEPT !.at = "read", !.op = "markFailed", !.row = NoRow]
    BY <1>2 DEF Thrown
  <2>2. x \in Task /\ x.at = "read" /\ x.op = "markFailed" /\ x.due = work[w].due /\ x.rest = work[w].rest
    <3>1. PICK at, op, row : at = "read" /\ op = "markFailed" /\ row = NoRow
      OBVIOUS
    <3>2. at \in Places /\ op \in Ops /\ x = Going(work[w], at, op, row)
      BY <2>1, <3>1 DEF Places, Ops, Going
    <3> QED BY <3>1, <3>2, TaskGoesOn
  <2>3. TaskFits(w, work[w], clock)
    BY DEF Sane
  <2>4. TaskFits(w, x, clock)
    BY <1>2, <2>2, <2>3, FitsOn
  <2> QED BY <1>2, <2>2, <2>4 DEF Workers
<1> QED BY <1>1, <1>2

\* A worker goes on with a task that fits, and may store a row that does.
LEMMA WorkerGoesOn ==
  ASSUME Sane, NEW w \in Workers, NEW x \in {Idle, Done} \cup Task, TaskFits(w, x, clock),
         work' = [work EXCEPT ![w] = x], clock' = clock, faults' \in 0..MaxFaults,
         \/ rows' = rows
         \/ \E s \in Subs : \E row \in Row : RowFits(row, clock) /\ rows' = [rows EXCEPT ![s] = row]
  PROVE  Sane'
<1>1. /\ work' \in [Workers -> {Idle, Done} \cup Task]
      /\ \A v \in Workers : TaskFits(v, work'[v], clock')
  BY DEF Sane
<1>2. /\ rows' \in [Subs -> Row \cup {NoRow}]
      /\ \A s \in Subs : RowFits(rows'[s], clock')
  BY DEF Sane
<1> QED BY <1>1, <1>2 DEF Sane

\* What a worker stores fits.
LEMMA StoredFits ==
  ASSUME Sane, NEW w \in Workers, At(w, "store"), Stored(w)
  PROVE  /\ work[w] \in Task /\ Sub(w) \in Subs /\ work[w].op \in Stores
         /\ work[w].row \in Row /\ work[w].row.status \in {"active", "paused"} /\ RowFits(work[w].row, clock)
         /\ \E row \in Row : /\ row \in Changed(work[w].op, work[w].row)
                             /\ RowFits(row, clock) /\ rows' = [rows EXCEPT ![Sub(w)] = row]
         /\ Sub(w) \in raced' \/ work[w].row = rows[Sub(w)]
<1>1. work[w] \in Task
  BY TasksDiffer DEF Sane, At
<1>2. Sub(w) \in Subs
  BY <1>1 DEF Sub, Task, Due
<1>3. /\ work[w].op \in Stores
      /\ work[w].row \in Row /\ work[w].row.status \in {"active", "paused"} /\ RowFits(work[w].row, clock)
  BY <1>1 DEF At, Sane, TaskFits
<1>4. PICK row \in Changed(work[w].op, work[w].row) : rows' = [rows EXCEPT ![Sub(w)] = row]
  BY DEF Stored
<1>5. row \in Row /\ RowFits(row, clock)
  BY <1>3, ChangesFit
<1>6. Sub(w) \in raced' \/ work[w].row = rows[Sub(w)]
  BY DEF Stored
<1> QED BY <1>1, <1>2, <1>3, <1>4, <1>5, <1>6

\* Every step of a job, a request or the surroundings leaves rows and tasks that fit.
LEMMA StepIsSane == Sane /\ [Next]_vars => Sane'
<1> SUFFICES ASSUME Sane, [Next]_vars PROVE Sane'
  OBVIOUS
<1>0. /\ clock \in Nat /\ faults \in 0..MaxFaults /\ MaxFaults \in Nat /\ MaxClock \in Nat
      /\ rows \in [Subs -> Row \cup {NoRow}] /\ work \in [Workers -> {Idle, Done} \cup Task]
      /\ \A w \in Workers : TaskFits(w, work[w], clock)
      /\ Jobs \subseteq Workers /\ Calls \subseteq Workers
  BY SubscriptionsAssumption DEF Sane, Workers
<1>1. CASE UNCHANGED vars
  BY <1>1 DEF vars, Sane
<1>2. ASSUME NEW s \in Subs, Create(s) PROVE Sane'
  <2>1. PICK plan \in Plans : rows' = [rows EXCEPT ![s] = [status |-> "active", plan |-> plan,
                                         next |-> NextSendAt(plan, clock), failures |-> 0]]
    BY <1>2 DEF Create
  <2>2. PICK next : next = NextSendAt(plan, clock)
    OBVIOUS
  <2>3. plan \in Plan
    BY SubscriptionsAssumption
  <2>4. /\ next \in Nat /\ Occurs(plan, next) /\ \A time \in clock + 1..next - 1 : ~Occurs(plan, time)
    BY <1>0, <2>2, <2>3, NextIsFirst
  <2>5. PICK row : row = [status |-> "active", plan |-> plan, next |-> next, failures |-> 0]
    OBVIOUS
  <2>6. row \in Row /\ row.plan = plan /\ row.next = next /\ row.failures = 0 /\ 0 < MaxFailures
    BY <2>3, <2>4, <2>5, SubscriptionsAssumption DEF Row
  <2>7. RowFits(row, clock)
    BY <2>4, <2>6 DEF RowFits, Awaits
  <2>8. rows' = [rows EXCEPT ![s] = row] /\ UNCHANGED <<clock, work, faults>>
    BY <1>2, <2>1, <2>2, <2>5 DEF Create
  <2> QED BY <1>0, <2>6, <2>7, <2>8 DEF Sane
<1>3. ASSUME NEW c \in Calls, Begin(c) PROVE Sane'
  <2>1. PICK s \in Subs, op \in {"update", "pause", "resume", "delete", "sendNow"} :
          work' = [work EXCEPT ![c] = [at |-> "read", op |-> op, due |-> [sub |-> s, next |-> 0],
                                       rest |-> <<>>, row |-> NoRow]]
    BY <1>3 DEF Begin, GoesTo
  <2>2. PICK x : x = [at |-> "read", op |-> op, due |-> [sub |-> s, next |-> 0], rest |-> <<>>, row |-> NoRow]
    OBVIOUS
  <2>3. x \in Task /\ x.at = "read" /\ x.op = op
    BY <2>2 DEF Task, Due
  <2>4. TaskFits(c, x, clock)
    BY <2>3, SubscriptionsAssumption DEF TaskFits
  <2>5. UNCHANGED <<clock, rows, faults>>
    BY <1>3 DEF Begin
  <2> QED BY <1>0, <2>1, <2>2, <2>3, <2>4, <2>5, WorkerGoesOn
<1>4. ASSUME NEW j \in Jobs, CronFires(j) PROVE Sane'
  <2> DEFINE due == {s \in Subs : IsDue(s)}
             D == {[sub |-> s, next |-> rows[s].next] : s \in due}
  <2>1. PICK list \in [1..Cardinality(due) -> D] : work' = [work EXCEPT ![j] = Check(list)]
    BY <1>4 DEF CronFires, GoesTo
  <2>2. ASSUME NEW d \in D PROVE d \in Due /\ d.next <= clock
    <3>1. PICK s \in due : d = [sub |-> s, next |-> rows[s].next]
      OBVIOUS
    <3>2. rows[s].next \in Nat /\ rows[s].next <= clock /\ s \in Subs
      BY DEF Sane, RowFits, Awaits, IsDue
    <3> QED BY <3>1, <3>2 DEF Due
  <2>3. Cardinality(due) \in Nat
    <3>1. due \subseteq Subs /\ IsFiniteSet(Subs)
      BY SubscriptionsAssumption
    <3>2. IsFiniteSet(due)
      BY <3>1, FS_Subset
    <3> HIDE DEF due
    <3> QED BY <3>2, FS_CardinalityType
  <2> HIDE DEF due, D
  <2>4. list \in Seq(Due) /\ \A k \in DOMAIN list : list[k].next <= clock
    BY <2>2, <2>3
  <2>5. Check(list) \in {Idle, Done} \cup Task /\ TaskFits(j, Check(list), clock)
    BY <1>0, <2>4, CheckFits
  <2>6. UNCHANGED <<clock, rows, faults>>
    BY <1>4 DEF CronFires
  <2> QED BY <1>0, <2>1, <2>5, <2>6, WorkerGoesOn
<1>5. ASSUME NEW j \in Jobs, work[j] \in Task
      PROVE  Ended(j) \in {Idle, Done} \cup Task /\ TaskFits(j, Ended(j), clock)
  <2>1. work[j].rest \in Seq(Due) /\ \A k \in DOMAIN work[j].rest : work[j].rest[k].next <= clock
    BY <1>0, <1>5 DEF TaskFits, Task
  <2>2. Ended(j) = Check(work[j].rest)
    BY SubscriptionsAssumption DEF Ended
  <2> QED BY <1>0, <2>1, <2>2, CheckFits
<1>6. ASSUME NEW j \in Jobs, Recheck(j) PROVE Sane'
  <2>0. work[j] \in Task /\ UNCHANGED <<clock, rows, faults>>
    BY <1>0, <1>6, TasksDiffer DEF Recheck, At
  <2>1. CASE work' = [work EXCEPT ![j] = [work[j] EXCEPT !.at = "mail"]]
    <3>1. PICK x : x = [work[j] EXCEPT !.at = "mail"]
      OBVIOUS
    <3>2. x \in Task /\ TaskFits(j, x, clock)
      <4>1. x \in Task /\ x.at = "mail" /\ x.op = work[j].op /\ x.due = work[j].due /\ x.rest = work[j].rest
        BY <2>0, <3>1, TaskMoves DEF Places
      <4> QED BY <1>0, <2>0, <4>1, FitsOn
    <3> QED BY <1>0, <2>0, <2>1, <3>1, <3>2, WorkerGoesOn
  <2>2. CASE work' = [work EXCEPT ![j] = Ended(j)]
    BY <1>0, <1>5, <2>0, <2>2, WorkerGoesOn
  <2> QED BY <1>6, <2>1, <2>2 DEF Recheck, GoesTo
<1>7. ASSUME NEW w \in Workers, SendMail(w) PROVE Sane'
  <2>0. work[w] \in Task /\ UNCHANGED <<clock, rows, faults>>
    BY <1>0, <1>7, TasksDiffer DEF SendMail, At
  <2>1. PICK x : x = [work[w] EXCEPT !.at = "read", !.op = "markSent", !.row = NoRow]
    OBVIOUS
  <2>2. x \in Task /\ x.at = "read" /\ x.op = "markSent" /\ x.due = work[w].due /\ x.rest = work[w].rest
    <3>1. PICK at, op, row : at = "read" /\ op = "markSent" /\ row = NoRow
      OBVIOUS
    <3>2. at \in Places /\ op \in Ops /\ x = Going(work[w], at, op, row)
      BY <2>1, <3>1 DEF Places, Ops, Going
    <3> QED BY <2>0, <3>1, <3>2, TaskGoesOn
  <2>3. TaskFits(w, x, clock)
    BY <1>0, <2>0, <2>2, FitsOn
  <2>4. work' = [work EXCEPT ![w] = x]
    BY <1>7, <2>1 DEF SendMail, GoesTo
  <2> QED BY <1>0, <2>0, <2>2, <2>3, <2>4, WorkerGoesOn
<1>8. ASSUME NEW w \in Workers, Read(w) PROVE Sane'
  <2>0. work[w] \in Task /\ UNCHANGED <<clock, rows, faults>>
    BY <1>0, <1>8, TasksDiffer DEF Read, At
  <2>1. CASE ~Found(Sub(w))
    <3>1. work' = [work EXCEPT ![w] = Thrown(w)]
      BY <1>8, <2>1 DEF Read, GoesTo
    <3> QED BY <1>0, <2>0, <3>1, ThrownFits, WorkerGoesOn
  <2>2. CASE Found(Sub(w)) /\ work[w].op = "sendNow"
    <3>1. PICK x : x = [work[w] EXCEPT !.at = "mail"]
      OBVIOUS
    <3>2. x \in Task /\ TaskFits(w, x, clock)
      <4>1. x \in Task /\ x.at = "mail" /\ x.op = work[w].op /\ x.due = work[w].due /\ x.rest = work[w].rest
        BY <2>0, <3>1, TaskMoves DEF Places
      <4> QED BY <1>0, <2>0, <4>1, FitsOn
    <3>3. work' = [work EXCEPT ![w] = x]
      BY <1>8, <2>2, <3>1 DEF Read, GoesTo
    <3> QED BY <1>0, <2>0, <3>2, <3>3, WorkerGoesOn
  <2>3. CASE Found(Sub(w)) /\ work[w].op # "sendNow"
    <3>1. PICK x : x = [work[w] EXCEPT !.at = "store", !.row = rows[Sub(w)]]
      OBVIOUS
    <3>2. Sub(w) \in Subs
      BY <2>0 DEF Sub, Task, Due
    <3>3. rows[Sub(w)] \in Row
      BY <1>0, <2>3, <3>2 DEF Found, NoRow
    <3>4. x \in Task /\ TaskFits(w, x, clock)
      <4>1. /\ x \in Task /\ x.at = "store" /\ x.op = work[w].op /\ x.row = rows[Sub(w)]
            /\ x.due = work[w].due /\ x.rest = work[w].rest
        <5>1. PICK at, op, row : at = "store" /\ op = work[w].op /\ row = rows[Sub(w)]
          OBVIOUS
        <5>2. at \in Places /\ op \in Ops /\ row \in Row /\ x = Going(work[w], at, op, row)
          BY <2>0, <3>1, <3>3, <5>1 DEF Places, Ops, Task, Going
        <5> QED BY <2>0, <5>1, <5>2, TaskGoesOn
      <4>2. x.op \in Stores
        BY <2>0, <2>3, <4>1 DEF Task, Stores
      <4>3. x.row.status \in {"active", "paused"} /\ RowFits(x.row, clock)
        BY <2>3, <3>2, <4>1 DEF Found, Sane
      <4> QED BY <1>0, <2>0, <3>3, <4>1, <4>2, <4>3, FitsOn
    <3>5. work' = [work EXCEPT ![w] = x]
      BY <1>8, <2>3, <3>1 DEF Read, GoesTo
    <3> QED BY <1>0, <2>0, <3>4, <3>5, WorkerGoesOn
  <2> QED BY <2>1, <2>2, <2>3
<1>9. ASSUME NEW w \in Workers, Store(w) PROVE Sane'
  <2>0. At(w, "store") /\ Stored(w) /\ UNCHANGED <<clock, faults>>
    BY <1>9 DEF Store
  <2>1. work[w] \in Task
    BY <2>0, StoredFits
  <2>2. PICK x : x = IF w \in Calls THEN Done ELSE [work[w] EXCEPT !.at = "audit", !.row = NoRow]
    OBVIOUS
  <2>3. x \in {Idle, Done} \cup Task /\ TaskFits(w, x, clock)
    <3>1. CASE w \in Calls
      BY <2>2, <3>1, TasksDiffer DEF TaskFits
    <3>2. CASE w \notin Calls
      <4>1. x \in Task /\ x.at = "audit" /\ x.op = work[w].op /\ x.due = work[w].due /\ x.rest = work[w].rest
        <5>1. PICK at, op, row : at = "audit" /\ op = work[w].op /\ row = NoRow
          OBVIOUS
        <5>2. at \in Places /\ op \in Ops /\ x = Going(work[w], at, op, row)
          BY <2>1, <2>2, <3>2, <5>1 DEF Places, Ops, Task, Going
        <5> QED BY <2>1, <5>1, <5>2, TaskGoesOn
      <4> QED BY <1>0, <2>1, <4>1, FitsOn
    <3> QED BY <3>1, <3>2
  <2>4. work' = [work EXCEPT ![w] = x]
    BY <1>9, <2>2 DEF Store, GoesTo
  <2>5. \E s \in Subs : \E row \in Row : RowFits(row, clock) /\ rows' = [rows EXCEPT ![s] = row]
    BY <2>0, StoredFits
  <2> QED BY <1>0, <2>0, <2>3, <2>4, <2>5, WorkerGoesOn
<1>10. ASSUME NEW j \in Jobs, Audit(j) PROVE Sane'
  <2>0. work[j] \in Task /\ UNCHANGED <<clock, rows, faults>>
    BY <1>0, <1>10, TasksDiffer DEF Audit, At
  <2>1. work' = [work EXCEPT ![j] = Ended(j)]
    BY <1>10 DEF Audit, GoesTo
  <2> QED BY <1>0, <1>5, <2>0, <2>1, WorkerGoesOn
<1>11. ASSUME NEW w \in Workers, Fails(w) PROVE Sane'
  <2>0. /\ work[w] \in Task /\ clock' = clock /\ faults' \in 0..MaxFaults
        /\ work' = [work EXCEPT ![w] = Thrown(w)]
    BY <1>0, <1>11 DEF Fails, GoesTo
  <2>1. rows' = rows \/ (At(w, "store") /\ Stored(w))
    BY <1>11 DEF Fails
  <2>2. \/ rows' = rows
        \/ \E s \in Subs : \E row \in Row : RowFits(row, clock) /\ rows' = [rows EXCEPT ![s] = row]
    BY <2>1, StoredFits
  <2>3. Thrown(w) \in {Idle, Done} \cup Task /\ TaskFits(w, Thrown(w), clock)
    BY <2>0, ThrownFits
  <2> QED BY <2>0, <2>2, <2>3, WorkerGoesOn
<1>12. CASE Dies
  <2>1. /\ UNCHANGED <<clock, rows>> /\ faults' \in 0..MaxFaults
        /\ work' = [w \in Workers |-> IF w \in Jobs \/ work[w] = Idle THEN Idle ELSE Done]
    BY <1>0, <1>12 DEF Dies
  <2>2. \A w \in Workers : work'[w] \in {Idle, Done}
    BY <2>1
  <2>3. \A w \in Workers : TaskFits(w, work'[w], clock')
    BY <2>2, TasksDiffer DEF TaskFits
  <2> QED BY <1>0, <2>1, <2>2, <2>3 DEF Sane
<1>13. CASE Tick
  <2>1. clock' = clock + 1 /\ clock' \in 0..MaxClock /\ UNCHANGED <<rows, work, faults>>
    BY <1>0, <1>13 DEF Tick, Sane
  <2>2. clock' \in Nat /\ clock <= clock'
    BY <1>0, <2>1
  <2>3. /\ \A s \in Subs : RowFits(rows'[s], clock')
        /\ \A w \in Workers : TaskFits(w, work'[w], clock')
    BY <1>0, <2>1, <2>2, FitsLater DEF Sane
  <2> QED BY <1>0, <2>1, <2>3 DEF Sane
<1> QED
  BY <1>0, <1>1, <1>2, <1>3, <1>4, <1>6, <1>7, <1>8, <1>9, <1>10, <1>11, <1>12, <1>13 DEF Next, JobGoesOn

\* The history variables.
PastOK ==
  /\ mailed \in [Subs -> SUBSET Nat]
  /\ twice \subseteq Subs /\ overlapped \subseteq Subs
  /\ doubtful \subseteq Subs /\ raced \subseteq Subs

\* A worker that is at a place has a task with a subscription.
LEMMA HasTask ==
  ASSUME Sane, NEW w \in Workers, work[w] \notin {Idle, Done}
  PROVE  work[w] \in Task /\ Sub(w) \in Subs /\ work[w].due \in Due /\ work[w].due.next \in Nat
BY DEF Sane, Sub, Task, Due

\* So it has if it is where only tasks are.
LEMMA IsAtTask ==
  ASSUME NEW w, NEW place \in Places, At(w, place)
  PROVE  work[w] \notin {Idle, Done}
BY TasksDiffer DEF At, Places, Idle, Done

\* The recorded past is one of subscriptions and times.
LEMMA PastIsTyped == Sane /\ PastOK /\ [Next]_vars => PastOK'
<1> SUFFICES ASSUME Sane, PastOK, [Next]_vars PROVE PastOK'
  OBVIOUS
<1>0. Jobs \subseteq Workers /\ Calls \subseteq Workers
  BY DEF Workers
<1>1. ASSUME NEW w \in Workers, work[w] \notin {Idle, Done}, Mailed(w)
      PROVE  mailed' \in [Subs -> SUBSET Nat] /\ twice' \subseteq Subs
  BY <1>1, HasTask DEF Mailed, PastOK
<1>2. ASSUME NEW w \in Workers, work[w] \notin {Idle, Done}, Stored(w)
      PROVE  raced' \subseteq Subs
  BY <1>2, HasTask DEF Stored, PastOK
<1>3. ASSUME NEW j \in Jobs, work[j] \notin {Idle, Done}, Overlaps(j)
      PROVE  overlapped' \subseteq Subs
  BY <1>0, <1>3, HasTask DEF Overlaps, PastOK
<1>4. ASSUME NEW J, J \subseteq Jobs PROVE Unmarked(J) \subseteq Subs
  <2>1. ASSUME NEW j \in J, work[j].at \in {"read", "store"} PROVE Sub(j) \in Subs
    <3>1. work[j] \notin {Idle, Done}
      BY <2>1 DEF Idle, Done
    <3> QED BY <1>0, <1>4, <3>1, HasTask
  <2> QED BY <2>1 DEF Unmarked
<1>5. CASE UNCHANGED vars
  BY <1>5 DEF vars, pastVars, PastOK
<1>6. ASSUME NEW s \in Subs, Create(s) PROVE PastOK'
  BY <1>6 DEF Create, pastVars, PastOK
<1>7. ASSUME NEW c \in Calls, Begin(c) PROVE PastOK'
  BY <1>7 DEF Begin, pastVars, PastOK
<1>8. ASSUME NEW j \in Jobs, CronFires(j) PROVE PastOK'
  BY <1>8 DEF CronFires, pastVars, PastOK
<1>9. ASSUME NEW j \in Jobs, Recheck(j) PROVE PastOK'
  <2>1. work[j] \notin {Idle, Done}
    BY <1>9 DEF Recheck, At, Idle, Done
  <2> QED BY <1>3, <1>9, <2>1 DEF Recheck, PastOK
<1>10. ASSUME NEW w \in Workers, SendMail(w) PROVE PastOK'
  <2>1. work[w] \notin {Idle, Done}
    BY <1>10 DEF SendMail, At, Idle, Done
  <2> QED BY <1>1, <1>10, <2>1 DEF SendMail, PastOK
<1>11. ASSUME NEW w \in Workers, Read(w) PROVE PastOK'
  BY <1>11 DEF Read, pastVars, PastOK
<1>12. ASSUME NEW w \in Workers, Store(w) PROVE PastOK'
  <2>1. work[w] \notin {Idle, Done}
    BY <1>12 DEF Store, At, Idle, Done
  <2> QED BY <1>2, <1>12, <2>1 DEF Store, PastOK
<1>13. ASSUME NEW j \in Jobs, Audit(j) PROVE PastOK'
  BY <1>13 DEF Audit, pastVars, PastOK
<1>14. ASSUME NEW w \in Workers, Fails(w) PROVE PastOK'
  <2>0. work[w] \notin {Idle, Done}
    BY <1>14 DEF Fails
  <2>1. overlapped' \subseteq Subs
    BY <1>3, <1>14, <2>0 DEF Fails, PastOK
  <2>2. /\ mailed' \in [Subs -> SUBSET Nat] /\ twice' \subseteq Subs
        /\ raced' \subseteq Subs /\ doubtful' \subseteq Subs
    <3>1. CASE Mailed(w) /\ doubtful' = doubtful \cup {Sub(w)} /\ UNCHANGED <<rows, raced>>
      BY <1>1, <2>0, <3>1, HasTask DEF PastOK
    <3>2. CASE Stored(w) /\ UNCHANGED <<mailed, twice, doubtful>>
      BY <1>2, <2>0, <3>2 DEF PastOK
    <3>3. CASE doubtful' = doubtful \cup Unmarked({w} \cap Jobs) /\ UNCHANGED <<rows, raced, mailed, twice>>
      BY <1>4, <3>3 DEF PastOK
    <3> QED BY <1>14, <3>1, <3>2, <3>3 DEF Fails
  <2> QED BY <2>1, <2>2 DEF PastOK
<1>15. CASE Dies
  BY <1>4, <1>15 DEF Dies, PastOK
<1>16. CASE Tick
  BY <1>16 DEF Tick, pastVars, PastOK
<1> QED
  BY <1>0, <1>5, <1>6, <1>7, <1>8, <1>9, <1>10, <1>11, <1>12, <1>13, <1>14, <1>15, <1>16 DEF Next, JobGoesOn

\* At the beginning no row is there and nobody at work.
LEMMA InitIsSane == Init => Sane /\ PastOK
<1> SUFFICES ASSUME Init PROVE Sane /\ PastOK
  OBVIOUS
<1>1. Idle \notin Task /\ NoRow.status = "none"
  BY TasksDiffer DEF NoRow
<1>2. \A s \in Subs : RowFits(rows[s], clock)
  BY <1>1 DEF Init, RowFits
<1>3. \A w \in Workers : TaskFits(w, work[w], clock)
  BY <1>1 DEF Init, TaskFits
<1>4. 0 \in 0..MaxClock /\ 0 \in 0..MaxFaults
  BY SubscriptionsAssumption
<1> QED BY <1>2, <1>3, <1>4 DEF Init, Sane, PastOK

\* Rows, tasks and the past stay as they have to be.
LEMMA AlwaysSane == Spec => [](Sane /\ PastOK)
<1>1. (Sane /\ PastOK) /\ [Next]_vars => (Sane /\ PastOK)'
  BY StepIsSane, PastIsTyped
<1> QED BY <1>1, InitIsSane, PTL DEF Spec

\* Rows, tasks and the past are of their types: no operation builds a row with a status,
\* time or count of failures that the table does not know (subscriptions.service.ts).
THEOREM SubscriptionsTypeCorrect == Spec => []TypeOK
<1>1. Sane /\ PastOK => TypeOK
  BY DEF Sane, PastOK, TypeOK
<1> QED BY <1>1, AlwaysSane, PTL

\* An active subscription waits for a time of its plan and no earlier one is left out,
\* whoever updates, pauses, resumes, mails or marks meanwhile (calculateNextSendAt).
THEOREM NothingIsSkipped == Spec => []NothingSkipped
<1>1. Sane => NothingSkipped
  BY DEF Sane, NothingSkipped, RowFits, Awaits
<1> QED BY <1>1, AlwaysSane, PTL

\* A step that stores a row reactivates a subscription only as it may.
LEMMA StoredReactivates ==
  ASSUME Sane, NEW w \in Workers, At(w, "store"), Stored(w), NEW s \in Subs,
         rows[s].status \in {"paused", "disabled"}, rows'[s].status = "active"
  PROVE  \/ s \in raced'
         \/ /\ rows[s].status = "paused"
            /\ \E c \in Calls : At(c, "store") /\ Sub(c) = s /\ work[c].op = "resume"
<1>1. PICK row \in Row : row \in Changed(work[w].op, work[w].row) /\ rows' = [rows EXCEPT ![Sub(w)] = row]
  BY StoredFits
<1>2. s = Sub(w) /\ row.status = "active"
  BY <1>1 DEF Sane
<1>3. CASE work[w].row = rows[s]
  <2>1. /\ work[w].op \in Stores /\ work[w].row \in Row /\ RowFits(work[w].row, clock)
        /\ work[w].row.status = "paused"
    BY <1>3, StoredFits
  <2>2. work[w].op = "resume"
    BY <1>1, <1>2, <2>1, ChangesFit
  <2>3. work[w] \in Task /\ w \in Calls
    BY <2>2, StoredFits DEF Sane, TaskFits, Workers
  <2> QED BY <1>2, <1>3, <2>1, <2>2, <2>3
<1> QED BY <1>2, <1>3, StoredFits

\* A paused subscription becomes active only when a user resumes it, and a deleted one
\* never, although a cron job that mailed it stores a row too (markSent, markFailed).
THEOREM PauseAndDeleteLast == Spec => OnlyResumeReactivates
<1> DEFINE May(s) == rows[s].status \in {"paused", "disabled"} /\ rows'[s].status = "active" =>
                       \/ s \in raced'
                       \/ /\ rows[s].status = "paused"
                          /\ \E c \in Calls : At(c, "store") /\ Sub(c) = s /\ work[c].op = "resume"
<1>1. ASSUME Sane, [Next]_vars, NEW s \in Subs,
             rows[s].status \in {"paused", "disabled"}, rows'[s].status = "active"
      PROVE  May(s)
  <2>0. rows'[s] # rows[s] /\ Jobs \subseteq Workers /\ Calls \subseteq Workers
    BY <1>1 DEF Workers
  <2>1. ASSUME NEW t \in Subs, Create(t) PROVE May(s)
    <3>1. PICK plan \in Plans : rows' = [rows EXCEPT ![t] = [status |-> "active", plan |-> plan,
                                           next |-> NextSendAt(plan, clock), failures |-> 0]]
      BY <2>1 DEF Create
    <3>2. s = t
      BY <1>1, <2>0, <3>1 DEF Sane
    <3>3. rows[s].status = "none"
      BY <2>1, <3>2 DEF Create, NoRow
    <3> QED BY <1>1, <3>3
  <2>2. ASSUME NEW w \in Workers, Store(w) PROVE May(s)
    BY <1>1, <2>2, StoredReactivates DEF Store
  <2>3. ASSUME NEW w \in Workers, Fails(w) PROVE May(s)
    <3>1. At(w, "store") /\ Stored(w)
      BY <2>0, <2>3 DEF Fails
    <3> QED BY <1>1, <3>1, StoredReactivates
  <2>4. ASSUME rows' = rows PROVE May(s)
    BY <2>0, <2>4
  <2> HIDE DEF May
  <2>5. CASE UNCHANGED vars
    BY <2>4, <2>5 DEF vars
  <2>6. ASSUME NEW c \in Calls, Begin(c) PROVE May(s)
    BY <2>4, <2>6 DEF Begin
  <2>7. ASSUME NEW j \in Jobs, CronFires(j) PROVE May(s)
    BY <2>4, <2>7 DEF CronFires
  <2>8. ASSUME NEW j \in Jobs, Recheck(j) PROVE May(s)
    BY <2>4, <2>8 DEF Recheck
  <2>9. ASSUME NEW w \in Workers, SendMail(w) PROVE May(s)
    BY <2>4, <2>9 DEF SendMail
  <2>10. ASSUME NEW w \in Workers, Read(w) PROVE May(s)
    BY <2>4, <2>10 DEF Read
  <2>11. ASSUME NEW j \in Jobs, Audit(j) PROVE May(s)
    BY <2>4, <2>11 DEF Audit
  <2>12. CASE Dies
    BY <2>4, <2>12 DEF Dies
  <2>13. CASE Tick
    BY <2>4, <2>13 DEF Tick
  <2> QED
    BY <1>1, <2>0, <2>1, <2>2, <2>3, <2>5, <2>6, <2>7, <2>8, <2>9, <2>10, <2>11, <2>12, <2>13
    DEF Next, JobGoesOn
<1>2. Sane /\ [Next]_vars => \A s \in Subs : May(s)
  BY <1>1
<1>3. Sane /\ PastOK /\ [Next]_vars =>
        [\A s \in Subs :
           rows[s].status \in {"paused", "disabled"} /\ rows'[s].status = "active" =>
             \/ s \in raced'
             \/ /\ rows[s].status = "paused"
                /\ \E c \in Calls : At(c, "store") /\ Sub(c) = s /\ work[c].op = "resume"]_vars
  BY <1>2
<1> QED BY <1>3, AlwaysSane, PTL DEF Spec, OnlyResumeReactivates

-----------------------------------------------------------------------------
(* Reports are mailed once. *)

\* A job is at work on a subscription, and has mailed it without having marked it.
Holds(j, s) == work[j].at \in {"mail", "read", "store"} /\ Sub(j) = s
IsUnmarked(j, s) == work[j].at \in {"read", "store"} /\ Sub(j) = s /\ work[j].op = "markSent"

\* A subscription is at most one job's; what was mailed lies behind what it waits for, unless
\* the job has yet to mark it; what the job is to mail was not mailed; and a row that is to
\* be marked as failed waits for what was not mailed either.
OneHolds(s) == \A j, k \in Jobs : Holds(j, s) /\ Holds(k, s) => j = k
Behind(s) == rows[s].status = "active" => (\E j \in Jobs : IsUnmarked(j, s)) \/ \A n \in mailed[s] : n < rows[s].next
MailsNew(s) == \A j \in Jobs : work[j].at = "mail" /\ Sub(j) = s => work[j].due.next \notin mailed[s]
FailsLater(s) ==
  \A j \in Jobs : /\ work[j].at = "store" /\ Sub(j) = s
                  /\ work[j].op = "markFailed" /\ work[j].row.status = "active"
                  => \A n \in mailed[s] : n < work[j].row.next

Settled(s) == s \notin twice /\ OneHolds(s) /\ Behind(s) /\ MailsNew(s) /\ FailsLater(s)

Mailing ==
  /\ \A s \in Subs : \A n \in mailed[s] : n <= clock
  /\ \A s \in Subs \ (overlapped \cup doubtful) : Settled(s)

\* What a job does that neither mails nor stores leaves a subscription settled.
LEMMA JobKeepsSettled ==
  ASSUME NEW s \in Subs, Settled(s), NEW j \in Jobs, NEW x, work \in [Workers -> {Idle, Done} \cup Task],
         work' = [work EXCEPT ![j] = x], rows' = rows, mailed' = mailed, twice' = twice,
         x.at \in {"mail", "read", "store"} /\ x.due.sub = s => \A k \in Jobs \ {j} : ~Holds(k, s),
         IsUnmarked(j, s) => \/ rows[s].status # "active"
                             \/ x.at \in {"read", "store"} /\ x.due.sub = s /\ x.op = "markSent",
         x.at = "mail" /\ x.due.sub = s => x.due.next \notin mailed[s],
         x.at = "store" /\ x.due.sub = s /\ x.op = "markFailed" /\ x.row.status = "active" =>
           \A n \in mailed[s] : n < x.row.next
  PROVE  Settled(s)'
<1>1. work'[j] = x /\ \A k \in Jobs \ {j} : work'[k] = work[k]
  BY DEF Workers
<1>2. OneHolds(s)'
  BY <1>1 DEF Settled, OneHolds, Holds, Sub
<1>3. Behind(s)'
  BY <1>1 DEF Settled, Behind, IsUnmarked, Sub
<1>4. MailsNew(s)'
  BY <1>1 DEF Settled, MailsNew, Sub
<1>5. FailsLater(s)'
  BY <1>1 DEF Settled, FailsLater, Sub
<1> QED BY <1>2, <1>3, <1>4, <1>5 DEF Settled

\* What others do that neither mail nor store does so too.
LEMMA OthersKeepSettled ==
  ASSUME NEW s \in Subs, Settled(s), \A j \in Jobs : work'[j] = work[j],
         rows'[s] = rows[s] \/ (rows'[s].status = "active" => \A n \in mailed[s] : n < rows'[s].next),
         mailed' = mailed, twice' = twice
  PROVE  Settled(s)'
<1>1. OneHolds(s)'
  BY DEF Settled, OneHolds, Holds, Sub
<1>2. Behind(s)'
  BY DEF Settled, Behind, IsUnmarked, Sub
<1>3. MailsNew(s)'
  BY DEF Settled, MailsNew, Sub
<1>4. FailsLater(s)'
  BY DEF Settled, FailsLater, Sub
<1> QED BY <1>1, <1>2, <1>3, <1>4 DEF Settled

\* Storing a row settles the subscription, or leaves it so.
LEMMA StoreKeepsSettled ==
  ASSUME Sane, NEW s \in Subs, Settled(s), \A n \in mailed[s] : n <= clock, mailed[s] \in SUBSET Nat,
         NEW w \in Workers, At(w, "store"), Stored(w),
         NEW x, work' = [work EXCEPT ![w] = x], mailed' = mailed, twice' = twice,
         w \in Jobs => \/ x.at \in {"idle", "audit"}
                       \/ x.at = "read" /\ x.op = "markFailed" /\ x.due = work[w].due
  PROVE  Settled(s)'
<1>0. /\ work \in [Workers -> {Idle, Done} \cup Task] /\ rows \in [Subs -> Row \cup {NoRow}]
      /\ clock \in Nat
  BY DEF Sane
<1>1. PICK row \in Row : row \in Changed(work[w].op, work[w].row) /\ rows' = [rows EXCEPT ![Sub(w)] = row]
  BY StoredFits
<1>2. /\ work[w].op \in Stores /\ work[w].row \in Row /\ RowFits(work[w].row, clock)
      /\ work[w].row.status \in {"active", "paused"}
  BY StoredFits
<1>3. row.status = "active" =>
        \/ row.next > clock
        \/ work[w].op = "markFailed" /\ row.next = work[w].row.next /\ work[w].row.status = "active"
  BY <1>1, <1>2, ChangesFit
<1>4. w \notin Jobs => w \in Calls /\ work[w].op # "markFailed"
  BY StoredFits DEF Sane, TaskFits, Workers
<1>5. Sub(w) = s /\ row.status = "active" => \A n \in mailed[s] : n < row.next
  <2> SUFFICES ASSUME Sub(w) = s, row.status = "active", NEW n \in mailed[s]
               PROVE  n < row.next
    OBVIOUS
  <2>1. CASE row.next > clock
    <3>1. n \in Nat /\ n <= clock /\ row.next \in Int
      BY <1>1 DEF Row
    <3> QED BY <1>0, <2>1, <3>1
  <2>2. CASE work[w].op = "markFailed" /\ row.next = work[w].row.next /\ work[w].row.status = "active"
    BY <1>4, <2>2 DEF Settled, FailsLater, At
  <2> QED BY <1>3, <2>1, <2>2
<1>6. rows'[s] = rows[s] \/ (rows'[s].status = "active" => \A n \in mailed[s] : n < rows'[s].next)
  BY <1>0, <1>1, <1>5
<1>7. CASE w \notin Jobs
  <2>1. \A j \in Jobs : work'[j] = work[j]
    BY <1>0, <1>7
  <2> QED BY <1>6, <2>1, OthersKeepSettled
<1>8. CASE w \in Jobs
  <2>1. work'[w] = x /\ \A k \in Jobs \ {w} : work'[k] = work[k]
    BY <1>0, <1>8 DEF Workers
  <2>2. OneHolds(s)'
    <3>1. \A k \in Jobs : Holds(k, s)' => Holds(k, s)
      BY <1>8, <2>1 DEF Holds, Sub, At
    <3> QED BY <3>1 DEF Settled, OneHolds
  <2>3. Behind(s)'
    <3>1. CASE s = Sub(w)
      BY <1>0, <1>1, <1>5, <3>1 DEF Behind
    <3>2. CASE s # Sub(w)
      <4>1. rows'[s] = rows[s] /\ \A j \in Jobs : IsUnmarked(j, s) => IsUnmarked(j, s)'
        BY <1>0, <1>1, <2>1, <3>2 DEF IsUnmarked, Sub
      <4> QED BY <4>1 DEF Settled, Behind
    <3> QED BY <3>1, <3>2
  <2>4. MailsNew(s)'
    BY <1>8, <2>1 DEF Settled, MailsNew, Sub
  <2>5. FailsLater(s)'
    BY <1>8, <2>1 DEF Settled, FailsLater, Sub
  <2> QED BY <2>2, <2>3, <2>4, <2>5 DEF Settled
<1> QED BY <1>7, <1>8

\* Mailing a report that was not mailed leaves its subscription settled: it waits for its mark.
LEMMA MailKeepsSettled ==
  ASSUME Sane, PastOK, NEW s \in Subs, Settled(s), NEW j \in Jobs, SendMail(j)
  PROVE  Settled(s)'
<1>0. /\ work \in [Workers -> {Idle, Done} \cup Task] /\ mailed \in [Subs -> SUBSET Nat]
      /\ j \in Workers /\ j \notin Calls
  BY SubscriptionsAssumption DEF Sane, PastOK, Workers
<1>1. PICK x : x = [work[j] EXCEPT !.at = "read", !.op = "markSent", !.row = NoRow]
  OBVIOUS
<1>2. work[j] \notin {Idle, Done} /\ work[j] \in Task /\ work[j].at = "mail" /\ Sub(j) \in Subs
  <2>1. work[j] \notin {Idle, Done} /\ work[j].at = "mail"
    BY DEF SendMail, At, Idle, Done
  <2> QED BY <1>0, <2>1, HasTask
<1>3. x.at = "read" /\ x.op = "markSent" /\ x.due = work[j].due
  BY <1>1, <1>2 DEF Task
<1>4. /\ work'[j] = x /\ \A k \in Jobs \ {j} : work'[k] = work[k]
      /\ rows' = rows
  BY <1>0, <1>1 DEF SendMail, GoesTo, Workers
<1>5. /\ mailed' = [mailed EXCEPT ![Sub(j)] = @ \cup {work[j].due.next}]
      /\ twice' = IF work[j].due.next \in mailed[Sub(j)] THEN twice \cup {Sub(j)} ELSE twice
  BY <1>0 DEF SendMail, Mailed
<1>6. \A k \in Jobs : Holds(k, s)' => Holds(k, s)
  BY <1>2, <1>3, <1>4 DEF Holds, Sub
<1>7. OneHolds(s)'
  BY <1>6 DEF Settled, OneHolds
<1>8. CASE s = Sub(j)
  <2>1. s \notin twice'
    BY <1>2, <1>5, <1>8 DEF Settled, MailsNew
  <2>2. IsUnmarked(j, s)'
    BY <1>3, <1>4, <1>8 DEF IsUnmarked, Sub
  <2>3. ASSUME NEW k \in Jobs, Holds(k, s)' PROVE k = j
    BY <1>2, <1>6, <1>8, <2>3 DEF Settled, OneHolds, Holds
  <2>4. MailsNew(s)'
    BY <1>3, <1>4, <2>3 DEF MailsNew, Holds
  <2>5. FailsLater(s)'
    BY <1>3, <1>4, <2>3 DEF FailsLater, Holds
  <2> QED BY <1>7, <2>1, <2>2, <2>4, <2>5 DEF Settled, Behind
<1>9. CASE s # Sub(j)
  <2>1. mailed'[s] = mailed[s] /\ s \notin twice'
    BY <1>0, <1>2, <1>5, <1>9 DEF Settled
  <2>2. \A k \in Jobs : IsUnmarked(k, s) => IsUnmarked(k, s)'
    BY <1>4, <1>9 DEF IsUnmarked, Sub
  <2>3. Behind(s)'
    BY <1>4, <2>1, <2>2 DEF Settled, Behind
  <2>4. MailsNew(s)'
    BY <1>3, <1>4, <2>1 DEF Settled, MailsNew, Sub
  <2>5. FailsLater(s)'
    BY <1>3, <1>4, <2>1 DEF Settled, FailsLater, Sub
  <2> QED BY <1>7, <2>1, <2>3, <2>4, <2>5 DEF Settled
<1> QED BY <1>8, <1>9

\* Nothing is mailed before it is due.
LEMMA MailedInTime ==
  Sane /\ PastOK /\ (\A s \in Subs : \A n \in mailed[s] : n <= clock) /\ [Next]_vars
    => (\A s \in Subs : \A n \in mailed[s] : n <= clock)'
<1> SUFFICES ASSUME Sane, PastOK, \A s \in Subs : \A n \in mailed[s] : n <= clock, [Next]_vars
             PROVE  (\A s \in Subs : \A n \in mailed[s] : n <= clock)'
  OBVIOUS
<1>0. /\ clock \in Nat /\ mailed \in [Subs -> SUBSET Nat]
      /\ Jobs \subseteq Workers /\ Calls \subseteq Workers
  BY DEF Sane, PastOK, Workers
<1>1. ASSUME NEW w \in Workers, work[w] \notin {Idle, Done}, Mailed(w), clock' = clock
      PROVE  \A s \in Subs : \A n \in mailed'[s] : n <= clock'
  <2>1. CASE w \in Calls
    BY <1>1, <2>1 DEF Mailed
  <2>2. CASE w \notin Calls
    <3>1. work[w] \in Task /\ work[w].due.next <= clock
      BY <1>1, <2>2, HasTask DEF Sane, TaskFits, Workers
    <3>2. mailed' = [mailed EXCEPT ![Sub(w)] = @ \cup {work[w].due.next}]
      BY <1>1, <2>2 DEF Mailed
    <3> QED BY <1>0, <1>1, <3>1, <3>2
  <2> QED BY <2>1, <2>2
<1>2. CASE mailed' = mailed /\ clock' = clock
  BY <1>2
<1>3. ASSUME NEW w \in Workers, SendMail(w) PROVE \A s \in Subs : \A n \in mailed'[s] : n <= clock'
  <2>1. work[w] \notin {Idle, Done}
    BY <1>3 DEF SendMail, At, Idle, Done
  <2> QED BY <1>1, <1>3, <2>1 DEF SendMail
<1>4. ASSUME NEW w \in Workers, Fails(w) PROVE \A s \in Subs : \A n \in mailed'[s] : n <= clock'
  BY <1>1, <1>2, <1>4 DEF Fails
<1>5. CASE Tick
  <2>1. clock' = clock + 1 /\ mailed' = mailed
    BY <1>5 DEF Tick, pastVars
  <2>2. ASSUME NEW s \in Subs, NEW n \in mailed[s] PROVE n <= clock + 1
    <3>1. n \in Nat /\ n <= clock
      BY <1>0
    <3> QED BY <1>0, <3>1
  <2> QED BY <2>1, <2>2
<1>6. UNCHANGED vars => mailed' = mailed /\ clock' = clock
  BY DEF vars, pastVars
<1>7. ASSUME NEW s \in Subs, Create(s) PROVE mailed' = mailed /\ clock' = clock
  BY <1>7 DEF Create, pastVars
<1>8. ASSUME NEW c \in Calls, Begin(c) PROVE mailed' = mailed /\ clock' = clock
  BY <1>8 DEF Begin, pastVars
<1>9. ASSUME NEW j \in Jobs, CronFires(j) \/ Recheck(j) \/ Audit(j) PROVE mailed' = mailed /\ clock' = clock
  BY <1>9 DEF CronFires, Recheck, Audit, pastVars
<1>10. ASSUME NEW w \in Workers, Read(w) \/ Store(w) PROVE mailed' = mailed /\ clock' = clock
  BY <1>10 DEF Read, Store, pastVars
<1>11. Dies => mailed' = mailed /\ clock' = clock
  BY DEF Dies
<1> QED
  BY <1>0, <1>2, <1>3, <1>4, <1>5, <1>6, <1>7, <1>8, <1>9, <1>10, <1>11 DEF Next, JobGoesOn

\* A job that takes up a subscription is its only one, or the two are found to overlap.
LEMMA TakesUpAlone ==
  ASSUME NEW j \in Jobs, Overlaps(j), Sub(j) \notin overlapped'
  PROVE  \A k \in Jobs \ {j} : ~Holds(k, Sub(j))
BY DEF Overlaps, Holds

\* An error of a job leaves settled what it does not make doubtful.
LEMMA ErrorKeepsSettled ==
  ASSUME Sane, PastOK, Mailing, NEW s \in Subs, s \notin overlapped' \cup doubtful', NEW j \in Jobs, Fails(j)
  PROVE  Settled(s)'
<1>0. /\ work \in [Workers -> {Idle, Done} \cup Task] /\ mailed \in [Subs -> SUBSET Nat]
      /\ j \in Workers /\ j \notin Calls
  BY SubscriptionsAssumption DEF Sane, PastOK, Workers
<1>1. work[j] \notin {Idle, Done} /\ work[j] \in Task /\ Sub(j) \in Subs
  BY <1>0, HasTask DEF Fails
<1>2. PICK x : x = Thrown(j)
  OBVIOUS
<1>3. /\ \/ x.at = "idle" /\ work[j].op = "markFailed"
         \/ x.at = "read" /\ x.op = "markFailed" /\ x.due = work[j].due
      /\ work' = [work EXCEPT ![j] = x]
  <2>1. \/ x.at \in {"idle", "done"} /\ (j \in Jobs => work[j].op = "markFailed")
        \/ x.at = "read" /\ x.op = "markFailed" /\ x.due = work[j].due
    BY <1>0, <1>1, <1>2, ThrownFits
  <2>2. x.at # "done"
    BY <1>0, <1>2, <2>1 DEF Thrown, Idle
  <2> QED BY <1>2, <2>1, <2>2 DEF Fails, GoesTo
<1>4. s \notin overlapped /\ Overlaps(j)
  BY <1>0 DEF Fails, Overlaps
<1>5. s = Sub(j) => \A k \in Jobs \ {j} : ~Holds(k, s)
  BY <1>4, TakesUpAlone
<1>6. CASE /\ At(j, "mail") /\ Mailed(j)
           /\ doubtful' = doubtful \cup {Sub(j)} /\ UNCHANGED <<rows, raced>>
  <2>1. Settled(s) /\ s # Sub(j)
    BY <1>4, <1>6 DEF Mailing
  <2>2. mailed'[s] = mailed[s] /\ s \notin twice' /\ rows' = rows
    BY <1>0, <1>1, <1>6, <2>1 DEF Mailed, Settled
  <2>3. work'[j] = x /\ \A k \in Jobs \ {j} : work'[k] = work[k]
    BY <1>0, <1>3 DEF Workers
  <2>4. \A k \in Jobs : Holds(k, s)' => Holds(k, s)
    BY <1>3, <2>1, <2>3 DEF Holds, Sub
  <2>5. OneHolds(s)'
    BY <2>1, <2>4 DEF Settled, OneHolds
  <2>6. Behind(s)'
    <3>1. \A k \in Jobs : IsUnmarked(k, s) => IsUnmarked(k, s)'
      BY <2>1, <2>3 DEF IsUnmarked, Sub
    <3> QED BY <2>1, <2>2, <3>1 DEF Settled, Behind
  <2>7. MailsNew(s)'
    BY <1>3, <2>1, <2>2, <2>3 DEF Settled, MailsNew, Sub
  <2>8. FailsLater(s)'
    BY <1>3, <2>1, <2>2, <2>3 DEF Settled, FailsLater, Sub
  <2> QED BY <2>2, <2>5, <2>6, <2>7, <2>8 DEF Settled
<1>7. CASE At(j, "store") /\ Stored(j) /\ UNCHANGED <<mailed, twice, doubtful>>
  <2>1. Settled(s) /\ \A n \in mailed[s] : n <= clock
    BY <1>4, <1>7 DEF Mailing
  <2> QED BY <1>0, <1>3, <1>7, <2>1, StoreKeepsSettled
<1>8. CASE doubtful' = doubtful \cup Unmarked({j} \cap Jobs) /\ UNCHANGED <<rows, raced, mailed, twice>>
  <2>1. Settled(s)
    BY <1>4, <1>8 DEF Mailing
  <2>2. ~IsUnmarked(j, s)
    BY <1>8 DEF IsUnmarked, Unmarked
  <2>3. x.at \in {"mail", "read", "store"} /\ x.due.sub = s => \A k \in Jobs \ {j} : ~Holds(k, s)
    BY <1>3, <1>5 DEF Sub
  <2>4. x.at # "mail" /\ x.at # "store"
    BY <1>3
  <2> QED BY <1>0, <1>3, <1>8, <2>1, <2>2, <2>3, <2>4, JobKeepsSettled
<1> QED BY <1>6, <1>7, <1>8 DEF Fails

\* What a job takes up, reads or leaves stays settled.
LEMMA JobStepKeepsSettled ==
  ASSUME Sane, PastOK, NEW s \in Subs, Settled(s), s \notin overlapped', NEW j \in Jobs,
         CronFires(j) \/ Recheck(j) \/ Read(j) \/ Audit(j)
  PROVE  Settled(s)'
<1>0. /\ work \in [Workers -> {Idle, Done} \cup Task] /\ j \in Workers /\ j \notin Calls
  BY SubscriptionsAssumption DEF Sane, Workers
<1>1. ASSUME NEW due PROVE Check(due).at \in {"idle", "check"}
  BY DEF Check, Idle
<1>2. ASSUME NEW due, work' = [work EXCEPT ![j] = Check(due)], ~IsUnmarked(j, s), UNCHANGED <<rows, mailed, twice>>
      PROVE  Settled(s)'
  <2>1. PICK x : x = Check(due)
    OBVIOUS
  <2>2. x.at \in {"idle", "check"}
    BY <1>1, <2>1
  <2> QED BY <1>0, <1>2, <2>1, <2>2, JobKeepsSettled
<1>3. CASE CronFires(j)
  <2>1. PICK due : work' = [work EXCEPT ![j] = Check(due)]
    BY <1>3 DEF CronFires, GoesTo
  <2>2. ~IsUnmarked(j, s)
    BY <1>3 DEF CronFires, IsUnmarked, Idle
  <2> QED BY <1>2, <1>3, <2>1, <2>2 DEF CronFires, pastVars
<1>4. CASE Recheck(j)
  <2>0. UNCHANGED <<rows, mailed, twice>> /\ work[j].at = "check" /\ ~IsUnmarked(j, s)
    BY <1>4 DEF Recheck, At, IsUnmarked
  <2>1. CASE ~NotProcessed(rows[Sub(j)], work[j].due)
    <3>1. work' = [work EXCEPT ![j] = Check(work[j].rest)]
      BY <1>0, <1>4, <2>1 DEF Recheck, GoesTo, Ended
    <3> QED BY <1>2, <2>0, <3>1
  <2>2. CASE NotProcessed(rows[Sub(j)], work[j].due)
    <3>1. PICK x : x = [work[j] EXCEPT !.at = "mail"]
      OBVIOUS
    <3>2. work[j] \in Task
      BY <1>0, <1>4, IsAtTask DEF Recheck, Places
    <3>3. x.at = "mail" /\ x.due = work[j].due
      BY <3>1, <3>2 DEF Task
    <3>4. work' = [work EXCEPT ![j] = x] /\ Overlaps(j)
      BY <1>4, <2>2, <3>1 DEF Recheck, GoesTo
    <3>5. x.due.sub = s => \A k \in Jobs \ {j} : ~Holds(k, s)
      BY <3>3, <3>4, TakesUpAlone DEF Sub
    <3>6. ASSUME x.due.sub = s PROVE x.due.next \notin mailed[s]
      <4>1. rows[s].status = "active" /\ rows[s].next = x.due.next
        BY <2>2, <3>3, <3>6 DEF NotProcessed, Sub
      <4>2. \A k \in Jobs : ~IsUnmarked(k, s)
        BY <2>0, <3>5, <3>6 DEF IsUnmarked, Holds
      <4>3. \A n \in mailed[s] : n < rows[s].next
        BY <4>1, <4>2 DEF Settled, Behind
      <4>4. rows[s].next \in Int
        BY <4>1 DEF Sane, NoRow, Row
      <4> QED BY <4>1, <4>3, <4>4
    <3> QED BY <1>0, <2>0, <3>3, <3>4, <3>5, <3>6, JobKeepsSettled
  <2> QED BY <2>1, <2>2
<1>5. CASE Audit(j)
  <2>1. work' = [work EXCEPT ![j] = Check(work[j].rest)] /\ UNCHANGED <<rows, mailed, twice>>
    BY <1>0, <1>5 DEF Audit, GoesTo, Ended, pastVars
  <2>2. ~IsUnmarked(j, s)
    BY <1>5 DEF Audit, At, IsUnmarked
  <2> QED BY <1>2, <2>1, <2>2
<1>6. CASE Read(j)
  <2>0. UNCHANGED <<rows, mailed, twice>> /\ work[j].at = "read"
    BY <1>6 DEF Read, At, pastVars
  <2>1. work[j] \in Task
    BY <1>0, <1>6, IsAtTask DEF Read, Places
  <2>2. work[j].due.sub = s => Holds(j, s) /\ \A k \in Jobs \ {j} : ~Holds(k, s)
    BY <2>0 DEF Settled, OneHolds, Holds, Sub
  <2>3. CASE ~Found(Sub(j))
    <3>1. PICK x : x = Thrown(j)
      OBVIOUS
    <3>2. /\ \/ x.at \in {"idle", "done"}
             \/ x.at = "read" /\ x.op = "markFailed" /\ x.due = work[j].due
      BY <1>0, <2>1, <3>1, ThrownFits
    <3>3. work' = [work EXCEPT ![j] = x]
      BY <1>6, <2>3, <3>1 DEF Read, GoesTo
    <3>4. IsUnmarked(j, s) => rows[s].status # "active"
      BY <2>3 DEF IsUnmarked, Found
    <3> QED BY <1>0, <2>0, <2>2, <3>2, <3>3, <3>4, JobKeepsSettled
  <2>4. CASE Found(Sub(j))
    <3>1. work[j].op # "sendNow"
      BY <1>0, <2>1 DEF Sane, TaskFits
    <3>2. PICK x : x = [work[j] EXCEPT !.at = "store", !.row = rows[Sub(j)]]
      OBVIOUS
    <3>3. x.at = "store" /\ x.row = rows[Sub(j)] /\ x.op = work[j].op /\ x.due = work[j].due
      BY <2>1, <3>2 DEF Task
    <3>4. work' = [work EXCEPT ![j] = x]
      BY <1>6, <2>4, <3>1, <3>2 DEF Read, GoesTo
    <3>5. IsUnmarked(j, s) => x.at \in {"read", "store"} /\ x.due.sub = s /\ x.op = "markSent"
      BY <3>3 DEF IsUnmarked, Sub
    <3>6. ASSUME x.due.sub = s, x.op = "markFailed", x.row.status = "active"
          PROVE  \A n \in mailed[s] : n < x.row.next
      <4>1. \A k \in Jobs : ~IsUnmarked(k, s)
        BY <2>2, <3>3, <3>6 DEF IsUnmarked, Holds
      <4>2. rows[s].status = "active" /\ x.row = rows[s]
        BY <3>3, <3>6 DEF Sub
      <4> QED BY <4>1, <4>2 DEF Settled, Behind
    <3> QED BY <1>0, <2>0, <2>2, <3>3, <3>4, <3>5, <3>6, JobKeepsSettled
  <2> QED BY <2>3, <2>4
<1> QED BY <1>3, <1>4, <1>5, <1>6

\* Every step leaves a subscription settled that it does not make overlapped or doubtful.
LEMMA StepKeepsMailing == Sane /\ PastOK /\ Mailing /\ [Next]_vars => Mailing'
<1> SUFFICES ASSUME Sane, PastOK, Mailing, [Next]_vars,
                    NEW s \in Subs, s \notin overlapped' \cup doubtful'
             PROVE  Settled(s)'
  <2>1. PastOK /\ Sane /\ Mailing /\ [Next]_vars => (\A s \in Subs : \A n \in mailed[s] : n <= clock)'
    BY MailedInTime DEF Mailing
  <2> QED BY <2>1 DEF Mailing
<1>0. /\ work \in [Workers -> {Idle, Done} \cup Task] /\ mailed[s] \in SUBSET Nat
      /\ Jobs \subseteq Workers /\ Calls \subseteq Workers /\ Jobs \cap Calls = {}
      /\ \A n \in mailed[s] : n <= clock
  BY SubscriptionsAssumption DEF Sane, PastOK, Workers, Mailing
<1>1. ASSUME overlapped' = overlapped, doubtful' = doubtful PROVE Settled(s)
  BY <1>1 DEF Mailing
<1>2. ASSUME UNCHANGED pastVars, rows' = rows, \A j \in Jobs : work'[j] = work[j]
      PROVE  Settled(s)'
  BY <1>1, <1>2, OthersKeepSettled DEF pastVars
<1>3. CASE UNCHANGED vars
  BY <1>2, <1>3 DEF vars
<1>4. ASSUME NEW t \in Subs, Create(t) PROVE Settled(s)'
  <2>1. PICK plan \in Plans : rows' = [rows EXCEPT ![t] = [status |-> "active", plan |-> plan,
                                         next |-> NextSendAt(plan, clock), failures |-> 0]]
    BY <1>4 DEF Create
  <2>2. PICK next : next = NextSendAt(plan, clock)
    OBVIOUS
  <2>3. clock \in Nat /\ plan \in Plan
    BY SubscriptionsAssumption DEF Sane
  <2>4. next \in Nat /\ next > clock
    BY <2>2, <2>3, NextIsFirst
  <2>5. \A n \in mailed[s] : n < next
    <3> SUFFICES ASSUME NEW n \in mailed[s] PROVE n < next
      OBVIOUS
    <3>1. n \in Nat /\ n <= clock
      BY <1>0
    <3> QED BY <2>3, <2>4, <3>1
  <2>6. t # s => rows'[s] = rows[s]
    BY <2>1 DEF Sane
  <2>7. t = s => rows'[s].next = next
    BY <2>1, <2>2 DEF Sane
  <2>8. UNCHANGED <<work, pastVars>>
    BY <1>4 DEF Create
  <2> QED BY <1>1, <2>5, <2>6, <2>7, <2>8, OthersKeepSettled DEF pastVars
<1>5. ASSUME NEW c \in Calls, Begin(c) PROVE Settled(s)'
  BY <1>0, <1>2, <1>5 DEF Begin, GoesTo
<1>6. ASSUME NEW c \in Calls, SendMail(c) PROVE Settled(s)'
  BY <1>0, <1>2, <1>6 DEF SendMail, GoesTo, Mailed, pastVars
<1>7. ASSUME NEW c \in Calls, Read(c) PROVE Settled(s)'
  BY <1>0, <1>2, <1>7 DEF Read, GoesTo
<1>8. ASSUME NEW w \in Workers, Store(w) PROVE Settled(s)'
  <2>1. PICK x : x = IF w \in Calls THEN Done ELSE [work[w] EXCEPT !.at = "audit", !.row = NoRow]
    OBVIOUS
  <2>2. At(w, "store") /\ Stored(w) /\ mailed' = mailed /\ twice' = twice /\ work' = [work EXCEPT ![w] = x]
    BY <1>8, <2>1 DEF Store, GoesTo
  <2>3. w \in Jobs => x.at = "audit"
    <3>1. work[w] \in Task
      BY <2>2, StoredFits
    <3> QED BY <1>0, <2>1, <3>1 DEF Task
  <2>4. Settled(s)
    BY <1>1, <1>8 DEF Store
  <2> QED BY <1>0, <2>2, <2>3, <2>4, StoreKeepsSettled
<1>9. ASSUME NEW j \in Jobs, SendMail(j) PROVE Settled(s)'
  BY <1>1, <1>9, MailKeepsSettled DEF SendMail
<1>10. ASSUME NEW j \in Jobs, CronFires(j) \/ Recheck(j) \/ Read(j) \/ Audit(j) PROVE Settled(s)'
  <2>1. s \notin overlapped \cup doubtful
    BY <1>10 DEF CronFires, Recheck, Read, Audit, pastVars, Overlaps
  <2> QED BY <1>10, <2>1, JobStepKeepsSettled DEF Mailing
<1>11. ASSUME NEW w \in Workers, Fails(w) PROVE Settled(s)'
  <2>1. CASE w \in Jobs
    BY <1>11, <2>1, ErrorKeepsSettled
  <2>2. CASE w \in Calls
    <3>1. /\ UNCHANGED <<mailed, twice, overlapped>> /\ work' = [work EXCEPT ![w] = Thrown(w)]
          /\ s \notin doubtful
      BY <1>0, <1>11, <2>2 DEF Fails, GoesTo, Mailed
    <3>2. Settled(s)
      BY <3>1 DEF Mailing
    <3>3. CASE At(w, "store") /\ Stored(w)
      BY <1>0, <2>2, <3>1, <3>2, <3>3, StoreKeepsSettled
    <3>4. CASE rows' = rows
      BY <1>0, <2>2, <3>1, <3>2, <3>4, OthersKeepSettled
    <3> QED BY <1>11, <3>3, <3>4 DEF Fails
  <2> QED BY <2>1, <2>2 DEF Workers
<1>12. CASE Dies
  <2>1. /\ UNCHANGED <<rows, mailed, twice, overlapped>> /\ s \notin doubtful \cup Unmarked(Jobs)
        /\ \A j \in Jobs : work'[j] = Idle
    BY <1>0, <1>12 DEF Dies
  <2>2. Settled(s)
    BY <2>1 DEF Mailing
  <2>3. \A j \in Jobs : ~IsUnmarked(j, s) /\ work'[j].at = "idle"
    BY <2>1 DEF Unmarked, IsUnmarked, Idle
  <2>4. OneHolds(s)' /\ MailsNew(s)' /\ FailsLater(s)'
    BY <2>3 DEF OneHolds, MailsNew, FailsLater, Holds
  <2>5. Behind(s)'
    BY <2>1, <2>2, <2>3 DEF Settled, Behind
  <2> QED BY <2>1, <2>2, <2>4, <2>5 DEF Settled
<1>13. CASE Tick
  BY <1>2, <1>13 DEF Tick
<1> QED
  BY <1>3, <1>4, <1>5, <1>6, <1>7, <1>8, <1>9, <1>10, <1>11, <1>12, <1>13 DEF Next, JobGoesOn, Workers

\* At the beginning nothing was mailed.
LEMMA InitIsMailing == Init => Mailing
<1> SUFFICES ASSUME Init PROVE Mailing
  OBVIOUS
<1>1. \A j \in Jobs : work[j].at = "idle"
  BY DEF Init, Workers, Idle
<1>2. \A s \in Subs : rows[s].status = "none" /\ mailed[s] = {} /\ twice = {}
  BY DEF Init, NoRow
<1> QED BY <1>1, <1>2 DEF Mailing, Settled, OneHolds, Behind, MailsNew, FailsLater, Holds

\* Each report that is due is mailed once: no job mails again what another has mailed and
\* marked (processSubscription looks at the row again), whatever users store in between,
\* unless two jobs were at work on it at once or one failed between the mail and the mark;
\* and no time of a plan is left out.
THEOREM ReportsGoOutOnce == Spec => []EachReportOnce
<1>1. Sane /\ PastOK /\ Mailing /\ [Next]_vars => Mailing'
  BY StepKeepsMailing
<1>2. Spec => []Mailing
  BY <1>1, AlwaysSane, InitIsMailing, PTL DEF Spec
<1>3. PastOK /\ Mailing => ReportedOnce
  BY DEF PastOK, Mailing, Settled, ReportedOnce
<1>4. (Sane /\ PastOK) /\ Mailing => ReportedOnce
  BY <1>3
<1>5. Spec => []ReportedOnce
  BY <1>2, <1>4, AlwaysSane, PTL
<1>6. ReportedOnce /\ NothingSkipped => EachReportOnce
  BY DEF EachReportOnce
<1> QED BY <1>5, <1>6, NothingIsSkipped, PTL

-----------------------------------------------------------------------------
(* Sums over a set (MapThenSumSet of the community modules). *)

\* There is a least set among subsets of a finite one.
LEMMA LeastSet ==
  ASSUME NEW O, IsFiniteSet(O), NEW F \in SUBSET SUBSET O, F # {}
  PROVE  \E T \in F : \A R \in F : ~(R \subseteq T /\ R # T)
<1>1. F \subseteq FiniteSubsetsOf(O)
  <2>1. \A T \in SUBSET O : IsFiniteSet(T)
    BY FS_Subset
  <2> QED BY <2>1 DEF FiniteSubsetsOf
<1>2. PICK T \in F : \A R \in F : ~(<<R, T>> \in StrictSubsetOrdering(O))
  BY <1>1, FS_StrictSubsetOrderingWellFounded, WFMin
<1>3. \A R \in F : R \subseteq T /\ R # T => <<R, T>> \in StrictSubsetOrdering(O)
  BY DEF StrictSubsetOrdering
<1>4. \A R \in F : ~(R \subseteq T /\ R # T)
  BY <1>2, <1>3
<1> QED BY <1>4

\* What a sum computes, as a step, and the functions that compute it.
OneOf(T) == CHOOSE x \in T : TRUE
Part(f, g, T) == IF T = {} THEN 0 ELSE f[OneOf(T)] + g[T \ {OneOf(T)}]
IsSum(U, f, g) == g = [T \in SUBSET U |-> Part(f, g, T)]

\* Two of these functions agree where both are defined.
LEMMA SumsAgree ==
  ASSUME NEW S, IsFiniteSet(S), NEW f, NEW U \in SUBSET S, NEW V \in SUBSET S, NEW g, NEW h,
         IsSum(U, f, g), IsSum(V, f, h)
  PROVE  \A T \in SUBSET (U \cap V) : g[T] = h[T]
<1> DEFINE F == {T \in SUBSET (U \cap V) : g[T] # h[T]}
<1> SUFFICES ASSUME F # {} PROVE FALSE
  OBVIOUS
<1>1. PICK T \in F : \A R \in F : ~(R \subseteq T /\ R # T)
  <2>1. F \in SUBSET SUBSET S
    OBVIOUS
  <2> HIDE DEF F
  <2> QED BY <2>1, LeastSet
<1>2. g[T] = Part(f, g, T) /\ h[T] = Part(f, h, T)
  BY DEF IsSum
<1>3. CASE T = {}
  BY <1>2, <1>3 DEF Part
<1>4. CASE T # {}
  <2>1. OneOf(T) \in T
    BY <1>4 DEF OneOf
  <2>2. g[T \ {OneOf(T)}] = h[T \ {OneOf(T)}]
    <3>1. T \ {OneOf(T)} \in SUBSET (U \cap V) /\ T \ {OneOf(T)} \subseteq T /\ T \ {OneOf(T)} # T
      BY <2>1
    <3>2. T \ {OneOf(T)} \notin F
      <4> HIDE DEF F
      <4> QED BY <1>1, <3>1
    <3> QED BY <3>1, <3>2
  <2> QED BY <1>2, <1>4, <2>2 DEF Part
<1> QED BY <1>3, <1>4

\* There is such a function.
LEMMA SumExists ==
  ASSUME NEW S, IsFiniteSet(S), NEW f
  PROVE  \E g : IsSum(S, f, g)
<1> DEFINE F == {U \in SUBSET S : ~\E g : IsSum(U, f, g)}
<1> SUFFICES ASSUME F # {} PROVE FALSE
  OBVIOUS
<1>1. PICK U \in F : \A R \in F : ~(R \subseteq U /\ R # U)
  <2>1. F \in SUBSET SUBSET S
    OBVIOUS
  <2> HIDE DEF F
  <2> QED BY <2>1, LeastSet
<1>2. U \in SUBSET S /\ ~\E g : IsSum(U, f, g)
  OBVIOUS
<1> DEFINE Of(R) == CHOOSE g : IsSum(R, f, g)
<1>3. ASSUME NEW R \in SUBSET U, R # U PROVE IsSum(R, f, Of(R))
  <2>1. R \notin F
    <3> HIDE DEF F
    <3> QED BY <1>1, <1>3
  <2>2. \E g : IsSum(R, f, g)
    BY <1>2, <2>1
  <2> QED BY <2>2
<1> HIDE DEF Of, F
<1> DEFINE From(T) == IF T = {} THEN 0 ELSE f[OneOf(T)] + Of(T \ {OneOf(T)})[T \ {OneOf(T)}]
           sum == [T \in SUBSET U |-> From(T)]
<1>4. ASSUME NEW T \in SUBSET U PROVE From(T) = Part(f, sum, T)
  <2>1. CASE T = {}
    BY <2>1 DEF Part
  <2>2. CASE T # {}
    <3> DEFINE R == T \ {OneOf(T)}
    <3>1. OneOf(T) \in T
      BY <2>2 DEF OneOf
    <3>2. R \in SUBSET U /\ R # U
      BY <3>1
    <3>3. IsSum(R, f, Of(R))
      BY <1>3, <3>2
    <3>4. sum[R] = From(R)
      BY <3>2
    <3> HIDE DEF R, sum
    <3>5. Of(R)[R] = Part(f, Of(R), R)
      BY <3>3 DEF IsSum
    <3>6. Of(R)[R] = From(R)
      <4>1. CASE R = {}
        BY <3>5, <4>1 DEF Part
      <4>2. CASE R # {}
        <5> DEFINE Q == R \ {OneOf(R)}
        <5>1. OneOf(R) \in R
          BY <4>2 DEF OneOf
        <5>2. Q \in SUBSET U /\ Q # U /\ Q \in SUBSET R
          BY <3>2, <5>1
        <5>3. IsSum(Q, f, Of(Q))
          BY <1>3, <5>2
        <5>4. Q \in SUBSET (R \cap Q) /\ R \in SUBSET S /\ Q \in SUBSET S
          BY <1>2, <3>2, <5>2
        <5> HIDE DEF Q
        <5>5. Of(R)[Q] = Of(Q)[Q]
          BY <3>3, <5>3, <5>4, SumsAgree
        <5> QED BY <3>5, <4>2, <5>5 DEF Part, Q
      <4> QED BY <4>1, <4>2
    <3> QED BY <2>2, <3>4, <3>6 DEF Part, R
  <2> QED BY <2>1, <2>2
<1>5. IsSum(U, f, sum)
  <2>1. sum = [T \in SUBSET U |-> Part(f, sum, T)]
    <3>1. \A T \in SUBSET U : sum[T] = Part(f, sum, T)
      <4>1. \A T \in SUBSET U : sum[T] = From(T)
        OBVIOUS
      <4> HIDE DEF sum, From
      <4> QED BY <1>4, <4>1
    <3>2. sum = [T \in SUBSET U |-> sum[T]]
      OBVIOUS
    <3> HIDE DEF sum
    <3> QED BY <3>1, <3>2
  <2> HIDE DEF sum
  <2> QED BY <2>1 DEF IsSum
<1> HIDE DEF sum
<1> QED BY <1>2, <1>5

\* What a function makes of a finite set is finite, and no more.
LEMMA ImageIsFinite ==
  ASSUME NEW S, IsFiniteSet(S), NEW f, f = [x \in S |-> f[x]]
  PROVE  IsFiniteSet({f[x] : x \in S}) /\ Cardinality({f[x] : x \in S}) <= Cardinality(S)
<1> DEFINE T == {f[x] : x \in S}
<1>1. f \in [S -> T]
  OBVIOUS
<1>2. \A t \in T : \E x \in S : f[x] = t
  OBVIOUS
<1>3. f \in Surjection(S, T)
  <2> HIDE DEF T
  <2> QED BY <1>1, <1>2 DEF Surjection
<1> HIDE DEF T
<1>4. IsFiniteSet(T) /\ Cardinality(T) <= Cardinality(S)
  BY <1>3, FS_Surjection
<1> QED BY <1>4 DEF T

\* What a function counts of each set: its members in B.
CountsOf(S, f, B) == \A G \in S : IsFiniteSet(G) /\ f[G] = Cardinality(G \cap B)

\* Whatever the members that a set holds of B are counted for, disjoint sets have together as many as
\* their union.
LEMMA SumOfParts ==
  ASSUME NEW S, IsFiniteSet(S), NEW B, NEW f, NEW sum, IsSum(S, f, sum), CountsOf(S, f, B),
         \A G, H \in S : G # H => G \cap H = {}
  PROVE  sum[S] = Cardinality((UNION S) \cap B) /\ IsFiniteSet(UNION S)
<1>3. \A T \in SUBSET S : sum[T] = Part(f, sum, T)
  BY DEF IsSum
<1>9. \A G \in S : IsFiniteSet(G) /\ f[G] = Cardinality(G \cap B)
  BY DEF CountsOf
<1> DEFINE Right(T) == sum[T] = Cardinality((UNION T) \cap B) /\ IsFiniteSet(UNION T)
           F == {T \in SUBSET S : ~Right(T)}
<1> SUFFICES ASSUME F # {} PROVE FALSE
  OBVIOUS
<1>4. PICK T \in F : \A R \in F : ~(R \subseteq T /\ R # T)
  <2>1. F \in SUBSET SUBSET S
    OBVIOUS
  <2> HIDE DEF F
  <2> QED BY <2>1, LeastSet
<1>5. T \in SUBSET S /\ ~Right(T)
  OBVIOUS
<1>6. ASSUME NEW R \in SUBSET T, R # T PROVE Right(R)
  <2>1. R \in SUBSET S /\ R \notin F
    <3> HIDE DEF F
    <3> QED BY <1>4, <1>5, <1>6
  <2> QED BY <2>1
<1>7. CASE T = {}
  <2>1. UNION T = {} /\ (UNION T) \cap B = {} /\ IsFiniteSet({}) /\ Cardinality({}) = 0
    BY <1>7, FS_EmptySet
  <2>2. sum[T] = 0
    BY <1>3, <1>5, <1>7 DEF Part
  <2> QED BY <1>5, <2>1, <2>2
<1>8. CASE T # {}
  <2> DEFINE G == OneOf(T)
             R == T \ {OneOf(T)}
  <2>1. G \in T /\ R \in SUBSET T /\ R # T
    BY <1>8 DEF OneOf
  <2>2. Right(R)
    <3> HIDE DEF Right, R
    <3> QED BY <1>6, <2>1
  <2>3. sum[T] = f[G] + sum[R]
    BY <1>3, <1>5, <1>8 DEF Part
  <2>4. f[G] = Cardinality(G \cap B) /\ IsFiniteSet(G)
    BY <1>5, <1>9, <2>1
  <2>5. UNION T = G \cup UNION R /\ (UNION R) \cap G = {}
    BY <1>5, <2>1
  <2> HIDE DEF G, R
  <2>6. /\ IsFiniteSet(G \cap B) /\ IsFiniteSet((UNION R) \cap B)
        /\ (G \cap B) \cap ((UNION R) \cap B) = {}
        /\ (UNION T) \cap B = (G \cap B) \cup ((UNION R) \cap B)
    <3>1. IsFiniteSet(G \cap B)
      BY <2>4, FS_Subset, G \cap B \in SUBSET G
    <3>2. IsFiniteSet((UNION R) \cap B)
      BY <2>2, FS_Subset, (UNION R) \cap B \in SUBSET UNION R
    <3> HIDE DEF Right
    <3> QED BY <2>5, <3>1, <3>2
  <2>7. Cardinality((UNION T) \cap B) = Cardinality(G \cap B) + Cardinality((UNION R) \cap B)
    <3> DEFINE X == G \cap B
               Y == (UNION R) \cap B
    <3>1. /\ IsFiniteSet(X) /\ IsFiniteSet(Y) /\ X \cap Y = {} /\ (UNION T) \cap B = X \cup Y
      BY <2>6
    <3> HIDE DEF X, Y
    <3>2. Cardinality(X \cup Y) = Cardinality(X) + Cardinality(Y) - Cardinality({})
      BY <3>1, FS_Union
    <3>3. Cardinality(X) \in Nat /\ Cardinality(Y) \in Nat /\ Cardinality({}) = 0
      BY <3>1, FS_CardinalityType, FS_EmptySet
    <3>4. Cardinality(X \cup Y) = Cardinality(X) + Cardinality(Y)
      BY <3>2, <3>3
    <3> QED BY <3>1, <3>4 DEF X, Y
  <2>8. IsFiniteSet(UNION T)
    <3>1. IsFiniteSet(UNION R)
      BY <2>2
    <3>2. \A X, Y : IsFiniteSet(X) /\ IsFiniteSet(Y) => IsFiniteSet(X \cup Y)
      BY FS_Union
    <3>3. IsFiniteSet(G \cup UNION R)
      BY <2>4, <3>1, <3>2
    <3> HIDE DEF Right
    <3> QED BY <2>5, <3>3
  <2> QED BY <1>5, <2>2, <2>3, <2>4, <2>7, <2>8
<1> QED BY <1>7, <1>8

\* A sum of integers is one.
LEMMA SumIsInt ==
  ASSUME NEW S, IsFiniteSet(S), NEW f, \A x \in S : f[x] \in Int, NEW sum, IsSum(S, f, sum)
  PROVE  sum[S] \in Int
<1> DEFINE F == {T \in SUBSET S : sum[T] \notin Int}
<1>3. \A T \in SUBSET S : sum[T] = Part(f, sum, T)
  BY DEF IsSum
<1> SUFFICES ASSUME F # {} PROVE FALSE
  OBVIOUS
<1>4. PICK T \in F : \A R \in F : ~(R \subseteq T /\ R # T)
  <2>1. F \in SUBSET SUBSET S
    OBVIOUS
  <2> HIDE DEF F
  <2> QED BY <2>1, LeastSet
<1>7. T \in SUBSET S /\ sum[T] \notin Int
  OBVIOUS
<1>5. CASE T = {}
  <2>1. sum[T] = 0
    BY <1>3, <1>5, <1>7 DEF Part
  <2> QED BY <1>7, <2>1
<1>6. CASE T # {}
  <2>1. OneOf(T) \in T
    BY <1>6 DEF OneOf
  <2>2. T \ {OneOf(T)} \notin F /\ T \in SUBSET S
    <3>1. T \ {OneOf(T)} \subseteq T /\ T \ {OneOf(T)} # T
      BY <2>1
    <3> HIDE DEF F
    <3> QED BY <1>4, <3>1 DEF F
  <2>3. sum[T \ {OneOf(T)}] \in Int /\ f[OneOf(T)] \in Int
    BY <2>1, <2>2
  <2>4. sum[T] = f[OneOf(T)] + sum[T \ {OneOf(T)}]
    BY <1>3, <1>6, <1>7 DEF Part
  <2> QED BY <1>7, <2>3, <2>4
<1> QED BY <1>5, <1>6

\* How many sessions the groups have together is how many their union has.
LEMMA SumOfCounts ==
  ASSUME NEW S, IsFiniteSet(S), \A G \in S : IsFiniteSet(G), \A G, H \in S : G # H => G \cap H = {}
  PROVE  MapThenSumSet(Cardinality, S) = Cardinality(UNION S)
<1> DEFINE f == [G \in S |-> Cardinality(G)]
           Is(g) == g = [T \in SUBSET S |->
                           IF T = {} THEN 0 ELSE Cardinality(CHOOSE x \in T : TRUE) + g[T \ {CHOOSE x \in T : TRUE}]]
           sum == CHOOSE g : Is(g)
<1> DEFINE B == UNION S
<1>1. \A g : Is(g) <=> IsSum(S, f, g)
  <2>1. ASSUME NEW g, NEW T \in SUBSET S
        PROVE  (IF T = {} THEN 0 ELSE Cardinality(CHOOSE x \in T : TRUE) + g[T \ {CHOOSE x \in T : TRUE}])
                 = Part(f, g, T)
    <3>1. T # {} => (CHOOSE x \in T : TRUE) \in S
      OBVIOUS
    <3> QED BY <3>1 DEF Part, OneOf
  <2> HIDE DEF f
  <2> QED BY <2>1 DEF IsSum
<1>2. IsSum(S, f, sum)
  <2> HIDE DEF f, Is
  <2> QED BY <1>1, SumExists
<1>3. MapThenSumSet(Cardinality, S) = sum[S]
  BY DEF MapThenSumSet, MapThenFoldSet
<1>4. \A G \in S : IsFiniteSet(G) /\ f[G] = Cardinality(G \cap B)
  <2>1. \A G \in S : G \cap B = G
    OBVIOUS
  <2> QED BY <2>1
<1>5. B \cap UNION S = UNION S /\ (UNION S) \cap B = UNION S
  OBVIOUS
<1>7. \A G, H \in S : G # H => G \cap H = {}
  OBVIOUS
<1> HIDE DEF f, sum, B, Is
<1>8. CountsOf(S, f, B)
  BY <1>4 DEF CountsOf
<1>6. sum[S] = Cardinality((UNION S) \cap B)
  BY <1>2, <1>7, <1>8, SumOfParts
<1> QED BY <1>3, <1>5, <1>6

\* How many of them bounced, too.
LEMMA SumOfBounces ==
  ASSUME NEW S, IsFiniteSet(S), \A G \in S : IsFiniteSet(G), \A G, H \in S : G # H => G \cap H = {}
  PROVE  MapThenSumSet(Bounces, S) = Bounces(UNION S)
<1> DEFINE f == [G \in S |-> Bounces(G)]
           Is(g) == g = [T \in SUBSET S |->
                           IF T = {} THEN 0 ELSE Bounces(CHOOSE x \in T : TRUE) + g[T \ {CHOOSE x \in T : TRUE}]]
           sum == CHOOSE g : Is(g)
           B == {s \in UNION S : s.duration < Threshold}
<1>1. \A g : Is(g) <=> IsSum(S, f, g)
  <2>1. ASSUME NEW g, NEW T \in SUBSET S
        PROVE  (IF T = {} THEN 0 ELSE Bounces(CHOOSE x \in T : TRUE) + g[T \ {CHOOSE x \in T : TRUE}])
                 = Part(f, g, T)
    <3>1. T # {} => (CHOOSE x \in T : TRUE) \in S
      OBVIOUS
    <3> QED BY <3>1 DEF Part, OneOf
  <2> HIDE DEF f
  <2> QED BY <2>1 DEF IsSum
<1>2. IsSum(S, f, sum)
  <2> HIDE DEF f, Is
  <2> QED BY <1>1, SumExists
<1>3. MapThenSumSet(Bounces, S) = sum[S]
  BY DEF MapThenSumSet, MapThenFoldSet
<1>4. \A G \in S : IsFiniteSet(G) /\ f[G] = Cardinality(G \cap B)
  <2>1. \A G \in S : G \cap B = {s \in G : s.duration < Threshold}
    OBVIOUS
  <2> QED BY <2>1 DEF Bounces
<1>5. (UNION S) \cap B = {s \in UNION S : s.duration < Threshold}
  OBVIOUS
<1>7. \A G, H \in S : G # H => G \cap H = {}
  OBVIOUS
<1> HIDE DEF f, sum, B, Is
<1>8. CountsOf(S, f, B)
  BY <1>4 DEF CountsOf
<1>6. sum[S] = Cardinality((UNION S) \cap B)
  BY <1>2, <1>7, <1>8, SumOfParts
<1> QED BY <1>3, <1>5, <1>6 DEF Bounces

\* A sum of how far sessions scrolled is an integer.
LEMMA SumOfScrolls ==
  ASSUME NEW S, IsFiniteSet(S), \A s \in S : s.scroll \in Int
  PROVE  MapThenSumSet(LAMBDA s : s.scroll, S) \in Int
<1> DEFINE f == [s \in S |-> s.scroll]
           Is(g) == g = [T \in SUBSET S |->
                           IF T = {} THEN 0 ELSE (CHOOSE x \in T : TRUE).scroll + g[T \ {CHOOSE x \in T : TRUE}]]
           sum == CHOOSE g : Is(g)
<1>1. \A g : Is(g) <=> IsSum(S, f, g)
  <2>1. ASSUME NEW g, NEW T \in SUBSET S
        PROVE  (IF T = {} THEN 0 ELSE (CHOOSE x \in T : TRUE).scroll + g[T \ {CHOOSE x \in T : TRUE}]) = Part(f, g, T)
    <3>1. T # {} => (CHOOSE x \in T : TRUE) \in S
      OBVIOUS
    <3> QED BY <3>1 DEF Part, OneOf
  <2> HIDE DEF f
  <2> QED BY <2>1 DEF IsSum
<1>2. IsSum(S, f, sum)
  <2> HIDE DEF f, Is
  <2> QED BY <1>1, SumExists
<1>3. MapThenSumSet(LAMBDA s : s.scroll, S) = sum[S]
  BY DEF MapThenSumSet, MapThenFoldSet
<1>4. \A s \in S : f[s] \in Int
  OBVIOUS
<1> HIDE DEF f, sum
<1> QED BY <1>2, <1>3, <1>4, SumIsInt

-----------------------------------------------------------------------------
(* Groups and the shown that are made of them. *)

\* Sessions as the tables have them, and queries as the DTOs let them pass.
Sessions(S) ==
  /\ IsFiniteSet(S) /\ \A s, t \in S : s.id = t.id => s = t
  /\ \A s \in S : s.id \in Nat /\ s.day \in Int /\ s.duration \in Nat /\ s.scroll \in Nat

\* Some of the sessions are sessions.
LEMMA SomeSessions ==
  ASSUME NEW S, Sessions(S), NEW T \in SUBSET S
  PROVE  Sessions(T)
<1>1. IsFiniteSet(T)
  BY FS_Subset DEF Sessions
<1> QED BY <1>1 DEF Sessions

\* Groups are not empty, have no session in common, are made of sessions with one key, and every
\* session is in the one of its key.
LEMMA GroupsSplit ==
  ASSUME NEW S, IsFiniteSet(S), NEW unit, NEW dims
  PROVE  /\ IsFiniteSet(Groups(S, unit, dims))
         /\ \A G \in Groups(S, unit, dims) :
              /\ G \in SUBSET S /\ G # {} /\ IsFiniteSet(G)
              /\ \A s \in G : G = {t \in S : KeyOf(t, unit, dims) = KeyOf(s, unit, dims)}
         /\ \A G, H \in Groups(S, unit, dims) : G # H => G \cap H = {}
         /\ UNION Groups(S, unit, dims) = S
         /\ \A s \in S : {t \in S : KeyOf(t, unit, dims) = KeyOf(s, unit, dims)} \in Groups(S, unit, dims)
<1> DEFINE K(s) == KeyOf(s, unit, dims)
           Keys == {K(s) : s \in S}
           Of(k) == {s \in S : K(s) = k}
<1>1. Groups(S, unit, dims) = {Of(k) : k \in Keys}
  BY DEF Groups
<1>2. IsFiniteSet(Keys)
  <2> DEFINE f == [s \in S |-> K(s)]
  <2>1. {f[s] : s \in S} = Keys
    OBVIOUS
  <2> HIDE DEF f, Keys
  <2>2. f = [s \in S |-> f[s]]
    BY DEF f
  <2> QED BY <2>1, <2>2, ImageIsFinite
<1> HIDE DEF K
<1>3. IsFiniteSet({Of(k) : k \in Keys})
  <2> DEFINE f == [k \in Keys |-> Of(k)]
             T == {Of(k) : k \in Keys}
  <2>1. {f[k] : k \in Keys} = T
    OBVIOUS
  <2>2. f = [k \in Keys |-> f[k]]
    OBVIOUS
  <2> HIDE DEF f, Keys, T
  <2>3. IsFiniteSet(T)
    BY <1>2, <2>1, <2>2, ImageIsFinite
  <2> QED BY <2>3 DEF T
<1>4. \A k \in Keys : Of(k) \in SUBSET S /\ Of(k) # {} /\ \A s \in Of(k) : K(s) = k
  OBVIOUS
<1>5. \A s \in S : K(s) \in Keys /\ s \in Of(K(s))
  OBVIOUS
<1>6. \A G \in {Of(k) : k \in Keys} : \A s \in G : G = Of(K(s))
  BY <1>4
<1>7. \A G \in {Of(k) : k \in Keys} : G \in SUBSET S /\ G # {} /\ IsFiniteSet(G)
  <2>1. \A G \in SUBSET S : IsFiniteSet(G)
    BY FS_Subset
  <2> QED BY <1>4, <2>1
<1>8. \A G, H \in {Of(k) : k \in Keys} : G # H => G \cap H = {}
  <2> HIDE DEF Of, Keys
  <2> QED BY <1>6
<1>9. UNION {Of(k) : k \in Keys} = S
  BY <1>4, <1>5
<1> QED BY <1>1, <1>3, <1>5, <1>6, <1>7, <1>8, <1>9 DEF K

\* The row of a group has the key of each of its sessions.
LEMMA RowOfGroup ==
  ASSUME NEW q, NEW S, IsFiniteSet(S), NEW G \in Groups(S, q.unit, q.dims)
  PROVE  /\ \A s \in G : FigureRow(q, G).key = KeyOf(s, q.unit, q.dims)
         /\ FigureRow(q, G).figures = Figures(G)
         /\ \A H \in Groups(S, q.unit, q.dims) : FigureRow(q, H).key = FigureRow(q, G).key => H = G
<1>1. \A H \in Groups(S, q.unit, q.dims) : \A s \in H : FigureRow(q, H).key = KeyOf(s, q.unit, q.dims)
  <2> SUFFICES ASSUME NEW H \in Groups(S, q.unit, q.dims), NEW s \in H
               PROVE  FigureRow(q, H).key = KeyOf(s, q.unit, q.dims)
    OBVIOUS
  <2> DEFINE t == CHOOSE t \in H : TRUE
  <2>1. t \in H
    OBVIOUS
  <2>2. t \in S /\ H = {u \in S : KeyOf(u, q.unit, q.dims) = KeyOf(s, q.unit, q.dims)}
    BY <2>1, GroupsSplit
  <2>3. KeyOf(t, q.unit, q.dims) = KeyOf(s, q.unit, q.dims)
    BY <2>1, <2>2
  <2>4. FigureRow(q, H).key = KeyOf(t, q.unit, q.dims)
    BY DEF FigureRow
  <2> QED BY <2>3, <2>4
<1>2. FigureRow(q, G).figures = Figures(G)
  BY DEF FigureRow
<1>3. ASSUME NEW H \in Groups(S, q.unit, q.dims), FigureRow(q, H).key = FigureRow(q, G).key PROVE H = G
  <2>1. PICK s \in G, t \in H : TRUE
    BY GroupsSplit
  <2>2. KeyOf(s, q.unit, q.dims) = KeyOf(t, q.unit, q.dims)
    BY <1>1, <1>3
  <2>3. /\ G = {u \in S : KeyOf(u, q.unit, q.dims) = KeyOf(s, q.unit, q.dims)}
        /\ H = {u \in S : KeyOf(u, q.unit, q.dims) = KeyOf(t, q.unit, q.dims)}
    BY GroupsSplit
  <2> QED BY <2>2, <2>3
<1> QED BY <1>1, <1>2, <1>3

-----------------------------------------------------------------------------
(* Medians. *)

\* A finite set of integers has a least and a greatest element.
LEMMA MinMax ==
  ASSUME NEW S, IsFiniteSet(S), \A x \in S : x \in Int, S # {}
  PROVE  /\ Min(S) \in S /\ \A x \in S : Min(S) <= x
         /\ Max(S) \in S /\ \A x \in S : x <= Max(S)
<1> DEFINE Ends(T) == T = {} \/ ((\E x \in T : \A y \in T : x <= y) /\ \E x \in T : \A y \in T : y <= x)
           Bad == {T \in SUBSET S : ~Ends(T)}
<1>1. Bad = {}
  <2> SUFFICES ASSUME Bad # {} PROVE FALSE
    OBVIOUS
  <2>1. PICK T \in Bad : \A R \in Bad : ~(R \subseteq T /\ R # T)
    <3>1. Bad \in SUBSET SUBSET S
      OBVIOUS
    <3> HIDE DEF Bad, Ends
    <3> QED BY <3>1, LeastSet
  <2>2. T \in SUBSET S /\ ~Ends(T)
    OBVIOUS
  <2>3. PICK z \in T : TRUE
    BY <2>2
  <2>4. Ends(T \ {z})
    <3>1. T \ {z} \in SUBSET S /\ T \ {z} \subseteq T /\ T \ {z} # T
      BY <2>2
    <3>2. T \ {z} \notin Bad
      <4> HIDE DEF Bad
      <4> QED BY <2>1, <3>1
    <3> HIDE DEF Ends
    <3> QED BY <3>1, <3>2
  <2>5. T \subseteq Int /\ T = (T \ {z}) \cup {z}
    BY <2>2
  <2>6. CASE T \ {z} = {}
    <3>1. T = {z} /\ z \in Int
      BY <2>5, <2>6
    <3> QED BY <2>2, <3>1
  <2>7. CASE T \ {z} # {}
    <3>1. PICK a \in T \ {z}, b \in T \ {z} : \A y \in T \ {z} : a <= y /\ y <= b
      BY <2>4, <2>7
    <3>2. a \in Int /\ b \in Int /\ z \in Int /\ \A y \in T : y \in Int /\ (y = z \/ (a <= y /\ y <= b))
      BY <2>5, <3>1
    <3>3. \E x \in T : \A y \in T : x <= y
      <4>1. CASE a <= z
        BY <3>2, <4>1
      <4>2. CASE ~(a <= z)
        BY <3>2, <4>2
      <4> QED BY <4>1, <4>2
    <3>4. \E x \in T : \A y \in T : y <= x
      <4>1. CASE z <= b
        BY <3>2, <4>1
      <4>2. CASE ~(z <= b)
        BY <3>2, <4>2
      <4> QED BY <4>1, <4>2
    <3> QED BY <2>2, <3>3, <3>4
  <2> QED BY <2>6, <2>7
<1>2. Ends(S)
  BY <1>1
<1>3. (\E x \in S : \A y \in S : x <= y) /\ \E x \in S : \A y \in S : x >= y
  <2>1. PICK x \in S : \A y \in S : y <= x
    BY <1>2
  <2>2. \A y \in S : x >= y
    BY <2>1
  <2> QED BY <1>2, <2>2
<1>4. Min(S) \in S /\ \A y \in S : Min(S) <= y
  BY <1>3 DEF Min
<1>5. Max(S) \in S /\ \A y \in S : Max(S) >= y
  BY <1>3 DEF Max
<1>6. \A y \in S : y <= Max(S)
  BY <1>5
<1> QED BY <1>4, <1>5, <1>6

\* Durations of a group.
Durations(G) == {s.duration : s \in G}
Below(G, d) == {s \in G : s.duration < d}

\* The sessions below a duration and those that reach it are all.
LEMMA BelowAndAtLeast ==
  ASSUME NEW G, Sessions(G), NEW d \in Nat
  PROVE  /\ IsFiniteSet(G) /\ Cardinality(G) \in Nat
         /\ IsFiniteSet(Below(G, d)) /\ IsFiniteSet(AtLeast(G, d)) /\ IsFiniteSet(AtMost(G, d))
         /\ Cardinality(Below(G, d)) \in Nat /\ Cardinality(AtLeast(G, d)) \in Nat /\ Cardinality(AtMost(G, d)) \in Nat
         /\ Cardinality(G) = Cardinality(Below(G, d)) + Cardinality(AtLeast(G, d))
<1>1. IsFiniteSet(G) /\ \A s \in G : s.duration \in Nat
  BY DEF Sessions
<1>2. Below(G, d) \in SUBSET G /\ AtLeast(G, d) \in SUBSET G /\ AtMost(G, d) \in SUBSET G
  BY DEF Below, AtLeast, AtMost
<1>3. IsFiniteSet(Below(G, d)) /\ IsFiniteSet(AtLeast(G, d)) /\ IsFiniteSet(AtMost(G, d))
  BY <1>1, <1>2, FS_Subset
<1>4. /\ Cardinality(G) \in Nat /\ Cardinality(Below(G, d)) \in Nat /\ Cardinality(AtLeast(G, d)) \in Nat
      /\ Cardinality(AtMost(G, d)) \in Nat
  BY <1>1, <1>3, FS_CardinalityType
<1>5. Below(G, d) \cup AtLeast(G, d) = G /\ Below(G, d) \cap AtLeast(G, d) = {}
  BY <1>1 DEF Below, AtLeast
<1>6. Cardinality(G) = Cardinality(Below(G, d)) + Cardinality(AtLeast(G, d)) - Cardinality({})
  BY <1>3, <1>5, FS_Union
<1>7. Cardinality({}) = 0
  BY FS_EmptySet
<1> QED BY <1>1, <1>3, <1>4, <1>6, <1>7

\* Finitely many sessions have finitely many durations.
LEMMA DurationsAreFinite ==
  ASSUME NEW G, IsFiniteSet(G)
  PROVE  IsFiniteSet(Durations(G))
<1> DEFINE f == [s \in G |-> s.duration]
<1>1. {f[s] : s \in G} = Durations(G)
  BY DEF Durations
<1>2. f = [s \in G |-> f[s]]
  OBVIOUS
<1> HIDE DEF f
<1> QED BY <1>1, <1>2, ImageIsFinite

\* There are two in the middle, and the first is not after the second.
LEMMA MiddleExists ==
  ASSUME NEW G, Sessions(G), G # {}
  PROVE  /\ Min(Lower(G)) \in Lower(G) /\ \A d \in Lower(G) : Min(Lower(G)) <= d
         /\ Max(Upper(G)) \in Upper(G) /\ \A d \in Upper(G) : d <= Max(Upper(G))
         /\ Lower(G) \subseteq Durations(G) /\ Upper(G) \subseteq Durations(G) /\ Durations(G) \subseteq Nat
<1>1. Durations(G) \subseteq Nat /\ Durations(G) # {} /\ Durations(G) \subseteq Int
  BY DEF Durations, Sessions
<1>2. IsFiniteSet(Durations(G))
  BY DurationsAreFinite DEF Sessions
<1>3. Lower(G) \in SUBSET Durations(G) /\ Upper(G) \in SUBSET Durations(G)
  BY DEF Lower, Upper, Durations
<1>4. IsFiniteSet(Lower(G)) /\ IsFiniteSet(Upper(G))
  BY <1>2, <1>3, FS_Subset
<1>5. Cardinality(G) \in Nat
  BY FS_CardinalityType DEF Sessions
<1>6. Max(Durations(G)) \in Lower(G)
  <2>1. Max(Durations(G)) \in Durations(G) /\ \A x \in Durations(G) : x <= Max(Durations(G))
    BY <1>1, <1>2, MinMax
  <2>2. AtMost(G, Max(Durations(G))) = G
    BY <2>1 DEF AtMost, Durations
  <2>3. 2 * Cardinality(G) >= Cardinality(G)
    BY <1>5
  <2> QED BY <2>1, <2>2, <2>3 DEF Lower, Durations
<1>7. Min(Durations(G)) \in Upper(G)
  <2>1. Min(Durations(G)) \in Durations(G) /\ \A x \in Durations(G) : Min(Durations(G)) <= x
    BY <1>1, <1>2, MinMax
  <2>2. AtLeast(G, Min(Durations(G))) = G
    <3>1. \A s \in G : s.duration \in Int /\ Min(Durations(G)) \in Int /\ Min(Durations(G)) <= s.duration
      BY <1>1, <2>1 DEF Durations
    <3> QED BY <3>1 DEF AtLeast
  <2>3. 2 * Cardinality(G) >= Cardinality(G)
    BY <1>5
  <2> QED BY <2>1, <2>2, <2>3 DEF Upper, Durations
<1>8. Lower(G) \in SUBSET Int /\ Upper(G) \in SUBSET Int /\ Lower(G) # {} /\ Upper(G) # {}
  BY <1>1, <1>3, <1>6, <1>7
<1> QED BY <1>1, <1>3, <1>4, <1>8, MinMax

\* The first in the middle is not after what half of the sessions do not exceed, the second not before
\* what half of them reach.
LEMMA MiddleIsReached ==
  ASSUME NEW G, Sessions(G), G # {}, NEW d \in Int
  PROVE  /\ 2 * Cardinality(AtMost(G, d)) >= Cardinality(G) => Min(Lower(G)) <= d
         /\ 2 * Cardinality(AtLeast(G, d)) >= Cardinality(G) => d <= Max(Upper(G))
<1>1. IsFiniteSet(G) /\ \A s \in G : s.duration \in Nat
  BY DEF Sessions
<1>2. Cardinality(G) \in Nat /\ Cardinality(G) # 0 /\ Cardinality({}) = 0
  BY <1>1, FS_CardinalityType, FS_EmptySet
<1>3. ASSUME NEW H \in SUBSET G, H # {}
      PROVE  /\ Durations(H) \in SUBSET Int /\ IsFiniteSet(Durations(H)) /\ Durations(H) # {}
             /\ Durations(H) \subseteq Durations(G)
  <2>1. IsFiniteSet(H)
    BY <1>1, <1>3, FS_Subset
  <2>2. IsFiniteSet(Durations(H))
    BY <2>1, DurationsAreFinite
  <2> QED BY <1>1, <1>3, <2>2 DEF Durations
<1>4. ASSUME 2 * Cardinality(AtMost(G, d)) >= Cardinality(G) PROVE Min(Lower(G)) <= d
  <2> DEFINE H == AtMost(G, d)
             m == Max(Durations(H))
  <2>1. H # {} /\ H \in SUBSET G
    BY <1>2, <1>4 DEF AtMost
  <2>2. m \in Durations(H) /\ \A x \in Durations(H) : x <= m
    <3> HIDE DEF H
    <3> QED BY <1>3, <2>1, MinMax
  <2>3. m \in Durations(G) /\ m \in Int /\ m <= d
    <3>1. PICK s \in H : m = s.duration
      BY <2>2 DEF Durations
    <3> HIDE DEF m
    <3> QED BY <1>1, <3>1 DEF Durations, AtMost
  <2>4. AtMost(G, m) = H
    <3>1. \A s \in G : s.duration \in Int /\ (s.duration <= d => s.duration <= m)
      BY <1>1, <2>2 DEF Durations, AtMost
    <3> HIDE DEF m
    <3> QED BY <2>3, <3>1 DEF AtMost
  <2>5. m \in Lower(G)
    <3> HIDE DEF m
    <3> QED BY <1>4, <2>3, <2>4 DEF Lower, Durations
  <2>6. Min(Lower(G)) <= m /\ Min(Lower(G)) \in Nat
    BY <2>5, MiddleExists
  <2> HIDE DEF m
  <2> QED BY <2>3, <2>6
<1>5. ASSUME 2 * Cardinality(AtLeast(G, d)) >= Cardinality(G) PROVE d <= Max(Upper(G))
  <2> DEFINE H == AtLeast(G, d)
             m == Min(Durations(H))
  <2>1. H # {} /\ H \in SUBSET G
    BY <1>2, <1>5 DEF AtLeast
  <2>2. m \in Durations(H) /\ \A x \in Durations(H) : m <= x
    <3> HIDE DEF H
    <3> QED BY <1>3, <2>1, MinMax
  <2>3. m \in Durations(G) /\ m \in Int /\ d <= m
    <3>1. PICK s \in H : m = s.duration
      BY <2>2 DEF Durations
    <3> HIDE DEF m
    <3> QED BY <1>1, <3>1 DEF Durations, AtLeast
  <2>4. AtLeast(G, m) = H
    <3>1. \A s \in G : s.duration \in Int /\ (s.duration >= d => m <= s.duration)
      BY <1>1, <2>2 DEF Durations, AtLeast
    <3> HIDE DEF m
    <3> QED BY <2>3, <3>1 DEF AtLeast
  <2>5. m \in Upper(G)
    <3> HIDE DEF m
    <3> QED BY <1>5, <2>3, <2>4 DEF Upper, Durations
  <2>6. m <= Max(Upper(G)) /\ Max(Upper(G)) \in Nat
    BY <2>5, MiddleExists
  <2> HIDE DEF m
  <2> QED BY <2>3, <2>6
<1> QED BY <1>4, <1>5

\* Where more sessions reach a duration than not, both in the middle reach it.
LEMMA MostReach ==
  ASSUME NEW G, Sessions(G), G # {}, NEW d \in Nat, Cardinality(AtLeast(G, d)) > Cardinality(Below(G, d))
  PROVE  Min(Lower(G)) >= d /\ Max(Upper(G)) >= d
<1> DEFINE p == Min(Lower(G))
<1>1. /\ Cardinality(Below(G, d)) \in Nat /\ Cardinality(AtLeast(G, d)) \in Nat /\ IsFiniteSet(Below(G, d))
      /\ Cardinality(G) = Cardinality(Below(G, d)) + Cardinality(AtLeast(G, d))
  BY BelowAndAtLeast
<1>2. p \in Nat /\ Max(Upper(G)) \in Nat /\ 2 * Cardinality(AtMost(G, p)) >= Cardinality(G)
  <2>1. p \in Nat /\ Max(Upper(G)) \in Nat /\ p \in Lower(G)
    BY MiddleExists
  <2> HIDE DEF p
  <2> QED BY <2>1 DEF Lower
<1>3. Max(Upper(G)) >= d
  <2>1. 2 * Cardinality(AtLeast(G, d)) >= Cardinality(G)
    BY <1>1
  <2>2. d <= Max(Upper(G))
    BY <2>1, MiddleIsReached
  <2> QED BY <1>2, <2>2
<1> HIDE DEF p
<1>4. ASSUME p < d PROVE FALSE
  <2>1. AtMost(G, p) \in SUBSET Below(G, d)
    <3>1. \A s \in G : s.duration \in Nat
      BY DEF Sessions
    <3> QED BY <1>2, <1>4, <3>1 DEF AtMost, Below
  <2>2. Cardinality(AtMost(G, p)) \in Nat
    BY <1>2, BelowAndAtLeast
  <2>3. Cardinality(AtMost(G, p)) <= Cardinality(Below(G, d))
    BY <1>1, <2>1, FS_Subset
  <2> QED BY <1>1, <1>2, <2>2, <2>3
<1>5. p >= d
  BY <1>2, <1>4
<1> QED BY <1>3, <1>5 DEF p

\* The first in the middle is not after the second.
LEMMA MiddleIsOrdered ==
  ASSUME NEW G, Sessions(G), G # {}
  PROVE  /\ Min(Lower(G)) <= Max(Upper(G))
         /\ Cardinality(AtLeast(G, Min(Lower(G)))) > Cardinality(Below(G, Min(Lower(G))))
<1> DEFINE p == Min(Lower(G))
<1>1. p \in Nat /\ Max(Upper(G)) \in Nat
  BY MiddleExists
<1> HIDE DEF p
<1>2. /\ Cardinality(Below(G, p)) \in Nat /\ Cardinality(AtLeast(G, p)) \in Nat /\ Cardinality(G) \in Nat
      /\ Cardinality(G) = Cardinality(Below(G, p)) + Cardinality(AtLeast(G, p))
  BY <1>1, BelowAndAtLeast
<1>3. AtMost(G, p - 1) = Below(G, p)
  <2>1. \A s \in G : s.duration \in Nat
    BY DEF Sessions
  <2> QED BY <1>1, <2>1 DEF AtMost, Below
<1>4. ~(2 * Cardinality(Below(G, p)) >= Cardinality(G))
  <2> SUFFICES ASSUME 2 * Cardinality(Below(G, p)) >= Cardinality(G) PROVE FALSE
    OBVIOUS
  <2>1. p - 1 \in Int
    BY <1>1
  <2>2. p <= p - 1
    BY <1>3, <2>1, MiddleIsReached DEF p
  <2> QED BY <1>1, <2>2
<1>5. Cardinality(AtLeast(G, p)) > Cardinality(Below(G, p)) /\ 2 * Cardinality(AtLeast(G, p)) >= Cardinality(G)
  BY <1>2, <1>4
<1>6. p <= Max(Upper(G))
  <2>1. p \in Int
    BY <1>1
  <2> QED BY <1>5, <2>1, MiddleIsReached
<1> QED BY <1>5, <1>6 DEF p

\* Sessions of two groups add up, on either side of a duration.
LEMMA CountsAdd ==
  ASSUME NEW G, NEW H, Sessions(G), Sessions(H), G \cap H = {}, NEW d \in Nat
  PROVE  /\ Cardinality(AtLeast(G \cup H, d)) = Cardinality(AtLeast(G, d)) + Cardinality(AtLeast(H, d))
         /\ Cardinality(Below(G \cup H, d)) = Cardinality(Below(G, d)) + Cardinality(Below(H, d))
<1>1. /\ IsFiniteSet(AtLeast(G, d)) /\ IsFiniteSet(AtLeast(H, d)) /\ IsFiniteSet(Below(G, d)) /\ IsFiniteSet(Below(H, d))
      /\ Cardinality(AtLeast(G, d)) \in Nat /\ Cardinality(AtLeast(H, d)) \in Nat
      /\ Cardinality(Below(G, d)) \in Nat /\ Cardinality(Below(H, d)) \in Nat
  BY BelowAndAtLeast
<1>2. \A X, Y : IsFiniteSet(X) /\ IsFiniteSet(Y) /\ X \cap Y = {} /\ Cardinality(X) \in Nat /\ Cardinality(Y) \in Nat
                  => Cardinality(X \cup Y) = Cardinality(X) + Cardinality(Y)
  <2> SUFFICES ASSUME NEW X, NEW Y, IsFiniteSet(X), IsFiniteSet(Y), X \cap Y = {}, Cardinality(X) \in Nat,
                      Cardinality(Y) \in Nat
               PROVE  Cardinality(X \cup Y) = Cardinality(X) + Cardinality(Y)
    OBVIOUS
  <2>1. Cardinality(X \cup Y) = Cardinality(X) + Cardinality(Y) - Cardinality({})
    BY FS_Union
  <2>2. Cardinality({}) = 0
    BY FS_EmptySet
  <2> QED BY <2>1, <2>2
<1>3. AtLeast(G \cup H, d) = AtLeast(G, d) \cup AtLeast(H, d) /\ AtLeast(G, d) \cap AtLeast(H, d) = {}
  BY DEF AtLeast
<1>4. Below(G \cup H, d) = Below(G, d) \cup Below(H, d) /\ Below(G, d) \cap Below(H, d) = {}
  BY DEF Below
<1> QED BY <1>1, <1>2, <1>3, <1>4

\* If in no group more sessions reach a duration than not, no more do in all of them together.
LEMMA NoMoreReach ==
  ASSUME NEW U, Sessions(U), NEW T, IsFiniteSet(T), T \subseteq SUBSET U, \A G, H \in T : G # H => G \cap H = {},
         NEW d \in Nat, \A G \in T : Cardinality(AtLeast(G, d)) <= Cardinality(Below(G, d))
  PROVE  Cardinality(AtLeast(UNION T, d)) <= Cardinality(Below(UNION T, d))
<1> DEFINE Right(R) == Cardinality(AtLeast(UNION R, d)) <= Cardinality(Below(UNION R, d))
           F == {R \in SUBSET T : ~Right(R)}
<1> SUFFICES ASSUME F # {} PROVE FALSE
  OBVIOUS
<1>1. PICK R \in F : \A Q \in F : ~(Q \subseteq R /\ Q # R)
  <2>1. F \in SUBSET SUBSET T
    OBVIOUS
  <2> HIDE DEF F
  <2> QED BY <2>1, LeastSet
<1>2. R \in SUBSET T /\ ~Right(R)
  OBVIOUS
<1>3. CASE R = {}
  <2>1. AtLeast(UNION R, d) = {} /\ Below(UNION R, d) = {} /\ Cardinality({}) = 0
    BY <1>3, FS_EmptySet DEF AtLeast, Below
  <2>2. Cardinality(AtLeast(UNION R, d)) = 0 /\ Cardinality(Below(UNION R, d)) = 0
    BY <2>1
  <2>3. 0 <= 0
    OBVIOUS
  <2>4. Right(R)
    <3> HIDE DEF F
    <3> QED BY <2>2, <2>3
  <2> QED BY <1>2, <2>4
<1>4. CASE R # {}
  <2>1. PICK G \in R : TRUE
    BY <1>4
  <2> DEFINE Q == R \ {G}
  <2>2. Right(Q)
    <3>1. Q \in SUBSET T /\ Q \subseteq R /\ Q # R
      BY <1>2, <2>1
    <3>2. Q \notin F
      <4> HIDE DEF F, Q
      <4> QED BY <1>1, <3>1
    <3> HIDE DEF Right, Q
    <3> QED BY <3>1, <3>2
  <2>3. UNION R = G \cup UNION Q /\ G \cap UNION Q = {} /\ UNION Q \in SUBSET U /\ G \in SUBSET U /\ G \in T
    BY <1>2, <2>1
  <2> HIDE DEF Q
  <2>4. Sessions(G) /\ Sessions(UNION Q)
    BY <2>3, SomeSessions
  <2> DEFINE V == UNION Q
  <2>5. /\ Cardinality(AtLeast(G \cup V, d)) = Cardinality(AtLeast(G, d)) + Cardinality(AtLeast(V, d))
        /\ Cardinality(Below(G \cup V, d)) = Cardinality(Below(G, d)) + Cardinality(Below(V, d))
    <3> HIDE DEF V
    <3> QED BY <2>3, <2>4, CountsAdd DEF V
  <2>6. /\ Cardinality(AtLeast(G, d)) \in Nat /\ Cardinality(Below(G, d)) \in Nat
        /\ Cardinality(AtLeast(V, d)) \in Nat /\ Cardinality(Below(V, d)) \in Nat
    BY <2>4, BelowAndAtLeast
  <2>7. Cardinality(AtLeast(G, d)) <= Cardinality(Below(G, d)) /\ Cardinality(AtLeast(V, d)) <= Cardinality(Below(V, d))
    BY <2>2, <2>3
  <2>9. UNION R = G \cup V
    BY <2>3
  <2>8. Cardinality(AtLeast(UNION R, d)) <= Cardinality(Below(UNION R, d))
    <3> HIDE DEF V, Right, F
    <3>1. Cardinality(AtLeast(G \cup V, d)) <= Cardinality(Below(G \cup V, d))
      BY <2>5, <2>6, <2>7
    <3> QED BY <2>9, <3>1
  <2> QED BY <1>2, <2>8
<1> QED BY <1>3, <1>4

\* A group that is made of others has no greater median than the greatest of theirs.
LEMMA MedianOfUnion ==
  ASSUME NEW U, Sessions(U), U # {}, NEW T, IsFiniteSet(T), T \subseteq SUBSET U, UNION T = U,
         \A G, H \in T : G # H => G \cap H = {}, \A G \in T : G # {},
         NEW m \in Int, \A G \in T : Median(G) <= m
  PROVE  Median(U) <= m
<1> DEFINE u == Min(Lower(U))
           v == Max(Upper(U))
<1>1. u \in Nat /\ v \in Nat /\ u \in Durations(U) /\ u \in Lower(U) /\ v \in Upper(U)
  BY MiddleExists
<1>2. u <= v /\ Cardinality(AtLeast(U, u)) > Cardinality(Below(U, u))
  BY MiddleIsOrdered
<1>3. 2 * Cardinality(AtMost(U, u)) >= Cardinality(U) /\ 2 * Cardinality(AtLeast(U, v)) >= Cardinality(U)
  BY <1>1 DEF Lower, Upper
<1>4. Median(U) = u + v
  BY DEF Median
<1> HIDE DEF u, v
<1>5. \A G \in T : Sessions(G) /\ G # {}
  BY SomeSessions
<1>6. ASSUME NEW G \in T PROVE Min(Lower(G)) \in Nat /\ Max(Upper(G)) \in Nat /\ Min(Lower(G)) + Max(Upper(G)) <= m
  <2>1. Median(G) <= m /\ Median(G) = Min(Lower(G)) + Max(Upper(G))
    BY DEF Median
  <2>2. Min(Lower(G)) \in Nat /\ Max(Upper(G)) \in Nat
    BY <1>5, MiddleExists
  <2> QED BY <2>1, <2>2
<1> SUFFICES ASSUME u + v > m PROVE FALSE
  BY <1>1, <1>4
\* No group has most of its sessions beyond the second in the middle, or beyond the first if they are one.
<1>7. ASSUME NEW G \in T, NEW d \in Nat, 2 * d > m PROVE Cardinality(AtLeast(G, d)) <= Cardinality(Below(G, d))
  <2>1. Cardinality(AtLeast(G, d)) \in Nat /\ Cardinality(Below(G, d)) \in Nat
    BY <1>5, BelowAndAtLeast
  <2>2. ASSUME Cardinality(AtLeast(G, d)) > Cardinality(Below(G, d)) PROVE FALSE
    <3>1. Min(Lower(G)) >= d /\ Max(Upper(G)) >= d
      BY <1>5, <2>2, MostReach
    <3> QED BY <1>6, <1>7, <3>1
  <2> QED BY <2>1, <2>2
<1>8. CASE u = v
  <2>1. 2 * u > m
    BY <1>1, <1>8
  <2>2. \A G \in T : Cardinality(AtLeast(G, u)) <= Cardinality(Below(G, u))
    BY <1>1, <1>7, <2>1
  <2>3. Cardinality(AtLeast(U, u)) <= Cardinality(Below(U, u))
    <3>1. Cardinality(AtLeast(UNION T, u)) <= Cardinality(Below(UNION T, u))
      BY <1>1, <2>2, NoMoreReach
    <3> QED BY <3>1
  <2>4. Cardinality(AtLeast(U, u)) \in Nat /\ Cardinality(Below(U, u)) \in Nat
    BY <1>1, BelowAndAtLeast
  <2> QED BY <1>2, <2>3, <2>4
<1>9. CASE u # v
  <2>1. u < v /\ 2 * v > m
    BY <1>1, <1>2, <1>9
  <2>2. \A G \in T : Cardinality(AtLeast(G, v)) <= Cardinality(Below(G, v))
    BY <1>1, <1>7, <2>1
  <2>3. /\ Cardinality(AtLeast(U, v)) \in Nat /\ Cardinality(Below(U, v)) \in Nat /\ Cardinality(AtMost(U, u)) \in Nat
        /\ Cardinality(U) = Cardinality(Below(U, v)) + Cardinality(AtLeast(U, v)) /\ IsFiniteSet(Below(U, v))
    BY <1>1, BelowAndAtLeast
  <2>4. AtMost(U, u) \in SUBSET Below(U, v)
    <3>1. \A s \in U : s.duration \in Nat
      BY DEF Sessions
    <3> QED BY <1>1, <2>1, <3>1 DEF AtMost, Below
  <2>5. Cardinality(AtMost(U, u)) <= Cardinality(Below(U, v))
    BY <2>3, <2>4, FS_Subset
  <2>6. Cardinality(AtLeast(U, v)) = Cardinality(Below(U, v)) /\ Cardinality(AtMost(U, u)) = Cardinality(Below(U, v))
    <3>1. Cardinality(AtLeast(UNION T, v)) <= Cardinality(Below(UNION T, v))
      BY <1>1, <2>2, NoMoreReach
    <3> QED BY <1>3, <2>3, <2>5, <3>1
  <2>7. PICK e \in U : e.duration = u
    BY <1>1 DEF Durations
  <2>8. PICK G \in T : e \in G
    BY <2>7
  <2> DEFINE R == T \ {G}
             V == UNION R
  <2>9. U = G \cup V /\ G \cap V = {} /\ V \in SUBSET U /\ G \in SUBSET U /\ R \in SUBSET T
    BY <2>8
  <2>10. Sessions(G) /\ G # {} /\ Sessions(V) /\ IsFiniteSet(R)
    <3> HIDE DEF V, R
    <3> QED BY <1>5, <2>9, SomeSessions, FS_Subset
  <2>11. Cardinality(AtLeast(V, v)) <= Cardinality(Below(V, v))
    <3>1. /\ R \subseteq SUBSET U /\ \A H, K \in R : H # K => H \cap K = {}
          /\ \A H \in R : Cardinality(AtLeast(H, v)) <= Cardinality(Below(H, v))
      BY <2>2
    <3> HIDE DEF R
    <3> QED BY <1>1, <2>10, <3>1, NoMoreReach
  <2> HIDE DEF V, R
  <2>12. /\ Cardinality(AtLeast(U, v)) = Cardinality(AtLeast(G, v)) + Cardinality(AtLeast(V, v))
         /\ Cardinality(Below(U, v)) = Cardinality(Below(G, v)) + Cardinality(Below(V, v))
    BY <1>1, <2>9, <2>10, CountsAdd
  <2>13. /\ Cardinality(AtLeast(G, v)) \in Nat /\ Cardinality(Below(G, v)) \in Nat /\ Cardinality(G) \in Nat
         /\ Cardinality(AtLeast(V, v)) \in Nat /\ Cardinality(Below(V, v)) \in Nat /\ IsFiniteSet(Below(G, v))
         /\ Cardinality(G) = Cardinality(Below(G, v)) + Cardinality(AtLeast(G, v))
    BY <1>1, <2>10, BelowAndAtLeast
  <2>14. Cardinality(AtLeast(G, v)) = Cardinality(Below(G, v)) /\ 2 * Cardinality(AtLeast(G, v)) >= Cardinality(G)
    <3>1. Cardinality(AtLeast(G, v)) <= Cardinality(Below(G, v))
      BY <2>2
    <3>2. \A a, b, c, d \in Nat : a <= b /\ c <= d /\ a + c = b + d => a = b
      OBVIOUS
    <3>3. /\ Cardinality(AtLeast(G, v)) + Cardinality(AtLeast(V, v))
               = Cardinality(Below(G, v)) + Cardinality(Below(V, v))
      BY <2>6, <2>12
    <3>4. Cardinality(AtLeast(G, v)) = Cardinality(Below(G, v))
      BY <2>11, <2>13, <3>1, <3>2, <3>3
    <3> QED BY <2>13, <3>4
  <2>15. v <= Max(Upper(G))
    BY <1>1, <2>10, <2>14, MiddleIsReached
  <2> DEFINE p == Min(Lower(G))
  <2>16. p \in Nat /\ Max(Upper(G)) \in Nat /\ p + Max(Upper(G)) <= m
    BY <1>6
  <2>17. 2 * Cardinality(AtMost(G, p)) >= Cardinality(G)
    BY <2>10, MiddleExists DEF Lower
  <2> HIDE DEF p
  <2>18. p < u
    BY <1>1, <2>15, <2>16
  <2>19. AtMost(G, p) \in SUBSET (Below(G, v) \ {e}) /\ e \in Below(G, v)
    <3>1. \A s \in G : s.duration \in Nat
      BY <2>10 DEF Sessions
    <3> QED BY <1>1, <2>1, <2>7, <2>8, <2>16, <2>18, <3>1 DEF AtMost, Below
  <2>20. IsFiniteSet(Below(G, v) \ {e}) /\ Cardinality(Below(G, v) \ {e}) = Cardinality(Below(G, v)) - 1
    BY <2>13, <2>19, FS_RemoveElement
  <2>21. Cardinality(AtMost(G, p)) <= Cardinality(Below(G, v)) - 1 /\ Cardinality(AtMost(G, p)) \in Nat
    <3>1. Cardinality(AtMost(G, p)) <= Cardinality(Below(G, v) \ {e})
      BY <2>19, <2>20, FS_Subset
    <3>2. Cardinality(AtMost(G, p)) \in Nat
      BY <2>10, <2>16, BelowAndAtLeast
    <3> QED BY <2>20, <3>1, <3>2
  <2> QED BY <2>13, <2>14, <2>17, <2>21
<1> QED BY <1>8, <1>9

-----------------------------------------------------------------------------
(* What is asked of the stored sessions. *)

\* What a query is about are some of the stored sessions.
LEMMA WhereIsStored ==
  ASSUME FiguresAssumption, stored \in Samples, NEW q, NEW from, NEW to
  PROVE  Sessions(Where(q, from, to)) /\ Where(q, from, to) \in SUBSET stored
<1>1. Sessions(stored)
  BY DEF FiguresAssumption, Sessions
<1>2. Where(q, from, to) \in SUBSET stored
  BY DEF Where
<1> QED BY <1>1, <1>2, SomeSessions

\* The totals are the figures of the groups that pass.
LEMMA TotalsAgree ==
  ASSUME FiguresAssumption, stored \in Samples, NEW q, NEW m \in Metrics \ {"max_scroll"}
  PROVE  FilteredTotals(q, q.from, q.to)[m] = Metric(m, UNION Kept(q, Where(q, q.from, q.to), "none", q.totalsBy))
<1> DEFINE S == Where(q, q.from, q.to)
           K == Kept(q, S, "none", q.totalsBy)
           U == UNION K
<1>1. K \in SUBSET Groups(S, "none", q.totalsBy) /\ IsFiniteSet(S)
  BY WhereIsStored DEF Kept, Sessions
<1> HIDE DEF K, S
<1>2. /\ IsFiniteSet(K) /\ \A G \in K : IsFiniteSet(G) /\ G # {}
      /\ \A G, H \in K : G # H => G \cap H = {}
  <2>1. IsFiniteSet(Groups(S, "none", q.totalsBy))
    BY <1>1, GroupsSplit
  <2>2. \A G \in Groups(S, "none", q.totalsBy) : IsFiniteSet(G) /\ G # {}
    BY <1>1, GroupsSplit
  <2>3. \A G, H \in Groups(S, "none", q.totalsBy) : G # H => G \cap H = {}
    BY <1>1, GroupsSplit
  <2> QED BY <1>1, <2>1, <2>2, <2>3, FS_Subset
<1>3. (K = {} <=> U = {}) /\ Cardinality({}) = 0
  BY <1>2, FS_EmptySet
<1>4. MapThenSumSet(Cardinality, K) = Cardinality(U)
  BY <1>2, SumOfCounts
<1>5. MapThenSumSet(Bounces, K) = Bounces(U)
  BY <1>2, SumOfBounces
<1> HIDE DEF U
<1>6. CASE m = "sessions"
  <2>1. FilteredTotals(q, q.from, q.to)[m] = MapThenSumSet(Cardinality, K)
    BY <1>6 DEF FilteredTotals, Metrics, K, S
  <2>2. Metric(m, U) = Cardinality(U)
    BY <1>3, <1>6 DEF Metric
  <2> QED BY <1>4, <2>1, <2>2 DEF U, K, S
<1>7. CASE m = "bounce_rate"
  <2>1. FilteredTotals(q, q.from, q.to)[m]
          = IF K = {} THEN 0 ELSE Rate(MapThenSumSet(Bounces, K), MapThenSumSet(Cardinality, K))
    BY <1>7 DEF FilteredTotals, Metrics, K, S
  <2>2. Metric(m, U) = IF U = {} THEN 0 ELSE Rate(Bounces(U), Cardinality(U))
    BY <1>7 DEF Metric
  <2>3. FilteredTotals(q, q.from, q.to)[m] = Metric(m, U)
    BY <1>3, <1>4, <1>5, <2>1, <2>2
  <2> QED BY <2>3 DEF U, K, S
<1>8. CASE m = "median_duration"
  BY <1>8 DEF FilteredTotals, Metrics, U, K, S
<1> QED BY <1>6, <1>7, <1>8 DEF Metrics

\* Groups by more dimensions are parts of those by the first.
LEMMA FirstDimension ==
  ASSUME NEW S, IsFiniteSet(S), NEW dims \in Seq(STRING), dims # <<>>,
         NEW G \in Groups(S, "none", SubSeq(dims, 1, 1))
  PROVE  /\ {H \in Groups(S, "none", dims) : H \subseteq G} # {}
         /\ UNION {H \in Groups(S, "none", dims) : H \subseteq G} = G
<1> DEFINE K(s) == KeyOf(s, "none", dims)
           F(s) == KeyOf(s, "none", SubSeq(dims, 1, 1))
           Of(s) == {t \in S : K(t) = K(s)}
<1>1. \A s, t \in S : K(s) = K(t) => F(s) = F(t)
  <2> SUFFICES ASSUME NEW s \in S, NEW t \in S, K(s) = K(t) PROVE F(s) = F(t)
    OBVIOUS
  <2>1. 1 \in DOMAIN dims /\ DOMAIN SubSeq(dims, 1, 1) = {1} /\ SubSeq(dims, 1, 1)[1] = dims[1]
    OBVIOUS
  <2>2. s[Column(dims[1])] = t[Column(dims[1])]
    <3>1. K(s).values[1] = s[Column(dims[1])] /\ K(t).values[1] = t[Column(dims[1])]
      BY <2>1 DEF KeyOf
    <3> QED BY <3>1
  <2>3. \A i \in DOMAIN SubSeq(dims, 1, 1) : s[Column(SubSeq(dims, 1, 1)[i])] = t[Column(SubSeq(dims, 1, 1)[i])]
    BY <2>1, <2>2
  <2> QED BY <2>3 DEF KeyOf
<1>2. G \in SUBSET S /\ G # {} /\ \A s \in G : G = {t \in S : F(t) = F(s)}
  BY GroupsSplit
<1>3. \A s \in S : Of(s) \in Groups(S, "none", dims)
  BY GroupsSplit
<1> HIDE DEF K, F
<1>4. \A s \in G : Of(s) \subseteq G /\ s \in Of(s)
  BY <1>1, <1>2
<1> QED BY <1>2, <1>3, <1>4

\* The extreme over all dimensions is no less than the median of a group by the first of them.
LEMMA ExtremesBound ==
  ASSUME FiguresAssumption, stored \in Samples, NEW q \in Queries, q.dims # <<>>, q.least = 0, q.metricFilters = {},
         NEW G \in Groups(Where(q, q.from, q.to), "none", SubSeq(q.dims, 1, 1))
  PROVE  Median(G) <= Extremes(q)
<1> DEFINE S == Where(q, q.from, q.to)
           All == Groups(S, "none", q.dims)
           T == {H \in All : H \subseteq G}
           values == {Metric("median_duration", H) : H \in Kept(q, S, "none", q.dims)}
<1>1. Sessions(S) /\ IsFiniteSet(S) /\ q.dims \in Seq(STRING)
  BY WhereIsStored DEF Sessions, FiguresAssumption
<1>2. G \in SUBSET S /\ G # {}
  BY <1>1, GroupsSplit
<1>3. T # {} /\ UNION T = G
  BY <1>1, FirstDimension
<1>4. IsFiniteSet(All) /\ \A H \in All : H \in SUBSET S /\ H # {}
  BY <1>1, GroupsSplit
<1>5. \A H, K \in All : H # K => H \cap K = {}
  BY <1>1, GroupsSplit
<1>6. Kept(q, S, "none", q.dims) = All
  <2>1. \A H \in All : Cardinality(H) >= q.least
    <3>1. \A H \in All : IsFiniteSet(H)
      BY <1>1, GroupsSplit
    <3>2. \A H \in All : Cardinality(H) \in Nat
      BY <3>1, FS_CardinalityType
    <3> QED BY <3>2
  <2> HIDE DEF All, S
  <2>2. \A H \in All : Having(q, H)
    BY <2>1 DEF Having
  <2>3. Kept(q, S, "none", q.dims) = {H \in All : Having(q, H)}
    BY DEF Kept, All
  <2> QED BY <2>2, <2>3
<1> HIDE DEF All, S
<1>7. values = {Median(H) : H \in All}
  <2>1. \A H \in All : Metric("median_duration", H) = Median(H)
    BY <1>4 DEF Metric
  <2> QED BY <1>6, <2>1
<1> HIDE DEF values
<1>8. \A H \in All : Median(H) \in Nat
  <2> SUFFICES ASSUME NEW H \in All PROVE Median(H) \in Nat
    OBVIOUS
  <2>1. Sessions(H) /\ H # {}
    BY <1>1, <1>4, SomeSessions
  <2>2. Min(Lower(H)) \in Nat /\ Max(Upper(H)) \in Nat
    BY <2>1, MiddleExists
  <2> QED BY <2>2 DEF Median
<1>9. IsFiniteSet(values) /\ values # {} /\ \A x \in values : x \in Int
  <2>1. IsFiniteSet(values)
    <3> DEFINE f == [H \in All |-> Median(H)]
    <3>1. {f[H] : H \in All} = values /\ f = [H \in All |-> f[H]]
      BY <1>7
    <3> HIDE DEF f
    <3> QED BY <1>4, <3>1, ImageIsFinite
  <2> QED BY <1>3, <1>7, <1>8, <2>1
<1>10. Extremes(q) = Max(values)
  BY <1>9 DEF Extremes, values, S
<1>11. Max(values) \in Int /\ \A x \in values : x <= Max(values)
  BY <1>9, MinMax
<1>12. \A H \in T : Median(H) <= Max(values)
  BY <1>7, <1>11
<1>13. Sessions(G)
  BY <1>1, <1>2, SomeSessions
<1>14. IsFiniteSet(T) /\ T \subseteq SUBSET G /\ (\A H, K \in T : H # K => H \cap K = {}) /\ \A H \in T : H # {}
  BY <1>4, <1>5, FS_Subset
<1> HIDE DEF T
<1>15. Median(G) <= Max(values)
  BY <1>2, <1>3, <1>11, <1>12, <1>13, <1>14, MedianOfUnion
<1> QED BY <1>10, <1>15
-----------------------------------------------------------------------------
(* Days. *)

\* Any number of days is a number of buckets and a rest.
LEMMA WholeDivision ==
  ASSUME NEW a \in Int, NEW b \in Nat \ {0}
  PROVE  /\ a \div b \in Int /\ a % b \in Int
         /\ a = b * (a \div b) + (a % b) /\ 0 <= a % b /\ a % b < b
OBVIOUS

\* Buckets have a length, and begin no more than it before a day.
LEMMA StartsAreDays ==
  ASSUME FiguresAssumption, NEW unit \in {"day", "week", "month", "quarter", "year"}, NEW day \in Int
  PROVE  /\ Length[unit] \in Nat \ {0} /\ StartOf(unit, day) \in Int
         /\ StartOf(unit, day) <= day /\ day < StartOf(unit, day) + Length[unit]
         /\ StartOf(unit, day) % Length[unit] = 0
<1>1. MonthDays \in Nat \ {0}
  BY DEF FiguresAssumption
<1>2. Length[unit] \in Nat \ {0}
  BY <1>1 DEF Length
<1> DEFINE L == Length[unit]
<1> HIDE DEF L
<1>3. L \in Nat \ {0}
  BY <1>2 DEF L
<1>4. day \div L \in Int /\ day % L \in Int /\ day = L * (day \div L) + (day % L) /\ 0 <= day % L /\ day % L < L
  BY <1>3, WholeDivision
<1>5. StartOf(unit, day) = day - (day % L)
  BY DEF StartOf, L
<1>6. StartOf(unit, day) = L * (day \div L)
  BY <1>3, <1>4, <1>5
<1>7. \A k \in Int : (L * k) % L = 0
  BY <1>3
<1>8. StartOf(unit, day) % L = 0
  BY <1>4, <1>6, <1>7
<1>9. StartOf(unit, day) \in Int /\ StartOf(unit, day) <= day /\ day < StartOf(unit, day) + L
  BY <1>3, <1>4, <1>5
<1> QED BY <1>2, <1>8, <1>9 DEF L

\* Presets are of days.
LEMMA PresetsAreDays ==
  ASSUME FiguresAssumption, today \in Today, NEW p \in Presets
  PROVE  ResolveDatePreset(p)[1] \in Int /\ ResolveDatePreset(p)[2] \in Int
<1>1. today \in Int /\ "year" \in DOMAIN Length
  BY DEF FiguresAssumption, Length
<1>2. CASE p \in DOMAIN DaysBack
  <2>1. DaysBack[p] \in Int
    BY <1>2 DEF DaysBack
  <2>4. p \notin DOMAIN UnitSoFar /\ p \notin DOMAIN UnitBefore /\ p # "previous_12_months"
    BY <1>2 DEF UnitBefore, DaysBack, UnitSoFar
  <2>2. ResolveDatePreset(p) = <<today - DaysBack[p], today - 1>>
    BY <1>2, <2>4 DEF ResolveDatePreset
  <2> QED BY <1>1, <2>1, <2>2
<1>3. CASE p \in DOMAIN UnitSoFar
  <2>1. UnitSoFar[p] \in {"day", "week", "month", "quarter", "year"} /\ p \notin DOMAIN DaysBack
    BY <1>3 DEF UnitSoFar, DaysBack
  <2>2. StartOf(UnitSoFar[p], today) \in Int
    BY <1>1, <2>1, StartsAreDays
  <2>4. p \notin DOMAIN UnitBefore /\ p # "previous_12_months"
    BY <1>3 DEF UnitBefore, UnitSoFar
  <2>3. ResolveDatePreset(p) = <<StartOf(UnitSoFar[p], today), today>>
    BY <1>3, <2>1, <2>4 DEF ResolveDatePreset
  <2> QED BY <1>1, <2>2, <2>3
<1>4. CASE p \in DOMAIN UnitBefore
  <2>1. UnitBefore[p] \in {"day", "week", "month", "quarter", "year"} /\ p \notin DOMAIN DaysBack /\ p \notin DOMAIN UnitSoFar
    BY <1>4 DEF UnitBefore, DaysBack, UnitSoFar
  <2>2. StartOf(UnitBefore[p], today) \in Int /\ Length[UnitBefore[p]] \in Nat
    BY <1>1, <2>1, StartsAreDays
  <2> DEFINE start == StartOf(UnitBefore[p], today)
  <2>3. ResolveDatePreset(p) = <<start - Length[UnitBefore[p]], start - 1>>
    <3>1. p # "previous_12_months"
      BY <1>4 DEF UnitBefore
    <3> QED BY <1>4, <2>1, <3>1 DEF ResolveDatePreset
  <2> QED BY <2>2, <2>3
<1>5. CASE p = "previous_12_months"
  <2>1. p \notin DOMAIN DaysBack /\ p \notin DOMAIN UnitSoFar /\ p \notin DOMAIN UnitBefore
    BY <1>5 DEF UnitBefore, DaysBack, UnitSoFar
  <2>2. StartOf("month", today) \in Int /\ Length["year"] \in Nat
    BY <1>1, StartsAreDays
  <2> QED BY <1>1, <1>5, <2>1, <2>2 DEF ResolveDatePreset
<1> QED BY <1>2, <1>3, <1>4, <1>5 DEF Presets

\* The period compared with comes before.
LEMMA ComparisonAgrees ==
  ASSUME FiguresAssumption, today \in Today, changed \in Clocks, NEW p \in Presets
  PROVE  LET h == Hours(p)
             is == ShiftPresetToPreviousPeriod(p)
         IN  /\ is.end - is.start = h.end - h.start
             /\ h.start - is.end \in 0..23
             /\ (h.end - h.start) % 24 = 0 => h.start - is.end = 0
<1> DEFINE a == Hours(p).start
           b == Hours(p).end
           n == (b - a - 1) \div 24 + 1
<1>1. a \in Int /\ b \in Int
  <2>1. \A d \in Int : DayBegins(d) \in Int
    BY DEF DayBegins, FiguresAssumption
  <2>2. ResolveDatePreset(p)[1] \in Int /\ ResolveDatePreset(p)[2] + 1 \in Int
    BY PresetsAreDays
  <2> QED BY <2>1, <2>2 DEF Hours
<1>2. ShiftPresetToPreviousPeriod(p) = [start |-> a - 24 * n, end |-> b - 24 * n]
  BY DEF ShiftPresetToPreviousPeriod
<1> HIDE DEF a, b
<1>3. n \in Int /\ 24 * n - (b - a) \in 0..23 /\ ((b - a) % 24 = 0 => 24 * n - (b - a) = 0)
  BY <1>1
<1> HIDE DEF n
<1>4. /\ ShiftPresetToPreviousPeriod(p).start = a - 24 * n
      /\ ShiftPresetToPreviousPeriod(p).end = b - 24 * n
  BY <1>2
<1> QED BY <1>1, <1>3, <1>4 DEF a, b
\* A day is in the bucket that begins no more than its length before.
LEMMA BucketOf ==
  ASSUME FiguresAssumption, NEW unit \in {"day", "week", "month", "quarter", "year"}, NEW day \in Int, NEW b \in Int,
         b % Length[unit] = 0, b <= day, day < b + Length[unit]
  PROVE  StartOf(unit, day) = b
<1> DEFINE L == Length[unit]
<1>1. L \in Nat \ {0}
  BY StartsAreDays
<1> HIDE DEF L
<1>2. b \div L \in Int /\ b = L * (b \div L) + (b % L)
  BY <1>1, WholeDivision
<1>3. b % L = 0 /\ b <= day /\ day < b + L
  BY DEF L
<1>4. day = L * (b \div L) + (day - b) /\ 0 <= day - b /\ day - b < L
  BY <1>1, <1>2, <1>3
<1>5. \A k, j \in Int : day = L * k + j /\ 0 <= j /\ j < L => day % L = j
  BY <1>1
<1>6. day % L = day - b
  BY <1>2, <1>4, <1>5
<1>7. StartOf(unit, day) = day - (day % L)
  BY DEF StartOf, L
<1> QED BY <1>6, <1>7

\* The dates of fillGaps are those of the buckets, and a week more after a Sunday.
LEMMA DatesAreBuckets ==
  ASSUME FiguresAssumption, NEW unit \in {"day", "week", "month", "quarter", "year"}, NEW from \in Int, NEW to \in Int,
         from <= to
  PROVE  AllDates(unit, from, to)
           = {StartOf(unit, d) : d \in from..to} \cup (IF unit = "week" /\ to % 7 = 6 THEN {to + 1} ELSE {})
<1>1. CASE unit # "week"
  <2> DEFINE L == Length[unit]
             Seen(d) == d <= to \/ StartOf(unit, d) = StartOf(unit, to)
             dates == {d \in from..(to + L) : (d - from) % L = 0}
  <2>1. AllDates(unit, from, to) = {StartOf(unit, d) : d \in {d \in dates : Seen(d)}}
    BY <1>1 DEF AllDates, SameUnit
  <2>2. L \in Nat \ {0}
    BY StartsAreDays
  <2>3. ASSUME NEW d \in dates, Seen(d) PROVE \E e \in from..to : StartOf(unit, e) = StartOf(unit, d)
    <3>1. CASE d <= to
      <4>1. d \in from..to
        BY <2>2, <3>1
      <4> QED BY <4>1
    <3>2. CASE StartOf(unit, d) = StartOf(unit, to)
      <4>1. to \in from..to
        OBVIOUS
      <4> QED BY <3>2, <4>1
    <3> QED BY <2>3, <3>1, <3>2
  <2>4. ASSUME NEW e \in from..to PROVE \E d \in dates : Seen(d) /\ StartOf(unit, d) = StartOf(unit, e)
    <3> DEFINE b == StartOf(unit, e)
               r == (from - b) % L
               k == (from - b) \div L
               d == b + r
    <3>1. b \in Int /\ b <= e /\ e < b + L /\ b % L = 0
      BY StartsAreDays
    <3> HIDE DEF b, L
    <3>2. from - b \in Int
      BY <3>1
    <3>3. r \in Int /\ k \in Int /\ from - b = L * k + r /\ 0 <= r /\ r < L
      BY <2>2, <3>2, WholeDivision
    <3>4. r = from - b \/ b > from
      <4>1. CASE b <= from
        <5>1. 0 <= from - b /\ from - b < L
          BY <2>2, <3>1, <4>1
        <5>2. (from - b) % L = from - b
          BY <2>2, <3>2, <5>1
        <5> QED BY <5>2
      <4>2. CASE ~(b <= from)
        BY <3>1, <4>2
      <4> QED BY <4>1, <4>2
    <3>5. d - from = L * (0 - k) /\ 0 - k \in Int
      <4>1. L * (0 - k) = 0 - L * k
        BY <2>2, <3>3
      <4> QED BY <2>2, <3>1, <3>3, <4>1
    <3>6. \A j \in Int : (L * j) % L = 0
      BY <2>2
    <3>7. (d - from) % L = 0
      BY <3>5, <3>6
    <3> HIDE DEF r, k
    <3>8. d \in from..(to + L)
      BY <2>2, <3>1, <3>3, <3>4
    <3>9. StartOf(unit, d) = b
      <4>1. d \in Int /\ b <= d /\ d < b + L
        BY <2>2, <3>1, <3>3
      <4> HIDE DEF d
      <4> QED BY <3>1, <4>1, BucketOf DEF L
    <3>10. Seen(d)
      <4>1. CASE d <= to
        BY <4>1
      <4>2. CASE ~(d <= to)
        <5>1. b <= to /\ to < b + L
          BY <2>2, <3>1, <3>3, <4>2
        <5>2. StartOf(unit, to) = b
          BY <3>1, <5>1, BucketOf DEF L
        <5> QED BY <3>9, <5>2
      <4> QED BY <4>1, <4>2
    <3> HIDE DEF d, Seen
    <3> QED BY <3>7, <3>8, <3>9, <3>10 DEF b
  <2> HIDE DEF dates, Seen
  <2>5. {StartOf(unit, d) : d \in {d \in dates : Seen(d)}} = {StartOf(unit, d) : d \in from..to}
    BY <2>3, <2>4
  <2> QED BY <1>1, <2>1, <2>5
<1>2. CASE unit = "week"
  <2> DEFINE first == StartOf("week", from)
             Seen(d) == d <= to \/ StartOf("week", d + 1) = StartOf("week", to + 1)
             dates == {d \in first..(to + 7) : (d - first) % 7 = 0}
             more == IF to % 7 = 6 THEN {to + 1} ELSE {}
  <2>1. AllDates(unit, from, to) = {StartOf("week", d) : d \in {d \in dates : Seen(d)}}
    <3>1. Length["week"] = 7
      BY DEF Length
    <3> QED BY <1>2, <3>1 DEF AllDates, SameUnit
  <2>2. \A d \in Int : StartOf("week", d) = d - (d % 7)
    BY DEF StartOf, Length
  <2>3. first \in Int /\ first = from - (from % 7)
    BY <2>2
  <2> HIDE DEF first
  <2>4. \A d \in dates : d \in Int /\ StartOf("week", d) = d /\ StartOf("week", d + 1) = d
    <3> SUFFICES ASSUME NEW d \in dates PROVE d \in Int /\ StartOf("week", d) = d /\ StartOf("week", d + 1) = d
      OBVIOUS
    <3>1. d \in Int /\ (d - first) % 7 = 0 /\ first % 7 = 0
      BY <2>3
    <3>2. d % 7 = 0 /\ (d + 1) % 7 = 1
      BY <2>3, <3>1
    <3>3. StartOf("week", d) = d - (d % 7) /\ StartOf("week", d + 1) = (d + 1) - ((d + 1) % 7)
      BY <2>2, <3>1
    <3> QED BY <3>1, <3>2, <3>3
  <2>5. ASSUME NEW d \in dates, Seen(d) PROVE d \in more \/ \E e \in from..to : StartOf("week", e) = d
    <3>1. d \in Int /\ d >= first /\ (d - first) % 7 = 0
      BY <2>3, <2>4
    <3>2. CASE d = first
      <4>1. from \in from..to
        OBVIOUS
      <4> QED BY <3>2, <4>1 DEF first
    <3>3. CASE d # first /\ d <= to
      <4>1. d \in from..to
        BY <2>3, <3>1, <3>3
      <4> QED BY <2>4, <4>1
    <3>4. CASE ~(d <= to)
      <4>1. d = (to + 1) - ((to + 1) % 7)
        BY <2>2, <2>4, <2>5, <3>4
      <4>2. d = to + 1 /\ to % 7 = 6
        BY <3>1, <3>4, <4>1
      <4> QED BY <4>2
    <3> QED BY <3>2, <3>3, <3>4
  <2>6. ASSUME NEW e \in from..to PROVE \E d \in dates : Seen(d) /\ d = StartOf("week", e)
    <3>1. StartOf("week", e) = e - (e % 7)
      BY <2>2
    <3>2. e - (e % 7) \in dates /\ e - (e % 7) <= to
      BY <2>3
    <3> QED BY <3>1, <3>2
  <2>7. ASSUME to % 7 = 6 PROVE to + 1 \in dates /\ Seen(to + 1)
    <3>1. to + 1 \in dates
      BY <2>3, <2>7
    <3>2. StartOf("week", to + 1 + 1) = StartOf("week", to + 1)
      BY <2>4, <3>1
    <3> QED BY <3>1, <3>2
  <2> HIDE DEF dates, Seen
  <2>8. {StartOf("week", d) : d \in {d \in dates : Seen(d)}} = {StartOf("week", d) : d \in from..to} \cup more
    <3>1. {StartOf("week", d) : d \in {d \in dates : Seen(d)}} = {d \in dates : Seen(d)}
      BY <2>4
    <3>2. {d \in dates : Seen(d)} = {StartOf("week", d) : d \in from..to} \cup more
      BY <2>5, <2>6, <2>7
    <3> QED BY <3>1, <3>2
  <2> QED BY <1>2, <2>1, <2>8
<1> QED BY <1>1, <1>2
-----------------------------------------------------------------------------
(* Rows of a table. *)

\* Figures are integers; numbers of sessions and medians are not negative.
LEMMA FiguresAreInts ==
  ASSUME FiguresAssumption, NEW G, Sessions(G), NEW m \in Metrics
  PROVE  Metric(m, G) \in Int /\ (m \in {"sessions", "median_duration"} => Metric(m, G) >= 0)
<1>1. Cardinality(G) \in Nat /\ (G # {} => Cardinality(G) # 0) /\ IsFiniteSet(G)
  BY FS_CardinalityType, FS_EmptySet DEF Sessions
<1>2. CASE G = {}
  BY <1>2 DEF Metric
<1>3. ASSUME G # {}, NEW part \in Int PROVE Rate(part, Cardinality(G)) \in Int
  <2> DEFINE n == Cardinality(G)
  <2>1. n \in Nat \ {0} /\ Scale * part \in Int
    BY <1>1, <1>3 DEF FiguresAssumption
  <2> HIDE DEF n
  <2>2. (Scale * part) \div n \in Int
    BY <2>1, WholeDivision
  <2> QED BY <2>2 DEF Rate, n
<1>4. CASE G # {} /\ m = "sessions"
  BY <1>1, <1>4 DEF Metric
<1>5. CASE G # {} /\ m = "bounce_rate"
  <2>1. Bounces(G) \in Int
    <3>1. {s \in G : s.duration < Threshold} \in SUBSET G
      OBVIOUS
    <3>2. IsFiniteSet({s \in G : s.duration < Threshold})
      BY <1>1, <3>1, FS_Subset
    <3> QED BY <3>2, FS_CardinalityType DEF Bounces
  <2> QED BY <1>3, <1>5, <2>1 DEF Metric
<1>6. CASE G # {} /\ m = "median_duration"
  <2>1. Min(Lower(G)) \in Nat /\ Max(Upper(G)) \in Nat
    BY <1>6, MiddleExists
  <2> QED BY <1>6, <2>1 DEF Metric, Median
<1>7. CASE G # {} /\ m = "max_scroll"
  <2>1. \A s \in G : s.scroll \in Int
    BY DEF Sessions
  <2>2. MapThenSumSet(LAMBDA s : s.scroll, G) \in Int
    BY <1>1, <2>1, SumOfScrolls
  <2> HIDE DEF Rate
  <2>3. Metric(m, G) = Rate(MapThenSumSet(LAMBDA s : s.scroll, G), Cardinality(G))
    BY <1>7 DEF Metric
  <2> QED BY <1>3, <1>7, <2>2, <2>3
<1> QED BY <1>2, <1>4, <1>5, <1>6, <1>7 DEF Metrics

\* No row comes before itself.
LEMMA RowsAreOrdered ==
  ASSUME FiguresAssumption, NEW S, Sessions(S), NEW q, q.order.by \in Metrics,
         q.unit \in {"none", "day", "week", "month", "quarter", "year"},
         NEW G \in Groups(S, q.unit, q.dims)
  PROVE  /\ ~RowsBefore(q, FigureRow(q, G), FigureRow(q, G))
         /\ FigureRow(q, G).key.bucket \in Int /\ FigureRow(q, G).first \in Int
         /\ FigureRow(q, G).figures[q.order.by] \in Int
<1>1. IsFiniteSet(S) /\ \A s \in S : s.day \in Int
  BY DEF Sessions
<1>2. G \in SUBSET S /\ G # {} /\ IsFiniteSet(G)
  BY <1>1, GroupsSplit
<1>3. Sessions(G)
  BY <1>2, SomeSessions
<1>4. FigureRow(q, G).key.bucket \in Int
  <2>1. PICK s \in G : TRUE
    BY <1>2
  <2>2. FigureRow(q, G).key = KeyOf(s, q.unit, q.dims)
    BY <1>1, RowOfGroup
  <2>3. KeyOf(s, q.unit, q.dims).bucket \in Int
    <3>1. s.day \in Int
      BY <1>1, <1>2
    <3>2. q.unit # "none" => StartOf(q.unit, s.day) \in Int
      BY <3>1, StartsAreDays
    <3> QED BY <3>2 DEF KeyOf
  <2> QED BY <2>2, <2>3
<1>5. FigureRow(q, G).first \in Int
  <2> DEFINE f == [s \in G |-> s.id]
             Ids == {s.id : s \in G}
  <2>1. {f[s] : s \in G} = Ids /\ f = [s \in G |-> f[s]]
    OBVIOUS
  <2>2. Ids # {} /\ \A x \in Ids : x \in Int
    BY <1>2, <1>3 DEF Sessions
  <2> HIDE DEF f, Ids
  <2>3. IsFiniteSet(Ids)
    BY <1>2, <2>1, ImageIsFinite
  <2>4. Min(Ids) \in Int
    BY <2>2, <2>3, MinMax
  <2> QED BY <2>4 DEF FigureRow, Ids
<1>6. FigureRow(q, G).figures[q.order.by] \in Int
  <2>1. Metric(q.order.by, G) \in Int
    BY <1>3, FiguresAreInts
  <2> QED BY <2>1 DEF FigureRow, Figures
<1> DEFINE row == FigureRow(q, G)
<1> HIDE DEF row
<1>7. row.key.bucket \in Int /\ row.first \in Int /\ row.figures[q.order.by] \in Int
  BY <1>4, <1>5, <1>6 DEF row
<1>8. ~RowsBefore(q, row, row)
  BY <1>7 DEF RowsBefore
<1> QED BY <1>4, <1>5, <1>6, <1>8 DEF row

\* A table has no more rows than there are groups.
LEMMA TableIsFinite ==
  ASSUME NEW S, IsFiniteSet(S), NEW q
  PROVE  /\ IsFiniteSet(Table(q, S)) /\ Cardinality(Table(q, S)) <= Cardinality(Groups(S, q.unit, q.dims))
         /\ Cardinality(Table(q, S)) \in Nat /\ Cardinality(Groups(S, q.unit, q.dims)) \in Nat
<1> DEFINE K == Kept(q, S, q.unit, q.dims)
           All == Groups(S, q.unit, q.dims)
           f == [G \in K |-> FigureRow(q, G)]
<1>1. K \in SUBSET All
  BY DEF Kept
<1>2. IsFiniteSet(All)
  BY GroupsSplit
<1>3. {f[G] : G \in K} = Table(q, S) /\ f = [G \in K |-> f[G]]
  BY DEF Table
<1> HIDE DEF K, All, f
<1>4. IsFiniteSet(K) /\ Cardinality(K) <= Cardinality(All)
  BY <1>1, <1>2, FS_Subset
<1>5. IsFiniteSet(Table(q, S)) /\ Cardinality(Table(q, S)) <= Cardinality(K)
  BY <1>3, <1>4, ImageIsFinite
<1>6. Cardinality(Table(q, S)) \in Nat /\ Cardinality(K) \in Nat /\ Cardinality(All) \in Nat
  BY <1>2, <1>4, <1>5, FS_CardinalityType
<1>7. Cardinality(Table(q, S)) <= Cardinality(All)
  BY <1>4, <1>5, <1>6
<1> QED BY <1>5, <1>6, <1>7 DEF All

\* When there are no more groups than rows asked for, the table has a row of each.
LEMMA TableIsWhole ==
  ASSUME FiguresAssumption, NEW S, Sessions(S), NEW q \in Queries, q.least = 0, q.metricFilters = {},
         Cardinality(Groups(S, q.unit, q.dims)) <= q.limit
  PROVE  Cut(q, Table(q, S)) = {FigureRow(q, G) : G \in Groups(S, q.unit, q.dims)}
<1> DEFINE All == Groups(S, q.unit, q.dims)
           shown == {FigureRow(q, G) : G \in All}
<1>1. IsFiniteSet(S) /\ q.limit \in Nat
  BY DEF Sessions, FiguresAssumption
<1>2. \A G \in All : Cardinality(G) >= q.least
  <2>1. \A G \in All : IsFiniteSet(G)
    BY <1>1, GroupsSplit
  <2>2. \A G \in All : Cardinality(G) \in Nat
    BY <2>1, FS_CardinalityType
  <2> QED BY <2>2
<1>3. Table(q, S) = shown
  <2>1. \A G \in All : Having(q, G)
    BY <1>2 DEF Having
  <2> QED BY <2>1 DEF Table, Kept
<1>4. \A r \in shown : ~RowsBefore(q, r, r)
  <2>1. q.order.by \in Metrics /\ q.unit \in {"none", "day", "week", "month", "quarter", "year"}
    BY DEF FiguresAssumption, Metrics
  <2> QED BY <2>1, RowsAreOrdered
<1>5. IsFiniteSet(shown) /\ Cardinality(shown) \in Nat /\ Cardinality(shown) <= q.limit
  <2>1. Cardinality(All) \in Nat /\ Cardinality(All) <= q.limit
    BY <1>1, TableIsFinite
  <2>2. IsFiniteSet(shown) /\ Cardinality(shown) \in Nat /\ Cardinality(shown) <= Cardinality(All)
    BY <1>1, <1>3, TableIsFinite
  <2> HIDE DEF shown, All
  <2> QED BY <1>1, <2>1, <2>2
<1> HIDE DEF shown, All
<1>6. ASSUME NEW g \in shown PROVE Cardinality({h \in shown : RowsBefore(q, h, g)}) < q.limit
  <2> DEFINE B == {h \in shown : RowsBefore(q, h, g)}
  <2>1. B \in SUBSET (shown \ {g})
    BY <1>4
  <2> HIDE DEF B
  <2>2. IsFiniteSet(shown \ {g}) /\ Cardinality(shown \ {g}) = Cardinality(shown) - 1
    BY <1>5, FS_RemoveElement
  <2>3. IsFiniteSet(B) /\ Cardinality(B) <= Cardinality(shown \ {g})
    BY <2>1, <2>2, FS_Subset
  <2>4. Cardinality(B) \in Nat
    BY <2>3, FS_CardinalityType
  <2>5. Cardinality(B) < q.limit
    BY <1>1, <1>5, <2>2, <2>3, <2>4
  <2> QED BY <2>5 DEF B
<1> QED BY <1>3, <1>6 DEF Cut, shown, All
\* The rows of all groups.
RowsOf(q, S) == {FigureRow(q, G) : G \in Groups(S, q.unit, q.dims)}

\* The last of the rows with a key is the one of its group.
LEMMA RowFound ==
  ASSUME NEW q, NEW S, IsFiniteSet(S), NEW found, found \subseteq RowsOf(q, S), \A r, x \in found : r.key = x.key, found # {}
  PROVE  \E G \in Groups(S, q.unit, q.dims) :
           /\ found = {FigureRow(q, G)} /\ LastRow(q, found) = FigureRow(q, G)
           /\ \A s \in G : \A r \in found : KeyOf(s, q.unit, q.dims) = r.key
<1> DEFINE All == Groups(S, q.unit, q.dims)
<1>1. PICK r \in found : TRUE
  OBVIOUS
<1>2. PICK G \in All : r = FigureRow(q, G)
  BY <1>1 DEF RowsOf
<1>3. \A x \in found : x = r
  <2> SUFFICES ASSUME NEW x \in found PROVE x = r
    OBVIOUS
  <2>1. PICK H \in All : x = FigureRow(q, H)
    BY DEF RowsOf
  <2>2. FigureRow(q, H).key = FigureRow(q, G).key
    BY <1>2, <2>1
  <2>3. H = G
    BY <2>2, RowOfGroup
  <2> QED BY <1>2, <2>1, <2>3
<1>4. found = {r}
  BY <1>1, <1>3
<1>5. LastRow(q, found) = r
  BY <1>4 DEF LastRow
<1>6. \A s \in G : FigureRow(q, G).key = KeyOf(s, q.unit, q.dims)
  BY <1>2, RowOfGroup
<1>7. \A s \in G : \A x \in found : KeyOf(s, q.unit, q.dims) = x.key
  BY <1>1, <1>2, <1>6
<1> QED BY <1>2, <1>4, <1>5, <1>7

\* A series that is not cut off has every bucket of the range with the figures of its sessions.
LEMMA SeriesAgrees ==
  ASSUME FiguresAssumption, stored \in Samples, NEW q \in Queries, q.unit # "none", q.from <= q.to,
         q.least = 0, q.metricFilters = {},
         Cardinality(Groups(Where(q, q.from, q.to), q.unit, q.dims)) <= q.limit,
         \A i \in DOMAIN q.dims : Column(q.dims[i]) = q.dims[i],
         NEW is, is = FillGaps(q, BuiltQuery(q, q.from, q.to), q.from, q.to)
  PROVE  WholeSeries(q, Where(q, q.from, q.to), is)
<1> DEFINE S == Where(q, q.from, q.to)
           of(row) == SessionsOf(S, q, row)
           K(s) == KeyOf(s, q.unit, q.dims)
           All == Groups(S, q.unit, q.dims)
           shown == {FigureRow(q, G) : G \in All}
           dates == AllDates(q.unit, q.from, q.to)
           combos == IF q.dims = <<>> THEN {<<>>} ELSE {Combo(q, r) : r \in shown}
           found(d, c) == {r \in shown : r.key.bucket = d /\ Combo(q, r) = c}
           figures(d, c) == IF found(d, c) = {} THEN NoFigures ELSE LastRow(q, found(d, c)).figures
<1>1. Sessions(S) /\ IsFiniteSet(S) /\ \A s \in S : s.day \in q.from..q.to
  <2>1. Sessions(S)
    BY WhereIsStored
  <2>2. \A s \in S : s.day \in q.from..q.to
    BY DEF Where
  <2> QED BY <2>1, <2>2 DEF Sessions
<1>2. /\ q.unit \in {"day", "week", "month", "quarter", "year"} /\ q.from \in Int /\ q.to \in Int
      /\ q.dims \in Seq(STRING)
  BY DEF FiguresAssumption
<1>3. BuiltQuery(q, q.from, q.to) = shown
  <2>1. BuiltQuery(q, q.from, q.to) = Cut(q, Table(q, S))
    BY DEF BuiltQuery
  <2> QED BY <1>1, <2>1, TableIsWhole
<1>4. is = {[bucket |-> d, combo |-> c, figures |-> figures(d, c)] : d \in dates, c \in combos}
  BY <1>3 DEF FillGaps
<1>5. dates = {StartOf(q.unit, d) : d \in q.from..q.to} \cup (IF q.unit = "week" /\ q.to % 7 = 6 THEN {q.to + 1} ELSE {})
  BY <1>2, DatesAreBuckets
<1>6. \A G \in All : G \in SUBSET S /\ G # {} /\ \A s \in G : G = {t \in S : K(t) = K(s)}
  BY <1>1, GroupsSplit
<1>7. \A s \in S : {t \in S : K(t) = K(s)} \in All
  BY <1>1, GroupsSplit
<1>8. \A G \in All : \A s \in G : FigureRow(q, G).key = K(s) /\ FigureRow(q, G).figures = Figures(G)
  BY <1>1, RowOfGroup
<1>9. \A r \in shown : Combo(q, r) = [i \in DOMAIN q.dims |-> r.key.values[i]]
  BY DEF Combo
<1>10. \A s : /\ K(s).values = [i \in DOMAIN q.dims |-> s[q.dims[i]]] /\ K(s).bucket = StartOf(q.unit, s.day)
              /\ K(s) = [bucket |-> StartOf(q.unit, s.day), values |-> [i \in DOMAIN q.dims |-> s[q.dims[i]]]]
  BY DEF KeyOf
<1> HIDE DEF S, All, K, dates
<1>11. \A r \in shown : Combo(q, r) = r.key.values
  <2> SUFFICES ASSUME NEW G \in All PROVE Combo(q, FigureRow(q, G)) = FigureRow(q, G).key.values
    OBVIOUS
  <2>1. PICK s \in G : TRUE
    BY <1>6
  <2>2. FigureRow(q, G).key = K(s)
    BY <1>8, <2>1
  <2>3. Combo(q, FigureRow(q, G)) = [i \in DOMAIN q.dims |-> FigureRow(q, G).key.values[i]]
    BY <1>9
  <2> DEFINE v == FigureRow(q, G).key.values
  <2>4. v = [i \in DOMAIN q.dims |-> s[q.dims[i]]]
    BY <1>10, <2>2
  <2> HIDE DEF v
  <2>5. v = [i \in DOMAIN q.dims |-> v[i]]
    BY <2>4
  <2> QED BY <2>3, <2>5 DEF v
<1>12. \A s \in S : \E r \in shown : r.key = K(s)
  <2> SUFFICES ASSUME NEW s \in S PROVE \E r \in shown : r.key = K(s)
    OBVIOUS
  <2> DEFINE G == {t \in S : K(t) = K(s)}
  <2>1. G \in All /\ s \in G
    BY <1>7
  <2> HIDE DEF G
  <2>2. FigureRow(q, G).key = K(s)
    BY <1>8, <2>1
  <2> QED BY <2>1, <2>2
<1> DEFINE Whole(c) == c = [i \in DOMAIN q.dims |-> c[i]]
<1>13. \A c \in combos : Whole(c)
  <2>1. CASE q.dims = <<>>
    BY <2>1
  <2>2. CASE q.dims # <<>>
    BY <1>9, <2>2
  <2> QED BY <2>1, <2>2
<1>14. \A s \in S : K(s).values \in combos
  <2>1. CASE q.dims = <<>>
    BY <1>10, <2>1
  <2>2. CASE q.dims # <<>>
    <3>1. combos = {Combo(q, r) : r \in shown}
      BY <2>2
    <3> HIDE DEF combos, shown
    <3> QED BY <1>11, <1>12, <3>1
  <2> QED BY <2>1, <2>2
<1> HIDE DEF combos
\* The sessions that a row is about are those with its key.
<1>15. \A d, c : Whole(c) => of([bucket |-> d, combo |-> c, figures |-> figures(d, c)])
                               = {s \in S : K(s) = [bucket |-> d, values |-> c]}
  <2> SUFFICES ASSUME NEW d, NEW c, Whole(c)
               PROVE  of([bucket |-> d, combo |-> c, figures |-> figures(d, c)])
                        = {s \in S : K(s) = [bucket |-> d, values |-> c]}
    OBVIOUS
  <2> HIDE DEF figures
  <2>1. of([bucket |-> d, combo |-> c, figures |-> figures(d, c)])
          = {s \in S : StartOf(q.unit, s.day) = d /\ \A i \in DOMAIN q.dims : s[q.dims[i]] = c[i]}
    BY DEF SessionsOf
  <2>2. \A s \in S : K(s) = [bucket |-> d, values |-> c]
                       <=> StartOf(q.unit, s.day) = d /\ \A i \in DOMAIN q.dims : s[q.dims[i]] = c[i]
    <3> SUFFICES ASSUME NEW s \in S
                 PROVE  K(s) = [bucket |-> d, values |-> c]
                          <=> StartOf(q.unit, s.day) = d /\ \A i \in DOMAIN q.dims : s[q.dims[i]] = c[i]
      OBVIOUS
    <3>1. [i \in DOMAIN q.dims |-> s[q.dims[i]]] = c <=> \A i \in DOMAIN q.dims : s[q.dims[i]] = c[i]
      OBVIOUS
    <3>2. K(s) = [bucket |-> StartOf(q.unit, s.day), values |-> [i \in DOMAIN q.dims |-> s[q.dims[i]]]]
      BY <1>10
    <3> QED BY <3>1, <3>2
  <2> QED BY <2>1, <2>2
<1>16. ASSUME NEW d, NEW c, Whole(c)
       PROVE  figures(d, c) = Figures({s \in S : K(s) = [bucket |-> d, values |-> c]})
  <2> DEFINE k == [bucket |-> d, values |-> c]
             G == {s \in S : K(s) = k}
  <2>1. CASE G = {}
    <3>1. found(d, c) = {}
      <4> SUFFICES ASSUME NEW r \in found(d, c) PROVE FALSE
        OBVIOUS
      <4>1. PICK H \in All : r = FigureRow(q, H)
        OBVIOUS
      <4>2. PICK s \in H : s \in S
        BY <1>6
      <4>3. r.key = K(s) /\ r.key.bucket = d /\ r.key.values = c
        BY <1>8, <1>11, <4>1, <4>2
      <4>4. K(s) = k
        BY <1>10, <4>3
      <4> QED BY <2>1, <4>2, <4>4
    <3>2. \A m \in Metrics : Metric(m, {}) = 0
      BY DEF Metric, Metrics
    <3>3. Figures({}) = NoFigures
      BY <3>2 DEF Figures, NoFigures
    <3> QED BY <2>1, <3>1, <3>3
  <2>2. CASE G # {}
    <3>1. PICK s \in G : TRUE
      BY <2>2
    <3>2. s \in S /\ K(s) = k
      BY <3>1
    <3>3. found(d, c) # {}
      <4>1. PICK r \in shown : r.key = k
        BY <1>12, <3>2
      <4>2. Combo(q, r) = c /\ r.key.bucket = d
        BY <1>11, <4>1
      <4> QED BY <4>2
    <3>4. \A r \in found(d, c) : r.key = k
      <4> SUFFICES ASSUME NEW r \in found(d, c) PROVE r.key = k
        OBVIOUS
      <4>1. PICK H \in All : r = FigureRow(q, H)
        OBVIOUS
      <4>2. PICK t \in H : t \in S
        BY <1>6
      <4>3. r.key = K(t) /\ r.key.bucket = d /\ r.key.values = c
        BY <1>8, <1>11, <4>1, <4>2
      <4> QED BY <1>10, <4>3
    <3>5. found(d, c) \subseteq shown
      OBVIOUS
    <3> DEFINE F == found(d, c)
    <3>6. shown = RowsOf(q, S)
      BY DEF All, RowsOf
    <3>12. F # {} /\ F \subseteq shown /\ \A r \in F : r.key = k
      BY <3>3, <3>4, <3>5
    <3> HIDE DEF F, shown, k
    <3>7. PICK H \in Groups(S, q.unit, q.dims) :
             /\ LastRow(q, F) = FigureRow(q, H)
             /\ \A t \in H : \A r \in F : KeyOf(t, q.unit, q.dims) = r.key
      BY <1>1, <3>6, <3>12, RowFound
    <3>8. H \in All /\ \A t \in H : K(t) = k
      BY <3>7, <3>12 DEF All, K
    <3>9. PICK t \in H : TRUE
      BY <1>6, <3>8
    <3>10. H = G
      BY <1>6, <3>8, <3>9
    <3>11. FigureRow(q, H).figures = Figures(H)
      BY <1>8, <3>8, <3>9
    <3> QED BY <3>3, <3>7, <3>10, <3>11 DEF F, k
  <2> QED BY <2>1, <2>2
<1> HIDE DEF found, figures, shown
<1>17. \A row \in is : row.figures = Figures(of(row))
  <2> SUFFICES ASSUME NEW d \in dates, NEW c \in combos
               PROVE  figures(d, c) = Figures(of([bucket |-> d, combo |-> c, figures |-> figures(d, c)]))
    BY <1>4
  <2> QED BY <1>13, <1>15, <1>16
<1>18. {row.bucket : row \in is} \in {dates, {}}
  <2>1. CASE combos = {}
    BY <1>4, <2>1
  <2>2. CASE combos # {}
    <3>1. PICK c \in combos : TRUE
      BY <2>2
    <3>2. \A d \in dates : [bucket |-> d, combo |-> c, figures |-> figures(d, c)] \in is
      BY <1>4, <3>1
    <3>3. \A row \in is : row.bucket \in dates
      BY <1>4
    <3>4. \A d \in dates : \E row \in is : row.bucket = d
      BY <3>2
    <3>5. {row.bucket : row \in is} = dates
      BY <3>3, <3>4
    <3> QED BY <3>5
  <2> QED BY <2>1, <2>2
<1>19. UNION {of(row) : row \in is} = S
  <2>1. \A row \in is : of(row) \in SUBSET S
    BY DEF SessionsOf
  <2>2. ASSUME NEW s \in S PROVE \E row \in is : s \in of(row)
    <3> DEFINE d == StartOf(q.unit, s.day)
               c == K(s).values
    <3>1. d \in dates /\ c \in combos /\ K(s) = [bucket |-> d, values |-> c]
      BY <1>1, <1>5, <1>10, <1>14
    <3> HIDE DEF d, c
    <3>2. [bucket |-> d, combo |-> c, figures |-> figures(d, c)] \in is
      BY <1>4, <3>1
    <3>3. s \in of([bucket |-> d, combo |-> c, figures |-> figures(d, c)])
      BY <1>13, <1>15, <3>1
    <3> QED BY <3>2, <3>3
  <2> QED BY <2>1, <2>2
<1> QED BY <1>5, <1>17, <1>18, <1>19 DEF WholeSeries, S
-----------------------------------------------------------------------------
(* The report. *)

\* What a report asks.
ReportQuery ==
  [dims |-> <<"country">>, unit |-> "none", filters |-> {}, metricFilters |-> {}, totalsBy |-> <<>>,
   least |-> 0, limit |-> TopRows, order |-> [by |-> "sessions", down |-> TRUE]]

\* The sessions of a country in some days.
OfCountry(v, from, to) == {s \in stored : s.day \in from..to /\ s["country"] = v}

\* It is the one of the properties.
LEMMA CountryIsValue ==
  \A v, from, to : OfCountry(v, from, to) = OfValue(stored, "country", v, from, to)
<1>1. Column("country") = "country"
  BY DEF Column
<1> QED BY <1>1 DEF OfCountry, OfValue

\* A report's table has a row of each value that there are sessions of.
LEMMA ReportTable ==
  ASSUME FiguresAssumption, stored \in Samples, NEW from, NEW to
  PROVE  LET shown == RowsOf(ReportQuery, Where(ReportQuery, from, to))
         IN  /\ BuiltQuery(ReportQuery, from, to) = Cut(ReportQuery, shown)
             /\ IsFiniteSet(shown)
             /\ \A g \in shown :
                  LET v == g.key.values[1]
                  IN  /\ g.key = [bucket |-> 0, values |-> [i \in {1} |-> v]]
                      /\ OfCountry(v, from, to) # {} /\ g.figures = Figures(OfCountry(v, from, to))
             /\ \A v : OfCountry(v, from, to) # {} => \E g \in shown : g.key.values[1] = v
             /\ \A g \in shown : ~RowsBefore(ReportQuery, g, g)
<1> DEFINE q == ReportQuery
           S == Where(q, from, to)
           All == Groups(S, "none", <<"country">>)
           K(s) == KeyOf(s, "none", <<"country">>)
<1>1. /\ q.dims = <<"country">> /\ q.unit = "none" /\ q.filters = {} /\ q.metricFilters = {} /\ q.least = 0
      /\ q.limit = TopRows /\ q.order = [by |-> "sessions", down |-> TRUE]
  BY DEF ReportQuery
<1>2. Sessions(S) /\ IsFiniteSet(S)
  BY WhereIsStored DEF Sessions
<1> HIDE DEF q
<1>3. S = {s \in stored : s.day \in from..to}
  BY <1>1 DEF Where
<1>4. \A s : K(s) = [bucket |-> 0, values |-> [i \in {1} |-> s["country"]]]
  <2>1. DOMAIN <<"country">> = {1} /\ <<"country">>[1] = "country" /\ Column("country") = "country"
    BY DEF Column
  <2> QED BY <2>1 DEF KeyOf
<1>16. \A s : K(s).values[1] = s["country"]
  <2> SUFFICES ASSUME NEW s PROVE K(s).values[1] = s["country"]
    OBVIOUS
  <2> HIDE DEF K
  <2>1. K(s).values = [i \in {1} |-> s["country"]]
    BY <1>4
  <2> QED BY <2>1
<1> HIDE DEF S
<1>5. /\ \A G \in All : G # {} /\ \A s \in G : G = {t \in S : K(t) = K(s)}
      /\ \A s \in S : {t \in S : K(t) = K(s)} \in All
      /\ \A G \in All : IsFiniteSet(G)
  BY <1>2, GroupsSplit
<1>6. \A s, t : K(t) = K(s) <=> t["country"] = s["country"]
  <2> HIDE DEF K
  <2> QED BY <1>4, <1>16
<1> HIDE DEF K
<1>7. \A s \in S : {t \in S : K(t) = K(s)} = OfCountry(s["country"], from, to)
  BY <1>3, <1>6 DEF OfCountry
<1>8. RowsOf(q, S) = {FigureRow(q, G) : G \in All}
  BY <1>1 DEF RowsOf
<1>9. \A G \in All : G \in SUBSET S
  BY <1>2, GroupsSplit
<1>10. BuiltQuery(q, from, to) = Cut(q, RowsOf(q, S))
  <2>1. \A G \in All : Having(q, G)
    <3>1. \A G \in All : Cardinality(G) \in Nat
      BY <1>5, FS_CardinalityType
    <3> QED BY <1>1, <3>1 DEF Having
  <2>2. Table(q, S) = RowsOf(q, S)
    BY <1>1, <2>1 DEF Table, Kept, RowsOf
  <2>3. q.dims # <<>>
    BY <1>1
  <2> QED BY <2>2, <2>3 DEF BuiltQuery, S
<1>11. IsFiniteSet(RowsOf(q, S))
  <2> DEFINE f == [G \in All |-> FigureRow(q, G)]
             R == RowsOf(q, S)
  <2>1. {f[G] : G \in All} = R /\ f = [G \in All |-> f[G]]
    BY <1>8
  <2>2. IsFiniteSet(All)
    BY <1>2, GroupsSplit
  <2> HIDE DEF f, R, All
  <2>3. IsFiniteSet(R)
    BY <2>1, <2>2, ImageIsFinite
  <2> QED BY <2>3 DEF R
<1>12. \A G \in All : \A s \in G : FigureRow(q, G).key = K(s) /\ FigureRow(q, G).figures = Figures(G)
  <2> SUFFICES ASSUME NEW G \in All, NEW s \in G
               PROVE  FigureRow(q, G).key = K(s) /\ FigureRow(q, G).figures = Figures(G)
    OBVIOUS
  <2>1. G \in Groups(S, q.unit, q.dims)
    BY <1>1
  <2> QED BY <1>1, <1>2, <2>1, RowOfGroup DEF K
<1>13. ASSUME NEW g \in RowsOf(q, S)
       PROVE  LET v == g.key.values[1]
              IN  /\ g.key = [bucket |-> 0, values |-> [i \in {1} |-> v]]
                  /\ OfCountry(v, from, to) # {} /\ g.figures = Figures(OfCountry(v, from, to))
  <2>1. PICK G \in All : g = FigureRow(q, G)
    BY <1>8, <1>13
  <2>2. PICK s \in G : s \in S
    BY <1>5, <1>9, <2>1
  <2>3. g.key = K(s) /\ g.figures = Figures(G)
    BY <1>12, <2>1, <2>2
  <2>4. G = OfCountry(s["country"], from, to)
    BY <1>5, <1>7, <2>1, <2>2
  <2>5. g.key.values[1] = s["country"]
    BY <1>16, <2>3
  <2> QED BY <1>4, <2>2, <2>3, <2>4, <2>5
<1>14. ASSUME NEW v, OfCountry(v, from, to) # {} PROVE \E g \in RowsOf(q, S) : g.key.values[1] = v
  <2>1. PICK s \in OfCountry(v, from, to) : TRUE
    BY <1>14
  <2>2. s \in S /\ s["country"] = v
    BY <1>3, <2>1 DEF OfCountry
  <2> DEFINE G == {t \in S : K(t) = K(s)}
  <2>3. G \in All /\ s \in G
    BY <1>5, <2>2
  <2> HIDE DEF G
  <2>4. FigureRow(q, G).key = K(s) /\ FigureRow(q, G) \in RowsOf(q, S)
    BY <1>8, <1>12, <2>3
  <2>5. FigureRow(q, G).key.values[1] = v
    BY <1>16, <2>2, <2>4
  <2> QED BY <2>4, <2>5
<1>15. \A g \in RowsOf(q, S) : ~RowsBefore(q, g, g)
  <2>1. q.order.by \in Metrics /\ q.unit \in {"none", "day", "week", "month", "quarter", "year"}
    BY <1>1 DEF Metrics
  <2>2. \A G \in Groups(S, q.unit, q.dims) : ~RowsBefore(q, FigureRow(q, G), FigureRow(q, G))
    BY <1>2, <2>1, RowsAreOrdered
  <2> QED BY <2>2 DEF RowsOf
<1> QED BY <1>10, <1>11, <1>13, <1>14, <1>15 DEF q, S

\* A value that was cut off from the rows before has as many values with no fewer sessions.
LEMMA CutOffIsLow ==
  ASSUME FiguresAssumption, stored \in Samples, NEW from, NEW to, NEW v, OfCountry(v, from, to) # {},
         \A g \in BuiltQuery(ReportQuery, from, to) : g.key.values[1] # v
  PROVE  Cardinality({w \in {s["country"] : s \in stored} :
                        Cardinality(OfCountry(w, from, to)) >= Cardinality(OfCountry(v, from, to))}) > TopRows
<1> DEFINE q == ReportQuery
           shown == RowsOf(q, Where(q, from, to))
           values == {s["country"] : s \in stored}
           V == {w \in values : Cardinality(OfCountry(w, from, to)) >= Cardinality(OfCountry(v, from, to))}
           Of(g) == g.key.values[1]
<1>1. /\ BuiltQuery(q, from, to) = Cut(q, shown) /\ IsFiniteSet(shown)
      /\ \A g \in shown : /\ g.key = [bucket |-> 0, values |-> [i \in {1} |-> Of(g)]]
                         /\ OfCountry(Of(g), from, to) # {} /\ g.figures = Figures(OfCountry(Of(g), from, to))
      /\ \A g \in shown : ~RowsBefore(q, g, g)
  BY ReportTable
<1>2. PICK h \in shown : Of(h) = v
  <2>1. \A w : OfCountry(w, from, to) # {} => \E g \in shown : g.key.values[1] = w
    BY ReportTable
  <2> HIDE DEF shown
  <2> QED BY <2>1
<1>3. q.limit = TopRows /\ q.order = [by |-> "sessions", down |-> TRUE] /\ TopRows \in Nat
  BY DEF ReportQuery, FiguresAssumption
<1>4. IsFiniteSet(stored) /\ \A w : OfCountry(w, from, to) \in SUBSET stored
  BY DEF FiguresAssumption, OfCountry
<1>5. \A w : IsFiniteSet(OfCountry(w, from, to))
  BY <1>4, FS_Subset
<1>6. \A w : Cardinality(OfCountry(w, from, to)) \in Nat
  BY <1>5, FS_CardinalityType
<1> DEFINE X == {x \in shown : RowsBefore(q, x, h)}
<1> HIDE DEF q, shown, values
<1>7. ~(Cardinality(X) < TopRows)
  <2>1. h \notin Cut(q, shown)
    BY <1>1, <1>2 DEF q
  <2> QED BY <1>3, <2>1 DEF Cut
<1>8. X \in SUBSET shown /\ h \notin X
  BY <1>1
<1>9. \A x \in X : Cardinality(OfCountry(Of(x), from, to)) >= Cardinality(OfCountry(v, from, to))
  <2> SUFFICES ASSUME NEW x \in X
               PROVE  Cardinality(OfCountry(Of(x), from, to)) >= Cardinality(OfCountry(v, from, to))
    OBVIOUS
  <2>1. x.figures["sessions"] = Cardinality(OfCountry(Of(x), from, to))
    BY <1>1 DEF Figures, Metric, Metrics
  <2>2. h.figures["sessions"] = Cardinality(OfCountry(v, from, to))
    BY <1>1, <1>2 DEF Figures, Metric, Metrics
  <2>3. x.key.bucket = 0 /\ h.key.bucket = 0
    BY <1>1
  <2>4. RowsBefore(q, x, h)
    OBVIOUS
  <2> HIDE DEF X, Of
  <2>5. x.figures["sessions"] > h.figures["sessions"] \/ x.figures["sessions"] = h.figures["sessions"]
    BY <1>3, <2>3, <2>4 DEF RowsBefore
  <2> QED BY <1>6, <2>1, <2>2, <2>5
<1> HIDE DEF X
<1>10. IsFiniteSet(X \cup {h}) /\ Cardinality(X \cup {h}) = Cardinality(X) + 1 /\ Cardinality(X) \in Nat
  <2>1. IsFiniteSet(X)
    BY <1>1, <1>8, FS_Subset
  <2> QED BY <1>8, <2>1, FS_AddElement, FS_CardinalityType
<1>11. IsFiniteSet(V)
  <2> DEFINE f == [s \in stored |-> s["country"]]
  <2>1. {f[s] : s \in stored} = values /\ f = [s \in stored |-> f[s]]
    BY DEF values
  <2> HIDE DEF f
  <2>2. IsFiniteSet(values)
    BY <1>4, <2>1, ImageIsFinite
  <2>3. V \in SUBSET values
    OBVIOUS
  <2> HIDE DEF V
  <2> QED BY <2>2, <2>3, FS_Subset
<1>12. \A x \in X \cup {h} : Of(x) \in V
  <2> SUFFICES ASSUME NEW x \in X \cup {h} PROVE Of(x) \in V
    OBVIOUS
  <2>1. x \in shown /\ Cardinality(OfCountry(Of(x), from, to)) >= Cardinality(OfCountry(v, from, to))
    BY <1>2, <1>6, <1>8, <1>9
  <2>2. Of(x) \in values
    BY <1>1, <2>1 DEF OfCountry, values
  <2> QED BY <2>1, <2>2
<1>13. \A x, y \in X \cup {h} : Of(x) = Of(y) => x = y
  <2> SUFFICES ASSUME NEW x \in X \cup {h}, NEW y \in X \cup {h}, Of(x) = Of(y) PROVE x = y
    OBVIOUS
  <2>1. x \in shown /\ y \in shown
    BY <1>8
  <2>2. x.key = y.key
    BY <1>1, <2>1
  <2>3. PICK G \in Groups(Where(q, from, to), q.unit, q.dims) : x = FigureRow(q, G)
    BY <2>1 DEF shown, RowsOf
  <2>4. PICK H \in Groups(Where(q, from, to), q.unit, q.dims) : y = FigureRow(q, H)
    BY <2>1 DEF shown, RowsOf
  <2>5. IsFiniteSet(Where(q, from, to))
    BY WhereIsStored DEF Sessions
  <2>6. G = H
    BY <2>2, <2>3, <2>4, <2>5, RowOfGroup
  <2> QED BY <2>3, <2>4, <2>6
<1> DEFINE f == [x \in X \cup {h} |-> Of(x)]
<1>14. f \in Injection(X \cup {h}, V)
  <2> HIDE DEF V, Of
  <2> QED BY <1>12, <1>13 DEF Injection, IsInjective
<1> HIDE DEF f, V
<1>15. Cardinality(X \cup {h}) <= Cardinality(V) /\ Cardinality(V) \in Nat
  BY <1>11, <1>14, FS_Injection, FS_CardinalityType
<1>16. Cardinality(V) > TopRows
  BY <1>3, <1>7, <1>10, <1>15
<1> QED BY <1>16 DEF V, values
\* What the report shows of a value is so.
LEMMA ReportAgrees ==
  ASSUME FiguresAssumption, stored \in Samples, NEW r, NEW row \in Breakdown(ReportQuery, r)
  PROVE  /\ row.value # "" /\ row.figures = Figures(OfValue(stored, "country", row.value, r[1], r[2]))
         /\ TrueEvolution(stored, r, "country", row)
<1> DEFINE q == ReportQuery
           from == DaysBefore(r)[1]
           to == DaysBefore(r)[2]
           before == BuiltQuery(q, from, to)
           E(g) == [m \in {"sessions", "median_duration"} |-> Evolution(q, m, g, before)]
           v == row.value
<1>1. PICK g \in BuiltQuery(q, r[1], r[2]) :
         row = [value |-> g.key.values[1], figures |-> g.figures, evolution |-> E(g)] /\ g.key.values[1] # ""
  BY DEF Breakdown
<1> HIDE DEF from, to, before, E, q
<1>2. v = g.key.values[1] /\ v # "" /\ row.figures = g.figures /\ row.evolution = E(g)
  BY <1>1
<1> HIDE DEF v
<1>3. /\ g \in RowsOf(q, Where(q, r[1], r[2]))
      /\ \A h \in RowsOf(q, Where(q, r[1], r[2])) : /\ h.key = [bucket |-> 0, values |-> [i \in {1} |-> h.key.values[1]]]
                            /\ h.figures = Figures(OfCountry(h.key.values[1], r[1], r[2]))
  <2>1. BuiltQuery(q, r[1], r[2]) = Cut(q, RowsOf(q, Where(q, r[1], r[2])))
    BY ReportTable DEF q
  <2>2. g \in RowsOf(q, Where(q, r[1], r[2]))
    BY <2>1 DEF Cut
  <2>3. \A h \in RowsOf(q, Where(q, r[1], r[2])) : /\ h.key = [bucket |-> 0, values |-> [i \in {1} |-> h.key.values[1]]]
                            /\ h.figures = Figures(OfCountry(h.key.values[1], r[1], r[2]))
    BY ReportTable DEF q
  <2> QED BY <2>2, <2>3
<1>4. row.figures = Figures(OfCountry(v, r[1], r[2])) /\ g.key = [bucket |-> 0, values |-> [i \in {1} |-> v]]
  BY <1>2, <1>3
<1> DEFINE shown == RowsOf(q, Where(q, from, to))
<1>5. /\ before = Cut(q, shown)
      /\ \A h \in shown : /\ h.key = [bucket |-> 0, values |-> [i \in {1} |-> h.key.values[1]]]
                         /\ h.figures = Figures(OfCountry(h.key.values[1], from, to))
  <2>1. before = Cut(q, shown)
    BY ReportTable DEF q, before
  <2>2. \A h \in shown : /\ h.key = [bucket |-> 0, values |-> [i \in {1} |-> h.key.values[1]]]
                        /\ h.figures = Figures(OfCountry(h.key.values[1], from, to))
    BY ReportTable DEF q
  <2> QED BY <2>1, <2>2
<1> DEFINE found == {h \in before : h.key.values = g.key.values}
<1>6. ASSUME NEW m \in {"sessions", "median_duration"}
      PROVE  LET was == Metric(m, OfCountry(v, from, to))
             IN  IF E(g)[m] # <<>>
                 THEN E(g)[m] = <<g.figures[m] - was, was>>
                 ELSE \/ was = 0
                      \/ Cardinality({w \in {s["country"] : s \in stored} :
                            Cardinality(OfCountry(w, from, to)) >= Cardinality(OfCountry(v, from, to))}) > TopRows
  <2> DEFINE was == Metric(m, OfCountry(v, from, to))
             last == LastRow(q, found).figures[m]
  <2>1. E(g)[m] = IF (IF found = {} THEN 0 ELSE last) > 0
                  THEN <<g.figures[m] - (IF found = {} THEN 0 ELSE last), IF found = {} THEN 0 ELSE last>>
                  ELSE <<>>
    BY DEF E, Evolution
  <2>2. was >= 0 /\ was \in Int
    <3>1. Sessions(stored) /\ OfCountry(v, from, to) \in SUBSET stored
      BY DEF FiguresAssumption, Sessions, OfCountry
    <3>2. Sessions(OfCountry(v, from, to))
      BY <3>1, SomeSessions
    <3> QED BY <3>2, FiguresAreInts DEF Metrics
  <2>3. CASE found = {}
    <3>1. E(g)[m] = <<>>
      BY <2>1, <2>3
    <3>2. CASE OfCountry(v, from, to) = {}
      <4>1. was = 0
        BY <3>2 DEF Metric
      <4> QED BY <3>1, <4>1
    <3>3. CASE OfCountry(v, from, to) # {}
      <4>1. \A h \in before : h.key.values[1] # v
        <5> SUFFICES ASSUME NEW h \in before, h.key.values[1] = v PROVE FALSE
          OBVIOUS
        <5>1. h \in shown
          BY <1>5 DEF Cut
        <5>2. h.key.values = g.key.values
          BY <1>4, <1>5, <5>1
        <5> QED BY <2>3, <5>2
      <4>2. Cardinality({w \in {s["country"] : s \in stored} :
               Cardinality(OfCountry(w, from, to)) >= Cardinality(OfCountry(v, from, to))}) > TopRows
        BY <3>3, <4>1, CutOffIsLow DEF q, before
      <4> QED BY <3>1, <4>2
    <3> QED BY <3>2, <3>3
  <2>4. CASE found # {}
    <3>1. found \subseteq shown
      BY <1>5 DEF Cut
    <3>2. \A x, y \in found : x.key = y.key
      BY <1>5, <3>1
    <3>3. IsFiniteSet(Where(q, from, to))
      BY WhereIsStored DEF Sessions
    <3>4. LastRow(q, found) \in found
      <4> HIDE DEF found
      <4>1. PICK G \in Groups(Where(q, from, to), q.unit, q.dims) :
               found = {FigureRow(q, G)} /\ LastRow(q, found) = FigureRow(q, G)
        BY <2>4, <3>1, <3>2, <3>3, RowFound
      <4> QED BY <4>1
    <3> DEFINE l == LastRow(q, found)
    <3>5. l \in shown /\ l.key.values[1] = v
      <4>1. g.key.values[1] = v
        BY <1>2
      <4> QED BY <3>1, <3>4, <4>1
    <3>6. last = was
      <4>1. l.figures = Figures(OfCountry(v, from, to))
        BY <1>5, <3>5
      <4> QED BY <4>1 DEF Figures, Metrics
    <3> HIDE DEF was, last, found
    <3>7. E(g)[m] = IF was > 0 THEN <<g.figures[m] - was, was>> ELSE <<>>
      BY <2>1, <2>4, <3>6
    <3>8. CASE was > 0
      <4>1. E(g)[m] = <<g.figures[m] - was, was>> /\ E(g)[m] # <<>>
        BY <3>7, <3>8
      <4> QED BY <4>1 DEF was
    <3>9. CASE ~(was > 0)
      <4>1. E(g)[m] = <<>> /\ was = 0
        BY <2>2, <3>7, <3>9
      <4> QED BY <4>1 DEF was
    <3> QED BY <3>8, <3>9
  <2> QED BY <2>3, <2>4
<1>7. DOMAIN row.evolution = {"sessions", "median_duration"}
  BY <1>2 DEF E
<1> DEFINE Before(w) == OfValue(stored, "country", w, DaysBefore(r)[1], DaysBefore(r)[2])
           asMany == {w \in {s[Column("country")] : s \in stored} : Cardinality(Before(w)) >= Cardinality(Before(v))}
<1>8. \A w : OfCountry(w, from, to) = Before(w)
  BY CountryIsValue DEF from, to
<1>9. {w \in {s["country"] : s \in stored} :
         Cardinality(OfCountry(w, from, to)) >= Cardinality(OfCountry(v, from, to))} = asMany
  <2>1. Column("country") = "country"
    BY DEF Column
  <2> HIDE DEF Before
  <2> QED BY <1>8, <2>1
<1> HIDE DEF asMany
<1>10. ASSUME NEW m \in DOMAIN row.evolution
       PROVE  LET was == Metric(m, Before(v))
              IN  IF row.evolution[m] # <<>>
                  THEN row.evolution[m] = <<row.figures[m] - was, was>>
                  ELSE was = 0 \/ Cardinality(asMany) > TopRows
  <2> HIDE DEF Before
  <2> DEFINE low == {w \in {s["country"] : s \in stored} :
                        Cardinality(OfCountry(w, from, to)) >= Cardinality(OfCountry(v, from, to))}
             was == Metric(m, OfCountry(v, from, to))
  <2>1. m \in {"sessions", "median_duration"} /\ row.evolution = E(g) /\ row.figures = g.figures
    BY <1>2, <1>7
  <2>2. IF E(g)[m] # <<>> THEN E(g)[m] = <<g.figures[m] - was, was>> ELSE was = 0 \/ Cardinality(low) > TopRows
    BY <1>6, <2>1
  <2>3. low = asMany /\ was = Metric(m, Before(v))
    BY <1>8, <1>9
  <2> HIDE DEF low, was
  <2> QED BY <2>1, <2>2, <2>3
<1>11. TrueEvolution(stored, r, "country", row)
  BY <1>10 DEF TrueEvolution, asMany, v
<1>12. row.figures = Figures(OfValue(stored, "country", v, r[1], r[2]))
  BY <1>4, CountryIsValue
<1> QED BY <1>2, <1>11, <1>12 DEF v
-----------------------------------------------------------------------------
(* Answers. *)

\* What there is to ask about.
FiguresType == stored \in Samples /\ today \in Today /\ changed \in Clocks

\* An answer leaves the sessions and the calendar as they are, and what is found in them.
LEMMA AnswersLeaveSessions ==
  ASSUME UNCHANGED <<stored, today, changed>>
  PROVE  /\ \A q, from, to : Where(q, from, to)' = Where(q, from, to)
         /\ \A p : Hours(p)' = Hours(p)
         /\ FiguresType => FiguresType'
<1>1. \A q, from, to : Where(q, from, to)' = Where(q, from, to)
  BY DEF Where
<1>2. \A p : Hours(p)' = Hours(p)
  <2>1. \A d : DayBegins(d)' = DayBegins(d)
    BY DEF DayBegins
  <2>2. \A p : ResolveDatePreset(p)' = ResolveDatePreset(p)
    BY DEF ResolveDatePreset
  <2> QED BY <2>1, <2>2 DEF Hours
<1> QED BY <1>1, <1>2 DEF FiguresType

\* Totals.
LEMMA TotalsStep ==
  ASSUME FiguresAssumption, FiguresType, NEW q \in Queries, AskTotals(q)
  PROVE  FiguresAgree'
<1>1. /\ question'.asked = q /\ answer' = [kind |-> "totals", is |-> FilteredTotals(q, q.from, q.to)]
      /\ UNCHANGED <<stored, today, changed>>
  BY DEF AskTotals, AnsweredWith
<1>2. answer'.kind = "totals" /\ answer'.is = FilteredTotals(q, q.from, q.to)
  BY <1>1
<1>3. Where(q, q.from, q.to)' = Where(q, q.from, q.to)
  BY <1>1, AnswersLeaveSessions
<1>4. \A m \in Metrics \ {"max_scroll"} :
        answer'.is[m] = Metric(m, UNION Kept(q, Where(q, q.from, q.to), "none", q.totalsBy))
  BY <1>2, TotalsAgree DEF FiguresType
<1>5. TotalsAreOfTheTable'
  BY <1>1, <1>3, <1>4 DEF TotalsAreOfTheTable
<1> QED BY <1>2, <1>5 DEF FiguresAgree, ExtremesBoundTheTable, SeriesIsWhole, ComparisonComesBefore, EvolutionsAreTrue

\* Extremes.
LEMMA ExtremesStep ==
  ASSUME FiguresAssumption, FiguresType, NEW q \in Queries, AskExtremes(q)
  PROVE  FiguresAgree'
<1>1. /\ question'.asked = q /\ answer' = [kind |-> "extremes", is |-> Extremes(q)] /\ q.dims # <<>>
      /\ UNCHANGED <<stored, today, changed>>
  BY DEF AskExtremes, AnsweredWith
<1>2. answer'.kind = "extremes" /\ answer'.is = Extremes(q)
  BY <1>1
<1>3. Where(q, q.from, q.to)' = Where(q, q.from, q.to)
  BY <1>1, AnswersLeaveSessions
<1>4. q.least = 0 /\ q.metricFilters = {} =>
        \A G \in Groups(Where(q, q.from, q.to), "none", SubSeq(q.dims, 1, 1)) : Median(G) <= answer'.is
  BY <1>1, <1>2, ExtremesBound DEF FiguresType
<1>5. ExtremesBoundTheTable'
  BY <1>1, <1>3, <1>4 DEF ExtremesBoundTheTable
<1> QED BY <1>2, <1>5 DEF FiguresAgree, TotalsAreOfTheTable, SeriesIsWhole, ComparisonComesBefore, EvolutionsAreTrue

\* A series.
LEMMA SeriesStep ==
  ASSUME FiguresAssumption, FiguresType, NEW q \in Queries, AskSeries(q)
  PROVE  FiguresAgree'
<1> DEFINE is == FillGaps(q, BuiltQuery(q, q.from, q.to), q.from, q.to)
           S == Where(q, q.from, q.to)
<1>1. /\ question'.asked = q /\ answer' = [kind |-> "series", is |-> is] /\ q.unit # "none"
      /\ UNCHANGED <<stored, today, changed>>
  BY DEF AskSeries, AnsweredWith
<1>2. answer'.kind = "series" /\ answer'.is = is
  BY <1>1
<1>3. S' = S
  BY <1>1, AnswersLeaveSessions
<1>4. ASSUME q.least = 0, q.metricFilters = {}, q.from <= q.to, Cardinality(Groups(S, q.unit, q.dims)) <= q.limit,
             \A i \in DOMAIN q.dims : Column(q.dims[i]) = q.dims[i]
      PROVE  WholeSeries(q, S, is)
  BY <1>1, <1>4, SeriesAgrees DEF FiguresType
<1> HIDE DEF is
<1>5. SeriesIsWhole'
  <2>1. Where(q, q.from, q.to)' = S
    BY <1>3
  <2> HIDE DEF S
  <2> QED BY <1>1, <1>2, <1>4, <2>1 DEF SeriesIsWhole
<1> QED BY <1>2, <1>5 DEF FiguresAgree, TotalsAreOfTheTable, ExtremesBoundTheTable, ComparisonComesBefore,
                        EvolutionsAreTrue

\* A period to compare with.
LEMMA ComparisonStep ==
  ASSUME FiguresAssumption, FiguresType, NEW p \in Presets, AskComparison(p)
  PROVE  FiguresAgree'
<1>1. /\ question'.asked = p /\ answer' = [kind |-> "comparison", is |-> ShiftPresetToPreviousPeriod(p)]
      /\ UNCHANGED <<stored, today, changed>>
  BY DEF AskComparison, AnsweredWith
<1>2. answer'.kind = "comparison" /\ answer'.is = ShiftPresetToPreviousPeriod(p)
  BY <1>1
<1>3. Hours(p)' = Hours(p)
  BY <1>1, AnswersLeaveSessions
<1>4. /\ answer'.is.end - answer'.is.start = Hours(p).end - Hours(p).start
      /\ Hours(p).start - answer'.is.end \in 0..23
      /\ (Hours(p).end - Hours(p).start) % 24 = 0 => Hours(p).start - answer'.is.end = 0
  BY <1>2, ComparisonAgrees DEF FiguresType
<1>5. ComparisonComesBefore'
  BY <1>1, <1>3, <1>4 DEF ComparisonComesBefore
<1> QED BY <1>2, <1>5 DEF FiguresAgree, TotalsAreOfTheTable, ExtremesBoundTheTable, SeriesIsWhole, EvolutionsAreTrue

\* A report.
LEMMA ReportStep ==
  ASSUME FiguresAssumption, FiguresType, NEW f \in DOMAIN PresetForFrequency, AskReport(f)
  PROVE  FiguresAgree'
<1> DEFINE r == ResolveDatePreset(PresetForFrequency[f])
           is == Breakdown(ReportQuery, r)
<1>1. /\ question'.asked = [range |-> r, dim |-> "country"] /\ answer' = [kind |-> "report", is |-> is]
      /\ UNCHANGED <<stored, today, changed>>
  BY DEF AskReport, AnsweredWith, ReportQuery
<1> HIDE DEF r, is
<1>2. answer'.kind = "report" /\ answer'.is = is /\ question'.asked.range = r
  BY <1>1
<1>3. stored' = stored /\ question'.asked.dim = "country"
  BY <1>1
<1>4. \A row \in is : /\ row.value # "" /\ row.figures = Figures(OfValue(stored, "country", row.value, r[1], r[2]))
                       /\ TrueEvolution(stored, r, "country", row)
  BY ReportAgrees DEF FiguresType, is
<1>6. EvolutionsAreTrue'
  BY <1>2, <1>3, <1>4 DEF EvolutionsAreTrue
<1> QED BY <1>2, <1>6 DEF FiguresAgree, TotalsAreOfTheTable, ExtremesBoundTheTable, SeriesIsWhole, ComparisonComesBefore

\* What the analytics and the reports show agrees with the sessions it is about: totals are those of
\* the table, extremes bound it, a series is whole, a comparison comes before, and evolutions are true
\* (query-builder.ts, date-utils.ts, report-generator.service.ts).
THEOREM FiguresTellTheTruth ==
  ASSUME FiguresAssumption
  PROVE  FiguresSpec => []FiguresAgree
<1>1. FiguresInit => FiguresType /\ FiguresAgree
  <2> SUFFICES ASSUME FiguresInit PROVE FiguresType /\ FiguresAgree
    OBVIOUS
  <2>1. answer.kind = "nothing"
    BY DEF FiguresInit, Nothing
  <2> QED BY <2>1 DEF FiguresInit, FiguresType, FiguresAgree, TotalsAreOfTheTable, ExtremesBoundTheTable,
                      SeriesIsWhole, ComparisonComesBefore, EvolutionsAreTrue
<1>2. FiguresType /\ FiguresAgree /\ [FiguresNext]_figureVars => FiguresType' /\ FiguresAgree'
  <2> SUFFICES ASSUME FiguresType, FiguresAgree, [FiguresNext]_figureVars PROVE FiguresType' /\ FiguresAgree'
    OBVIOUS
  <2>1. FiguresType'
    <3>1. UNCHANGED <<stored, today, changed>>
      BY DEF FiguresNext, figureVars, AskTotals, AskExtremes, AskSeries, AskComparison, AskReport, AnsweredWith
    <3> QED BY <3>1, AnswersLeaveSessions
  <2>2. CASE UNCHANGED figureVars
    <3>1. /\ UNCHANGED <<stored, today, changed>> /\ question' = question /\ answer' = answer
      BY <2>2 DEF figureVars
    <3>2. /\ \A q, from, to : Where(q, from, to)' = Where(q, from, to)
          /\ \A p : Hours(p)' = Hours(p)
      BY <3>1, AnswersLeaveSessions
    <3>3. TotalsAreOfTheTable' /\ ExtremesBoundTheTable'
      BY <3>1, <3>2 DEF FiguresAgree, TotalsAreOfTheTable, ExtremesBoundTheTable
    <3>4. SeriesIsWhole'
      BY <3>1, <3>2 DEF FiguresAgree, SeriesIsWhole
    <3>5. ComparisonComesBefore'
      BY <3>1, <3>2 DEF FiguresAgree, ComparisonComesBefore
    <3>6. EvolutionsAreTrue'
      BY <3>1 DEF FiguresAgree, EvolutionsAreTrue
    <3> QED BY <2>1, <3>3, <3>4, <3>5, <3>6 DEF FiguresAgree
  <2>3. ASSUME NEW q \in Queries, AskTotals(q) PROVE FiguresAgree'
    BY <2>3, TotalsStep
  <2>4. ASSUME NEW q \in Queries, AskExtremes(q) PROVE FiguresAgree'
    BY <2>4, ExtremesStep
  <2>5. ASSUME NEW q \in Queries, AskSeries(q) PROVE FiguresAgree'
    BY <2>5, SeriesStep
  <2>6. ASSUME NEW p \in Presets, AskComparison(p) PROVE FiguresAgree'
    BY <2>6, ComparisonStep
  <2>7. ASSUME NEW f \in DOMAIN PresetForFrequency, AskReport(f) PROVE FiguresAgree'
    BY <2>7, ReportStep
  <2> QED BY <2>1, <2>2, <2>3, <2>4, <2>5, <2>6, <2>7 DEF FiguresNext
<1> QED BY <1>1, <1>2, PTL DEF FiguresSpec
=============================================================================
