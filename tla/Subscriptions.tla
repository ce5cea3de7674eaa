--------------------------- MODULE Subscriptions ---------------------------
(***************************************************************************)
(* Report subscriptions (api/src/subscriptions): requests of users change   *)
(* them, a cron job mails the reports that are due and marks them.          *)
(*                                                                          *)
(* A job may still be at work when the next one starts, and every instance  *)
(* of the API has its own.  All work alike: read the row, build a whole new  *)
(* one from it, insert that.  report_subscriptions is a ReplacingMergeTree:  *)
(* the row stamped last counts, which is as if the stamp were taken when the *)
(* row is stored.                                                           *)
(***************************************************************************)
EXTENDS Calendar, Sequences, FiniteSets

CONSTANTS
  Subs,         \* subscriptions
  Jobs,         \* runs of the cron job that may be at work at a time
  Calls,        \* bound: requests of users
  Plans,        \* bound: schedules that users ask for
  MaxFailures,  \* 5: consecutive failures that disable a subscription
  MaxClock,     \* bound: hours
  MaxFaults     \* bound: errors of mail and database, deaths of the process

ASSUME SubscriptionsAssumption ==
  /\ IsFiniteSet(Subs) /\ IsFiniteSet(Jobs) /\ IsFiniteSet(Calls)
  /\ Jobs \cap Calls = {}
  /\ Plans \subseteq Plan
  /\ MaxFailures \in Nat \ {0} /\ MaxClock \in Nat /\ MaxFaults \in Nat

VARIABLES
  clock,
  rows,      \* report_subscriptions FINAL
  work,      \* what each job and each request does
  faults,    \* counted against its bound
  \* History variables: they record the past and guard nothing.
  mailed,      \* the due times of each subscription whose report was mailed
  twice,       \* subscriptions that got the report of a due time again
  overlapped,  \* two jobs were at work on it at once
  doubtful,    \* a job failed between mailing it and marking it
  raced        \* a row was built from one that was not the newest any more

pastVars == <<mailed, twice, overlapped, doubtful, raced>>
vars == <<clock, rows, work, faults, pastVars>>

Workers == Jobs \cup Calls
Never == -1
NoRow == [status |-> "none"]
Row == [status : {"active", "paused", "disabled"}, plan : Plan, next : Int,
        failures : 0..MaxFailures]
Due == [sub : Subs, next : Nat]

\* A worker has a task with one subscription; a job has the others that are due behind it.
Idle == [at |-> "idle"]
Done == [at |-> "done"]
Task == [at : {"check", "mail", "read", "store", "audit"},
         op : {"update", "pause", "resume", "delete", "sendNow", "markSent", "markFailed"},
         due : Due, rest : Seq(Due), row : Row \cup {NoRow}]

TypeOK ==
  /\ clock \in 0..MaxClock
  /\ \A s \in Subs : rows[s] \in Row \cup {NoRow}
  /\ \A w \in Workers : work[w] \in {Idle, Done} \cup Task
  /\ faults \in 0..MaxFaults
  /\ mailed \in [Subs -> SUBSET Nat]
  /\ twice \subseteq Subs /\ overlapped \subseteq Subs
  /\ doubtful \subseteq Subs /\ raced \subseteq Subs

Init ==
  /\ clock = 0
  /\ rows = [s \in Subs |-> NoRow]
  /\ work = [w \in Workers |-> Idle]
  /\ faults = 0
  /\ mailed = [s \in Subs |-> {}]
  /\ twice = {} /\ overlapped = {} /\ doubtful = {} /\ raced = {}

-----------------------------------------------------------------------------
(* The rows. *)

\* get and getById
Found(s) == rows[s].status \in {"active", "paused"}

\* findDue
IsDue(s) == rows[s].status = "active" /\ rows[s].next <= clock

FromNow(row, plan) == [row EXCEPT !.plan = plan, !.next = NextSendAt(plan, clock)]

Update(row, plan) ==
  IF row.status = "active" THEN FromNow(row, plan) ELSE [row EXCEPT !.plan = plan, !.next = Never]
Pause(row) == [row EXCEPT !.status = "paused", !.next = Never]
Resume(row) == [FromNow(row, row.plan) EXCEPT !.status = "active"]
Delete(row) == [row EXCEPT !.status = "disabled", !.next = Never]

MarkSentActive(row) == [FromNow(row, row.plan) EXCEPT !.failures = 0, !.status = "active"]
MarkSentOnly(row) == [row EXCEPT !.failures = 0]
MarkSent(row) == [FromNow(row, row.plan) EXCEPT !.failures = 0]

MarkFailed(row) ==
  [row EXCEPT !.failures = @ + 1,
              !.status = IF row.failures + 1 >= MaxFailures THEN "disabled" ELSE @]

\* What the operations make of the row they have read.
Changed(op, row) ==
  CASE op = "update" -> {Update(row, plan) : plan \in Plans}
    [] op = "pause" -> {Pause(row)}
    [] op = "resume" -> {Resume(row)}
    [] op = "delete" -> {Delete(row)}
    [] op = "markSent" -> {MarkSent(row)}
    [] op = "markFailed" -> {MarkFailed(row)}

-----------------------------------------------------------------------------
(* How workers go on. *)

At(w, place) == work[w].at = place
Sub(w) == work[w].due.sub
GoesTo(w, task) == work' = [work EXCEPT ![w] = task]

\* A job turns to the next subscription, if there is one.  A request has ended.
Check(due) ==
  IF due = <<>> THEN Idle
  ELSE [at |-> "check", op |-> "markSent", due |-> Head(due), rest |-> Tail(due),
        row |-> NoRow]
Ended(w) == IF w \in Calls THEN Done ELSE Check(work[w].rest)

\* An error ends a request and a job whose markFailed it interrupts; any other it makes
\* mark the subscription as failed.
Thrown(w) ==
  IF w \in Calls THEN Done
  ELSE IF work[w].op = "markFailed" THEN Idle
  ELSE [work[w] EXCEPT !.at = "read", !.op = "markFailed", !.row = NoRow]

Mailed(w) ==
  IF w \in Calls THEN UNCHANGED <<mailed, twice>>
  ELSE /\ mailed' = [mailed EXCEPT ![Sub(w)] = @ \cup {work[w].due.next}]
       /\ twice' = IF work[w].due.next \in mailed[Sub(w)] THEN twice \cup {Sub(w)} ELSE twice

Stored(w) ==
  LET s == Sub(w)
  IN /\ \E row \in Changed(work[w].op, work[w].row) : rows' = [rows EXCEPT ![s] = row]
     /\ raced' = IF work[w].row # rows[s] THEN raced \cup {s} ELSE raced

\* Another job is at work on the subscription of job j.
Overlaps(j) ==
  LET others == {k \in Jobs \ {j} : work[k].at \in {"mail", "read", "store"}}
  IN overlapped' = overlapped \cup ({Sub(j)} \cap {Sub(k) : k \in others})

\* Subscriptions that were mailed by jobs J and not marked yet.
Unmarked(J) ==
  {Sub(j) : j \in {k \in J : work[k].at \in {"read", "store"} /\ work[k].op = "markSent"}}

-----------------------------------------------------------------------------
(* The actions. *)

Create(s) ==
  /\ rows[s] = NoRow
  /\ \E plan \in Plans :
       rows' = [rows EXCEPT ![s] = [status |-> "active", plan |-> plan,
                  next |-> NextSendAt(plan, clock), failures |-> 0]]
  /\ UNCHANGED <<clock, work, faults, pastVars>>

\* A request begins.  unsubscribe is pause.
Begin(c) ==
  /\ work[c] = Idle
  /\ \E s \in Subs, op \in {"update", "pause", "resume", "delete", "sendNow"} :
       /\ rows[s] # NoRow
       /\ GoesTo(c, [at |-> "read", op |-> op, due |-> [sub |-> s, next |-> 0],
                     rest |-> <<>>, row |-> NoRow])
  /\ UNCHANGED <<clock, rows, faults, pastVars>>

\* processScheduledReports, when it has something to do
CronFires(j) ==
  /\ work[j] = Idle
  /\ LET due == {s \in Subs : IsDue(s)}
     IN /\ due # {}
        /\ \E list \in [1..Cardinality(due) -> {[sub |-> s, next |-> rows[s].next] : s \in due}] :
             /\ {list[k].sub : k \in DOMAIN list} = due
             /\ \A k \in 2..Len(list) : list[k - 1].next <= list[k].next
             /\ GoesTo(j, Check(list))
  /\ UNCHANGED <<clock, rows, faults, pastVars>>

\* processSubscription skips what another instance has processed.
ActiveStill(row, due) == row.status = "active"
NotProcessed(row, due) == row.status = "active" /\ row.next = due.next

Recheck(j) ==
  /\ At(j, "check")
  /\ IF NotProcessed(rows[Sub(j)], work[j].due)
     THEN GoesTo(j, [work[j] EXCEPT !.at = "mail"]) /\ Overlaps(j)
     ELSE GoesTo(j, Ended(j)) /\ UNCHANGED overlapped
  /\ UNCHANGED <<clock, rows, faults, mailed, twice, doubtful, raced>>

SendMail(w) ==
  /\ At(w, "mail")
  /\ Mailed(w)
  /\ GoesTo(w, [work[w] EXCEPT !.at = "read", !.op = "markSent", !.row = NoRow])
  /\ UNCHANGED <<clock, rows, faults, overlapped, doubtful, raced>>

Read(w) ==
  /\ At(w, "read")
  /\ GoesTo(w, IF ~Found(Sub(w)) THEN Thrown(w)
               ELSE IF work[w].op = "sendNow" THEN [work[w] EXCEPT !.at = "mail"]
               ELSE [work[w] EXCEPT !.at = "store", !.row = rows[Sub(w)]])
  /\ UNCHANGED <<clock, rows, faults, pastVars>>

Store(w) ==
  /\ At(w, "store")
  /\ Stored(w)
  /\ GoesTo(w, IF w \in Calls THEN Done ELSE [work[w] EXCEPT !.at = "audit", !.row = NoRow])
  /\ UNCHANGED <<clock, faults, mailed, twice, overlapped, doubtful>>

Audit(j) ==
  /\ At(j, "audit")
  /\ GoesTo(j, Ended(j))
  /\ UNCHANGED <<clock, rows, faults, pastVars>>

\* An error.  A report may have been mailed and a row stored all the same.
Fails(w) ==
  /\ work[w] \notin {Idle, Done}
  /\ faults < MaxFaults
  /\ faults' = faults + 1
  /\ GoesTo(w, Thrown(w))
  /\ \/ /\ At(w, "mail") /\ w \in Jobs
        /\ Mailed(w)
        /\ doubtful' = doubtful \cup {Sub(w)}
        /\ UNCHANGED <<rows, raced>>
     \/ /\ At(w, "store")
        /\ Stored(w)
        /\ UNCHANGED <<mailed, twice, doubtful>>
     \/ /\ doubtful' = doubtful \cup Unmarked({w} \cap Jobs)
        /\ UNCHANGED <<rows, raced, mailed, twice>>
  /\ IF w \in Jobs THEN Overlaps(w) ELSE UNCHANGED overlapped
  /\ UNCHANGED clock

\* The process dies, and with it all work.
Dies ==
  /\ \E w \in Workers : work[w] \notin {Idle, Done}
  /\ faults < MaxFaults
  /\ faults' = faults + 1
  /\ work' = [w \in Workers |-> IF w \in Jobs \/ work[w] = Idle THEN Idle ELSE Done]
  /\ doubtful' = doubtful \cup Unmarked(Jobs)
  /\ UNCHANGED <<clock, rows, mailed, twice, overlapped, raced>>

Tick ==
  /\ clock < MaxClock
  /\ clock' = clock + 1
  /\ UNCHANGED <<rows, work, faults, pastVars>>

JobGoesOn(j) ==
  CronFires(j) \/ Recheck(j) \/ SendMail(j) \/ Read(j) \/ Store(j) \/ Audit(j)

Next ==
  \/ \E s \in Subs : Create(s)
  \/ \E c \in Calls : Begin(c) \/ SendMail(c) \/ Read(c) \/ Store(c)
  \/ \E j \in Jobs : JobGoesOn(j)
  \/ \E w \in Workers : Fails(w)
  \/ Dies
  \/ Tick

Spec == Init /\ [][Next]_vars

\* The cron job fires every 15 minutes and what it awaits returns (mail and database have
\* timeouts).  Requests need not come to an end.
Fairness == \A j \in Jobs : WF_vars(JobGoesOn(j))

FairSpec == Spec /\ Fairness

-----------------------------------------------------------------------------
(* What subscribers may rely on. *)

\* The report of a due time is mailed once (subscription-scheduler.service.ts:41, "check
\* if another instance already processed this"), unless two jobs were at work on the
\* subscription at once or one failed between the mail and the mark.
ReportedOnce == twice \subseteq overlapped \cup doubtful

\* Only resume makes a paused subscription active and nothing a deleted one, although
\* users pause and delete while jobs mail and mark, unless a row was built from a row
\* that was not the newest any more.
OnlyResumeReactivates ==
  [][\A s \in Subs :
        rows[s].status \in {"paused", "disabled"} /\ rows'[s].status = "active" =>
           \/ s \in raced'
           \/ /\ rows[s].status = "paused"
              /\ \E c \in Calls : At(c, "store") /\ Sub(c) = s /\ work[c].op = "resume"]_vars

\* An active subscription waits for a time its plan wants, and none between now and then
\* is left out, whoever has changed the plan in the meantime.
NothingSkipped ==
  \A s \in Subs :
     rows[s].status = "active" =>
       /\ Occurs(rows[s].plan, rows[s].next)
       /\ \A time \in clock + 1..rows[s].next - 1 : ~Occurs(rows[s].plan, time)

\* A report that is due does not stay due for ever, whatever fails and whoever interferes:
\* it is mailed and the subscription given a later time, or it stops to be active.
DueIsHandled == \A s \in Subs : IsDue(s) ~> ~IsDue(s)

\* Each report that is due is mailed, and mailed once.
EachReportOnce == ReportedOnce /\ NothingSkipped
=============================================================================
