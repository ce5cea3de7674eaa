--------------------------- MODULE MCSubscriptions ---------------------------
(* Instances of Subscriptions for TLC. *)
EXTENDS Subscriptions

CONSTANTS s1, s2

\* Every day at hour 1; on the second day of the week at hour 0; on the first of the month.
ThreePlans == {[frequency |-> "daily", hour |-> 1, day |-> 0],
               [frequency |-> "weekly", hour |-> 0, day |-> 1],
               [frequency |-> "monthly", hour |-> 1, day |-> 0]}

Deleted == [status |-> "disabled", plan |-> [frequency |-> "daily", hour |-> 1, day |-> 0],
            next |-> Never, failures |-> 0]

\* Either the second subscription was deleted before, or there are two and less happens:
\* no request, one hour and one fault fewer.
MCInit ==
  \/ /\ clock = 0 /\ faults = 0 /\ work = [w \in Workers |-> Idle]
     /\ rows = [s \in Subs |-> IF s = s2 THEN Deleted ELSE NoRow]
     /\ mailed = [s \in Subs |-> {}]
     /\ twice = {} /\ overlapped = {} /\ doubtful = {} /\ raced = {}
  \/ /\ clock = 1 /\ faults = 1 /\ work = [w \in Workers |-> IF w \in Jobs THEN Idle ELSE Done]
     /\ rows = [s \in Subs |-> NoRow]
     /\ mailed = [s \in Subs |-> {}]
     /\ twice = {} /\ overlapped = {} /\ doubtful = {} /\ raced = {}

MCSpec == MCInit /\ [][Next]_vars /\ Fairness
=============================================================================
