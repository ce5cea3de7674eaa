----------------------------- MODULE Heartbeat -----------------------------
(***************************************************************************)
(* The heartbeat of the browser SDK (sdk/src/sdk.ts) as operators on its    *)
(* state: a stopwatch for the session, one for the page, and the timers.   *)
(***************************************************************************)
EXTENDS Integers, FiniteSetsExt

CONSTANTS
  Tiers,        \* active time from which a tier applies |-> its interval, 0 to stop
  MaxDuration   \* heartbeatMaxDuration, 0 for no limit

ASSUME HeartbeatAssumption ==
  /\ DOMAIN Tiers \subseteq Nat /\ 0 \in DOMAIN Tiers
  /\ \A a \in DOMAIN Tiers : Tiers[a] \in Nat
  /\ MaxDuration \in Nat

\* handle is the timer that heartbeatTimeout names; others may be pending.
Off == [active |-> FALSE, activeStart |-> 0, pageStart |-> 0, accumulated |-> 0,
        pageActive |-> 0, maxReached |-> FALSE, lastPing |-> 0, timers |-> {}, handle |-> 0]

TotalActive(h, now) == h.accumulated + IF h.active THEN now - h.activeStart ELSE 0
PageActive(h, now) == h.pageActive + IF h.active THEN now - h.pageStart ELSE 0

\* stopHeartbeat(true) keeps the time that has passed, stopHeartbeat(false) drops it, as the
\* variant of the former does.
StopAndDrop(h) ==
  [h EXCEPT !.active = FALSE, !.handle = 0, !.timers = {x \in @ : x.n # h.handle}]
StopAndForget(h, now) == StopAndDrop(h)
StopAndKeep(h, now) ==
  [StopAndDrop(h) EXCEPT !.accumulated = TotalActive(h, now), !.pageActive = PageActive(h, now)]

IntervalAt(total) == Tiers[Max({a \in DOMAIN Tiers : a <= total})]

NewTimer(h) == CHOOSE n \in 1..(Cardinality(h.timers) + 1) : \A x \in h.timers : x.n # n

\* setTimeout, at the interval of the tier that the active time has reached.
NextPing(h, now) ==
  LET n == NewTimer(h)
  IN [h EXCEPT !.timers = @ \cup {[n |-> n, due |-> Max({now, h.lastPing + IntervalAt(TotalActive(h, now))})]},
               !.handle = n]

\* checkAndUpdateMaxDuration.
LimitReached(h, now) == MaxDuration > 0 /\ TotalActive(h, now) >= MaxDuration

ScheduleNextHeartbeat(h, now) ==
  IF ~h.active THEN h
  ELSE IF LimitReached(h, now) \/ IntervalAt(TotalActive(h, now)) = 0
       THEN StopAndKeep([h EXCEPT !.maxReached = TRUE], now)
       ELSE NextPing(h, now)

StartHeartbeat(h, now) ==
  IF h.maxReached THEN h
  ELSE ScheduleNextHeartbeat([StopAndDrop(h) EXCEPT !.active = TRUE, !.activeStart = now,
                                                    !.lastPing = now], now)

\* Unlike startHeartbeat it clears no timer; the variant does not set one either.
ResumeClock(h, now) ==
  [h EXCEPT !.active = TRUE, !.activeStart = now, !.pageStart = now, !.lastPing = now]
ResumeHeartbeat(h, now) ==
  IF h.maxReached THEN h
  ELSE ScheduleNextHeartbeat([h EXCEPT !.active = TRUE, !.activeStart = now,
                                       !.pageStart = now, !.lastPing = now], now)

ResetHeartbeatState(h, now) == [Off EXCEPT !.pageStart = now, !.timers = StopAndDrop(h).timers]

\* The time of a new page starts from zero.
ResetPageActiveTime(h, now) == [h EXCEPT !.pageActive = 0, !.pageStart = now]
=============================================================================
