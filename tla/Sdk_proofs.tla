----------------------------- MODULE Sdk_proofs -----------------------------
(***************************************************************************)
(* Proofs about the browser SDK, for any constants: the tab that counts      *)
(* (Tracker) and the visitor that it knows (Visitor).                        *)
(*                                                                           *)
(* The stopwatch: the heartbeat of a watched page runs, one that runs has a  *)
(* timer, and while nothing has disturbed it the page is watched when it     *)
(* runs and it shows the time for which the page was.                        *)
(*                                                                           *)
(* Reports: the memory of the tab knows each page of its session that the    *)
(* server has, under the same number and with no less time, and so does the  *)
(* storage once the page was flushed; no two pages of a state have the same  *)
(* number.                                                                   *)
(*                                                                           *)
(* The visitor: every page that is up to date, and the storage of every site *)
(* with no page out of date, says what was asked for last.                   *)
(***************************************************************************)
EXTENDS Tracker, Visitor, FiniteSetTheorems, TLAPS


-----------------------------------------------------------------------------
(* The heartbeat. *)

\* The records of the heartbeat and of the SDK.
HeartbeatOf(a, b, c, d, e, f, g, h, i) ==
  [active |-> a, activeStart |-> b, pageStart |-> c, accumulated |-> d, pageActive |-> e,
   maxReached |-> f, lastPing |-> g, timers |-> h, handle |-> i]

\* A heartbeat at its limit has stopped.
HeartbeatOK(h) ==
  /\ h = HeartbeatOf(h.active, h.activeStart, h.pageStart, h.accumulated, h.pageActive, h.maxReached,
                     h.lastPing, h.timers, h.handle)
  /\ h.active \in BOOLEAN /\ h.pageStart \in Int /\ h.pageActive \in Int /\ h.maxReached \in BOOLEAN
  /\ h.maxReached => ~h.active

\* A heartbeat of these fields is one.
LEMMA HeartbeatMade ==
  ASSUME NEW a \in BOOLEAN, NEW b, NEW c \in Int, NEW d, NEW e \in Int, NEW f \in BOOLEAN, NEW g, NEW h, NEW i,
         f => ~a, NEW x, x = HeartbeatOf(a, b, c, d, e, f, g, h, i)
  PROVE  HeartbeatOK(x)
<1>1. /\ x.active = a /\ x.activeStart = b /\ x.pageStart = c /\ x.accumulated = d /\ x.pageActive = e
      /\ x.maxReached = f /\ x.lastPing = g /\ x.timers = h /\ x.handle = i
  BY DEF HeartbeatOf
<1> QED BY <1>1 DEF HeartbeatOK

\* The time of the page is a number.
LEMMA PageActiveIs ==
  ASSUME NEW h, HeartbeatOK(h), NEW t \in Int
  PROVE  /\ PageActive(h, t) \in Int
         /\ h.active => PageActive(h, t) = h.pageActive + (t - h.pageStart)
         /\ ~h.active => PageActive(h, t) = h.pageActive
BY DEF PageActive, HeartbeatOK

\* The timer that stopHeartbeat clears is gone, the others stay.
LEMMA Drops ==
  ASSUME NEW h, HeartbeatOK(h), NEW g, g = StopAndDrop(h)
  PROVE  /\ HeartbeatOK(g) /\ ~g.active /\ g.maxReached = h.maxReached
         /\ g.pageStart = h.pageStart /\ g.pageActive = h.pageActive
<1>1. PICK a, b, c, d, e, f, l, m, n : h = HeartbeatOf(a, b, c, d, e, f, l, m, n)
  BY DEF HeartbeatOK
<1>2. c \in Int /\ e \in Int /\ f \in BOOLEAN /\ h.maxReached = f /\ h.pageStart = c /\ h.pageActive = e
  BY <1>1 DEF HeartbeatOK, HeartbeatOf
<1>3. PICK m2 : m2 = {x \in h.timers : x.n # h.handle}
  OBVIOUS
<1>4. g = [h EXCEPT !.active = FALSE, !.handle = 0, !.timers = m2]
  BY <1>3 DEF StopAndDrop
<1>5. PICK z \in BOOLEAN : z = FALSE
  OBVIOUS
<1>6. g = HeartbeatOf(z, b, c, d, e, f, l, m2, 0)
  BY <1>1, <1>4, <1>5 DEF HeartbeatOf
<1>7. g.active = z /\ g.maxReached = f /\ g.pageStart = c /\ g.pageActive = e
  BY <1>6 DEF HeartbeatOf
<1>8. HeartbeatOK(g)
  BY <1>2, <1>5, <1>6, HeartbeatMade
<1> QED BY <1>2, <1>5, <1>7, <1>8

\* stopHeartbeat keeps the time of the page.
LEMMA Stops ==
  ASSUME NEW h, HeartbeatOK(h), NEW t \in Int, NEW g, g = StopAndKeep(h, t)
  PROVE  /\ HeartbeatOK(g) /\ ~g.active /\ g.maxReached = h.maxReached
         /\ PageActive(g, t) = PageActive(h, t)
<1>1. PICK k : k = StopAndDrop(h)
  OBVIOUS
<1>2. HeartbeatOK(k) /\ ~k.active /\ k.maxReached = h.maxReached
  BY <1>1, Drops
<1>3. PICK a, b, c, d, e, f, l, m, n : k = HeartbeatOf(a, b, c, d, e, f, l, m, n)
  BY <1>2 DEF HeartbeatOK
<1>4. a \in BOOLEAN /\ ~a /\ c \in Int /\ f \in BOOLEAN /\ k.maxReached = f
  BY <1>2, <1>3 DEF HeartbeatOK, HeartbeatOf
<1>5. PICK p, q : p = PageActive(h, t) /\ q = TotalActive(h, t)
  OBVIOUS
<1>6. g = [k EXCEPT !.accumulated = q, !.pageActive = p]
  BY <1>1, <1>5 DEF StopAndKeep
<1>7. g = HeartbeatOf(a, b, c, q, p, f, l, m, n)
  BY <1>3, <1>6 DEF HeartbeatOf
<1>8. g.active = a /\ g.maxReached = f /\ g.pageActive = p
  BY <1>7 DEF HeartbeatOf
<1>9. p \in Int
  BY <1>5, PageActiveIs
<1>10. HeartbeatOK(g)
  BY <1>4, <1>7, <1>9, HeartbeatMade
<1> QED BY <1>2, <1>4, <1>5, <1>8, <1>10, PageActiveIs

\* scheduleNextHeartbeat sets a timer, or the limit is reached.
LEMMA Schedules ==
  ASSUME NEW h, HeartbeatOK(h), NEW t \in Int, NEW g, g = ScheduleNextHeartbeat(h, t)
  PROVE  /\ HeartbeatOK(g) /\ (g.active => g.timers # {}) /\ PageActive(g, t) = PageActive(h, t)
         /\ \/ g.maxReached
            \/ /\ g.active = h.active /\ g.maxReached = h.maxReached
               /\ g.pageStart = h.pageStart /\ g.pageActive = h.pageActive
<1>1. PICK a, b, c, d, e, f, l, m, n : h = HeartbeatOf(a, b, c, d, e, f, l, m, n)
  BY DEF HeartbeatOK
<1>2. /\ a \in BOOLEAN /\ c \in Int /\ e \in Int /\ f \in BOOLEAN /\ (f => ~a)
      /\ h.active = a /\ h.maxReached = f /\ h.pageStart = c /\ h.pageActive = e
  BY <1>1 DEF HeartbeatOK, HeartbeatOf
<1>3. CASE ~h.active
  BY <1>3 DEF ScheduleNextHeartbeat
<1>4. CASE h.active /\ (LimitReached(h, t) \/ IntervalAt(TotalActive(h, t)) = 0)
  <2>31. PICK y \in BOOLEAN : y = TRUE
    OBVIOUS
  <2>1. PICK k : k = [h EXCEPT !.maxReached = y]
    OBVIOUS
  <2>2. k = HeartbeatOf(a, b, c, d, e, y, l, m, n)
    BY <1>1, <2>1 DEF HeartbeatOf
  <2>3. g = StopAndKeep(k, t)
    BY <1>4, <2>1, <2>31 DEF ScheduleNextHeartbeat
  <2>4. k.active = a /\ k.pageStart = c /\ k.pageActive = e /\ k.maxReached = y /\ k.timers = m /\ k.handle = n
    BY <2>2 DEF HeartbeatOf
  <2>5. PICK j : j = StopAndDrop(k)
    OBVIOUS
  <2>32. PICK z \in BOOLEAN : z = FALSE
    OBVIOUS
  <2>6. PICK m2 : m2 = {x \in k.timers : x.n # k.handle}
    OBVIOUS
  <2>7. j = [k EXCEPT !.active = z, !.handle = 0, !.timers = m2]
    BY <2>5, <2>6, <2>32 DEF StopAndDrop
  <2>8. j = HeartbeatOf(z, b, c, d, e, y, l, m2, 0)
    BY <2>2, <2>7 DEF HeartbeatOf
  <2>9. PICK p, q : p = PageActive(k, t) /\ q = TotalActive(k, t)
    OBVIOUS
  <2>10. g = [j EXCEPT !.accumulated = q, !.pageActive = p]
    BY <2>3, <2>5, <2>9 DEF StopAndKeep
  <2>11. g = HeartbeatOf(z, b, c, q, p, y, l, m2, 0)
    BY <2>8, <2>10 DEF HeartbeatOf
  <2>12. p \in Int
    BY <1>2, <2>4, <2>9 DEF PageActive
  <2>13. HeartbeatOK(g)
    BY <1>2, <2>31, <2>32, <2>11, <2>12, HeartbeatMade
  <2>14. g.active = z /\ g.maxReached = y /\ g.pageActive = p
    BY <2>11 DEF HeartbeatOf
  <2>15. PageActive(g, t) = p
    BY <2>13, <2>14, <2>32, PageActiveIs
  <2>16. p = PageActive(h, t)
    BY <1>2, <2>4, <2>9 DEF PageActive
  <2> QED BY <2>31, <2>32, <2>13, <2>14, <2>15, <2>16
<1>5. CASE h.active /\ ~(LimitReached(h, t) \/ IntervalAt(TotalActive(h, t)) = 0)
  <2>1. PICK z, y : z = NewTimer(h) /\ y = [n |-> NewTimer(h), due |-> Max({t, h.lastPing + IntervalAt(TotalActive(h, t))})]
    OBVIOUS
  <2>2. g = NextPing(h, t)
    BY <1>5 DEF ScheduleNextHeartbeat
  <2>3. g = [h EXCEPT !.timers = @ \cup {y}, !.handle = z]
    BY <2>1, <2>2 DEF NextPing
  <2>4. g = HeartbeatOf(a, b, c, d, e, f, l, m \cup {y}, z)
    BY <1>1, <2>3 DEF HeartbeatOf
  <2>5. HeartbeatOK(g)
    BY <1>2, <2>4, HeartbeatMade
  <2>6. g.active = a /\ g.timers = m \cup {y} /\ g.maxReached = f /\ g.pageStart = c /\ g.pageActive = e
    BY <2>4 DEF HeartbeatOf
  <2>7. PageActive(g, t) = PageActive(h, t)
    BY <1>2, <2>6 DEF PageActive
  <2> QED BY <1>2, <2>5, <2>6, <2>7
<1> QED BY <1>3, <1>4, <1>5

\* startHeartbeat leaves the time of the page alone.
LEMMA Starts ==
  ASSUME NEW h, HeartbeatOK(h), NEW t \in Int, NEW g, g = StartHeartbeat(h, t)
  PROVE  /\ HeartbeatOK(g) /\ (g.active => g.timers # {})
         /\ g.maxReached \/ (g.active /\ g.pageStart = h.pageStart /\ g.pageActive = h.pageActive)
<1>1. CASE h.maxReached
  BY <1>1 DEF StartHeartbeat, HeartbeatOK
<1>2. CASE ~h.maxReached
  <2>1. PICK j : j = StopAndDrop(h)
    OBVIOUS
  <2>2. HeartbeatOK(j) /\ ~j.maxReached /\ j.pageStart = h.pageStart /\ j.pageActive = h.pageActive
    BY <1>2, <2>1, Drops
  <2>3. PICK a, b, c, d, e, f, l, m, n : j = HeartbeatOf(a, b, c, d, e, f, l, m, n)
    BY <2>2 DEF HeartbeatOK
  <2>4. c \in Int /\ e \in Int /\ f \in BOOLEAN /\ ~f /\ j.pageStart = c /\ j.pageActive = e
    BY <2>2, <2>3 DEF HeartbeatOK, HeartbeatOf
  <2>33. PICK y \in BOOLEAN : y = TRUE
    OBVIOUS
  <2>5. PICK k : k = [j EXCEPT !.active = y, !.activeStart = t, !.lastPing = t]
    OBVIOUS
  <2>6. k = HeartbeatOf(y, t, c, d, e, f, t, m, n)
    BY <2>3, <2>5 DEF HeartbeatOf
  <2>7. HeartbeatOK(k)
    BY <2>4, <2>33, <2>6, HeartbeatMade
  <2>10. k.active = y /\ k.pageStart = c /\ k.pageActive = e
    BY <2>6 DEF HeartbeatOf
  <2>8. g = ScheduleNextHeartbeat(k, t)
    BY <1>2, <2>1, <2>5, <2>33 DEF StartHeartbeat
  <2>9. /\ HeartbeatOK(g) /\ (g.active => g.timers # {})
        /\ \/ g.maxReached
           \/ /\ g.active = k.active /\ g.pageStart = k.pageStart /\ g.pageActive = k.pageActive
    BY <2>7, <2>8, Schedules
  <2>11. k.active = TRUE /\ k.pageStart = h.pageStart /\ k.pageActive = h.pageActive
    BY <2>2, <2>4, <2>10, <2>33
  <2> QED BY <2>9, <2>11
<1> QED BY <1>1, <1>2

\* resumeHeartbeat lets the time of the page go on.
LEMMA Resumes ==
  ASSUME NEW h, HeartbeatOK(h), NEW t \in Int, NEW g, g = ResumeHeartbeat(h, t)
  PROVE  /\ HeartbeatOK(g) /\ (g.active => g.timers # {})
         /\ g.maxReached \/ (~h.maxReached /\ g.active /\ PageActive(g, t) = h.pageActive)
         /\ h.maxReached \/ ~h.active => PageActive(g, t) = PageActive(h, t)
<1>1. CASE h.maxReached
  BY <1>1 DEF ResumeHeartbeat, HeartbeatOK
<1>2. CASE ~h.maxReached
  <2>1. PICK a, b, c, d, e, f, l, m, n : h = HeartbeatOf(a, b, c, d, e, f, l, m, n)
    BY DEF HeartbeatOK
  <2>2. c \in Int /\ e \in Int /\ f = FALSE /\ h.pageStart = c /\ h.pageActive = e
    BY <1>2, <2>1 DEF HeartbeatOK, HeartbeatOf
  <2>5. PICK k : k = [h EXCEPT !.active = TRUE, !.activeStart = t, !.pageStart = t, !.lastPing = t]
    OBVIOUS
  <2>6. k = HeartbeatOf(TRUE, t, t, d, e, f, t, m, n)
    BY <2>1, <2>5 DEF HeartbeatOf
  <2>7. HeartbeatOK(k)
    BY <2>2, <2>6, HeartbeatMade
  <2>10. k.active /\ k.pageStart = t /\ k.pageActive = e
    BY <2>6 DEF HeartbeatOf
  <2>8. g = ScheduleNextHeartbeat(k, t)
    BY <1>2, <2>5 DEF ResumeHeartbeat
  <2>9. /\ HeartbeatOK(g) /\ (g.active => g.timers # {}) /\ PageActive(g, t) = PageActive(k, t)
        /\ g.maxReached \/ (g.active /\ g.pageStart = t /\ g.pageActive = e)
    BY <2>7, <2>8, <2>10, Schedules
  <2>11. PageActive(k, t) = e
    BY <2>2, <2>7, <2>10, PageActiveIs
  <2> QED BY <1>2, <2>2, <2>9, <2>11, PageActiveIs
<1> QED BY <1>1, <1>2

\* A heartbeat that is reset has counted nothing.
LEMMA ResetsHeartbeat ==
  ASSUME NEW h, NEW t \in Int, NEW g, g = StartHeartbeat(ResetHeartbeatState(h, t), t)
  PROVE  /\ HeartbeatOK(g) /\ (g.active => g.timers # {})
         /\ g.maxReached \/ (g.active /\ PageActive(g, t) = 0)
<1>1. PICK k, m : k = ResetHeartbeatState(h, t) /\ m = StopAndDrop(h).timers
  OBVIOUS
<1>6. PICK z \in BOOLEAN : z = FALSE
  OBVIOUS
<1>2. k = HeartbeatOf(z, 0, t, 0, 0, z, 0, m, 0)
  BY <1>1, <1>6 DEF ResetHeartbeatState, Off, HeartbeatOf
<1>3. k.pageStart = t /\ k.pageActive = 0
  BY <1>2 DEF HeartbeatOf
<1>5. HeartbeatOK(k)
  BY <1>2, <1>6, HeartbeatMade
<1>4. /\ HeartbeatOK(g) /\ (g.active => g.timers # {})
      /\ g.maxReached \/ (g.active /\ g.pageStart = t /\ g.pageActive = 0)
  BY <1>1, <1>3, <1>5, Starts
<1> QED BY <1>4, PageActiveIs

-----------------------------------------------------------------------------
(* The memory of the SDK. *)

SdkOf(a, b, c, d, e, f, g, h) ==
  [hb |-> a, state |-> b, flushed |-> c, paused |-> d, debounce |-> e, sends |-> f, goals |-> g, link |-> h]

\* What matters of it.
SdkIs(x, hb, state, flushed, paused) ==
  /\ x = SdkOf(x.hb, x.state, x.flushed, x.paused, x.debounce, x.sends, x.goals, x.link)
  /\ x.hb = hb /\ x.state = state /\ x.flushed = flushed /\ x.paused = paused

\* The fields of a record.
LEMMA SdkMade ==
  ASSUME NEW a, NEW b, NEW c, NEW d, NEW e, NEW f, NEW g, NEW h, NEW x, x = SdkOf(a, b, c, d, e, f, g, h)
  PROVE  SdkIs(x, a, b, c, d) /\ x.sends = f
<1>1. /\ x.hb = a /\ x.state = b /\ x.flushed = c /\ x.paused = d
      /\ x.debounce = e /\ x.sends = f /\ x.goals = g /\ x.link = h
  BY DEF SdkOf
<1> QED BY <1>1 DEF SdkIs

\* A page that opens.
LEMMA SdkLoaded ==
  ASSUME NEW hb, NEW state, NEW link, NEW x, x = [Unused EXCEPT !.hb = hb, !.state = state, !.sends = 1, !.link = link]
  PROVE  \E z \in BOOLEAN : ~z /\ SdkIs(x, hb, state, z, z)
<1>1. PICK z \in BOOLEAN : z = FALSE
  OBVIOUS
<1>2. x = SdkOf(hb, state, z, z, z, 1, 0, link)
  BY <1>1 DEF Unused, SdkOf
<1>3. SdkIs(x, hb, state, z, z)
  BY <1>2, SdkMade
<1> QED BY <1>1, <1>3

\* A page that is gone.
LEMMA SdkUnused ==
  SdkIs(Unused, Off, Empty(Linked), FALSE, FALSE) /\ HeartbeatOK(Off)
<1>2. PICK z \in BOOLEAN : z = FALSE
  OBVIOUS
<1>1. Unused = SdkOf(Off, Empty(Linked), z, z, z, 0, 0, -1)
  BY <1>2 DEF Unused, SdkOf
<1>3. Off = HeartbeatOf(z, 0, 0, 0, 0, z, 0, {}, 0)
  BY <1>2 DEF Off, HeartbeatOf
<1>4. HeartbeatOK(Off)
  BY <1>2, <1>3, HeartbeatMade
<1> QED BY <1>1, <1>2, <1>4, SdkMade

SdkTyped ==
  /\ clock \in Nat /\ watched \in Nat /\ sdk.paused \in BOOLEAN
  /\ SdkIs(sdk, sdk.hb, sdk.state, sdk.flushed, sdk.paused)
  /\ HeartbeatOK(sdk.hb)

\* What a handler leaves of the SDK: sendPayload.
LEMMA SendIs ==
  ASSUME NEW new, NEW hb, NEW state, NEW fl, NEW pa, SdkIs(new, hb, state, fl, pa), SendPayload(new),
         NEW s, s = BuildPayload(state, PageActive(hb, clock))
  PROVE  SdkIs(sdk', hb, s, fl, pa) /\ Receive(s)
<1>1. PICK e, f, g, h : new = SdkOf(hb, state, fl, pa, e, f, g, h)
  BY DEF SdkIs
<1>2. new.hb = hb /\ new.state = state
  BY DEF SdkIs
<1>3. sdk' = [new EXCEPT !.state = s] /\ Receive(s)
  BY <1>2 DEF SendPayload
<1>4. sdk' = SdkOf(hb, s, fl, pa, e, f, g, h)
  BY <1>1, <1>3 DEF SdkOf
<1> QED BY <1>3, <1>4, SdkMade

\* flushOnce.
LEMMA FlushIs ==
  ASSUME SdkTyped, NEW hb, Flush(hb), NEW s, s = FinalizeForUnload(sdk.state, PageActive(hb, clock))
  PROVE  \/ /\ sdk.flushed /\ SdkIs(sdk', hb, sdk.state, sdk.flushed, sdk.paused)
            /\ UNCHANGED <<sent, stored, marks, faults>>
         \/ /\ ~sdk.flushed /\ SdkIs(sdk', hb, s, sdk'.flushed, sdk.paused) /\ sdk'.flushed
            /\ Receive(s) /\ stored' = s /\ Disturbs(IF sdk.state.current = 0 THEN {} ELSE {"left"})
<1>1. PICK a, b, c, d, e, f, g, h : sdk = SdkOf(a, b, c, d, e, f, g, h) /\ b = sdk.state /\ c = sdk.flushed /\ d = sdk.paused
  BY DEF SdkTyped, SdkIs
<1>2. CASE sdk.flushed
  <2>1. sdk' = [sdk EXCEPT !.hb = hb] /\ UNCHANGED <<sent, stored, marks, faults>>
    BY <1>2 DEF Flush
  <2>2. sdk' = SdkOf(hb, b, c, d, e, f, g, h)
    BY <1>1, <2>1 DEF SdkOf
  <2>3. SdkIs(sdk', hb, b, c, d)
    BY <2>2, SdkMade
  <2> QED BY <1>1, <1>2, <2>1, <2>3
<1>3. CASE ~sdk.flushed
  <2>1. PICK z : z = TRUE
    OBVIOUS
  <2>2. /\ sdk' = [sdk EXCEPT !.hb = hb, !.flushed = z, !.state = s]
        /\ Receive(s) /\ stored' = s /\ Disturbs(IF sdk.state.current = 0 THEN {} ELSE {"left"})
    BY <1>3, <2>1 DEF Flush
  <2>3. sdk' = SdkOf(hb, s, z, d, e, f, g, h)
    BY <1>1, <2>2 DEF SdkOf
  <2>4. SdkIs(sdk', hb, s, z, d)
    BY <2>3, SdkMade
  <2>5. sdk'.flushed = z
    BY <2>4 DEF SdkIs
  <2> QED BY <1>1, <1>3, <2>1, <2>2, <2>4, <2>5
<1> QED BY <1>2, <1>3

\* The page that is back.
LEMMA ComeBackIs ==
  ASSUME SdkTyped, NEW state, NEW isWatched, ComeBack(state, isWatched),
         NEW g, g = (IF sdk.paused THEN sdk.hb ELSE ResumeHeartbeat(sdk.hb, clock))
  PROVE  SdkIs(sdk', g, state, sdk'.flushed, sdk.paused) /\ ~sdk'.flushed
<1>1. PICK a, b, c, d, e, f, i, h : sdk = SdkOf(a, b, c, d, e, f, i, h) /\ d = sdk.paused
  BY DEF SdkTyped, SdkIs
<1>2. PICK z : z = FALSE
  OBVIOUS
<1>3. sdk' = [sdk EXCEPT !.flushed = z, !.state = state, !.hb = g]
  BY <1>2 DEF ComeBack
<1>4. sdk' = SdkOf(g, state, z, d, e, f, i, h)
  BY <1>1, <1>3 DEF SdkOf
<1>5. SdkIs(sdk', g, state, z, d)
  BY <1>4, SdkMade
<1>6. sdk'.flushed = z
  BY <1>5 DEF SdkIs
<1> QED BY <1>1, <1>2, <1>5, <1>6

\* What the SDK is when it sends: after the debouncing, with a goal, after a reset and at a ping.
LEMMA SendersAre ==
  ASSUME SdkTyped, NEW state, NEW hb, NEW x, NEW y
  PROVE  /\ y = [sdk EXCEPT !.debounce = FALSE, !.sends = @ + 1] => SdkIs(y, sdk.hb, sdk.state, sdk.flushed, sdk.paused)
         /\ y = [sdk EXCEPT !.state = AddGoal(@), !.debounce = FALSE, !.goals = @ + 1] =>
              SdkIs(y, sdk.hb, AddGoal(sdk.state), sdk.flushed, sdk.paused)
<1>1. PICK a, b, c, d, e, f, i, h : /\ sdk = SdkOf(a, b, c, d, e, f, i, h)
                                    /\ a = sdk.hb /\ b = sdk.state /\ c = sdk.flushed /\ d = sdk.paused /\ f = sdk.sends /\ i = sdk.goals
  BY DEF SdkTyped, SdkIs
<1>2. PICK z, j, k, l : z = FALSE /\ j = f + 1 /\ k = i + 1 /\ l = AddGoal(b)
  OBVIOUS
<1>3. y = [sdk EXCEPT !.debounce = FALSE, !.sends = @ + 1] => SdkIs(y, a, b, c, d)
  <2>1. y = [sdk EXCEPT !.debounce = FALSE, !.sends = @ + 1] => y = SdkOf(a, b, c, d, z, j, i, h)
    BY <1>1, <1>2 DEF SdkOf
  <2> QED BY <2>1, SdkMade
<1>4. y = [sdk EXCEPT !.state = AddGoal(@), !.debounce = FALSE, !.goals = @ + 1] => SdkIs(y, a, l, c, d)
  <2>1. y = [sdk EXCEPT !.state = AddGoal(@), !.debounce = FALSE, !.goals = @ + 1] => y = SdkOf(a, l, c, d, z, f, k, h)
    BY <1>1, <1>2 DEF SdkOf
  <2> QED BY <2>1, SdkMade
<1> QED BY <1>1, <1>2, <1>3, <1>4

-----------------------------------------------------------------------------
(* The stopwatch of the tab. *)

\* It runs while the page is watched, and only then as long as nothing has disturbed it.
StopwatchInv ==
  /\ SdkTyped
  /\ PingsGoOn
  /\ life = "cached" => ~visible
  /\ Watched /\ ~sdk.hb.maxReached => sdk.hb.active
  /\ life # "closed" /\ marks = {} /\ ~sdk.hb.maxReached =>
       PageMs = watched /\ (sdk.hb.active => Watched)

\* A step that leaves the heartbeat, the page and the visit alone, and takes back no mark.
LEMMA Undisturbed ==
  ASSUME StopwatchInv, SdkTyped', sdk'.hb = sdk.hb, sdk'.paused = sdk.paused,
         UNCHANGED <<clock, document, watched>>, marks \subseteq marks'
  PROVE  StopwatchInv'
<1>1. /\ clock' = clock /\ watched' = watched /\ life' = life /\ visible' = visible /\ focused' = focused
      /\ (marks' = {} => marks = {})
  BY DEF document
<1> QED BY <1>1 DEF StopwatchInv, PingsGoOn, Watched, PageMs, PageActive

\* A step that stops the heartbeat of a page that is not watched afterwards.
LEMMA Stopped ==
  ASSUME StopwatchInv, SdkTyped', sdk'.hb = StopAndKeep(sdk.hb, clock), life # "closed",
         UNCHANGED <<clock, watched>>, ~Watched', life' = "cached" => ~visible', marks \subseteq marks'
  PROVE  StopwatchInv'
<1>1. /\ ~sdk'.hb.active /\ sdk'.hb.maxReached = sdk.hb.maxReached
      /\ PageActive(sdk'.hb, clock) = PageActive(sdk.hb, clock)
  <2>1. HeartbeatOK(sdk.hb) /\ clock \in Int
    BY DEF StopwatchInv, SdkTyped
  <2>2. PICK h, g : h = sdk.hb /\ g = sdk'.hb
    OBVIOUS
  <2> QED BY <2>1, <2>2, Stops
<1>2. PageMs' = PageActive(sdk'.hb, clock) /\ PageMs = PageActive(sdk.hb, clock)
  BY DEF PageMs, PageActive
<1>3. marks' = {} => marks = {}
  OBVIOUS
<1> QED BY <1>1, <1>2, <1>3 DEF StopwatchInv, PingsGoOn

\* A step that starts another visit.
LEMMA Restarted ==
  ASSUME StopwatchInv, SdkTyped', clock' = clock, watched' = 0,
         sdk'.hb.active => sdk'.hb.timers # {},
         sdk'.hb.maxReached \/ (sdk'.hb.active /\ PageActive(sdk'.hb, clock) = 0),
         life' = "open", marks' = {} => Watched'
  PROVE  StopwatchInv'
<1>1. PageMs' = PageActive(sdk'.hb, clock)
  BY DEF PageMs, PageActive
<1> QED BY <1>1 DEF StopwatchInv, PingsGoOn

\* A page that is there again counts on, and who starts what is running sets it back.
LEMMA CameBack ==
  ASSUME StopwatchInv, life # "closed", NEW state, NEW isWatched \in BOOLEAN, ComeBack(state, isWatched),
         UNCHANGED <<clock, watched>>, life' = "open", isWatched <=> visible' /\ focused', ~Watched
  PROVE  StopwatchInv'
<1>1. SdkTyped /\ HeartbeatOK(sdk.hb) /\ clock \in Int /\ sdk.paused \in BOOLEAN
  BY DEF StopwatchInv, SdkTyped
<1>2. PICK h, g : h = sdk.hb /\ g = (IF sdk.paused THEN sdk.hb ELSE ResumeHeartbeat(sdk.hb, clock))
  OBVIOUS
<1>4. SdkIs(sdk', g, state, sdk'.flushed, sdk.paused)
  BY <1>1, <1>2, ComeBackIs
<1>5. sdk'.hb = g /\ sdk'.paused = sdk.paused
  BY <1>4 DEF SdkIs
<1>6. marks' = {} => /\ marks = {}
                     /\ ~sdk.paused /\ ~h.maxReached => ~h.active /\ isWatched
  <2>1. marks' = marks \cup (IF sdk.paused \/ sdk.hb.maxReached THEN {}
                             ELSE {m \in {"back", "unwatched"} : IF m = "back" THEN sdk.hb.active ELSE ~isWatched})
    BY DEF ComeBack, Disturbs
  <2> QED BY <1>2, <2>1
<1>7. PageMs = PageActive(h, clock) /\ PageMs' = PageActive(g, clock)
  BY <1>2, <1>5 DEF PageMs, PageActive
<1>8. Watched' <=> isWatched /\ ~sdk.paused
  BY <1>5 DEF Watched
<1>9. CASE sdk.paused
  <2>1. g = h /\ ~Watched'
    BY <1>2, <1>8, <1>9
  <2>2. SdkTyped'
    BY <1>1, <1>2, <1>4, <1>5, <2>1 DEF SdkTyped, SdkIs, StopwatchInv
  <2> QED BY <1>2, <1>5, <1>6, <1>7, <1>9, <2>1, <2>2 DEF StopwatchInv, PingsGoOn
<1>10. CASE ~sdk.paused
  <2>1. /\ HeartbeatOK(g) /\ (g.active => g.timers # {})
        /\ g.maxReached \/ (~h.maxReached /\ g.active /\ PageActive(g, clock) = h.pageActive)
    BY <1>1, <1>2, <1>10, Resumes
  <2>2. SdkTyped'
    BY <1>1, <1>4, <1>5, <2>1 DEF SdkTyped, SdkIs, StopwatchInv
  <2>3. ~h.active => PageActive(h, clock) = h.pageActive
    BY <1>1, <1>2, PageActiveIs
  <2> QED BY <1>2, <1>5, <1>6, <1>7, <1>8, <1>10, <2>1, <2>2, <2>3 DEF StopwatchInv, PingsGoOn
<1> QED BY <1>1, <1>9, <1>10

\* The page loads.
LEMMA LoadStops ==
  ASSUME StopwatchInv, Load
  PROVE  StopwatchInv'
<1>1. PICK isLink \in BOOLEAN : \E isVisible \in BOOLEAN :
       LET id == GetOrCreateSession(isLink)
           matches == stored # Nothing /\ stored.session = id
           restored == IF matches THEN stored ELSE Empty(id)
           s == AddPageview(restored, visit + 1, 0)
           hb == StartHeartbeat([Off EXCEPT !.pageStart = clock], clock)
       IN /\ life' = "open" /\ visible' = isVisible /\ focused' = isVisible
          /\ SendPayload([Unused EXCEPT !.hb = hb, !.state = s, !.sends = 1,
                                        !.link = IF isLink THEN clock ELSE -1])
          /\ Visit(isVisible, (IF ~matches /\ \E k \in DOMAIN sent : k[1] = id
                               THEN {"startedOver"} ELSE {})
                              \cup IF matches /\ stored.current # 0 THEN {"unfinished"} ELSE {})
          /\ UNCHANGED clock
  BY DEF Load
<1>2. PICK isVisible \in BOOLEAN : \E s, more, l :
         /\ life' = "open" /\ visible' = isVisible /\ focused' = isVisible
         /\ SendPayload([Unused EXCEPT !.hb = StartHeartbeat([Off EXCEPT !.pageStart = clock], clock),
                                       !.state = s, !.sends = 1, !.link = l])
         /\ Visit(isVisible, more)
         /\ UNCHANGED clock
  BY <1>1
<1>3. PICK s, more, l, k, hb, new :
         /\ k = [Off EXCEPT !.pageStart = clock]
         /\ hb = StartHeartbeat(k, clock)
         /\ new = [Unused EXCEPT !.hb = hb, !.state = s, !.sends = 1, !.link = l]
         /\ SendPayload(new) /\ Visit(isVisible, more)
  BY <1>2
<1>4. clock \in Int
  BY DEF StopwatchInv, SdkTyped
<1>5. HeartbeatOK(k) /\ k.pageStart = clock /\ k.pageActive = 0
  <2>1. PICK z \in BOOLEAN : z = FALSE
    OBVIOUS
  <2>2. k = HeartbeatOf(z, 0, clock, 0, 0, z, 0, {}, 0)
    BY <1>3, <2>1 DEF Off, HeartbeatOf
  <2>3. k.pageStart = clock /\ k.pageActive = 0
    BY <2>2 DEF HeartbeatOf
  <2> QED BY <1>4, <2>1, <2>2, <2>3, HeartbeatMade
<1>6. /\ HeartbeatOK(hb) /\ (hb.active => hb.timers # {})
      /\ hb.maxReached \/ (hb.active /\ hb.pageStart = clock /\ hb.pageActive = 0)
  <2>1. hb = StartHeartbeat(k, clock)
    BY <1>3
  <2> QED BY <2>1, <1>4, <1>5, Starts
<1>7. PageActive(hb, clock) = 0 \/ hb.maxReached
  BY <1>4, <1>6, PageActiveIs
<1>8. PICK z \in BOOLEAN : ~z /\ SdkIs(new, hb, s, z, z)
  <2>1. new = [Unused EXCEPT !.hb = hb, !.state = s, !.sends = 1, !.link = l]
    BY <1>3
  <2> QED BY <2>1, SdkLoaded
<1>9. PICK b : b = BuildPayload(s, PageActive(hb, clock))
  OBVIOUS
<1>10. SdkIs(sdk', hb, b, z, z)
  <2>1. SendPayload(new)
    BY <1>3
  <2> QED BY <2>1, <1>8, <1>9, SendIs
<1>11. sdk'.hb = hb /\ sdk'.paused = z
  BY <1>10 DEF SdkIs
<1>12. watched' = 0 /\ (marks' = {} => isVisible)
  BY <1>3 DEF Visit
<1>13. SdkTyped'
  BY <1>2, <1>6, <1>10, <1>11, <1>12 DEF SdkTyped, SdkIs, StopwatchInv
<1>14. marks' = {} => Watched'
  BY <1>2, <1>8, <1>11, <1>12 DEF Watched
<1> QED BY <1>2, <1>6, <1>7, <1>11, <1>12, <1>13, <1>14, Restarted

\* A step after which the SDK is typed.
LEMMA Typed ==
  ASSUME StopwatchInv, NEW hb, NEW state, NEW fl, SdkIs(sdk', hb, state, fl, sdk.paused), HeartbeatOK(hb),
         clock' \in Nat, watched' \in Nat
  PROVE  SdkTyped' /\ sdk'.hb = hb /\ sdk'.paused = sdk.paused
BY DEF SdkIs, SdkTyped, StopwatchInv

\* A flush leaves the heartbeat that it was given, and takes back no mark.
LEMMA FlushTyped ==
  ASSUME StopwatchInv, NEW hb, HeartbeatOK(hb), Flush(hb), UNCHANGED <<clock, watched>>
  PROVE  SdkTyped' /\ sdk'.hb = hb /\ sdk'.paused = sdk.paused /\ marks \subseteq marks'
<1>1. SdkTyped /\ clock' \in Nat /\ watched' \in Nat
  BY DEF StopwatchInv, SdkTyped
<1>2. PICK s : s = FinalizeForUnload(sdk.state, PageActive(hb, clock))
  OBVIOUS
<1>3. \/ sdk.flushed /\ SdkIs(sdk', hb, sdk.state, sdk.flushed, sdk.paused) /\ marks' = marks
      \/ SdkIs(sdk', hb, s, sdk'.flushed, sdk.paused) /\ \E new : marks' = marks \cup new
  <2>1. \/ /\ sdk.flushed /\ SdkIs(sdk', hb, sdk.state, sdk.flushed, sdk.paused)
           /\ UNCHANGED <<sent, stored, marks, faults>>
        \/ /\ ~sdk.flushed /\ SdkIs(sdk', hb, s, sdk'.flushed, sdk.paused) /\ sdk'.flushed
           /\ Receive(s) /\ stored' = s /\ Disturbs(IF sdk.state.current = 0 THEN {} ELSE {"left"})
    BY <1>1, <1>2, FlushIs
  <2> QED BY <2>1 DEF Disturbs
<1>4. PICK t, fl : SdkIs(sdk', hb, t, fl, sdk.paused)
  BY <1>3
<1>5. SdkTyped' /\ sdk'.hb = hb /\ sdk'.paused = sdk.paused
  BY <1>1, <1>4, Typed
<1> QED BY <1>3, <1>5

\* Leaving.
LEMMA LeaveStops ==
  ASSUME StopwatchInv, Leave
  PROVE  StopwatchInv'
<1>1. /\ life = "open" /\ visible' = FALSE /\ focused' = FALSE /\ UNCHANGED <<clock, watched>>
      /\ clock \in Int /\ HeartbeatOK(sdk.hb) /\ SdkTyped
  BY DEF Leave, StopwatchInv, SdkTyped
<1>2. CASE life' = "cached" /\ Flush(IF visible THEN StopAndKeep(sdk.hb, clock) ELSE sdk.hb)
  <2>1. CASE visible
    <3>1. PICK h, g : h = sdk.hb /\ g = StopAndKeep(h, clock)
      OBVIOUS
    <3>2. HeartbeatOK(g)
      BY <1>1, <3>1, Stops
    <3>3. Flush(g)
      BY <1>2, <2>1, <3>1
    <3>4. SdkTyped' /\ sdk'.hb = g /\ marks \subseteq marks'
      BY <1>1, <3>2, <3>3, FlushTyped
    <3>5. ~Watched' /\ (life' = "cached" => ~visible')
      BY <1>1, <1>2 DEF Watched
    <3>6. sdk'.hb = StopAndKeep(sdk.hb, clock)
      BY <3>1, <3>4
    <3> QED BY <1>1, <3>4, <3>5, <3>6, Stopped
  <2>2. CASE ~visible
    <3>1. Flush(sdk.hb)
      BY <1>2, <2>2
    <3>2. SdkTyped' /\ sdk'.hb = sdk.hb /\ marks \subseteq marks'
      BY <1>1, <3>1, FlushTyped
    <3>3. ~Watched' /\ ~Watched
      BY <1>2, <2>2 DEF Watched
    <3>4. marks' = {} => marks = {}
      BY <3>2
    <3> QED BY <1>1, <1>2, <3>2, <3>3, <3>4 DEF StopwatchInv, PingsGoOn, PageMs, PageActive
  <2> QED BY <2>1, <2>2
<1>3. CASE life' = "closed" /\ sdk' = Unused
  BY <1>1, <1>3, SdkUnused DEF StopwatchInv, PingsGoOn, Watched, SdkTyped, SdkIs
<1> QED BY <1>2, <1>3 DEF Leave

\* A crash.
LEMMA CrashStops ==
  ASSUME StopwatchInv, Crash
  PROVE  StopwatchInv'
BY SdkUnused DEF Crash, StopwatchInv, PingsGoOn, Watched, SdkTyped, SdkIs

\* The page is hidden, loses the focus, or is frozen.
LEMMA HideStops ==
  ASSUME StopwatchInv, HideEvent
  PROVE  StopwatchInv'
<1>1. /\ life = "open" /\ UNCHANGED <<clock, watched>> /\ Hide
      /\ clock \in Int /\ HeartbeatOK(sdk.hb) /\ SdkTyped
  BY DEF HideEvent, StopwatchInv, SdkTyped
<1>2. PICK h, g : h = sdk.hb /\ g = StopAndKeep(h, clock)
  OBVIOUS
<1>3. HeartbeatOK(g)
  BY <1>1, <1>2, Stops
<1>4. Flush(g)
  BY <1>2 DEF HideEvent
<1>5. SdkTyped' /\ sdk'.hb = g /\ marks \subseteq marks'
  BY <1>1, <1>3, <1>4, FlushTyped
<1>6. ~Watched' /\ life' # "cached"
  BY <1>1 DEF Watched, Hide
<1>7. sdk'.hb = StopAndKeep(sdk.hb, clock)
  BY <1>2, <1>5
<1> QED BY <1>1, <1>5, <1>6, <1>7, Stopped

\* A page that stays after beforeunload.
LEMMA BeforeUnloadStops ==
  ASSUME StopwatchInv, BeforeUnload
  PROVE  StopwatchInv'
<1>1. UNCHANGED <<clock, document, watched>> /\ HeartbeatOK(sdk.hb) /\ Flush(sdk.hb)
  BY DEF BeforeUnload, StopwatchInv, SdkTyped
<1>2. SdkTyped' /\ sdk'.hb = sdk.hb /\ sdk'.paused = sdk.paused /\ marks \subseteq marks'
  BY <1>1, FlushTyped
<1> QED BY <1>1, <1>2, Undisturbed

\* The page is there again.
LEMMA ShowsStop ==
  ASSUME StopwatchInv, PageShow \/ ShowEvent
  PROVE  StopwatchInv'
<1>1. CASE PageShow
  <2>1. PICK state : ComeBack(state, FALSE)
    BY <1>1 DEF PageShow
  <2>2. life = "cached" /\ life' = "open" /\ UNCHANGED <<clock, watched, visible, focused>>
    BY <1>1 DEF PageShow
  <2>3. ~Watched /\ ~visible
    BY <2>2 DEF Watched, StopwatchInv
  <2>4. PICK w \in BOOLEAN : w = FALSE
    OBVIOUS
  <2>5. ComeBack(state, w) /\ (w <=> visible' /\ focused')
    BY <2>1, <2>2, <2>3, <2>4
  <2>6. life # "closed"
    BY <2>2
  <2> QED BY <2>2, <2>3, <2>5, <2>6, CameBack
<1>2. CASE ShowEvent
  <2>1. PICK w \in BOOLEAN : w <=> visible' /\ focused'
    OBVIOUS
  <2>2. ComeBack(sdk.state, w) /\ UNCHANGED <<clock, watched>> /\ Show
    BY <1>2, <2>1 DEF ShowEvent
  <2>3. life \in {"open", "frozen"} /\ life' = "open" /\ ~Watched
    BY <2>2 DEF Watched, Show
  <2>4. life # "closed"
    BY <2>3
  <2> QED BY <2>1, <2>2, <2>3, <2>4, CameBack
<1> QED BY <1>1, <1>2

\* A navigation starts the page's time over; only the first may leave the heartbeat as it is.
LEMMA NavigateStops ==
  ASSUME StopwatchInv, Navigate
  PROVE  StopwatchInv'
<1>1. PICK resets \in {FALSE, ResetOnNavigation} :
       LET s == AddPageview(sdk.state, visit + 1, PageMs)
           hb == ResetPageActiveTime(sdk.hb, clock)
       IN /\ sdk' = [sdk EXCEPT !.state = s, !.debounce = TRUE,
                                !.hb = IF resets THEN StartHeartbeat(ResetHeartbeatState(hb, clock), clock)
                                                 ELSE hb]
          /\ Visit(Watched, IF IsFull(sdk.state) THEN {"back"} ELSE {})
  BY DEF Navigate
<1>2. /\ UNCHANGED <<clock, life, visible, focused>> /\ life = "open" /\ clock \in Int
      /\ HeartbeatOK(sdk.hb) /\ SdkTyped
  BY DEF Navigate, document, StopwatchInv, SdkTyped
<1>3. watched' = 0 /\ (marks' = {} => Watched)
  BY <1>1 DEF Visit
<1>4. PICK s, k, hb, z : /\ s = AddPageview(sdk.state, visit + 1, PageMs) /\ k = ResetPageActiveTime(sdk.hb, clock)
                       /\ hb = (IF resets THEN StartHeartbeat(ResetHeartbeatState(k, clock), clock) ELSE k)
                       /\ z = TRUE
  OBVIOUS
<1>5. sdk' = [sdk EXCEPT !.state = s, !.debounce = z, !.hb = hb]
  BY <1>1, <1>4
<1>6. SdkIs(sdk', hb, s, sdk.flushed, sdk.paused)
  <2>1. PICK a, b, c, d, e, f, g, h : sdk = SdkOf(a, b, c, d, e, f, g, h) /\ c = sdk.flushed /\ d = sdk.paused
    BY <1>2 DEF SdkTyped, SdkIs
  <2>2. sdk' = SdkOf(hb, s, c, d, z, f, g, h)
    BY <1>5, <2>1 DEF SdkOf
  <2> QED BY <2>1, <2>2, SdkMade
<1>7. /\ HeartbeatOK(k) /\ k.active = sdk.hb.active /\ k.timers = sdk.hb.timers /\ k.maxReached = sdk.hb.maxReached
      /\ k.pageStart = clock /\ k.pageActive = 0
  <2>1. PICK a, b, c, d, e, f, g, h, i : sdk.hb = HeartbeatOf(a, b, c, d, e, f, g, h, i)
    BY <1>2 DEF HeartbeatOK
  <2>2. /\ a \in BOOLEAN /\ f \in BOOLEAN /\ (f => ~a) /\ a = sdk.hb.active /\ h = sdk.hb.timers
        /\ f = sdk.hb.maxReached
    BY <1>2, <2>1 DEF HeartbeatOK, HeartbeatOf
  <2>3. PICK x : x = sdk.hb
    OBVIOUS
  <2>7. k = [x EXCEPT !.pageActive = 0, !.pageStart = clock]
    BY <1>4, <2>3 DEF ResetPageActiveTime
  <2>4. k = HeartbeatOf(a, b, clock, d, 0, f, g, h, i)
    <3>1. x = HeartbeatOf(a, b, c, d, e, f, g, h, i)
      BY <2>1, <2>3
    <3>2. PICK zero : zero = 0
      OBVIOUS
    <3>3. k = [x EXCEPT !.pageActive = zero, !.pageStart = clock]
      BY <2>7, <3>2
    <3>4. k = HeartbeatOf(a, b, clock, d, zero, f, g, h, i)
      BY <3>1, <3>3 DEF HeartbeatOf
    <3> QED BY <3>2, <3>4
  <2>5. HeartbeatOK(k)
    BY <1>2, <2>2, <2>4, HeartbeatMade
  <2>6. k.active = a /\ k.timers = h /\ k.maxReached = f /\ k.pageStart = clock /\ k.pageActive = 0
    BY <2>4 DEF HeartbeatOf
  <2> QED BY <2>2, <2>5, <2>6
<1>8. /\ HeartbeatOK(hb)
      /\ resets => (hb.active => hb.timers # {}) /\ (hb.maxReached \/ (hb.active /\ PageActive(hb, clock) = 0))
  <2>1. CASE resets
    <3>1. hb = StartHeartbeat(ResetHeartbeatState(k, clock), clock)
      BY <1>4, <2>1
    <3> QED BY <1>2, <3>1, ResetsHeartbeat
  <2>2. CASE ~resets
    BY <1>4, <1>7, <2>2
  <2> QED BY <2>1, <2>2
<1>9. SdkTyped' /\ sdk'.hb = hb /\ sdk'.paused = sdk.paused
  <2>1. clock' \in Nat /\ watched' \in Nat
    BY <1>2, <1>3 DEF SdkTyped
  <2> QED BY <1>6, <1>8, <2>1, Typed
<1>10. Watched' <=> Watched
  BY <1>2, <1>9 DEF Watched
<1>11. CASE resets
  BY <1>2, <1>3, <1>8, <1>9, <1>10, <1>11, Restarted
<1>12. CASE ~resets
  <2>1. hb = k
    BY <1>4, <1>12
  <2>2. PageActive(k, clock) = 0
    BY <1>2, <1>7, PageActiveIs
  <2>3. PageMs' = 0
    BY <1>2, <1>9, <2>1, <2>2 DEF PageMs, PageActive
  <2> QED BY <1>2, <1>3, <1>7, <1>9, <1>10, <2>1, <2>3 DEF StopwatchInv, PingsGoOn
<1> QED BY <1>11, <1>12

\* What is sent, answered or added leaves the stopwatch alone.
LEMMA SendsStop ==
  ASSUME StopwatchInv, DebouncedSend \/ TrackGoal \/ Answer
  PROVE  StopwatchInv'
<1>1. UNCHANGED <<clock, document, watched, marks>> /\ SdkTyped /\ HeartbeatOK(sdk.hb)
  BY DEF DebouncedSend, TrackGoal, Answer, history, StopwatchInv, SdkTyped
<1>2. PICK a, b, c, d, e, f, g, h : /\ sdk = SdkOf(a, b, c, d, e, f, g, h) /\ a = sdk.hb /\ b = sdk.state /\ c = sdk.flushed
                                    /\ d = sdk.paused /\ f = sdk.sends /\ g = sdk.goals
  BY <1>1 DEF SdkTyped, SdkIs
<1>3. \E s, fl : SdkIs(sdk', sdk.hb, s, fl, sdk.paused)
  <2>1. CASE DebouncedSend \/ TrackGoal
    <3>1. PICK new : /\ \/ new = [sdk EXCEPT !.debounce = FALSE, !.sends = @ + 1]
                        \/ new = [sdk EXCEPT !.state = AddGoal(@), !.debounce = FALSE, !.goals = @ + 1]
                     /\ SendPayload(new)
      BY <2>1 DEF DebouncedSend, TrackGoal
    <3>2. PICK t : SdkIs(new, sdk.hb, t, sdk.flushed, sdk.paused)
      BY <1>1, <3>1, SendersAre
    <3>3. PICK s : s = BuildPayload(t, PageActive(sdk.hb, clock))
      OBVIOUS
    <3> QED BY <3>1, <3>2, <3>3, SendIs
  <2>2. CASE Answer
    <3>1. \E n : sdk' = [sdk EXCEPT !.sends = n] \/ sdk' = [sdk EXCEPT !.goals = n]
      BY <2>2 DEF Answer
    <3>2. PICK n : sdk' = [sdk EXCEPT !.sends = n] \/ sdk' = [sdk EXCEPT !.goals = n]
      BY <3>1
    <3>3. sdk' = SdkOf(a, b, c, d, e, n, g, h) \/ sdk' = SdkOf(a, b, c, d, e, f, n, h)
      BY <1>2, <3>2 DEF SdkOf
    <3>4. SdkIs(sdk', a, b, c, d)
      BY <3>3, SdkMade
    <3> QED BY <1>2, <3>4
  <2> QED BY <2>1, <2>2
<1>4. SdkTyped' /\ sdk'.hb = sdk.hb /\ sdk'.paused = sdk.paused
  <2>1. PICK s, fl : SdkIs(sdk', sdk.hb, s, fl, sdk.paused)
    BY <1>3
  <2>2. clock' \in Nat /\ watched' \in Nat
    BY <1>1 DEF SdkTyped
  <2> QED BY <1>1, <2>1, <2>2, Typed
<1> QED BY <1>1, <1>4, Undisturbed

\* Pausing stops the heartbeat.
LEMMA PauseStops ==
  ASSUME StopwatchInv, Pause
  PROVE  StopwatchInv'
<1>1. /\ life = "open" /\ UNCHANGED <<clock, document, watched, marks>> /\ SdkTyped /\ HeartbeatOK(sdk.hb)
      /\ clock \in Int
  BY DEF Pause, history, StopwatchInv, SdkTyped
<1>2. PICK x, g, z : x = sdk.hb /\ g = StopAndKeep(x, clock) /\ z = TRUE
  OBVIOUS
<1>3. HeartbeatOK(g) /\ ~g.active /\ g.maxReached = x.maxReached /\ PageActive(g, clock) = PageActive(x, clock)
  BY <1>1, <1>2, Stops
<1>4. SdkIs(sdk', g, sdk.state, sdk.flushed, z)
  <2>1. sdk' = [sdk EXCEPT !.paused = z, !.hb = g]
    BY <1>2 DEF Pause
  <2>2. PICK a, b, c, d, e, f, i, h : /\ sdk = SdkOf(a, b, c, d, e, f, i, h) /\ b = sdk.state /\ c = sdk.flushed
    BY <1>1 DEF SdkTyped, SdkIs
  <2>3. sdk' = SdkOf(g, b, c, z, e, f, i, h)
    BY <2>1, <2>2 DEF SdkOf
  <2> QED BY <2>2, <2>3, SdkMade
<1>5. sdk'.hb = g /\ sdk'.paused = z /\ SdkTyped'
  BY <1>1, <1>2, <1>3, <1>4 DEF SdkTyped, SdkIs
<1>6. ~Watched' /\ PageMs' = PageActive(g, clock) /\ PageMs = PageActive(x, clock)
  BY <1>1, <1>2, <1>5 DEF Watched, PageMs, PageActive
<1>7. life' = "open"
  BY <1>1 DEF document
<1> QED BY <1>1, <1>2, <1>3, <1>5, <1>6, <1>7 DEF StopwatchInv, PingsGoOn

\* Resuming sets the stopwatch back.
LEMMA ResumeStops ==
  ASSUME StopwatchInv, Resume
  PROVE  StopwatchInv'
<1>1. /\ life = "open" /\ UNCHANGED <<clock, document, watched>> /\ SdkTyped /\ HeartbeatOK(sdk.hb)
      /\ clock \in Int /\ "back" \in marks'
  BY DEF Resume, StopwatchInv, SdkTyped, Disturbs
<1>8. PICK z \in BOOLEAN : z = FALSE
  OBVIOUS
<1>2. PICK x, g : x = sdk.hb /\ g = StartHeartbeat(ResetHeartbeatState(x, clock), clock)
  OBVIOUS
<1>3. HeartbeatOK(g) /\ (g.active => g.timers # {}) /\ (g.maxReached \/ (g.active /\ PageActive(g, clock) = 0))
  BY <1>1, <1>2, ResetsHeartbeat
<1>4. SdkIs(sdk', g, sdk.state, sdk.flushed, z)
  <2>1. sdk' = [sdk EXCEPT !.paused = z, !.hb = g]
    BY <1>2, <1>8 DEF Resume
  <2>2. PICK a, b, c, d, e, f, i, h : /\ sdk = SdkOf(a, b, c, d, e, f, i, h) /\ b = sdk.state /\ c = sdk.flushed
    BY <1>1 DEF SdkTyped, SdkIs
  <2>3. sdk' = SdkOf(g, b, c, z, e, f, i, h)
    BY <2>1, <2>2 DEF SdkOf
  <2> QED BY <2>2, <2>3, SdkMade
<1>5. sdk'.hb = g /\ sdk'.paused = z /\ SdkTyped'
  BY <1>1, <1>2, <1>3, <1>4 DEF SdkTyped, SdkIs
<1>7. life' = "open"
  BY <1>1 DEF document
<1> QED BY <1>1, <1>3, <1>5, <1>7, <1>8 DEF StopwatchInv, PingsGoOn

\* Another session.
LEMMA ResetStops ==
  ASSUME StopwatchInv, Reset
  PROVE  StopwatchInv'
<1>1. /\ life = "open" /\ UNCHANGED <<clock, document>> /\ SdkTyped /\ HeartbeatOK(sdk.hb)
      /\ clock \in Int
  BY DEF Reset, StopwatchInv, SdkTyped
<1>2. PICK s, more : /\ SendPayload([sdk EXCEPT !.state = s,
                                   !.hb = StartHeartbeat(ResetHeartbeatState(@, clock), clock),
                                   !.sends = @ + 1])
                     /\ Visit(Watched, more)
  BY DEF Reset
<1>3. PICK x, g, n : x = sdk.hb /\ g = StartHeartbeat(ResetHeartbeatState(x, clock), clock) /\ n = sdk.sends + 1
  OBVIOUS
<1>4. HeartbeatOK(g) /\ (g.active => g.timers # {}) /\ (g.maxReached \/ (g.active /\ PageActive(g, clock) = 0))
  BY <1>1, <1>3, ResetsHeartbeat
<1>5. PICK new : new = [sdk EXCEPT !.state = s, !.hb = g, !.sends = n]
  OBVIOUS
<1>6. SdkIs(new, g, s, sdk.flushed, sdk.paused)
  <2>2. PICK a, b, c, d, e, f, i, h : /\ sdk = SdkOf(a, b, c, d, e, f, i, h) /\ c = sdk.flushed /\ d = sdk.paused
    BY <1>1 DEF SdkTyped, SdkIs
  <2>3. new = SdkOf(g, s, c, d, e, n, i, h)
    BY <1>5, <2>2 DEF SdkOf
  <2> QED BY <2>2, <2>3, SdkMade
<1>7. PICK t : t = BuildPayload(s, PageActive(g, clock))
  OBVIOUS
<1>8. SdkIs(sdk', g, t, sdk.flushed, sdk.paused)
  <2>1. SendPayload(new)
    BY <1>2, <1>3, <1>5
  <2> QED BY <2>1, <1>6, <1>7, SendIs
<1>9. watched' = 0 /\ (marks' = {} => Watched)
  BY <1>2 DEF Visit
<1>10. SdkTyped' /\ sdk'.hb = g /\ sdk'.paused = sdk.paused
  <2>1. clock' \in Nat /\ watched' \in Nat
    BY <1>1, <1>9 DEF SdkTyped
  <2> QED BY <1>4, <1>8, <2>1, Typed
<1>11. (Watched' <=> Watched) /\ life' = "open"
  BY <1>1, <1>10 DEF Watched, document
<1> QED BY <1>1, <1>4, <1>9, <1>10, <1>11, Restarted

\* A timer that fires: a payload and the next timer, or nothing at all.
LEMMA Pings ==
  ASSUME SdkTyped, Ping
  PROVE  \/ \E k, new : /\ SendPayload(new) /\ SdkIs(new, k, sdk.state, sdk.flushed, sdk.paused) /\ HeartbeatOK(k)
                        /\ k.active => k.timers # {}
                        /\ PageActive(k, clock) = PageMs
                        /\ k.maxReached \/ (k.active = sdk.hb.active /\ k.maxReached = sdk.hb.maxReached)
         \/ \E h : /\ sent' = sent /\ SdkIs(sdk', h, sdk.state, sdk.flushed, sdk.paused) /\ HeartbeatOK(h)
                  /\ ~(h.active /\ visible /\ ~sdk.paused)
                  /\ PageActive(h, clock) = PageMs
                  /\ h.active = sdk.hb.active /\ h.maxReached = sdk.hb.maxReached
<1>1. HeartbeatOK(sdk.hb) /\ clock \in Int
  BY DEF SdkTyped
<1>2. PICK x \in sdk.hb.timers :
       LET hb == [sdk.hb EXCEPT !.timers = @ \ {x}, !.handle = IF @ = x.n THEN 0 ELSE @]
       IN IF hb.active /\ visible /\ ~sdk.paused
             THEN SendPayload([sdk EXCEPT !.sends = @ + 1,
                     !.hb = ScheduleNextHeartbeat([hb EXCEPT !.lastPing = clock], clock)])
             ELSE sdk' = [sdk EXCEPT !.hb = hb] /\ UNCHANGED sent
  BY DEF Ping
<1>3. PICK k, h, l : /\ h = [sdk.hb EXCEPT !.timers = @ \ {x}, !.handle = IF @ = x.n THEN 0 ELSE @]
                      /\ l = [h EXCEPT !.lastPing = clock]
                      /\ k = ScheduleNextHeartbeat(l, clock)
  OBVIOUS
<1>4. IF h.active /\ visible /\ ~sdk.paused THEN SendPayload([sdk EXCEPT !.sends = @ + 1, !.hb = k])
                                              ELSE sdk' = [sdk EXCEPT !.hb = h] /\ UNCHANGED sent
  BY <1>2, <1>3
<1>5. PICK a, b, c, d, e, f, i, m, o, y : /\ y = sdk.hb /\ y = HeartbeatOf(a, b, c, d, e, f, i, m, o)
  BY <1>1 DEF HeartbeatOK
<1>6. /\ a \in BOOLEAN /\ c \in Int /\ e \in Int /\ f \in BOOLEAN /\ (f => ~a) /\ a = sdk.hb.active
      /\ c = sdk.hb.pageStart /\ e = sdk.hb.pageActive /\ f = sdk.hb.maxReached
  BY <1>1, <1>5 DEF HeartbeatOK, HeartbeatOf
<1>7. /\ HeartbeatOK(h) /\ h.active = sdk.hb.active /\ h.maxReached = sdk.hb.maxReached /\ PageActive(h, clock) = PageMs
      /\ HeartbeatOK(l) /\ l.active = sdk.hb.active /\ l.maxReached = sdk.hb.maxReached /\ PageActive(l, clock) = PageMs
  <2>1. PICK q, r : q = y.timers \ {x} /\ r = (IF y.handle = x.n THEN 0 ELSE y.handle)
    OBVIOUS
  <2>2. h = [y EXCEPT !.timers = q, !.handle = r]
    BY <1>3, <1>5, <2>1
  <2>9. y = HeartbeatOf(a, b, c, d, e, f, i, m, o)
    BY <1>5
  <2>3. h = HeartbeatOf(a, b, c, d, e, f, i, q, r)
    BY <2>2, <2>9 DEF HeartbeatOf
  <2>4. l = [h EXCEPT !.lastPing = clock]
    BY <1>3
  <2>5. l = HeartbeatOf(a, b, c, d, e, f, clock, q, r)
    BY <2>3, <2>4 DEF HeartbeatOf
  <2>6. HeartbeatOK(h) /\ HeartbeatOK(l)
    BY <1>6, <2>3, <2>5, HeartbeatMade
  <2>7. h.active = a /\ h.pageStart = c /\ h.pageActive = e /\ h.maxReached = f
    BY <2>3 DEF HeartbeatOf
  <2>8. l.active = a /\ l.pageStart = c /\ l.pageActive = e /\ l.maxReached = f
    BY <2>5 DEF HeartbeatOf
  <2> QED BY <1>6, <2>6, <2>7, <2>8 DEF PageMs, PageActive
<1>8. PICK a1, b1, c1, d1, e1, f1, i1, h1 : /\ sdk = SdkOf(a1, b1, c1, d1, e1, f1, i1, h1) /\ b1 = sdk.state
                                            /\ c1 = sdk.flushed /\ d1 = sdk.paused
  BY DEF SdkTyped, SdkIs
<1>9. CASE h.active /\ visible /\ ~sdk.paused
  <2>1. PICK new, n : n = sdk.sends + 1 /\ new = [sdk EXCEPT !.sends = n, !.hb = k]
    OBVIOUS
  <2>2. SendPayload(new)
    BY <1>4, <1>9, <2>1
  <2>3. new = SdkOf(k, b1, c1, d1, e1, n, i1, h1)
    BY <1>8, <2>1 DEF SdkOf
  <2>4. SdkIs(new, k, sdk.state, sdk.flushed, sdk.paused)
    BY <1>8, <2>3, SdkMade
  <2>5. /\ HeartbeatOK(k) /\ (k.active => k.timers # {}) /\ PageActive(k, clock) = PageActive(l, clock)
        /\ k.maxReached \/ (k.active = l.active /\ k.maxReached = l.maxReached)
    <3>1. k = ScheduleNextHeartbeat(l, clock) /\ HeartbeatOK(l)
      BY <1>3, <1>7
    <3> QED BY <1>1, <3>1, Schedules
  <2>6. PageActive(k, clock) = PageMs /\ (k.maxReached \/ (k.active = sdk.hb.active /\ k.maxReached = sdk.hb.maxReached))
    BY <1>7, <2>5
  <2> QED BY <2>2, <2>4, <2>5, <2>6
<1>10. CASE ~(h.active /\ visible /\ ~sdk.paused)
  <2>1. sdk' = [sdk EXCEPT !.hb = h] /\ sent' = sent
    BY <1>4, <1>10
  <2>2. sdk' = SdkOf(h, b1, c1, d1, e1, f1, i1, h1)
    BY <1>8, <2>1 DEF SdkOf
  <2>3. SdkIs(sdk', h, sdk.state, sdk.flushed, sdk.paused)
    BY <1>8, <2>2, SdkMade
  <2> QED BY <1>7, <1>10, <2>1, <2>3
<1> QED BY <1>9, <1>10

\* A timer that fires leaves the stopwatch alone.
LEMMA PingStops ==
  ASSUME StopwatchInv, Ping
  PROVE  StopwatchInv'
<1>1. /\ life = "open" /\ UNCHANGED <<clock, document, watched, marks>> /\ SdkTyped
      /\ clock' \in Nat /\ watched' \in Nat
  BY DEF Ping, history, StopwatchInv, SdkTyped
<1>2. CASE \E k, new : /\ SendPayload(new) /\ SdkIs(new, k, sdk.state, sdk.flushed, sdk.paused) /\ HeartbeatOK(k)
                       /\ k.active => k.timers # {}
                       /\ PageActive(k, clock) = PageMs
                       /\ k.maxReached \/ (k.active = sdk.hb.active /\ k.maxReached = sdk.hb.maxReached)
  <2>1. PICK k, new : /\ SendPayload(new) /\ SdkIs(new, k, sdk.state, sdk.flushed, sdk.paused) /\ HeartbeatOK(k)
                      /\ k.active => k.timers # {}
                      /\ PageActive(k, clock) = PageMs
                      /\ k.maxReached \/ (k.active = sdk.hb.active /\ k.maxReached = sdk.hb.maxReached)
    BY <1>2
  <2>2. PICK t : t = BuildPayload(sdk.state, PageActive(k, clock))
    OBVIOUS
  <2>3. SdkIs(sdk', k, t, sdk.flushed, sdk.paused)
    BY <2>1, <2>2, SendIs
  <2>4. SdkTyped' /\ sdk'.hb = k /\ sdk'.paused = sdk.paused
    BY <1>1, <2>1, <2>3, Typed
  <2>5. (Watched' <=> Watched) /\ life' = "open" /\ PageMs' = PageMs
    BY <1>1, <2>1, <2>4 DEF Watched, document, PageMs, PageActive
  <2> QED BY <1>1, <2>1, <2>4, <2>5 DEF StopwatchInv, PingsGoOn
<1>3. CASE \E h : /\ sent' = sent /\ SdkIs(sdk', h, sdk.state, sdk.flushed, sdk.paused) /\ HeartbeatOK(h)
                  /\ ~(h.active /\ visible /\ ~sdk.paused)
                  /\ PageActive(h, clock) = PageMs
                  /\ h.active = sdk.hb.active /\ h.maxReached = sdk.hb.maxReached
  <2>1. PICK h : /\ SdkIs(sdk', h, sdk.state, sdk.flushed, sdk.paused) /\ HeartbeatOK(h)
                 /\ ~(h.active /\ visible /\ ~sdk.paused)
                 /\ PageActive(h, clock) = PageMs
                 /\ h.active = sdk.hb.active /\ h.maxReached = sdk.hb.maxReached
    BY <1>3
  <2>2. SdkTyped' /\ sdk'.hb = h /\ sdk'.paused = sdk.paused
    BY <1>1, <2>1, Typed
  <2>3. (Watched' <=> Watched) /\ life' = "open" /\ visible' = visible /\ PageMs' = PageMs
    BY <1>1, <2>1, <2>2 DEF Watched, document, PageMs, PageActive
  <2> QED BY <1>1, <2>1, <2>2, <2>3 DEF StopwatchInv, PingsGoOn
<1> QED BY <1>1, <1>2, <1>3, Pings

\* A tick.
LEMMA TickStops ==
  ASSUME StopwatchInv, Tick
  PROVE  StopwatchInv'
<1>1. /\ clock' = clock + 1 /\ watched' = watched + (IF Watched THEN 1 ELSE 0) /\ UNCHANGED <<life, visible, focused, sdk, marks>>
      /\ SdkTyped /\ HeartbeatOK(sdk.hb)
  BY DEF Tick, document, StopwatchInv, SdkTyped
<1>2. SdkTyped' /\ (Watched' <=> Watched)
  BY <1>1 DEF SdkTyped, SdkIs, Watched
<1>3. PageMs' = PageMs + (IF sdk.hb.active THEN 1 ELSE 0)
  BY <1>1 DEF PageMs, PageActive, HeartbeatOK, SdkTyped
<1> QED BY <1>1, <1>2, <1>3 DEF StopwatchInv, PingsGoOn

\* It shows nothing before a page is loaded.
LEMMA StopwatchStarts ==
  ASSUME Init
  PROVE  StopwatchInv
<1>1. SdkIs(sdk, Off, Empty(Linked), FALSE, FALSE) /\ HeartbeatOK(Off)
  BY SdkUnused DEF Init
<1>2. clock \in Nat /\ watched \in Nat /\ life = "closed"
  BY DEF Init
<1>3. SdkTyped
  BY <1>1, <1>2 DEF SdkTyped, SdkIs
<1> QED BY <1>2, <1>3 DEF StopwatchInv, PingsGoOn, Watched

\* Every handler keeps it.
LEMMA StopwatchKeeps ==
  ASSUME StopwatchInv, [Next]_vars
  PROVE  StopwatchInv'
<1>1. CASE UNCHANGED vars
  BY <1>1 DEF vars, document, history, StopwatchInv, SdkTyped, SdkIs, PingsGoOn, Watched, PageMs, PageActive
<1>2. CASE Next
  BY <1>2, LoadStops, LeaveStops, CrashStops, HideStops, ShowsStop, BeforeUnloadStops, NavigateStops, SendsStop,
     PauseStops, ResumeStops, ResetStops, PingStops, TickStops DEF Next
<1> QED BY <1>1, <1>2

\* The stopwatch shows the time for which the page was visible and focused (the code of
\* sdk.ts), whatever the tiers and the limit are.
THEOREM StopwatchStaysRight == Spec => []StopwatchIsRight
<1>1. Init => StopwatchInv
  BY StopwatchStarts
<1>2. StopwatchInv /\ [Next]_vars => StopwatchInv'
  BY StopwatchKeeps
<1>3. StopwatchInv => StopwatchIsRight
  BY DEF StopwatchInv, StopwatchIsRight, ExactUntilDisturbed
<1> QED BY <1>1, <1>2, <1>3, PTL DEF Spec


\* Every bounded set of naturals that has a member has a greatest one: the intervals from its members
\* to the bound are well founded.
LEMMA GreatestNatural ==
  ASSUME NEW n \in Nat, NEW S \in SUBSET (0..n), S # {}
  PROVE  \E m \in S : \A x \in S : x <= m
<1> DEFINE F == {m..n : m \in S}
<1>1. IsWellFoundedOn(StrictSubsetOrdering(0..n), FiniteSubsetsOf(0..n))
  BY FS_StrictSubsetOrderingWellFounded
<1>2. F \subseteq FiniteSubsetsOf(0..n)
  <2> SUFFICES ASSUME NEW m \in S PROVE m..n \in FiniteSubsetsOf(0..n)
    OBVIOUS
  <2>1. m \in Int /\ n \in Int /\ 0 <= m
    OBVIOUS
  <2>2. IsFiniteSet(m..n)
    BY <2>1, FS_Interval
  <2>3. m..n \subseteq 0..n
    BY <2>1
  <2>. QED  BY <2>2, <2>3 DEF FiniteSubsetsOf
<1>3. F # {}
  OBVIOUS
<1>4. \E A \in F : \A B \in F : ~(<<B, A>> \in StrictSubsetOrdering(0..n))
  <2> HIDE DEF F
  <2>. QED  BY <1>1, <1>2, <1>3, WFMin
<1>5. PICK m \in S : \A B \in F : ~(<<B, m..n>> \in StrictSubsetOrdering(0..n))
  BY <1>4
<1>6. ASSUME NEW x \in S, m < x PROVE FALSE
  <2>1. x \in Int /\ m \in Int /\ n \in Int /\ 0 <= m /\ m <= n
    OBVIOUS
  <2>2. x..n \in F
    OBVIOUS
  <2>3. /\ x..n \in SUBSET (0..n) /\ m..n \in SUBSET (0..n)
        /\ x..n \subseteq m..n
    BY <1>6, <2>1
  <2>4. m \in m..n /\ m \notin x..n
    BY <1>6, <2>1
  <2>5. <<x..n, m..n>> \in StrictSubsetOrdering(0..n)
    BY <2>3, <2>4 DEF StrictSubsetOrdering
  <2>. QED  BY <1>5, <2>2, <2>5
<1>. QED  BY <1>6

-----------------------------------------------------------------------------
(* The session state. *)

Kind == {"pageview", "goal"}
Action == [type : Kind, page : Nat, visit : Nat, duration : Int]

ActionOf(t, p, v, d) == [type |-> t, page |-> p, visit |-> v, duration |-> d]
StateOf(x, a, c) == [session |-> x, actions |-> a, current |-> c]

\* Pages are numbered up to the number of actions, and no two have the same number.
StateOK(s) ==
  /\ s = StateOf(s.session, s.actions, s.current)
  /\ s.session \in Nat /\ s.actions \in Seq(Action) /\ s.current \in 0..Len(s.actions)
  /\ \A i \in DOMAIN s.actions : s.actions[i].page <= Len(s.actions)
  /\ \A i, j \in DOMAIN s.actions :
       s.actions[i].type = "pageview" /\ s.actions[j].type = "pageview" /\ s.actions[i].page = s.actions[j].page => i = j
  /\ s.current # 0 => s.actions[s.current].type = "pageview"

\* The same actions, with ms as the duration of the current page.
Updates(t, s, ms) ==
  /\ StateOK(t) /\ t.session = s.session /\ Len(t.actions) = Len(s.actions)
  /\ \A i \in DOMAIN s.actions :
       /\ t.actions[i].type = s.actions[i].type /\ t.actions[i].page = s.actions[i].page
       /\ t.actions[i].visit = s.actions[i].visit
       /\ t.actions[i].duration = IF i = s.current THEN ms ELSE s.actions[i].duration

\* The fields of an action.
LEMMA ActionIs ==
  ASSUME NEW t \in Kind, NEW p \in Nat, NEW v \in Nat, NEW d \in Int, NEW a, a = ActionOf(t, p, v, d)
  PROVE  a \in Action /\ a.type = t /\ a.page = p /\ a.visit = v /\ a.duration = d
BY DEF ActionOf, Action

\* An action has these fields.
LEMMA ActionHas ==
  ASSUME NEW a \in Action
  PROVE  /\ a = ActionOf(a.type, a.page, a.visit, a.duration)
         /\ a.type \in Kind /\ a.page \in Nat /\ a.visit \in Nat /\ a.duration \in Int
BY DEF ActionOf, Action

\* The fields of a state.
LEMMA StateIs ==
  ASSUME NEW x, NEW a, NEW c, NEW s, s = StateOf(x, a, c)
  PROVE  s.session = x /\ s.actions = a /\ s.current = c
BY DEF StateOf

\* A session with no actions.
LEMMA EmptyIs ==
  ASSUME NEW x \in Nat, NEW e, e = Empty(x)
  PROVE  StateOK(e) /\ e.session = x /\ e.current = 0 /\ DOMAIN e.actions = {} /\ Len(e.actions) = 0
<1>1. PICK z : z = <<>>
  OBVIOUS
<1>2. e = StateOf(x, z, 0)
  BY <1>1 DEF Empty, StateOf
<1>3. e.session = x /\ e.actions = z /\ e.current = 0
  BY <1>2, StateIs
<1>4. z \in Seq(Action) /\ Len(z) = 0 /\ DOMAIN z = {}
  BY <1>1
<1>5. e = StateOf(e.session, e.actions, e.current)
  BY <1>2, <1>3
<1> QED BY <1>3, <1>4, <1>5 DEF StateOK

\* buildPayload.
LEMMA Builds ==
  ASSUME NEW s, StateOK(s), NEW ms \in Int, NEW t, t = BuildPayload(s, ms)
  PROVE  Updates(t, s, ms) /\ t.current = s.current
<1>1. PICK x, a, c : s = StateOf(x, a, c)
  BY DEF StateOK
<1>2. s.session = x /\ s.actions = a /\ s.current = c
  BY <1>1, StateIs
<1>3. x \in Nat /\ a \in Seq(Action) /\ c \in 0..Len(a) /\ Len(a) \in Nat /\ DOMAIN a = 1..Len(a)
  BY <1>2 DEF StateOK
<1>4. CASE c = 0
  <2>1. t = s
    BY <1>2, <1>4 DEF BuildPayload
  <2>2. \A i \in DOMAIN a : i # c
    BY <1>3, <1>4
  <2> QED BY <1>2, <2>1, <2>2 DEF Updates
<1>5. CASE c # 0
  <2>1. c \in DOMAIN a /\ a[c] \in Action
    BY <1>3, <1>5
  <2>2. PICK e : e = [a[c] EXCEPT !.duration = ms]
    OBVIOUS
  <2>3. PICK b : b = [a EXCEPT ![c] = e]
    OBVIOUS
  <2>4. t = [s EXCEPT !.actions = b]
    BY <1>2, <1>5, <2>2, <2>3 DEF BuildPayload
  <2>5. t = StateOf(x, b, c)
    BY <1>1, <2>4 DEF StateOf
  <2>6. /\ e \in Action /\ e.type = a[c].type /\ e.page = a[c].page /\ e.visit = a[c].visit /\ e.duration = ms
    <3>1. PICK g : g = a[c]
      OBVIOUS
    <3>2. g = ActionOf(g.type, g.page, g.visit, g.duration) /\ g.type \in Kind /\ g.page \in Nat /\ g.visit \in Nat
      BY <2>1, <3>1, ActionHas
    <3>3. e = [g EXCEPT !.duration = ms]
      BY <2>2, <3>1
    <3>4. e = ActionOf(g.type, g.page, g.visit, ms)
      BY <3>2, <3>3 DEF ActionOf
    <3> QED BY <3>1, <3>2, <3>4, ActionIs
  <2>7. b \in Seq(Action) /\ Len(b) = Len(a) /\ \A i \in DOMAIN a : b[i] = IF i = c THEN e ELSE a[i]
    BY <1>3, <2>1, <2>3, <2>6
  <2>8. t.session = x /\ t.actions = b /\ t.current = c
    BY <2>5, StateIs
  <2>9. \A i \in DOMAIN a : /\ b[i].type = a[i].type /\ b[i].page = a[i].page /\ b[i].visit = a[i].visit
                            /\ b[i].duration = IF i = c THEN ms ELSE a[i].duration
    BY <2>6, <2>7
  <2>10. DOMAIN b = DOMAIN a
    BY <1>3, <2>7
  <2>11. StateOK(t)
    <3>1. \A i \in DOMAIN a : a[i].page <= Len(a)
      BY <1>2 DEF StateOK
    <3>2. \A i, j \in DOMAIN a : a[i].type = "pageview" /\ a[j].type = "pageview" /\ a[i].page = a[j].page => i = j
      BY <1>2 DEF StateOK
    <3>3. \A i \in DOMAIN b : b[i].page <= Len(b)
      BY <2>7, <2>9, <2>10, <3>1
    <3>4. \A i, j \in DOMAIN b : b[i].type = "pageview" /\ b[j].type = "pageview" /\ b[i].page = b[j].page => i = j
      BY <2>9, <2>10, <3>2
    <3>5. b[c].type = "pageview"
      BY <1>2, <1>5, <2>1, <2>9 DEF StateOK
    <3> QED BY <1>3, <2>5, <2>7, <2>8, <3>3, <3>4, <3>5 DEF StateOK
  <2> QED BY <1>2, <2>7, <2>8, <2>9, <2>11 DEF Updates
<1> QED BY <1>4, <1>5

\* finalizeForUnload, after which no page is current.
LEMMA Finalizes ==
  ASSUME NEW s, StateOK(s), NEW ms \in Int, NEW t, t = FinalizeForUnload(s, ms)
  PROVE  Updates(t, s, ms) /\ t.current = 0
<1>1. PICK u : u = BuildPayload(s, ms)
  OBVIOUS
<1>2. Updates(u, s, ms)
  BY <1>1, Builds
<1>3. PICK x, a, c : u = StateOf(x, a, c)
  BY <1>2 DEF Updates, StateOK
<1>4. u.session = x /\ u.actions = a /\ u.current = c
  BY <1>3, StateIs
<1>5. t = [u EXCEPT !.current = 0]
  BY <1>1 DEF FinalizeForUnload
<1>6. t = StateOf(x, a, 0)
  BY <1>3, <1>5 DEF StateOf
<1>7. t.session = x /\ t.actions = a /\ t.current = 0
  BY <1>6, StateIs
<1>8. StateOK(t)
  BY <1>2, <1>4, <1>6, <1>7 DEF Updates, StateOK
<1> QED BY <1>2, <1>4, <1>7, <1>8 DEF Updates

\* getNextPageNumber: a number that no action has, and not beyond the next action.
LEMMA NextIs ==
  ASSUME NEW s, StateOK(s), NEW n, n = NextNumber(s)
  PROVE  n \in Nat /\ n <= Len(s.actions) + 1 /\ \A i \in DOMAIN s.actions : s.actions[i].page < n
<1>1. PICK S : S = Numbers(s) \cup {0}
  OBVIOUS
<1>2. Len(s.actions) \in Nat /\ \A i \in DOMAIN s.actions : s.actions[i].page \in Nat /\ s.actions[i].page <= Len(s.actions)
  BY ActionHas DEF StateOK
<1>3. S \in SUBSET (0..Len(s.actions)) /\ 0 \in S
  BY <1>1, <1>2 DEF Numbers
<1>4. PICK m \in S : \A x \in S : x <= m
  BY <1>2, <1>3, GreatestNatural
<1>8. PICK h : h = Max(S)
  OBVIOUS
<1>5. h \in S /\ \A x \in S : h >= x
  <2>1. \A x \in S : m >= x
    BY <1>3, <1>4
  <2> QED BY <1>8, <2>1 DEF Max
<1>6. n = h + 1
  BY <1>1, <1>8 DEF NextNumber
<1>7. \A i \in DOMAIN s.actions : s.actions[i].page \in S
  BY <1>1 DEF Numbers
<1> QED BY <1>2, <1>3, <1>5, <1>6, <1>7

\* What an appended action leaves of a state.
LEMMA Appends ==
  ASSUME NEW s, StateOK(s), NEW e \in Action, e.page <= Len(s.actions) + 1,
         e.type = "pageview" => \A i \in DOMAIN s.actions : s.actions[i].page < e.page,
         NEW c \in 0..(Len(s.actions) + 1),
         c # 0 => (IF c = Len(s.actions) + 1 THEN e ELSE s.actions[c]).type = "pageview",
         NEW t, t = StateOf(s.session, Append(s.actions, e), c)
  PROVE  /\ StateOK(t) /\ t.session = s.session /\ t.current = c /\ Len(t.actions) = Len(s.actions) + 1
         /\ \A i \in DOMAIN s.actions : t.actions[i] = s.actions[i]
         /\ t.actions[Len(s.actions) + 1] = e
<1>1. PICK a : a = s.actions
  OBVIOUS
<1>2. PICK b : b = Append(a, e)
  OBVIOUS
<1>3. a \in Seq(Action) /\ Len(a) \in Nat /\ DOMAIN a = 1..Len(a) /\ s.session \in Nat
  BY <1>1 DEF StateOK
<1>4. /\ b \in Seq(Action) /\ Len(b) = Len(a) + 1 /\ DOMAIN b = 1..(Len(a) + 1)
      /\ \A i \in DOMAIN a : b[i] = a[i]
      /\ b[Len(a) + 1] = e
  BY <1>2, <1>3
<1>5. t.session = s.session /\ t.actions = b /\ t.current = c
  <2>1. t = StateOf(s.session, b, c)
    BY <1>1, <1>2
  <2> QED BY <2>1, StateIs
<1>6. \A i \in DOMAIN b : i \in DOMAIN a \/ i = Len(a) + 1
  BY <1>3, <1>4
<1>7. \A i \in DOMAIN a : a[i].page \in Nat /\ a[i].page <= Len(a)
  <2>1. \A i \in DOMAIN a : a[i] \in Action /\ a[i].page <= Len(a)
    BY <1>1, <1>3 DEF StateOK
  <2> QED BY <2>1, ActionHas
<1>8. e.page \in Nat
  BY ActionHas
<1>9. \A i \in DOMAIN b : b[i].page <= Len(b)
  BY <1>1, <1>3, <1>4, <1>6, <1>7, <1>8
<1>10. \A i, j \in DOMAIN b : b[i].type = "pageview" /\ b[j].type = "pageview" /\ b[i].page = b[j].page => i = j
  <2>1. \A i, j \in DOMAIN a : a[i].type = "pageview" /\ a[j].type = "pageview" /\ a[i].page = a[j].page => i = j
    BY <1>1 DEF StateOK
  <2>2. e.type = "pageview" => \A i \in DOMAIN a : a[i].page # e.page
    BY <1>1, <1>7, <1>8
  <2> QED BY <1>4, <1>6, <2>1, <2>2
<1>11. c # 0 => b[c].type = "pageview"
  BY <1>1, <1>3, <1>4
<1>12. c \in 0..Len(b)
  BY <1>1, <1>4
<1>13. t = StateOf(t.session, t.actions, t.current)
  BY <1>1, <1>2, <1>5
<1>14. StateOK(t)
  BY <1>3, <1>4, <1>5, <1>9, <1>10, <1>11, <1>12, <1>13 DEF StateOK
<1> QED BY <1>1, <1>4, <1>5, <1>14

\* addPageview: another page, with a number of its own, and the one before it brought up to date.
LEMMA AddsPageview ==
  ASSUME NEW s, StateOK(s), ~IsFull(s), NEW v \in Nat, NEW ms \in Int, NEW t, t = AddPageview(s, v, ms)
  PROVE  \E u : /\ Updates(u, s, ms)
                /\ StateOK(t) /\ t.session = s.session /\ Len(t.actions) = Len(s.actions) + 1
                /\ t.current = Len(s.actions) + 1
                /\ \A i \in DOMAIN s.actions : t.actions[i] = u.actions[i] /\ u.actions[i].page < t.actions[t.current].page
<1>1. PICK u : u = BuildPayload(s, ms)
  OBVIOUS
<1>2. Updates(u, s, ms)
  BY <1>1, Builds
<1>3. PICK x, a, d : u = StateOf(x, a, d)
  BY <1>2 DEF Updates, StateOK
<1>4. u.session = x /\ u.actions = a /\ u.current = d
  BY <1>3, StateIs
<1>5. PICK n, z, e, y : /\ n = NextNumber(s) /\ z = 0 /\ y = "pageview"
                     /\ e = [type |-> y, page |-> n, visit |-> v, duration |-> z]
  OBVIOUS
<1>6. n \in Nat /\ n <= Len(s.actions) + 1 /\ \A i \in DOMAIN s.actions : s.actions[i].page < n
  BY <1>5, NextIs
<1>7. e = ActionOf(y, n, v, z)
  BY <1>5 DEF ActionOf
<1>8. e \in Action /\ e.type = "pageview" /\ e.page = n
  BY <1>5, <1>6, <1>7, ActionIs DEF Kind
<1>9. Len(s.actions) \in Nat /\ DOMAIN s.actions = 1..Len(s.actions) /\ Len(a) = Len(s.actions) /\ DOMAIN a = 1..Len(a)
  BY <1>2, <1>4 DEF Updates, StateOK
<1>10. PICK c : c = Len(s.actions) + 1
  OBVIOUS
<1>11. t = [u EXCEPT !.actions = Append(@, e), !.current = c]
  BY <1>1, <1>5, <1>10 DEF AddPageview
<1>12. t = StateOf(x, Append(a, e), c)
  BY <1>3, <1>11 DEF StateOf
<1>13. \A i \in DOMAIN a : a[i].page < n
  BY <1>2, <1>4, <1>6, <1>9 DEF Updates
<1>14. /\ StateOK(t) /\ t.session = u.session /\ t.current = c /\ Len(t.actions) = Len(u.actions) + 1
       /\ \A i \in DOMAIN u.actions : t.actions[i] = u.actions[i]
       /\ t.actions[Len(u.actions) + 1] = e
  <2>1. StateOK(u)
    BY <1>2 DEF Updates
  <2>2. t = StateOf(u.session, Append(u.actions, e), c)
    BY <1>4, <1>12
  <2>3. c \in 0..(Len(u.actions) + 1) /\ c = Len(u.actions) + 1 /\ e.page <= Len(u.actions) + 1
    BY <1>4, <1>6, <1>8, <1>9, <1>10
  <2>4. \A i \in DOMAIN u.actions : u.actions[i].page < e.page
    BY <1>4, <1>8, <1>13
  <2> QED BY <1>8, <2>1, <2>2, <2>3, <2>4, Appends
<1> QED BY <1>2, <1>4, <1>8, <1>9, <1>10, <1>13, <1>14 DEF Updates

\* addGoal: another goal.
LEMMA AddsGoal ==
  ASSUME NEW s, StateOK(s), ~IsFull(s), NEW t, t = AddGoal(s)
  PROVE  /\ StateOK(t) /\ t.session = s.session /\ t.current = s.current /\ Len(t.actions) = Len(s.actions) + 1
         /\ \A i \in DOMAIN s.actions : t.actions[i] = s.actions[i]
         /\ t.actions[Len(s.actions) + 1].type # "pageview"
<1>1. PICK x, a, c : s = StateOf(x, a, c)
  BY DEF StateOK
<1>2. s.session = x /\ s.actions = a /\ s.current = c
  BY <1>1, StateIs
<1>3. x \in Nat /\ a \in Seq(Action) /\ c \in 0..Len(a) /\ Len(a) \in Nat /\ DOMAIN a = 1..Len(a)
  BY <1>2 DEF StateOK
<1>4. PICK n, z, e, y : /\ n = (IF s.current = 0 THEN 1 ELSE s.actions[s.current].page) /\ z = 0 /\ y = "goal"
                        /\ e = [type |-> y, duration |-> z, visit |-> z, page |-> n]
  OBVIOUS
<1>5. n \in Nat /\ n <= Len(a) + 1
  <2>1. CASE c = 0
    BY <1>2, <1>3, <1>4, <2>1
  <2>2. CASE c # 0
    <3>1. c \in DOMAIN a /\ n = a[c].page
      BY <1>2, <1>3, <1>4, <2>2
    <3>2. a[c] \in Action /\ a[c].page <= Len(a)
      BY <1>2, <1>3, <3>1 DEF StateOK
    <3>3. a[c].page \in Nat
      BY <3>2, ActionHas
    <3> QED BY <1>3, <3>1, <3>2, <3>3
  <2> QED BY <2>1, <2>2
<1>6. e = ActionOf(y, n, z, z)
  BY <1>4 DEF ActionOf
<1>7. e \in Action /\ e.type = y /\ y # "pageview" /\ e.page = n
  BY <1>4, <1>5, <1>6, ActionIs DEF Kind
<1>8. t = [s EXCEPT !.actions = Append(@, e)]
  BY <1>4 DEF AddGoal
<1>9. t = StateOf(x, Append(a, e), c)
  BY <1>1, <1>8 DEF StateOf
<1>10. t = StateOf(s.session, Append(s.actions, e), c)
  BY <1>2, <1>9
<1>11. c \in 0..(Len(s.actions) + 1) /\ c # Len(s.actions) + 1 /\ e.page <= Len(s.actions) + 1
  BY <1>2, <1>3, <1>5, <1>7
<1>12. c # 0 => s.actions[c].type = "pageview"
  BY <1>2 DEF StateOK
<1> QED BY <1>2, <1>7, <1>10, <1>11, <1>12, Appends

-----------------------------------------------------------------------------
(* What the server has, against what the tab and its storage say. *)

\* What a step does to the pages that the server has: the value of Receive.
ReceiveOf(snt, s) ==
  LET rows(k) == {a \in PageActions(s) : k = <<s.session, a.page>>}
  IN [k \in DOMAIN snt \cup {<<s.session, a.page>> : a \in PageActions(s)} |->
        IF rows(k) = {} THEN snt[k]
        ELSE CHOOSE a \in rows(k) : \A b \in rows(k) : b.visit <= a.visit]

SentOK(snt, n) == \A k \in DOMAIN snt : k \in Nat \X Nat /\ k[1] <= n /\ snt[k] \in Action

\* No stopwatch was set back, and no page was taken up again that nobody had finalized.
Quiet(f) == f \cap {"back", "unfinished"} = {}

\* Page i of a state is the one that the server has as k.
IsPage(s, i, k, row) == s.actions[i].type = "pageview" /\ s.actions[i].page = k[2] /\ s.actions[i].visit = row.visit

\* A state knows every page of its session that the server has, with no less time; ms is the
\* time of the current page.
Reports(s, snt, f, ms) ==
  \A k \in DOMAIN snt : k[1] = s.session =>
    \E i \in DOMAIN s.actions :
      /\ IsPage(s, i, k, snt[k])
      /\ Quiet(f) => (IF i = s.current THEN ms ELSE s.actions[i].duration) >= snt[k].duration

\* The same, but for the time of the current page.
Kept(s, snt, f) ==
  \A k \in DOMAIN snt : k[1] = s.session =>
    \E i \in DOMAIN s.actions :
      /\ IsPage(s, i, k, snt[k])
      /\ Quiet(f) /\ i # s.current => s.actions[i].duration >= snt[k].duration

\* The server has just heard a state.
Told(s, snt) ==
  \A k \in DOMAIN snt : k[1] = s.session =>
    \E i \in DOMAIN s.actions : IsPage(s, i, k, snt[k]) /\ snt[k] = s.actions[i]

\* What was stored is what there is, but for goals and for the time of the current page.
Precedes(s, t) ==
  /\ s.session = t.session /\ s.current = t.current /\ Len(s.actions) <= Len(t.actions)
  /\ \A i \in DOMAIN s.actions :
       /\ s.actions[i].type = t.actions[i].type /\ s.actions[i].page = t.actions[i].page
       /\ s.actions[i].visit = t.actions[i].visit
       /\ i # s.current => s.actions[i].duration = t.actions[i].duration
  /\ \A i \in DOMAIN t.actions : i \notin DOMAIN s.actions => t.actions[i].type # "pageview"

\* Nothing that was sent changes its visit or loses time.
GrowsTo(snt, r, f) ==
  \A k \in DOMAIN snt : /\ r[k].visit = snt[k].visit
                        /\ Quiet(f) => r[k].duration >= snt[k].duration

\* The row that the server keeps of a page is the action of the state that has its number.
LEMMA Receives ==
  ASSUME NEW s, StateOK(s), NEW snt, NEW n \in Nat, SentOK(snt, n), s.session <= n, NEW r, r = ReceiveOf(snt, s),
         \A k \in DOMAIN snt : k[1] = s.session =>
           \E i \in DOMAIN s.actions : s.actions[i].type = "pageview" /\ s.actions[i].page = k[2]
  PROVE  /\ Told(s, r) /\ SentOK(r, n) /\ DOMAIN snt \subseteq DOMAIN r
         /\ \A k \in DOMAIN r : k[1] # s.session => k \in DOMAIN snt /\ r[k] = snt[k]
<1> DEFINE P == PageActions(s)
           rows(k) == {a \in P : k = <<s.session, a.page>>}
           D == DOMAIN snt \cup {<<s.session, a.page>> : a \in P}
<1>1. DOMAIN r = D /\ \A k \in D : r[k] = IF rows(k) = {} THEN snt[k]
                                        ELSE CHOOSE a \in rows(k) : \A b \in rows(k) : b.visit <= a.visit
  BY DEF ReceiveOf
<1>2. \A i \in DOMAIN s.actions : s.actions[i] \in Action
  BY DEF StateOK
<1>3. P \subseteq Action /\ \A i \in DOMAIN s.actions : s.actions[i].type = "pageview" => s.actions[i] \in P
  BY <1>2 DEF PageActions
<1>4. \A a \in P : \E i \in DOMAIN s.actions : a = s.actions[i] /\ a.type = "pageview"
  BY DEF PageActions
<1>5. ASSUME NEW k, NEW i \in DOMAIN s.actions, s.actions[i].type = "pageview", k = <<s.session, s.actions[i].page>>
      PROVE  k \in D /\ r[k] = s.actions[i]
  <2>1. s.actions[i] \in P
    BY <1>3, <1>5
  <2>2. ASSUME NEW a \in rows(k) PROVE a = s.actions[i]
    <3>1. a.page = s.actions[i].page
      BY <1>5
    <3>2. PICK j \in DOMAIN s.actions : a = s.actions[j] /\ a.type = "pageview"
      BY <1>4
    <3> QED BY <1>5, <3>1, <3>2 DEF StateOK
  <2>3. rows(k) = {s.actions[i]}
    BY <1>5, <2>1, <2>2
  <2>4. s.actions[i].visit \in Nat
    BY <1>2, ActionHas
  <2>5. k \in D
    BY <1>5, <2>1
  <2> QED BY <1>1, <2>3, <2>4, <2>5
<1>6. ASSUME NEW k \in D, k[1] = s.session
      PROVE  \E i \in DOMAIN s.actions : s.actions[i].type = "pageview" /\ k = <<s.session, s.actions[i].page>>
  <2>1. CASE k \in DOMAIN snt
    <3>1. PICK i \in DOMAIN s.actions : s.actions[i].type = "pageview" /\ s.actions[i].page = k[2]
      BY <1>6, <2>1
    <3>2. k = <<k[1], k[2]>>
      BY <2>1 DEF SentOK
    <3> QED BY <1>6, <3>1, <3>2
  <2>2. CASE k \notin DOMAIN snt
    <3>1. PICK a \in P : k = <<s.session, a.page>>
      BY <2>2
    <3> QED BY <1>4, <3>1
  <2> QED BY <2>1, <2>2
<1>7. ASSUME NEW k \in D, k[1] # s.session
      PROVE  k \in DOMAIN snt /\ r[k] = snt[k]
  <2>1. \A a \in P : k # <<s.session, a.page>>
    BY <1>7
  <2>2. rows(k) = {}
    BY <2>1
  <2>3. k \in DOMAIN snt
    BY <2>1
  <2> QED BY <1>1, <2>2, <2>3
<1>8. Told(s, r)
  <2> SUFFICES ASSUME NEW k \in DOMAIN r, k[1] = s.session
               PROVE  \E i \in DOMAIN s.actions : IsPage(s, i, k, r[k]) /\ r[k] = s.actions[i]
    BY DEF Told
  <2>1. PICK i \in DOMAIN s.actions : s.actions[i].type = "pageview" /\ k = <<s.session, s.actions[i].page>>
    BY <1>1, <1>6
  <2>2. r[k] = s.actions[i]
    BY <1>5, <2>1
  <2>3. k[2] = s.actions[i].page
    BY <2>1
  <2> QED BY <2>1, <2>2, <2>3 DEF IsPage
<1>9. SentOK(r, n)
  <2> SUFFICES ASSUME NEW k \in DOMAIN r PROVE k \in Nat \X Nat /\ k[1] <= n /\ r[k] \in Action
    BY DEF SentOK
  <2>1. CASE k[1] # s.session
    BY <1>1, <1>7, <2>1 DEF SentOK
  <2>2. CASE k[1] = s.session
    <3>1. PICK i \in DOMAIN s.actions : s.actions[i].type = "pageview" /\ k = <<s.session, s.actions[i].page>>
      BY <1>1, <1>6, <2>2
    <3>2. r[k] = s.actions[i]
      BY <1>5, <3>1
    <3>3. s.actions[i].page \in Nat /\ s.session \in Nat
      BY <1>2, ActionHas DEF StateOK
    <3> QED BY <1>2, <3>1, <3>2, <3>3
  <2> QED BY <2>1, <2>2
<1> QED BY <1>1, <1>7, <1>8, <1>9

\* Who sends a state that is up to date takes nothing back, and leaves other sessions alone.
LEMMA Sends ==
  ASSUME NEW s, StateOK(s), NEW snt, NEW n \in Nat, SentOK(snt, n), s.session <= n, NEW f, NEW ms \in Int,
         Reports(s, snt, f, ms), NEW t, Updates(t, s, ms), NEW r, r = ReceiveOf(snt, t)
  PROVE  /\ Told(t, r) /\ SentOK(r, n) /\ GrowsTo(snt, r, f)
         /\ \A k \in DOMAIN r : k[1] # s.session => k \in DOMAIN snt /\ r[k] = snt[k]
<1>1. StateOK(t) /\ t.session = s.session /\ DOMAIN t.actions = DOMAIN s.actions
  BY DEF Updates, StateOK
<1>2. \A k \in DOMAIN snt : k[1] = t.session =>
           \E i \in DOMAIN t.actions : t.actions[i].type = "pageview" /\ t.actions[i].page = k[2]
  BY <1>1 DEF Reports, IsPage, Updates
<1>3. /\ Told(t, r) /\ SentOK(r, n) /\ DOMAIN snt \subseteq DOMAIN r
      /\ \A k \in DOMAIN r : k[1] # t.session => k \in DOMAIN snt /\ r[k] = snt[k]
  BY <1>1, <1>2, Receives
<1>4. ASSUME NEW k \in DOMAIN snt
      PROVE  r[k].visit = snt[k].visit /\ (Quiet(f) => r[k].duration >= snt[k].duration)
  <2>1. snt[k].duration \in Int
    BY ActionHas DEF SentOK
  <2>2. CASE k[1] # s.session
    BY <1>1, <1>3, <2>1, <2>2
  <2>3. CASE k[1] = s.session
    <3>1. PICK i \in DOMAIN s.actions :
            /\ IsPage(s, i, k, snt[k])
            /\ Quiet(f) => (IF i = s.current THEN ms ELSE s.actions[i].duration) >= snt[k].duration
      BY <2>3 DEF Reports
    <3>2. PICK j \in DOMAIN t.actions : IsPage(t, j, k, r[k]) /\ r[k] = t.actions[j]
      BY <1>1, <1>3, <2>3 DEF Told
    <3>3. IsPage(t, i, k, snt[k]) /\ t.actions[i].duration = IF i = s.current THEN ms ELSE s.actions[i].duration
      BY <3>1 DEF IsPage, Updates
    <3>4. i = j
      BY <1>1, <3>2, <3>3 DEF IsPage, StateOK
    <3> QED BY <3>1, <3>2, <3>3, <3>4 DEF IsPage
  <2> QED BY <2>2, <2>3
<1> QED BY <1>1, <1>3, <1>4 DEF GrowsTo

\* A state that was just sent reports it, with the time of its current page.
LEMMA ToldReports ==
  ASSUME NEW s, StateOK(s), NEW snt, NEW n, SentOK(snt, n), NEW f, Told(s, snt),
         NEW ms, s.current # 0 => s.actions[s.current].duration = ms
  PROVE  Reports(s, snt, f, ms) /\ Kept(s, snt, f)
<1>1. \A i \in DOMAIN s.actions : i # 0 /\ s.actions[i] \in Action
  BY DEF StateOK
<1>2. \A i \in DOMAIN s.actions : s.actions[i].duration \in Int
  BY <1>1, ActionHas
<1> QED BY <1>1, <1>2 DEF Told, Reports, Kept

\* Who reports keeps.
LEMMA ReportsKeeps ==
  ASSUME NEW s, NEW snt, NEW f, NEW ms, Reports(s, snt, f, ms)
  PROVE  Kept(s, snt, f)
BY DEF Reports, Kept

\* More faults excuse more, and more time is more to report.
LEMMA ReportsStill ==
  ASSUME NEW s, StateOK(s), NEW snt, NEW n, SentOK(snt, n), NEW f, NEW g, Quiet(g) => Quiet(f), NEW ms \in Int, NEW md \in Int,
         Quiet(g) => ms <= md
  PROVE  /\ Reports(s, snt, f, ms) => Reports(s, snt, g, md)
         /\ Kept(s, snt, f) => Kept(s, snt, g)
<1>1. ASSUME Reports(s, snt, f, ms) PROVE Reports(s, snt, g, md)
  <2> SUFFICES ASSUME NEW k \in DOMAIN snt, k[1] = s.session
               PROVE  \E i \in DOMAIN s.actions :
                        /\ IsPage(s, i, k, snt[k])
                        /\ Quiet(g) => (IF i = s.current THEN md ELSE s.actions[i].duration) >= snt[k].duration
    BY DEF Reports
  <2>1. PICK i \in DOMAIN s.actions :
          /\ IsPage(s, i, k, snt[k])
          /\ Quiet(f) => (IF i = s.current THEN ms ELSE s.actions[i].duration) >= snt[k].duration
    BY <1>1 DEF Reports
  <2>2. snt[k].duration \in Int
    BY ActionHas DEF SentOK
  <2> QED BY <2>1, <2>2
<1>2. ASSUME Kept(s, snt, f) PROVE Kept(s, snt, g)
  BY <1>2 DEF Kept
<1> QED BY <1>1, <1>2

\* What is said of another session leaves a state as it is.
LEMMA KeptStill ==
  ASSUME NEW s, NEW snt, NEW f, Kept(s, snt, f), NEW r,
         \A k \in DOMAIN r : k[1] = s.session => k \in DOMAIN snt /\ r[k] = snt[k]
  PROVE  Kept(s, r, f)
BY DEF Kept

\* What is stored reports what the state reports.
LEMMA PrecedesReports ==
  ASSUME NEW s, StateOK(s), NEW t, StateOK(t), Precedes(s, t), NEW snt, NEW f, NEW ms
  PROVE  /\ Reports(t, snt, f, ms) => Reports(s, snt, f, ms)
         /\ Kept(t, snt, f) => Kept(s, snt, f)
<1>1. ASSUME NEW i \in DOMAIN t.actions, NEW k, NEW row, IsPage(t, i, k, row)
      PROVE  /\ i \in DOMAIN s.actions /\ IsPage(s, i, k, row)
             /\ i # s.current => s.actions[i].duration = t.actions[i].duration
  BY <1>1 DEF Precedes, IsPage
<1>2. s.session = t.session /\ s.current = t.current
  BY DEF Precedes
<1> QED BY <1>1, <1>2 DEF Reports, Kept

\* What is stored precedes what is brought up to date.
LEMMA PrecedesUpdated ==
  ASSUME NEW s, StateOK(s), NEW t, StateOK(t), Precedes(s, t), NEW ms, NEW u, Updates(u, t, ms), u.current = t.current
  PROVE  Precedes(s, u)
<1>1. DOMAIN u.actions = DOMAIN t.actions /\ DOMAIN s.actions \subseteq DOMAIN t.actions
  BY DEF Precedes, StateOK, Updates
<1> QED BY <1>1 DEF Precedes, Updates

\* What is stored precedes what a goal is added to.
LEMMA PrecedesGoal ==
  ASSUME NEW s, StateOK(s), NEW t, StateOK(t), Precedes(s, t), NEW u, StateOK(u), u.session = t.session, u.current = t.current,
         Len(u.actions) = Len(t.actions) + 1, \A i \in DOMAIN t.actions : u.actions[i] = t.actions[i],
         u.actions[Len(t.actions) + 1].type # "pageview"
  PROVE  Precedes(s, u)
<1>1. /\ DOMAIN u.actions = 1..(Len(t.actions) + 1) /\ DOMAIN t.actions = 1..Len(t.actions) /\ Len(t.actions) \in Nat
      /\ DOMAIN s.actions = 1..Len(s.actions) /\ Len(s.actions) \in Nat
  BY DEF StateOK
<1> QED BY <1>1 DEF Precedes

\* Whatever has happened since the beginning has happened with no crash and no session started over.
Clean == faults \cap {"crash", "startedOver"} = {}

\* While nothing was forgotten the tab knows what it has sent, or the storage does.
Growing ==
  /\ visit \in Nat /\ created \in Nat
  /\ local # Nothing => local.session \in 0..created
  /\ StateOK(sdk.state) /\ sdk.state.session <= created
  /\ stored # Nothing => StateOK(stored) /\ stored.session <= created
  /\ SentOK(sent, created)
  /\ life = "cached" => sdk.flushed
  /\ life # "closed" => Reports(sdk.state, sent, faults, PageMs)
  /\ life # "closed" /\ sdk.flushed =>
       /\ stored # Nothing
       /\ IF stored.session = sdk.state.session THEN Precedes(stored, sdk.state) ELSE Kept(stored, sent, faults)
  /\ life = "closed" /\ stored # Nothing => Kept(stored, sent, faults)

\* A state is something.
LEMMA Something ==
  ASSUME NEW s, StateOK(s)
  PROVE  s # Nothing
<1>1. s.session \in Nat
  BY DEF StateOK
<1>2. Nothing.session = -1
  BY DEF Nothing
<1> QED BY <1>1, <1>2

\* The stopwatch is a number.
LEMMA PageMsIs ==
  ASSUME SdkTyped
  PROVE  PageMs \in Int /\ clock \in Int
BY PageActiveIs DEF SdkTyped, PageMs

\* What a page that was left has stored it has reported.
LEMMA StoredKept ==
  ASSUME Growing, stored # Nothing, life = "closed" \/ sdk.flushed
  PROVE  Kept(stored, sent, faults)
<1>1. CASE life = "closed"
  BY <1>1 DEF Growing
<1>2. CASE life # "closed"
  <2>1. CASE stored.session = sdk.state.session
    <3>1. StateOK(stored) /\ StateOK(sdk.state) /\ Precedes(stored, sdk.state) /\ Reports(sdk.state, sent, faults, PageMs)
      BY <1>2, <2>1 DEF Growing
    <3>2. PICK s, t, r, f, ms : s = stored /\ t = sdk.state /\ r = sent /\ f = faults /\ ms = PageMs
      OBVIOUS
    <3>3. Kept(t, r, f)
      BY <3>1, <3>2, ReportsKeeps
    <3> QED BY <3>1, <3>2, <3>3, PrecedesReports
  <2>2. CASE stored.session # sdk.state.session
    BY <1>2, <2>2 DEF Growing
  <2> QED BY <2>1, <2>2
<1> QED BY <1>1, <1>2

\* A step that says nothing.
LEMMA SaysNothing ==
  ASSUME Growing, SdkTyped, SdkTyped', life' = life, sdk'.state = sdk.state, sdk'.flushed = sdk.flushed,
         UNCHANGED <<sent, created, visit, local>>,
         stored' = stored \/ (stored' = sdk.state /\ life # "closed"),
         Quiet(faults') => Quiet(faults) /\ PageMs <= PageMs'
  PROVE  Growing' /\ GrowsTo(sent, sent', faults')
<1>1. PageMs \in Int /\ PageMs' \in Int
  <2>1. PageMs' \in Int
    BY PageActiveIs DEF SdkTyped, PageMs
  <2> QED BY <2>1, PageMsIs
<1>2. PICK f, g, ms, md, r, s, w, v, n : /\ f = faults /\ g = faults' /\ ms = PageMs /\ md = PageMs' /\ r = sent /\ s = sdk.state
                                      /\ w = stored /\ v = stored' /\ n = created
  OBVIOUS
<1>3. SentOK(r, n) /\ StateOK(s) /\ s # Nothing
  BY <1>2, Something DEF Growing
<1>4. GrowsTo(r, r, g)
  <2>1. \A k \in DOMAIN r : r[k].duration \in Int
    BY <1>3, ActionHas DEF SentOK
  <2> QED BY <2>1 DEF GrowsTo
<1>5. life # "closed" => Reports(s, r, g, md)
  <2>1. life # "closed" => Reports(s, r, f, ms)
    BY <1>2 DEF Growing
  <2> QED BY <1>1, <1>2, <1>3, <2>1, ReportsStill
<1>6. w # Nothing /\ (life = "closed" \/ sdk.flushed) => Kept(w, r, g)
  <2>1. ASSUME w # Nothing, life = "closed" \/ sdk.flushed PROVE Kept(w, r, g)
    <3>1. Kept(w, r, f)
      BY <1>2, <2>1, StoredKept
    <3> QED BY <1>2, <3>1 DEF Kept
  <2> QED BY <2>1
<1>7. CASE v = w
  BY <1>2, <1>3, <1>4, <1>5, <1>6, <1>7 DEF Growing
<1>8. CASE v = s /\ life # "closed"
  <2>1. Precedes(s, s)
    BY DEF Precedes
  <2> QED BY <1>2, <1>3, <1>4, <1>5, <1>8, <2>1 DEF Growing
<1> QED BY <1>2, <1>7, <1>8

\* What the server has of a state that is sent with the time of its current page.
LEMMA SentStep ==
  ASSUME NEW n \in Nat, SentOK(sent, n), NEW s, StateOK(s), s.session <= n, NEW f, NEW ms \in Int, Reports(s, sent, f, ms),
         NEW t, Updates(t, s, ms), t.current \in {0, s.current}, Receive(t)
  PROVE  /\ SentOK(sent', n) /\ GrowsTo(sent, sent', f) /\ Kept(t, sent', f) /\ Reports(t, sent', f, ms)
         /\ StateOK(t) /\ t.session = s.session
         /\ t.current = 0 => \A md : Reports(t, sent', f, md)
         /\ \A k \in DOMAIN sent' : k[1] # s.session => k \in DOMAIN sent /\ sent'[k] = sent[k]
<1>1. PICK x, y : x = sent /\ y = sent'
  OBVIOUS
<1>2. y = ReceiveOf(x, t)
  BY <1>1 DEF Receive, ReceiveOf
<1>3. /\ Told(t, y) /\ SentOK(y, n) /\ GrowsTo(x, y, f)
      /\ \A k \in DOMAIN y : k[1] # s.session => k \in DOMAIN x /\ y[k] = x[k]
  BY <1>1, <1>2, Sends
<1>4. StateOK(t) /\ t.session = s.session
  BY DEF Updates
<1>5. t.current # 0 => t.actions[t.current].duration = ms
  <2>1. s.current # 0 => s.current \in DOMAIN s.actions
    BY DEF StateOK
  <2> QED BY <2>1 DEF Updates
<1>6. Reports(t, y, f, ms) /\ Kept(t, y, f)
  BY <1>3, <1>4, <1>5, ToldReports
<1>7. t.current = 0 => \A md : Reports(t, y, f, md)
  BY <1>3, <1>4, ToldReports
<1> QED BY <1>1, <1>3, <1>4, <1>6, <1>7

\* A payload of the state, or of the state with a goal added, is sent.
LEMMA SendStep ==
  ASSUME Growing, SdkTyped, life = "open", life' = "open", UNCHANGED <<stored, created, visit, local, faults>>,
         NEW s, StateOK(s), s.session = sdk.state.session, Reports(s, sent, faults, PageMs),
         \A w : StateOK(w) /\ Precedes(w, sdk.state) => Precedes(w, s),
         NEW t, t = BuildPayload(s, PageMs), Receive(t), sdk'.state = t, sdk'.flushed = sdk.flushed, PageMs' = PageMs
  PROVE  Growing' /\ GrowsTo(sent, sent', faults')
<1>1. PageMs \in Int
  BY PageMsIs
<1>2. PICK n, f, ms, w : n = created /\ f = faults /\ ms = PageMs /\ w = stored
  OBVIOUS
<1>3. n \in Nat /\ SentOK(sent, n) /\ s.session <= n
  BY <1>2 DEF Growing
<1>4. Updates(t, s, ms) /\ t.current = s.current
  BY <1>1, <1>2, Builds
<1>5. /\ SentOK(sent', n) /\ GrowsTo(sent, sent', f) /\ Reports(t, sent', f, ms)
      /\ StateOK(t) /\ t.session = s.session
      /\ \A k \in DOMAIN sent' : k[1] # s.session => k \in DOMAIN sent /\ sent'[k] = sent[k]
  BY <1>1, <1>2, <1>3, <1>4, SentStep
<1>6. sdk.flushed => /\ w # Nothing
                     /\ IF w.session = t.session THEN Precedes(w, t) ELSE Kept(w, sent', f)
  <2> SUFFICES ASSUME sdk.flushed PROVE w # Nothing /\ IF w.session = t.session THEN Precedes(w, t) ELSE Kept(w, sent', f)
    OBVIOUS
  <2>1. w # Nothing /\ StateOK(w)
    BY <1>2 DEF Growing
  <2>2. CASE w.session = t.session
    <3>1. Precedes(w, s)
      BY <1>2, <1>5, <2>1, <2>2 DEF Growing
    <3> QED BY <1>4, <2>1, <2>2, <3>1, PrecedesUpdated
  <2>3. CASE w.session # t.session
    <3>1. Kept(w, sent, f)
      BY <1>2, <1>5, <2>3 DEF Growing
    <3> QED BY <1>5, <2>1, <2>3, <3>1 DEF Kept
  <2> QED BY <2>2, <2>3
<1> QED BY <1>2, <1>3, <1>5, <1>6 DEF Growing

\* The page is finalized: what is stored is what was sent.
LEMMA FlushStep ==
  ASSUME Growing, SdkTyped, SdkTyped', NEW hb, HeartbeatOK(hb), Flush(hb), PageActive(hb, clock) = PageMs, life # "closed",
         life' # "closed", UNCHANGED <<clock, created, visit, local>>
  PROVE  Growing' /\ GrowsTo(sent, sent', faults') /\ sdk'.flushed
<1>1. PICK u : u = FinalizeForUnload(sdk.state, PageActive(hb, clock))
  OBVIOUS
<1>2. \/ /\ sdk.flushed /\ SdkIs(sdk', hb, sdk.state, sdk.flushed, sdk.paused)
         /\ UNCHANGED <<sent, stored, marks, faults>>
      \/ /\ ~sdk.flushed /\ SdkIs(sdk', hb, u, sdk'.flushed, sdk.paused) /\ sdk'.flushed
         /\ Receive(u) /\ stored' = u /\ Disturbs(IF sdk.state.current = 0 THEN {} ELSE {"left"})
  BY <1>1, FlushIs
<1>3. sdk'.hb = hb
  BY <1>2 DEF SdkIs
<1>4. PageMs' = PageMs /\ PageMs \in Int
  BY <1>3, PageMsIs DEF PageMs, PageActive
<1>5. CASE sdk.flushed /\ SdkIs(sdk', hb, sdk.state, sdk.flushed, sdk.paused)
           /\ UNCHANGED <<sent, stored, marks, faults>>
  <2>1. sdk'.state = sdk.state /\ sdk'.flushed = sdk.flushed
    BY <1>5 DEF SdkIs
  <2>2. GrowsTo(sent, sent, faults)
    <3>1. \A k \in DOMAIN sent : sent[k].duration \in Int
      BY ActionHas DEF SentOK, Growing
    <3> QED BY <3>1 DEF GrowsTo
  <2> QED BY <1>4, <1>5, <2>1, <2>2 DEF Growing
<1>6. CASE /\ ~sdk.flushed /\ SdkIs(sdk', hb, u, sdk'.flushed, sdk.paused) /\ sdk'.flushed
           /\ Receive(u) /\ stored' = u /\ Disturbs(IF sdk.state.current = 0 THEN {} ELSE {"left"})
  <2>1. PICK n, f, ms, s, md : n = created /\ f = faults' /\ ms = PageMs /\ s = sdk.state /\ md = PageMs'
    OBVIOUS
  <2>2. Quiet(f) => Quiet(faults)
    BY <1>6, <2>1 DEF Disturbs, Quiet
  <2>3. n \in Nat /\ SentOK(sent, n) /\ s.session <= n /\ StateOK(s) /\ Reports(s, sent, faults, ms)
    BY <2>1 DEF Growing
  <2>4. Reports(s, sent, f, ms)
    BY <2>2, <2>3 DEF Reports
  <2>5. Updates(u, s, ms) /\ u.current = 0
    BY <1>1, <1>4, <2>1, <2>3, Finalizes
  <2>6. /\ SentOK(sent', n) /\ GrowsTo(sent, sent', f) /\ Reports(u, sent', f, ms)
        /\ StateOK(u) /\ u.session = s.session
    BY <1>4, <1>6, <2>1, <2>3, <2>4, <2>5, SentStep
  <2>7. sdk'.state = u
    BY <1>6 DEF SdkIs
  <2>8. u # Nothing /\ Precedes(u, u)
    BY <2>6, Something DEF Precedes
  <2> QED BY <1>4, <1>6, <2>1, <2>3, <2>6, <2>7, <2>8 DEF Growing
<1> QED BY <1>2, <1>5, <1>6

\* The page is left, hidden, frozen or about to be left.
LEMMA FlushGrows ==
  ASSUME StopwatchInv, StopwatchInv', Growing, Leave \/ HideEvent \/ BeforeUnload
  PROVE  Growing' /\ GrowsTo(sent, sent', faults')
<1>1. /\ SdkTyped /\ SdkTyped' /\ HeartbeatOK(sdk.hb) /\ life = "open" /\ UNCHANGED <<clock, created, visit, local>>
      /\ clock \in Int
  BY DEF StopwatchInv, SdkTyped, Leave, HideEvent, BeforeUnload
<1>2. PICK x, g : x = sdk.hb /\ g = StopAndKeep(x, clock)
  OBVIOUS
<1>3. HeartbeatOK(g) /\ PageActive(g, clock) = PageActive(x, clock)
  BY <1>1, <1>2, Stops
<1>4. PageMs = PageActive(x, clock)
  BY <1>2 DEF PageMs
<1>5. CASE HideEvent
  <2>1. Flush(g) /\ life' # "closed"
    BY <1>1, <1>2, <1>5 DEF HideEvent, Hide
  <2> QED BY <1>1, <1>3, <1>4, <2>1, FlushStep
<1>6. CASE BeforeUnload
  <2>1. Flush(x) /\ life' # "closed"
    BY <1>1, <1>2, <1>6 DEF BeforeUnload, document
  <2>2. HeartbeatOK(x)
    BY <1>1, <1>2
  <2> QED BY <1>1, <1>4, <2>1, <2>2, FlushStep
<1>7. CASE Leave
  <2>1. CASE life' = "cached" /\ Flush(IF visible THEN StopAndKeep(sdk.hb, clock) ELSE sdk.hb)
    <3>1. PICK h : h = IF visible THEN g ELSE x
      OBVIOUS
    <3>2. Flush(h) /\ HeartbeatOK(h) /\ PageActive(h, clock) = PageMs
      BY <1>1, <1>2, <1>3, <1>4, <2>1, <3>1
    <3> QED BY <1>1, <2>1, <3>2, FlushStep
  <2>2. CASE /\ life' = "closed"
             /\ LET u == FinalizeForUnload(sdk.state, PageMs)
                IN IF sdk.flushed THEN UNCHANGED <<sent, stored>> ELSE Receive(u) /\ stored' = u
             /\ sdk' = Unused
             /\ UNCHANGED <<marks, faults>>
    <3>1. PICK n, f, ms, s, u : /\ n = created /\ f = faults /\ ms = PageMs /\ s = sdk.state
                              /\ u = FinalizeForUnload(s, ms)
      OBVIOUS
    <3>2. n \in Nat /\ SentOK(sent, n) /\ s.session <= n /\ StateOK(s) /\ Reports(s, sent, f, ms) /\ ms \in Int
      BY <1>1, <3>1, PageMsIs DEF Growing
    <3>3. StateOK(sdk'.state) /\ sdk'.state.session <= n
      <4>1. SdkIs(Unused, Off, Empty(Linked), FALSE, FALSE)
        BY SdkUnused
      <4>2. PICK e : e = Empty(Linked)
        OBVIOUS
      <4>3. sdk'.state = e /\ Linked = 0
        BY <2>2, <4>1, <4>2 DEF SdkIs, Linked
      <4>4. StateOK(e) /\ e.session = Linked
        BY <4>2, <4>3, EmptyIs
      <4> QED BY <3>2, <4>3, <4>4
    <3>4. CASE sdk.flushed
      <4>1. Kept(stored, sent, f)
        BY <1>1, <3>1, <3>4, StoredKept DEF Growing
      <4>2. GrowsTo(sent, sent, f)
        <5>1. \A k \in DOMAIN sent : sent[k].duration \in Int
          BY <3>2, ActionHas DEF SentOK
        <5> QED BY <5>1 DEF GrowsTo
      <4> QED BY <1>1, <2>2, <3>1, <3>2, <3>3, <3>4, <4>1, <4>2 DEF Growing
    <3>5. CASE ~sdk.flushed
      <4>1. Receive(u) /\ stored' = u
        BY <2>2, <3>1, <3>5
      <4>2. Updates(u, s, ms) /\ u.current = 0
        BY <3>1, <3>2, Finalizes
      <4>3. /\ SentOK(sent', n) /\ GrowsTo(sent, sent', f) /\ Kept(u, sent', f)
            /\ StateOK(u) /\ u.session = s.session
        BY <3>2, <4>1, <4>2, SentStep
      <4> QED BY <1>1, <2>2, <3>1, <3>2, <3>3, <4>1, <4>3 DEF Growing
    <3> QED BY <3>4, <3>5
  <2> QED BY <1>7, <2>1, <2>2 DEF Leave
<1> QED BY <1>5, <1>6, <1>7

\* Who comes back goes on from what it reports, or from what was stored of it.
LEMMA ComesBack ==
  ASSUME Growing, SdkTyped, SdkTyped', NEW state, NEW w \in BOOLEAN, ComeBack(state, w), life # "closed", life' = "open",
         UNCHANGED <<clock, created, visit, local, sent>>,
         StateOK(state), state.session <= created, Reports(state, sent, faults, PageMs),
         stored' # Nothing => StateOK(stored') /\ stored'.session <= created
  PROVE  Growing' /\ GrowsTo(sent, sent', faults')
<1>1. PICK x, g : x = sdk.hb /\ g = (IF sdk.paused THEN sdk.hb ELSE ResumeHeartbeat(sdk.hb, clock))
  OBVIOUS
<1>2. SdkIs(sdk', g, state, sdk'.flushed, sdk.paused) /\ ~sdk'.flushed
  BY <1>1, ComeBackIs
<1>3. sdk'.state = state /\ sdk'.hb = g
  BY <1>2 DEF SdkIs
<1>4. HeartbeatOK(x) /\ clock \in Int /\ PageMs \in Int
  BY <1>1, PageMsIs DEF SdkTyped
<1>5. faults' = faults \cup ((IF sdk.paused \/ sdk.hb.maxReached THEN {}
              ELSE {m \in {"back", "unwatched"} : IF m = "back" THEN sdk.hb.active ELSE ~w}) \cap Fault)
  BY DEF ComeBack, Disturbs
<1>6. Quiet(faults') => Quiet(faults) /\ (sdk.paused \/ x.maxReached \/ ~x.active)
  BY <1>1, <1>5 DEF Quiet, Fault
<1>7. PageMs' = PageActive(g, clock) /\ PageMs = PageActive(x, clock)
  BY <1>1, <1>3 DEF PageMs, PageActive
<1>8. Quiet(faults') => PageMs' = PageMs
  <2>1. CASE sdk.paused
    BY <1>1, <1>7, <2>1
  <2>2. CASE ~sdk.paused
    <3>1. x.maxReached \/ ~x.active => PageActive(g, clock) = PageActive(x, clock)
      BY <1>1, <1>4, <2>2, Resumes
    <3> QED BY <1>6, <1>7, <2>2, <3>1
  <2> QED BY <2>1, <2>2
<1>9. PageMs' \in Int
  BY PageActiveIs DEF SdkTyped, PageMs
<1>10. PICK n, f, ms, md, r, h : n = created /\ f = faults /\ h = faults' /\ ms = PageMs /\ md = PageMs' /\ r = sent
  OBVIOUS
<1>11. n \in Nat /\ SentOK(r, n) /\ (Quiet(h) => Quiet(f)) /\ ms \in Int /\ md \in Int /\ (Quiet(h) => ms <= md)
       /\ Reports(state, r, f, ms)
  BY <1>4, <1>6, <1>8, <1>9, <1>10 DEF Growing
<1>12. Reports(state, r, h, md)
  BY <1>11, ReportsStill
<1>13. GrowsTo(r, r, h)
  <2>1. \A k \in DOMAIN r : r[k].duration \in Int
    BY <1>11, ActionHas DEF SentOK
  <2> QED BY <2>1 DEF GrowsTo
<1> QED BY <1>2, <1>3, <1>10, <1>11, <1>12, <1>13 DEF Growing

\* The page is there again.
LEMMA ShowGrows ==
  ASSUME StopwatchInv, StopwatchInv', Growing, PageShow \/ ShowEvent
  PROVE  Growing' /\ GrowsTo(sent, sent', faults')
<1>1. SdkTyped /\ SdkTyped' /\ UNCHANGED <<clock, created, visit, local, sent>> /\ life # "closed" /\ life' = "open"
  BY DEF StopwatchInv, PageShow, ShowEvent, Show
<1>2. CASE ShowEvent
  <2>1. PICK w \in BOOLEAN : w <=> visible' /\ focused'
    OBVIOUS
  <2>2. ComeBack(sdk.state, w) /\ stored' = stored
    BY <1>2, <2>1 DEF ShowEvent
  <2>3. PICK s : s = sdk.state
    OBVIOUS
  <2>4. /\ ComeBack(s, w) /\ StateOK(s) /\ s.session <= created /\ Reports(s, sent, faults, PageMs)
        /\ stored' # Nothing => StateOK(stored') /\ stored'.session <= created
    BY <1>1, <2>2, <2>3 DEF Growing
  <2> QED BY <1>1, <2>4, ComesBack
<1>3. CASE PageShow
  <2>1. PICK w \in BOOLEAN : w = FALSE
    OBVIOUS
  <2>2. PICK b \in BOOLEAN : b <=> stored # Nothing /\ stored.session = sdk.state.session
    OBVIOUS
  <2>3. PICK s : s = IF b THEN stored ELSE sdk.state
    OBVIOUS
  <2>4. ComeBack(s, w) /\ stored' = (IF b THEN stored ELSE Nothing) /\ life = "cached"
    BY <1>3, <2>1, <2>2, <2>3 DEF PageShow
  <2>5. StateOK(s) /\ s.session <= created /\ Reports(s, sent, faults, PageMs)
    <3>1. CASE ~b
      BY <1>1, <2>3, <3>1 DEF Growing
    <3>2. CASE b
      <4>1. PICK t, r, f, ms : t = sdk.state /\ r = sent /\ f = faults /\ ms = PageMs
        OBVIOUS
      <4>2. /\ s = stored /\ StateOK(s) /\ s.session <= created /\ StateOK(t) /\ Precedes(s, t) /\ Reports(t, r, f, ms)
        BY <1>1, <2>2, <2>3, <2>4, <3>2, <4>1 DEF Growing
      <4>3. Reports(s, r, f, ms)
        BY <4>2, PrecedesReports
      <4> QED BY <4>1, <4>2, <4>3
    <3> QED BY <3>1, <3>2
  <2>6. stored' # Nothing => StateOK(stored') /\ stored'.session <= created
    BY <1>1, <2>4 DEF Growing
  <2> QED BY <1>1, <2>4, <2>5, <2>6, ComesBack
<1> QED BY <1>2, <1>3

\* Steps that say nothing.
LEMMA SilentGrows ==
  ASSUME StopwatchInv, StopwatchInv', Growing, Answer \/ Pause \/ Resume \/ Tick
  PROVE  Growing' /\ GrowsTo(sent, sent', faults')
<1>1. SdkTyped /\ SdkTyped' /\ UNCHANGED <<life, sent, created, visit, local>> /\ HeartbeatOK(sdk.hb) /\ clock \in Int
  BY DEF StopwatchInv, SdkTyped, Answer, Pause, Resume, Tick, document, history
<1>2. PICK a, b, c, d, e, f, g, h : /\ sdk = SdkOf(a, b, c, d, e, f, g, h) /\ a = sdk.hb /\ b = sdk.state /\ c = sdk.flushed
                                    /\ d = sdk.paused
  BY <1>1 DEF SdkTyped, SdkIs
<1>3. PageMs \in Int
  BY <1>1, PageMsIs
<1>4. CASE Answer
  <2>1. PICK n : sdk' = [sdk EXCEPT !.sends = n] \/ sdk' = [sdk EXCEPT !.goals = n]
    BY <1>4 DEF Answer
  <2>2. sdk' = SdkOf(a, b, c, d, e, n, g, h) \/ sdk' = SdkOf(a, b, c, d, e, f, n, h)
    BY <1>2, <2>1 DEF SdkOf
  <2>3. SdkIs(sdk', a, b, c, d)
    BY <2>2, SdkMade
  <2>4. sdk'.hb = sdk.hb /\ sdk'.state = sdk.state /\ sdk'.flushed = sdk.flushed
    BY <1>2, <2>3 DEF SdkIs
  <2>5. clock' = clock /\ faults' = faults /\ life = "open" /\ (stored' = stored \/ stored' = sdk.state)
    BY <1>4 DEF Answer, history
  <2>6. PageMs' = PageMs
    BY <2>4, <2>5 DEF PageMs, PageActive
  <2> QED BY <1>1, <1>3, <2>4, <2>5, <2>6, SaysNothing
<1>5. CASE Pause
  <2>1. PICK x, k, z : x = sdk.hb /\ k = StopAndKeep(x, clock) /\ z = TRUE
    OBVIOUS
  <2>2. sdk' = [sdk EXCEPT !.paused = z, !.hb = k]
    BY <1>5, <2>1 DEF Pause
  <2>3. sdk' = SdkOf(k, b, c, z, e, f, g, h)
    BY <1>2, <2>2 DEF SdkOf
  <2>4. SdkIs(sdk', k, b, c, z)
    BY <2>3, SdkMade
  <2>5. sdk'.hb = k /\ sdk'.state = sdk.state /\ sdk'.flushed = sdk.flushed
    BY <1>2, <2>4 DEF SdkIs
  <2>6. clock' = clock /\ faults' = faults /\ stored' = stored
    BY <1>5 DEF Pause, history
  <2>7. PageActive(k, clock) = PageActive(x, clock)
    BY <1>1, <2>1, Stops
  <2>8. PageMs' = PageMs
    BY <2>1, <2>5, <2>6, <2>7 DEF PageMs, PageActive
  <2> QED BY <1>1, <1>3, <2>5, <2>6, <2>8, SaysNothing
<1>6. CASE Resume
  <2>1. PICK z, k : z = FALSE /\ k = StartHeartbeat(ResetHeartbeatState(sdk.hb, clock), clock)
    OBVIOUS
  <2>2. sdk' = [sdk EXCEPT !.paused = z, !.hb = k]
    BY <1>6, <2>1 DEF Resume
  <2>3. sdk' = SdkOf(k, b, c, z, e, f, g, h)
    BY <1>2, <2>2 DEF SdkOf
  <2>4. SdkIs(sdk', k, b, c, z)
    BY <2>3, SdkMade
  <2>5. sdk'.state = sdk.state /\ sdk'.flushed = sdk.flushed
    BY <1>2, <2>4 DEF SdkIs
  <2>6. stored' = stored /\ ~Quiet(faults')
    BY <1>6 DEF Resume, Disturbs, Quiet, Fault
  <2> QED BY <1>1, <2>5, <2>6, SaysNothing
<1>7. CASE Tick
  <2>1. sdk' = sdk /\ faults' = faults /\ stored' = stored /\ clock' = clock + 1
    BY <1>7 DEF Tick
  <2>2. PageMs <= PageMs'
    BY <1>1, <2>1 DEF PageMs, PageActive, HeartbeatOK
  <2> QED BY <1>1, <2>1, <2>2, SaysNothing
<1> QED BY <1>4, <1>5, <1>6, <1>7

\* Payloads of the page under way.
LEMMA SendGrows ==
  ASSUME StopwatchInv, StopwatchInv', Growing, DebouncedSend \/ TrackGoal
  PROVE  Growing' /\ GrowsTo(sent, sent', faults')
<1>1. SdkTyped /\ SdkTyped' /\ life = "open" /\ life' = "open" /\ UNCHANGED <<clock, stored, created, visit, local, faults>>
      /\ clock \in Int
  BY DEF StopwatchInv, SdkTyped, DebouncedSend, TrackGoal, document, history
<1>2. PICK s, new : /\ SendPayload(new) /\ SdkIs(new, sdk.hb, s, sdk.flushed, sdk.paused)
                    /\ s = sdk.state \/ s = AddGoal(sdk.state)
  <2>1. PICK new : /\ \/ new = [sdk EXCEPT !.debounce = FALSE, !.sends = @ + 1]
                      \/ new = [sdk EXCEPT !.state = AddGoal(@), !.debounce = FALSE, !.goals = @ + 1]
                   /\ SendPayload(new)
    BY DEF DebouncedSend, TrackGoal
  <2> QED BY <1>1, <2>1, SendersAre
<1>3. PICK x, t : x = sdk.state /\ t = BuildPayload(s, PageActive(sdk.hb, clock))
  OBVIOUS
<1>4. SdkIs(sdk', sdk.hb, t, sdk.flushed, sdk.paused) /\ Receive(t)
  BY <1>2, <1>3, SendIs
<1>5. sdk'.state = t /\ sdk'.flushed = sdk.flushed /\ sdk'.hb = sdk.hb
  BY <1>4 DEF SdkIs
<1>6. PageMs' = PageMs /\ t = BuildPayload(s, PageMs)
  BY <1>1, <1>3, <1>5 DEF PageMs, PageActive
<1>7. StateOK(x) /\ Reports(x, sent, faults, PageMs)
  BY <1>1, <1>3 DEF Growing
<1>8. /\ StateOK(s) /\ s.session = x.session /\ Reports(s, sent, faults, PageMs)
      /\ \A w : StateOK(w) /\ Precedes(w, x) => Precedes(w, s)
  <2>1. CASE s = x
    BY <1>7, <2>1
  <2>2. CASE s = AddGoal(x) /\ ~IsFull(x)
    <3>1. /\ StateOK(s) /\ s.session = x.session /\ s.current = x.current /\ Len(s.actions) = Len(x.actions) + 1
          /\ \A i \in DOMAIN x.actions : s.actions[i] = x.actions[i]
          /\ s.actions[Len(x.actions) + 1].type # "pageview"
      BY <1>7, <2>2, AddsGoal
    <3>2. \A w : StateOK(w) /\ Precedes(w, x) => Precedes(w, s)
      BY <1>7, <3>1, PrecedesGoal
    <3>3. DOMAIN x.actions \subseteq DOMAIN s.actions
      BY <1>7, <3>1 DEF StateOK
    <3>4. Reports(s, sent, faults, PageMs)
      BY <1>7, <3>1, <3>3 DEF Reports, IsPage
    <3> QED BY <3>1, <3>2, <3>4
  <2>3. CASE s = AddGoal(x) /\ IsFull(x)
    BY <1>7, <2>3 DEF AddGoal
  <2> QED BY <1>2, <1>3, <2>1, <2>2, <2>3
<1> QED BY <1>1, <1>3, <1>4, <1>5, <1>6, <1>8, SendStep

\* The payload of a timer.
LEMMA PingGrows ==
  ASSUME StopwatchInv, StopwatchInv', Growing, Ping
  PROVE  Growing' /\ GrowsTo(sent, sent', faults')
<1>1. SdkTyped /\ SdkTyped' /\ life = "open" /\ life' = life /\ UNCHANGED <<clock, stored, created, visit, local, faults>>
      /\ PageMs \in Int
  BY PageMsIs DEF StopwatchInv, Ping, document, history
<1>2. CASE \E k, new : /\ SendPayload(new) /\ SdkIs(new, k, sdk.state, sdk.flushed, sdk.paused)
                       /\ PageActive(k, clock) = PageMs
  <2>1. PICK k, new : /\ SendPayload(new) /\ SdkIs(new, k, sdk.state, sdk.flushed, sdk.paused)
                      /\ PageActive(k, clock) = PageMs
    BY <1>2
  <2>2. PICK s, t : s = sdk.state /\ t = BuildPayload(s, PageActive(k, clock))
    OBVIOUS
  <2>3. SdkIs(sdk', k, t, sdk.flushed, sdk.paused) /\ Receive(t)
    BY <2>1, <2>2, SendIs
  <2>4. sdk'.state = t /\ sdk'.flushed = sdk.flushed /\ sdk'.hb = k
    BY <2>3 DEF SdkIs
  <2>5. PageMs' = PageMs /\ t = BuildPayload(s, PageMs)
    BY <1>1, <2>1, <2>2, <2>4 DEF PageMs, PageActive
  <2>6. StateOK(s) /\ Reports(s, sent, faults, PageMs) /\ \A w : StateOK(w) /\ Precedes(w, sdk.state) => Precedes(w, s)
    BY <1>1, <2>2 DEF Growing
  <2> QED BY <1>1, <2>2, <2>3, <2>4, <2>5, <2>6, SendStep
<1>3. CASE \E h : sent' = sent /\ SdkIs(sdk', h, sdk.state, sdk.flushed, sdk.paused) /\ PageActive(h, clock) = PageMs
  <2>1. PICK h : sent' = sent /\ SdkIs(sdk', h, sdk.state, sdk.flushed, sdk.paused) /\ PageActive(h, clock) = PageMs
    BY <1>3
  <2>2. sdk'.state = sdk.state /\ sdk'.flushed = sdk.flushed /\ sdk'.hb = h
    BY <2>1 DEF SdkIs
  <2>3. PageMs' = PageMs
    BY <1>1, <2>1, <2>2 DEF PageMs, PageActive
  <2> QED BY <1>1, <2>1, <2>2, <2>3, SaysNothing
<1> QED BY <1>1, <1>2, <1>3, Pings

\* With another page, the state reports what it did, whatever the time of the new one.
LEMMA AddedReports ==
  ASSUME NEW s, StateOK(s), NEW v \in Nat, NEW ms \in Int, NEW t, t = AddPageview(s, v, ms), NEW snt, NEW f,
         Reports(s, snt, f, ms), IsFull(s) => \A md : Reports(s, snt, f, md)
  PROVE  StateOK(t) /\ t.session = s.session /\ \A md : Reports(t, snt, f, md)
<1>1. CASE IsFull(s)
  BY <1>1 DEF AddPageview
<1>2. CASE ~IsFull(s)
  <2>1. PICK u : /\ Updates(u, s, ms)
                /\ StateOK(t) /\ t.session = s.session /\ Len(t.actions) = Len(s.actions) + 1
                /\ t.current = Len(s.actions) + 1
                /\ \A i \in DOMAIN s.actions : t.actions[i] = u.actions[i] /\ u.actions[i].page < t.actions[t.current].page
    BY <1>2, AddsPageview
  <2>2. \A i \in DOMAIN s.actions : i \in DOMAIN t.actions /\ i # t.current
    BY <2>1 DEF StateOK
  <2>3. ASSUME NEW md PROVE Reports(t, snt, f, md)
    <3> SUFFICES ASSUME NEW k \in DOMAIN snt, k[1] = s.session
                 PROVE  \E i \in DOMAIN t.actions :
                          /\ IsPage(t, i, k, snt[k])
                          /\ Quiet(f) => (IF i = t.current THEN md ELSE t.actions[i].duration) >= snt[k].duration
      BY <2>1 DEF Reports
    <3>1. PICK i \in DOMAIN s.actions :
             /\ IsPage(s, i, k, snt[k])
             /\ Quiet(f) => (IF i = s.current THEN ms ELSE s.actions[i].duration) >= snt[k].duration
      BY DEF Reports
    <3>2. /\ t.actions[i].type = s.actions[i].type /\ t.actions[i].page = s.actions[i].page
          /\ t.actions[i].visit = s.actions[i].visit
          /\ t.actions[i].duration = IF i = s.current THEN ms ELSE s.actions[i].duration
      BY <2>1 DEF Updates
    <3> QED BY <2>2, <3>1, <3>2 DEF IsPage
  <2> QED BY <2>1, <2>3
<1> QED BY <1>1, <1>2

\* Another page is under way.
LEMMA NavigateGrows ==
  ASSUME StopwatchInv, StopwatchInv', Growing, Navigate
  PROVE  Growing' /\ GrowsTo(sent, sent', faults')
<1>1. /\ SdkTyped /\ SdkTyped' /\ life = "open" /\ life' = "open" /\ UNCHANGED <<clock, created, local, sent>>
      /\ PageMs \in Int /\ visit' = visit + 1
  BY PageMsIs DEF StopwatchInv, Navigate, document, Visit
<1>2. PICK s, t, ms, f, n : /\ s = sdk.state /\ t = AddPageview(s, visit + 1, ms) /\ ms = PageMs /\ f = faults' /\ n = created
  OBVIOUS
<1>3. \E hb : /\ sdk' = [sdk EXCEPT !.state = t, !.debounce = TRUE, !.hb = hb]
              /\ stored' = t
              /\ Visit(Watched, IF IsFull(s) THEN {"back"} ELSE {})
  BY <1>2 DEF Navigate
<1>4. PICK hb, z : /\ sdk' = [sdk EXCEPT !.state = t, !.debounce = z, !.hb = hb]
                   /\ stored' = t
                   /\ Visit(Watched, IF IsFull(s) THEN {"back"} ELSE {})
  BY <1>3
<1>5. sdk'.state = t
  <2>1. PICK a, b, c, d, e, g, i, h : sdk = SdkOf(a, b, c, d, e, g, i, h)
    BY <1>1 DEF SdkTyped, SdkIs
  <2>2. sdk' = [sdk EXCEPT !.state = t, !.debounce = z, !.hb = hb]
    BY <1>4
  <2>3. sdk' = SdkOf(hb, t, c, d, z, g, i, h)
    BY <2>1, <2>2 DEF SdkOf
  <2>4. SdkIs(sdk', hb, t, c, d)
    BY <2>3, SdkMade
  <2> QED BY <2>4 DEF SdkIs
<1>6. (Quiet(f) => Quiet(faults)) /\ (IsFull(s) => ~Quiet(f))
  <2>1. faults' = faults \cup (IF Watched THEN {} ELSE {"unwatched"}) \cup (IF IsFull(s) THEN {"back"} ELSE {})
    BY <1>4 DEF Visit
  <2> QED BY <1>2, <2>1 DEF Quiet
<1>7. StateOK(s) /\ Reports(s, sent, faults, ms) /\ s.session <= n /\ n \in Nat /\ visit + 1 \in Nat /\ SentOK(sent, n)
  BY <1>1, <1>2 DEF Growing
<1>8. Reports(s, sent, f, ms) /\ (IsFull(s) => \A md : Reports(s, sent, f, md))
  BY <1>6, <1>7 DEF Reports
<1>9. StateOK(t) /\ t.session = s.session /\ \A md : Reports(t, sent, f, md)
  BY <1>1, <1>2, <1>7, <1>8, AddedReports
<1>10. GrowsTo(sent, sent, f)
  <2>1. \A k \in DOMAIN sent : sent[k].duration \in Int
    BY <1>7, ActionHas DEF SentOK
  <2> QED BY <2>1 DEF GrowsTo
<1>11. t # Nothing /\ Precedes(t, t)
  BY <1>9, Something DEF Precedes
<1>12. visit' \in Nat
  BY <1>1, <1>7
<1>13. stored' = t
  BY <1>4
<1> QED BY <1>1, <1>2, <1>5, <1>7, <1>9, <1>10, <1>11, <1>12, <1>13 DEF Growing

\* Sessions that may be created later have sent what those of today have.
LEMMA SentLater ==
  ASSUME NEW n \in Nat, NEW m \in Nat, n <= m, NEW snt, SentOK(snt, n)
  PROVE  SentOK(snt, m)
<1>1. \A k \in DOMAIN snt : k \in Nat \X Nat /\ k[1] <= n /\ snt[k] \in Action
  BY DEF SentOK
<1>2. \A k \in Nat \X Nat : k[1] \in Nat
  OBVIOUS
<1> QED BY <1>1, <1>2 DEF SentOK

\* A session that has sent nothing has nothing to report, with one page or none.
LEMMA FirstPage ==
  ASSUME NEW x \in Nat, NEW e, e = Empty(x), NEW snt, \A k \in DOMAIN snt : k[1] # x, NEW f
  PROVE  StateOK(e) /\ e.session = x /\ \A md : Reports(e, snt, f, md)
BY EmptyIs DEF Reports

\* Another session.
LEMMA ResetGrows ==
  ASSUME StopwatchInv, StopwatchInv', Growing, Reset, Clean'
  PROVE  Growing' /\ GrowsTo(sent, sent', faults')
<1>1. /\ SdkTyped /\ SdkTyped' /\ life = "open" /\ life' = "open" /\ UNCHANGED <<clock, stored>>
      /\ clock \in Int /\ created' = created + 1 /\ created \in Nat /\ visit \in Nat
  BY DEF StopwatchInv, SdkTyped, Reset, document, Growing
<1>2. PICK b \in BOOLEAN : b <=> sdk.link # -1 /\ clock - sdk.link <= LinkExpiry
  OBVIOUS
<1>3. PICK id : id = IF b THEN Linked ELSE created + 1
  OBVIOUS
<1>4. /\ SendPayload([sdk EXCEPT !.state = AddPageview(Empty(id), visit + 1, 0),
                                !.hb = StartHeartbeat(ResetHeartbeatState(@, clock), clock),
                                !.sends = @ + 1])
      /\ local' = [session |-> id, active |-> clock]
      /\ Visit(Watched, IF b THEN {"startedOver"} ELSE {})
  BY <1>2, <1>3 DEF Reset
<1>5. ~b /\ faults \subseteq faults' /\ visit' = visit + 1
  BY <1>4 DEF Visit, Clean
<1>6. PICK e, t, h, f, n, c : /\ e = Empty(id) /\ t = AddPageview(e, visit + 1, 0)
                        /\ h = StartHeartbeat(ResetHeartbeatState(sdk.hb, clock), clock) /\ f = faults' /\ n = sdk.sends + 1
                        /\ c = created + 1
  OBVIOUS
<1>7. id \in Nat /\ id = c /\ c \in Nat /\ visit + 1 \in Nat /\ SentOK(sent, created)
  BY <1>1, <1>3, <1>5, <1>6 DEF Growing
<1>8. \A k \in DOMAIN sent : k[1] # id
  BY <1>1, <1>6, <1>7 DEF SentOK
<1>9. StateOK(e) /\ e.session = id /\ \A md : Reports(e, sent, f, md)
  BY <1>6, <1>7, <1>8, FirstPage
<1>10. StateOK(t) /\ t.session = id /\ \A md : Reports(t, sent, f, md)
  <2>1. PICK z \in Int : z = 0
    OBVIOUS
  <2>2. t = AddPageview(e, visit + 1, z)
    BY <1>6, <2>1
  <2>3. PICK v, snt : v = visit + 1 /\ snt = sent
    OBVIOUS
  <2>4. v \in Nat /\ t = AddPageview(e, v, z) /\ StateOK(e) /\ Reports(e, snt, f, z) /\ (IsFull(e) => \A md : Reports(e, snt, f, md))
    BY <1>7, <1>9, <2>2, <2>3
  <2>5. StateOK(t) /\ t.session = e.session /\ \A md : Reports(t, snt, f, md)
    BY <2>4, AddedReports
  <2> QED BY <1>9, <2>3, <2>5
<1>11. HeartbeatOK(h)
  BY <1>1, <1>6, ResetsHeartbeat
<1>12. PICK new : new = [sdk EXCEPT !.state = t, !.hb = h, !.sends = n]
  OBVIOUS
<1>13. SdkIs(new, h, t, sdk.flushed, sdk.paused)
  <2>1. PICK a1, b1, c1, d1, e1, f1, i1, h1 : /\ sdk = SdkOf(a1, b1, c1, d1, e1, f1, i1, h1)
                                              /\ c1 = sdk.flushed /\ d1 = sdk.paused
    BY <1>1 DEF SdkTyped, SdkIs
  <2>2. new = SdkOf(h, t, c1, d1, e1, n, i1, h1)
    BY <1>12, <2>1 DEF SdkOf
  <2> QED BY <2>1, <2>2, SdkMade
<1>14. PICK ms, u : ms = PageActive(h, clock) /\ u = BuildPayload(t, ms)
  OBVIOUS
<1>15. SdkIs(sdk', h, u, sdk.flushed, sdk.paused) /\ Receive(u)
  <2>1. SendPayload(new)
    BY <1>4, <1>6, <1>12
  <2> QED BY <1>13, <1>14, <2>1, SendIs
<1>16. sdk'.state = u /\ sdk'.hb = h /\ sdk'.flushed = sdk.flushed
  BY <1>15 DEF SdkIs
<1>17. ms \in Int
  BY <1>1, <1>11, <1>14, PageActiveIs
<1>18. Updates(u, t, ms) /\ u.current = t.current
  BY <1>10, <1>14, <1>17, Builds
<1>19. SentOK(sent, c) /\ t.session <= c
  <2>1. created <= c
    BY <1>1, <1>6
  <2> QED BY <1>1, <1>7, <1>10, <2>1, SentLater
<1>20. /\ SentOK(sent', c) /\ GrowsTo(sent, sent', f) /\ Reports(u, sent', f, ms)
       /\ StateOK(u) /\ u.session = id
       /\ \A k \in DOMAIN sent' : k[1] # id => k \in DOMAIN sent /\ sent'[k] = sent[k]
  BY <1>7, <1>10, <1>15, <1>17, <1>18, <1>19, SentStep
<1>21. PageMs' = ms
  BY <1>1, <1>14, <1>16 DEF PageMs, PageActive
<1>22. sdk.flushed => stored # Nothing /\ stored.session # id /\ Kept(stored, sent', f)
  <2> SUFFICES ASSUME sdk.flushed PROVE stored # Nothing /\ stored.session # id /\ Kept(stored, sent', f)
    OBVIOUS
  <2>1. stored # Nothing /\ StateOK(stored) /\ stored.session <= created
    BY <1>1 DEF Growing
  <2>2. stored.session # id
    BY <1>1, <1>6, <1>7, <2>1 DEF StateOK
  <2>3. Kept(stored, sent, faults)
    BY <2>1, StoredKept
  <2>4. Quiet(f) => Quiet(faults)
    BY <1>5, <1>6 DEF Quiet
  <2> QED BY <1>20, <2>1, <2>2, <2>3, <2>4 DEF Kept
<1>23. local'.session = id /\ id \in 0..c
  BY <1>4, <1>7
<1>24. stored # Nothing => StateOK(stored) /\ stored.session <= c
  <2> SUFFICES ASSUME stored # Nothing PROVE StateOK(stored) /\ stored.session <= c
    OBVIOUS
  <2>1. StateOK(stored) /\ stored.session <= created
    BY DEF Growing
  <2> QED BY <1>1, <1>6, <2>1 DEF StateOK
<1>25. c = created' /\ f = faults' /\ visit' \in Nat /\ stored' = stored /\ id <= c
  BY <1>1, <1>5, <1>6, <1>7
<1> QED BY <1>1, <1>7, <1>16, <1>20, <1>21, <1>22, <1>23, <1>24, <1>25 DEF Growing

\* A page is loaded: with what was stored of its session, or as the first of it.
LEMMA LoadGrows ==
  ASSUME StopwatchInv, StopwatchInv', Growing, Load, Clean'
  PROVE  Growing' /\ GrowsTo(sent, sent', faults')
<1>1. /\ SdkTyped /\ SdkTyped' /\ life = "closed" /\ life' = "open" /\ clock' = clock
      /\ clock \in Int /\ created \in Nat /\ visit \in Nat
  BY DEF StopwatchInv, SdkTyped, Load, Growing
<1>2. PICK isLink \in BOOLEAN : \E isVisible \in BOOLEAN :
       LET id == GetOrCreateSession(isLink)
           matches == stored # Nothing /\ stored.session = id
           restored == IF matches THEN stored ELSE Empty(id)
           s == AddPageview(restored, visit + 1, 0)
           hb == StartHeartbeat([Off EXCEPT !.pageStart = clock], clock)
       IN /\ local' = [session |-> id, active |-> clock]
          /\ created' = IF id > created THEN id ELSE created
          /\ stored' = IF matches THEN stored ELSE Nothing
          /\ SendPayload([Unused EXCEPT !.hb = hb, !.state = s, !.sends = 1,
                                        !.link = IF isLink THEN clock ELSE -1])
          /\ Visit(isVisible, (IF ~matches /\ \E k \in DOMAIN sent : k[1] = id
                               THEN {"startedOver"} ELSE {})
                              \cup IF matches /\ stored.current # 0 THEN {"unfinished"} ELSE {})
  BY DEF Load
<1>3. PICK id : id = GetOrCreateSession(isLink)
  OBVIOUS
<1>4. PICK b \in BOOLEAN : b <=> stored # Nothing /\ stored.session = id
  OBVIOUS
<1>5. PICK e : e = IF b THEN stored ELSE Empty(id)
  OBVIOUS
<1>6. PICK t, c, f : t = AddPageview(e, visit + 1, 0) /\ c = (IF id > created THEN id ELSE created) /\ f = faults'
  OBVIOUS
<1>7. PICK w : /\ local' = [session |-> id, active |-> clock]
               /\ created' = c
               /\ stored' = IF b THEN stored ELSE Nothing
               /\ \E h, l : SendPayload([Unused EXCEPT !.hb = h, !.state = t, !.sends = 1, !.link = l])
               /\ Visit(w, (IF ~b /\ \E k \in DOMAIN sent : k[1] = id THEN {"startedOver"} ELSE {})
                           \cup IF b /\ stored.current # 0 THEN {"unfinished"} ELSE {})
  BY <1>2, <1>3, <1>4, <1>5, <1>6
<1>8. /\ visit' = visit + 1 /\ faults \subseteq faults'
      /\ ~b => \A k \in DOMAIN sent : k[1] # id
      /\ b /\ stored.current # 0 => ~Quiet(f)
  BY <1>6, <1>7 DEF Visit, Clean, Quiet
<1>9. id \in Nat /\ c \in Nat /\ created <= c /\ id <= c
  <2>1. id \in Nat
    <3>1. local # Nothing => local.session \in Nat
      BY <1>1 DEF Growing
    <3>2. Linked \in Nat /\ created + 1 \in Nat
      BY <1>1 DEF Linked
    <3> QED BY <1>3, <3>1, <3>2 DEF GetOrCreateSession
  <2> QED BY <1>1, <1>6, <2>1
<1>10. SentOK(sent, c)
  <2>1. SentOK(sent, created)
    BY DEF Growing
  <2> QED BY <1>1, <1>9, <2>1, SentLater
<1>11. StateOK(e) /\ e.session = id /\ \A md : Reports(e, sent, f, md)
  <2>1. CASE ~b
    BY <1>5, <1>8, <1>9, <2>1, FirstPage
  <2>2. CASE b
    <3>1. e = stored /\ stored # Nothing /\ e.session = id /\ StateOK(e) /\ Kept(e, sent, faults)
      BY <1>1, <1>4, <1>5, <2>2 DEF Growing
    <3>2. Quiet(f) => Quiet(faults) /\ e.current = 0
      BY <1>6, <1>8, <2>2, <3>1 DEF Quiet
    <3>3. \A i \in DOMAIN e.actions : i # 0
      BY <3>1 DEF StateOK
    <3> QED BY <3>1, <3>2, <3>3 DEF Kept, Reports
  <2> QED BY <2>1, <2>2
<1>12. StateOK(t) /\ t.session = id /\ \A md : Reports(t, sent, f, md)
  <2>1. PICK z \in Int : z = 0
    OBVIOUS
  <2>2. PICK v, snt : v = visit + 1 /\ snt = sent
    OBVIOUS
  <2>3. v \in Nat /\ t = AddPageview(e, v, z) /\ StateOK(e) /\ Reports(e, snt, f, z) /\ (IsFull(e) => \A md : Reports(e, snt, f, md))
    BY <1>1, <1>6, <1>11, <2>1, <2>2
  <2>4. StateOK(t) /\ t.session = e.session /\ \A md : Reports(t, snt, f, md)
    BY <2>3, AddedReports
  <2> QED BY <1>11, <2>2, <2>4
<1>13. PICK h, l, new : new = [Unused EXCEPT !.hb = h, !.state = t, !.sends = 1, !.link = l] /\ SendPayload(new)
  BY <1>7
<1>14. PICK z \in BOOLEAN : ~z /\ SdkIs(new, h, t, z, z)
  <2>1. new = [Unused EXCEPT !.hb = h, !.state = t, !.sends = 1, !.link = l]
    BY <1>13
  <2> QED BY <2>1, SdkLoaded
<1>15. PICK ms, u : ms = PageActive(h, clock) /\ u = BuildPayload(t, ms)
  OBVIOUS
<1>16. SdkIs(sdk', h, u, z, z) /\ Receive(u)
  <2>1. SendPayload(new)
    BY <1>13
  <2> QED BY <1>14, <1>15, <2>1, SendIs
<1>17. sdk'.state = u /\ sdk'.hb = h /\ ~sdk'.flushed
  BY <1>14, <1>16 DEF SdkIs
<1>18. PageMs' = ms
  BY <1>1, <1>15, <1>17 DEF PageMs, PageActive
<1>19. ms \in Int
  <2>1. HeartbeatOK(h)
    BY <1>1, <1>17 DEF SdkTyped
  <2> QED BY <1>1, <1>15, <2>1, PageActiveIs
<1>20. Updates(u, t, ms) /\ u.current = t.current
  BY <1>12, <1>15, <1>19, Builds
<1>21. /\ SentOK(sent', c) /\ GrowsTo(sent, sent', f) /\ Reports(u, sent', f, ms) /\ StateOK(u) /\ u.session = id
  <2>1. t.session <= c
    BY <1>9, <1>12
  <2> QED BY <1>9, <1>10, <1>12, <1>16, <1>19, <1>20, <2>1, SentStep
<1>22. stored' # Nothing => StateOK(stored') /\ stored'.session <= c
  <2>1. CASE b
    BY <1>5, <1>7, <1>9, <1>11, <2>1
  <2>2. CASE ~b
    BY <1>7, <2>2
  <2> QED BY <2>1, <2>2
<1>23. local'.session = id /\ id \in 0..c
  BY <1>7, <1>9
<1>24. c = created' /\ f = faults' /\ visit' \in Nat
  BY <1>1, <1>6, <1>7, <1>8
<1> QED BY <1>1, <1>9, <1>17, <1>18, <1>21, <1>22, <1>23, <1>24 DEF Growing

\* At the beginning nothing was sent.
LEMMA NothingSent ==
  ASSUME Init
  PROVE  Growing
<1>1. PICK e : e = Empty(Linked)
  OBVIOUS
<1>2. StateOK(e) /\ e.session = 0
  <2>1. Linked \in Nat /\ Linked = 0
    BY DEF Linked
  <2> QED BY <1>1, <2>1, EmptyIs
<1>3. sdk.state = e
  BY <1>1, SdkUnused DEF Init, SdkIs
<1>4. /\ visit = 0 /\ created = 0 /\ local = Nothing /\ stored = Nothing /\ life = "closed"
      /\ DOMAIN sent = {}
  BY DEF Init
<1> QED BY <1>2, <1>3, <1>4 DEF Growing, SentOK

\* Payloads of a page only ever add to what an earlier one reported, and what was sent of a page
\* view stays its own (the code of sdk.ts and session-state.ts), unless the tab crashed, a session
\* started over, a stopwatch was set back or an unfinished page was restored.
THEOREM ReportsGrow == Spec => ReportsOnlyGrow
<1> DEFINE Inv == StopwatchInv /\ (Clean => Growing)
<1>1. Init => Inv
  BY NothingSent, StopwatchStarts
<1>2. ASSUME Inv, [Next]_vars
      PROVE  Inv' /\ (Clean' => GrowsTo(sent, sent', faults'))
  <2>1. StopwatchInv'
    BY <1>2, StopwatchKeeps
  <2>2. CASE UNCHANGED vars
    <3>1. UNCHANGED <<clock, life, sdk, local, stored, created, sent, visit, faults>>
      BY <2>2 DEF vars, document, history
    <3>2. Clean' <=> Clean
      BY <3>1 DEF Clean
    <3>3. ASSUME Clean PROVE Growing' /\ GrowsTo(sent, sent', faults')
      <4>1. Growing /\ SdkTyped /\ SdkTyped'
        BY <1>2, <2>1, <3>3 DEF StopwatchInv
      <4>2. PageMs' = PageMs /\ PageMs \in Int
        BY <3>1, <4>1, PageMsIs DEF PageMs, PageActive
      <4> QED BY <3>1, <4>1, <4>2, SaysNothing
    <3> QED BY <2>1, <3>2, <3>3
  <2>3. ASSUME Next, Clean' PROVE Growing' /\ GrowsTo(sent, sent', faults')
    <3>1. Growing
      <4>1. faults \subseteq faults' \/ Crash
        BY <2>3 DEF Next, Load, Leave, PageShow, HideEvent, ShowEvent, BeforeUnload, Navigate, DebouncedSend,
           TrackGoal,
                     Answer, Pause, Resume, Reset, Ping, Tick, Flush, ComeBack, Disturbs, Visit, history
      <4>2. ~Crash
        BY <2>3 DEF Crash, Clean
      <4> QED BY <1>2, <2>3, <4>1, <4>2 DEF Clean
    <3>2. ~Crash
      BY <2>3 DEF Crash, Clean
    <3> QED BY <1>2, <2>1, <2>3, <3>1, <3>2, LoadGrows, FlushGrows, ShowGrows, NavigateGrows, SendGrows,
               SilentGrows, ResetGrows,
               PingGrows DEF Next
  <2> QED BY <1>2, <2>1, <2>2, <2>3
<1>3. ASSUME Clean' => GrowsTo(sent, sent', faults')
      PROVE  [\A k \in DOMAIN sent :
                faults' \cap {"crash", "startedOver"} = {} =>
                  /\ sent'[k].visit = sent[k].visit
                  /\ faults' \cap {"back", "unfinished"} = {} => sent'[k].duration >= sent[k].duration]_vars
  BY <1>3 DEF Clean, GrowsTo, Quiet
<1>4. Inv /\ [Next]_vars => Inv'
  BY <1>2
<1>5. Inv /\ [Next]_vars =>
        [\A k \in DOMAIN sent :
           faults' \cap {"crash", "startedOver"} = {} =>
             /\ sent'[k].visit = sent[k].visit
             /\ faults' \cap {"back", "unfinished"} = {} => sent'[k].duration >= sent[k].duration]_vars
  BY <1>2, <1>3
<1> HIDE DEF Inv
<1> QED BY <1>1, <1>4, <1>5, PTL DEF Spec, ReportsOnlyGrow


-----------------------------------------------------------------------------
(* The storage object. *)

SessionRows(n, m) == [id : 1..n, active : 0..m, dims : Dims, user : Users \union {Unset}]
Keys(n, m) ==
  [session : SessionRows(n, m) \union {Unset}, dimensions : Dims \union {Unset}, user : Users \union {Unset}]

StorageOf(l, d, k, r, e) == [local |-> l, memory |-> d, kept |-> k, room |-> r, denied |-> e]
With(keys, key, v) == [keys EXCEPT ![key] = v]

\* A page that has not given localStorage up keeps nothing in memory, one that is denied saves nothing.
StorageOK(st, n, m) ==
  /\ st = StorageOf(st.local, st.memory, st.kept, st.room, st.denied)
  /\ st.local \in Keys(n, m) /\ st.memory \in BOOLEAN /\ st.kept \in Keys(n, m)
  /\ st.room \in Nat /\ st.denied \in BOOLEAN
  /\ st.denied => st.room = 0
  /\ ~st.memory => st.kept = NoKeys

\* What a save does to a key: it is in localStorage, or the page has given localStorage up.
LEMMA PutIs ==
  ASSUME NEW n \in Nat, NEW m \in Nat, NEW st, StorageOK(st, n, m),
         NEW key \in {"session", "dimensions", "user"}, NEW v
  PROVE  \/ /\ ~st.memory /\ ~st.denied
            /\ \E r \in Nat : Put(st, key, v) = StorageOf(With(st.local, key, v), FALSE, st.kept, r, FALSE)
         \/ Put(st, key, v) = StorageOf(st.local, TRUE, With(st.kept, key, v), st.room, st.denied)
<1>1. PICK l, k, r, d, e : st = StorageOf(l, d, k, r, e)
  BY DEF StorageOK, StorageOf
<1>2. st.local = l /\ st.memory = d /\ st.kept = k /\ st.room = r /\ st.denied = e
  BY <1>1 DEF StorageOf
<1>3. r \in Nat /\ (e => r = 0) /\ d \in BOOLEAN /\ e \in BOOLEAN
  BY <1>2 DEF StorageOK
<1>4. CASE ~d /\ r > 0
  <2>1. Put(st, key, v) = StorageOf(With(l, key, v), d, k, r - 1, e)
    BY <1>1, <1>2, <1>4 DEF Put, StorageOf, With
  <2>2. r - 1 \in Nat /\ d = FALSE /\ e = FALSE
    BY <1>3, <1>4
  <2> QED BY <1>2, <1>4, <2>1, <2>2
<1>5. CASE ~(~d /\ r > 0)
  <2>1. Put(st, key, v) = StorageOf(l, TRUE, With(k, key, v), r, e)
    BY <1>1, <1>2, <1>5 DEF Put, StorageOf, With
  <2> QED BY <1>2, <2>1
<1> QED BY <1>4, <1>5

\* The key "session" changes alone.
LEMMA SessionKey ==
  ASSUME NEW n \in Nat, NEW m \in Nat, NEW k \in Keys(n, m), NEW v \in SessionRows(n, m) \union {Unset},
         NEW l, l = With(k, "session", v)
  PROVE  l \in Keys(n, m) /\ l.session = v /\ l.dimensions = k.dimensions /\ l.user = k.user
BY DEF Keys, With

\* The key "dimensions" changes alone.
LEMMA DimensionsKey ==
  ASSUME NEW n \in Nat, NEW m \in Nat, NEW k \in Keys(n, m), NEW v \in Dims \union {Unset},
         NEW l, l = With(k, "dimensions", v)
  PROVE  l \in Keys(n, m) /\ l.dimensions = v /\ l.session = k.session /\ l.user = k.user
BY DEF Keys, With

\* The key "user" changes alone.
LEMMA UserKey ==
  ASSUME NEW n \in Nat, NEW m \in Nat, NEW k \in Keys(n, m), NEW v \in Users \union {Unset},
         NEW l, l = With(k, "user", v)
  PROVE  l \in Keys(n, m) /\ l.user = v /\ l.session = k.session /\ l.dimensions = k.dimensions
BY DEF Keys, With

\* Keys that agree are the same.
LEMMA KeysSame ==
  ASSUME NEW n \in Nat, NEW m \in Nat, NEW k \in Keys(n, m), NEW l \in Keys(n, m),
         k.session = l.session, k.dimensions = l.dimensions, k.user = l.user
  PROVE  k = l
BY DEF Keys

\* What a page saved is in localStorage, unless it has given that up.
Saved(p, st, n, m) ==
  /\ StorageOK(p, n, m) /\ p.denied = st.denied
  /\ st.memory => p.memory
  /\ ~p.memory => ~p.denied

\* Saving a key changes it, in localStorage or in memory.
LEMMA PutSaves ==
  ASSUME NEW n \in Nat, NEW m \in Nat, NEW st, StorageOK(st, n, m), NEW key \in {"session", "dimensions", "user"},
         NEW v, With(st.local, key, v) \in Keys(n, m), With(st.kept, key, v) \in Keys(n, m),
         NEW p, Put(st, key, v) = p
  PROVE  /\ Saved(p, st, n, m)
         /\ ~p.memory => p.local = With(st.local, key, v) /\ p.kept = st.kept
         /\ p.memory => p.local = st.local /\ p.kept = With(st.kept, key, v)
<1>1. /\ st.local \in Keys(n, m) /\ st.kept \in Keys(n, m) /\ st.room \in Nat
      /\ st.memory \in BOOLEAN /\ st.denied \in BOOLEAN /\ (st.denied => st.room = 0)
      /\ (~st.memory => st.kept = NoKeys)
  BY DEF StorageOK
<1>2. PICK l, k : l = With(st.local, key, v) /\ k = With(st.kept, key, v)
  OBVIOUS
<1>3. l \in Keys(n, m) /\ k \in Keys(n, m)
  BY <1>2
<1>4. CASE /\ ~st.memory /\ ~st.denied
           /\ \E r \in Nat : p = StorageOf(l, FALSE, st.kept, r, FALSE)
  <2>1. PICK r \in Nat : p = StorageOf(l, FALSE, st.kept, r, FALSE)
    BY <1>4
  <2>2. p.local = l /\ p.memory = FALSE /\ p.kept = st.kept /\ p.room = r /\ p.denied = FALSE
    BY <2>1 DEF StorageOf
  <2>3. StorageOK(p, n, m)
    BY <1>1, <1>3, <1>4, <2>1, <2>2 DEF StorageOK
  <2> QED BY <1>1, <1>2, <1>4, <2>2, <2>3 DEF Saved
<1>5. CASE p = StorageOf(st.local, TRUE, k, st.room, st.denied)
  <2>1. p.local = st.local /\ p.memory = TRUE /\ p.kept = k /\ p.room = st.room /\ p.denied = st.denied
    BY <1>5 DEF StorageOf
  <2>2. StorageOK(p, n, m)
    BY <1>1, <1>3, <1>5, <2>1 DEF StorageOK
  <2> QED BY <1>1, <1>2, <2>1, <2>2 DEF Saved
<1> QED BY <1>2, <1>4, <1>5, PutIs

\* The session is saved, and nothing else.
LEMMA PutSession ==
  ASSUME NEW n \in Nat, NEW m \in Nat, NEW st, StorageOK(st, n, m), NEW v \in SessionRows(n, m) \union {Unset},
         NEW p, Put(st, "session", v) = p
  PROVE  /\ Saved(p, st, n, m)
         /\ p.local.dimensions = st.local.dimensions /\ p.local.user = st.local.user
         /\ p.kept.dimensions = st.kept.dimensions /\ p.kept.user = st.kept.user
         /\ ~p.memory => p.local.session = v
         /\ p.memory => p.kept.session = v
<1>1. st.local \in Keys(n, m) /\ st.kept \in Keys(n, m)
  BY DEF StorageOK
<1> QED BY <1>1, PutSaves, SessionKey

\* The dimensions are.
LEMMA PutDimensions ==
  ASSUME NEW n \in Nat, NEW m \in Nat, NEW st, StorageOK(st, n, m), NEW v \in Dims \union {Unset},
         NEW p, Put(st, "dimensions", v) = p
  PROVE  /\ Saved(p, st, n, m)
         /\ p.local.session = st.local.session /\ p.local.user = st.local.user
         /\ ~p.memory => p.local.dimensions = v
<1>1. st.local \in Keys(n, m) /\ st.kept \in Keys(n, m)
  BY DEF StorageOK
<1> QED BY <1>1, PutSaves, DimensionsKey

\* The user is.
LEMMA PutUser ==
  ASSUME NEW n \in Nat, NEW m \in Nat, NEW st, StorageOK(st, n, m), NEW v \in Users \union {Unset},
         NEW p, Put(st, "user", v) = p
  PROVE  /\ Saved(p, st, n, m)
         /\ p.local.session = st.local.session /\ p.local.dimensions = st.local.dimensions
         /\ ~p.memory => p.local.user = v
<1>1. st.local \in Keys(n, m) /\ st.kept \in Keys(n, m)
  BY DEF StorageOK
<1> QED BY <1>1, PutSaves, UserKey

\* Removing a key, in localStorage or in memory, gives nothing up.
LEMMA RemoveIs ==
  ASSUME NEW n \in Nat, NEW m \in Nat, NEW st, StorageOK(st, n, m), NEW key \in {"session", "dimensions", "user"},
         With(st.local, key, Unset) \in Keys(n, m), With(st.kept, key, Unset) \in Keys(n, m),
         NEW p, RemoveItem(st, key) = p
  PROVE  /\ StorageOK(p, n, m) /\ p.memory = st.memory /\ p.denied = st.denied
         /\ st.memory \/ st.denied => p.local = st.local /\ p.kept = With(st.kept, key, Unset)
         /\ ~st.memory /\ ~st.denied => p.local = With(st.local, key, Unset) /\ p.kept = st.kept
<1>1. PICK l, k, r, d, e : st = StorageOf(l, d, k, r, e)
  BY DEF StorageOK, StorageOf
<1>2. st.local = l /\ st.memory = d /\ st.kept = k /\ st.room = r /\ st.denied = e
  BY <1>1 DEF StorageOf
<1>3. /\ r \in Nat /\ (e => r = 0) /\ d \in BOOLEAN /\ e \in BOOLEAN /\ (~d => k = NoKeys)
      /\ l \in Keys(n, m) /\ k \in Keys(n, m)
  BY <1>2 DEF StorageOK
<1>4. CASE d \/ e
  <2>1. p = StorageOf(l, d, With(k, key, Unset), r, e)
    BY <1>1, <1>2, <1>4 DEF RemoveItem, StorageOf, With
  <2>2. p.local = l /\ p.memory = d /\ p.kept = With(k, key, Unset) /\ p.room = r /\ p.denied = e
    BY <2>1 DEF StorageOf
  <2>3. ~d => With(k, key, Unset) = NoKeys
    <3>1. ASSUME k = NoKeys
          PROVE  With(k, key, Unset) = k
      <4>1. k.session = Unset /\ k.dimensions = Unset /\ k.user = Unset
        BY <3>1 DEF NoKeys
      <4>2. PICK a : a = With(k, key, Unset)
        OBVIOUS
      <4>3. a \in Keys(n, m) /\ a.session = Unset /\ a.dimensions = Unset /\ a.user = Unset
        <5>1. CASE key = "session"
          BY <1>3, <4>1, <4>2, <5>1, SessionKey
        <5>2. CASE key = "dimensions"
          BY <1>3, <4>1, <4>2, <5>2, DimensionsKey
        <5>3. CASE key = "user"
          BY <1>3, <4>1, <4>2, <5>3, UserKey
        <5> QED BY <5>1, <5>2, <5>3
      <4> QED BY <1>3, <4>1, <4>2, <4>3, KeysSame
    <3> QED BY <1>3, <3>1
  <2>4. StorageOK(p, n, m)
    BY <1>2, <1>3, <2>1, <2>2, <2>3 DEF StorageOK
  <2> QED BY <1>2, <1>4, <2>2, <2>4
<1>5. CASE ~d /\ ~e
  <2>1. p = StorageOf(With(l, key, Unset), d, k, r, e)
    BY <1>1, <1>2, <1>5 DEF RemoveItem, StorageOf, With
  <2>2. p.local = With(l, key, Unset) /\ p.memory = d /\ p.kept = k /\ p.room = r /\ p.denied = e
    BY <2>1 DEF StorageOf
  <2>4. StorageOK(p, n, m)
    BY <1>2, <1>3, <2>1, <2>2 DEF StorageOK
  <2> QED BY <1>2, <1>5, <2>2, <2>4
<1> QED BY <1>3, <1>4, <1>5

-----------------------------------------------------------------------------
(* The session manager. *)

\* SaveSession.
LEMMA SessionSaved ==
  ASSUME NEW n \in Nat, NEW m \in Nat, NEW st, StorageOK(st, n, m), NEW x \in SessionRows(n, m),
         NEW at, SaveSession(st, x) = at
  PROVE  /\ Saved(at.st, st, n, m) /\ at.session = x
         /\ at.st.local.dimensions = st.local.dimensions /\ at.st.local.user = st.local.user
         /\ at.st.kept.dimensions = st.kept.dimensions /\ at.st.kept.user = st.kept.user
         /\ ~at.st.memory => at.st.local.session = x
         /\ at.st.memory => at.st.kept.session = x
<1>1. at.st = Put(st, "session", x) /\ at.session = x
  BY DEF SaveSession
<1> QED BY <1>1, PutSession

\* SaveDimensions.
LEMMA DimensionsSaved ==
  ASSUME NEW n \in Nat, NEW m \in Nat, NEW st, StorageOK(st, n, m), NEW x \in SessionRows(n, m),
         NEW at, SaveDimensions(st, x) = at
  PROVE  /\ Saved(at.st, st, n, m) /\ at.session = x /\ at.st.local.user = st.local.user
         /\ ~at.st.memory => at.st.local.session = x /\ at.st.local.dimensions = x.dims
<1>1. PICK p : p = Put(st, "dimensions", x.dims)
  OBVIOUS
<1>2. PICK d \in Dims \union {Unset} : d = x.dims
  BY DEF SessionRows
<1>3. /\ Saved(p, st, n, m) /\ p.local.user = st.local.user
      /\ ~p.memory => p.local.dimensions = x.dims
  <2>1. Put(st, "dimensions", d) = p
    BY <1>1, <1>2
  <2>2. /\ Saved(p, st, n, m) /\ p.local.user = st.local.user
        /\ ~p.memory => p.local.dimensions = d
    BY <2>1, PutDimensions
  <2> QED BY <1>2, <2>2
<1>4. SaveSession(p, x) = at
  BY <1>1 DEF SaveDimensions
<1>5. /\ Saved(at.st, p, n, m) /\ at.session = x
      /\ at.st.local.dimensions = p.local.dimensions /\ at.st.local.user = p.local.user
      /\ ~at.st.memory => at.st.local.session = x
  BY <1>3, <1>4, SessionSaved DEF Saved
<1> QED BY <1>3, <1>5 DEF Saved

\* SaveUserId.
LEMMA UserSaved ==
  ASSUME NEW n \in Nat, NEW m \in Nat, NEW st, StorageOK(st, n, m), NEW x \in SessionRows(n, m),
         NEW at, SaveUserId(st, x) = at
  PROVE  /\ Saved(at.st, st, n, m) /\ at.session = x
         /\ at.st.local.dimensions = st.local.dimensions
         /\ ~at.st.memory => at.st.local.session = x /\ at.st.local.user = x.user
<1>1. PICK p : p = IF x.user = Unset THEN RemoveItem(st, "user") ELSE Put(st, "user", x.user)
  OBVIOUS
<1>2. x.user \in Users \union {Unset}
  BY DEF SessionRows
<1>3. /\ StorageOK(p, n, m) /\ p.denied = st.denied /\ (st.memory => p.memory)
      /\ p.local.dimensions = st.local.dimensions
      /\ ~p.memory => (~p.denied => p.local.user = x.user)
  <2>1. CASE x.user = Unset
    <3>1. st.local \in Keys(n, m) /\ st.kept \in Keys(n, m) /\ RemoveItem(st, "user") = p
      BY <1>1, <2>1 DEF StorageOK
    <3>2. /\ With(st.local, "user", Unset) \in Keys(n, m) /\ With(st.kept, "user", Unset) \in Keys(n, m)
          /\ With(st.local, "user", Unset).user = Unset
          /\ With(st.local, "user", Unset).dimensions = st.local.dimensions
      BY <1>2, <2>1, <3>1, UserKey
    <3>3. /\ StorageOK(p, n, m) /\ p.memory = st.memory /\ p.denied = st.denied
          /\ st.memory \/ st.denied => p.local = st.local /\ p.kept = With(st.kept, "user", Unset)
          /\ ~st.memory /\ ~st.denied => p.local = With(st.local, "user", Unset) /\ p.kept = st.kept
      BY <3>1, <3>2, RemoveIs
    <3> QED BY <2>1, <3>2, <3>3
  <2>2. CASE x.user # Unset
    <3>1. Put(st, "user", x.user) = p
      BY <1>1, <2>2
    <3> QED BY <1>2, <3>1, PutUser DEF Saved
  <2> QED BY <2>1, <2>2
<1>4. SaveSession(p, x) = at
  BY <1>1 DEF SaveUserId
<1>5. /\ Saved(at.st, p, n, m) /\ at.session = x
      /\ at.st.local.dimensions = p.local.dimensions /\ at.st.local.user = p.local.user
      /\ ~at.st.memory => at.st.local.session = x
  BY <1>3, <1>4, SessionSaved
<1> QED BY <1>3, <1>5 DEF Saved

\* What a session says of the visitor, and what a page that loads will read.
Truth == [dims : Dims, user : Users \union {Unset}]
Says(session, i) == session.dims = i.dims /\ session.user = i.user
Knows(st, i) ==
  /\ LoadDimensions(st) = i.dims /\ Get(st, "user") = i.user
  /\ CanResume(st) => Says(Get(st, "session"), i)

\* A link names a session there was.
LinkOK(link, n) == link # Unset => link.session \in 1..n

\* What a page reads.
LEMMA Reads ==
  ASSUME NEW n \in Nat, NEW m \in Nat, NEW st, StorageOK(st, n, m)
  PROVE  /\ Get(st, "session") \in SessionRows(n, m) \union {Unset} /\ Get(st, "user") \in Users \union {Unset}
         /\ LoadDimensions(st) \in Dims
         /\ (st.memory \/ st.denied) => /\ Get(st, "session") = st.kept.session /\ Get(st, "user") = st.kept.user
                                        /\ Get(st, "dimensions") = st.kept.dimensions
         /\ ~(st.memory \/ st.denied) => /\ Get(st, "session") = st.local.session /\ Get(st, "user") = st.local.user
                                         /\ Get(st, "dimensions") = st.local.dimensions
<1>1. st.local \in Keys(n, m) /\ st.kept \in Keys(n, m)
  BY DEF StorageOK
<1>2. /\ st.local.session \in SessionRows(n, m) \union {Unset} /\ st.kept.session \in SessionRows(n, m) \union {Unset}
      /\ st.local.user \in Users \union {Unset} /\ st.kept.user \in Users \union {Unset}
      /\ st.local.dimensions \in Dims \union {Unset} /\ st.kept.dimensions \in Dims \union {Unset}
  BY <1>1 DEF Keys
<1>3. /\ (st.memory \/ st.denied) => /\ Get(st, "session") = st.kept.session /\ Get(st, "user") = st.kept.user
                                     /\ Get(st, "dimensions") = st.kept.dimensions
      /\ ~(st.memory \/ st.denied) => /\ Get(st, "session") = st.local.session /\ Get(st, "user") = st.local.user
                                      /\ Get(st, "dimensions") = st.local.dimensions
  BY DEF Get
<1>4. NoDims \in Dims
  BY DEF NoDims, Dims
<1>5. Get(st, "dimensions") \in Dims \union {Unset}
  BY <1>2, <1>3
<1>6. LoadDimensions(st) \in Dims
  BY <1>4, <1>5 DEF LoadDimensions
<1> QED BY <1>2, <1>3, <1>6

\* A new session has the dimensions and the user that are stored.
LEMMA SessionCreated ==
  ASSUME now \in Nat, NEW n \in Nat, NEW st, StorageOK(st, n, now), NEW id \in 1..n, NEW x, NewSession(st, id) = x
  PROVE  /\ x \in SessionRows(n, now) /\ x.dims = LoadDimensions(st) /\ x.user = Get(st, "user")
         /\ \A i : Knows(st, i) => Says(x, i)
<1>1. PICK d, u : d = LoadDimensions(st) /\ u = Get(st, "user")
  OBVIOUS
<1>2. d \in Dims /\ u \in Users \union {Unset}
  BY <1>1, Reads
<1>3. x = [id |-> id, active |-> now, dims |-> d, user |-> u]
  BY <1>1 DEF NewSession
<1>4. x \in SessionRows(n, now) /\ x.dims = d /\ x.user = u
  BY <1>2, <1>3 DEF SessionRows
<1> QED BY <1>1, <1>4 DEF Knows, Says

\* The session that a page takes up.
TakenUp(st, link, newId) ==
  IF IsValidLink(link) THEN NewSession(st, link.session)
  ELSE IF CanResume(st) THEN Resumed(Get(st, "session"))
  ELSE NewSession(st, newId)

\* It says of the visitor what the storage says.
LEMMA TakenUpSays ==
  ASSUME now \in Nat, NEW n \in Nat, NEW st, StorageOK(st, n, now), NEW link, LinkOK(link, n), NEW newId \in 1..n,
         NEW x, TakenUp(st, link, newId) = x
  PROVE  x \in SessionRows(n, now) /\ \A i : Knows(st, i) => Says(x, i)
<1>1. CASE IsValidLink(link)
  <2>1. link.session \in 1..n
    BY <1>1 DEF IsValidLink, LinkOK
  <2>2. NewSession(st, link.session) = x
    BY <1>1 DEF TakenUp
  <2> QED BY <2>1, <2>2, SessionCreated
<1>2. CASE ~IsValidLink(link) /\ CanResume(st)
  <2>1. PICK y : y = Get(st, "session")
    OBVIOUS
  <2>2. y \in SessionRows(n, now)
    BY <1>2, <2>1, Reads DEF CanResume
  <2>3. x = [y EXCEPT !.active = now]
    BY <1>2, <2>1 DEF TakenUp, Resumed
  <2>4. now \in 0..now
    OBVIOUS
  <2>5. x \in SessionRows(n, now) /\ x.dims = y.dims /\ x.user = y.user
    BY <2>2, <2>3, <2>4 DEF SessionRows
  <2> QED BY <1>2, <2>1, <2>5 DEF Knows, Says
<1>3. CASE ~IsValidLink(link) /\ ~CanResume(st)
  <2>1. NewSession(st, newId) = x
    BY <1>3 DEF TakenUp
  <2> QED BY <2>1, SessionCreated
<1> QED BY <1>1, <1>2, <1>3

\* The dimensions of an address are added to those there are.
LEMMA UrlApplied ==
  ASSUME NEW n \in Nat, NEW m \in Nat, NEW at, StorageOK(at.st, n, m), at.session \in SessionRows(n, m),
         ~at.st.memory => ~at.st.denied /\ at.st.local.session = at.session,
         NEW url \in [Indexes -> UrlTexts \union {Unset}], NEW b, ApplyUrlDimensions(at, url) = b
  PROVE  /\ StorageOK(b.st, n, m) /\ (at.st.memory => b.st.memory) /\ b.session \in SessionRows(n, m)
         /\ b.session.dims = Added(at.session.dims, url) /\ b.session.user = at.session.user
         /\ b.session.id = at.session.id
         /\ b.st.local.user = at.st.local.user
         /\ ~b.st.memory => b.st.local.session = b.session
         /\ ~b.st.memory => \/ /\ b.st.local.dimensions = at.st.local.dimensions
                               /\ b.session.dims = at.session.dims
                            \/ b.st.local.dimensions = b.session.dims
<1>1. PICK x, d : x = at.session /\ d = Added(at.session.dims, url)
  OBVIOUS
<1>2. x \in SessionRows(n, m) /\ x.dims \in Dims
  BY <1>1 DEF SessionRows
<1>3. d \in Dims
  BY <1>1, <1>2 DEF Added, Dims
<1>4. CASE d = x.dims
  BY <1>1, <1>2, <1>4 DEF ApplyUrlDimensions
<1>5. CASE d # x.dims
  <2>1. PICK y : y = [x EXCEPT !.dims = d]
    OBVIOUS
  <2>2. y \in SessionRows(n, m) /\ y.dims = d /\ y.user = x.user /\ y.id = x.id
    BY <1>2, <1>3, <2>1 DEF SessionRows
  <2>3. SaveDimensions(at.st, y) = b
    BY <1>1, <1>5, <2>1 DEF ApplyUrlDimensions
  <2>4. /\ Saved(b.st, at.st, n, m) /\ b.session = y /\ b.st.local.user = at.st.local.user
        /\ ~b.st.memory => b.st.local.session = y /\ b.st.local.dimensions = y.dims
    BY <2>2, <2>3, DimensionsSaved
  <2> QED BY <1>1, <2>2, <2>4 DEF Saved
<1> QED BY <1>4, <1>5

\* Nothing is left of a visitor whose keys are removed.
Blank == [dims |-> NoDims, user |-> Unset]

\* The keys are removed one after the other.
LEMMA Emptied ==
  ASSUME NEW n \in Nat, NEW m \in Nat, NEW st, StorageOK(st, n, m),
         NEW p, RemoveItem(RemoveItem(RemoveItem(st, "session"), "dimensions"), "user") = p
  PROVE  /\ StorageOK(p, n, m) /\ p.memory = st.memory /\ p.denied = st.denied
         /\ Get(p, "dimensions") = Unset /\ Get(p, "user") = Unset
         /\ ~p.memory => p.kept = NoKeys
         /\ p.memory => p.kept.dimensions = Unset /\ p.kept.user = Unset
         /\ ~p.memory /\ ~p.denied => p.local.dimensions = Unset /\ p.local.user = Unset
<1>1. PICK a, b : a = RemoveItem(st, "session") /\ b = RemoveItem(a, "dimensions")
  OBVIOUS
<1>2. \A k \in Keys(n, m) :
        /\ With(k, "session", Unset) \in Keys(n, m)
        /\ With(k, "dimensions", Unset) \in Keys(n, m) /\ With(k, "dimensions", Unset).dimensions = Unset
        /\ With(k, "user", Unset) \in Keys(n, m) /\ With(k, "user", Unset).user = Unset
        /\ With(k, "user", Unset).dimensions = k.dimensions
  BY SessionKey, DimensionsKey, UserKey
<1>3. StorageOK(a, n, m) /\ a.memory = st.memory /\ a.denied = st.denied
  <2>1. st.local \in Keys(n, m) /\ st.kept \in Keys(n, m)
    BY DEF StorageOK
  <2> QED BY <1>1, <1>2, <2>1, RemoveIs
<1>4. /\ StorageOK(b, n, m) /\ b.memory = st.memory /\ b.denied = st.denied
      /\ b.memory \/ b.denied => b.kept.dimensions = Unset
      /\ ~b.memory /\ ~b.denied => b.local.dimensions = Unset
  <2>1. a.local \in Keys(n, m) /\ a.kept \in Keys(n, m)
    BY <1>3 DEF StorageOK
  <2>2. /\ StorageOK(b, n, m) /\ b.memory = a.memory /\ b.denied = a.denied
        /\ a.memory \/ a.denied => b.local = a.local /\ b.kept = With(a.kept, "dimensions", Unset)
        /\ ~a.memory /\ ~a.denied => b.local = With(a.local, "dimensions", Unset) /\ b.kept = a.kept
    BY <1>1, <1>2, <1>3, <2>1, RemoveIs
  <2> QED BY <1>2, <1>3, <2>1, <2>2
<1>5. /\ StorageOK(p, n, m) /\ p.memory = st.memory /\ p.denied = st.denied
      /\ p.memory \/ p.denied => p.kept.dimensions = Unset /\ p.kept.user = Unset
      /\ ~p.memory /\ ~p.denied => p.local.dimensions = Unset /\ p.local.user = Unset
  <2>1. b.local \in Keys(n, m) /\ b.kept \in Keys(n, m)
    BY <1>4 DEF StorageOK
  <2>2. /\ StorageOK(p, n, m) /\ p.memory = b.memory /\ p.denied = b.denied
        /\ b.memory \/ b.denied => p.local = b.local /\ p.kept = With(b.kept, "user", Unset)
        /\ ~b.memory /\ ~b.denied => p.local = With(b.local, "user", Unset) /\ p.kept = b.kept
    BY <1>1, <1>2, <1>4, <2>1, RemoveIs
  <2> QED BY <1>2, <1>4, <2>1, <2>2
<1>6. Get(p, "dimensions") = Unset /\ Get(p, "user") = Unset
  BY <1>5, Reads
<1>7. ~p.memory => p.kept = NoKeys
  BY <1>5 DEF StorageOK
<1> QED BY <1>5, <1>6, <1>7

\* A reset leaves a visitor of whom nothing is known, although the session is taken up again.
LEMMA ResetIs ==
  ASSUME now \in Nat, NEW n \in Nat, NEW st, StorageOK(st, n, now), NEW link, LinkOK(link, n), NEW newId \in 1..n,
         NEW at, ResetAll(st, link, newId) = at
  PROVE  /\ StorageOK(at.st, n, now) /\ (st.memory => at.st.memory)
         /\ at.session \in SessionRows(n, now) /\ Says(at.session, Blank)
         /\ ~at.st.memory => /\ at.st.local.session = at.session
                             /\ at.st.local.dimensions = Unset /\ at.st.local.user = Unset
<1>1. PICK e : e = RemoveItem(RemoveItem(RemoveItem(st, "session"), "dimensions"), "user")
  OBVIOUS
<1>2. /\ StorageOK(e, n, now) /\ e.memory = st.memory /\ e.denied = st.denied
      /\ Get(e, "dimensions") = Unset /\ Get(e, "user") = Unset
      /\ ~e.memory => e.kept = NoKeys
      /\ e.memory => e.kept.dimensions = Unset /\ e.kept.user = Unset
      /\ ~e.memory /\ ~e.denied => e.local.dimensions = Unset /\ e.local.user = Unset
  BY <1>1, Emptied
<1>3. PICK y, a : y = NewSession(e, newId) /\ a = SaveSession(e, y)
  OBVIOUS
<1>4. y \in SessionRows(n, now) /\ y.dims = NoDims /\ y.user = Unset
  <2>1. LoadDimensions(e) = NoDims
    BY <1>2 DEF LoadDimensions
  <2> QED BY <1>2, <1>3, <2>1, SessionCreated
<1>5. /\ Saved(a.st, e, n, now)
      /\ a.st.local.dimensions = e.local.dimensions /\ a.st.local.user = e.local.user
      /\ a.st.kept.dimensions = e.kept.dimensions /\ a.st.kept.user = e.kept.user
      /\ ~a.st.memory => a.st.local.session = y
      /\ a.st.memory => a.st.kept.session = y
  BY <1>2, <1>3, <1>4, SessionSaved
<1>6. e.kept.dimensions = Unset /\ e.kept.user = Unset
  <2>1. NoKeys.dimensions = Unset /\ NoKeys.user = Unset
    BY DEF NoKeys
  <2> QED BY <1>2, <2>1
<1>7. ~a.st.memory => ~e.memory /\ ~e.denied /\ ~a.st.denied
  BY <1>5 DEF Saved
<1>8. Get(a.st, "session") = y /\ Get(a.st, "user") = Unset /\ Get(a.st, "dimensions") = Unset
  <2>1. StorageOK(a.st, n, now)
    BY <1>5 DEF Saved
  <2>2. CASE a.st.memory
    BY <1>5, <1>6, <2>1, <2>2, Reads
  <2>3. CASE ~a.st.memory
    BY <1>2, <1>5, <1>7, <2>1, <2>3, Reads
  <2> QED BY <2>2, <2>3
<1>9. Knows(a.st, Blank)
  <2>1. Blank.dims = NoDims /\ Blank.user = Unset
    BY DEF Blank
  <2> QED BY <1>4, <1>8, <2>1 DEF Knows, LoadDimensions, Says
<1>10. PICK x : x = TakenUp(a.st, link, newId)
  OBVIOUS
<1>11. StorageOK(a.st, n, now) /\ x \in SessionRows(n, now) /\ Says(x, Blank)
  BY <1>5, <1>9, <1>10, TakenUpSays DEF Saved
<1>12. SaveSession(a.st, x) = at
  BY <1>1, <1>3, <1>10 DEF ResetAll, GetOrCreate, TakenUp
<1>13. /\ Saved(at.st, a.st, n, now) /\ at.session = x
       /\ at.st.local.dimensions = a.st.local.dimensions /\ at.st.local.user = a.st.local.user
       /\ ~at.st.memory => at.st.local.session = x
  BY <1>11, <1>12, SessionSaved
<1>14. (st.memory => at.st.memory) /\ (~at.st.memory => ~a.st.memory)
  BY <1>2, <1>5, <1>13 DEF Saved
<1> QED BY <1>2, <1>5, <1>7, <1>11, <1>13, <1>14 DEF Saved

-----------------------------------------------------------------------------
(* The invariant. *)

\* The record of a page.
PageOf(s, d, k, x, l) == [site |-> s, memory |-> d, kept |-> k, session |-> x, link |-> l]

PageOK(r, n, m) ==
  /\ r = PageOf(r.site, r.memory, r.kept, r.session, r.link)
  /\ r.memory \in BOOLEAN /\ r.kept \in Keys(n, m) /\ (~r.memory => r.kept = NoKeys)
  /\ r.session # Unset => r.site \in Sites /\ r.session \in SessionRows(n, m)
  /\ LinkOK(r.link, n)

VisitorTypes ==
  /\ now \in Nat /\ sessionIds \in Nat
  /\ storages \in [Sites -> Keys(sessionIds, now)]
  /\ tab = [t \in PageTabs |-> tab[t]] /\ \A t \in PageTabs : PageOK(tab[t], sessionIds, now)
  /\ \A l \in links : l.session \in 1..sessionIds /\ l.time \in 0..now
  /\ truth \in [Sites -> Truth]
  /\ upToDate \in [PageTabs -> BOOLEAN]
  /\ confused \in [Sites -> SUBSET {"stale", "failed"}]

VisitorInvariant == VisitorTypes /\ PagesKnowTheVisitor /\ KeysAgree /\ LastUserStands

\* What the keys of a storage say of the visitor.
Agree(keys, i) ==
  /\ keys.user = i.user
  /\ keys.dimensions = i.dims \/ (keys.dimensions = Unset /\ i.dims = NoDims)
  /\ keys.session # Unset => Says(keys.session, i)

\* A session says of the visitor what its identity is.
LEMMA SaysIs ==
  ASSUME NEW i \in Truth, NEW x
  PROVE  Says(x, i) <=> Identity(x) = i
<1>1. PICK a : a = Identity(x)
  OBVIOUS
<1>2. a = [dims |-> x.dims, user |-> x.user] /\ i = [dims |-> i.dims, user |-> i.user]
  BY <1>1 DEF Identity, Truth
<1>3. a.dims = x.dims /\ a.user = x.user
  BY <1>2
<1> QED BY <1>1, <1>2, <1>3 DEF Says

\* More sessions and more time are more to choose from.
LEMMA Grows ==
  ASSUME NEW n \in Nat, NEW m \in Nat, NEW n2 \in Nat, NEW m2 \in Nat, n <= n2, m <= m2
  PROVE  /\ SessionRows(n, m) \subseteq SessionRows(n2, m2) /\ Keys(n, m) \subseteq Keys(n2, m2)
         /\ \A l : LinkOK(l, n) => LinkOK(l, n2)
         /\ \A r : PageOK(r, n, m) => PageOK(r, n2, m2)
<1>1. SessionRows(n, m) \subseteq SessionRows(n2, m2)
  BY DEF SessionRows
<1>2. Keys(n, m) \subseteq Keys(n2, m2)
  BY <1>1 DEF Keys
<1>3. \A l : LinkOK(l, n) => LinkOK(l, n2)
  BY DEF LinkOK
<1>4. ASSUME NEW r, PageOK(r, n, m)
      PROVE  PageOK(r, n2, m2)
  BY <1>1, <1>2, <1>3, <1>4 DEF PageOK
<1> QED BY <1>1, <1>2, <1>3, <1>4

\* What an operation of a page leaves behind keeps the invariant.
LEMMA Left ==
  ASSUME VisitorInvariant, NEW t \in PageTabs, NEW s \in Sites, NEW page, NEW at, NEW asked \in Truth, NEW inStep \in BOOLEAN,
         Leaves(t, s, page, at, asked, inStep), now' = now, links' = links, NEW n \in Nat, sessionIds' = n,
         sessionIds <= n,
         page = PageOf(s, page.memory, page.kept, page.session, page.link), LinkOK(page.link, n),
         StorageOK(at.st, n, now), at.session \in SessionRows(n, now),
         inStep => Says(at.session, asked),
         ~at.st.memory /\ "failed" \notin confused[s] => at.st.local.user = asked.user,
         ~at.st.memory /\ inStep /\ confused[s] = {} => Agree(at.st.local, asked)
  PROVE  VisitorInvariant'
<1>0. VisitorTypes /\ PagesKnowTheVisitor /\ KeysAgree /\ LastUserStands /\ now \in Nat /\ sessionIds \in Nat
  BY DEF VisitorInvariant, VisitorTypes
<1>1. PICK p : p = [page EXCEPT !.memory = at.st.memory, !.kept = at.st.kept, !.session = at.session]
  OBVIOUS
<1>2. /\ p = PageOf(s, at.st.memory, at.st.kept, at.session, page.link)
      /\ p.site = s /\ p.memory = at.st.memory /\ p.kept = at.st.kept /\ p.session = at.session /\ p.link = page.link
  <2>1. PICK d, k, x, l : page = PageOf(s, d, k, x, l) /\ l = page.link
    OBVIOUS
  <2>2. PICK f, g, h : f = at.st.memory /\ g = at.st.kept /\ h = at.session
    OBVIOUS
  <2>3. p = PageOf(s, f, g, h, l)
    BY <1>1, <2>1, <2>2 DEF PageOf
  <2> QED BY <2>1, <2>2, <2>3 DEF PageOf
<1>3. PICK c : c = confused[s] \union (IF inStep THEN {} ELSE {"stale"})
                              \union (IF at.st.memory THEN {"failed"} ELSE {})
  OBVIOUS
<1>4. /\ storages' = [storages EXCEPT ![s] = at.st.local]
      /\ tab' = [tab EXCEPT ![t] = p]
      /\ truth' = [truth EXCEPT ![s] = asked]
      /\ upToDate' = [u \in PageTabs |->
                        IF u = t THEN inStep ELSE upToDate[u] /\ (tab[u].site = s => asked = truth[s])]
      /\ confused' = [confused EXCEPT ![s] = c]
  BY <1>1, <1>3 DEF Leaves, VisitorTypes, VisitorInvariant
<1>5. /\ storages \in [Sites -> Keys(sessionIds, now)] /\ truth \in [Sites -> Truth]
      /\ tab = [u \in PageTabs |-> tab[u]] /\ (\A u \in PageTabs : PageOK(tab[u], sessionIds, now))
      /\ upToDate \in [PageTabs -> BOOLEAN] /\ confused \in [Sites -> SUBSET {"stale", "failed"}]
      /\ \A l \in links : l.session \in 1..sessionIds /\ l.time \in 0..now
  BY <1>0 DEF VisitorTypes
<1>6. /\ tab'[t] = p /\ tab' = [u \in PageTabs |-> tab'[u]]
      /\ \A u \in PageTabs : u # t => tab'[u] = tab[u]
  BY <1>4, <1>5
<1>7. /\ storages'[s] = at.st.local /\ truth'[s] = asked /\ confused'[s] = c
      /\ \A z \in Sites : z # s => storages'[z] = storages[z] /\ truth'[z] = truth[z] /\ confused'[z] = confused[z]
  BY <1>4, <1>5
<1>8. VisitorTypes'
  <2>1. PageOK(p, n, now)
    <3>1. at.st.memory \in BOOLEAN /\ at.st.kept \in Keys(n, now) /\ (~at.st.memory => at.st.kept = NoKeys)
      BY DEF StorageOK
    <3> QED BY <1>2, <3>1 DEF PageOK
  <2>2. \A u \in PageTabs : PageOK(tab'[u], n, now)
    BY <1>0, <1>5, <1>6, <2>1, Grows
  <2>3. storages' \in [Sites -> Keys(n, now)]
    <3>1. at.st.local \in Keys(n, now)
      BY DEF StorageOK
    <3>2. \A z \in Sites : storages[z] \in Keys(n, now)
      BY <1>0, <1>5, Grows
    <3> QED BY <1>4, <1>5, <3>1, <3>2
  <2>4. \A l \in links : l.session \in 1..n /\ l.time \in 0..now
    BY <1>0, <1>5
  <2>5. confused' \in [Sites -> SUBSET {"stale", "failed"}]
    BY <1>3, <1>4, <1>5
  <2>6. truth' \in [Sites -> Truth]
    BY <1>4, <1>5
  <2>7. upToDate' \in [PageTabs -> BOOLEAN]
    BY <1>4, <1>5
  <2>8. (\A u \in PageTabs : PageOK(tab[u], sessionIds, now))' <=> \A u \in PageTabs : PageOK(tab'[u], n, now)
    OBVIOUS
  <2> QED BY <1>0, <1>6, <2>2, <2>3, <2>4, <2>5, <2>6, <2>7 DEF VisitorTypes
<1>9. PagesKnowTheVisitor'
  <2> SUFFICES ASSUME NEW u \in PageTabs, tab'[u].session # Unset, upToDate'[u]
               PROVE  Identity(tab'[u].session) = truth'[tab'[u].site]
    BY DEF PagesKnowTheVisitor, Here, Asked, Identity
  <2>1. CASE u = t
    <3>1. inStep
      BY <1>4, <2>1
    <3> QED BY <1>2, <1>6, <1>7, <2>1, <3>1, SaysIs
  <2>2. CASE u # t
    <3>1. tab'[u] = tab[u] /\ upToDate[u] /\ (tab[u].site = s => asked = truth[s])
      BY <1>4, <1>6, <2>2
    <3>2. tab[u].session # Unset /\ tab[u].site \in Sites
      BY <1>5, <3>1 DEF PageOK
    <3>3. Identity(tab[u].session) = truth[tab[u].site]
      BY <1>0, <3>1, <3>2 DEF PagesKnowTheVisitor, Here, Asked
    <3>4. truth'[tab[u].site] = truth[tab[u].site]
      BY <1>7, <3>1, <3>2
    <3> QED BY <3>1, <3>3, <3>4
  <2> QED BY <2>1, <2>2
<1>10. KeysAgree'
  <2> SUFFICES ASSUME NEW z \in Sites, confused'[z] = {}
               PROVE  /\ storages'[z].user = truth'[z].user
                      /\ \/ storages'[z].dimensions = truth'[z].dims
                         \/ storages'[z].dimensions = Unset /\ truth'[z].dims = NoDims
                      /\ storages'[z].session # Unset => Identity(storages'[z].session) = truth'[z]
    BY DEF KeysAgree, Identity
  <2>1. CASE z = s
    <3>1. inStep /\ ~at.st.memory /\ confused[s] = {}
      BY <1>3, <1>7, <2>1
    <3>2. Agree(at.st.local, asked)
      BY <3>1
    <3> QED BY <1>7, <2>1, <3>2, SaysIs DEF Agree
  <2>2. CASE z # s
    BY <1>0, <1>7, <2>2 DEF KeysAgree
  <2> QED BY <2>1, <2>2
<1>11. LastUserStands'
  <2> SUFFICES ASSUME NEW z \in Sites, "failed" \notin confused'[z]
               PROVE  storages'[z].user = truth'[z].user
    BY DEF LastUserStands
  <2>1. CASE z = s
    <3>1. ~at.st.memory /\ "failed" \notin confused[s]
      BY <1>3, <1>7, <2>1
    <3> QED BY <1>7, <2>1, <3>1
  <2>2. CASE z # s
    BY <1>0, <1>7, <2>2 DEF LastUserStands
  <2> QED BY <2>1, <2>2
<1> QED BY <1>8, <1>9, <1>10, <1>11 DEF VisitorInvariant

\* localStorage is denied to a page with room for nothing.
LEMMA AnswerIs ==
  ASSUME NEW answer \in Answers
  PROVE  answer.room \in Nat /\ answer.denied \in BOOLEAN /\ (answer.denied => answer.room = 0)
<1>1. CASE answer = Fine
  BY <1>1 DEF Fine, Plenty
<1>2. CASE answer \in [room : 0..Plenty-1, denied : {FALSE}]
  <2>1. answer.room \in 0..Plenty-1 /\ answer.denied = FALSE
    BY <1>2
  <2>2. answer.room \in Nat
    BY <2>1 DEF Plenty
  <2> QED BY <2>1, <2>2
<1>3. CASE answer = [room |-> 0, denied |-> TRUE]
  BY <1>3
<1> QED BY <1>1, <1>2, <1>3 DEF Answers

\* The keys of a new page are none.
LEMMA NoKeysAre ==
  ASSUME NEW n \in Nat, NEW m \in Nat
  PROVE  NoKeys \in Keys(n, m)
BY DEF NoKeys, Keys

\* A page that is there operates on a storage that is in order.
LEMMA PlaceIs ==
  ASSUME VisitorInvariant, NEW t \in PageTabs, Here(t), NEW answer \in Answers, NEW n \in Nat, sessionIds <= n,
         NEW st, Place(t, answer) = st
  PROVE  /\ StorageOK(st, n, now) /\ st.local = storages[tab[t].site]
         /\ tab[t].site \in Sites /\ tab[t].session \in SessionRows(n, now)
         /\ tab[t] = PageOf(tab[t].site, tab[t].memory, tab[t].kept, tab[t].session, tab[t].link)
         /\ LinkOK(tab[t].link, n) /\ Asked(t) \in Truth
         /\ upToDate[t] => Says(tab[t].session, Asked(t))
<1>1. /\ now \in Nat /\ sessionIds \in Nat /\ storages \in [Sites -> Keys(sessionIds, now)]
      /\ PageOK(tab[t], sessionIds, now) /\ truth \in [Sites -> Truth] /\ PagesKnowTheVisitor
  BY DEF VisitorInvariant, VisitorTypes
<1>2. PICK r : r = tab[t]
  OBVIOUS
<1>3. r.site \in Sites /\ PageOK(r, n, now)
  BY <1>1, <1>2, Grows DEF PageOK, Here
<1>4. storages[r.site] \in Keys(n, now)
  BY <1>1, <1>3, Grows
<1>5. PICK l : l = storages[r.site]
  OBVIOUS
<1>6. answer.room \in Nat /\ answer.denied \in BOOLEAN /\ (answer.denied => answer.room = 0)
  BY AnswerIs
<1>7. st = StorageOf(l, r.memory, r.kept, answer.room, answer.denied)
  BY <1>2, <1>5 DEF Place, Storage, StorageOf
<1>8. st.local = l /\ st.memory = r.memory /\ st.kept = r.kept /\ st.room = answer.room /\ st.denied = answer.denied
  BY <1>7 DEF StorageOf
<1>9. StorageOK(st, n, now)
  BY <1>3, <1>4, <1>5, <1>6, <1>7, <1>8 DEF StorageOK, PageOK
<1>10. truth[r.site] \in Truth
  BY <1>1, <1>3
<1>11. upToDate[t] => Says(r.session, Asked(t))
  BY <1>1, <1>2, <1>10, SaysIs DEF PagesKnowTheVisitor, Here, Asked
<1> QED BY <1>2, <1>3, <1>5, <1>8, <1>9, <1>10, <1>11 DEF PageOK, Here, Asked

\* The dimensions of the page become d, those asked for e.
AsksDimensions(t, d, e, answer) ==
  /\ Calls(t, SaveDimensions(Place(t, answer), [tab[t].session EXCEPT !.dims = d]), [Asked(t) EXCEPT !.dims = e])
  /\ UNCHANGED sessionIds

\* setDimension and clearDimensions.
LEMMA DimensionsStep ==
  ASSUME VisitorInvariant, NEW t \in PageTabs, NEW answer \in Answers, NEW d \in Dims, NEW e \in Dims,
         upToDate[t] => d = e, AsksDimensions(t, d, e, answer)
  PROVE  VisitorInvariant'
<1>0. PICK x, i : x = [tab[t].session EXCEPT !.dims = d] /\ i = [Asked(t) EXCEPT !.dims = e]
  OBVIOUS
<1>1. PICK st, at, n : st = Place(t, answer) /\ at = SaveDimensions(st, x) /\ n = sessionIds
  OBVIOUS
<1>2. n \in Nat /\ sessionIds <= n /\ Here(t) /\ now \in Nat
  BY <1>1 DEF VisitorInvariant, VisitorTypes, Calls, AsksDimensions
<1>3. /\ StorageOK(st, n, now) /\ st.local = storages[tab[t].site]
      /\ tab[t].site \in Sites /\ tab[t].session \in SessionRows(n, now)
      /\ tab[t] = PageOf(tab[t].site, tab[t].memory, tab[t].kept, tab[t].session, tab[t].link)
      /\ LinkOK(tab[t].link, n) /\ Asked(t) \in Truth
      /\ upToDate[t] => Says(tab[t].session, Asked(t))
  BY <1>1, <1>2, PlaceIs
<1>4. PICK s, page, y, j : s = tab[t].site /\ page = tab[t] /\ y = tab[t].session /\ j = Asked(t)
  OBVIOUS
<1>5. x \in SessionRows(n, now) /\ x.dims = d /\ x.user = y.user
  BY <1>0, <1>3, <1>4 DEF SessionRows
<1>6. i \in Truth /\ i.dims = e /\ i.user = j.user
  BY <1>0, <1>3, <1>4 DEF Truth
<1>7. /\ Saved(at.st, st, n, now) /\ at.session = x /\ at.st.local.user = st.local.user
      /\ ~at.st.memory => at.st.local.session = x /\ at.st.local.dimensions = x.dims
  BY <1>1, <1>2, <1>3, <1>5, DimensionsSaved
<1>8. /\ Leaves(t, s, page, at, i, upToDate[t]) /\ now' = now /\ links' = links /\ sessionIds' = n
  BY <1>0, <1>1, <1>4 DEF Calls, AsksDimensions
<1>9. upToDate[t] => Says(x, i)
  BY <1>3, <1>4, <1>5, <1>6 DEF Says
<1>10. /\ "failed" \notin confused[s] => storages[s].user = j.user
       /\ confused[s] = {} => storages[s].user = j.user
  BY <1>3, <1>4 DEF VisitorInvariant, LastUserStands, KeysAgree, Asked
<1>11. ~at.st.memory /\ "failed" \notin confused[s] => at.st.local.user = i.user
  BY <1>3, <1>4, <1>6, <1>7, <1>10
<1>12. ~at.st.memory /\ upToDate[t] /\ confused[s] = {} => Agree(at.st.local, i)
  BY <1>3, <1>4, <1>5, <1>6, <1>7, <1>9, <1>10 DEF Agree
<1>13. PICK b \in BOOLEAN : b = upToDate[t]
  BY DEF VisitorInvariant, VisitorTypes
<1>14. StorageOK(at.st, n, now)
  BY <1>7 DEF Saved
<1> QED
  BY <1>2, <1>3, <1>4, <1>5, <1>6, <1>7, <1>8, <1>9, <1>11, <1>12, <1>13, <1>14, Left

\* setUserId.
LEMMA UserStep ==
  ASSUME VisitorInvariant, NEW t \in PageTabs, NEW answer \in Answers, NEW u \in Users \union {Unset}, SetUserId(t, u, answer)
  PROVE  VisitorInvariant'
<1>0. PICK x, i : x = [tab[t].session EXCEPT !.user = u] /\ i = [Asked(t) EXCEPT !.user = u]
  OBVIOUS
<1>1. PICK st, at, n : st = Place(t, answer) /\ at = SaveUserId(st, x) /\ n = sessionIds
  OBVIOUS
<1>2. n \in Nat /\ sessionIds <= n /\ Here(t) /\ now \in Nat
  BY <1>1 DEF VisitorInvariant, VisitorTypes, Calls, SetUserId
<1>3. /\ StorageOK(st, n, now) /\ st.local = storages[tab[t].site]
      /\ tab[t].site \in Sites /\ tab[t].session \in SessionRows(n, now)
      /\ tab[t] = PageOf(tab[t].site, tab[t].memory, tab[t].kept, tab[t].session, tab[t].link)
      /\ LinkOK(tab[t].link, n) /\ Asked(t) \in Truth
      /\ upToDate[t] => Says(tab[t].session, Asked(t))
  BY <1>1, <1>2, PlaceIs
<1>4. PICK s, page, y, j : s = tab[t].site /\ page = tab[t] /\ y = tab[t].session /\ j = Asked(t)
  OBVIOUS
<1>5. x \in SessionRows(n, now) /\ x.dims = y.dims /\ x.user = u
  BY <1>0, <1>3, <1>4 DEF SessionRows
<1>6. i \in Truth /\ i.dims = j.dims /\ i.user = u
  BY <1>0, <1>3, <1>4 DEF Truth
<1>7. /\ Saved(at.st, st, n, now) /\ at.session = x
      /\ at.st.local.dimensions = st.local.dimensions
      /\ ~at.st.memory => at.st.local.session = x /\ at.st.local.user = x.user
  BY <1>1, <1>2, <1>3, <1>5, UserSaved
<1>8. /\ Leaves(t, s, page, at, i, upToDate[t]) /\ now' = now /\ links' = links /\ sessionIds' = n
  BY <1>0, <1>1, <1>4 DEF Calls, SetUserId
<1>9. upToDate[t] => Says(x, i)
  BY <1>3, <1>4, <1>5, <1>6 DEF Says
<1>10. confused[s] = {} => storages[s].dimensions = j.dims \/ (storages[s].dimensions = Unset /\ j.dims = NoDims)
  BY <1>3, <1>4 DEF VisitorInvariant, KeysAgree, Asked
<1>11. ~at.st.memory /\ "failed" \notin confused[s] => at.st.local.user = i.user
  BY <1>5, <1>6, <1>7
<1>12. ~at.st.memory /\ upToDate[t] /\ confused[s] = {} => Agree(at.st.local, i)
  BY <1>3, <1>4, <1>5, <1>6, <1>7, <1>9, <1>10 DEF Agree
<1>13. PICK b \in BOOLEAN : b = upToDate[t]
  BY DEF VisitorInvariant, VisitorTypes
<1>14. StorageOK(at.st, n, now)
  BY <1>7 DEF Saved
<1> QED
  BY <1>2, <1>3, <1>4, <1>5, <1>6, <1>7, <1>8, <1>9, <1>11, <1>12, <1>13, <1>14, Left

\* reset.
LEMMA ResetStep ==
  ASSUME VisitorInvariant, NEW t \in PageTabs, NEW answer \in Answers, ResetVisitor(t, answer)
  PROVE  VisitorInvariant'
<1>1. PICK st, n : st = Place(t, answer) /\ n = sessionIds + 1
  OBVIOUS
<1>2. n \in Nat /\ sessionIds <= n /\ n \in 1..n /\ Here(t) /\ now \in Nat
  BY <1>1 DEF VisitorInvariant, VisitorTypes, Calls, ResetVisitor
<1>3. /\ StorageOK(st, n, now) /\ st.local = storages[tab[t].site]
      /\ tab[t].site \in Sites /\ tab[t].session \in SessionRows(n, now)
      /\ tab[t] = PageOf(tab[t].site, tab[t].memory, tab[t].kept, tab[t].session, tab[t].link)
      /\ LinkOK(tab[t].link, n) /\ Asked(t) \in Truth
      /\ upToDate[t] => Says(tab[t].session, Asked(t))
  BY <1>1, <1>2, PlaceIs
<1>4. PICK s, page, at : s = tab[t].site /\ page = tab[t] /\ at = ResetAll(st, tab[t].link, n)
  OBVIOUS
<1>5. /\ StorageOK(at.st, n, now) /\ at.session \in SessionRows(n, now) /\ Says(at.session, Blank)
      /\ ~at.st.memory => /\ at.st.local.session = at.session
                          /\ at.st.local.dimensions = Unset /\ at.st.local.user = Unset
  BY <1>2, <1>3, <1>4, ResetIs
<1>6. PICK i : i = Blank
  OBVIOUS
<1>7. i \in Truth /\ i.dims = NoDims /\ i.user = Unset
  BY <1>6 DEF Blank, Truth, NoDims, Dims
<1>8. /\ Leaves(t, s, page, at, i, upToDate[t]) /\ now' = now /\ links' = links /\ sessionIds' = n
  BY <1>1, <1>4, <1>6 DEF Calls, ResetVisitor, Blank
<1>12. ~at.st.memory => Agree(at.st.local, i)
  BY <1>5, <1>6, <1>7 DEF Agree
<1>13. PICK b \in BOOLEAN : b = upToDate[t]
  BY DEF VisitorInvariant, VisitorTypes
<1> QED
  BY <1>2, <1>3, <1>4, <1>5, <1>6, <1>7, <1>8, <1>12, <1>13, Left

\* A page that loads while the storage is in order reads what was last asked for.
LEMMA LoadReads ==
  ASSUME VisitorInvariant, NEW s \in Sites, confused[s] = {}, NEW n \in Nat, NEW st, StorageOK(st, n, now),
         ~st.memory, ~st.denied, st.local = storages[s], NEW i, i = truth[s]
  PROVE  Knows(st, i)
<1>1. /\ storages[s].user = i.user
      /\ storages[s].dimensions = i.dims \/ (storages[s].dimensions = Unset /\ i.dims = NoDims)
      /\ storages[s].session # Unset => Identity(storages[s].session) = i
  BY DEF VisitorInvariant, KeysAgree
<1>2. i \in Truth /\ now \in Nat
  BY DEF VisitorInvariant, VisitorTypes
<1>3. i.dims # Unset
  BY <1>2, VisitorAssumption DEF Truth
<1>4. /\ Get(st, "session") = storages[s].session /\ Get(st, "user") = storages[s].user
      /\ Get(st, "dimensions") = storages[s].dimensions
  BY <1>2, Reads
<1>5. LoadDimensions(st) = i.dims
  BY <1>1, <1>3, <1>4 DEF LoadDimensions
<1>6. CanResume(st) => Says(Get(st, "session"), i)
  BY <1>1, <1>2, <1>4, SaysIs DEF CanResume
<1> QED BY <1>1, <1>4, <1>5, <1>6 DEF Knows

\* init.
LEMMA LoadStep ==
  ASSUME VisitorInvariant, NEW t \in PageTabs, NEW s \in Sites, NEW url \in [Indexes -> UrlTexts \union {Unset}],
         NEW link \in links \union {Unset}, NEW answer \in Answers, LoadPage(t, s, url, link, answer)
  PROVE  VisitorInvariant'
<1>1. PICK lk, page, st, at, b, i, next :
        /\ lk = (IF IsValidLink(link) THEN link ELSE Unset)
        /\ page = [Closed EXCEPT !.site = s, !.memory = answer.denied, !.link = lk]
        /\ st = Storage(s, page, answer)
        /\ next = sessionIds + 1
        /\ at = GetOrCreate(st, page.link, next)
        /\ b = ApplyUrlDimensions(at, url)
        /\ i = [truth[s] EXCEPT !.dims = Added(@, url)]
  OBVIOUS
<1>2. /\ sessionIds' = (IF at.session.id > sessionIds THEN sessionIds + 1 ELSE sessionIds)
      /\ Leaves(t, s, page, b, i, ~answer.denied /\ confused[s] = {})
      /\ now' = now /\ links' = links
  BY <1>1 DEF LoadPage
<1>3. /\ now \in Nat /\ sessionIds \in Nat /\ storages[s] \in Keys(sessionIds, now) /\ truth[s] \in Truth
      /\ \A l \in links : l.session \in 1..sessionIds /\ l.time \in 0..now
  BY DEF VisitorInvariant, VisitorTypes
<1>4. answer.room \in Nat /\ answer.denied \in BOOLEAN /\ (answer.denied => answer.room = 0)
  BY AnswerIs
<1>5. page = PageOf(s, answer.denied, NoKeys, Unset, lk)
  BY <1>1 DEF Closed, PageOf
<1>6. page.site = s /\ page.memory = answer.denied /\ page.kept = NoKeys /\ page.session = Unset /\ page.link = lk
  BY <1>5 DEF PageOf
<1>7. PICK f : f = storages[s]
  OBVIOUS
<1>8. st = StorageOf(f, answer.denied, NoKeys, answer.room, answer.denied)
  BY <1>1, <1>6, <1>7 DEF Storage, StorageOf
<1>9. /\ st.local = f /\ st.memory = answer.denied /\ st.kept = NoKeys
      /\ st.room = answer.room /\ st.denied = answer.denied
  BY <1>8 DEF StorageOf
<1>10. \A n \in Nat : sessionIds <= n => StorageOK(st, n, now)
  <2> SUFFICES ASSUME NEW n \in Nat, sessionIds <= n
               PROVE  StorageOK(st, n, now)
    OBVIOUS
  <2>1. f \in Keys(n, now) /\ NoKeys \in Keys(n, now)
    BY <1>3, <1>7, Grows, NoKeysAre
  <2> QED BY <1>4, <1>8, <1>9, <2>1 DEF StorageOK
<1>11. \A n \in Nat : sessionIds <= n => LinkOK(lk, n)
  <2> SUFFICES ASSUME NEW n \in Nat, sessionIds <= n, lk # Unset
               PROVE  lk.session \in 1..n
    BY DEF LinkOK
  <2>1. lk \in links
    BY <1>1
  <2> QED BY <1>3, <2>1
<1>12. PICK x : x = TakenUp(st, lk, next)
  OBVIOUS
<1>13. x \in SessionRows(next, now) /\ \A j : Knows(st, j) => Says(x, j)
  <2>1. next \in Nat /\ sessionIds <= next /\ next \in 1..next
    BY <1>1, <1>3
  <2> QED BY <1>3, <1>10, <1>11, <1>12, <2>1, TakenUpSays
<1>14. SaveSession(st, x) = at
  BY <1>1, <1>6, <1>12 DEF GetOrCreate, TakenUp
<1>15. PICK n : n = IF x.id > sessionIds THEN sessionIds + 1 ELSE sessionIds
  OBVIOUS
<1>16. n \in Nat /\ sessionIds <= n /\ x \in SessionRows(n, now) /\ sessionIds' = n
  <2>1. at.session = x
    BY <1>14 DEF SaveSession
  <2>2. x.id \in 1..next
    BY <1>13 DEF SessionRows
  <2>3. n \in Nat /\ sessionIds <= n /\ x.id \in 1..n
    BY <1>1, <1>3, <1>15, <2>2
  <2>4. x \in SessionRows(n, now)
    BY <1>13, <2>3 DEF SessionRows
  <2> QED BY <1>2, <1>15, <2>1, <2>3, <2>4
<1>17. /\ Saved(at.st, st, n, now) /\ at.session = x
       /\ at.st.local.dimensions = st.local.dimensions /\ at.st.local.user = st.local.user
       /\ ~at.st.memory => at.st.local.session = x
  BY <1>3, <1>10, <1>14, <1>16, SessionSaved
<1>18. /\ StorageOK(b.st, n, now) /\ (at.st.memory => b.st.memory) /\ b.session \in SessionRows(n, now)
       /\ b.session.dims = Added(at.session.dims, url) /\ b.session.user = at.session.user
       /\ b.st.local.user = at.st.local.user
       /\ ~b.st.memory => b.st.local.session = b.session
       /\ ~b.st.memory => \/ /\ b.st.local.dimensions = at.st.local.dimensions
                             /\ b.session.dims = at.session.dims
                          \/ b.st.local.dimensions = b.session.dims
  <2>1. ApplyUrlDimensions(at, url) = b
    BY <1>1
  <2>2. StorageOK(at.st, n, now) /\ at.session \in SessionRows(n, now)
    BY <1>16, <1>17 DEF Saved
  <2>3. ~at.st.memory => ~at.st.denied /\ at.st.local.session = at.session
    BY <1>17 DEF Saved
  <2> QED BY <1>3, <1>16, <2>1, <2>2, <2>3, UrlApplied
<1>19. PICK j : j = truth[s]
  OBVIOUS
<1>20. j \in Truth /\ i.dims = Added(j.dims, url) /\ i.user = j.user /\ i \in Truth
  <2>1. j \in Truth /\ j.dims \in Dims
    BY <1>3, <1>19 DEF Truth
  <2>2. PICK e : e = Added(j.dims, url)
    OBVIOUS
  <2>3. e \in Dims
    BY <2>1, <2>2 DEF Added, Dims
  <2>4. i = [j EXCEPT !.dims = e]
    BY <1>1, <1>19, <2>2
  <2> QED BY <2>1, <2>2, <2>3, <2>4 DEF Truth
<1>21. PICK inStep \in BOOLEAN : inStep = (~answer.denied /\ confused[s] = {})
  OBVIOUS
<1>22. inStep => Says(x, j)
  <2> SUFFICES ASSUME inStep
               PROVE  Knows(st, j)
    BY <1>13
  <2>1. confused[s] = {} /\ ~st.memory /\ ~st.denied /\ StorageOK(st, n, now) /\ n \in Nat
    BY <1>9, <1>10, <1>16, <1>21
  <2> QED BY <1>7, <1>9, <1>19, <2>1, LoadReads
<1>23. inStep => Says(b.session, i)
  BY <1>17, <1>18, <1>20, <1>22 DEF Says
<1>24. "failed" \notin confused[s] => b.st.local.user = i.user
  <2>1. "failed" \notin confused[s] => storages[s].user = j.user
    BY <1>19 DEF VisitorInvariant, LastUserStands
  <2> QED BY <1>7, <1>9, <1>17, <1>18, <1>20, <2>1
<1>25. ~b.st.memory /\ inStep /\ confused[s] = {} => Agree(b.st.local, i)
  <2> SUFFICES ASSUME ~b.st.memory, inStep, confused[s] = {}
               PROVE  Agree(b.st.local, i)
    OBVIOUS
  <2>1. f.dimensions = j.dims \/ (f.dimensions = Unset /\ j.dims = NoDims)
    BY <1>7, <1>19 DEF VisitorInvariant, KeysAgree
  <2>2. b.st.local.user = i.user
    BY <1>24
  <2>3. b.st.local.session = b.session /\ Says(b.session, i)
    BY <1>18, <1>23
  <2>4. b.st.local.dimensions = i.dims \/ (b.st.local.dimensions = Unset /\ i.dims = NoDims)
    <3>1. CASE b.st.local.dimensions = b.session.dims
      BY <2>3, <3>1 DEF Says
    <3>2. CASE b.st.local.dimensions = at.st.local.dimensions /\ b.session.dims = at.session.dims
      <4>1. b.st.local.dimensions = f.dimensions /\ i.dims = j.dims
        BY <1>9, <1>17, <1>22, <2>3, <3>2 DEF Says
      <4> QED BY <2>1, <4>1
    <3> QED BY <1>18, <3>1, <3>2
  <2> QED BY <2>2, <2>3, <2>4 DEF Agree
<1>26. Leaves(t, s, page, b, i, inStep)
  BY <1>2, <1>21
<1> QED
  BY <1>2, <1>5, <1>6, <1>11, <1>16, <1>18, <1>20, <1>23, <1>24, <1>25, <1>26, Left

\* In the beginning nobody has asked for anything.
LEMMA VisitorStarts ==
  VisitorInit => VisitorInvariant
<1> SUFFICES ASSUME VisitorInit
             PROVE  VisitorInvariant
  OBVIOUS
<1>1. /\ now = 0 /\ storages = [s \in Sites |-> NoKeys] /\ tab = [t \in PageTabs |-> Closed] /\ links = {}
      /\ sessionIds = 0 /\ truth = [s \in Sites |-> Blank] /\ upToDate = [t \in PageTabs |-> FALSE]
      /\ confused = [s \in Sites |-> {}]
  BY DEF VisitorInit, Blank
<1>2. Blank \in Truth /\ Blank.dims = NoDims /\ Blank.user = Unset
  BY DEF Blank, Truth, NoDims, Dims
<1>3. NoKeys.user = Unset /\ NoKeys.dimensions = Unset /\ NoKeys.session = Unset
  BY DEF NoKeys
<1>4. NoKeys \in Keys(0, 0)
  BY NoKeysAre
<1>5. PageOK(Closed, 0, 0)
  <2>1. Closed = PageOf(Unset, FALSE, NoKeys, Unset, Unset)
    BY DEF Closed, PageOf
  <2>2. /\ Closed.site = Unset /\ Closed.memory = FALSE /\ Closed.kept = NoKeys
        /\ Closed.session = Unset /\ Closed.link = Unset
    BY DEF Closed
  <2> QED BY <1>4, <2>1, <2>2 DEF PageOK, LinkOK
<1>6. VisitorTypes
  BY <1>1, <1>2, <1>4, <1>5 DEF VisitorTypes
<1>7. KeysAgree /\ LastUserStands
  BY <1>1, <1>2, <1>3 DEF KeysAgree, LastUserStands
<1>8. PagesKnowTheVisitor
  BY <1>1 DEF PagesKnowTheVisitor
<1> QED BY <1>6, <1>7, <1>8 DEF VisitorInvariant

\* Time passing, and a link that is decorated, change nothing that anybody knows.
LEMMA Idle ==
  ASSUME VisitorInvariant, NEW n \in Nat, now' = n, now <= n,
         \A l \in links' : l.session \in 1..sessionIds /\ l.time \in 0..n,
         UNCHANGED <<storages, tab, sessionIds, truth, upToDate, confused>>
  PROVE  VisitorInvariant'
<1>1. VisitorTypes /\ PagesKnowTheVisitor /\ KeysAgree /\ LastUserStands /\ now \in Nat /\ sessionIds \in Nat
  BY DEF VisitorInvariant, VisitorTypes
<1>2. VisitorTypes'
  <2>1. storages \in [Sites -> Keys(sessionIds, n)]
    <3>1. storages \in [Sites -> Keys(sessionIds, now)] /\ Keys(sessionIds, now) \subseteq Keys(sessionIds, n)
      BY <1>1, Grows DEF VisitorTypes
    <3> QED BY <3>1
  <2>2. \A t \in PageTabs : PageOK(tab[t], sessionIds, n)
    BY <1>1, Grows DEF VisitorTypes
  <2> QED BY <1>1, <2>1, <2>2 DEF VisitorTypes
<1>3. PagesKnowTheVisitor'
  BY <1>1 DEF PagesKnowTheVisitor, Here, Asked, Identity
<1>4. KeysAgree'
  BY <1>1 DEF KeysAgree, Identity
<1>5. LastUserStands'
  BY <1>1 DEF LastUserStands
<1> QED BY <1>2, <1>3, <1>4, <1>5 DEF VisitorInvariant

\* Every step keeps the invariant.
LEMMA VisitorKeeps ==
  VisitorInvariant /\ [VisitorNext]_visitorVars => VisitorInvariant'
<1> SUFFICES ASSUME VisitorInvariant, [VisitorNext]_visitorVars
             PROVE  VisitorInvariant'
  OBVIOUS
<1>0. /\ VisitorTypes /\ now \in Nat /\ sessionIds \in Nat
      /\ \A l \in links : l.session \in 1..sessionIds /\ l.time \in 0..now
  BY DEF VisitorInvariant, VisitorTypes
<1>1. ASSUME NEW t \in PageTabs, Decorate(t)
      PROVE  VisitorInvariant'
  <2>1. PICK x : x = tab[t].session
    OBVIOUS
  <2>2. x.id \in 1..sessionIds
    <3>1. PageOK(tab[t], sessionIds, now) /\ tab[t].session # Unset
      BY <1>0, <1>1 DEF VisitorTypes, Decorate, Here
    <3>2. x \in SessionRows(sessionIds, now)
      BY <2>1, <3>1 DEF PageOK
    <3> QED BY <3>2 DEF SessionRows
  <2>3. PICK k : k = [session |-> x.id, time |-> now]
    OBVIOUS
  <2>4. k.session = x.id /\ k.time = now
    BY <2>3
  <2>5. links' = links \union {k}
    BY <1>1, <2>1, <2>3 DEF Decorate
  <2>6. \A l \in links' : l.session \in 1..sessionIds /\ l.time \in 0..now
    BY <1>0, <2>2, <2>4, <2>5
  <2>7. UNCHANGED <<now, storages, tab, sessionIds, truth, upToDate, confused>>
    BY <1>1 DEF Decorate
  <2> QED BY <1>0, <2>6, <2>7, Idle
<1>2. ASSUME NEW t \in PageTabs, NEW answer \in Answers, NEW s \in Sites,
             NEW url \in [Indexes -> UrlTexts \union {Unset}], NEW link \in links \union {Unset},
             LoadPage(t, s, url, link, answer)
      PROVE  VisitorInvariant'
  BY <1>2, LoadStep
<1>3. ASSUME NEW t \in PageTabs, NEW answer \in Answers, NEW i \in Indexes, NEW v \in Texts, SetDimension(t, i, v, answer)
      PROVE  VisitorInvariant'
  <2>1. PICK d, e : /\ d = [tab[t].session.dims EXCEPT ![i] = v]
                    /\ e = [Asked(t).dims EXCEPT ![i] = v]
    OBVIOUS
  <2>2. PICK x, j : x = tab[t].session /\ j = Asked(t)
    OBVIOUS
  <2>3. Here(t) /\ sessionIds <= sessionIds
    BY <1>0, <1>3 DEF SetDimension, Calls
  <2>4. x \in SessionRows(sessionIds, now) /\ j \in Truth /\ (upToDate[t] => Says(x, j))
    BY <1>0, <2>2, <2>3, PlaceIs
  <2>5. d \in Dims /\ e \in Dims
    <3>1. x.dims \in Dims /\ j.dims \in Dims
      BY <2>4 DEF SessionRows, Truth
    <3> QED BY <2>1, <2>2, <3>1 DEF Dims
  <2>6. upToDate[t] => d = e
    BY <2>1, <2>2, <2>4 DEF Says
  <2>7. [x EXCEPT !.dims[i] = v] = [x EXCEPT !.dims = d] /\ [j EXCEPT !.dims[i] = v] = [j EXCEPT !.dims = e]
    BY <2>1, <2>2
  <2>8. AsksDimensions(t, d, e, answer)
    BY <1>3, <2>2, <2>7 DEF SetDimension, AsksDimensions
  <2> QED BY <2>5, <2>6, <2>8, DimensionsStep
<1>4. ASSUME NEW t \in PageTabs, NEW answer \in Answers, ClearDimensions(t, answer)
      PROVE  VisitorInvariant'
  <2>1. NoDims \in Dims
    BY DEF NoDims, Dims
  <2>2. AsksDimensions(t, NoDims, NoDims, answer)
    BY <1>4 DEF ClearDimensions, AsksDimensions
  <2> QED BY <2>1, <2>2, DimensionsStep
<1>5. ASSUME NEW t \in PageTabs, NEW answer \in Answers, NEW u \in Users \union {Unset}, SetUserId(t, u, answer)
      PROVE  VisitorInvariant'
  BY <1>5, UserStep
<1>6. ASSUME NEW t \in PageTabs, NEW answer \in Answers, ResetVisitor(t, answer)
      PROVE  VisitorInvariant'
  BY <1>6, ResetStep
<1>7. CASE Pass
  <2>1. PICK n : n = now + 1
    OBVIOUS
  <2>2. n \in Nat /\ now <= n /\ now' = n
    BY <1>0, <1>7, <2>1 DEF Pass
  <2>3. \A l \in links' : l.session \in 1..sessionIds /\ l.time \in 0..n
    BY <1>0, <1>7, <2>1 DEF Pass
  <2> QED BY <1>7, <2>2, <2>3, Idle DEF Pass
<1>8. CASE UNCHANGED visitorVars
  <2>1. /\ now' = now /\ now <= now /\ UNCHANGED <<storages, tab, sessionIds, truth, upToDate, confused>>
        /\ \A l \in links' : l.session \in 1..sessionIds /\ l.time \in 0..now
    BY <1>0, <1>8 DEF visitorVars
  <2> QED BY <1>0, <2>1, Idle
<1> QED BY <1>1, <1>2, <1>3, <1>4, <1>5, <1>6, <1>7, <1>8 DEF VisitorNext, Page

\* The invariant gives what the visitors are promised.
LEMMA VisitorIsKnownThen ==
  VisitorInvariant => VisitorIsKnown
<1> SUFFICES ASSUME VisitorInvariant
             PROVE  VisitorIsKnown
  OBVIOUS
<1>1. ASSUME NEW t \in PageTabs, tab[t].session # Unset
      PROVE  tab[t].session.id \in 1..sessionIds /\ tab[t].session.active \in 0..now
  <2>1. tab[t].session \in SessionRows(sessionIds, now)
    BY <1>1 DEF VisitorInvariant, VisitorTypes, PageOK
  <2> QED BY <2>1 DEF SessionRows
<1> QED BY <1>1 DEF VisitorInvariant, VisitorTypes, VisitorIsKnown, VisitorTypeOK

\* A visitor is known: a page that found the storage in order says what the site last asked for,
\* through expiry, links and resets, and the three stored keys agree (sdk/src/core/session.ts,
\* storage/storage.ts), for any sites, tabs, dimensions, users and timeouts.
THEOREM VisitorStaysKnown ==
  VisitorSpec => []VisitorIsKnown
<1>1. VisitorInit => VisitorInvariant
  BY VisitorStarts
<1>2. VisitorInvariant /\ [VisitorNext]_visitorVars => VisitorInvariant'
  BY VisitorKeeps
<1>3. VisitorInvariant => VisitorIsKnown
  BY VisitorIsKnownThen
<1> QED BY <1>1, <1>2, <1>3, PTL DEF VisitorSpec
=============================================================================
