------------------------------ MODULE Tracker ------------------------------
(***************************************************************************)
(* One browser tab that runs the SDK (sdk/src/sdk.ts): what its handlers do *)
(* with the heartbeat, the session state and the two storages when the page *)
(* is shown, hidden, focused, left, cached, loaded again or crashes.        *)
(*                                                                          *)
(* JavaScript runs one handler at a time; an action is one handler, or the  *)
(* part of one up to its await.  Payloads arrive in order here: Sender      *)
(* models how they travel.  A tick of the clock is a few seconds, and what  *)
(* is due, the debounced send included, happens before it passes.           *)
(***************************************************************************)
EXTENDS Heartbeat, SessionState

CONSTANTS
  ResetOnNavigation,  \* resetHeartbeatOnNavigation
  SessionTimeout,     \* sessionTimeout, in ticks
  LinkExpiry,         \* crossDomainExpiry, in ticks
  MaxClock,           \* bound: ticks
  MaxEvents           \* bound: what the user, the page and the browser do

ASSUME TrackerAssumption ==
  /\ ResetOnNavigation \in BOOLEAN
  /\ SessionTimeout \in Nat /\ LinkExpiry \in Nat /\ MaxClock \in Nat /\ MaxEvents \in Nat

VARIABLES
  clock, events,
  life, visible, focused,   \* the document
  sdk,        \* the memory of the SDK
  local,      \* the session in localStorage
  stored,     \* the session state in sessionStorage
  created,    \* sessions created
  sent,       \* the pages of each session as the server has them
  \* History variables: they record the past and guard nothing.
  visit,      \* the page view under way, numbered over all loads
  watched,    \* how long it has been visible and focused
  marks,      \* what has disturbed its stopwatch
  faults      \* what has happened since the beginning, see Fault

document == <<life, visible, focused>>
history == <<visit, watched, marks, faults>>
vars == <<clock, events, document, sdk, local, stored, created, sent, history>>

Linked == 0          \* the session that a cross-domain link names
Session == Linked..MaxEvents
Nothing == [session |-> -1]
Unused == [hb |-> Off, state |-> Empty(Linked), flushed |-> FALSE, paused |-> FALSE,
           debounce |-> FALSE, sends |-> 0, goals |-> 0, link |-> -1]

\* left: it was finalized while the page stayed; back: the stopwatch was set back;
\* unwatched: the heartbeat was started although the page was not watched.
Mark == {"left", "back", "unwatched"}
\* crash: the tab died; startedOver: a session that the server knows went on with no pages;
\* unfinished: a page was restored that had not been finalized when it was left.
Fault == {"back", "unwatched", "crash", "startedOver", "unfinished"}

PageMs == PageActive(sdk.hb, clock)
Watched == life = "open" /\ visible /\ focused /\ ~sdk.paused

TypeOK ==
  /\ clock \in 0..MaxClock /\ events \in 0..MaxEvents
  /\ life \in {"closed", "open", "frozen", "cached"}
  /\ visible \in BOOLEAN /\ focused \in BOOLEAN
  /\ sdk.state.session \in Session
  /\ Len(sdk.state.actions) <= MaxActions
  /\ sdk.state.current # 0 => sdk.state.actions[sdk.state.current].type = "pageview"
  /\ PageMs \in Nat /\ TotalActive(sdk.hb, clock) \in Nat
  /\ local = Nothing \/ local.session \in Session
  /\ stored = Nothing \/ stored.session \in Session
  /\ created \in Session
  /\ DOMAIN sent \subseteq Session \X Nat
  /\ watched \in 0..MaxClock
  /\ marks \subseteq Mark /\ faults \subseteq Fault

Init ==
  /\ clock = 0 /\ events = 0
  /\ life = "closed" /\ visible = FALSE /\ focused = FALSE
  /\ sdk = Unused
  /\ local = Nothing /\ stored = Nothing
  /\ created = 0
  /\ sent = [k \in {} |-> Nothing]
  /\ visit = 0 /\ watched = 0 /\ marks = {} /\ faults = {}

-----------------------------------------------------------------------------
(* What handlers have in common. *)

Event == events < MaxEvents /\ events' = events + 1

\* The server keeps the last row it receives of a page.
Receive(s) ==
  LET rows(k) == {a \in PageActions(s) : k = <<s.session, a.page>>}
  IN sent' = [k \in DOMAIN sent \cup {<<s.session, a.page>> : a \in PageActions(s)} |->
                IF rows(k) = {} THEN sent[k]
                ELSE CHOOSE a \in rows(k) : \A b \in rows(k) : b.visit <= a.visit]

Disturbs(new) == marks' = marks \cup new /\ faults' = faults \cup (new \cap Fault)

\* A new page view starts, when the page is watched or not.
Visit(isWatched, more) ==
  LET new == IF isWatched THEN {} ELSE {"unwatched"}
  IN /\ visit' = visit + 1
     /\ watched' = 0
     /\ marks' = new
     /\ faults' = faults \cup new \cup more

\* stopHeartbeat(true), unless the handler leaves the heartbeat alone, and flushOnce.
Flush(hb) ==
  LET s == FinalizeForUnload(sdk.state, PageActive(hb, clock))
  IN IF sdk.flushed
     THEN sdk' = [sdk EXCEPT !.hb = hb] /\ UNCHANGED <<sent, stored, marks, faults>>
     ELSE /\ sdk' = [sdk EXCEPT !.hb = hb, !.flushed = TRUE, !.state = s]
          /\ Receive(s)
          /\ stored' = s
          /\ Disturbs(IF sdk.state.current = 0 THEN {} ELSE {"left"})

\* The page is back: the heartbeat starts again, unless the SDK is paused or at its limit.
ComeBack(state, isWatched) ==
  /\ sdk' = [sdk EXCEPT !.flushed = FALSE, !.state = state,
                        !.hb = IF sdk.paused THEN @ ELSE ResumeHeartbeat(@, clock)]
  /\ Disturbs(IF sdk.paused \/ sdk.hb.maxReached THEN {}
              ELSE {m \in {"back", "unwatched"} : IF m = "back" THEN sdk.hb.active ELSE ~isWatched})

\* sendPayload up to its await, from a state s in which handlers have left the SDK.
SendPayload(new) ==
  LET s == BuildPayload(new.state, PageActive(new.hb, clock))
  IN sdk' = [new EXCEPT !.state = s] /\ Receive(s)

-----------------------------------------------------------------------------
(* Loading and leaving. *)

SessionExpired == clock - local.active > SessionTimeout

\* getOrCreateSession: a link wins over the stored session, which wins over a new one.
GetOrCreateSession(isLink) ==
  IF isLink THEN Linked
  ELSE IF local # Nothing /\ ~SessionExpired THEN local.session
  ELSE created + 1

\* initializeAsync.  A page may be opened in the background.
Load ==
  /\ life = "closed"
  /\ Event
  /\ \E isLink \in BOOLEAN, isVisible \in BOOLEAN :
       LET id == GetOrCreateSession(isLink)
           matches == stored # Nothing /\ stored.session = id
           restored == IF matches THEN stored ELSE Empty(id)
           s == AddPageview(restored, visit + 1, 0)
           hb == StartHeartbeat([Off EXCEPT !.pageStart = clock], clock)
       IN /\ life' = "open" /\ visible' = isVisible /\ focused' = isVisible
          /\ local' = [session |-> id, active |-> clock]
          /\ created' = IF id > created THEN id ELSE created
          /\ stored' = IF matches THEN stored ELSE Nothing
          /\ SendPayload([Unused EXCEPT !.hb = hb, !.state = s, !.sends = 1,
                                        !.link = IF isLink THEN clock ELSE -1])
          /\ Visit(isVisible, (IF ~matches /\ \E k \in DOMAIN sent : k[1] = id
                               THEN {"startedOver"} ELSE {})
                              \cup IF matches /\ stored.current # 0 THEN {"unfinished"} ELSE {})
          /\ UNCHANGED clock

\* The page is left for good, or for the back-forward cache: pagehide, and the document
\* becomes hidden.
Leave ==
  /\ life = "open"
  /\ Event
  /\ visible' = FALSE /\ focused' = FALSE
  /\ \/ /\ life' = "cached"
        /\ Flush(IF visible THEN StopAndKeep(sdk.hb, clock) ELSE sdk.hb)
     \/ /\ life' = "closed"
        /\ LET s == FinalizeForUnload(sdk.state, PageMs)
           IN IF sdk.flushed THEN UNCHANGED <<sent, stored>> ELSE Receive(s) /\ stored' = s
        /\ sdk' = Unused
        /\ UNCHANGED <<marks, faults>>
  /\ UNCHANGED <<clock, local, created, visit, watched>>

\* onPageShow, which also restores the state last persisted.
PageShow ==
  /\ life = "cached"
  /\ Event
  /\ life' = "open"
  /\ LET matches == stored # Nothing /\ stored.session = sdk.state.session
     IN /\ ComeBack(IF matches THEN stored ELSE sdk.state, FALSE)
        /\ stored' = IF matches THEN stored ELSE Nothing
  /\ UNCHANGED <<clock, visible, focused, local, created, sent, visit, watched>>

\* The tab dies with no event.
Crash ==
  /\ life # "closed"
  /\ Event
  /\ life' = "closed" /\ visible' = FALSE /\ focused' = FALSE
  /\ sdk' = Unused
  /\ faults' = faults \cup {"crash"}
  /\ UNCHANGED <<clock, local, stored, created, sent, visit, watched, marks>>

-----------------------------------------------------------------------------
(* Visibility, focus and the page lifecycle. *)

Hide ==
  \/ /\ visible /\ visible' = FALSE
     /\ UNCHANGED <<life, focused>>                                  \* onVisibilityChange
  \/ /\ focused /\ focused' = FALSE
     /\ UNCHANGED <<life, visible>>                                  \* onBlur
  \/ /\ ~visible /\ life' = "frozen"
     /\ UNCHANGED <<visible, focused>>                               \* onFreeze

HideEvent ==
  /\ life = "open"
  /\ Event
  /\ Hide
  /\ Flush(StopAndKeep(sdk.hb, clock))
  /\ UNCHANGED <<clock, local, created, visit, watched>>

Show ==
  \/ /\ life = "open" /\ ~visible /\ visible' = TRUE
     /\ UNCHANGED <<life, focused>>                                  \* onVisibilityChange
  \/ /\ life = "open" /\ visible /\ ~focused /\ focused' = TRUE
     /\ UNCHANGED <<life, visible>>                                  \* onFocus
  \/ /\ life = "frozen" /\ life' = "open"
     /\ UNCHANGED <<visible, focused>>                               \* onResume

ShowEvent ==
  /\ Event
  /\ Show
  /\ ComeBack(sdk.state, visible' /\ focused')
  /\ UNCHANGED <<clock, local, stored, created, sent, visit, watched>>

\* beforeunload, after which the page stays: a download, a mailto link, a prompt.
BeforeUnload ==
  /\ life = "open" /\ visible
  /\ Event
  /\ Flush(sdk.hb)
  /\ UNCHANGED <<clock, document, local, created, visit, watched>>

-----------------------------------------------------------------------------
(* What the page and the user ask for. *)

\* onNavigation and trackPageView, which never resets the heartbeat.
Navigate ==
  /\ life = "open"
  /\ Event
  /\ \E resets \in {FALSE, ResetOnNavigation} :
       LET s == AddPageview(sdk.state, visit + 1, PageMs)
           hb == ResetPageActiveTime(sdk.hb, clock)
       IN /\ sdk' = [sdk EXCEPT !.state = s, !.debounce = TRUE,
                                !.hb = IF resets THEN StartHeartbeat(ResetHeartbeatState(hb, clock), clock)
                                                 ELSE hb]
          /\ stored' = s
          /\ Visit(Watched, IF IsFull(sdk.state) THEN {"back"} ELSE {})
          /\ UNCHANGED <<clock, document, local, created, sent>>

DebouncedSend ==
  /\ life = "open" /\ sdk.debounce
  /\ SendPayload([sdk EXCEPT !.debounce = FALSE, !.sends = @ + 1])
  /\ UNCHANGED <<clock, events, document, local, stored, created, history>>

TrackGoal ==
  /\ life = "open"
  /\ Event
  /\ SendPayload([sdk EXCEPT !.state = AddGoal(@), !.debounce = FALSE, !.goals = @ + 1])
  /\ UNCHANGED <<clock, document, local, stored, created, history>>

\* sendPayload and trackGoal after their await: the former persists only on success.
Answer ==
  /\ life = "open"
  /\ \/ /\ sdk.sends > 0
        /\ sdk' = [sdk EXCEPT !.sends = @ - 1]
        /\ stored' \in {stored, sdk.state}
     \/ /\ sdk.goals > 0
        /\ sdk' = [sdk EXCEPT !.goals = @ - 1]
        /\ stored' = sdk.state
  /\ UNCHANGED <<clock, events, document, local, created, sent, history>>

Pause ==
  /\ life = "open" /\ ~sdk.paused
  /\ Event
  /\ sdk' = [sdk EXCEPT !.paused = TRUE, !.hb = StopAndKeep(@, clock)]
  /\ UNCHANGED <<clock, document, local, stored, created, sent, history>>

Resume ==
  /\ life = "open" /\ sdk.paused
  /\ Event
  /\ sdk' = [sdk EXCEPT !.paused = FALSE,
                        !.hb = StartHeartbeat(ResetHeartbeatState(@, clock), clock)]
  /\ Disturbs(IF visible /\ focused THEN {"back"} ELSE {"back", "unwatched"})
  /\ UNCHANGED <<clock, document, local, stored, created, sent, visit, watched>>

\* reset.  getOrCreateSession still sees the link with which the page was loaded.
Reset ==
  /\ life = "open"
  /\ Event
  /\ LET isLink == sdk.link # -1 /\ clock - sdk.link <= LinkExpiry
         id == IF isLink THEN Linked ELSE created + 1
     IN /\ SendPayload([sdk EXCEPT !.state = AddPageview(Empty(id), visit + 1, 0),
                                   !.hb = StartHeartbeat(ResetHeartbeatState(@, clock), clock),
                                   !.sends = @ + 1])
        /\ local' = [session |-> id, active |-> clock]
        /\ created' = created + 1
        /\ Visit(Watched, IF isLink THEN {"startedOver"} ELSE {})
  /\ UNCHANGED <<clock, document, stored>>

-----------------------------------------------------------------------------
(* Time. *)

\* The callback of a heartbeat timer: a ping and the next timer, or nothing at all.
Ping ==
  /\ life = "open"
  /\ \E x \in sdk.hb.timers :
       LET hb == [sdk.hb EXCEPT !.timers = @ \ {x}, !.handle = IF @ = x.n THEN 0 ELSE @]
       IN /\ x.due <= clock
          /\ IF hb.active /\ visible /\ ~sdk.paused
             THEN SendPayload([sdk EXCEPT !.sends = @ + 1,
                     !.hb = ScheduleNextHeartbeat([hb EXCEPT !.lastPing = clock], clock)])
             ELSE sdk' = [sdk EXCEPT !.hb = hb] /\ UNCHANGED sent
  /\ UNCHANGED <<clock, events, document, local, stored, created, history>>

Tick ==
  /\ clock < MaxClock
  /\ life = "open" => ~sdk.debounce /\ \A x \in sdk.hb.timers : x.due > clock
  /\ clock' = clock + 1
  /\ watched' = watched + IF Watched THEN 1 ELSE 0
  /\ UNCHANGED <<events, document, sdk, local, stored, created, sent, visit, marks, faults>>

Next ==
  \/ Load \/ Leave \/ PageShow \/ Crash
  \/ HideEvent \/ ShowEvent \/ BeforeUnload
  \/ Navigate \/ DebouncedSend \/ TrackGoal \/ Answer
  \/ Pause \/ Resume \/ Reset
  \/ Ping \/ Tick

Spec == Init /\ [][Next]_vars

-----------------------------------------------------------------------------
(* What the tab guarantees. *)

\* The stopwatch of a page that is under way shows the time for which the page has been
\* visible and focused, as long as it was never left, nobody set the stopwatch back or
\* started it behind the user's back, and the limit is not reached.
ExactUntilDisturbed ==
  life = "open" /\ marks = {} /\ ~sdk.hb.maxReached => PageMs = watched

\* The same for what is sent by the heartbeat, of a page that was left and came back.
ExactDuration ==
  [][sdk'.sends > sdk.sends /\ visit' = visit /\ marks \subseteq {"left"} /\ ~sdk.hb.maxReached =>
       \E k \in DOMAIN sent' : sent'[k].visit = visit /\ sent'[k].duration = watched]_vars

\* What was sent of page k stands, unless a crash or a session that starts over forgot its
\* number: two page views of a session never get the same one, over loads and caches.  And a
\* payload never takes back time that an earlier one has reported, unless a stopwatch was set
\* back or a page was taken up again that nobody had finalized.
ReportsOnlyGrow ==
  [][\A k \in DOMAIN sent :
       faults' \cap {"crash", "startedOver"} = {} =>
         /\ sent'[k].visit = sent[k].visit
         /\ faults' \cap {"back", "unfinished"} = {} => sent'[k].duration >= sent[k].duration]_vars

\* A running heartbeat of a visible page has a timer to go on with.
PingsGoOn ==
  life = "open" /\ visible /\ ~sdk.paused /\ sdk.hb.active => sdk.hb.timers # {}

\* The stopwatch shows the right time and goes on being sent.
StopwatchIsRight == ExactUntilDisturbed /\ PingsGoOn
=============================================================================
