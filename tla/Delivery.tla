------------------------------ MODULE Delivery ------------------------------
(***************************************************************************)
(* What becomes of one session's payloads: the SDK sends all its actions    *)
(* again and again, the handler turns each payload into events              *)
(* (api/src/events/session-payload.handler.ts), and ClickHouse fills the    *)
(* tables sessions, pages and goals from every block that is inserted into  *)
(* events (api/src/database/schemas.ts).                                     *)
(*                                                                          *)
(* Payloads arrive late, twice or out of order, and the clock of the browser *)
(* may be wrong.  How a block is retried is the subject of EventBuffer; here *)
(* an insert succeeds.                                                       *)
(***************************************************************************)
EXTENDS Integers, Sequences, FiniteSets, FiniteSetsExt, Functions

CONSTANTS
  Tabs,        \* tabs of the browser, which share the session
  Offsets,     \* what the clock of the browser may be ahead by
  Threshold,   \* CLOCK_SKEW_THRESHOLD_MS, in ticks
  TimeBound,   \* TIMESTAMP_BOUNDS_HOURS, in ticks
  MaxEntries,  \* bound: actions of a tab
  MaxSends,    \* bound: payloads sent, resent ones included
  MaxTime,     \* bound: ticks
  MaxLatency   \* bound: ticks a payload is under way

VARIABLES
  time, offset,
  actionLog, \* the actions of each tab
  wire,      \* payloads under way
  sends,     \* counted against its bound
  buffer,    \* events that wait for the next insert
  eventRows, sessions, pages, goals,   \* the tables, as read with FINAL
  \* History variables: they record the past and guard nothing.
  taken,     \* payloads that were turned into events
  inserted,  \* those whose events are in the tables
  swapped,   \* a payload was taken after one that was built later
  twice,     \* a block held two payloads of the session
  skewed     \* the times of a payload were corrected

DeliveryAssumption ==
  Offsets \subseteq Int /\ Threshold \in Nat /\ MaxLatency \in Nat

tables == <<eventRows, sessions, pages, goals>>
delVars == <<time, offset, actionLog, wire, sends, buffer, tables, taken, inserted, swapped, twice, skewed>>

BrowserTime == time + offset
Start == offset     \* created_at: the session began at time 0

DelInit ==
  /\ time = 0 /\ offset \in Offsets
  /\ actionLog = [t \in Tabs |-> <<>>] /\ wire = {} /\ sends = 0 /\ buffer = <<>>
  /\ eventRows = {} /\ sessions = {} /\ pages = {} /\ goals = {}
  /\ taken = {} /\ inserted = {} /\ swapped = FALSE /\ twice = FALSE
  /\ skewed = FALSE

-----------------------------------------------------------------------------
\* The browser (sdk/src/core/session-state.ts).

IsCurrent(h, i) ==
  h[i].kind = "pageview" /\ \A j \in DOMAIN h : h[j].kind = "pageview" => j <= i
NextPageNumber(h) == Max({h[i].number : i \in DOMAIN h} \cup {0}) + 1

\* The page that is open lasts until now (finalizeCurrentPageDuration, buildPayload).
Built(h) == [i \in DOMAIN h |-> IF IsCurrent(h, i) THEN [h[i] EXCEPT !.until = BrowserTime] ELSE h[i]]

NewPage(number) == [kind |-> "pageview", number |-> number, at |-> BrowserTime, until |-> BrowserTime]
Goal(number) == [kind |-> "goal", number |-> number, at |-> BrowserTime]   \* goals of one name

\* addPageview
Browse(t) ==
  /\ Len(actionLog[t]) < MaxEntries
  /\ actionLog' = [actionLog EXCEPT ![t] = Append(Built(@), NewPage(NextPageNumber(@)))]
  /\ UNCHANGED <<time, offset, wire, sends, buffer, tables, taken, inserted, swapped, twice, skewed>>

RecordGoal(t) ==   \* a goal belongs to the page that is open
  /\ Len(actionLog[t]) < MaxEntries
  /\ \E i \in DOMAIN actionLog[t] :
       /\ IsCurrent(actionLog[t], i)
       /\ actionLog' = [actionLog EXCEPT ![t] = Append(@, Goal(@[i].number))]
  /\ UNCHANGED <<time, offset, wire, sends, buffer, tables, taken, inserted, swapped, twice, skewed>>

Send(t) ==
  /\ actionLog[t] # <<>> /\ sends < MaxSends
  /\ sends' = sends + 1
  /\ actionLog' = [actionLog EXCEPT ![t] = Built(@)]
  /\ \E allowed \in BOOLEAN :   \* whether it comes from an allowed domain
       wire' = wire \cup {[id |-> sends, tab |-> t, actions |-> actionLog'[t], updated |-> BrowserTime,
                           sentAt |-> BrowserTime, left |-> time, allowed |-> allowed]}
  /\ UNCHANGED <<time, offset, buffer, tables, taken, inserted, swapped, twice, skewed>>

\* The answer was lost or late: the same payload, with a fresh sent_at.
Resend(m) ==
  /\ m \in wire \cup taken /\ sends < MaxSends
  /\ sends' = sends + 1
  /\ wire' = wire \cup {[m EXCEPT !.id = sends, !.sentAt = BrowserTime, !.left = time]}
  /\ UNCHANGED <<time, offset, actionLog, buffer, tables, taken, inserted, swapped, twice, skewed>>

Elapse ==
  /\ time < MaxTime /\ \A m \in wire : time - m.left < MaxLatency
  /\ time' = time + 1
  /\ UNCHANGED <<offset, actionLog, wire, sends, buffer, tables, taken, inserted, swapped, twice, skewed>>

-----------------------------------------------------------------------------
\* SessionPayloadHandler.handle

\* A clock that is ahead is believed.
SkewBehind(m) == LET skew == time - m.sentAt IN IF skew > Threshold THEN skew ELSE 0

\* calculateClockSkew and correctTimestamp; the skew is 0 when nothing is to be corrected.
Skew(m) == LET skew == time - m.sentAt
           IN  IF skew < -Threshold \/ skew > Threshold THEN skew ELSE 0
Corrected(t, m) == t + Skew(m)

\* The number a goal is known by in its token is its own time, not the corrected one.
Token(a) == IF a.kind = "pageview" THEN <<"pv", a.number>> ELSE <<"goal", a.at>>

ActionEvent(a, m) ==
  [token |-> Token(a), kind |-> a.kind, number |-> a.number, of |-> m.id,
   created |-> Corrected(Start, m), updated |-> Corrected(m.updated, m), version |-> time,
   entered |-> Corrected(a.at, m),
   duration |-> IF a.kind = "pageview" THEN a.until - a.at ELSE 0]

\* IsWithinTimeBounds, on created_at and updated_at.
Timely(m) == {Start, m.updated} \subseteq time - TimeBound .. time + TimeBound

Deserialized(m) == [i \in DOMAIN m.actions |-> ActionEvent(m.actions[i], m)]

Take(m) ==
  /\ m \in wire /\ Timely(m) /\ m.allowed
  /\ wire' = wire \ {m}
  /\ buffer' = buffer \o Deserialized(m)
  /\ taken' = taken \cup {m}
  /\ swapped' = (swapped \/ \E o \in taken : o.updated > m.updated)
  /\ skewed' = (skewed \/ Skew(m) # 0)
  /\ UNCHANGED <<time, offset, actionLog, sends, tables, inserted, twice>>

\* Nobody is told of a domain that is not allowed; a payload out of bounds is a 400.
Refuse(m) ==
  /\ m \in wire /\ ~(Timely(m) /\ m.allowed)
  /\ wire' = wire \ {m}
  /\ UNCHANGED <<time, offset, actionLog, sends, buffer, tables, taken, inserted, swapped, twice, skewed>>

-----------------------------------------------------------------------------
\* The tables.  ReplacingMergeTree: of the rows with one key that with the greatest version is
\* read, and the last one of those.  The rows of a block are numbered.

Into(table, rows, key) ==
  LET newest(k) ==
        /\ \A r \in table : r[key] = rows[k][key] => r.version <= rows[k].version
        /\ \A j \in DOMAIN rows : rows[j][key] = rows[k][key] =>
             rows[j].version < rows[k].version \/ (rows[j].version = rows[k].version /\ j <= k)
  IN  {r \in table : \A i \in DOMAIN rows : rows[i][key] = r[key] => rows[i].version < r.version}
      \cup {rows[k] : k \in {i \in DOMAIN rows : newest(i)}}

\* The keys: ORDER BY of the tables, within the session.
EventKey == "token"
SessionKey == "created"
PageKey == "number"
GoalKey == "at"

\* sessions_mv groups the events of a block, whichever payloads they come from.  any() takes the
\* first it meets.
Views(kind) == {i \in DOMAIN buffer : buffer[i].kind = kind}
SessionRow ==
  [created |-> buffer[1].created, version |-> Max({e.updated : e \in Range(buffer)}),
   pageviews |-> Cardinality(Views("pageview")), goals |-> Cardinality(Views("goal"))]
PageRow(e) == [number |-> e.number, entered |-> e.entered, duration |-> e.duration, version |-> e.version]
GoalRow(e) == [at |-> e.entered, number |-> e.number, version |-> e.version]

InsertBlock ==
  /\ buffer # <<>> /\ buffer' = <<>>
  /\ eventRows' = Into(eventRows, buffer, EventKey)
  /\ sessions' = Into(sessions, <<SessionRow>>, SessionKey)
  /\ pages' = Into(pages, [i \in Views("pageview") |-> PageRow(buffer[i])], PageKey)
  /\ goals' = Into(goals, [i \in Views("goal") |-> GoalRow(buffer[i])], GoalKey)
  /\ inserted' = taken
  /\ twice' = (twice \/ \E d, e \in Range(buffer) : d.of # e.of)
  /\ UNCHANGED <<time, offset, actionLog, wire, sends, taken, swapped, skewed>>

DelNext ==
  \/ \E t \in Tabs : Browse(t) \/ RecordGoal(t) \/ Send(t)
  \/ \E m \in wire \cup taken : Resend(m)
  \/ \E m \in wire : Take(m) \/ Refuse(m)
  \/ InsertBlock \/ Elapse

DelSpec == DelInit /\ [][DelNext]_delVars

-----------------------------------------------------------------------------
Actions(S, kind) == UNION {{a \in Range(m.actions) : a.kind = kind} : m \in S}
OneTab == \A m, o \in inserted : m.tab = o.tab

\* Whatever was sent again, late or out of order, a session is one row, that of the payload built
\* last; it counts the pages and goals of that payload, as long as no two payloads of the session
\* fell into one block (schemas.ts, sessions and sessions_mv).  The clock of the browser is right
\* within the threshold.
SessionIsNewest ==
  ~skewed /\ inserted # {} =>
    \E m \in inserted, s \in sessions :
      /\ sessions = {s} /\ s.version = m.updated
      /\ \A o \in inserted : o.updated <= m.updated
      /\ ~twice => s.pageviews + s.goals = Len(m.actions)

\* Every page and every goal of a payload that was inserted has one row, however often it was
\* sent; with one tab open, a page lasts as long as the payload built last says, if none overtook
\* another (dedup_token, the keys of pages and goals).
OneRowEach ==
  ~skewed =>
    /\ {p.number : p \in pages} = {a.number : a \in Actions(inserted, "pageview")}
    /\ \A p, q \in pages : p.number = q.number => p = q
    /\ {g.at : g \in goals} = {a.at : a \in Actions(inserted, "goal")}
    /\ \A g, h \in goals : g.at = h.at => g = h
    /\ OneTab /\ ~swapped => \A p \in pages :
         p.duration = Max({a.until - a.at : a \in {b \in Actions(inserted, "pageview") : b.number = p.number}})

\* However wrong the clock of the browser is, the times that are stored are off by no more than
\* the threshold and the time the payload was under way (calculateClockSkew).
TimesAreRight ==
  \A e \in Range(buffer) \cup eventRows :
    \E m \in taken : \E a \in Range(m.actions) :
      /\ m.id = e.of /\ Token(a) = e.token
      /\ e.entered - (a.at - offset) \in -Threshold .. Threshold + MaxLatency

\* What is in the tables is what the session last said of itself, at the right times (schemas.ts).
TablesAreRight == SessionIsNewest /\ OneRowEach /\ TimesAreRight
=============================================================================
