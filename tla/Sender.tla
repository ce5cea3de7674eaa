------------------------------- MODULE Sender -------------------------------
(***************************************************************************)
(* How what a browser records reaches the server (sdk/src/transport/sender, *)
(* with the callers in sdk/src/sdk.ts): the tabs of a browser send payloads, *)
(* keep those they cannot send in a queue in localStorage, which the tabs    *)
(* share, and flush that queue when the browser fires 'online'.             *)
(*                                                                          *)
(* A payload holds every action of its tab so far, so it is told apart by   *)
(* how far the tab was: each recorded action and each built payload (which  *)
(* updates the duration of the current page) makes a new version of the     *)
(* actions.  A tab runs one callback at a time, and browsers make access to *)
(* localStorage exclusive: an action is what a tab does between two awaits. *)
(***************************************************************************)
EXTENDS Integers, Sequences, FiniteSets

CONSTANTS
  Tabs,        \* tabs, over time; the pages of each have rows of their own
  MaxQueue,    \* MAX_QUEUE_SIZE
  MaxVersion,  \* bound: versions of a tab's actions, the one at its closing apart
  MaxFaults,   \* bound: lost requests, error answers, timeouts
  MaxOffline,  \* bound: times the browser goes offline
  MaxExpiries  \* bound: flushes that find payloads past QUEUE_TTL_MS

ASSUME SenderAssumption ==
  /\ MaxQueue \in Nat /\ MaxVersion \in Nat \ {0}
  /\ MaxFaults \in Nat /\ MaxOffline \in Nat /\ MaxExpiries \in Nat

VARIABLES
  page,      \* new | open | closed
  version,   \* version of the actions of each tab
  built,     \* the version of the last payload built by each tab
  flushed,   \* the flag of flushOnce
  online,    \* navigator.onLine
  told,      \* tabs with an 'online' event to handle
  queue,     \* stm_pending in localStorage
  flushing,  \* isFlushing
  todo,      \* payloads a flush has yet to send; the first is on its way
  failed,    \* failedItems
  requests,  \* requests on their way
  known,     \* server: the newest actions stored of each tab
  shown,     \* server: the version of the durations stored last
  faults, outages, expiries,  \* counted against their bounds
  \* History variables: they record the past and guard nothing.
  entries,   \* how many entries were ever made in the queue
  stored,    \* payloads ever stored, told apart by tab and upTo
  excused    \* tabs that lost a payload in one of the ways the code accepts

tabVars == <<page, version, built, flushed>>
flushVars == <<flushing, todo, failed>>
serverVars == <<known, shown, stored>>
boundVars == <<faults, outages, expiries>>
vars == <<tabVars, online, told, queue, flushVars, requests, serverVars, boundVars,
          entries, excused>>

Version == 0..MaxVersion + 1
\* The actions of a payload are those of version upTo, their durations those of asOf.
Payload == [tab : Tabs, upTo : Version, asOf : Version]
Entry == [payload : Payload, id : Nat]
\* What a request is for; nobody hears the answer of an abandoned one.
Kind == {"send", "flush", "beacon"}
Request == [payload : Payload, by : Tabs, kind : Kind, heard : BOOLEAN, served : BOOLEAN]

TypeOK ==
  /\ page \in [Tabs -> {"new", "open", "closed"}]
  /\ version \in [Tabs -> Version] /\ built \in [Tabs -> Version]
  /\ flushed \in [Tabs -> BOOLEAN]
  /\ online \in BOOLEAN
  /\ told \in SUBSET Tabs
  /\ queue \in Seq(Entry) /\ Len(queue) <= MaxQueue
  /\ flushing \in [Tabs -> BOOLEAN]
  /\ todo \in [Tabs -> Seq(Entry)] /\ failed \in [Tabs -> Seq(Entry)]
  /\ requests \in SUBSET Request
  /\ known \in [Tabs -> Version] /\ shown \in [Tabs -> Version]
  /\ faults \in 0..MaxFaults /\ outages \in 0..MaxOffline /\ expiries \in 0..MaxExpiries
  /\ entries \in Nat
  /\ stored \in SUBSET (Tabs \X Version)
  /\ excused \in SUBSET Tabs

Init ==
  /\ page = [t \in Tabs |-> "new"]
  /\ version = [t \in Tabs |-> 0] /\ built = [t \in Tabs |-> 0]
  /\ flushed = [t \in Tabs |-> FALSE]
  /\ online \in BOOLEAN
  /\ told = {}
  /\ queue = <<>>
  /\ flushing = [t \in Tabs |-> FALSE]
  /\ todo = [t \in Tabs |-> <<>>] /\ failed = [t \in Tabs |-> <<>>]
  /\ requests = {}
  /\ known = [t \in Tabs |-> 0] /\ shown = [t \in Tabs |-> 0]
  /\ faults = 0 /\ outages = 0 /\ expiries = 0
  /\ entries = 0
  /\ stored = {}
  /\ excused = {}

-----------------------------------------------------------------------------
(* The queue. *)

\* saveQueue: the newest entries stay.
Trim(q) == IF Len(q) <= MaxQueue THEN q ELSE SubSeq(q, Len(q) - MaxQueue + 1, Len(q))

TabsOf(q) == {q[k].payload.tab : k \in DOMAIN q}

\* The tabs of entries that saveQueue drops.
Dropped(q) == TabsOf(SubSeq(q, 1, Len(q) - Len(Trim(q))))

\* enqueue: at the end of the queue as it is now in localStorage.
Enqueue(payload) ==
  LET q == Append(queue, [payload |-> payload, id |-> entries + 1])
  IN /\ queue' = Trim(q)
     /\ entries' = entries + 1
     /\ excused' = excused \cup Dropped(q)

\* One payload of tab t leaves by sendSession or sendSessionBeacon, or is queued.
Emit(t, kind, upTo) ==
  LET payload == [tab |-> t, upTo |-> upTo, asOf |-> upTo]
  IN /\ built' = [built EXCEPT ![t] = upTo]
     /\ \/ /\ online
           /\ requests' = requests \cup {[payload |-> payload, by |-> t, kind |-> kind,
                                          heard |-> kind = "send", served |-> FALSE]}
           /\ UNCHANGED <<queue, entries, excused>>
        \/ /\ ~online
           /\ Enqueue(payload)
           /\ UNCHANGED requests

-----------------------------------------------------------------------------
(* What tabs do. *)

\* The SDK is loaded: the initial pageview is recorded.
Open(t) ==
  /\ page[t] = "new"
  /\ page' = [page EXCEPT ![t] = "open"]
  /\ version' = [version EXCEPT ![t] = 1]
  /\ UNCHANGED <<built, flushed, online, told, queue, flushVars, requests, serverVars,
                 boundVars, entries, excused>>

\* A navigation or a goal is recorded; the payload follows.
Track(t) ==
  /\ page[t] = "open" /\ version[t] < MaxVersion
  /\ version' = [version EXCEPT ![t] = @ + 1]
  /\ UNCHANGED <<page, built, flushed, online, told, queue, flushVars, requests,
                 serverVars, boundVars, entries, excused>>

\* sendPayload: after the initial pageview, a goal, a heartbeat or the debounce.
SendPayload(t) ==
  /\ page[t] = "open" /\ version[t] < MaxVersion
  /\ version' = [version EXCEPT ![t] = @ + 1]
  /\ Emit(t, "send", version[t] + 1)
  /\ UNCHANGED <<page, flushed, online, told, flushVars, serverVars, boundVars>>

\* flushOnce when the tab is hidden, blurred or frozen.
Hide(t) ==
  /\ page[t] = "open" /\ version[t] < MaxVersion
  /\ ~flushed[t]
  /\ flushed' = [flushed EXCEPT ![t] = TRUE]
  /\ version' = [version EXCEPT ![t] = @ + 1]
  /\ Emit(t, "beacon", version[t] + 1)
  /\ UNCHANGED <<page, online, told, flushVars, serverVars, boundVars>>

Show(t) ==
  /\ page[t] = "open" /\ flushed[t]
  /\ flushed' = [flushed EXCEPT ![t] = FALSE]
  /\ UNCHANGED <<page, version, built, online, told, queue, flushVars, requests,
                 serverVars, boundVars, entries, excused>>

\* The tab's callbacks die with it; its requests, sent with keepalive, do not.
Orphaned(t) == {IF r.by = t THEN [r EXCEPT !.heard = FALSE] ELSE r : r \in requests}

\* The page goes away for good.  onUnload flushes unless the flag is up.  A flush that
\* was running leaves what it had taken from the queue.
Close(t) ==
  LET payload == [tab |-> t, upTo |-> version[t] + 1, asOf |-> version[t] + 1]
      q == Append(queue, [payload |-> payload, id |-> entries + 1])
      unsent == IF flushed[t] /\ version[t] # built[t] THEN {t} ELSE {}
      stranded == TabsOf(todo[t]) \cup TabsOf(failed[t])
      beacon == [payload |-> payload, by |-> t, kind |-> "beacon",
                 heard |-> FALSE, served |-> FALSE]
  IN /\ page[t] = "open"
     /\ page' = [page EXCEPT ![t] = "closed"]
     /\ flushed' = [flushed EXCEPT ![t] = TRUE]
     /\ told' = told \ {t}
     /\ flushing' = [flushing EXCEPT ![t] = FALSE]
     /\ todo' = [todo EXCEPT ![t] = <<>>]
     /\ failed' = [failed EXCEPT ![t] = <<>>]
     /\ \/ /\ flushed[t]
           /\ requests' = Orphaned(t)
           /\ excused' = excused \cup unsent \cup stranded
           /\ UNCHANGED <<version, built, queue, entries>>
        \/ /\ ~flushed[t]
           /\ version' = [version EXCEPT ![t] = @ + 1]
           /\ built' = [built EXCEPT ![t] = version[t] + 1]
           /\ IF online
              THEN /\ requests' = Orphaned(t) \cup {beacon}
                   /\ excused' = excused \cup stranded
                   /\ UNCHANGED <<queue, entries>>
              ELSE /\ requests' = Orphaned(t)
                   /\ queue' = Trim(q)
                   /\ entries' = entries + 1
                   /\ excused' = excused \cup stranded \cup Dropped(q)
     /\ UNCHANGED <<online, serverVars, boundVars>>

-----------------------------------------------------------------------------
(* handleOnline. *)

\* The request for the first payload of a flush by tab t.
FlushRequests(t, entriesLeft) ==
  IF entriesLeft = <<>> THEN {}
  ELSE {[payload |-> entriesLeft[1].payload, by |-> t, kind |-> "flush",
         heard |-> TRUE, served |-> FALSE]}

\* isFlushing turns a second flush of the tab away.
Busy(t) == flushing[t]

\* The queue a flush leaves behind, once it has copied it.
ClearQueue == <<>>

\* With nothing to flush, isFlushing goes down again at once.
StayUp == TRUE
GoDown == FALSE

\* The ways to choose n of m entries, in their order: those that have not expired.
Choices(n, m) == {keep \in [1..n -> 1..m] : \A j, k \in 1..n : j < k => keep[j] < keep[k]}

HandleOnline(t) ==
  /\ t \in told
  /\ told' = told \ {t}
  /\ \/ /\ Busy(t)
        /\ UNCHANGED <<queue, flushVars, requests, expiries, excused>>
     \/ /\ ~Busy(t) /\ queue = <<>>
        /\ flushing' = [flushing EXCEPT ![t] = GoDown]
        /\ UNCHANGED <<queue, todo, failed, requests, expiries, excused>>
     \/ /\ ~Busy(t) /\ queue # <<>>
        /\ queue' = ClearQueue
        /\ \E n \in 0..Len(queue) : \E keep \in Choices(n, Len(queue)) :
             LET fresh == [k \in 1..n |-> queue[keep[k]]]
                 expired == DOMAIN queue \ {keep[k] : k \in 1..n}
             IN /\ expired # {} => expiries < MaxExpiries
                /\ expiries' = IF expired = {} THEN expiries ELSE expiries + 1
                /\ excused' = excused \cup {queue[k].payload.tab : k \in expired}
                /\ todo' = [todo EXCEPT ![t] = fresh]
                /\ flushing' = [flushing EXCEPT ![t] = fresh # <<>>]
                /\ requests' = requests \cup FlushRequests(t, fresh)
        /\ UNCHANGED failed
  /\ UNCHANGED <<tabVars, online, serverVars, faults, outages, entries>>

\* The failed payloads go before those that were queued meanwhile.
MergeOver(unsent) == unsent
Merge(unsent) == unsent \o queue

\* What isFlushing is after the last payload: the finally block lowers it.
DownAnyway(unsent) == FALSE

\* sendSessionDirect has returned to the flush of tab t, whose request r is over: the
\* next payload is sent, or the flush is over.
FlushGoesOn(t, r, success) ==
  LET unsent == IF success THEN failed[t] ELSE Append(failed[t], Head(todo[t]))
      left == Tail(todo[t])
      q == Merge(unsent)
  IN /\ requests' = (requests \ {r}) \cup FlushRequests(t, left)
     /\ todo' = [todo EXCEPT ![t] = left]
     /\ \/ /\ left # <<>>
           /\ failed' = [failed EXCEPT ![t] = unsent]
           /\ UNCHANGED <<flushing, queue, excused>>
        \/ /\ left = <<>>
           /\ failed' = [failed EXCEPT ![t] = <<>>]
           /\ flushing' = [flushing EXCEPT ![t] = DownAnyway(unsent)]
           /\ queue' = Trim(q)
           /\ excused' = excused \cup Dropped(q)

-----------------------------------------------------------------------------
(* The network and the server. *)

Larger(m, n) == IF m > n THEN m ELSE n

\* The server stores the actions of a payload; of rows with the same dedup_token the
\* one received last replaces the others, and rows are never taken away.
Serve(r) ==
  LET p == r.payload
  IN /\ online /\ ~r.served
     /\ known' = [known EXCEPT ![p.tab] = Larger(@, p.upTo)]
     /\ shown' = [shown EXCEPT ![p.tab] = p.asOf]
     /\ stored' = stored \cup {<<p.tab, p.upTo>>}
     /\ requests' = IF r.heard THEN (requests \ {r}) \cup {[r EXCEPT !.served = TRUE]}
                               ELSE requests \ {r}
     /\ UNCHANGED <<tabVars, online, told, queue, flushVars, boundVars, entries, excused>>

\* A tab gets the answer it waits for.
Answer(r) ==
  /\ online /\ r.served /\ r.heard
  /\ \/ /\ r.kind = "send"
        /\ requests' = requests \ {r}
        /\ UNCHANGED <<queue, flushVars, excused>>
     \/ /\ r.kind = "flush"
        /\ FlushGoesOn(r.by, r, TRUE)
  /\ UNCHANGED <<tabVars, online, told, serverVars, boundVars, entries>>

\* A request or its answer is lost, or the server answers with an error: a payload of
\* sendSession or of a beacon is given up, one of a flush is kept.
GivenUp(r) == IF r.served THEN {} ELSE {r.payload.tab}

Lose(r) ==
  /\ \/ /\ ~online
        /\ UNCHANGED faults
     \/ /\ online /\ faults < MaxFaults
        /\ faults' = faults + 1
  /\ \/ /\ r.kind = "flush" /\ r.heard
        /\ FlushGoesOn(r.by, r, FALSE)
     \/ /\ ~(r.kind = "flush" /\ r.heard)
        /\ requests' = requests \ {r}
        /\ excused' = excused \cup GivenUp(r)
        /\ UNCHANGED <<queue, flushVars>>
  /\ UNCHANGED <<tabVars, online, told, serverVars, outages, expiries, entries>>

\* TIMEOUT_MS after sendSession: the payload is queued.  Its action objects are those
\* of the session state, so that it holds the durations of now.  The server may get the
\* request all the same.
Requeue(r) == Enqueue([r.payload EXCEPT !.asOf = version[r.by]])

Timeout(r) ==
  /\ r.kind = "send" /\ r.heard
  /\ faults < MaxFaults
  /\ faults' = faults + 1
  /\ Requeue(r)
  /\ requests' = IF r.served THEN requests \ {r}
                 ELSE (requests \ {r}) \cup {[r EXCEPT !.heard = FALSE]}
  /\ UNCHANGED <<tabVars, online, told, flushVars, serverVars, outages, expiries>>

GoOffline ==
  /\ online /\ outages < MaxOffline
  /\ outages' = outages + 1
  /\ online' = FALSE
  /\ UNCHANGED <<tabVars, told, queue, flushVars, requests, serverVars, faults, expiries,
                 entries, excused>>

GoOnline ==
  /\ ~online
  /\ online' = TRUE
  /\ told' = told \cup {t \in Tabs : page[t] = "open"}
  /\ UNCHANGED <<tabVars, queue, flushVars, requests, serverVars, boundVars, entries,
                 excused>>

Next ==
  \/ \E t \in Tabs : \/ Open(t) \/ Track(t) \/ SendPayload(t) \/ Hide(t) \/ Show(t)
                     \/ Close(t) \/ HandleOnline(t)
  \/ \E r \in requests : Serve(r) \/ Answer(r) \/ Lose(r) \/ Timeout(r)
  \/ GoOffline
  \/ GoOnline

Spec == Init /\ [][Next]_vars

\* Events are dispatched and the request a flush waits for comes to an end.  Nobody has
\* to go online, to record, to send or to close anything.
FlushRequestEnds(t) ==
  \E r \in requests : /\ r.by = t /\ r.kind = "flush" /\ r.heard
                      /\ Serve(r) \/ Answer(r) \/ (~online /\ Lose(r))

Fairness == \A t \in Tabs : WF_vars(HandleOnline(t)) /\ WF_vars(FlushRequestEnds(t))

FairSpec == Spec /\ Fairness

-----------------------------------------------------------------------------
(* What the sender guarantees. *)

\* The payloads that may still reach the server.
Underway ==
  {e.payload : e \in UNION ({{queue[k] : k \in DOMAIN queue}}
                 \cup {{todo[u][k] : k \in DOMAIN todo[u]} : u \in Tabs}
                 \cup {{failed[u][k] : k \in DOMAIN failed[u]} : u \in Tabs})}
  \cup {r.payload : r \in requests}

\* Being offline loses nothing: what a closed tab recorded is stored or still underway,
\* unless a payload of the tab was dropped by the limit of the queue, expired, given up
\* by sendSession, lost as a beacon, taken by a flush whose tab was closed, or not sent
\* because the flag of flushOnce was up.
OfflineLosesNothing ==
  \A t \in Tabs \ excused :
     page[t] = "closed" =>
       \/ known[t] >= version[t]
       \/ \E p \in Underway : p.tab = t /\ p.upTo >= version[t]

\* sender.ts:107, "Clear queue immediately to prevent duplicates": with several tabs
\* told at once and entries put back, an entry is in one place only.
Places(id) ==
  {<<"queue", k>> : k \in {j \in DOMAIN queue : queue[j].id = id}}
  \cup UNION {{<<"todo", t, k>> : k \in {j \in DOMAIN todo[t] : todo[t][j].id = id}}
              \cup {<<"failed", t, k>> : k \in {j \in DOMAIN failed[t] : failed[t][j].id = id}}
              : t \in Tabs}

NoEntryTwice == \A id \in 1..entries : Cardinality(Places(id)) <= 1

\* The queue keeps what it was given, and gives it to one request at a time.
EntriesAreKeptOnce == OfflineLosesNothing /\ NoEntryTwice

InQueue(id) == \E k \in DOMAIN queue : queue[k].id = id

\* When the connection is restored an open tab that is not busy sends what is queued.
ReconnectionFlushes ==
  \A t \in Tabs, id \in 1..MaxVersion :
     (InQueue(id) /\ t \in told /\ todo[t] = <<>>) ~> (~InQueue(id) \/ page[t] = "closed")

\* The server has stored this payload, perhaps with older durations.
Resent(r) == <<r.payload.tab, r.payload.upTo>> \in stored

\* docs/data-flow-report.md:1016, "Provides idempotency - safe to resend same payload":
\* a payload stored before and sent again from the queue does not bring older durations
\* back.
ResendIsSafe ==
  [][\A r \in requests :
        r.kind = "flush" /\ Resent(r) /\ Serve(r) =>
           shown'[r.payload.tab] >= shown[r.payload.tab]]_vars
=============================================================================
