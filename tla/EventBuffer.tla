---------------------------- MODULE EventBuffer ----------------------------
(***************************************************************************)
(* EventBufferService (api/src/events/event-buffer.service.ts): the        *)
(* per-workspace write buffer between POST /api/track and ClickHouse.      *)
(*                                                                         *)
(* Node runs one callback at a time, so an action is what happens between  *)
(* two awaits: add() and flush() run without interruption up to the insert *)
(* of line 127, and the rest of flush() runs when the insert returns.      *)
(*                                                                         *)
(* A request is one call of addBatch: SessionPayloadHandler.handle gives   *)
(* all events of a payload the same workspace, so its grouping (lines      *)
(* 55-63) yields one group.  An event is <<request, index>>.               *)
(***************************************************************************)
EXTENDS Integers, Sequences, FiniteSets

CONSTANTS
  Workspaces,     \* workspace ids
  Requests,       \* the calls of addBatch
  WorkspaceOf,    \* the workspace of each request
  NumEvents,      \* how many events each request carries
  MaxBufferSize,  \* MAX_BUFFER_SIZE
  SlowInserts,    \* can an insert outlast FLUSH_INTERVAL_MS?
  DirectFlushes,  \* does anyone call flush or flushAll?  In src/ only tests do.
  MaxFailures,    \* bound: inserts that report an error
  MaxCrashes      \* bound: times the process dies

Background == {"timer", "explicit", "destroy"}

ASSUME ConstantsAssumption ==
  /\ IsFiniteSet(Workspaces)
  /\ Requests \cap Background = {}
  /\ WorkspaceOf \in [Requests -> Workspaces]
  /\ NumEvents \in [Requests -> Nat \ {0}]
  /\ MaxBufferSize \in Nat \ {0}
  /\ SlowInserts \in BOOLEAN
  /\ DirectFlushes \in BOOLEAN
  /\ MaxFailures \in Nat
  /\ MaxCrashes \in Nat

Event == UNION {{r} \X (1..NumEvents[r]) : r \in Requests}

VARIABLES
  buffers,             \* events waiting, per workspace
  flushTimers,         \* workspaces whose flush timer is armed
  flushingWorkspaces,  \* workspaces marked as flushing
  inserts,             \* inserts in flight: workspace, snapshot, who awaits it
  req,                 \* request -> new | adding | waiting | ok | error
  pushed,              \* request -> how many of its events were pushed
  phase,               \* of the process: up | destroying | destroyed |
                       \*                 destroyFailed | down
  copies,              \* ClickHouse: how many times each event was written
  failures, crashes,   \* counted against their bounds
  \* History variables: they record the past and guard nothing.
  accepted,            \* events pushed by the running process, in order, plus
                       \* those settled before it
  settled,             \* events whose insert was reported successful, in order
  doubtful,            \* events written by an insert not reported successful
  due,                 \* what onModuleDestroy found to flush, per workspace
  disturbed            \* workspaces where, since their last snapshot, an insert
                       \* failed or a flush found one in flight

bufferVars == <<buffers, flushTimers, flushingWorkspaces, inserts>>
requestVars == <<req, pushed>>
historyVars == <<accepted, settled, doubtful, due>>
vars == <<bufferVars, requestVars, phase, copies, failures, crashes, historyVars,
          disturbed>>

Insert == [ws : Workspaces, batch : Seq(Event), by : Requests \cup Background]
Events(s) == {s[k] : k \in DOMAIN s}

TypeOK ==
  /\ buffers \in [Workspaces -> Seq(Event)]
  /\ flushTimers \in SUBSET Workspaces
  /\ flushingWorkspaces \in SUBSET Workspaces
  /\ inserts \in SUBSET Insert
  /\ req \in [Requests -> {"new", "adding", "waiting", "ok", "error"}]
  /\ pushed \in [Requests -> Nat]
  /\ \A r \in Requests :
        /\ pushed[r] <= NumEvents[r]
        /\ req[r] \in {"new", "adding"} => pushed[r] < NumEvents[r]
  /\ phase \in {"up", "destroying", "destroyed", "destroyFailed", "down"}
  /\ copies \in [Event -> Nat]
  /\ failures \in 0..MaxFailures
  /\ crashes \in 0..MaxCrashes
  /\ accepted \in [Workspaces -> Seq(Event)]
  /\ settled \in [Workspaces -> Seq(Event)]
  /\ doubtful \in SUBSET Event
  /\ due \in [Workspaces -> [events : Seq(Event), busy : BOOLEAN]]
  /\ disturbed \in SUBSET Workspaces

EmptyBuffers == [w \in Workspaces |-> <<>>]
NothingDue == [w \in Workspaces |-> [events |-> <<>>, busy |-> FALSE]]

Init ==
  /\ buffers = EmptyBuffers
  /\ flushTimers = {}
  /\ flushingWorkspaces = {}
  /\ inserts = {}
  /\ req = [r \in Requests |-> "new"]
  /\ pushed = [r \in Requests |-> 0]
  /\ phase = "up"
  /\ copies = [e \in Event |-> 0]
  /\ failures = 0
  /\ crashes = 0
  /\ accepted = EmptyBuffers
  /\ settled = EmptyBuffers
  /\ doubtful = {}
  /\ due = NothingDue
  /\ disturbed = {}

-----------------------------------------------------------------------------
(* flush(), lines 109-123: everything before the insert. *)

IgnoreFlushing(w, buf) == buf # <<>>
CanFlush(w, buf) == buf # <<>> /\ w \notin flushingWorkspaces

\* What the buffer holds once its content has been copied for the insert.
KeepSnapshot(buf) == buf
AfterSnapshot(buf) == <<>>

\* stopFlushTimer
StopTimer(w) == flushTimers \ {w}

\* buf is the content of w's buffer when flush runs.  The timer is cleared
\* before the early return, whether or not there is anything to flush.
StartFlush(w, buf, by) ==
  /\ flushTimers' = StopTimer(w)
  /\ \/ /\ CanFlush(w, buf)
        /\ buffers' = [buffers EXCEPT ![w] = AfterSnapshot(buf)]
        /\ flushingWorkspaces' = flushingWorkspaces \cup {w}
        /\ inserts' = inserts \cup {[ws |-> w, batch |-> buf, by |-> by]}
        /\ disturbed' = disturbed \ {w}
     \/ /\ ~CanFlush(w, buf)
        /\ buffers' = [buffers EXCEPT ![w] = buf]
        /\ UNCHANGED <<flushingWorkspaces, inserts>>
        /\ disturbed' = IF buf = <<>> THEN disturbed ELSE disturbed \cup {w}

-----------------------------------------------------------------------------
(* add() and the loop of addBatch(). *)

\* Where addBatch stands after n events: more to add, or done.
Progress(r, n) == IF n = NumEvents[r] THEN "ok" ELSE "adding"

\* add() awaits the flush it called; one that returned early is over at once.
AwaitAnyFlush(r, w, buf) == "waiting"
AfterFullPush(r, w, buf) ==
  IF CanFlush(w, buf) THEN "waiting" ELSE Progress(r, pushed[r] + 1)

\* The timer starts with the first event of a buffer.
NeverStartsTimer(buf) == FALSE
StartsTimer(buf) == Len(buf) = 1

Add(r) ==
  LET w == WorkspaceOf[r]
      e == <<r, pushed[r] + 1>>
      buf == Append(buffers[w], e)
  IN /\ phase # "down"
     /\ req[r] \in {"new", "adding"}
     /\ pushed' = [pushed EXCEPT ![r] = @ + 1]
     /\ accepted' = [accepted EXCEPT ![w] = Append(@, e)]
     /\ \/ /\ Len(buf) >= MaxBufferSize
           /\ StartFlush(w, buf, r)
           /\ req' = [req EXCEPT ![r] = AfterFullPush(r, w, buf)]
        \/ /\ Len(buf) < MaxBufferSize
           /\ buffers' = [buffers EXCEPT ![w] = buf]
           /\ flushTimers' = IF StartsTimer(buf) THEN flushTimers \cup {w}
                                                 ELSE flushTimers
           /\ req' = [req EXCEPT ![r] = Progress(r, pushed[r] + 1)]
           /\ UNCHANGED <<flushingWorkspaces, inserts, disturbed>>
     /\ UNCHANGED <<phase, copies, failures, crashes, settled, doubtful, due>>

-----------------------------------------------------------------------------
(* The other callers of flush(). *)

\* The timer of startFlushTimer fires; its callback catches flush's error.
TimerFires(w) ==
  /\ w \in flushTimers
  /\ SlowInserts \/ w \notin flushingWorkspaces
  /\ StartFlush(w, buffers[w], "timer")
  /\ UNCHANGED <<requestVars, phase, copies, failures, crashes, historyVars>>

\* A direct call of the public flush(), as flushAll makes one per workspace.
ExplicitFlush(w) ==
  /\ DirectFlushes
  /\ phase # "down"
  /\ StartFlush(w, buffers[w], "explicit")
  /\ UNCHANGED <<requestVars, phase, copies, failures, crashes, historyVars>>

\* onModuleDestroy: stop every timer, call flush for every workspace, and await
\* the inserts this started.  Workspaces already flushing are passed over.
OnModuleDestroy ==
  LET flushed == {w \in Workspaces : CanFlush(w, buffers[w])}
  IN /\ phase = "up"
     /\ flushTimers' = {}
     /\ buffers' = [w \in Workspaces |->
                      IF w \in flushed THEN AfterSnapshot(buffers[w])
                                       ELSE buffers[w]]
     /\ flushingWorkspaces' = flushingWorkspaces \cup flushed
     /\ inserts' = inserts \cup
          {[ws |-> w, batch |-> buffers[w], by |-> "destroy"] : w \in flushed}
     /\ phase' = IF flushed = {} THEN "destroyed" ELSE "destroying"
     /\ due' = [w \in Workspaces |->
                  [events |-> buffers[w], busy |-> w \in flushingWorkspaces]]
     /\ UNCHANGED <<requestVars, copies, failures, crashes, accepted, settled,
                    doubtful, disturbed>>

-----------------------------------------------------------------------------
(* flush(), lines 125-147: the insert returns. *)

\* ClickHouse writes the batches of the inserts in done.
Written(done) ==
  [e \in Event |-> copies[e] + Cardinality({i \in done : e \in Events(i.batch)})]

\* Failed events go back in front of those that arrived in the meantime.
RequeueAtBack(batch, buf) == buf \o batch
ForgetFailed(batch, buf) == buf
Requeue(batch, buf) == batch \o buf

InsertEnds(i) ==
  /\ inserts' = inserts \ {i}
  /\ flushingWorkspaces' = flushingWorkspaces \ {i.ws}

\* Promise.all resolves with the last of the inserts it was given.
DestroyEndsAtOnce(i) == i.by = "destroy"
DestroyEnds(i) == /\ i.by = "destroy"
                  /\ ~\E j \in inserts \ {i} : j.by = "destroy"

InsertSucceeds(i) ==
  /\ InsertEnds(i)
  /\ copies' = Written({i})
  /\ settled' = [settled EXCEPT ![i.ws] = @ \o i.batch]
  /\ req' = IF i.by \in Requests
            THEN [req EXCEPT ![i.by] = Progress(i.by, pushed[i.by])] ELSE req
  /\ phase' = IF phase = "destroying" /\ DestroyEnds(i) THEN "destroyed" ELSE phase
  /\ UNCHANGED <<buffers, flushTimers, pushed, failures, crashes, accepted,
                 doubtful, due, disturbed>>

\* The client library reports an error; written says whether ClickHouse had
\* stored the batch all the same (a timeout or a lost connection).
InsertFails(i, written) ==
  /\ failures < MaxFailures
  /\ failures' = failures + 1
  /\ InsertEnds(i)
  /\ buffers' = [buffers EXCEPT ![i.ws] = Requeue(i.batch, @)]
  /\ copies' = IF written THEN Written({i}) ELSE copies
  /\ doubtful' = IF written THEN doubtful \cup Events(i.batch) ELSE doubtful
  /\ req' = IF i.by \in Requests THEN [req EXCEPT ![i.by] = "error"] ELSE req
  /\ phase' = IF phase = "destroying" /\ i.by = "destroy"
              THEN "destroyFailed" ELSE phase
  /\ disturbed' = disturbed \cup {i.ws}
  /\ UNCHANGED <<flushTimers, pushed, crashes, accepted, settled, due>>

InsertReturns(w) ==
  \E i \in {j \in inserts : j.ws = w} :
     \/ InsertSucceeds(i)
     \/ \E written \in BOOLEAN : InsertFails(i, written)

-----------------------------------------------------------------------------
(* The process.  main.ts enables no shutdown hooks, so a signal ends it    *)
(* without onModuleDestroy: memory is gone, the connections of unfinished  *)
(* requests break, and each insert in flight has reached ClickHouse or not.*)

Crash ==
  /\ phase # "down"
  /\ crashes < MaxCrashes
  /\ crashes' = crashes + 1
  /\ phase' = "down"
  /\ buffers' = EmptyBuffers
  /\ flushTimers' = {}
  /\ flushingWorkspaces' = {}
  /\ inserts' = {}
  /\ \E done \in SUBSET inserts :
        /\ copies' = Written(done)
        /\ doubtful' = doubtful \cup UNION {Events(i.batch) : i \in done}
  /\ req' = [r \in Requests |->
               IF req[r] \in {"adding", "waiting"} THEN "error" ELSE req[r]]
  /\ accepted' = settled
  /\ due' = NothingDue
  /\ disturbed' = {}
  /\ UNCHANGED <<pushed, failures, settled>>

Restart ==
  /\ phase = "down"
  /\ phase' = "up"
  /\ UNCHANGED <<bufferVars, requestVars, copies, failures, crashes, historyVars,
                 disturbed>>

Next ==
  \/ \E r \in Requests : Add(r)
  \/ \E w \in Workspaces : \/ TimerFires(w)
                           \/ ExplicitFlush(w)
                           \/ InsertReturns(w)
  \/ OnModuleDestroy
  \/ Crash
  \/ Restart

Spec == Init /\ [][Next]_vars

\* An armed timer fires, an insert returns (the client library has a request
\* timeout), and a request that has begun goes on.  No client has to send
\* anything, nobody has to call flush, the process need not stop or restart.
Fairness ==
  /\ \A w \in Workspaces : WF_vars(TimerFires(w)) /\ WF_vars(InsertReturns(w))
  /\ \A r \in Requests : WF_vars(req[r] = "adding" /\ Add(r))

FairSpec == Spec /\ Fairness

-----------------------------------------------------------------------------
(* What the buffer guarantees. *)

\* At most one insert per workspace is in flight, and the flushing mark is set
\* exactly while there is one (lines 113-119, 121 and 145): two concurrent
\* inserts could reach ClickHouse out of order, and a mark left behind would
\* block every later flush of the workspace.
OneInsertPerWorkspace ==
  /\ \A i, j \in inserts : i.ws = j.ws => i = j
  /\ flushingWorkspaces = {i.ws : i \in inserts}

\* No event is lost, invented or reordered while the process lives: what was
\* accepted is, in this order, what was settled, the snapshot in flight and the
\* buffer -- across failed inserts, whose snapshot returns to the front while
\* other requests were adding (lines 136-138).
NothingLost ==
  /\ \A w \in Workspaces \ flushingWorkspaces :
        accepted[w] = settled[w] \o buffers[w]
  /\ \A i \in inserts :
        accepted[i.ws] = settled[i.ws] \o (i.batch \o buffers[i.ws])

\* Apart from inserts that took effect without being reported successful, each
\* event is in ClickHouse exactly once when it is settled and not at all before:
\* retries alone create no duplicates.
ExactlyOnceUnlessDoubtful ==
  \A r \in Requests : \A k \in 1..pushed[r] :
     LET e == <<r, k>>
     IN e \notin doubtful =>
          copies[e] = (IF e \in Events(settled[WorkspaceOf[r]]) THEN 1 ELSE 0)

\* When onModuleDestroy has resolved, every event it found in a workspace that was
\* not being flushed at that moment is settled.
DestroyFlushesIdle ==
  phase = "destroyed" =>
    \A w \in Workspaces :
       ~due[w].busy => Events(due[w].events) \subseteq Events(settled[w])

\* The buffer implements the durable log: see EventLog.
Log == INSTANCE EventLog WITH log <- accepted, durable <- settled
LogSpec == Log!Spec

\* A request that has begun is answered, with success or with an error, whatever
\* other requests, timers and failures do meanwhile.
RequestsEnd ==
  \A r \in Requests : (req[r] \in {"adding", "waiting"}) ~> (req[r] \in {"ok", "error"})

\* docs/data-flow-architecture.md:285, "Time-based: 2 seconds elapsed with pending
\* events": events in a buffer of a running process come to be flushed.
PendingIsFlushed ==
  \A w \in Workspaces :
     (phase = "up" /\ buffers[w] # <<>>) ~> (phase # "up" \/ w \in flushingWorkspaces)

\* An accepted event is settled in the end, unless the process ends first or the
\* workspace is disturbed: a timer is running whenever it is needed, except where an
\* insert failed or a flush found another one in flight.
AcceptedIsSettled ==
  \A w \in Workspaces :
     (phase = "up" /\ accepted[w] # settled[w])
        ~> (phase # "up" \/ accepted[w] = settled[w] \/ w \in disturbed)
=============================================================================
