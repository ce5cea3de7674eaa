----------------------------- MODULE QueryCache -----------------------------
(***************************************************************************)
(* AnalyticsService.query (api/src/analytics/analytics.service.ts): answers  *)
(* are cached, equal queries at the same time run once, and the end of a      *)
(* backfill clears what was cached of the workspace.  Callers, the database    *)
(* and the events of the backfill interleave at each await.                   *)
(*                                                                          *)
(* One process and one workspace.  What the rows say is told apart by how     *)
(* many backfills had ended when they were read (epoch); of a comparison both  *)
(* periods are read at once.                                                  *)
(***************************************************************************)
EXTENDS Integers, Sequences, FiniteSets

CONSTANTS
  NoOrder,        \* model value: nothing
  Callers,     \* calls of query
  Requested,       \* bound: what they ask: metrics in their order, the order of the rows or NoOrder
  MaxEpoch,    \* bound: backfills that end
  MaxErrors    \* bound: queries that fail

VARIABLES
  epoch, errors,
  cache,     \* cacheManager: entries by their keys
  tracked,   \* workspaceCacheKeys
  pending,   \* pendingQueries: executions by their keys
  clearing,  \* handleBackfillCompleted: the keys it deletes, or NoOrder
  calls,     \* what each caller is doing
  \* History variable: it records the past and guards nothing.
  across     \* keys that were being asked for when a clearing ended: it forgets them, and what is
             \* stored of them then

cacheVars == <<epoch, errors, cache, tracked, pending, clearing, calls, across>>

Idle == [at |-> "idle"]

\* generateCacheKey: metrics are sorted.
Key(q) == [metrics |-> {q.metrics[i] : i \in DOMAIN q.metrics}, order |-> q.order]

\* buildAnalyticsQuery: without an order the first metric counts.
SortedBy(q) == IF q.order = NoOrder THEN q.metrics[1] ELSE q.order

\* The DTO wants a metric; NoOrder is no set of keys.
AskedAreQueries ==
  /\ \A q \in Requested : 1 \in DOMAIN q.metrics
  /\ \A K \in SUBSET {Key(q) : q \in Requested} : K # NoOrder

Cached(k) == k \in DOMAIN cache
Without(f, K) == [k \in DOMAIN f \ K |-> f[k]]
With(f, k, v) == [j \in DOMAIN f \cup {k} |-> IF j = k THEN v ELSE f[j]]

QueryCacheInit ==
  /\ epoch = 0 /\ errors = 0
  /\ cache = <<>> /\ tracked = {} /\ pending = <<>> /\ clearing = NoOrder
  /\ calls = [c \in Callers |-> Idle]
  /\ across = {}

-----------------------------------------------------------------------------
\* The key is made and tracked; then the cache is asked.
AskQuery(c, q) ==
       /\ calls[c] = Idle
       /\ calls' = [calls EXCEPT ![c] = [at |-> "lookup", query |-> q]]
       /\ tracked' = tracked \cup {Key(q)}
       /\ UNCHANGED <<epoch, errors, cache, pending, clearing, across>>

AnswerIs(c, a) == calls' = [calls EXCEPT ![c] = [at |-> "done", query |-> @.query, answer |-> a]]

Lookup(c) ==
  LET q == calls[c].query
      k == Key(q)
  IN  /\ calls[c].at = "lookup"
      /\ \/ /\ Cached(k)
            /\ AnswerIs(c, cache[k])
            /\ UNCHANGED pending
         \/ /\ ~Cached(k) /\ k \in DOMAIN pending
            /\ calls' = [calls EXCEPT ![c].at = "wait"]
            /\ UNCHANGED pending
         \/ /\ ~Cached(k) /\ k \notin DOMAIN pending
            /\ calls' = [calls EXCEPT ![c].at = "wait"]
            /\ pending' = With(pending, k, [at |-> "read", query |-> q])
      /\ UNCHANGED <<epoch, errors, cache, tracked, clearing, across>>

\* executeQueryInternal.
ReadRows(k) ==
      /\ k \in DOMAIN pending /\ pending[k].at = "read"
      /\ pending' = [pending EXCEPT ![k] = [at |-> "store", query |-> @.query,
                        answer |-> [sorted |-> SortedBy(@.query), epoch |-> epoch]]]
      /\ UNCHANGED <<epoch, errors, cache, tracked, clearing, calls, across>>

Store(k) ==
  /\ k \in DOMAIN pending /\ pending[k].at = "store"
  /\ cache' = With(cache, k, pending[k].answer)
  /\ pending' = [pending EXCEPT ![k].at = "end"]
  /\ UNCHANGED <<epoch, errors, tracked, clearing, calls, across>>

Waiting(k) == {c \in Callers : calls[c].at = "wait" /\ Key(calls[c].query) = k}

\* finally: all who wait for it are answered.
QueryEnds(k) ==
       /\ k \in DOMAIN pending /\ pending[k].at = "end"
       /\ calls' = [c \in Callers |-> IF c \in Waiting(k)
                      THEN [at |-> "done", query |-> calls[c].query,
                            answer |-> pending[k].answer]
                      ELSE calls[c]]
       /\ pending' = Without(pending, {k})
       /\ UNCHANGED <<epoch, errors, cache, tracked, clearing, across>>

QueryFails(k) ==
  /\ k \in DOMAIN pending /\ pending[k].at = "read"
  /\ errors < MaxErrors /\ errors' = errors + 1
  /\ calls' = [c \in Callers |-> IF c \in Waiting(k) THEN [at |-> "failed"] ELSE calls[c]]
  /\ pending' = Without(pending, {k})
  /\ UNCHANGED <<epoch, cache, tracked, clearing, across>>

-----------------------------------------------------------------------------
\* A backfill has rewritten the rows and ends; its event is handled.
BackfillCompletes ==
  /\ clearing = NoOrder
  /\ epoch < MaxEpoch /\ epoch' = epoch + 1
  /\ clearing' = tracked
  /\ UNCHANGED <<errors, cache, tracked, pending, calls, across>>

Undeleted == {}

\* Keys tracked meanwhile are forgotten with the others.
Deleted == clearing

CachesCleared ==
  /\ clearing # NoOrder
  /\ cache' = Without(cache, Deleted)
  /\ tracked' = {} /\ clearing' = NoOrder
  /\ across' = (across \ clearing) \cup (tracked \ clearing) \cup DOMAIN pending
                \cup {Key(calls[c].query) : c \in {c \in Callers : calls[c].at = "lookup"}}
  /\ UNCHANGED <<epoch, errors, pending, calls>>

\* getTTL: after one minute, if the dates include today, or five.
Expires(k) ==
  /\ k \in DOMAIN cache
  /\ cache' = Without(cache, {k})
  /\ UNCHANGED <<epoch, errors, tracked, pending, clearing, calls, across>>

QueryCacheNext ==
  \/ \E c \in Callers : (\E q \in Requested : AskQuery(c, q)) \/ Lookup(c)
  \/ \E k \in DOMAIN pending : ReadRows(k) \/ Store(k) \/ QueryEnds(k) \/ QueryFails(k)
  \/ BackfillCompletes \/ CachesCleared
  \/ \E k \in DOMAIN cache : Expires(k)

QueryCacheSpec == QueryCacheInit /\ [][QueryCacheNext]_cacheVars

-----------------------------------------------------------------------------
Answered == {c \in Callers : calls[c].at = "done"}

\* An answer is of the query: its rows are in the order asked for; without one they may be in that of
\* another query with the same metrics, whose order the key does not keep (generateCacheKey).
AnswerIsOfTheQuery ==
  \A c \in Answered : LET q == calls[c].query IN
    calls[c].answer.sorted \in IF q.order = NoOrder THEN {q.metrics[i] : i \in DOMAIN q.metrics}
                                                   ELSE {q.order}

\* Once a clearing is over, what is cached was read after its backfill, unless it was being asked for
\* when a clearing ended (handleBackfillCompleted).
BackfillIsSeen ==
  clearing = NoOrder => \A k \in DOMAIN cache \ across : cache[k].epoch = epoch

AnswersFit == AnswerIsOfTheQuery /\ BackfillIsSeen
=============================================================================
