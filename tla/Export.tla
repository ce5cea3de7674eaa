------------------------------- MODULE Export -------------------------------
(***************************************************************************)
(* The export of a workspace's events (api/src/export/export.service.ts):   *)
(* page after page, from a cursor, while the table goes on changing.  An     *)
(* event that is sent again replaces its row (ReplacingMergeTree), and gets  *)
(* a new id, drawn at random (events.id DEFAULT generateUUIDv4()).           *)
(***************************************************************************)
EXTENDS Integers, FiniteSets

CONSTANTS
  Tokens,     \* dedup_token: what identifies an event
  Ids,        \* the ids there are to draw
  Times,      \* values of updated_at
  Until,      \* the end of the period asked for
  Limit,      \* rows per page
  MaxWrites   \* bound: events written once the export has begun

VARIABLES
  exported,  \* events FINAL: rows [token, id, updated, known]; known says whether user_id is set
  reader,    \* [at, cursor]: what the reader does, and next_cursor
  got,       \* the rows it has got
  writes,    \* counted against its bound
  steady     \* history: the rows that have been there since the first page was asked for

exVars == <<exported, reader, got, writes, steady>>

ASSUME ExportAssumption == Limit \in Nat \ {0} /\ Ids \subseteq Nat /\ Times \subseteq Nat /\ Until \in Int

NoCursor == [updated |-> -1, id |-> -1]

ExInit ==
  /\ exported = {} /\ got = {} /\ writes = 0 /\ steady = {}
  /\ reader = [at |-> "outside", cursor |-> NoCursor]

\* A row of its own id takes the place of the one with the same token, if there is one.
Write ==
  \E t \in Tokens, i \in Ids \ {r.id : r \in exported \cup got}, u \in Times, known \in BOOLEAN :
    /\ reader.at # "done"
    /\ IF reader.at = "outside" THEN t \notin {r.token : r \in exported} /\ UNCHANGED writes
       ELSE writes < MaxWrites /\ writes' = writes + 1
    /\ exported' = {r \in exported : r.token # t}
                     \cup {[token |-> t, id |-> i, updated |-> u, known |-> known]}
    /\ steady' = steady \cap exported'
    /\ UNCHANGED <<reader, got>>

After(r, c) == r.updated > c.updated \/ (r.updated = c.updated /\ r.id > c.id)

\* The cursor is its time alone.
MatchesByTime(r) == r.known /\ r.updated > reader.cursor.updated /\ r.updated <= Until
Matches(r) == r.known /\ After(r, reader.cursor) /\ r.updated <= Until

\* The first rows of a set in the order of the query, at most n of them.
Foremost(S, n) == {r \in S : Cardinality({o \in S : After(r, o)}) < n}

\* LIMIT limit + 1: the row too many says that there is more.
HasMore(S) == Cardinality(Foremost(S, Limit + 1)) > Limit
LastOf(S) == CHOOSE r \in S : \A o \in S : o = r \/ After(r, o)

ReadPage ==
  /\ reader.at # "done"
  /\ LET found == {r \in exported : Matches(r)}
         data == Foremost(found, Limit)
     IN  /\ got' = got \cup data
         /\ reader' = IF HasMore(found)
              THEN [at |-> "reading", cursor |-> [updated |-> LastOf(data).updated, id |-> LastOf(data).id]]
              ELSE [at |-> "done", cursor |-> NoCursor]
  /\ steady' = IF reader.at = "outside" THEN exported ELSE steady
  /\ UNCHANGED <<exported, writes>>

ExNext == Write \/ ReadPage
ExSpec == ExInit /\ [][ExNext]_exVars

-----------------------------------------------------------------------------
\* A reader who follows the cursor to its end gets every event of the period that was there when
\* it began and has not been replaced since, however much is written meanwhile
\* (export.service.ts, getUserEvents).
ExportIsComplete ==
  reader.at = "done" => \A r \in steady : r.known /\ r.updated <= Until => r \in got
=============================================================================
