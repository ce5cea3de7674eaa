----------------------------- MODULE MCBackfill -----------------------------
(* Values of Backfill's constants for TLC. *)
EXTENDS Backfill

CONSTANTS t1, t2, t3, v1, v2

\* All days in one month: the second chunk finds the month's sessions done.
OneMonth == [d \in Days |-> 1]

EventsAndSessions == <<"events", "sessions">>
=============================================================================
