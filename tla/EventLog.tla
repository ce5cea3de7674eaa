------------------------------ MODULE EventLog ------------------------------
(***************************************************************************)
(* What the ingestion buffer promises, without saying how: per workspace a  *)
(* log of accepted events of which a prefix is durable.  Events become      *)
(* durable in the order in which they were accepted, the log never drops or *)
(* reorders an event while the process runs, and a crash costs exactly the  *)
(* part that was not yet durable.                                           *)
(***************************************************************************)
EXTENDS Naturals, Sequences

CONSTANTS Workspaces, Event

VARIABLES
  log,      \* log[w]: the accepted events of w the process still answers for
  durable   \* durable[w]: the prefix of log[w] known to be in ClickHouse

vars == <<log, durable>>

Init ==
  /\ log = [w \in Workspaces |-> <<>>]
  /\ durable = [w \in Workspaces |-> <<>>]

Accept(w, e) ==
  /\ log' = [log EXCEPT ![w] = Append(@, e)]
  /\ UNCHANGED durable

Persist(w) ==
  /\ \E n \in (Len(durable[w]) + 1) .. Len(log[w]) :
        durable' = [durable EXCEPT ![w] = SubSeq(log[w], 1, n)]
  /\ UNCHANGED log

Crash ==
  /\ log' = durable
  /\ UNCHANGED durable

Next ==
  \/ \E w \in Workspaces : \/ \E e \in Event : Accept(w, e)
                           \/ Persist(w)
  \/ Crash

Spec == Init /\ [][Next]_vars
=============================================================================
