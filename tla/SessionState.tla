--------------------------- MODULE SessionState ---------------------------
(***************************************************************************)
(* The actions of a session in one tab (sdk/src/core/session-state.ts) as   *)
(* operators on a record: the session, its pageviews and goals in order,    *)
(* the index of the current page (0: none).  A page carries, besides its    *)
(* number, the name of the visit it stands for, which the code has not.     *)
(***************************************************************************)
EXTENDS Integers, Sequences, FiniteSetsExt

CONSTANT MaxActions   \* MAX_ACTIONS

ASSUME SessionStateAssumption == MaxActions \in Nat \ {0}

Empty(session) == [session |-> session, actions |-> <<>>, current |-> 0]

Numbers(s) == {s.actions[i].page : i \in DOMAIN s.actions}
\* getNextPageNumber.
NextNumber(s) == Max(Numbers(s) \cup {0}) + 1

IsFull(s) == Len(s.actions) >= MaxActions

\* buildPayload brings the duration of the current page up to date.
BuildPayload(s, ms) ==
  IF s.current = 0 THEN s ELSE [s EXCEPT !.actions[s.current].duration = ms]

AddPageview(s, visit, ms) ==
  IF IsFull(s) THEN s
  ELSE [BuildPayload(s, ms) EXCEPT
          !.actions = Append(@, [type |-> "pageview", page |-> NextNumber(s),
                                 visit |-> visit, duration |-> 0]),
          !.current = Len(s.actions) + 1]

\* A goal is of the current page, or of page 1 if there is none.
AddGoal(s) ==
  IF IsFull(s) THEN s
  ELSE [s EXCEPT !.actions = Append(@, [type |-> "goal", duration |-> 0, visit |-> 0,
                   page |-> IF s.current = 0 THEN 1 ELSE s.actions[s.current].page])]

FinalizeForUnload(s, ms) == [BuildPayload(s, ms) EXCEPT !.current = 0]

PageActions(s) == {a \in {s.actions[i] : i \in DOMAIN s.actions} : a.type = "pageview"}
===========================================================================
