------------------------------- MODULE MCApi -------------------------------
(***************************************************************************)
(* What requests ask of the API, for TLC: the users and their sessions        *)
(* (Accounts), a workspace with its settings (Workspaces), its members         *)
(* (Members), its API keys (ApiKeys),                                         *)
(* the export that a key gives access to (Export), the figures of the          *)
(* analytics (Figures) and their cache (QueryCache).  They have no state in    *)
(* common here, so they are checked one at a time: focus names the one that    *)
(* takes steps, the others stay as they were at the beginning.                 *)
(***************************************************************************)
EXTENDS Accounts, Members, Workspaces, ApiKeys, Export, Figures, QueryCache, TLC

CONSTANTS
  o1, o2, m,  \* users of Members
  w1, w2, p1, p2   \* names of calls and payloads of Workspaces

VARIABLE focus

\* An owner and an admin; m is not a member yet.
OwnerAndAdmin == o1 :> "owner" @@ o2 :> "admin"

ASSUME OwnerIsFounder == TeamIsFounded

\* Three sessions in two weeks, of which today is the day after.
Universe ==
  [day : {6, 13}, country : {"", "fr"}, path : {"a"}, duration : {1, 3}, scroll : {1}]
  \cup [day : {13}, country : {"us"}, path : {"b"}, duration : {6}, scroll : {2}]
Numbered(s, i) == [id |-> i, day |-> s.day, country |-> s.country, path |-> s.path,
                   duration |-> s.duration, scroll |-> s.scroll]
MCSamples == {{Numbered(f[i], i) : i \in 1..3} : f \in [1..3 -> Universe]}

Rows == [dims |-> <<>>, unit |-> "none", filters |-> {}, metricFilters |-> {}, totalsBy |-> <<>>, least |-> 0,
         limit |-> 9, order |-> [by |-> "sessions", down |-> TRUE], from |-> 0, to |-> 13]
OfFrance == [dim |-> "country", op |-> "equals", args |-> <<"fr">>]
LowBounce == [metric |-> "bounce_rate", op |-> "lt", args |-> <<6>>]
MCQueries ==
  {[Rows EXCEPT !.totalsBy = t, !.metricFilters = {LowBounce}, !.least = n, !.filters = x] :
     t \in {<<"country">>, <<"country", "page_path">>}, n \in {0, 2}, x \in {{}, {OfFrance}}}
  \cup {[Rows EXCEPT !.dims = <<"country", "page_path">>, !.least = n] : n \in {0, 2}}
  \cup {[Rows EXCEPT !.dims = d, !.unit = u, !.from = 3, !.to = t] :
          d \in {<<>>, <<"country">>}, u \in {"day", "week"}, t \in {12, 13}}

\* Days of a second year, and a change of the clock by an hour.
MCDays == {14} \cup 400..415
MCClocks == [day : {0, 380, 399, 405}, hours : {-1, 1}]

ASSUME FiguresAreOfSessions == FiguresAssumption

\* Two metrics in either order, with an order of the rows or none.
Requests == {[metrics |-> <<"sessions", "bounce_rate">>, order |-> NoOrder],
             [metrics |-> <<"bounce_rate", "sessions">>, order |-> NoOrder],
             [metrics |-> <<"sessions", "bounce_rate">>, order |-> "bounce_rate"]}

ASSUME RequestsAreQueries == AskedAreQueries

-----------------------------------------------------------------------------
\* Samples vary today, and the calendar for one sample.
Aside == CHOOSE s \in MCSamples : TRUE
NoChange == [day |-> 0, hours |-> 1]

MCInit ==
  /\ focus \in {"accounts", "members", "keys", "export", "figures", "queries", "workspaces"}
  /\ Init /\ TeamInit /\ KeysInit /\ ExInit /\ FiguresInit /\ QueryCacheInit /\ WsInit
  /\ today = 14 => changed = NoChange
  /\ today # 14 => stored = Aside
  /\ focus # "workspaces" => wsRows = {}
  /\ focus # "figures" => today = 14 /\ stored = Aside

\* Callers are alike, and so are uses and revocations: they begin in the order of their numbers.
CallersInOrder == calls'[2] # Idle => calls'[1] # Idle
KeysInOrder ==
  /\ use'[2] # Unmade => use'[1] # Unmade
  /\ revocation'[2] # Unmade => revocation'[1] # Unmade

\* Calls are alike, and so are payloads; two calls meet one payload, or two payloads meet one call.
Begun(does, c) == does[c].at # "idle"
MeetInOrder ==
  /\ Begun(change, w2) => Begun(change, w1)
  /\ Begun(payload, p2) => Begun(payload, p1)
  /\ ~(Begun(change, w2) /\ Begun(payload, p2))

MCNext ==
  /\ UNCHANGED focus
  /\ IF focus = "accounts" THEN Next ELSE UNCHANGED vars
  /\ IF focus = "members" THEN TeamNext ELSE UNCHANGED teamVars
  /\ IF focus = "keys" THEN KeysNext /\ KeysInOrder ELSE UNCHANGED keyVars
  /\ IF focus = "export" THEN ExNext ELSE UNCHANGED exVars
  /\ IF focus = "figures" THEN FiguresNext ELSE UNCHANGED figureVars
  /\ IF focus = "queries" THEN QueryCacheNext /\ CallersInOrder ELSE UNCHANGED cacheVars
  /\ IF focus = "workspaces" THEN WsNext ELSE UNCHANGED wsVars
  /\ MeetInOrder'

MCSpec == MCInit /\ [][MCNext]_<<focus, vars, teamVars, keyVars, exVars, figureVars, cacheVars, wsVars>>

\* Requests are alike.
CallSymmetry == Permutations(Calls)
=============================================================================
