------------------------------ MODULE Explore ------------------------------
(***************************************************************************)
(* The report table of the console's Explore page (console/src/routes/...    *)
(* /explore.tsx, with hooks/useExploreParams.ts and lib/explore-utils.ts):    *)
(* its parameters are in the address, its rows come from one query, and the  *)
(* children of a row from another, made when the row is expanded.  The user   *)
(* changes parameters and expands rows while answers are on their way.        *)
(*                                                                          *)
(* A render and the effects it causes are one action.  The answer of a query *)
(* is told apart by what was asked.  Reports have up to two dimensions, so    *)
(* the rows with children are those of the first one; all are compared with   *)
(* a previous period.                                                        *)
(***************************************************************************)
EXTENDS Integers, Sequences, FiniteSets

CONSTANTS
  None,             \* model value: nothing
  DimensionLists,   \* choices of dimensions, one at least: without any there is no table
  Scopes,           \* what every query carries: filters, dates, time zone, least sessions
  MetricFilters,
  Reports,          \* parameters as the assistant or a template sets them
  Values,           \* of the first dimension, "empty" among them: the keys of the rows
  MaxChoices,       \* bound: changes of the parameters
  MaxExpansions,    \* bound: rows that are expanded
  MaxErrors         \* bound: queries that fail

ASSUME ExploreAssumption ==
  /\ \A p \in Reports : p.dims \in DimensionLists /\ p.scope \in Scopes /\ p.metric \in MetricFilters
  /\ \A p \in Reports : p = [dims |-> p.dims, scope |-> p.scope, metric |-> p.metric]
  /\ None \notin DimensionLists
VARIABLES
  search,      \* the parameters in the address
  pending,     \* pendingDimensions, or None
  cached,      \* first queries whose answer is in the query cache
  asked,       \* those on their way
  refused,     \* those that failing
  response,    \* the first query whose answer is shown; keepPreviousData keeps an old one
  measured,    \* whether the extremes of the parameters have arrived
  table,       \* reportData: rows by their keys
  childCache,  \* queries of children that are in the cache
  fetches,     \* those on their way
  waiting,     \* the calls of fetchChildren that await an answer: row and parameters
  choices, expansions, errors,  \* counted against their bounds
  \* History variables: they record the past and guard nothing.
  chosen,      \* the parameters as they were chosen last
  overruled,   \* a whole report was chosen while dimensions were pending
  mixed        \* rows whose children may be of other parameters

exploreVars == <<search, pending, cached, asked, refused, response, measured, table, childCache,
                 fetches, waiting, choices, expansions, errors, chosen, overruled, mixed>>

Params == [dims : DimensionLists, scope : Scopes, metric : MetricFilters]

\* dimensions: what is pending counts at once.
Showing(s, p) == IF p = None THEN s ELSE [s EXCEPT !.dims = p]
Now == Showing(search, pending)

\* initialQuery: the first dimension only.
InitialQuery(p) == [dim |-> p.dims[1], scope |-> p.scope, metric |-> p.metric]

\* transformApiRowsToExploreRows: a row of an answer about another dimension has no value for this one.
Rows(q, p) ==
  IF q = None THEN <<>>
  ELSE [v \in IF q.dim = p.dims[1] THEN Values ELSE {"empty"} |->
          [of |-> q, children |-> None, loading |-> FALSE]]

ExploreInit ==
  /\ search \in Params
  /\ pending = None
  /\ cached = {} /\ refused = {} /\ response = None /\ measured = FALSE
  /\ asked = {InitialQuery(search)}
  /\ table = <<>> /\ childCache = {} /\ fetches = {} /\ waiting = {}
  /\ choices = 0 /\ expansions = 0 /\ errors = 0
  /\ chosen = search /\ overruled = FALSE /\ mixed = {}

-----------------------------------------------------------------------------
(* Rendering. *)

\* The data of the query that is shown: of an error there is none.
Data(q, p, failing) == IF InitialQuery(p) \in failing THEN None ELSE q

\* The effect that builds the table runs when one of what it depends on is another object: the
\* dimensions or the extremes (anew), or the data.
Build(anew, p, q, failing) ==
  IF anew \/ Data(q, p, failing) # Data(response, Now, refused)
  THEN table' = Rows(Data(q, p, failing), p) /\ mixed' = {}
  ELSE UNCHANGED <<table, mixed>>

\* The page is rendered with other parameters: an answer in the cache is shown, another one is asked.
Render(s, pend, dimsAnew) ==
  LET p == Showing(s, pend)
      isAsked == InitialQuery(p) \notin cached
      failing == IF isAsked THEN refused \ {InitialQuery(p)} ELSE refused
      q == IF ~isAsked THEN InitialQuery(p) ELSE response
  IN  /\ search' = s /\ pending' = pend
      /\ asked' = IF isAsked THEN asked \cup {InitialQuery(p)} ELSE asked
      /\ refused' = failing /\ response' = q
      /\ Build(dimsAnew \/ (measured /\ p # Now), p, q, failing)
      /\ measured' = (measured /\ p = Now)
      /\ UNCHANGED <<cached, childCache, fetches, waiting, expansions, errors>>

Choose(p) ==
  /\ choices < MaxChoices /\ choices' = choices + 1
  /\ chosen' = p

\* setFilters, setPeriod, setMinSessions, setComparison, setCustomRange: the rest stays.
SetScope(scope) ==
  /\ scope # search.scope
  /\ Choose([chosen EXCEPT !.scope = scope])
  /\ Render([search EXCEPT !.scope = scope], pending, FALSE)
  /\ UNCHANGED overruled

SetMetricFilters(metric) ==
  /\ metric # search.metric
  /\ Choose([chosen EXCEPT !.metric = metric])
  /\ Render([search EXCEPT !.metric = metric], pending, FALSE)
  /\ UNCHANGED overruled

\* setDimensions: shown at once, in the address after a while.
SetDimensions(dims) ==
  /\ dims # Now.dims
  /\ Choose([chosen EXCEPT !.dims = dims])
  /\ Render(search, dims, TRUE)
  /\ overruled' = FALSE

\* The timer is set anew whenever the address changes, so it finds the address as it is now.
DebounceFires ==
  /\ pending # None
  /\ Render([search EXCEPT !.dims = pending], None, TRUE)
  /\ UNCHANGED <<choices, chosen, overruled>>

\* setAll, for the assistant and the templates: pending dimensions are not cleared.
SetAll(p) ==
  /\ p # Now
  /\ Choose(p)
  /\ Render(p, pending, p.dims # search.dims /\ pending = None)
  /\ overruled' = (pending # None)

-----------------------------------------------------------------------------
(* Answers of the first query. *)

InitialAnswer(q) ==
  LET shown == IF InitialQuery(Now) = q THEN q ELSE response
  IN  /\ q \in asked
      /\ asked' = asked \ {q} /\ cached' = cached \cup {q}
      /\ response' = shown
      /\ Build(FALSE, Now, shown, refused)
      /\ UNCHANGED <<search, pending, refused, measured, childCache, fetches, waiting, choices,
                     expansions, errors, chosen, overruled>>

InitialFails(q) ==
  /\ q \in asked
  /\ errors < MaxErrors /\ errors' = errors + 1
  /\ asked' = asked \ {q} /\ refused' = refused \cup {q}
  /\ Build(FALSE, Now, response, refused \cup {q})
  /\ UNCHANGED <<search, pending, cached, response, measured, childCache, fetches, waiting, choices,
                 expansions, chosen, overruled>>

\* The extremes of the present parameters arrive: the table is built again.
ExtremesArrive ==
  /\ ~measured /\ measured' = TRUE
  /\ Build(TRUE, Now, response, refused)
  /\ UNCHANGED <<search, pending, cached, asked, refused, response, childCache, fetches, waiting,
                 choices, expansions, errors, chosen, overruled>>

-----------------------------------------------------------------------------
(* fetchChildren. *)

\* The key of a query of children, which leaves the metric filters out.
ChildKeyOfRow(v, p) == [row |-> v, dims |-> p.dims]
ChildKey(v, p) == [row |-> v, dims |-> p.dims, scope |-> p.scope]

CanExpand(v) == Len(Now.dims) > 1 /\ table[v].children = None /\ ~table[v].loading

\* insertChildrenIntoTree: under whatever row has the key now.
WithChildren(v, p) ==
  IF v \in DOMAIN table THEN [table EXCEPT ![v].children = p, ![v].loading = FALSE] ELSE table

\* Children that need not be of the present parameters: they were asked for with others, their answer
\* was got with other metric filters, or the rows on the table are not those of the parameters.
MayDiffer(v, asker, answer) ==
  \/ asker # Now
  \/ answer.metric # asker.metric
  \/ v \in DOMAIN table /\ table[v].of # InitialQuery(Now)

\* An answer in the cache is taken for a while; then it is fetched again.
Expand(v) ==
  LET key == ChildKey(v, Now)
      hits == {c \in childCache : c.key = key}
  IN  /\ v \in DOMAIN table /\ CanExpand(v)
      /\ expansions < MaxExpansions /\ expansions' = expansions + 1
      /\ \/ \E c \in hits :
              /\ table' = WithChildren(v, c.params)
              /\ mixed' = IF MayDiffer(v, Now, c.params) THEN mixed \cup {v} ELSE mixed
              /\ UNCHANGED <<fetches, waiting>>
         \/ /\ fetches' = IF \E f \in fetches : f.key = key THEN fetches
                          ELSE fetches \cup {[key |-> key, params |-> Now]}
            /\ waiting' = waiting \cup {[key |-> key, row |-> v, params |-> Now]}
            /\ table' = [table EXCEPT ![v].loading = TRUE]
            /\ UNCHANGED mixed
      /\ UNCHANGED <<search, pending, cached, asked, refused, response, measured, childCache,
                     choices, errors, chosen, overruled>>

WaitersOf(f) == {w \in waiting : w.key = f.key}

ChildrenArrive(f) ==
  LET v == f.key.row
  IN  /\ f \in fetches
      /\ fetches' = fetches \ {f}
      /\ childCache' = {c \in childCache : c.key # f.key} \cup {f}
      /\ waiting' = waiting \ WaitersOf(f)
      /\ table' = WithChildren(v, f.params)
      /\ mixed' = IF \E w \in WaitersOf(f) : MayDiffer(v, w.params, f.params)
                  THEN mixed \cup {v} ELSE mixed
      /\ UNCHANGED <<search, pending, cached, asked, refused, response, measured, choices, expansions,
                     errors, chosen, overruled>>

\* The catch block: the row, in whatever table, is not loading any more.
NotLoading(v) == IF v \in DOMAIN table THEN [table EXCEPT ![v].loading = FALSE] ELSE table

ChildrenFail(f) ==
  /\ f \in fetches
  /\ errors < MaxErrors /\ errors' = errors + 1
  /\ fetches' = fetches \ {f} /\ waiting' = waiting \ WaitersOf(f)
  /\ table' = NotLoading(f.key.row)
  /\ UNCHANGED <<search, pending, cached, asked, refused, response, measured, childCache, choices,
                 expansions, chosen, overruled, mixed>>

ExploreNext ==
  \/ \E scope \in Scopes : SetScope(scope)
  \/ \E metric \in MetricFilters : SetMetricFilters(metric)
  \/ \E dims \in DimensionLists : SetDimensions(dims)
  \/ \E p \in Reports : SetAll(p)
  \/ DebounceFires
  \/ \E q \in asked : InitialAnswer(q) \/ InitialFails(q)
  \/ ExtremesArrive
  \/ \E v \in Values : Expand(v)
  \/ \E f \in fetches : ChildrenArrive(f) \/ ChildrenFail(f)

ExploreSpec == ExploreInit /\ [][ExploreNext]_exploreVars

-----------------------------------------------------------------------------
(* What the page shows. *)

\* The parameters in force are those chosen last, and so is the address once nothing is pending,
\* unless a whole report was chosen within DEBOUNCE_MS of a choice of dimensions (useExploreParams).
ChoicesStay ==
  ~overruled => Now = chosen

\* With no query on its way the rows are those of the parameters in force (the effect of explore.tsx
\* that builds reportData from initialResponse, which may be the answer to an older query).
RowsAreAsked ==
  InitialQuery(Now) \notin asked \cup refused =>
    \A v \in DOMAIN table : table[v].of = InitialQuery(Now)

\* So are the children under a row, unless they were asked for with other parameters, got with other
\* metric filters, or put under a row of an older answer (fetchChildren, insertChildrenIntoTree).
ChildrenAreAsked ==
  InitialQuery(Now) \notin asked \cup refused =>
    \A v \in DOMAIN table \ mixed : table[v].children \in {None, Now}

\* A row that is loading awaits an answer: fetchChildren turns it away until then.
LoadingAwaits ==
  \A v \in DOMAIN table : table[v].loading => \E w \in waiting : w.row = v

\* The table shows what was asked for.
TableIsTrue == ChoicesStay /\ RowsAreAsked /\ ChildrenAreAsked /\ LoadingAwaits
=============================================================================
