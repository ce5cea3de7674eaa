----------------------------- MODULE Dashboard -----------------------------
(***************************************************************************)
(* The console's dashboard (console/src/routes/.../index.tsx, with           *)
(* components/dashboard/DashboardGrid.tsx, DimensionTableWidget.tsx,          *)
(* DateRangePicker.tsx, components/explore/ExploreFilterBuilder.tsx and        *)
(* hooks/useDashboardParams.ts, useDimensionQuery.ts): its parameters are in  *)
(* the address, and are kept in the storage of the browser; a widget shows    *)
(* the values of the dimension of its tab, and a click on one filters by it.   *)
(*                                                                          *)
(* The address is written at once and the page rendered with it later.  A     *)
(* render and the effects it causes are one action.  One widget is modelled,  *)
(* with its drawer; the chart and the totals ask queries of their own.        *)
(***************************************************************************)
EXTENDS Integers, Sequences, FiniteSets, SequencesExt

CONSTANTS
  None,         \* model value: nothing
  Default,      \* previous_7_days and previous_period, the defaults of both
  Periods, Comparisons, Ranges,  \* presets and comparisons (each with Default), custom ranges
  Custom,       \* the period 'custom'
  NoComparison, \* the comparison 'none'
  WidgetTabs,   \* keys of the tabs of the widget
  FirstTab,
  Values,       \* of any dimension; a value is told apart by its dimension too
  MaxActs,      \* bound: what the user does
  MaxErrors     \* bound: queries that fail

VARIABLES
  open,         \* whether the dashboard is the page that is shown
  search,       \* the parameters it was rendered with
  url,          \* those in the address
  saved,        \* localStorage: period and comparison
  pendingPeriod, armed,  \* the period that waits for its timer, the parameters the timer will write
  pendingRange, \* the range that was picked, while its modal is open
  picking,      \* the dimension selected in the filter builder, while its popover is open
  activeTab, sort, drawer,  \* of the widget
  cached, asked, refused,  \* queries: answered, on their way, failed
  response,     \* for the table and the drawer: the query whose answer it has; keepPreviousData keeps an old one
  acts, errors, \* counted against their bounds
  \* History variables: they record the past and guard nothing.
  chosen,       \* the parameters as the user chose them
  stale,        \* an address was written from a page not rendered with the last one
  crossed       \* the dimension selected in the filter builder has a filter that came otherwise

dashboardVars == <<open, search, url, saved, pendingPeriod, armed, pendingRange, picking, activeTab, sort, drawer,
                   cached, asked, refused, response, acts, errors, chosen, stale, crossed>>

WidgetViews == {"table", "drawer"}

\* The tabs of all widgets by their keys, and those that ask for values that are not empty.
Dimension == [
  landing |-> "landing_path", exits |-> "exit_path",
  referrers |-> "referrer_domain", channels |-> "channel", channel_groups |-> "channel_group",
  campaign |-> "utm_campaign", source |-> "utm_source", medium |-> "utm_medium", content |-> "utm_content",
  term |-> "utm_term",
  map |-> "country", list |-> "country",
  devices |-> "device", browsers |-> "browser", os |-> "os",
  goals |-> "goal_name"]
HasFilter == {"campaign", "source", "medium", "content", "term"}
IsMapView(t) == t = "map"

\* tabKeyToDimension: the key of the exits is spelled differently.
TabKeyToDimension == [t \in (DOMAIN Dimension \ {"exits"}) \cup {"exit"} |->
                        IF t = "exit" THEN "exit_path" ELSE Dimension[t]]

\* What the dashboard takes for granted of its parameters and its tabs.
DashboardAssumption ==
  /\ None \notin Periods \cup Comparisons \cup Ranges \cup {Custom}
  /\ Default \in Periods /\ Default \in Comparisons
  /\ FirstTab \in WidgetTabs /\ WidgetTabs \subseteq DOMAIN Dimension

Blank == [period |-> None, comparison |-> None, range |-> None, filters |-> <<>>]

\* What the page makes of the parameters.
Or(x, default) == IF x = None THEN default ELSE x
Shown(s) == [s EXCEPT !.period = Or(@, Default), !.comparison = Or(@, Default)]

Filter(dim, op, value) == [dim |-> dim, op |-> op, value |-> value]

DashboardInit ==
  /\ open = FALSE /\ search = Blank /\ url = Blank
  /\ saved \in [period : Periods \cup {Custom, None}, comparison : Comparisons \cup {None}]
  /\ pendingPeriod = None /\ armed = None /\ pendingRange = None /\ picking = None
  /\ activeTab = FirstTab /\ sort = "desc" /\ drawer = FALSE
  /\ cached = {} /\ asked = {} /\ refused = {} /\ response = [v \in WidgetViews |-> None]
  /\ acts = 0 /\ errors = 0
  /\ chosen = Blank /\ stale = FALSE /\ crossed = FALSE

-----------------------------------------------------------------------------
(* The rows of the widget. *)

\* mergedFilters: the filter of the tab takes the place of those of the page on its dimension.
MergedFilters(t, filters) ==
  IF t \in HasFilter THEN SelectSeq(filters, LAMBDA f : f.dim # Dimension[t]) ELSE filters

\* dateRange, compareDateRange: a range counts with the period 'custom' only; what is compared with is
\* the same for all comparisons but 'none'.
When(s) ==
  [range |-> IF Shown(s).period = Custom /\ s.range # None THEN s.range ELSE Shown(s).period,
   isCompared |-> Shown(s).comparison # NoComparison]

\* The drawer asks for more rows when it is open; a map has an order of its own.
DimensionQuery(v, s, t, order, expanded) ==
  [dim |-> Dimension[t], own |-> t \in HasFilter, filters |-> MergedFilters(t, s.filters),
   order |-> IF v = "table" /\ IsMapView(t) THEN "desc" ELSE order,
   limit |-> IF v = "drawer" /\ expanded THEN 200 ELSE IF IsMapView(t) THEN 100 ELSE 7,
   when |-> When(s)]

ValuesOf(dim) == {dim} \X Values

\* Rows are those that pass the filters of the query.
RowsOf(q) ==
  {v \in ValuesOf(q.dim) :
     \A i \in DOMAIN q.filters : q.filters[i].dim = q.dim => (q.filters[i].op = "equals") = (q.filters[i].value = v)}

\* data: an answer about another dimension is not shown, nor one of a query that failed.
Rows(v) ==
  LET q == response[v]
  IN  IF DimensionQuery(v, search, activeTab, sort, drawer) \in refused \/ q = None THEN {}
      ELSE IF q.dim # Dimension[activeTab] THEN {}
      ELSE RowsOf(q)

\* What the widget shows of a map, or of a table and its drawer, which a map closes over.
DrawerIsShown == drawer /\ ~IsMapView(activeTab)
Offered(v) == IF v = "drawer" /\ ~DrawerIsShown THEN {} ELSE Rows(v)
HasHeader == DrawerIsShown \/ (~IsMapView(activeTab) /\ Rows("table") # {})

\* The widget is rendered: both views show what is in the cache, and ask for what is not.
RenderWidget(s, t, order, expanded) ==
  LET query(v) == DimensionQuery(v, s, t, order, expanded)
      missing == {query(v) : v \in WidgetViews} \ cached
  IN  /\ activeTab' = t /\ sort' = order /\ drawer' = expanded
      /\ asked' = asked \cup missing /\ refused' = refused \ missing
      /\ response' = [v \in WidgetViews |-> IF query(v) \in cached THEN query(v) ELSE response[v]]
      /\ UNCHANGED <<cached, errors>>

widgetVars == <<activeTab, sort, drawer, cached, asked, refused, response, errors>>

AnswerQuery(q) ==
  /\ open /\ q \in asked
  /\ asked' = asked \ {q} /\ cached' = cached \cup {q}
  /\ response' = [v \in WidgetViews |->
                    IF DimensionQuery(v, search, activeTab, sort, drawer) = q THEN q ELSE response[v]]
  /\ UNCHANGED <<open, search, url, saved, pendingPeriod, armed, pendingRange, picking, activeTab, sort, drawer,
                 refused, acts, errors, chosen, stale, crossed>>

Fail(q) ==
  /\ open /\ q \in asked /\ errors < MaxErrors
  /\ asked' = asked \ {q} /\ refused' = refused \cup {q} /\ errors' = errors + 1
  /\ UNCHANGED <<open, search, url, saved, pendingPeriod, armed, pendingRange, picking, activeTab, sort, drawer,
                 cached, response, acts, chosen, stale, crossed>>

-----------------------------------------------------------------------------
(* The page and its address. *)

\* The effects that save what the page shows.
SavedOf(s) == [period |-> Or(s.period, Default), comparison |-> Or(s.comparison, Default)]

\* The effect of the first render: what the address does not say is taken from the storage.  Both
\* writes are of what was rendered, so the second replaces the first.
Loaded(s, store, otherwise) ==
  IF s.comparison = None /\ store.comparison # None THEN [s EXCEPT !.comparison = store.comparison]
  ELSE IF s.period = None /\ store.period # None THEN [s EXCEPT !.period = store.period]
  ELSE otherwise

\* The page and its grid both use the parameters: the effects of the grid come first, and save the
\* defaults before those of the page read the storage.
OpenPage(s) ==
  /\ ~open /\ open' = TRUE
  /\ search' = s /\ saved' = SavedOf(s)
  /\ url' = Loaded(s, SavedOf(s), Loaded(s, saved, s))
  /\ pendingPeriod' = None /\ armed' = None /\ pendingRange' = None /\ picking' = None
  /\ RenderWidget(s, FirstTab, "desc", FALSE)
  /\ chosen' = Shown(s) /\ stale' = FALSE /\ crossed' = (crossed /\ s = url)
  /\ UNCHANGED acts

\* The effect of the debounce runs anew with the address.
Rearmed(s) == IF pendingPeriod = None THEN None ELSE s

\* The address is rendered; a running timer is set anew, the filter builder moves when the first
\* filter comes or the last one goes.
Rerender ==
  /\ open /\ url # search
  /\ search' = url /\ saved' = SavedOf(url)
  /\ armed' = Rearmed(url)
  /\ picking' = IF (url.filters = <<>>) = (search.filters = <<>>) THEN picking ELSE None
  /\ RenderWidget(url, activeTab, sort, drawer)
  /\ stale' = FALSE
  /\ chosen' = IF ~stale THEN chosen
               ELSE IF pendingPeriod = None THEN Shown(url) ELSE [Shown(url) EXCEPT !.period = pendingPeriod]
  /\ UNCHANGED <<open, url, pendingPeriod, pendingRange, acts, crossed>>

\* navigate with what was made of the rendered parameters.
NavigateTo(s) == url' = s /\ stale' = (stale \/ url # search)

\* The user does something, which the modal of the range does not cover.
Act ==
  /\ open /\ pendingRange = None /\ acts < MaxActs
  /\ acts' = acts + 1

pageVars == <<open, search, saved>>

\* setPeriod
SetPeriod(p) ==
  /\ Act
  /\ pendingPeriod' = p /\ armed' = search
  /\ chosen' = [chosen EXCEPT !.period = p]
  /\ UNCHANGED <<pageVars, url, pendingRange, picking, widgetVars, stale, crossed>>

DebounceFires ==
  /\ open /\ pendingPeriod # None
  /\ NavigateTo([armed EXCEPT !.period = pendingPeriod])
  /\ pendingPeriod' = None /\ armed' = None
  /\ UNCHANGED <<pageVars, pendingRange, picking, widgetVars, acts, chosen, crossed>>

SetComparison(c) ==
  /\ Act
  /\ NavigateTo([search EXCEPT !.comparison = c])
  /\ chosen' = [chosen EXCEPT !.comparison = c]
  /\ UNCHANGED <<pageVars, pendingPeriod, armed, pendingRange, picking, widgetVars, crossed>>

\* The modal of the range: it is written after a while, by which time an earlier period has been, or at
\* once with OK, which also sets the period; or the modal is cancelled.
PickRange(r) ==
  /\ Act
  /\ pendingRange' = r
  /\ UNCHANGED <<pageVars, url, pendingPeriod, armed, picking, widgetVars, chosen, stale, crossed>>

SetCustomRange ==
  /\ open /\ pendingRange # None
  /\ NavigateTo([search EXCEPT !.period = Custom, !.range = pendingRange])
  /\ pendingRange' = None
  /\ chosen' = [chosen EXCEPT !.period = Custom, !.range = pendingRange]
  /\ UNCHANGED <<pageVars, picking, widgetVars, acts, crossed>>

RangeFires == pendingPeriod = None /\ SetCustomRange /\ UNCHANGED <<pendingPeriod, armed>>
HandleCustomRangeOk == SetCustomRange /\ pendingPeriod' = Custom /\ armed' = search

CancelRange ==
  /\ open /\ pendingRange # None
  /\ pendingRange' = None
  /\ UNCHANGED <<pageVars, url, pendingPeriod, armed, picking, widgetVars, acts, chosen, stale, crossed>>

-----------------------------------------------------------------------------
(* Filters. *)

FilterDims(filters) == {filters[i].dim : i \in DOMAIN filters}

\* Some of the positions of a sequence, in order.
InOrder(K) == CHOOSE at \in [1..Cardinality(K) -> K] : \A i, j \in DOMAIN at : i < j => at[i] < at[j]
Without(filters, dims) ==
  LET at == InOrder({i \in DOMAIN filters : filters[i].dim \notin dims})
  IN  [i \in DOMAIN at |-> filters[at[i]]]

\* Whether the first filter on the dimension is this one.
IsOn(filters, f) ==
  \E i \in DOMAIN filters : filters[i] = f /\ \A j \in 1..(i - 1) : filters[j].dim # f.dim

\* A mutant of Toggled: what is added does not take the place of what is there.
Appended(filters, added) ==
  IF \A i \in DOMAIN added : IsOn(filters, added[i]) THEN Without(filters, FilterDims(added)) ELSE filters \o added

\* handleAddFilter: filters that are all there go, else they take the place of those on their dimensions.
Toggled(filters, added) ==
  IF \A i \in DOMAIN added : IsOn(filters, added[i])
  THEN Without(filters, FilterDims(added))
  ELSE Without(filters, FilterDims(added)) \o added

\* setFilters
SetFilters(rendered, intended) ==
  /\ NavigateTo([search EXCEPT !.filters = rendered])
  /\ chosen' = [chosen EXCEPT !.filters = intended]
  /\ UNCHANGED <<pageVars, pendingPeriod, armed, pendingRange, widgetVars>>

HandleAddFilter(added) ==
  /\ SetFilters(Toggled(search.filters, added), Toggled(chosen.filters, added))
  /\ picking' \in {picking, None} /\ crossed' = (crossed \/ picking \in FilterDims(added))

\* A row of the table or of the drawer.
HandleRowClick(v, row) ==
  /\ Act
  /\ row \in Offered(v)
  /\ activeTab \in DOMAIN TabKeyToDimension
  /\ HandleAddFilter(<<Filter(TabKeyToDimension[activeTab], "equals", row)>>)

\* A cell of the heat map.
HandleHeatmapCellClick(day, hour) ==
  /\ Act
  /\ HandleAddFilter(<<Filter("day_of_week", "equals", <<"day_of_week", day>>),
                       Filter("hour", "equals", <<"hour", hour>>)>>)

\* The filter builder offers the dimensions that have no filter.
AvailableDimensions == {Dimension[t] : t \in WidgetTabs} \ FilterDims(search.filters)
HandleDimensionSelect(dim) ==
  /\ Act
  /\ dim \in AvailableDimensions /\ picking' = dim
  /\ crossed' = (crossed \/ dim \in FilterDims(url.filters))
  /\ UNCHANGED <<pageVars, url, pendingPeriod, armed, pendingRange, widgetVars, chosen, stale>>

\* Back, or a click elsewhere.
HandlePrevious ==
  /\ Act
  /\ picking # None /\ picking' = None
  /\ UNCHANGED <<pageVars, url, pendingPeriod, armed, pendingRange, widgetVars, chosen, stale, crossed>>

\* The operators of a text: these two stand for those that let values pass and those that stop them.
OperatorOptions == {"equals", "notEquals"}

\* The filter is appended to those there are now.
HandleApplyFilter(op, value) ==
  /\ Act
  /\ picking # None /\ picking' = None
  /\ LET f == Filter(picking, op, value)
     IN  SetFilters(Append(search.filters, f), Append(chosen.filters, f))
  /\ UNCHANGED crossed

HandleRemoveFilter(i) ==
  /\ Act
  /\ i \in DOMAIN search.filters
  /\ SetFilters(RemoveAt(search.filters, i),
                IF i \in DOMAIN chosen.filters THEN RemoveAt(chosen.filters, i) ELSE chosen.filters)
  /\ UNCHANGED <<picking, crossed>>


-----------------------------------------------------------------------------
(* The widget. *)

OfWidget == UNCHANGED <<pageVars, url, pendingPeriod, armed, pendingRange, picking, chosen, stale, crossed>>

SetActiveTab(t) == Act /\ t # activeTab /\ RenderWidget(search, t, sort, drawer) /\ OfWidget
HandleHeaderClick ==
  Act /\ HasHeader /\ RenderWidget(search, activeTab, IF sort = "desc" THEN "asc" ELSE "desc", drawer) /\ OfWidget
SetDrawerOpen == Act /\ ~IsMapView(activeTab) /\ RenderWidget(search, activeTab, sort, ~drawer) /\ OfWidget

\* The user goes to another page; what is on its way still arrives in the cache.
LeavePage ==
  /\ Act
  /\ open' = FALSE
  /\ cached' = cached \cup asked /\ asked' = {} /\ response' = [v \in WidgetViews |-> None]
  /\ UNCHANGED <<search, url, saved, pendingPeriod, armed, pendingRange, picking, activeTab, sort, drawer,
                 refused, errors, chosen, stale, crossed>>

DashboardNext ==
  \/ \E s \in {Blank, url} : OpenPage(s)  \* from the menu, or back in the history
  \/ Rerender \/ DebounceFires \/ RangeFires \/ HandleCustomRangeOk \/ CancelRange
  \/ \E q \in asked : AnswerQuery(q) \/ Fail(q)
  \/ \E p \in Periods \ {Shown(search).period} : SetPeriod(p)
  \/ \E c \in Comparisons \ {Shown(search).comparison} : SetComparison(c)
  \/ \E r \in Ranges : PickRange(r)
  \/ \E v \in WidgetViews : \E row \in Offered(v) : HandleRowClick(v, row)
  \/ \E v \in Values : HandleHeatmapCellClick(v, v)
  \/ \E dim \in AvailableDimensions : HandleDimensionSelect(dim)
  \/ \E op \in OperatorOptions, v \in ValuesOf(picking) : HandleApplyFilter(op, v)
  \/ \E t \in WidgetTabs : SetActiveTab(t)
  \/ \E i \in DOMAIN search.filters : HandleRemoveFilter(i)
  \/ HandlePrevious \/ HandleHeaderClick \/ SetDrawerOpen \/ LeavePage

DashboardSpec == DashboardInit /\ [][DashboardNext]_dashboardVars

-----------------------------------------------------------------------------
(* Properties. *)

\* Once the page shows its address and no period waits, it is what the user chose, although every
\* action writes the whole address; unless one was taken on a page that was not yet rendered anew.
ChoicesStand ==
  open /\ url = search /\ pendingPeriod = None /\ ~stale => Shown(search) = chosen

\* Who clicks on a row filters by the dimension it is a value of, although the answer of an earlier
\* tab stays while the next one is on its way.
FiltersFit == \A i \in DOMAIN url.filters : url.filters[i].value[1] = url.filters[i].dim

\* Row clicks and the filter builder leave one filter per dimension, unless they met: the dimension
\* that is selected in the one got its filter from the other.
OnePerDimension ==
  \A i, j \in DOMAIN url.filters : i # j /\ url.filters[i].dim = url.filters[j].dim => crossed

\* Rows that stay when all answers have come are those of the parameters that are shown.
RowsAreCurrent ==
  open /\ asked = {} =>
    \A v \in WidgetViews : Rows(v) # {} => response[v] = DimensionQuery(v, search, activeTab, sort, drawer)

\* What the dashboard shows is what was chosen, and what was clicked.
DashboardIsTrue == ChoicesStand /\ FiltersFit /\ OnePerDimension /\ RowsAreCurrent
=============================================================================
