------------------------------ MODULE Figures ------------------------------
(***************************************************************************)
(* What a query of the analytics asks of ClickHouse, and what is made of the *)
(* rows (api/src/analytics: query-builder, filter-builder, date-utils), with *)
(* the mailed report that is made from such queries (report-generator).       *)
(*                                                                          *)
(* The tables differ in the metrics and dimensions they have and are one      *)
(* here.  Time counts days, of which day 0 is a Monday and the first of a      *)
(* year; months are alike.  Figures are exact: rounding is left out.           *)
(***************************************************************************)
EXTENDS Integers, Sequences, FiniteSets, FiniteSetsExt, SequencesExt

CONSTANTS
  Samples,      \* what may be stored: sets of sessions, each with its id
  Queries,      \* bound: what is asked
  Today,        \* days that may be today
  Clocks,       \* changes of the clock: the day before which it happens, and by how many hours
  Threshold,    \* bounce_threshold
  MonthDays,
  TopRows,      \* rows of a breakdown of the report
  Scale         \* a multiple of every number of sessions, in which rates are whole

VARIABLES stored, today, changed, question, answer

\* Sessions are finitely many and each has an id; a query asks for what there is.
FiguresAssumption ==
  /\ \A S \in Samples :
       /\ IsFiniteSet(S) /\ \A s, t \in S : s.id = t.id => s = t
       /\ \A s \in S : s.id \in Nat /\ s.day \in Int /\ s.duration \in Nat /\ s.scroll \in Nat
  /\ \A q \in Queries :
       /\ q.dims \in Seq(STRING) /\ q.unit \in {"none", "day", "week", "month", "quarter", "year"}
       /\ q.from \in Int /\ q.to \in Int /\ q.least \in Nat /\ q.limit \in Nat
       /\ q.order.by \in {"sessions", "bounce_rate", "median_duration", "max_scroll"}
  /\ Today \subseteq Int /\ \A c \in Clocks : c.day \in Int /\ c.hours \in Int
  /\ Threshold \in Nat /\ MonthDays \in Nat \ {0} /\ TopRows \in Nat /\ Scale \in Nat

figureVars == <<stored, today, changed, question, answer>>

-----------------------------------------------------------------------------
(* Metrics and dimensions. *)

Metrics == {"sessions", "bounce_rate", "median_duration", "max_scroll"}

\* DIMENSIONS: most columns have the name of their dimension.
Column(dim) == IF dim = "page_path" THEN "path" ELSE dim

Rate(part, whole) == (Scale * part) \div whole
Bounces(G) == Cardinality({s \in G : s.duration < Threshold})

\* Twice the median: the two in the middle are the least duration that half of the sessions do not
\* exceed, and the greatest that half of them reach.
AtMost(G, d) == {s \in G : s.duration <= d}
AtLeast(G, d) == {s \in G : s.duration >= d}
Lower(G) == {d \in {s.duration : s \in G} : 2 * Cardinality(AtMost(G, d)) >= Cardinality(G)}
Upper(G) == {d \in {s.duration : s \in G} : 2 * Cardinality(AtLeast(G, d)) >= Cardinality(G)}
Median(G) == Min(Lower(G)) + Max(Upper(G))

\* METRICS.  Of nothing there is no figure, which readers take for 0.
Metric(m, G) ==
  CASE G = {} -> 0
    [] G # {} /\ m = "sessions" -> Cardinality(G)
    [] G # {} /\ m = "bounce_rate" -> Rate(Bounces(G), Cardinality(G))
    [] G # {} /\ m = "median_duration" -> Median(G)
    [] G # {} /\ m = "max_scroll" -> Rate(MapThenSumSet(LAMBDA s : s.scroll, G), Cardinality(G))

Figures(G) == [m \in Metrics |-> Metric(m, G)]

-----------------------------------------------------------------------------
(* A query. *)

Compare(op, v, args) ==
  CASE op = "equals" -> v = args[1]
    [] op = "notEquals" -> v # args[1]
    [] op = "in" -> v \in ToSet(args)
    [] op = "notIn" -> v \notin ToSet(args)
    [] op = "isEmpty" -> v = ""
    [] op = "isNotEmpty" -> v # ""
    [] op = "gt" -> v > args[1]
    [] op = "gte" -> v >= args[1]
    [] op = "lt" -> v < args[1]
    [] op = "lte" -> v <= args[1]
    [] op = "between" -> args[1] <= v /\ v <= args[2]

Where(q, from, to) ==
  {s \in stored : /\ s.day \in from..to
                    /\ \A f \in q.filters : Compare(f.op, s[Column(f.dim)], f.args)}

\* The first day of the bucket of a day.
Length == [day |-> 1, week |-> 7, month |-> MonthDays, quarter |-> 3 * MonthDays,
           year |-> 12 * MonthDays]
StartOf(unit, day) == day - (day % Length[unit])

KeyOf(s, unit, dims) ==
  [bucket |-> IF unit = "none" THEN 0 ELSE StartOf(unit, s.day),
   values |-> [i \in DOMAIN dims |-> s[Column(dims[i])]]]

Groups(S, unit, dims) ==
  {{s \in S : KeyOf(s, unit, dims) = k} : k \in {KeyOf(s, unit, dims) : s \in S}}

Having(q, G) ==
  /\ Cardinality(G) >= q.least
  /\ \A f \in q.metricFilters : Compare(f.op, Metric(f.metric, G), f.args)

Kept(q, S, unit, dims) == {G \in Groups(S, unit, dims) : Having(q, G)}

\* Buckets come first; ClickHouse may give equal rows in any order, here the oldest first.
RowsBefore(q, g, h) ==
  LET a == g.figures[q.order.by]
      b == h.figures[q.order.by]
  IN  \/ g.key.bucket < h.key.bucket
      \/ /\ g.key.bucket = h.key.bucket
         /\ \/ IF q.order.down THEN a > b ELSE a < b
            \/ a = b /\ g.first < h.first

FigureRow(q, G) ==
  [key |-> KeyOf(CHOOSE s \in G : TRUE, q.unit, q.dims), figures |-> Figures(G),
   first |-> Min({s.id : s \in G})]
Table(q, S) == {FigureRow(q, G) : G \in Kept(q, S, q.unit, q.dims)}

\* LIMIT: 1000 where a query says none, 10000 at most.
Cut(q, rows) == {g \in rows : Cardinality({h \in rows : RowsBefore(q, h, g)}) < q.limit}

\* Without anything to group by there is one row, of which HAVING asks nothing.
BuiltQuery(q, from, to) ==
  LET S == Where(q, from, to)
  IN  IF q.unit = "none" /\ q.dims = <<>>
      THEN {[key |-> [bucket |-> 0, values |-> <<>>], figures |-> Figures(S), first |-> 0]}
      ELSE Cut(q, Table(q, S))

FilteredTotalsOfAll(q, from, to) == Figures(Where(q, from, to))

\* The totals of the groups that pass: rates from their parts, medians from merged states, and
\* whatever else summed.
FilteredTotals(q, from, to) ==
  LET groups == Kept(q, Where(q, from, to), "none", q.totalsBy)
  IN  [m \in Metrics |->
         CASE m = "sessions" -> MapThenSumSet(Cardinality, groups)
           [] m = "bounce_rate" ->
                IF groups = {} THEN 0 ELSE Rate(MapThenSumSet(Bounces, groups), MapThenSumSet(Cardinality, groups))
           [] m = "median_duration" -> Metric(m, UNION groups)
           [] OTHER -> MapThenSumSet(LAMBDA G : Metric(m, G), groups)]

IsTotals(q) == q.dims = <<>> /\ q.unit = "none" /\ q.totalsBy # <<>> /\ q.metricFilters # {}

\* The greatest median of the groups, for the heat map; None is written -1.
Extremes(q) ==
  LET values == {Metric("median_duration", G) : G \in Kept(q, Where(q, q.from, q.to), "none", q.dims)}
  IN  IF values = {} THEN -1 ELSE Max(values)

-----------------------------------------------------------------------------
(* fillGaps. *)

\* dayjs starts a week on Sunday, unless isoWeek is asked for.
SameUnit(unit, a, b) ==
  IF unit = "week" THEN StartOf(unit, a + 1) = StartOf(unit, b + 1)
                   ELSE StartOf(unit, a) = StartOf(unit, b)

\* The buckets from the first day on; weeks are counted from a Monday.
AllDates(unit, from, to) ==
  LET first == IF unit = "week" THEN StartOf(unit, from) ELSE from
      dates == {d \in first..(to + Length[unit]) : (d - first) % Length[unit] = 0}
  IN  {StartOf(unit, d) : d \in {d \in dates : d <= to \/ SameUnit(unit, d, to)}}

\* Rows are looked up by the name of a dimension: under another name there is nothing.
Combo(q, row) == [i \in DOMAIN q.dims |-> IF Column(q.dims[i]) = q.dims[i] THEN row.key.values[i] ELSE ""]
NoFigures == [m \in Metrics |-> 0]

LastRow(q, rows) == CHOOSE r \in rows : \A x \in rows \ {r} : RowsBefore(q, x, r)

\* One row for each bucket and combination; a row that was looked up last counts.
FillGaps(q, rows, from, to) ==
  LET combos == IF q.dims = <<>> THEN {<<>>} ELSE {Combo(q, r) : r \in rows}
      found(d, c) == {r \in rows : r.key.bucket = d /\ Combo(q, r) = c}
  IN  {[bucket |-> d, combo |-> c,
        figures |-> IF found(d, c) = {} THEN NoFigures ELSE LastRow(q, found(d, c)).figures] :
          d \in AllDates(q.unit, from, to), c \in combos}

-----------------------------------------------------------------------------
(* Presets of dates: the first and the last day. *)

DaysBack == [previous_7_days |-> 7, previous_14_days |-> 14, previous_28_days |-> 28,
             previous_30_days |-> 30, previous_90_days |-> 90, previous_91_days |-> 91, yesterday |-> 1]
UnitSoFar == [today |-> "day", this_week |-> "week", this_month |-> "month",
              this_quarter |-> "quarter", this_year |-> "year"]
UnitBefore == [previous_week |-> "week", previous_month |-> "month",
               previous_quarter |-> "quarter", previous_year |-> "year"]
Presets == DOMAIN DaysBack \cup DOMAIN UnitSoFar \cup DOMAIN UnitBefore \cup {"previous_12_months"}

ResolveDatePreset(p) ==
  CASE p \in DOMAIN DaysBack -> <<today - DaysBack[p], today - 1>>
    [] p \in DOMAIN UnitSoFar -> <<StartOf(UnitSoFar[p], today), today>>
    [] p \in DOMAIN UnitBefore ->
         LET start == StartOf(UnitBefore[p], today) IN <<start - Length[UnitBefore[p]], start - 1>>
    [] p = "previous_12_months" -> <<StartOf("month", today) - Length["year"], today - 1>>

\* The hour at which a day begins; the clock was changed by some hours before a day.
DayBegins(day) == 24 * day + IF day >= changed.day THEN changed.hours ELSE 0

\* The range in hours up to its end, and shifted back by its days: a fraction of a day counts as one.
Hours(p) == LET r == ResolveDatePreset(p) IN [start |-> DayBegins(r[1]), end |-> DayBegins(r[2] + 1)]

ShiftPresetToPreviousPeriod(p) ==
  LET h == Hours(p)
      duration == (h.end - h.start - 1) \div 24 + 1
  IN  [start |-> h.start - 24 * duration, end |-> h.end - 24 * duration]

-----------------------------------------------------------------------------
(* The report. *)

PresetForFrequency == [daily |-> "yesterday", weekly |-> "previous_7_days",
                       monthly |-> "previous_30_days"]

\* The days compared with, when the clock is not changed.
DaysBefore(r) == <<2 * r[1] - r[2] - 1, r[1] - 1>>

\* sessionsEvo, metricEvo: compared with the row of the same value among those of the period before.
Evolution(q, m, row, before) ==
  LET rows == {g \in before : g.key.values = row.key.values}
      was == IF rows = {} THEN 0 ELSE LastRow(q, rows).figures[m]
  IN  IF was > 0 THEN <<row.figures[m] - was, was>> ELSE <<>>

\* Rows without a value are left out; their order is that of the table.
Breakdown(q, r) ==
  LET before == BuiltQuery(q, DaysBefore(r)[1], DaysBefore(r)[2])
  IN  {[value |-> row.key.values[1], figures |-> row.figures,
        evolution |-> [m \in {"sessions", "median_duration"} |-> Evolution(q, m, row, before)]] :
         row \in {g \in BuiltQuery(q, r[1], r[2]) : g.key.values[1] # ""}}

-----------------------------------------------------------------------------
Nothing == [kind |-> "nothing"]

FiguresInit ==
  /\ stored \in Samples /\ today \in Today /\ changed \in Clocks
  /\ question = Nothing /\ answer = Nothing

AnsweredWith(kind, asked, a) ==
  /\ question = Nothing
  /\ question' = [kind |-> kind, asked |-> asked]
  /\ answer' = [kind |-> kind, is |-> a]
  /\ UNCHANGED <<stored, today, changed>>

AskTotals(q) == IsTotals(q) /\ AnsweredWith("totals", q, FilteredTotals(q, q.from, q.to))
AskExtremes(q) == q.dims # <<>> /\ q.unit = "none" /\ AnsweredWith("extremes", q, Extremes(q))
AskSeries(q) ==
  /\ q.unit # "none"
  /\ AnsweredWith("series", q, FillGaps(q, BuiltQuery(q, q.from, q.to), q.from, q.to))
AskComparison(p) == AnsweredWith("comparison", p, ShiftPresetToPreviousPeriod(p))

\* A report is of the sessions, whose dimensions have the names of their columns.
AskReport(f) ==
  LET dim == "country"
      q == [dims |-> <<dim>>, unit |-> "none", filters |-> {}, metricFilters |-> {}, totalsBy |-> <<>>,
            least |-> 0, limit |-> TopRows, order |-> [by |-> "sessions", down |-> TRUE]]
  IN  AnsweredWith("report", [range |-> ResolveDatePreset(PresetForFrequency[f]), dim |-> dim],
               Breakdown(q, ResolveDatePreset(PresetForFrequency[f])))

FiguresNext ==
  \/ \E q \in Queries : AskTotals(q) \/ AskExtremes(q) \/ AskSeries(q)
  \/ \E p \in Presets : AskComparison(p)
  \/ \E f \in DOMAIN PresetForFrequency : AskReport(f)

FiguresSpec == FiguresInit /\ [][FiguresNext]_figureVars

-----------------------------------------------------------------------------
\* Totals with metric filters are the figures of all sessions in the groups that the table shows, of
\* the metrics the totals have a case for (buildFilteredTotalsQuery: the others are sums of figures).
TotalsAreOfTheTable ==
  answer.kind = "totals" =>
    LET q == question.asked
        shown == UNION Kept(q, Where(q, q.from, q.to), "none", q.totalsBy)
    IN  \A m \in Metrics \ {"max_scroll"} : answer.is[m] = Metric(m, shown)

\* The extreme over all dimensions bounds the medians of the first dimension too, on whose scale they
\* are coloured, unless small groups are left out (buildExtremesQuery, explore.tsx).
ExtremesBoundTheTable ==
  answer.kind = "extremes" =>
    LET q == question.asked
    IN  q.least = 0 /\ q.metricFilters = {} =>
          \A G \in Groups(Where(q, q.from, q.to), "none", SubSeq(q.dims, 1, 1)) :
            Median(G) <= answer.is

\* The sessions that a row of a series is about.
SessionsOf(S, q, row) ==
  {s \in S : /\ StartOf(q.unit, s.day) = row.bucket
             /\ \A i \in DOMAIN q.dims : s[q.dims[i]] = row.combo[i]}

WholeSeries(q, S, series) ==
  LET buckets == {StartOf(q.unit, d) : d \in q.from..q.to}
      more == IF q.unit = "week" /\ q.to % 7 = 6 THEN {q.to + 1} ELSE {}
  IN  /\ {row.bucket : row \in series} \in {buckets \cup more, {}}
      /\ \A row \in series : row.figures = Figures(SessionsOf(S, q, row))
      /\ UNION {SessionsOf(S, q, row) : row \in series} = S

\* A series has every bucket of the range once for each combination of values, with the figures of
\* its sessions; weeks have one more when the range ends on a Sunday (fillGaps).  That is so unless the
\* table was cut off, groups were left out, or a dimension has a column of another name: then rows of
\* different values are taken for one.
SeriesIsWhole ==
  answer.kind = "series" =>
    LET q == question.asked
        S == Where(q, q.from, q.to)
        all == /\ q.least = 0 /\ q.metricFilters = {} /\ q.from <= q.to
               /\ Cardinality(Groups(S, q.unit, q.dims)) <= q.limit
        named == \A i \in DOMAIN q.dims : Column(q.dims[i]) = q.dims[i]
    IN  all /\ named => WholeSeries(q, S, answer.is)

\* The period compared with is as long and ends as the other begins; about a change of the clock less
\* than a day is between them (shiftPresetToPreviousPeriod counts days of 24 hours).
ComparisonComesBefore ==
  answer.kind = "comparison" =>
    LET h == Hours(question.asked)
        gap == h.start - answer.is.end
    IN  /\ answer.is.end - answer.is.start = h.end - h.start
        /\ gap \in 0..23
        /\ (h.end - h.start) % 24 = 0 => gap = 0

\* The sessions of a value in some days.
OfValue(S, dim, value, from, to) == {s \in S : s.day \in from..to /\ s[Column(dim)] = value}

TrueEvolution(S, r, dim, row) ==
  LET before(value) == OfValue(S, dim, value, DaysBefore(r)[1], DaysBefore(r)[2])
      asMany == {v \in {s[Column(dim)] : s \in S} : Cardinality(before(v)) >= Cardinality(before(row.value))}
  IN  \A m \in DOMAIN row.evolution :
        LET was == Metric(m, before(row.value))
        IN  IF row.evolution[m] # <<>>
            THEN row.evolution[m] = <<row.figures[m] - was, was>>
            ELSE was = 0 \/ Cardinality(asMany) > TopRows

\* A change in the report is that of the value itself, though the rows before were cut off at the
\* same limit; where the report shows none, the value was not among them (generate).
EvolutionsAreTrue ==
  answer.kind = "report" =>
    LET r == question.asked.range
        dim == question.asked.dim
    IN  \A row \in answer.is :
          /\ row.value # "" /\ row.figures = Figures(OfValue(stored, dim, row.value, r[1], r[2]))
          /\ TrueEvolution(stored, r, dim, row)

\* What the analytics and the reports show agrees with the sessions it is about.
FiguresAgree ==
  /\ TotalsAreOfTheTable /\ ExtremesBoundTheTable /\ SeriesIsWhole /\ ComparisonComesBefore
  /\ EvolutionsAreTrue
=============================================================================
