-------------------------------- MODULE Rules --------------------------------
(***************************************************************************)
(* The two readers of a workspace's filters.  A new event is filtered by     *)
(* applyFilterResults (api/src/filters/lib/filter-evaluator.ts); a backfill  *)
(* has ClickHouse rewrite the stored rows with the CASE expressions that     *)
(* compileFiltersToSQL makes of the same filters                             *)
(* (api/src/filters/lib/filter-compiler.ts).  They are written apart, in     *)
(* two languages, and ought to agree.                                        *)
(*                                                                          *)
(* A row has one custom dimension (channel, channel_group, stm_1 .. stm_10), *)
(* one standard field and is_direct.  Texts are "", "a", "b" and "ab"; what  *)
(* a literal regular expression matches is what contains it.                 *)
(***************************************************************************)
EXTENDS Integers, Sequences, SequencesExt

CONSTANTS
  Conditions,   \* the lists of conditions a filter may have
  Operations,   \* and its lists of operations
  MaxPriority,
  MaxFilters,   \* bound: filters of the workspace
  MaxRuleEdits  \* bound: changes of them after the event was received

VARIABLES
  rules,   \* workspace.settings.filters
  given,   \* the event as it was received
  ruleRow, \* as it is stored
  filtered,\* by what it was filtered last: nothing | ingest | backfill | an older version
  ruleEdits,\* counted against its bound
  before   \* history variable: the row that the last backfill found

rulesVars == <<rules, given, ruleRow, filtered, ruleEdits, before>>

Null == "null"
Custom == "stm_1"
Standard == "utm_source"
Boolean == "is_direct"
Dimensions == {Custom, Standard, Boolean}

Includes(text, part) == part = text \/ (text = "ab" /\ part \in {"a", "b"})

Operators == {"equals", "not_equals", "contains", "not_contains", "is_empty", "is_not_empty", "regex"}
Actions == {"set_value", "unset_value", "set_default_value"}

\* What the DTOs let pass: a condition reads a field of the event, an operation writes a dimension,
\* "1" is made "true" of, and null is no text.
FiltersAreValid ==
  /\ Conditions \subseteq Seq([field : {Standard, Boolean}, operator : Operators, value : STRING])
  /\ Operations \subseteq Seq([dimension : Dimensions, action : Actions, value : STRING \ {Null, "1"}])
  /\ MaxPriority \in Nat

Filter == [conditions : Conditions, operations : Operations, priority : 0..MaxPriority, enabled : BOOLEAN]
Event == [utm_source : {Null, "a", "ab"}, is_direct : BOOLEAN]

\* The operations of enabled filters on a dimension: the positions of filter and operation.
OpsOn(fs, dimension) ==
  {o \in UNION {{k} \X DOMAIN fs[k].operations : k \in DOMAIN fs} :
     fs[o[1]].enabled /\ fs[o[1]].operations[o[2]].dimension = dimension}
OpOf(fs, o) == fs[o[1]].operations[o[2]]

\* Filters by priority, the highest first; those of one priority as they are listed.
Precedes(fs, o, p) ==
  \/ fs[o[1]].priority > fs[p[1]].priority
  \/ /\ fs[o[1]].priority = fs[p[1]].priority
     /\ o[1] < p[1] \/ (o[1] = p[1] /\ o[2] < p[2])
FirstOp(fs, S) == CHOOSE o \in S : \A p \in S : p = o \/ Precedes(fs, o, p)
LastOp(fs, S) == CHOOSE o \in S : \A p \in S : p = o \/ Precedes(fs, p, o)

-----------------------------------------------------------------------------
\* filter-evaluator.ts

\* extractFieldValues: is_direct is "true" or "false".
FieldValue(event, field) ==
  IF field = Boolean THEN IF event[field] THEN "true" ELSE "false" ELSE event[field]

EvaluateCondition(c, event) ==
  LET value == FieldValue(event, c.field)
  IN  IF value \in {Null, ""} THEN c.operator = "is_empty"
      ELSE CASE c.operator = "equals" -> value = c.value
             [] c.operator = "not_equals" -> value # c.value
             [] c.operator \in {"contains", "regex"} -> Includes(value, c.value)
             [] c.operator = "not_contains" -> ~Includes(value, c.value)
             [] OTHER -> c.operator = "is_not_empty"

EvaluateConditions(cs, event) == \A k \in DOMAIN cs : EvaluateCondition(cs[k], event)

\* What a dimension has got so far: a value or null, and the priority that counts against others.
Unset == [set |-> FALSE, value |-> Null, priority |-> -1]

\* One operation of a filter that matches.
Execute(sofar, op, priority) ==
  CASE op.action = "set_default_value" ->
         IF sofar.value = Null THEN [sofar EXCEPT !.set = TRUE, !.value = op.value] ELSE sofar
    [] priority < sofar.priority -> sofar
    [] OTHER -> [set |-> TRUE, priority |-> priority,
                 value |-> IF op.action = "unset_value" THEN Null ELSE op.value]

\* What the operations S give, executed one after the other.
Executed(fs, S) ==
  LET sofar[T \in SUBSET S] ==
        IF T = {} THEN Unset
        ELSE LET o == LastOp(fs, T) IN Execute(sofar[T \ {o}], OpOf(fs, o), fs[o[1]].priority)
  IN  sofar[S]

EvaluateFilters(fs, event, dimension) ==
  Executed(fs, {o \in OpsOn(fs, dimension) : EvaluateConditions(fs[o[1]].conditions, event)})

\* The columns are not nullable: null is stored as "".
Stored(value) == IF value = Null THEN "" ELSE value

\* applyFilterResults and applyFilters: custom dimensions begin at null, other fields keep what the
\* event says unless a filter set them.
Ingested(fs, event) ==
  LET result(d) == EvaluateFilters(fs, event, d)
  IN  [stm_1 |-> Stored(result(Custom).value),
       utm_source |-> IF result(Standard).set THEN Stored(result(Standard).value) ELSE Stored(event[Standard]),
       is_direct |-> IF result(Boolean).set THEN result(Boolean).value = "true" ELSE event[Boolean]]

-----------------------------------------------------------------------------
\* filter-compiler.ts, and what ClickHouse makes of it

CompiledCondition(c, r) ==
  LET value == r[c.field]
      asked == c.value \in {"true", "1"}
  IN  IF c.field = Boolean
      THEN CASE c.operator = "equals" -> value = asked
             [] c.operator = "not_equals" -> value # asked
             [] c.operator = "is_empty" -> ~value
             [] c.operator = "is_not_empty" -> value
             [] OTHER -> FALSE
      ELSE CASE c.operator = "equals" -> value # "" /\ value = c.value
             [] c.operator = "not_equals" -> value # "" /\ value # c.value
             [] c.operator \in {"contains", "regex"} -> value # "" /\ Includes(value, c.value)
             [] c.operator = "not_contains" -> value # "" /\ ~Includes(value, c.value)
             [] c.operator = "is_empty" -> value = ""
             [] OTHER -> value # ""

CompiledConditions(cs, r) == \A k \in DOMAIN cs : CompiledCondition(cs[k], r)

\* A default is for a standard field that is empty, or is_direct that is false; a custom dimension
\* takes it whenever the branch is reached.
IsTaken(conditions, op, r) ==
  /\ CompiledConditions(conditions, r)
  /\ op.action = "set_default_value" =>
       CASE op.dimension = Custom -> TRUE
         [] op.dimension = Standard -> r[Standard] = ""
         [] OTHER -> ~r[Boolean]

Then(op) ==
  IF op.dimension = Boolean THEN op.action # "unset_value" /\ op.value \in {"true", "1"}
  ELSE IF op.action = "unset_value" THEN "" ELSE op.value

\* The branches of a CASE are the operations in their order; the first that is taken counts.
ThenOfLast(fs, taken) == Then(OpOf(fs, LastOp(fs, taken)))
ThenOf(fs, taken) == Then(OpOf(fs, FirstOp(fs, taken)))

\* A custom dimension is reset if no branch is taken, but only if some filter has a branch for it.
Case(fs, dimension, r) ==
  LET branches == OpsOn(fs, dimension)
      taken == {o \in branches : IsTaken(fs[o[1]].conditions, OpOf(fs, o), r)}
  IN  IF taken # {} THEN ThenOf(fs, taken)
      ELSE IF dimension = Custom /\ branches # {} THEN "" ELSE r[dimension]

\* One UPDATE: every expression reads the row as it was.
Rewritten(fs, r) == [d \in Dimensions |-> Case(fs, d, r)]

-----------------------------------------------------------------------------
NoRow == [d \in Dimensions |-> "none"]

RulesInit ==
  /\ rules = <<>> /\ given \in Event
  /\ ruleRow = NoRow /\ filtered = "nothing" /\ ruleEdits = 0 /\ before = NoRow

\* create, update (of enabled) and delete of FiltersService.
EditRules ==
  /\ \/ \E f \in Filter : f.enabled /\ Len(rules) < MaxFilters /\ rules' = Append(rules, f)
     \/ \E k \in DOMAIN rules : \/ rules' = [rules EXCEPT ![k].enabled = ~@]
                                \/ rules' = RemoveAt(rules, k)
  /\ IF filtered = "nothing" THEN UNCHANGED <<filtered, ruleEdits>>
     ELSE /\ filtered' = "an older version"
          /\ ruleEdits < MaxRuleEdits /\ ruleEdits' = ruleEdits + 1
  /\ UNCHANGED <<given, ruleRow, before>>

Ingest ==
  /\ filtered = "nothing"
  /\ ruleRow' = Ingested(rules, given) /\ filtered' = "ingest"
  /\ UNCHANGED <<rules, given, ruleEdits, before>>

\* With no filter that is enabled there is nothing to set: the statement is refused, the task fails.
RewriteRow ==
  /\ filtered # "nothing" /\ \E k \in DOMAIN rules : rules[k].enabled
  /\ ruleRow' = Rewritten(rules, ruleRow) /\ filtered' = "backfill" /\ before' = ruleRow
  /\ UNCHANGED <<rules, given, ruleEdits>>

RulesNext == EditRules \/ Ingest \/ RewriteRow
RulesSpec == RulesInit /\ [][RulesNext]_rulesVars

-----------------------------------------------------------------------------
Reads == UNION {{c.field : c \in ToSet(rules[k].conditions)} : k \in {k \in DOMAIN rules : rules[k].enabled}}

AsGiven(field) == IF field = Boolean THEN given[field] ELSE Stored(given[field])

\* Whether the two readers say the same of a dimension whatever the event: where no two operations
\* meet in one priority, none of them is a default, and is_direct is compared with true or false.
Agreed(d) ==
  \A o \in OpsOn(rules, d) :
    /\ \A p \in OpsOn(rules, d) : p # o => rules[p[1]].priority # rules[o[1]].priority
    /\ OpOf(rules, o).action # "set_default_value"
    /\ \A c \in ToSet(rules[o[1]].conditions) :
         c.field = Boolean => c.operator \in {"equals", "not_equals"} /\ c.value \in {"true", "false"}

\* A row that was filtered as it came in by the filters there are, or rewritten by a backfill with
\* them, has the values that ingestion gives: a backfill is as good as ingestion, for the dimensions
\* on which the readers are agreed, provided the fields the filters read are still those of the event
\* (compileFiltersToSQL, evaluateFilters).
BackfillIsIngest ==
  filtered \in {"ingest", "backfill"} =>
    \A d \in Dimensions :
      /\ OpsOn(rules, d) # {} /\ Agreed(d)
      /\ filtered = "backfill" => \A field \in (Reads \cup {d}) \ {Custom} : before[field] = AsGiven(field)
      => ruleRow[d] = Ingested(rules, given)[d]

\* A backfill leaves nothing to do for a second one with the same filters, unless a filter reads what
\* a filter writes, or a default and another operation share a field (compileFiltersToSQL).
SecondBackfillIsIdle ==
  /\ filtered = "backfill"
  /\ \A field \in Reads : OpsOn(rules, field) = {}
  /\ \A d \in Dimensions : \A o, p \in OpsOn(rules, d) :
       OpOf(rules, o).action = "set_default_value" => p = o
  => Rewritten(rules, ruleRow) = ruleRow

\* The two readers of the filters agree.
ReadersAgree == BackfillIsIngest /\ SecondBackfillIsIdle
=============================================================================
