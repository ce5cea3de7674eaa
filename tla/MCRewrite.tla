------------------------------ MODULE MCRewrite ------------------------------
(***************************************************************************)
(* How stored data is filtered again, for TLC: the tasks that rewrite it     *)
(* (Backfill), and what their statements make of a row (Rules).  The two     *)
(* have no state in common here, so they are checked one at a time: focus    *)
(* names the one that takes steps, the other stays as it was.                *)
(***************************************************************************)
EXTENDS MCBackfill, Rules

VARIABLE focus

Condition(field, operator, value) == [field |-> field, operator |-> operator, value |-> value]
Operation(dimension, action, value) == [dimension |-> dimension, action |-> action, value |-> value]

\* Conditions on a text and on the boolean, one pair of them; each action on each kind of dimension.
MCConditions ==
  {<<Condition("utm_source", "equals", "a")>>, <<Condition("is_direct", "is_empty", "")>>,
   <<Condition("is_direct", "not_equals", "true"), Condition("utm_source", "regex", "a")>>}
MCOperations ==
  {<<Operation("stm_1", "set_value", "a")>>, <<Operation("stm_1", "unset_value", "")>>,
   <<Operation("stm_1", "set_default_value", "b")>>,
   <<Operation("utm_source", "set_default_value", "b")>>,
   <<Operation("is_direct", "set_value", "true"), Operation("stm_1", "set_value", "b")>>}

ASSUME MCFiltersAreValid == FiltersAreValid

MCInit ==
  /\ focus \in {"backfill", "rules"}
  /\ Init /\ RulesInit
  /\ focus # "rules" => given = [utm_source |-> "a", is_direct |-> TRUE]

MCNext ==
  /\ UNCHANGED focus
  /\ IF focus = "backfill" THEN Next ELSE UNCHANGED vars
  /\ IF focus = "rules" THEN RulesNext ELSE UNCHANGED rulesVars

\* Fairness is that of Backfill; Rules asks for none.
MCSpec ==
  /\ MCInit /\ [][MCNext]_<<focus, vars, rulesVars>>
  /\ WF_vars(focus = "backfill" /\ Spawn) /\ WF_vars(focus = "backfill" /\ MutationRuns)
  /\ \A t \in Tasks : WF_vars(focus = "backfill" /\ Process(t))
=============================================================================
