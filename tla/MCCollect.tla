----------------------------- MODULE MCCollect -----------------------------
(***************************************************************************)
(* From a visit to the dashboard, for TLC: what the SDK counts in a tab       *)
(* (Tracker), who the visitor is to it (Visitor), what becomes of its          *)
(* payloads (Delivery), and the page of the console that shows them first     *)
(* (Dashboard).  They have no state in common here, so they are checked one   *)
(* at a time: focus names the one that takes steps, the others stay as they   *)
(* were at the beginning.                                                     *)
(***************************************************************************)
EXTENDS Tracker, Visitor, Delivery, Dashboard, TLC

CONSTANTS
  p1, p2,            \* names of tabs
  v1, v2,            \* names of sites
  none, week, range  \* names of a comparison, of a period and of a custom range

VARIABLE focus

\* A ping after one tick, then after two.
TwoTiers == 0 :> 1 @@ 1 :> 2

\* A clock that is right, and one that is off by more than is put up with, either way.
MCOffsets == {-2, 0, 3}
ASSUME MCDeliveryAssumption == DeliveryAssumption

\* Two sites, two tabs, one custom dimension.
MCIndexes == {1}
MCTexts == {"y"}
MCUrlTexts == {"x"}
MCUsers == {"u"}

\* Tabs of three kinds: a map, one that rows do not filter by, one with a filter of its own.
MCWidgetTabs == {"map", "exits", "campaign"}
MCFirstTab == "map"
MCValues == {"x", "y"}
ASSUME MCDashboardAssumption == DashboardAssumption

-----------------------------------------------------------------------------
\* Nothing is counted before the first page is loaded: no generality is lost if it is at time 0.
LoadedAtOnce == clock' > clock => events > 0

\* Tabs are alike, and so are sites: no generality is lost if a visit begins with the first
\* site in the first tab.
VisitInOrder == steps' = 1 => tab'[p1].site = v1

\* The user of the dashboard goes on when one answer at most is awaited; one that fails is the only one, and
\* one that was asked after the first action.
OneAwaited ==
  /\ acts' > acts => Cardinality(asked) <= 1
  /\ errors' > errors => Cardinality(asked) = 1 /\ acts = 1

MCInit ==
  /\ focus \in {"tracker", "delivery", "visitor", "dashboard"}
  /\ Init /\ DelInit /\ VisitorInit /\ DashboardInit
  /\ focus # "delivery" => offset = 0
  /\ saved = [period |-> week, comparison |-> none]

MCNext ==
  /\ UNCHANGED focus
  /\ IF focus = "tracker" THEN Next ELSE UNCHANGED vars
  /\ IF focus = "delivery" THEN DelNext ELSE UNCHANGED delVars
  /\ IF focus = "visitor" THEN VisitorNext ELSE UNCHANGED visitorVars
  /\ IF focus = "dashboard" THEN DashboardNext ELSE UNCHANGED dashboardVars
  /\ LoadedAtOnce
  /\ VisitInOrder
  /\ OneAwaited

MCSpec == MCInit /\ [][MCNext]_<<focus, vars, delVars, visitorVars, dashboardVars>>
=============================================================================
