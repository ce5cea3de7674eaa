----------------------------- MODULE MCBrowser -----------------------------
(***************************************************************************)
(* What runs in browsers, for TLC: the queue of the SDK (Sender), and of the *)
(* console the Explore page (Explore) and the settings pages (SettingsPage).  *)
(* They have no state in common, so they are checked one at a time: focus    *)
(* names the one that takes steps, the others stay as they were.             *)
(***************************************************************************)
EXTENDS Sender, Explore, SettingsPage

CONSTANTS s1, s2, m1, m2

VARIABLE focus

\* Two dimensions in either order; a report may agree with a choice of dimensions or not.
MCDimensionLists == {<<"country", "path">>, <<"path", "country">>}
MCFirst == [dims |-> <<"country", "path">>, scope |-> s1, metric |-> m1]
MCReports == {[MCFirst EXCEPT !.scope = s2],
              [dims |-> <<"path", "country">>, scope |-> s1, metric |-> m2]}

MCInit ==
  /\ focus \in {"sender", "explore", "settings"}
  /\ Init /\ ExploreInit /\ SettingsInit
  /\ focus # "sender" => online
  /\ search = MCFirst

MCNext ==
  /\ UNCHANGED focus
  /\ IF focus = "sender" THEN Next ELSE UNCHANGED vars
  /\ IF focus = "explore" THEN ExploreNext ELSE UNCHANGED exploreVars
  /\ IF focus = "settings" THEN SettingsNext ELSE UNCHANGED settingsVars

\* Fairness is that of Sender; the pages of the console ask for none.
MCSpec ==
  /\ MCInit /\ [][MCNext]_<<focus, vars, exploreVars, settingsVars>>
  /\ \A t \in Tabs : /\ WF_vars(focus = "sender" /\ HandleOnline(t))
                     /\ WF_vars(focus = "sender" /\ FlushRequestEnds(t))
=============================================================================
