---------------------------- MODULE MCAssistant ----------------------------
(***************************************************************************)
(* The AI assistant for TLC, in the API (Assistant) and in the console       *)
(* (Chat), and the start of the API on the database of an older version      *)
(* (Upgrade).  The three have no state in common here, so they are checked   *)
(* one at a time: focus names the one that takes steps, the others stay as   *)
(* they were at the beginning.                                               *)
(***************************************************************************)
EXTENDS Upgrade, Assistant, Chat, TLC

VARIABLE focus

MCInit ==
  /\ focus \in {"upgrade", "assistant", "chat"}
  /\ UpInit /\ AsInit /\ ChInit
  /\ focus # "upgrade" => version = 0

MCNext ==
  /\ UNCHANGED focus
  /\ IF focus = "upgrade" THEN UpNext ELSE UNCHANGED upVars
  /\ IF focus = "assistant" THEN AsNext ELSE UNCHANGED asVars
  /\ IF focus = "chat" THEN ChNext ELSE UNCHANGED chVars

\* Fairness is that of the modules, and asks nothing of one that has no focus.
MCSpec ==
  /\ MCInit /\ [][MCNext]_<<focus, upVars, asVars, chVars>>
  /\ \A i \in Processes : WF_upVars(focus = "upgrade" /\ Work(i))
  /\ WF_upVars(focus = "upgrade" /\ Erase) /\ WF_upVars(focus = "upgrade" /\ LapseLock)
  /\ \A s \in Streams : WF_asVars(focus = "assistant" /\ Serve(s))
  /\ WF_chVars(focus = "chat" /\ ShowPage)
  /\ \A p \in 1..MaxPrompts :
       WF_chVars(focus = "chat" /\ Asks(p)) /\ WF_chVars(focus = "chat" /\ IsAnswered(p))

\* ComesUp of Upgrade.
ApiComesUp == focus = "upgrade" => ComesUp
=============================================================================
