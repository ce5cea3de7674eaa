---------------------------- MODULE SettingsPage ----------------------------
(***************************************************************************)
(* The settings pages of the console (console/src/routes/.../settings.tsx,    *)
(* components/settings): every save sends all settings of the workspace, of  *)
(* which it means to change one part and takes the others from the copy in   *)
(* the query cache.  Pages are open in several browsers, and the filters and *)
(* the mail settings are saved elsewhere, which no copy hears of.            *)
(*                                                                          *)
(* A value of a part is the number of the change that brought it.  A      *)
(* render and the handlers it sets up are one action.                        *)
(***************************************************************************)
EXTENDS Integers, FiniteSets

CONSTANTS
  New, Gone,  \* model values: a part as the user has changed it; domains, of which none is left
  Pages,      \* settings pages, each with a query cache of its own
  MaxSaves,    \* bound: saves of the pages
  MaxElsewhere \* bound: saves by others

ASSUME SettingsAssumption == New \notin Nat /\ Gone \notin Nat

VARIABLES
  settings,  \* workspace.settings, on the server
  changes,   \* how often they were changed
  copy,      \* the workspace in the query cache of each page, and when it was read
  form,      \* the state of the form, taken from the copy when the page was opened
  fetching,  \* the query of the workspace: not asked, asked, or its answer on its way
  saves,     \* on their way, or being answered
  sent, elsewhere,  \* counted against their bounds
  \* History variables: they record the past and guard nothing.
  since,     \* when each part of the settings changed last
  wrote      \* when the last save that a page knows of was served, unless the fetch after it failed

settingsVars == <<settings, changes, copy, form, fetching, saves, sent, elsewhere, since,
                  wrote>>

\* Domains and the privacy settings are kept in the form; labels of dimensions, annotations and
\* integrations are edited in what the copy holds; filters and SMTP are saved by services of their
\* own.  One part stands for each kind.
InForm == {"domains"}
Edited == InForm \cup {"labels"}
Part == Edited \cup {"filters"}

NotAsked == [state |-> "none"]
Asked == [state |-> "asked"]
Answered(c) == [state |-> "answered", copy |-> c]

SettingsInit ==
  /\ settings = [f \in Part |-> 0] /\ since = [f \in Part |-> 0]
  /\ changes = 0
  /\ copy = [p \in Pages |-> [of |-> settings, read |-> 0]]
  /\ form = copy
  /\ fetching = [p \in Pages |-> NotAsked]
  /\ saves = {} /\ sent = 0 /\ elsewhere = 0
  /\ wrote = [p \in Pages |-> 0]

-----------------------------------------------------------------------------
(* The query of the workspace. *)

\* On mounting or focus, when the copy is older than staleTime.
Refetch(p) ==
  /\ fetching[p] = NotAsked
  /\ fetching' = [fetching EXCEPT ![p] = Asked]
  /\ UNCHANGED <<settings, changes, copy, form, saves, sent, elsewhere, since, wrote>>

FetchServed(p) ==
  /\ fetching[p] = Asked
  /\ fetching' = [fetching EXCEPT ![p] = Answered([of |-> settings, read |-> changes])]
  /\ UNCHANGED <<settings, changes, copy, form, saves, sent, elsewhere, since, wrote>>

FetchReturns(p) ==
  /\ fetching[p].state = "answered"
  /\ copy' = [copy EXCEPT ![p] = fetching[p].copy]
  /\ fetching' = [fetching EXCEPT ![p] = NotAsked]
  /\ UNCHANGED <<settings, changes, form, saves, sent, elsewhere, since, wrote>>

FetchFails(p) ==
  /\ fetching[p] # NotAsked
  /\ fetching' = [fetching EXCEPT ![p] = NotAsked]
  /\ wrote' = [wrote EXCEPT ![p] = 0]
  /\ UNCHANGED <<settings, changes, copy, form, saves, sent, elsewhere, since>>

-----------------------------------------------------------------------------
(* The page. *)

\* The page is left and opened again.
OpenPage(p) ==
  /\ form' = [form EXCEPT ![p] = copy[p]]
  /\ UNCHANGED <<settings, changes, copy, fetching, saves, sent, elsewhere, since, wrote>>

\* updateWorkspaceMutation saves the form, updateLabelMutation the labels; the button of a mutation
\* that is pending does nothing.
Mutation(f) == IF f \in InForm THEN "workspace" ELSE f
Idle(p, f) == \A s \in saves : s.page = p => Mutation(s.part) # Mutation(f)

\* ...workspace.settings
Spread(p) == copy[p].of

\* When what a save sends for a part was read: with the copy, or, of what is in the form, when the
\* page was opened.
AsOf(p, f) == [g \in Part |-> IF g = f /\ f \in InForm THEN form[p].read ELSE copy[p].read]

\* onFinish, savePrivacySettings, handleSaveLabel: value is what the save sends for its part.
Send(p, f, value) ==
  /\ Idle(p, f)
  /\ sent < MaxSaves /\ sent' = sent + 1
  /\ saves' = saves \cup {[page |-> p, part |-> f, body |-> [Spread(p) EXCEPT ![f] = value],
                           asOf |-> AsOf(p, f), served |-> 0]}
  /\ UNCHANGED <<settings, changes, copy, fetching, elsewhere, since, wrote>>

\* The user has changed the part; with the last domain removed there is none to send.
SaveChanged(p, f) ==
  \/ /\ Send(p, f, New)
     /\ form' = IF f \in InForm THEN [form EXCEPT ![p].of[f] = New] ELSE form
  \/ /\ f = "domains"
     /\ Send(p, f, Gone)
     /\ form' = [form EXCEPT ![p].of[f] = Gone]

\* The form is saved for one of its other fields: the domains are sent as it has them.
SaveUnchanged(p) ==
  /\ Send(p, "domains", form[p].of["domains"])
  /\ UNCHANGED form

\* update: what is not sent stays.
Merged(body) ==
  [f \in Part |-> CASE body[f] = Gone -> settings[f]
                    [] body[f] = New -> changes + 1
                    [] OTHER -> body[f]]

Changed(s) == {f \in Part : Merged(s.body)[f] # settings[f]}

ServeSave(s) ==
  /\ s \in saves /\ s.served = 0
  /\ changes' = changes + 1
  /\ settings' = Merged(s.body)
  /\ since' = [f \in Part |-> IF f \in Changed(s) THEN changes + 1 ELSE since[f]]
  /\ saves' = (saves \ {s}) \cup {[s EXCEPT !.served = changes + 1]}
  /\ UNCHANGED <<copy, form, fetching, sent, elsewhere, wrote>>

\* onSuccess: invalidateQueries starts the query again; an answer on its way is ignored.
Ignored(p) == fetching
Invalidated(p) == [fetching EXCEPT ![p] = Asked]

SaveReturns(s) ==
  /\ s \in saves /\ s.served # 0
  /\ saves' = saves \ {s}
  /\ wrote' = [wrote EXCEPT ![s.page] = IF s.served > @ THEN s.served ELSE @]
  /\ fetching' = Invalidated(s.page)
  /\ UNCHANGED <<settings, changes, copy, form, sent, elsewhere, since>>

\* An error, which may come after the settings were stored: a message, and nothing else.
SaveFails(s) ==
  /\ s \in saves
  /\ saves' = saves \ {s}
  /\ UNCHANGED <<settings, changes, copy, form, fetching, sent, elsewhere, since, wrote>>

\* A part is saved elsewhere: the filters or the mail settings in this browser, anything in another one.
SaveElsewhere(f) ==
  /\ elsewhere < MaxElsewhere /\ elsewhere' = elsewhere + 1
  /\ changes' = changes + 1
  /\ settings' = [settings EXCEPT ![f] = changes + 1]
  /\ since' = [since EXCEPT ![f] = changes + 1]
  /\ UNCHANGED <<copy, form, fetching, saves, sent, wrote>>

SettingsNext ==
  \/ \E p \in Pages : \/ Refetch(p) \/ FetchServed(p) \/ FetchReturns(p) \/ FetchFails(p)
                      \/ OpenPage(p) \/ SaveUnchanged(p)
                      \/ \E f \in Edited : SaveChanged(p, f)
  \/ \E s \in saves : ServeSave(s) \/ SaveReturns(s) \/ SaveFails(s)
  \/ \E f \in Part : SaveElsewhere(f)

SettingsSpec == SettingsInit /\ [][SettingsNext]_settingsVars

-----------------------------------------------------------------------------
\* settings.tsx:176, "Preserve all existing settings, only update form-managed fields": a save changes
\* a part that its user did not touch only if somebody changed it after the page had read it -- the
\* domains, after the page was opened.
SavesKeepOthers ==
  \A s \in saves : ServeSave(s) =>
    \A f \in Changed(s) : s.body[f] # New => since[f] > s.asOf[f]

\* A page whose save succeeded comes to have a copy that was read after it: its next save does not
\* undo it (invalidateQueries in onSuccess).
KnowsItsSaves ==
  \A p \in Pages : fetching[p] = NotAsked => copy[p].read >= wrote[p]

\* What is saved on the settings pages stays, as far as the pages can know.
SavesStay == [][SavesKeepOthers /\ KnowsItsSaves']_settingsVars
=============================================================================
