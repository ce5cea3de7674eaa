----------------------------- MODULE Workspaces -----------------------------
(***************************************************************************)
(* One workspace: its row, which holds all its settings as one JSON value,  *)
(* the services that rewrite it (api/src/workspaces, api/src/filters,       *)
(* api/src/smtp), and the copy the payload handler keeps for a minute       *)
(* (api/src/events/session-payload.handler.ts).                             *)
(*                                                                          *)
(* A row is replaced by ALTER TABLE ... DELETE, which ClickHouse executes   *)
(* some time later on the rows it found, and an insert.  Every call stops    *)
(* at each await; a query is answered in the step in which it is made.       *)
(***************************************************************************)
EXTENDS Integers, Sequences, FiniteSets, SequencesExt

CONSTANTS
  WsCalls,       \* bound: calls that change the workspace
  Payloads,    \* bound: payloads sent to the handler
  CacheTTL,    \* CACHE_TTL_MS, in ticks of the clock
  MaxWsTime,     \* bound: ticks
  MaxWsFaults    \* bound: awaits that fail

ASSUME WorkspacesAssumption == CacheTTL \in Nat \ {0} /\ MaxWsTime \in Nat

FilterKinds == {"create filter", "move filter", "delete filter", "reorder filters"}
SmtpKinds == {"set smtp", "delete smtp"}

Blank == "none"
Fields == {"domains", "filters", "smtp"}

VARIABLES
  wsRows,     \* rows of the workspace, each [stamp, settings]
  doomed,     \* those a deletion was issued for
  kept,       \* what else there is of it: its database, rows of other tables
  wsStamps,   \* the stamps given so far
  change,     \* what each call does
  wsClock,
  wsCache,    \* workspaceCache: [row, expires] or none
  payload,    \* what each payload does
  wsFaults,   \* counted against its bound
  \* History variables: they record the past and guard nothing.
  wsOverlapped, \* two calls were under way at the same time, or one began with a workspace
              \* that had been deleted and was still to be seen
  expected,   \* the settings as the calls that ended meant them
  ends,       \* how calls ended: "done", "failed", "smtp removed" or, as it began, "deletion begun";
              \* "born": was there at first
  visible,    \* the stamps that reads could see at each time
  announced,  \* the newest row whose event was emitted
  wsLate      \* a payload had a row read before it was replaced, and not yet cached

served == <<wsClock, wsCache, payload>>
wsPast == <<wsOverlapped, expected, ends>>
wsVars == <<wsRows, doomed, kept, wsStamps, change, wsFaults, served, wsPast, visible, announced, wsLate>>

\* Filters are [id, order]; a filter is named by the call that creates it.
FirstFilter == [id |-> "default", order |-> 0]
DefaultSettings == [domains |-> Blank, filters |-> <<FirstFilter>>, smtp |-> Blank]
FirstRow == [stamp |-> 0, settings |-> DefaultSettings]
\* "memberships" stands for invitations and API keys too.
Everything == {"database", "memberships", "backfill tasks"}

Latest(S) == CHOOSE r \in S : \A o \in S : o.stamp <= r.stamp     \* get
SeenIn(S) == IF S = {} THEN {} ELSE {Latest(S).stamp}

Unbegun == [at |-> "idle"]
Concluded == [at |-> "done"]
Broken == [at |-> "failed"]
UnderWay(c) == change[c].at \notin {"idle", "done", "failed"}

-----------------------------------------------------------------------------
\* What the services make of the settings they have read.

MaxOrder(fs) == Max({-1} \cup {fs[i].order : i \in DOMAIN fs})
Created(fs, c) == Append(fs, [id |-> c, order |-> MaxOrder(fs) + 1])
Moved(fs, id, order) ==
  [i \in DOMAIN fs |-> IF fs[i].id = id THEN [fs[i] EXCEPT !.order = order] ELSE fs[i]]
WithoutFilter(fs, id) == SelectSeq(fs, LAMBDA f : f.id # id)
\* A filter that the list does not name keeps its order, which another may get.
Reordered(fs, ids) ==
  [i \in DOMAIN fs |-> IF fs[i].id \in Range(ids)
                       THEN [fs[i] EXCEPT !.order = Min({k \in DOMAIN ids : ids[k] = fs[i].id}) - 1]
                       ELSE fs[i]]

FilterEdit(q, c, fs) ==
  CASE q.kind = "create filter" -> Created(fs, c)
    [] q.kind = "move filter" -> Moved(fs, q.id, q.order)
    [] q.kind = "delete filter" -> WithoutFilter(fs, q.id)
    [] q.kind = "reorder filters" -> Reordered(fs, q.ids)

\* The settings a service hands to update: a filter service the filters, the SMTP service
\* all it has read, with other SMTP settings or without any.
FilterPatch(q, c, s) == [f \in {"filters"} |-> FilterEdit(q, c, s.filters)]
SmtpPatch(q, c, s) == IF q.kind = "set smtp" THEN [s EXCEPT !.smtp = c]
                      ELSE [f \in Fields \ {"smtp"} |-> s[f]]
Patch(q, c, s) == IF q.kind \in FilterKinds THEN FilterPatch(q, c, s) ELSE SmtpPatch(q, c, s)

\* { ...workspace.settings, ...definedSettings }
Merged(s, patch) == [f \in Fields |-> IF f \in DOMAIN patch THEN patch[f] ELSE s[f]]

\* What the caller of a call that is done expects of the settings as they were before it.
Meant(q, c, s) ==
  CASE q.kind = "settings" -> [s EXCEPT !.domains = c]
    [] q.kind \in FilterKinds -> [s EXCEPT !.filters = FilterEdit(q, c, s.filters)]
    [] q.kind = "set smtp" -> [s EXCEPT !.smtp = c]
    [] q.kind = "delete smtp" -> [s EXCEPT !.smtp = Blank]
    [] q.kind = "create" -> DefaultSettings
    [] q.kind = "delete" -> s

-----------------------------------------------------------------------------
WsTypeOK ==
  /\ \A r \in wsRows : r.stamp \in 0..wsStamps /\ DOMAIN r.settings = Fields
  /\ doomed \subseteq wsRows /\ kept \subseteq Everything
  /\ DOMAIN change = WsCalls /\ DOMAIN payload = Payloads
  /\ wsClock \in 0..MaxWsTime /\ wsFaults \in 0..MaxWsFaults
  /\ wsCache = {} \/ \E r \in [stamp : 0..wsStamps] : \A e \in wsCache : e.row.stamp = r.stamp
  /\ DOMAIN visible = 0..MaxWsTime

WsInit ==
  /\ \/ wsRows = {FirstRow} /\ kept = Everything /\ ends = {"born"}
     \/ wsRows = {} /\ kept = {} /\ ends = {}
  /\ doomed = {}
  /\ wsStamps = 0 /\ wsClock = 0 /\ wsCache = {} /\ wsFaults = 0
  /\ change = [c \in WsCalls |-> Unbegun]
  /\ payload = [p \in Payloads |-> Unbegun]
  /\ wsOverlapped = FALSE /\ expected = DefaultSettings
  /\ visible = [t \in 0..MaxWsTime |-> IF t = 0 THEN SeenIn(wsRows) ELSE {}]
  /\ announced = 0 /\ wsLate = FALSE

See(S) == visible' = [visible EXCEPT ![wsClock] = @ \cup SeenIn(S)]
Unseen == UNCHANGED <<visible, announced, wsLate>>
Go(c, q) == change' = [change EXCEPT ![c] = q]
End(c) == /\ Go(c, Concluded)
          /\ ends' = ends \cup {"done"} \cup IF change[c].asked.kind = "delete smtp" THEN {"smtp removed"} ELSE {}
          /\ expected' = Meant(change[c].asked, c, expected)
          /\ UNCHANGED wsOverlapped
Refused(c) == Go(c, Concluded) /\ UNCHANGED wsPast   \* NotFoundException, BadRequestException

BeginChange(c, next) ==
  /\ change[c] = Unbegun
  /\ Go(c, next)
  /\ wsOverlapped' = (wsOverlapped \/ (\E d \in WsCalls : UnderWay(d)) \/ (wsRows # {} /\ wsRows = doomed))

-----------------------------------------------------------------------------
\* WorkspacesService.create: the database, the row, the membership, the backfill task.

StartCreate(c) ==
  /\ BeginChange(c, [at |-> "create database", asked |-> [kind |-> "create"]])
  /\ UNCHANGED <<wsRows, doomed, kept, wsStamps, wsFaults, served, expected, ends>> /\ Unseen

CreateDatabase(c) ==   \* CREATE DATABASE IF NOT EXISTS
  /\ change[c].at = "create database"
  /\ kept' = kept \cup {"database"}
  /\ Go(c, [change[c] EXCEPT !.at = "create row"])
  /\ UNCHANGED <<wsRows, doomed, wsStamps, wsFaults, served, wsPast>> /\ Unseen

CreateRow(c) ==
  /\ change[c].at = "create row"
  /\ wsStamps' = wsStamps + 1
  /\ wsRows' = wsRows \cup {[stamp |-> wsStamps', settings |-> DefaultSettings]} /\ See(wsRows')
  /\ Go(c, [change[c] EXCEPT !.at = "create membership"])
  /\ UNCHANGED <<doomed, kept, wsFaults, served, wsPast, announced, wsLate>>

CreateMembership(c) ==
  /\ change[c].at = "create membership"
  /\ kept' = kept \cup {"memberships"}
  /\ Go(c, [change[c] EXCEPT !.at = "create task"])
  /\ UNCHANGED <<wsRows, doomed, wsStamps, wsFaults, served, wsPast>> /\ Unseen

CreateTask(c) ==   \* the default filters count as backfilled
  /\ change[c].at = "create task"
  /\ kept' = kept \cup {"backfill tasks"} /\ End(c)
  /\ UNCHANGED <<wsRows, doomed, wsStamps, wsFaults, served>> /\ Unseen

-----------------------------------------------------------------------------
\* WorkspacesService.delete: the row goes last, so that a deletion that failed can be repeated.

StartDelete(c) ==
  /\ wsRows # {}   \* else NotFoundException
  /\ BeginChange(c, [at |-> "delete memberships", asked |-> [kind |-> "delete"]])
  /\ ends' = ends \cup {"deletion begun"}
  /\ UNCHANGED <<wsRows, doomed, kept, wsStamps, wsFaults, served, expected>> /\ Unseen

DeleteStep(c, at, what, next) ==
  /\ change[c].at = at
  /\ kept' = kept \ {what}
  /\ Go(c, [change[c] EXCEPT !.at = next])
  /\ UNCHANGED <<wsRows, doomed, wsStamps, wsFaults, served, wsPast>> /\ Unseen

DeleteMemberships(c) == DeleteStep(c, "delete memberships", "memberships", "delete tasks")
DeleteTasks(c) == DeleteStep(c, "delete tasks", "backfill tasks", "drop database")
DropDatabase(c) == DeleteStep(c, "drop database", "database", "delete row")

DeleteRow(c) ==
  /\ change[c].at = "delete row"
  /\ doomed' = wsRows /\ End(c)
  /\ UNCHANGED <<wsRows, kept, wsStamps, wsFaults, served>> /\ Unseen

-----------------------------------------------------------------------------
\* Changes of the settings.

StartUpdate(c) ==   \* workspaces.update: settings the console sends
  /\ BeginChange(c, [at |-> "update", asked |-> [kind |-> "settings"], patch |-> [f \in {"domains"} |-> c]])
  /\ UNCHANGED <<wsRows, doomed, kept, wsStamps, wsFaults, served, expected, ends>> /\ Unseen

FilterRequests(c, fs) ==
  LET ids == {fs[i].id : i \in DOMAIN fs}
  IN  {[kind |-> "create filter"]} \cup [kind : {"delete filter"}, id : ids]
      \cup [kind : {"move filter"}, id : ids, order : {1}]
      \cup [kind : {"reorder filters"}, ids : SetToSeqs(ids)]

\* FiltersService and SmtpService read the workspace before they call update, which reads it again.
StartEdit(c) ==
  /\ wsRows # {}   \* else NotFoundException
  /\ LET s == Latest(wsRows).settings
     IN  \E q \in FilterRequests(c, s.filters) \cup [kind : SmtpKinds] :
           BeginChange(c, [at |-> "update", asked |-> q, patch |-> Patch(q, c, s)])
  /\ UNCHANGED <<wsRows, doomed, kept, wsStamps, wsFaults, served, expected, ends>> /\ Unseen

UpdateReads(c) ==
  /\ change[c].at = "update" /\ wsRows # {}
  /\ wsStamps' = wsStamps + 1
  /\ Go(c, [at |-> "delete old", asked |-> change[c].asked,
            row |-> [stamp |-> wsStamps', settings |-> Merged(Latest(wsRows).settings, change[c].patch)]])
  /\ UNCHANGED <<wsRows, doomed, kept, wsFaults, served, wsPast>> /\ Unseen

UpdateFindsNothing(c) ==
  /\ change[c].at = "update" /\ wsRows = {} /\ Refused(c)
  /\ UNCHANGED <<wsRows, doomed, kept, wsStamps, wsFaults, served>> /\ Unseen

DeleteOld(c) ==   \* ALTER TABLE workspaces DELETE: the rows there are now will go
  /\ change[c].at = "delete old"
  /\ doomed' = wsRows
  /\ Go(c, [change[c] EXCEPT !.at = "insert"])
  /\ UNCHANGED <<wsRows, kept, wsStamps, wsFaults, served, wsPast>> /\ Unseen

InsertThenDelete(c) ==   \* mutant: the old rows are deleted after the insert
  /\ change[c].at = "insert"
  /\ wsRows' = wsRows \cup {change[c].row} /\ See(wsRows') /\ doomed' = wsRows'
  /\ Go(c, [change[c] EXCEPT !.at = "announce"])
  /\ UNCHANGED <<kept, wsStamps, wsFaults, served, wsPast, announced, wsLate>>
InsertNew(c) ==
  /\ change[c].at = "insert"
  /\ wsRows' = wsRows \cup {change[c].row} /\ See(wsRows')
  /\ Go(c, [change[c] EXCEPT !.at = "announce"])
  /\ UNCHANGED <<doomed, kept, wsStamps, wsFaults, served, wsPast, announced, wsLate>>

\* handleSettingsChanged, handleFiltersChanged
Invalidate == wsCache' = {}

\* emit('workspace.settings.changed') runs its listeners before the call is answered.  (The filter
\* services emit 'filters.changed' right after it, which empties the cache once more.)
Announce(c) ==
  /\ change[c].at = "announce"
  /\ Invalidate
  /\ announced' = Max({announced, change[c].row.stamp})
  /\ wsLate' = (wsLate \/ \E p \in Payloads : payload[p].at = "read" /\ payload[p].row.stamp < announced')
  /\ End(c)
  /\ UNCHANGED <<wsRows, doomed, kept, wsStamps, wsClock, payload, wsFaults, visible>>

\* An await of a call fails; nothing it did before is undone.
Fail(c) ==
  /\ UnderWay(c) /\ change[c].at # "announce" /\ wsFaults < MaxWsFaults
  /\ wsFaults' = wsFaults + 1
  /\ Go(c, Broken) /\ ends' = ends \cup {"failed"}
  /\ UNCHANGED <<wsRows, doomed, kept, wsStamps, served, wsOverlapped, expected>> /\ Unseen

WsMutate ==   \* ClickHouse gets to a row it was told to delete; it takes the oldest parts first
  /\ doomed # {}
  /\ LET oldest == CHOOSE r \in doomed : \A o \in doomed : r.stamp <= o.stamp
     IN  wsRows' = wsRows \ {oldest} /\ doomed' = doomed \ {oldest}
  /\ See(wsRows')
  /\ UNCHANGED <<kept, wsStamps, change, wsFaults, served, wsPast, announced, wsLate>>

-----------------------------------------------------------------------------
\* SessionPayloadHandler.getWorkspace

Fresh == \E e \in wsCache : e.expires > wsClock
Entry == CHOOSE e \in wsCache : TRUE

PayloadHits(p) ==
  /\ payload[p] = Unbegun /\ Fresh
  /\ payload' = [payload EXCEPT ![p] =
       [at |-> "judged", row |-> Entry.row, since |-> wsClock, due |-> announced]]
  /\ UNCHANGED <<wsRows, doomed, kept, wsStamps, change, wsClock, wsCache, wsFaults, wsPast>> /\ Unseen

PayloadMisses(p) ==   \* the query is made; its result is under way
  /\ payload[p] = Unbegun /\ ~Fresh /\ wsRows # {}
  /\ payload' = [payload EXCEPT ![p] =
       [at |-> "read", row |-> Latest(wsRows), since |-> wsClock, due |-> announced]]
  /\ UNCHANGED <<wsRows, doomed, kept, wsStamps, change, wsClock, wsCache, wsFaults, wsPast>> /\ Unseen

PayloadFindsNothing(p) ==   \* BadRequestException: Invalid workspace_id
  /\ payload[p] = Unbegun /\ ~Fresh /\ wsRows = {}
  /\ payload' = [payload EXCEPT ![p] = [at |-> "refused"]]
  /\ UNCHANGED <<wsRows, doomed, kept, wsStamps, change, wsClock, wsCache, wsFaults, wsPast>> /\ Unseen

\* The time was taken before the read, so it does not matter how long that took.
ExpiryOf(p) == payload[p].since + CacheTTL

PayloadFills(p) ==
  /\ payload[p].at = "read"
  /\ wsCache' = {[row |-> payload[p].row, expires |-> ExpiryOf(p)]}
  /\ payload' = [payload EXCEPT ![p] = [@ EXCEPT !.at = "judged"]]
  /\ UNCHANGED <<wsRows, doomed, kept, wsStamps, change, wsClock, wsFaults, wsPast>> /\ Unseen

Tick ==
  /\ wsClock < MaxWsTime
  /\ wsClock' = wsClock + 1
  /\ visible' = [visible EXCEPT ![wsClock'] = SeenIn(wsRows)]
  /\ UNCHANGED <<wsRows, doomed, kept, wsStamps, change, wsCache, payload, wsFaults, wsPast, announced, wsLate>>

WsNext ==
  \/ \E c \in WsCalls :
       \/ StartCreate(c) \/ CreateDatabase(c) \/ CreateRow(c) \/ CreateMembership(c) \/ CreateTask(c)
       \/ StartDelete(c) \/ DeleteMemberships(c) \/ DeleteTasks(c) \/ DropDatabase(c) \/ DeleteRow(c)
       \/ StartUpdate(c) \/ StartEdit(c) \/ UpdateReads(c) \/ UpdateFindsNothing(c)
       \/ DeleteOld(c) \/ InsertNew(c) \/ Announce(c) \/ Fail(c)
  \/ \E p \in Payloads :
       PayloadHits(p) \/ PayloadMisses(p) \/ PayloadFindsNothing(p) \/ PayloadFills(p)
  \/ WsMutate \/ Tick

WsSpec == WsInit /\ [][WsNext]_wsVars

-----------------------------------------------------------------------------
Lasting == wsRows \ doomed     \* the rows once ClickHouse has done what it was told
Calm == \A c \in WsCalls : ~UnderWay(c)

\* However changes of the settings overlap, the workspace does not vanish: there is a row that
\* no deletion is under way for, or a call that is about to insert one (workspaces.service.ts,
\* update), unless a call failed or the workspace is to be deleted.
WorkspaceStays ==
  "born" \in ends /\ ends \cap {"failed", "deletion begun"} = {}
    => Lasting # {} \/ \E c \in WsCalls : change[c].at = "insert"

\* Changes that do not overlap are all kept: the settings are what the calls that ended have
\* made of them, one after the other.  (Of two that overlap, one may be lost.  Those of SMTP are
\* left out once they were to be removed, which does nothing.)
TurnsAreKept ==
  Calm /\ ~wsOverlapped /\ "failed" \notin ends /\ Lasting # {} =>
    \A f \in Fields : Latest(Lasting).settings[f] = expected[f] \/ (f = "smtp" /\ "smtp removed" \in ends)

\* A workspace that is created or deleted without a failure, with nothing else going on, is all
\* there or all gone: its row, its database and its rows in the other tables.
AllOrNothing ==
  Calm /\ ~wsOverlapped /\ "failed" \notin ends
    => kept = IF Lasting # {} THEN Everything ELSE {}

\* A payload is judged by settings that were in force at most CacheTTL before it arrived,
\* although a row that was read before a change may be cached after it.
JudgedInTime ==
  \A p \in Payloads : payload[p].at = "judged" =>
    \E t \in 0..MaxWsTime : t > payload[p].since - CacheTTL /\ payload[p].row.stamp \in visible[t]

\* A payload that arrives after a change was announced is judged by it, unless changes overlap
\* or the handler was just reading the workspace when the change was announced.
ChangeIsSeen ==
  ~wsOverlapped /\ ~wsLate => \A p \in Payloads :
    payload[p].at = "judged" => payload[p].row.stamp >= payload[p].due

\* Calls that change a workspace do what they say, and payloads are judged by the outcome.
SettingsTakeEffect == WorkspaceStays /\ TurnsAreKept /\ AllOrNothing /\ JudgedInTime /\ ChangeIsSeen
=============================================================================
