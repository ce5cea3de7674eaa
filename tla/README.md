# TLA+ models of Staminads

Staminads is a web-analytics system: a browser SDK (`sdk/`) sends session payloads to a
NestJS API (`api/`), which stores them in ClickHouse and serves a React console
(`console/`).  This directory holds TLA+ modules of its stateful parts, TLC
configurations that check them on small instances, and TLAPS proofs for every size.

Paths below are relative to the repository; modules and configurations are in this
directory.  Check a run with `tlc -config <run>.cfg <MC module>.tla`, a proof with
`tlapm <module>_proofs.tla`.

## 1. The system

| Part | State | Operations | Talks to |
|---|---|---|---|
| SDK orchestration `sdk/src/sdk.ts` | flags, heartbeat timers, send timer | init, navigation, visibility and focus handlers, heartbeat, `trackGoal`, `pause`, `resume`, `reset` | session state, sender |
| SDK session `sdk/src/core/session*.ts`, `cross-domain.ts` | session, dimensions and user id in localStorage, actions in sessionStorage | create, resume, expire, links between sites, pageviews, goals, payload | storage shared by tabs |
| SDK sender `sdk/src/transport/sender.ts` | offline queue in localStorage | `sendSession`, `sendSessionBeacon`, `handleOnline` | `POST /api/track` |
| Payload handler `api/src/events/session-payload.handler.ts` | workspace cache (60 s) | `handle`, invalidation on events | event buffer, filters |
| Event buffer `api/src/events/event-buffer.service.ts` | buffers, timers, flushing marks | `add`, `addBatch`, `flush`, `flushAll`, `onModuleDestroy` | ClickHouse |
| ClickHouse schema `api/src/database/schemas.ts` | events, sessions, pages, goals; system tables | materialized views, ReplacingMergeTree | all services |
| Filters `api/src/filters/lib` | none | evaluate on an event, compile to SQL for stored rows | payload handler, backfill |
| Filter backfill `api/src/filters/backfill` | tasks, processors, workspace locks | start, process, cancel, summary, recovery | ClickHouse mutations |
| Workspaces, filters, SMTP, API keys | rows in system tables | read-modify-write of settings, creation and deletion in steps, use and revocation of keys | caches, through events |
| Auth, users, JWT | users, sessions, reset tokens; caches of 5 min and 60 s | login, lockout, reset, revoke, validate | mail |
| Members, invitations | memberships, invitations | role changes, leave, transfer, invite, accept | mail, audit |
| Subscriptions `api/src/subscriptions` | report subscriptions | cron every 15 min, send, mark sent or failed, pause | mail, analytics |
| Analytics `api/src/analytics` | cache of answers, running queries | build SQL, fill gaps, compare, share and clear answers | ClickHouse |
| Export `api/src/export` | none (a cursor at the client) | pages of events | ClickHouse |
| Assistant `api/src/assistant` | jobs, streams, token limits | create, stream, tools, clean up | model provider |
| Assistant in the console | chat, conversations in localStorage | send, select, delete, hear events | assistant's streams |
| Explore page, dashboard, settings pages of the console | parameters in the address, pending choices, caches of queries | choose, expand, filter, save | analytics, workspaces |
| Migrations, setup | version, lock row, first admin | lock, migrate, initialise | ClickHouse |
| Geo, mail, demo, tools, rendering | none that outlives a call | read and render | |

What makes it hard.  Every process is a single-threaded event loop, so races happen at
`await`s, and there are many between a read and the write that depends on it: system
tables are ReplacingMergeTree tables without transactions or unique keys, where "update"
means "insert a whole new row built from an earlier read" and "delete" a mutation that is
executed later.  Caches are invalidated by in-process events.  Payloads are cumulative and
may be resent, so their order matters.  The console writes the address of the page at once
and renders it later, while answers to older questions arrive.  The process may be killed
at any time, with events in memory, locks in maps, jobs half done.  `PROJECT.json` lists
these hazards by source line.

## 2. Modules and runs

| Module | Models | Run |
|---|---|---|
| `EventLog` | what the event buffer promises: a durable log | as the property `LogSpec` |
| `EventBuffer`, `MCEventBuffer` | `event-buffer.service.ts` | `EventBuffer`, `EventBufferStranded` |
| `Backfill`, `MCBackfill` | `filters/backfill` | `Backfill`, `BackfillLock` |
| `Rules`, `MCRewrite` | `filters/lib`: evaluator and compiler | `Backfill` |
| `Sender` | `sdk/src/transport/sender.ts` and what the server makes of payloads | `Browser`, `SenderReplay` |
| `Explore`, `SettingsPage`, `MCBrowser` | pages of the console | `Browser` |
| `Heartbeat`, `SessionState` | operators: the heartbeat of `sdk.ts`, `session-state.ts` | used by `Tracker` |
| `Tracker`, `MCTracker` | a tab: the handlers of `sdk.ts`, `session.ts`, both storages | `Collect`, `TrackerExact` |
| `Visitor` | who the visitor is to all tabs of two sites | `Collect` |
| `Delivery` | payloads, the handler, the tables | `Collect` |
| `Dashboard`, `MCCollect` | the dashboard of the console | `Collect` |
| `Calendar`, `Subscriptions`, `MCSubscriptions` | `api/src/subscriptions` | `Subscriptions` |
| `Accounts` | `api/src/auth`, `api/src/users` | `Api` |
| `Members`, `MCMembers` | `api/src/members`, `api/src/invitations` | `Api`, `MembersOwner` |
| `Workspaces` | `api/src/workspaces`, filters, SMTP, the cache of the payload handler | `Api` |
| `ApiKeys`, `Export` | `api/src/api-keys`, `api/src/export` | `Api` |
| `Figures`, `QueryCache`, `MCApi` | `api/src/analytics`, report generation | `Api` |
| `AnswerStream` | what a stream of the assistant promises | as the property `KeepsItsPromise` |
| `Assistant`, `Chat`, `MCAssistant` | the assistant in the API and in the console | `Assistant` |
| `Upgrade` | `api/src/migrations`, `api/src/setup` | `Assistant` |
| `*_proofs` | theorems, section 4 | |

Conventions.  An action is what the code does between two awaits.  History variables are
declared last, record the past and guard nothing.  A definition with a faulty variant
directly above it (`RequeueAtBack`, `Requeue`) is used with the variant only to see that
a property notices the fault.  Every bound is a constant with "bound" in its comment.
`Fails(c)` ends a request between two of its awaits, which is what an error of the
database does; a fault after the last write is the same as none.

Many guarantees of this code hold only while requests do not overlap in certain ways,
because nothing locks a row.  A property then names the excuse it needs (`raced`,
`overlapped`, `doubtful`, ...), a history variable set by the very step that builds on
something out of date, and says what holds without it.  The excuses are the documented
limits of the code: whoever adds a lock or a conditional write can drop one and see the
property hold.

Several runs check components that have no state in common.  Their MC modules (`MCApi`,
`MCAssistant`, `MCBrowser`, `MCCollect`, `MCRewrite`) form a sum, not a product: `focus`,
chosen at the beginning and never changed, names the one component that takes steps, and
the others stay in an initial state.  Every behaviour of a component within its bounds is
there, and nothing is said of two components together; those that do interact are in one
module (`Subscriptions` with `Calendar`, `Workspaces` with the payload handler's cache,
`Assistant` with `AnswerStream`).

## 3. What the modules say and the runs show

### 3.1 Event buffer (run `EventBuffer`)

`buffers`, `flushTimers` and `flushingWorkspaces` are the three maps of the service;
`inserts` are the calls of `insertWorkspace` that have not returned.  `Add` is `add` and
the loop of `addBatch`, `StartFlush` is `flush` up to its await, `InsertSucceeds` and
`InsertFails` the rest of it.  `TimerFires`, `ExplicitFlush` and `OnModuleDestroy` are
its other callers.  A failed insert may have been stored all the same (`written`); a
death of the process loses memory and leaves each insert in flight done or not done.

- `OneInsertPerWorkspace`: the flushing mark admits one insert and is exact.
- `NothingLost`: accepted = settled, then the snapshot in flight, then the buffer, in order.
- `ExactlyOnceUnlessDoubtful`: no duplicates but those of inserts that lied about failing.
- `DestroyFlushesIdle`: what `onModuleDestroy` guarantees for workspaces at rest.
- `LogSpec`: the service implements `EventLog`, with log = accepted, durable = settled.
- `RequestsEnd`, `AcceptedIsSettled`: requests are answered, and accepted events get
  settled unless an insert failed or a flush met another one in flight (`disturbed`).

Bounds: two workspaces, three requests of one or two events, a buffer of two, one failed
insert, one death.  Two events in one request cross the size limit during `addBatch`;
the second request of the same workspace arrives during its insert; the other
workspace shows that they are independent.
Fairness: armed timers fire, inserts return (the client has a request timeout), a
request that has begun goes on.  Nobody has to send, to flush or to restart.

Disagreement with the documentation.  `EventBufferStranded`: after a failed insert the
events wait with no timer ("Time-based: 2 seconds elapsed with pending events",
`docs/data-flow-architecture.md:285`).  `DestroyFlushesIdle` is weaker than line 286
("All buffers flushed on `onModuleDestroy`"): a workspace whose insert is in flight is
passed over.

### 3.2 Filter backfill and filters (run `Backfill`)

`Backfill` is one workspace, since all state but the mutation semaphore is keyed by it.
`call` follows `startBackfill`, `proc` the processor of each task, `cancel` the call of
`cancelTask`; `row` is the status in `backfill_tasks`; `lock` is the map of locks, by the
task that set the entry; `awaiting` holds, for each task, the processors that await the
promise of its lock, in order; `mutations` and `data` are ClickHouse.  `EndProcess` is the
`finally` of `process` with the microtasks it releases: everyone who awaited the promise
goes on before anything else happens.  `Kill` has the scope of the workspace, as `KILL
MUTATION` has, and may leave a partition half rewritten.

- `OneProcessorUnlessCrowded`: processors exclude each other unless two waited for one.
- `StatusIsTrue`: a completed task rewrote every partition of its period, unless
  the kill of another task took a mutation from it (`CompletedIsWhole`); and nobody makes
  a task active again once its processor has ended (`FinishedIsSettled`).
- `SummaryIsRightUndisturbed`: `needsBackfill` tells the truth as long as tasks did not
  overlap and each that touched the data was completed.
- `BackfillEnds`: active tasks end, whatever they wait for and whoever is cancelled.

`Rules` has the two readers of a workspace's filters: `Ingested` is `applyFilterResults`
on an event, `Rewritten` the assignments that `compileFiltersToSQL` makes, as ClickHouse
evaluates them on the stored row.  Filters come and go between the two.
- `ReadersAgree`: a backfill makes of a row what ingestion makes of the event, in a
  dimension whose operations do not meet in one priority, are no defaults and compare
  is_direct with true or false only (`Agreed`, `BackfillIsIngest`); and a second backfill
  changes nothing, where no filter reads what one writes and no default has company
  (`SecondBackfillIsIdle`).

Bounds: two tasks, two days of which one is within the events TTL (so one chunk skips
events and one finds its month done), tables events and sessions (goals are handled as
sessions are), one cancellation, one change of filters, one error or death.
`BackfillLock` needs three tasks.  Rules: two filters of five lists of operations and three of
conditions, one change between two rewrites.
Fairness: timeouts fire, awaited calls return, ClickHouse executes its mutations.

Disagreement with the documentation.  `BackfillLock`: two processors waiting for a third
both start when it ends ("Prevents concurrent backfills on the same workspace",
`backfill.processor.ts:178`).  `SummaryIsRightUndisturbed` excludes cancelled tasks,
because a cancelled backfill whose filters are then changed back leaves mixed data that
`needsBackfill` does not report.  See also section 6.

### 3.3 Sender and two pages of the console (run `Browser`)

`Sender`.  The tabs of a browser (`page`, `version`) share a queue in localStorage
(`queue`); each has a memory (`flushing`, `todo`, `failed`), and `requests` are on their
way.  A payload holds all actions of its tab, so it is told apart by the version of the
actions (`upTo`) and of the durations (`asOf`).  `Serve` is the server, where the row
received last counts (`known`, `shown`).  Requests may be lost, refused or answered too
late to be heard; a tab may be closed in the middle of a flush.

- `EntriesAreKeptOnce`: what a closed tab recorded is stored or underway, unless it was
  lost in a way the code accepts (`excused`: limit, expiry, a beacon, a flush cut off); and
  with two tabs told of the connection at once and entries put back, an entry is in one
  place.
- `ReconnectionFlushes`: an open tab that is told of the connection sends the queue.

Bounds: two tabs, a queue of two, two versions, one fault, one outage, one expiry: the
queue overflows, both tabs flush, one of them closes.
Fairness: the browser dispatches `online` events, and requests end (fetch with a timeout).
Nobody has to record, to close a tab or to come online.

`Explore`.  The address and the parameters pending behind `DEBOUNCE_MS`, the queries of the
table and of the children of expanded rows, their caches, and answers in any order.
`TableIsTrue`: the parameters in force are those chosen last (`ChoicesStay`), the rows and
the children are those of these parameters once nothing is on its way (`RowsAreAsked`,
`ChildrenAreAsked`), and a row that is loading awaits an answer (`LoadingAwaits`).
Excuses: a whole report chosen within the debounce of a choice (`overruled`), children got
across a change (`mixed`).

`SettingsPage`.  Every save sends all settings, those it does not mean to change from the
copy in the query cache.  `SavesStay`: a save undoes only what was changed after the page
had read it (`settings.tsx:176`, "Preserve all existing settings"), and a page whose save
succeeded comes to have a copy that was read after it.
Bounds: two changes of the report, two expansions, one error; two saves of the page and
one elsewhere.  Safety only.

Disagreement with the documentation.  `SenderReplay`: the version of a row is the time it
was received, so that a payload sent again after a newer one brings old durations back
("Provides idempotency - safe to resend same payload", `docs/data-flow-report.md:1016`).

### 3.4 From a visit to the dashboard (run `Collect`)

`Tracker`.  One tab, from page load to crash.  `sdk` is the memory of the SDK, a record of
the heartbeat (`hb`, operators in `Heartbeat`) and the session state (`state`, operators in
`SessionState`); `local` and `stored` are the two storages; `life`, `visible` and
`focused` the document; `sent` the pages as the server has them.  An action is one event
handler.  The browser may fire `blur`, `visibilitychange`, `pagehide`, `beforeunload` and
`freeze` in any order the platform allows and may drop the tab without any of them.

- `StopwatchIsRight`: the stopwatch shows the time for which the page was visible and
  focused (`watched`), until something in `marks` happened to it (`ExactUntilDisturbed`),
  and a heartbeat that runs has a timer (`PingsGoOn`).
- `ReportsOnlyGrow`: no two page views of a session get the same number, over loads and
  restores, unless the tab crashed or the session started over; and no payload takes back
  time that an earlier one reported, unless besides a stopwatch was set back or a page was
  restored that nobody had finalized (`faults`).

Bounds: five events in two ticks of a few seconds each, a limit of two ticks, two tiers:
enough for load, blur, return and leave, for the limit to be reached before and after a
return, and for the five steps that leave a page unfinished (section 6).  Time passes
only after the first page was loaded.  Safety only.

`Visitor`.  The session with its custom dimensions and user id, as each page has it in
memory (`tab`) and as the three keys of the storage that the tabs of a site share
(`storages`); `links` carry a session to another site.  `VisitorIsKnown`: a page says of the
visitor what was last asked for on its site, until another tab asks for something else
(`upToDate`); the three keys agree (unless `confused`); the last user id set is stored.
Bounds: two sites, two tabs, one dimension, five steps, one failure of the storage.

`Delivery`.  The payloads of one session on their way, the handler (bounds, clock skew,
domains), the blocks that are inserted and what the materialized views make of them.
`TablesAreRight`: the row of a session is that of the payload built last
(`SessionIsNewest`), each page and goal has one row (`OneRowEach`), and times are off by
the threshold and the latency at most (`TimesAreRight`).  Excuses: two payloads of the
session in one block (`twice`, for the numbers in its row), one overtaken (`swapped`) or two
tabs (`OneTab`), both for the duration of pages, and a corrected clock (`skewed`, for all but
`TimesAreRight`).  Bounds: one tab, two actions sent three times within two ticks, three clocks.

`Dashboard`.  The address, the page that is rendered with it later, going back in the
history, timers of period and range, clicks on rows and on the map, the filter builder, and
the answers of a widget, with its tabs, and its drawer.
`DashboardIsTrue`: what is shown is what was chosen (`ChoicesStand`), who clicks a row
filters by the dimension it belongs to (`FiltersFit`), one filter per dimension
(`OnePerDimension`), rows are those of the parameters shown (`RowsAreCurrent`).  Excuses:
an action taken on a page that was not yet rendered anew (`stale`, for `ChoicesStand`), and a
dimension that is selected in the builder and got its filter otherwise (`crossed`, for
`OnePerDimension`).
Bounds: three actions, one query that fails; the user goes on when at most one answer is
awaited (`OneAwaited`), so of the orders of three answers only those of two are explored.

Disagreement with the documentation.  `TrackerExact`: after a blur or a `beforeunload` the
current page is finalized and its duration stays what it was, although the page goes on
("Exact Duration", `sdk/README.md:8`).

### 3.5 Subscriptions (run `Subscriptions`)

`rows` are the rows that count, `work` what jobs of the cron and requests of users are at:
check, mail, read, store, audit.  Every change is a whole row built from one that was
read; the stamp is taken by the insert, so that the row stored last counts.  A job mails
first and then marks, and a run may begin before the last one is over.  `Calendar`
calculates when a report is due, with short days, weeks and months.

- `EachReportOnce`: a report is mailed once, unless two jobs were at work on it at once
  (`overlapped`) or one failed between the mail and the mark (`doubtful`); and an active
  subscription waits for the next time its plan wants (`NothingSkipped`).
- `OnlyResumeReactivates`: what was paused or deleted stays so although jobs mark it,
  unless a row was built from a stale one (`raced`).
- `DueIsHandled`: what is due does not stay due for ever.

Bounds: two jobs, two subscriptions, one request, two faults (limit two, so that a
subscription gets disabled), two hours.  `MCInit` begins either with the second
subscription deleted or with no request left and one hour and fault fewer: two live
subscriptions matter only for the order in which a job takes them.
Fairness: the cron job fires and what it awaits returns.  Users need not do anything.

### 3.6 Requests to the API (run `Api`)

`Accounts`.  One user, since all state is kept per user.  `user` is the row with the newest
stamp, `sessions`, `tokens` the other tables, `userCache` and `sessionCache` what the JWT
strategy caches, `call` the requests.  `changePassword` stamps its row before it hashes the
password, so that its row may arrive with an older stamp than the one that counts, and is
then ignored.  An entry of a cache is filled after a read that may be out of date by then
(`late`), and lives until it is invalidated or `Expire` drops it.

- `NothingRecordedIsLost`: the password chosen last, the failed logins since the last good
  one, the lock and the deletion are what the row says, unless a row was built from one
  that was replaced (`raced`).
- `EndedIsRefused`: a request that begins after the revocation of its session or the
  deletion of its user was acknowledged is refused, unless it is answered from an entry
  that another request filled too late.
- `ResetEndsSessions`: when `resetPassword` returns, all sessions live when it began are
  revoked.

Bounds: three requests, a lock after two failures, one fault: a reset, the request that
opens a session under it and the one that is validated.
Left out: creation of users, uniqueness of addresses, the limit on reset requests and the
expiry of sessions after seven days (which the strategy checks like a revocation).

`Members`.  `rows` are the rows of `workspace_memberships` that no merge has dropped,
`deletes` the mutations submitted and not executed: `ALTER TABLE ... DELETE` is asynchronous
here, and `Mutate` and `Merge` happen at any time.  `offers` are the invitations, `call` the
requests, each with what it has read so far.  `MembershipHolds`: the workspace keeps an
owner (`OwnerRemains`), neither a merge nor a late write brings a removed member back
(`RemovedStaysOut`), an invitation makes one membership (`AcceptedOnce`).  All hold unless a
request wrote from a row that had changed or was to be deleted (`raced`), somebody accepted
an invitation while a member (`twice`), or a request failed before it marked the
invitation (`unmarked`).
Bounds: an owner, an admin and an outsider, three requests of any kind, one failure:
enough for a change of role between the check and the write of another, with a third
between them.

Disagreement with the documentation.  `MembersOwner`: two owners who leave one after the
other may both leave, as the deletion of the first is not executed when the second counts
("workspace must always have at least one owner", `members.service.ts:256`).

`Workspaces`.  One workspace: its `wsRows` with all settings as one value, the deletions
ClickHouse has to execute (`doomed`), what there is in other tables (`kept`), the calls
that create, change or delete it step by step, and the payload handler's copy (`wsCache`).
`SettingsTakeEffect`: the workspace does not vanish while its settings are changed
(`WorkspaceStays`), changes one after the other are all kept (`TurnsAreKept`, which leaves
the SMTP settings out once they were to be removed, section 6), creation and deletion are whole (`AllOrNothing`), a payload is judged by settings no older than the time
to live (`JudgedInTime`), and one that arrives after a change was announced by that change,
unless changes overlapped or the handler was just reading (`ChangeIsSeen`).
Bounds: two calls and one payload or one call and two payloads (`MeetInOrder`), one tick,
one failure.

`ApiKeys`.  Each use of a key rewrites its row to record the time, the revocation too.
`EndedKeyIsRefused`: once a key was revoked or its workspace deleted it is refused, although
uses that began earlier write later, unless `keyCrossed`.  Bounds: two uses, two
revocations.

`Export`.  The client follows `next_cursor` while events are written and replaced.
`ExportIsComplete`: it gets every event that was there from the beginning and was not
replaced.  Bounds: three events, three times, pages of one, one write meanwhile.

`Figures`.  What the queries ask of the sessions and what is made of the rows: groups,
rates, medians, totals, series with their gaps filled, periods of comparison, the report.
`FiguresAgree`: totals are those of the table, extremes bound it, a series has every bucket,
the period compared with comes just before, changes in the report are true.  Bounds: samples of
three sessions of nine kinds, 18 questions, every preset, days 14 and 400 to 415 with a
change of the clock between them.

`QueryCache`.  Answers that are cached, shared by equal queries and cleared when a backfill
ends.  `AnswersFit`: an answer is in the order its query asked for, and once a clearing is
over what is cached was read after its backfill, unless it was being asked for when a
clearing ended (`across`).  Bounds: two callers, three queries, two backfills, one error.

The run has no fairness: all nine properties are safety properties.

### 3.7 Assistant, and the start of the API (run `Assistant`)

`Assistant`.  `job`, `stored` are the jobs, `run` what each stream does, `sent` what its
client has heard, `usage` the tokens counted.  `JobRunsOnce`: one stream at a time runs a
job, whoever else asks for it.  `EveryStreamEnds`.  `KeepsItsPromise`: each stream
implements `AnswerStream`, the order of events that the console relies on.
`Chat`.  The conversations kept, the chat shown, the prompts and what their streams have
said.  `ConversationsStayApart`: a turn is kept in the conversation it was sent in, and the
model is told of no other, unless the conversation was changed while an answer arrived
(`crossed`).  `SenderComesBack`: the input is enabled again, in the end.
Bounds: one job and two streams, two rounds of the model, two tokens, two hours; two
prompts in two conversations, one reload, broken connection or hidden page.

`Upgrade`.  The processes, the lock, the versions, each command of a migration, crashes in
between.  `SettingsAreTrue`: once the database says it has the version of the code, all
workspaces have the columns and views of that version, and once it says that setup is
complete there is one administrator, unless two processes migrated at once (`crowded`) or
two calls of setup overlapped (`together`).  `ApiComesUp`: in the end a process serves.
Bounds: two processes, two workspaces, versions 0 and 3 to 5, one crash.

Fairness: the supervisor restarts processes, ClickHouse executes deletions, the lock
lapses; the model answers and tools return (`MAX_STREAM_DURATION_MS`); a server ends every
stream it was asked for and a page is not hidden for ever.  Users need not do anything.

## 4. Proofs

Every theorem holds for all values of the constants that satisfy the assumption named
with it; TLC checked each inductive invariant, or its parts, on small instances first.

| Module | Theorem | Property of a run | Assumption |
|---|---|---|---|
| `EventBuffer_proofs` | `TypeCorrect` | | `ConstantsAssumption` |
| | `InsertsExcludeEachOther` | `OneInsertPerWorkspace` | |
| | `EventsAreAccountedFor` | `NothingLost` | |
| | `BufferImplementsLog` | `LogSpec` (refinement) | |
| | `EventsAreWrittenOnce` | `ExactlyOnceUnlessDoubtful` | |
| | `DestroyFlushesWhatIsIdle` | `DestroyFlushesIdle` | |
| | `TablesTellTheSession` | `TablesAreRight` | `DeliveryAssumption` |
| `Backfill_proofs` | `BackfillTypeCorrect` | | `ConstantsAssumption` |
| | `ProcessorsExcludeEachOther` | `OneProcessorUnlessCrowded` | |
| | `StatusTellsTheTruth` | `StatusIsTrue` | and `DailyChunks` |
| | `SummaryTellsTheTruth` | `SummaryIsRightUndisturbed` | and `DailyChunks` |
| | `DashboardTellsTheTruth` | `DashboardIsTrue` | `DashboardAssumption` |
| `Subscriptions_proofs` | `NextIsFirst` (`NextSendAt`) | | `CalendarAssumption` |
| | `SubscriptionsTypeCorrect` | | and `SubscriptionsAssumption` |
| | `ReportsGoOutOnce` | `EachReportOnce` | |
| | `PauseAndDeleteLast` | `OnlyResumeReactivates` | |
| | `FiguresTellTheTruth` | `FiguresAgree` | `FiguresAssumption` |
| `Access_proofs` | `TypeCorrect` | | `AccountsAssumption` |
| | `EndedSessionsAreRefused` | `EndedIsRefused` | |
| | `ResetEndsAllSessions` | `ResetEndsSessions` | |
| | `RecordsAreKept` | `NothingRecordedIsLost` | |
| | `TeamTypeCorrect` | | `TeamIsFounded` |
| | `TeamsHold` | `MembershipHolds` | |
| `Reading_proofs` | `KeysTypeCorrect` | | none |
| | `EndedKeysAreRefused` | `EndedKeyIsRefused` | none |
| | `AnswersFitQueries` | `AnswersFit` | `AskedAreQueries` |
| | `ExportsAreComplete` | `ExportIsComplete` | `ExportAssumption` |
| | `WorkspaceIsTrue` | `SettingsTakeEffect` | `WorkspacesAssumption` |
| | `ReadersOfFiltersAgree` | `ReadersAgree` | `FiltersAreValid` |
| `Assistant_proofs` | `AssistantTypeCorrect` | | none |
| | `OneStreamRunsAJob` | `JobRunsOnce` | |
| | `StreamsKeepTheirPromise` | `KeepsItsPromise` (refinement) | |
| | `SettingsStayTrue` | `SettingsAreTrue` | `UpgradeAssumption` |
| | `ConversationsAreApart` | `ConversationsStayApart` | `ChAssumption` |
| `Browser_proofs` | `SenderTypeCorrect` | | `SenderAssumption` |
| | `QueueKeepsEntries` | `EntriesAreKeptOnce` | |
| | `SavesRevertNothingKnown` | `SavesStay` (action property) | `SettingsAssumption` |
| | `TableShowsWhatWasAsked` | `TableIsTrue` | `ExploreAssumption` |
| `Sdk_proofs` | `StopwatchStaysRight` | `StopwatchIsRight` | `TrackerAssumption`, `HeartbeatAssumption`, `SessionStateAssumption` |
| | `ReportsGrow` | `ReportsOnlyGrow` (action property) | the same |
| | `VisitorStaysKnown` | `VisitorIsKnown` | `VisitorAssumption` |

How the invariants are made inductive.

**Event buffer.**  `IInv` is types, finiteness of `inserts`, `OneInsertPerWorkspace` and
`NothingLost`.  Neither of the last two is inductive alone: an insert that ends keeps the
accounting only because it was the only one of its workspace, and the exclusion holds
because marks and inserts agree.  `OnceInv` adds that an event is accepted once
(`AcceptedOnce`) and that a request has not yet written what it is about to push
(`UnwrittenBeforePush`); since accepted = settled, in flight, buffered, in this order,
nothing is written twice unless an insert failed after it had been stored.  `DestroyInv`
says of a destruction under way that what it found idle is settled or in an insert that it
started itself (`DestroyAwaits`).  `BufferImplementsLog` shows, action by action, that
each step is a step of `EventLog` or leaves log and durable part alone.

**Backfill.**  `Placed` says where a task is: scheduled once, queued once, and idle before.
`LockExcludes` relates processors, locks and awaited promises: the entry of the map is
that of the processor at work, unless two awaited one promise.  `Whole` follows one task
through chunks, days and tables: what lies behind is rewritten, what is current has its
mutation on the way, unless it was robbed of it.  It holds for `DailyChunks`, that is
`ChunkSize = 1`, which is the default of `backfill.service.ts:189`; with larger chunks it
is false, a disagreement that the proof brought to light (section 6).  `Truth` says that
as long as tasks do not overlap (`OneIsLive`) and all that touched data were completed,
the newest completed task decides what is in the rows.

**Subscriptions.**  `NextSendAt` is the first time of the plan after now, for every plan
and time (`NextIsFirst`, with lemmas on division that the periods need).  `Sane`: what any
task carries is a row that was stored, and its due times fit its plan; with it, no active
subscription waits longer than its plan wants (`NothingIsSkipped`).  `Mailing`: unless two
jobs met (`twice`), one job at most has a subscription in hand (`OneHolds`), a mailed
report that is not marked has that job behind it (`Behind`), and a job about to mail holds
a due time later than that of any report mailed (`MailsNew`, `FailsLater`).

**Figures.**  The one step of a behaviour asks one question, so the invariant is what its
answer satisfies, and the work is in the lemmas.  Totals: sums over groups that have no
session in common are the sums over their union (`SumOfParts`).  As no induction can be
cited, it is argued by the least set of groups of which it would fail (`LeastSet`).
Extremes: the median of a union of groups is at most the greatest of their medians
(`MedianOfUnion`), by counting the sessions up to a duration.  Series: the first days of the
buckets are the dates that `fillGaps` steps through, with that one week more
(`DatesAreBuckets`), and a row found under a date and its values is the only one.  Reports: a row cut off has
as many rows before it as the limit, none of which has fewer sessions (`CutOffIsLow`).

**Accounts.**  None of the properties is inductive, since each speaks of one moment of a
request.  `IInv` says what a request may rely on at each place of its way:

- `PlaceInv`, `ExistInv`: what it has read, and that what it is to revoke exists, while
  the session it will open does not; with this, sessions never come back to life.
- `EndedInv`: an ended session is revoked, its cached entry is missing, invalid or late,
  and a request that is due for refusal learns of it at `check` at the latest.
- `ResetInv`: of the sessions live at the beginning, those not revoked are on the list.
- `StampInv`: stamps tell rows apart, so a request whose row is still the one that counts
  has found it not deleted.  It is what makes the deletion stable.
- `DeletedInv`: the analogue of `EndedInv` for the user, as long as nothing `raced`.

`RecordInv` adds that a request about to rewrite the user holds what counts now, unless it
raced (`RewriteInv`).

**Members.**  `TeamInv`: what a request has read was a row of the table, with the target it
names (`RequestsKnow`); unless something raced, the ids of rows tell users apart
(`IdsApart`), an owner stands whose row no pending deletion names (`OwnerStays`), who was
removed is only in rows that a deletion will drop (`Leaving`), and an invitation that made
a membership is marked or about to be (`OffersUsedOnce`).

**API keys.**  `RevocationsWin`: a row that revokes the key has a later stamp than every
row that says it is active, those not yet written included.  It needs that stamps are
given once and in order (`StampsGiven`, `RevocationsStandApart`).

**Query cache.**  An answer belongs to its key (`AnswersBelong`), the keys to be cleared are
those cached (`KeysAreKnown`), and what is cached or shared was read after the last
backfill whose clearing is over (`ReadSinceBackfill`).

**Export.**  After a page, every row of the period that has been there all along and is not
behind the cursor has been read (`Covered`).  That a page keeps this needs two facts about
`Foremost`: a page is closed downwards in the order of the query (`PageIsClosed`), and
without a row too many it is all there is (`LastPageIsWhole`).  Both rest on the least
element of a finite set (`LeastExists`), which the library's well-founded subset ordering
gives without an induction.

**Workspaces.**  Four invariants, one on top of the other.  `RowsInv`: rows stored or about to
be are told apart by their stamps, and when all rows are doomed a call is about to insert one
(or failed, or deletes the workspace).  `SeenInv`: what a payload has read, what is cached and
what it was judged by was to be seen at a time that is remembered; a cached row expires
`CacheTTL` after that time, whenever the read was answered.  `AloneInv`, while calls do not
overlap: the call under way has the newest stamp, rows that last are newer than those to go,
and what is read or cached is as new as what was announced, unless a payload was `wsLate`.
So `get` reads what lasts, whichever of the doomed rows ClickHouse has reached
(`NewestLasts`).  `TurnInv`: between two calls the settings are what the calls before meant;
a call under way holds a patch or a row that makes of them what it means (`PatchMeant`), and
the other tables are as far as its step says.

**Assistant.**  `RunInv`: the job of a stream that runs is "running", or completed with its
result; a second stream of the same job is therefore refused, until the job expires or is
forgotten, and then refused for good.  For the refinement, `Fits` says what each place of
a request may have said: nothing before the workspace was read, `tool_call` last while a
tool runs, and so on; each step then is one that `AnswerStream` allows, or silent.

**Upgrade.**  A database that begins before version 4 has no workspace left that could be
migrated (`Hopeless`).  Any other is `Good`: unless two processes migrate at once, each is
`OnCourse`, one version above the database, with the workspaces it has passed in the new
schema and the one at hand changed by the commands before the next (`PartlyDone`).  Since
the commands reach that schema from wherever a crash left a workspace (`CommandsAddUp`),
beginning again does no harm.  `AdminInv` ties the visitors of setup to the users there are.

**Sender.**  `Apart`: entries have numbers of their own, and the queue, what each tab is
flushing and what it could not send have none in common.  `FlushIdle`: `isFlushing` is up
exactly while payloads are left.  `Linked`: the request that a flush waits for carries its
first payload, so its answer is about that one.  With these, `Lossless` is inductive: what a
tab has built and nothing excuses is known to the server, in the queue, in a flush or in a
request (`Reach`), at every step of `handleOnline`, also when other tabs queue payloads
before the failed ones are merged back; `Finished` adds that a closed tab has built all.

**Settings pages.**  A value on its way, in a copy, in a form, in an answer or in a save, is
the one stored, or somebody changed it after it was read (`Holds`, `CopiesHold`).  That is
what makes "reverts only what changed since" true when a save is served.  `OwnSaves` says
that a page whose save succeeded has asked for the settings again, or has them.

**Explore.**  `TableIsTrue` speaks of moments with no query on its way; `ExploreInv` of all
moments.  The rows are those of the answer shown (`RowsAreShown`), which need not be that of
the parameters in force until it has arrived (`AnswerIsShown`); children agree with their
rows in dimensions and first query, which together are all of the parameters (`QueryTells`).
A key of children says all but the metric filters (`KeyTells`), hence the exception `mixed`.
That nobody waits in vain needs that a fetch has somebody waiting and its key to itself
(`FetchesAreAwaited`).

**Stopwatch.**  `StopwatchInv` is `StopwatchIsRight` and types, made inductive: a page in
the back-forward cache is not visible, a watched page below the limit has its heartbeat
running, and an undisturbed page has it running only while watched.  The handlers share
five ways to treat the heartbeat (leave, stop, start, resume, ping), each with a lemma.

**Reports.**  `Growing` says who remembers what the server has been told, as long as no
number was forgotten.  An open page does (`Reports`): its state has each page of its session
that was sent, with no less time, the stopwatch counting for the current one.  Between two
pages the storage does (`Kept`), except for the time of a page left current, and so does
that of a page already flushed, whose later payloads add goals only (`Precedes`).  An answer
may persist the state at any time, so what is persisted must never be behind what was
sent.  A row of the server is the last of the actions with its number, hence the numbers of
a state are apart (`StateOK`).  It rests on `StopwatchInv`, since a stopwatch that was not
set back never falls.

**Visitor.**  `VisitorInvariant` is `VisitorIsKnown` and types; its parts need each other.  A
page knows the visitor when it loads because the keys agree (`LoadReads`: whichever of
link, stored session or separate keys it takes up), and the keys agree after a call because
the page knew the visitor before (`Left`, the lemma all operations of a page share).  The
operations of the storage are first described by what they save and keep (`PutSaves`,
`RemoveIs`, `Reads`), which includes that a page that has not given localStorage up keeps
nothing in memory; a reset that takes the session up again finds it blank (`ResetIs`).

**Filters.**  That a row is what evaluator or compiler say (`RulesInv`) is easy; that they say
the same is not, since one executes every operation that matches, one after the other, and
the other takes the first branch.  `FirstDecides` shows for the loop of `evaluateFilters`
that, where priorities differ, the first of the operations that match decides.  The loop is
a recursive function on sets of operations; that it exists (`StagesExist`), and what it gives,
is argued by the least set of operations of which it would fail (`LeastSet`), as induction
theorems cannot be cited.

**Delivery.**  `DelInv`: payloads are told apart and have been under way no longer than they
may (`UnderWay`); what two payloads of a tab say of one page differs in how long it has lasted
at most, and the later one says more (`HistoryIsTold`: numbers are given once, no page ends
after now, the tab still knows what it has said).  `TimesAreRight` is inductive with these.
Unless the clock was corrected, the buffer is what the payloads say that are not inserted
yet (`BufferTells`), in order of version (`BufferOrder`), and the rows are what those say that
are (`SessionTells`, `RowsTell`).  A block then replaces rows by rows that say more.

**Dashboard.**  What was chosen is what the address will say once the period that waits for
its timer is written (`ChosenIsWritten`); the page and the address have one filter per
dimension, and none on the one selected in the builder (`NothingCrossed`); a view that has not
the answer to its query awaits it or was refused (`ViewsWait`).  Filters are sequences from
which some are taken out, hence lemmas on counting positions in order (`PositionsAreInOrder`).

**Chat.**  Wherever a turn is, in a conversation, on the screen, in the storage or in what
`setTitle` captured, it is in the conversation it was sent in (`AllHome`); and unless the
conversation was changed during an answer, what was said lately and what is being answered
belongs to the conversation shown, as does what the model was told (`OwnHistory`).

Assumptions.  `ConstantsAssumption`, `SubscriptionsAssumption` and `AccountsAssumption` ask
that sets of tasks, jobs and users are finite where a count is taken, that names of jobs,
requests and users do not coincide with each other or with the words "none" and "user"
that mark absence, and that bounds are naturals.  `CalendarAssumption` asks for hours,
days and periods of at least one.  `TeamIsFounded`: the workspace has an owner at the
beginning, as `workspaces.service.ts` creates it, and users are not named like requests.
`AskedAreQueries`: each query asks for a metric (the DTO demands one), and the mark for
"no answer" is no key.  `ExportAssumption` and `UpgradeAssumption`: ids, times and versions
are naturals, a page has a row, processes are finitely many.  `SenderAssumption`: the bounds
are naturals, and a tab may record something.  `SettingsAssumption`: the marks for what a user
entered are no numbers.  `ExploreAssumption`: reports are made of the dimensions, scopes and
metric filters there are, and the mark for nothing is no choice of dimensions.
`WorkspacesAssumption`: a row is cached for at least one tick (`CACHE_TTL_MS` is a minute).
`VisitorAssumption`: the mark for a missing key is no map of dimensions. `FiltersAreValid`
is what the DTOs let pass: conditions on fields of the event, operations on dimensions,
"1" turned into "true". `DeliveryAssumption`: clocks differ by integers, threshold and
latency are naturals. `DashboardAssumption`: the mark for nothing is no choice, defaults
and the first tab are choices, and each tab has a dimension. `ChAssumption`: a number of
conversations is kept. The three of the tab: the bounds and timeouts are naturals, a state
holds an action, and there is an interval from the first moment on. `FiguresAssumption`:
sessions are finitely many and have an id each, a query asks for dimensions, a unit and a
metric to order by that there are, and threshold, limits and the length of a month are
naturals. TLC evaluates all of
them in the runs.

What the proofs changed.  `ReportsOnlyGrow` was false: with five events, one more than the
run allowed then, a page is left unfinished and its time is taken back (section 6).  It was
the invariant that could not be kept, at `Leave`.  The property now names that excuse, and
the run goes on to five events.  Once a session has started over the property says nothing,
where it used to compare at least the times of one page view.  `Visitor` left the count of
its steps out of its variables.  In `ApiKeys`, the proof showed what a deletion of the
workspace has to count as crossed by it; in `Backfill`, two variables said what `awaiting`
says alone; and the theorem on completed tasks fails for chunks of more than one day.
In `Rules`, two operations of
one filter on a dimension meet in its priority, and is_direct compared with any other text
than true and false is read in two ways; the properties used to exclude neither.  In
`Delivery`, a session is one row with any number of tabs, which used to be an excuse, and
`Browse` finalizes the page it leaves.  In `Dashboard`, the history variables `chosen` and
`crossed` were wrong beyond the bounds of the run: when one of two equal filters is removed,
on the way back in the history, and when a filter is applied after one on its dimension was
written but not rendered; the map view and the rest of the tabs are in now.  `Chat` tells of
`setTitle` what it captures.
In `Figures`, tables and medians are now sets of rows and of sessions rather than sorted
sequences, and `SeriesIsWhole` names what it had left to the bounds: no group is left out by
a filter on metrics or cut off by the limit, and the range does not end before it begins.
`Workspaces` used to leave the removal of the SMTP settings out of its calls; they are in, and
`TurnsAreKept` says what does not hold of them.

Every safety property of the passing runs is stated by a theorem.  Only model-checked is
liveness (`RequestsEnd`, `AcceptedIsSettled`, `BackfillEnds`, `ReconnectionFlushes`,
`DueIsHandled`, `ApiComesUp`, `EveryStreamEnds`, `SenderComesBack`): fairness and `ENABLED`
are out of the prover's reach.

## 5. Not modelled

`components` in `PROJECT.json` lists every part with its status.  In short: reading devices,
referrers and time zones in the SDK, mail templates, SMTP, geo lookup, audit listing, the
demo data and the tools compute their result from their input and keep nothing; the rest
of the console renders what it got.  Of the modelled parts, the notes there say what is
left out, such as the validation of fields, permissions of roles and wording.

## 6. Divergences known and not in a run

Met while modelling.  They are limits of the code, or of its documents, that no run
shows: the properties above exclude them by an excuse or by the bounds.

Backfill and filters
- `chunk_size_days` may be 1 to 30 (`start-backfill.dto.ts:13-16`, used with 2 in
  `backfill.e2e-spec.ts:255`, described in `docs/data-flow-architecture.md:974`), but
  `generateDateChunks` (`backfill.processor.ts:262-291`) yields the first day of each
  chunk and `processEventsForDate` rewrites that day only: with 2 or more, a completed
  task has left days as they were.
- The compiled filters and the evaluator differ on: a default before a set of lower
  priority, unset before a default, equal priorities (last against first), two operations
  of one filter on a dimension, a default on a standard field (the evaluator ignores the
  event's own value), `is_direct` compared with nothing, by `contains` or with another
  text than true and false, a custom dimension no filter writes any more (kept, against
  the comment at `filter-compiler.ts:169`). With no filter enabled the SET clause is
  empty.

Analytics and reports
- The cache key sorts the metrics, while the default order depends on the first one; it
  lacks `bounce_threshold`; a query in flight during a clearing keeps its old answer.
- Periods of comparison count days of 24 hours; weekly gaps get one week too many when
  the range ends on a Sunday; `fillGaps` merges dimensions renamed to one name; totals of
  other metrics add averages.
- The evolution in a report is cut off by the limit, and the empty value takes a place of
  it; a report shows its four metrics whatever was chosen.

Console
- Saving one part of the settings puts back filters changed since the page was read; the
  last domain cannot be removed.
- Children of an Explore row are cached without the metric filters, and `setAll` is
  overruled by dimensions still pending.
- The dashboard's saved period is never restored (against `useDashboardParams.ts:16`),
  clicks on rows of Exits do nothing, an action before the page is rendered loses the one
  before, the drawer keeps its page number, and the builder may leave two filters on a
  dimension.

SDK
- `flushOnce` (`sdk.ts:363`) does nothing after a `beforeunload` on a page that then stayed,
  and `onNavigation` does not allow it again: the page navigated to is not finalized when it
  is left.  What an answer persisted of it has it as the current page, and the next load
  restores it, makes it the one to be finalized and overwrites its duration with that of its
  own stopwatch, 0 (`session-state.ts:96-107`, `294-304`).
- `updateSession` is called by nobody, so `last_active_at` moves at page loads only; a
  reset takes up a link that is still valid, and after a fallback to memory leaves the
  keys in localStorage; a stale tab overwrites the dimensions of another.

Settings of the API
- Deleting the SMTP settings merges with what is stored, and what a settings call returns
  is not what is stored when two overlap; the daily token limit of the assistant is read
  before and added to after a job, so that jobs together exceed it.

## 7. Plan

Next are the permissions of roles and keys in the controllers, which no module has.
