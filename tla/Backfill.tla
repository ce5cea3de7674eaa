------------------------------ MODULE Backfill ------------------------------
(***************************************************************************)
(* Filter backfill (api/src/filters/backfill): startBackfill admits a task,*)
(* a FilterBackfillProcessor rewrites the stored data of the workspace with *)
(* the filters of the task, one date chunk after the other, and cancelTask *)
(* stops it.  All state but the mutation semaphore is keyed by workspace,  *)
(* so the model is one workspace.                                          *)
(*                                                                         *)
(* Node runs one callback at a time: an action is what happens between two *)
(* awaits.  The table backfill_tasks keeps the row with the highest        *)
(* updated_at of each id, that is the row written last.                    *)
(***************************************************************************)
EXTENDS Integers, Sequences, FiniteSets

CONSTANTS
  Tasks,         \* calls of startBackfill, named by the id of the task they create
  Versions,      \* filter settings, told apart as computeFilterVersion does
  FirstVersion,  \* the settings at the start
  LookbackDays,  \* lookback_days; day LookbackDays is today
  ChunkSize,     \* chunk_size_days
  EventDays,     \* EVENTS_TTL_DAYS
  MonthOf,       \* the month of each day
  Tables,        \* the tables of a chunk, in the order they are rewritten
  Cancellable,   \* bound: tasks somebody tries to cancel, once each
  MaxEdits,      \* bound: changes of the workspace's filters
  MaxFaults      \* bound: errors met by processors and deaths of the process

Days == 1..LookbackDays
NoTask == "no task"
Initially == "ingestion"   \* how stored data was filtered before any backfill
Mixed == "mixed"           \* a partition whose rewriting was killed half-way

ASSUME ConstantsAssumption ==
  /\ IsFiniteSet(Tasks) /\ NoTask \notin Tasks
  /\ FirstVersion \in Versions /\ Versions \cap {Initially, Mixed} = {}
  /\ LookbackDays \in Nat \ {0}
  /\ ChunkSize \in Nat \ {0}
  /\ EventDays \in Nat
  /\ MonthOf \in [Days -> Nat]
  /\ Tables \in Seq({"events", "sessions", "goals"}) /\ Tables # <<>>
  /\ Cancellable \subseteq Tasks
  /\ MaxEdits \in Nat /\ MaxFaults \in Nat

\* Events are partitioned by day, sessions and goals by month.
PartitionOf(t, d) == <<t, IF t = "events" THEN d ELSE MonthOf[d]>>

\* isWithinEventsTTL: midnight of the day is less than EVENTS_TTL_DAYS ago.
IsFresh(d) == d > LookbackDays - EventDays

Skipped(t, d) == t = "events" /\ ~IsFresh(d)

\* What a backfill is there to rewrite: all stored data of the lookback period.
Scope == UNION {{PartitionOf(Tables[k], d) : d \in {e \in Days : ~Skipped(Tables[k], e)}}
                : k \in DOMAIN Tables}

VARIABLES
  filters,     \* workspace.settings.filters, as a version
  call,        \* startBackfill: new | read | admitted | rejected | started | broken
  snapshot,    \* filters_snapshot of each task
  created,     \* tasks in order of created_at
  row,         \* status in backfill_tasks
  scheduled,   \* pendingTimeouts: tasks to spawn, in order
  proc,        \* where the processor of each task is
  day,         \* the chunk it is at
  table,       \* the table it is at, an index of Tables
  monthsDone,  \* processedSessionPartitions, processedGoalPartitions
  cancelled,   \* processors with the cancelled flag
  lock,        \* workspaceLocks: whose promise is in the map
  awaiting,    \* the processors that await the promise of each one, in order
  cancel,      \* cancelTask: idle | read | kill | write | done | rejected | broken
  mutations,   \* ClickHouse: mutations not done, in order of submission
  data,        \* ClickHouse: the filters each partition was last rewritten with
  alive,       \* is the process running?
  edits, faults,  \* counted against their bounds
  \* History variables: they record the past and guard nothing.
  submitted,   \* tasks that submitted a mutation
  applied,     \* partitions rewritten by each task
  robbed,      \* tasks that lost a mutation to the kill of another task
  crowded,     \* did one lock ever have two waiters at its release?
  overlapped,  \* was a task ever admitted beside an unfinished one?
  unsaved      \* tasks whose final status could not be written

startVars == <<call, snapshot, created, scheduled>>
lockVars == <<lock, awaiting>>
workVars == <<day, table, monthsDone>>
storeVars == <<mutations, data, submitted, applied>>
boundVars == <<edits, faults>>
pastVars == <<robbed, crowded, overlapped, unsaved>>
vars == <<filters, startVars, row, proc, workVars, cancelled, lockVars, cancel,
          storeVars, alive, boundVars, pastVars>>

Active == {"pending", "running"}
Terminal == {"completed", "failed", "cancelled"}
Working == {"totals", "chunk", "submit", "wait", "progress", "timeout", "kill"}
Ending == {"completing", "cancelling", "failing"}
Processor == {"none", "queued", "gone", "lost"} \cup Working \cup Ending
Partition == {PartitionOf(Tables[k], d) : k \in DOMAIN Tables, d \in Days}
Mutation == [part : Partition, by : Tasks]

\* Tasks in runningProcessors.
Running == {t \in Tasks : proc[t] \in {"queued"} \cup Working \cup Ending}

TypeOK ==
  /\ filters \in Versions
  /\ call \in [Tasks -> {"new", "read", "admitted", "rejected", "started", "broken"}]
  /\ snapshot \in [Tasks -> Versions]
  /\ created \in Seq(Tasks)
  /\ row \in [Tasks -> {"none"} \cup Active \cup Terminal]
  /\ scheduled \in Seq(Tasks)
  /\ proc \in [Tasks -> Processor]
  /\ day \in [Tasks -> Nat \ {0}]
  /\ table \in [Tasks -> 1..Len(Tables) + 1]
  /\ \A t \in Tasks : proc[t] \in {"submit", "wait"} =>
                        day[t] \in Days /\ table[t] \in DOMAIN Tables
  /\ monthsDone \in [Tasks -> SUBSET Partition]
  /\ cancelled \in SUBSET Tasks
  /\ lock \in Tasks \cup {NoTask}
  /\ awaiting \in [Tasks -> Seq(Tasks)]
  /\ cancel \in [Tasks -> {"idle", "read", "kill", "write", "done", "rejected", "broken"}]
  /\ mutations \in Seq(Mutation)
  /\ data \in [Partition -> Versions \cup {Initially, Mixed}]
  /\ alive \in BOOLEAN
  /\ edits \in 0..MaxEdits /\ faults \in 0..MaxFaults
  /\ submitted \in SUBSET Tasks
  /\ applied \in [Tasks -> SUBSET Partition]
  /\ robbed \in SUBSET Tasks
  /\ crowded \in BOOLEAN
  /\ overlapped \in BOOLEAN
  /\ unsaved \in SUBSET Tasks

Init ==
  /\ filters = FirstVersion
  /\ call = [t \in Tasks |-> "new"]
  /\ snapshot = [t \in Tasks |-> FirstVersion]
  /\ created = <<>>
  /\ row = [t \in Tasks |-> "none"]
  /\ scheduled = <<>>
  /\ proc = [t \in Tasks |-> "none"]
  /\ day = [t \in Tasks |-> 1]
  /\ table = [t \in Tasks |-> 1]
  /\ monthsDone = [t \in Tasks |-> {}]
  /\ cancelled = {}
  /\ lock = NoTask
  /\ awaiting = [t \in Tasks |-> <<>>]
  /\ cancel = [t \in Tasks |-> "idle"]
  /\ mutations = <<>>
  /\ data = [p \in Partition |-> Initially]
  /\ alive = TRUE
  /\ edits = 0 /\ faults = 0
  /\ submitted = {}
  /\ applied = [t \in Tasks |-> {}]
  /\ robbed = {}
  /\ crowded = FALSE
  /\ overlapped = FALSE
  /\ unsaved = {}

-----------------------------------------------------------------------------
(* startBackfill: read the filters, look for an active task, insert the row, *)
(* schedule the processor.  Nothing holds between these awaits.              *)

StartReads(t) ==
  /\ alive /\ call[t] = "new"
  /\ call' = [call EXCEPT ![t] = "read"]
  /\ snapshot' = [snapshot EXCEPT ![t] = filters]
  /\ UNCHANGED <<filters, created, scheduled, row, proc, workVars, cancelled,
                 lockVars, cancel, storeVars, alive, boundVars, pastVars>>

Conflict == \E t \in Tasks : row[t] \in Active

\* Some task is admitted and has not ended, whatever its row says.
Unfinished == scheduled # <<>> \/ Running # {} \/ \E t \in Tasks : call[t] = "admitted"

StartChecks(t) ==
  /\ alive /\ call[t] = "read"
  /\ \/ /\ Conflict
        /\ call' = [call EXCEPT ![t] = "rejected"]
        /\ UNCHANGED <<created, overlapped>>
     \/ /\ ~Conflict
        /\ call' = [call EXCEPT ![t] = "admitted"]
        /\ created' = Append(created, t)
        /\ overlapped' = (overlapped \/ Unfinished)
  /\ UNCHANGED <<filters, snapshot, scheduled, row, proc, workVars, cancelled, lockVars,
                 cancel, storeVars, alive, boundVars, robbed, crowded, unsaved>>

StartInserts(t) ==
  /\ alive /\ call[t] = "admitted"
  /\ call' = [call EXCEPT ![t] = "started"]
  /\ row' = [row EXCEPT ![t] = "pending"]
  /\ scheduled' = Append(scheduled, t)
  /\ UNCHANGED <<filters, snapshot, created, proc, workVars, cancelled, lockVars,
                 cancel, storeVars, alive, boundVars, pastVars>>

-----------------------------------------------------------------------------
(* The lock of process(). *)

LockIgnored == NoTask
LockFound == lock

\* The timeout fires: the processor takes the lock or awaits the promise it finds.
Spawn ==
  LET t == Head(scheduled)
  IN /\ alive /\ scheduled # <<>>
     /\ scheduled' = Tail(scheduled)
     /\ \/ /\ LockFound = NoTask
           /\ proc' = [proc EXCEPT ![t] = "totals"]
           /\ lock' = t
           /\ UNCHANGED awaiting
        \/ /\ LockFound # NoTask
           /\ proc' = [proc EXCEPT ![t] = "queued"]
           /\ awaiting' = [awaiting EXCEPT ![LockFound] = Append(@, t)]
           /\ UNCHANGED lock
     /\ UNCHANGED <<filters, call, snapshot, created, row, workVars, cancelled,
                    cancel, storeVars, alive, boundVars, pastVars>>

\* Who goes on when t resolves its promise: everyone awaiting it.
WokenOnSuccess(t) == IF t \in cancelled THEN <<>> ELSE awaiting[t]
WokenBy(t) == awaiting[t]

\* The finally block of process(), then the microtasks it releases: whatever lock is
\* in the map is deleted and each woken processor in turn puts its own there.  t
\* goes on to write the status next.
EndProcess(t, next) ==
  LET woken == WokenBy(t)
  IN /\ proc' = [u \in Tasks |-> IF u = t THEN next
                                 ELSE IF \E k \in DOMAIN woken : woken[k] = u
                                 THEN "totals" ELSE proc[u]]
     /\ awaiting' = [awaiting EXCEPT ![t] = <<>>]
     /\ lock' = IF woken = <<>> THEN NoTask ELSE woken[Len(woken)]
     /\ crowded' = (crowded \/ Len(woken) > 1)

-----------------------------------------------------------------------------
(* processInternal. *)

\* updateTotalCounts: the row of the task, as this processor knows it, is rewritten.
Totals(t) ==
  /\ proc[t] = "totals"
  /\ proc' = [proc EXCEPT ![t] = "chunk"]
  /\ row' = [row EXCEPT ![t] = "running"]
  /\ UNCHANGED <<filters, startVars, workVars, cancelled, lockVars, cancel, storeVars,
                 alive, boundVars, pastVars>>

\* The tables of a chunk, from the k-th on, that have something to rewrite.
ToRewrite(t, k) == {j \in k..Len(Tables) :
                      /\ ~Skipped(Tables[j], day[t])
                      /\ PartitionOf(Tables[j], day[t]) \notin monthsDone[t]}

\* The first of them, or the end of the chunk.
NextTable(t, k) ==
  IF ToRewrite(t, k) = {} THEN Len(Tables) + 1
  ELSE CHOOSE j \in ToRewrite(t, k) : \A i \in ToRewrite(t, k) : j <= i

GoToTable(t, k) ==
  /\ table' = [table EXCEPT ![t] = NextTable(t, k)]
  /\ proc' = [proc EXCEPT ![t] = IF NextTable(t, k) > Len(Tables) THEN "progress"
                                                                  ELSE "submit"]

ChunkLeft(t) == day[t] \in Days /\ t \notin cancelled

BeginChunk(t) ==
  /\ proc[t] = "chunk"
  /\ ChunkLeft(t)
  /\ row' = [row EXCEPT ![t] = "running"]
  /\ GoToTable(t, 1)
  /\ UNCHANGED <<filters, startVars, day, monthsDone, cancelled, lockVars, cancel,
                 storeVars, alive, boundVars, pastVars>>

\* acquireMutationSlot, then ALTER TABLE ... UPDATE ... IN PARTITION.
Submit(t) ==
  /\ proc[t] = "submit"
  /\ proc' = [proc EXCEPT ![t] = "wait"]
  /\ mutations' = Append(mutations,
                    [part |-> PartitionOf(Tables[table[t]], day[t]), by |-> t])
  /\ submitted' = submitted \cup {t}
  /\ UNCHANGED <<filters, startVars, row, workVars, cancelled, lockVars, cancel, data,
                 applied, alive, boundVars, pastVars>>

\* waitForMutations sees no unfinished mutation of the table, whoever's it was.
WaitNotNeeded(t) == TRUE
WaitOver(t) ==
  \A k \in DOMAIN mutations : mutations[k].part[1] # Tables[table[t]]

WaitEnds(t) ==
  /\ proc[t] = "wait"
  /\ WaitOver(t)
  /\ monthsDone' = [monthsDone EXCEPT ![t] =
                      IF Tables[table[t]] = "events" THEN @
                      ELSE @ \cup {PartitionOf(Tables[table[t]], day[t])}]
  /\ GoToTable(t, table[t] + 1)
  /\ UNCHANGED <<filters, startVars, row, day, cancelled, lockVars, cancel, storeVars,
                 alive, boundVars, pastVars>>

EndChunk(t) ==
  /\ proc[t] = "progress"
  /\ row' = [row EXCEPT ![t] = "running"]
  /\ proc' = [proc EXCEPT ![t] = "chunk"]
  /\ day' = [day EXCEPT ![t] = @ + ChunkSize]
  /\ UNCHANGED <<filters, startVars, table, monthsDone, cancelled, lockVars, cancel,
                 storeVars, alive, boundVars, pastVars>>

\* No chunk is left, or the processor is cancelled: process() ends and its caller
\* looks at the flag.
EndChunks(t) ==
  /\ proc[t] = "chunk"
  /\ ~ChunkLeft(t)
  /\ EndProcess(t, IF t \in cancelled THEN "cancelling" ELSE "completing")
  /\ UNCHANGED <<filters, startVars, row, workVars, cancelled, cancel, storeVars,
                 alive, boundVars, robbed, overlapped, unsaved>>

\* A query, a command or the slot check fails, or waitForMutations times out (which
\* kills once before the error is thrown).  updateTotalCounts and the validation of
\* the filters are outside the block that kills.
Error(t) ==
  /\ faults < MaxFaults
  /\ faults' = faults + 1
  /\ \/ /\ proc[t] = "totals"
        /\ EndProcess(t, "failing")
     \/ /\ proc[t] \in {"submit", "wait", "progress"} \/ (proc[t] = "chunk" /\ ChunkLeft(t))
        /\ \/ proc' = [proc EXCEPT ![t] = "kill"]
           \/ /\ proc[t] = "wait"
              /\ proc' = [proc EXCEPT ![t] = "timeout"]
        /\ UNCHANGED <<lockVars, crowded>>
  /\ UNCHANGED <<filters, startVars, row, workVars, cancelled, cancel, storeVars, alive,
                 edits, robbed, overlapped, unsaved>>

-----------------------------------------------------------------------------
(* killWorkspaceMutations, the end of a processor, cancelTask. *)

\* Mutations of a table are executed in the order of their submission.
Executing == {k \in DOMAIN mutations :
                \A j \in 1..k - 1 : mutations[j].part[1] # mutations[k].part[1]}

\* Every unfinished mutation of the workspace is dropped, on behalf of t; those that
\* were executing may leave their partitions half rewritten.
Kill(t) ==
  /\ mutations' = <<>>
  /\ robbed' = robbed \cup ({mutations[k].by : k \in DOMAIN mutations} \ {t})
  /\ \E half \in SUBSET {mutations[k] : k \in Executing} :
        data' = [p \in Partition |->
                   IF \E m \in half : m.part = p /\ data[p] # snapshot[m.by]
                   THEN Mixed ELSE data[p]]

KillOnError(t) ==
  /\ \/ /\ proc[t] = "timeout"
        /\ proc' = [proc EXCEPT ![t] = "kill"]
        /\ UNCHANGED <<lockVars, crowded>>
     \/ /\ proc[t] = "kill"
        /\ EndProcess(t, "failing")
  /\ Kill(t)
  /\ UNCHANGED <<filters, startVars, row, workVars, cancelled, cancel, submitted, applied,
                 alive, boundVars, overlapped, unsaved>>

\* updateTaskStatusWithRetry, then the finally block of the spawner.  When five
\* attempts fail, 'completed' and 'cancelled' turn to 'failed'; when those fail too
\* the row stays as it is.
StatusAfter(t) ==
  CASE proc[t] = "completing" -> "completed"
    [] proc[t] = "cancelling" -> "cancelled"
    [] proc[t] = "failing" -> "failed"

WriteStatus(t) ==
  /\ proc[t] \in Ending
  /\ \/ /\ row' = [row EXCEPT ![t] = StatusAfter(t)]
        /\ proc' = [proc EXCEPT ![t] = "gone"]
        /\ UNCHANGED <<faults, unsaved>>
     \/ /\ faults < MaxFaults
        /\ faults' = faults + 1
        /\ proc' = [proc EXCEPT ![t] = IF @ = "failing" THEN "gone" ELSE "failing"]
        /\ unsaved' = IF proc[t] = "failing" THEN unsaved \cup {t} ELSE unsaved
        /\ UNCHANGED row
  /\ UNCHANGED <<filters, startVars, workVars, cancelled, lockVars, cancel, storeVars,
                 alive, edits, robbed, crowded, overlapped>>

Process(t) ==
  /\ alive
  /\ \/ Totals(t) \/ BeginChunk(t) \/ Submit(t) \/ WaitEnds(t) \/ EndChunk(t)
     \/ EndChunks(t) \/ KillOnError(t) \/ WriteStatus(t)

CancelReads(t) ==
  /\ alive /\ cancel[t] = "idle" /\ t \in Cancellable
  /\ row[t] # "none"
  /\ cancel' = [cancel EXCEPT ![t] = IF row[t] \in Terminal THEN "rejected" ELSE "read"]
  /\ UNCHANGED <<filters, startVars, row, proc, workVars, cancelled, lockVars,
                 storeVars, alive, boundVars, pastVars>>

\* The flag is raised before the mutations are killed.
FlagNobody(t) == cancelled
FlagProcessor(t) == cancelled \cup {t}

CancelActs(t) ==
  /\ alive /\ cancel[t] = "read"
  /\ \/ /\ t \in Running
        /\ cancelled' = FlagProcessor(t)
        /\ cancel' = [cancel EXCEPT ![t] = "kill"]
     \/ /\ t \notin Running
        /\ cancel' = [cancel EXCEPT ![t] = "write"]
        /\ UNCHANGED cancelled
  /\ UNCHANGED <<filters, startVars, row, proc, workVars, lockVars, storeVars, alive,
                 boundVars, pastVars>>

CancelKills(t) ==
  /\ alive /\ cancel[t] = "kill"
  /\ cancel' = [cancel EXCEPT ![t] = "write"]
  /\ Kill(t)
  /\ UNCHANGED <<filters, startVars, row, proc, workVars, cancelled, lockVars, submitted,
                 applied, alive, boundVars, crowded, overlapped, unsaved>>

\* The status is overridden in a copy of the row that was read.
StatusOfCancel(t) == "cancelled"

CancelWrites(t) ==
  /\ alive /\ cancel[t] = "write"
  /\ cancel' = [cancel EXCEPT ![t] = "done"]
  /\ row' = [row EXCEPT ![t] = StatusOfCancel(t)]
  /\ UNCHANGED <<filters, startVars, proc, workVars, cancelled, lockVars, storeVars,
                 alive, boundVars, pastVars>>

-----------------------------------------------------------------------------
(* The surroundings. *)

\* ClickHouse finishes a mutation; it goes on doing so while the API is down.
MutationRuns ==
  \E k \in Executing :
     LET m == mutations[k]
     IN /\ mutations' = SubSeq(mutations, 1, k - 1) \o SubSeq(mutations, k + 1, Len(mutations))
        /\ data' = [data EXCEPT ![m.part] = snapshot[m.by]]
        /\ applied' = [applied EXCEPT ![m.by] = @ \cup {m.part}]
        /\ UNCHANGED <<filters, startVars, row, proc, workVars, cancelled, lockVars,
                       cancel, submitted, alive, boundVars, pastVars>>

\* FiltersService saves the workspace with other filters.
EditFilters ==
  /\ alive
  /\ edits < MaxEdits
  /\ edits' = edits + 1
  /\ \E v \in Versions \ {filters} : filters' = v
  /\ UNCHANGED <<startVars, row, proc, workVars, cancelled, lockVars, cancel, storeVars,
                 alive, faults, pastVars>>

\* The process dies: everything it held in memory is gone, the rows are not.
Crash ==
  /\ alive
  /\ faults < MaxFaults
  /\ faults' = faults + 1
  /\ alive' = FALSE
  /\ call' = [t \in Tasks |-> IF call[t] \in {"read", "admitted"} THEN "broken"
                                                                 ELSE call[t]]
  /\ scheduled' = <<>>
  /\ proc' = [t \in Tasks |-> IF t \in Running \/ (call[t] = "started" /\ proc[t] = "none")
                              THEN "lost" ELSE proc[t]]
  /\ cancelled' = {}
  /\ lock' = NoTask
  /\ awaiting' = [t \in Tasks |-> <<>>]
  /\ cancel' = [t \in Tasks |-> IF cancel[t] \in {"read", "kill", "write"}
                                THEN "broken" ELSE cancel[t]]
  /\ UNCHANGED <<filters, snapshot, created, row, workVars, storeVars, edits,
                 pastVars>>

\* onModuleInit, which Nest awaits before it serves requests: running tasks whose row
\* is older than the threshold become failed, younger and pending ones stay.
Restart ==
  /\ ~alive
  /\ alive' = TRUE
  /\ \E stale \in SUBSET {t \in Tasks : row[t] = "running"} :
        row' = [t \in Tasks |-> IF t \in stale THEN "failed" ELSE row[t]]
  /\ UNCHANGED <<filters, startVars, proc, workVars, cancelled, lockVars, cancel,
                 storeVars, boundVars, pastVars>>

Next ==
  \/ \E t \in Tasks : \/ StartReads(t) \/ StartChecks(t) \/ StartInserts(t)
                      \/ Process(t) \/ (alive /\ Error(t))
                      \/ CancelReads(t) \/ CancelActs(t) \/ CancelKills(t)
                      \/ CancelWrites(t)
  \/ Spawn
  \/ MutationRuns
  \/ EditFilters
  \/ Crash
  \/ Restart

Spec == Init /\ [][Next]_vars

\* Timeouts fire, awaited calls return, ClickHouse works on its mutations.  Nobody has
\* to start or cancel anything, and a dead process need not be restarted.
Fairness ==
  /\ WF_vars(Spawn)
  /\ WF_vars(MutationRuns)
  /\ \A t \in Tasks : WF_vars(Process(t))

FairSpec == Spec /\ Fairness

-----------------------------------------------------------------------------
(* What a backfill guarantees. *)

\* backfill.processor.ts:178, "Prevents concurrent backfills on the same workspace":
\* at most one processor is between taking the lock and releasing it.
OneProcessor ==
  \A t, u \in Tasks : proc[t] \in Working /\ proc[u] \in Working => t = u

\* The lock does exclude processors as long as no two ever waited for the same
\* promise: then nobody finds the lock free, or is woken, while another one works.
OneProcessorUnlessCrowded == crowded \/ OneProcessor

\* A task ends as completed only when each partition of its period was rewritten with
\* its filters, whatever cancellations, errors and other tasks did, unless the kill of
\* another task (KILL MUTATION has the scope of a workspace) took a mutation from it.
CompletedIsWhole ==
  \A t \in Tasks : row[t] = "completed" => Scope \subseteq applied[t] \/ t \in robbed

\* When its processor has ended, a task is settled: no late progress row and no late
\* cancellation leaves or makes it active again, which would block every later
\* start.  The exception is a final status that could not be written.
FinishedIsSettled ==
  \A t \in Tasks : proc[t] = "gone" => row[t] \in Terminal \/ t \in unsaved

\* getBackfillSummary.
Completed == {k \in DOMAIN created : row[created[k]] = "completed"}
LastCompleted == created[CHOOSE k \in Completed : \A j \in Completed : k >= j]

NeedsBackfill == Completed = {} \/ snapshot[LastCompleted] # filters

Uniform == \A p \in Scope : data[p] = filters

\* The summary tells the truth: when no backfill is active and none is said to be
\* needed, the data agrees with the filters.
SummaryIsRight == (~Conflict /\ ~NeedsBackfill) => Uniform

\* docs/data-flow-architecture.md:1131, "Staleness is detected by comparing the current
\* filter configuration hash with the snapshot stored in the last completed backfill
\* task".  That tells the truth as long as tasks did not overlap, none lost a mutation to
\* the cancellation of another and each that submitted one was completed, however often
\* the filters were changed in between.  A cancelled task breaks it: change the filters
\* back, and the last completed task matches them while part of the data does not.
SummaryIsRightUndisturbed ==
  \/ SummaryIsRight
  \/ overlapped \/ robbed # {}
  \/ \E t \in submitted : row[t] # "completed"

\* An active task comes to an end, whatever locks it waits for and whoever is cancelled
\* or fails, unless the process dies or a final status could not be written.
BackfillEnds ==
  \A t \in Tasks :
     (alive /\ row[t] \in Active) ~> (~alive \/ row[t] \in Terminal \/ t \in unsaved
                                        \/ proc[t] = "lost")

\* What the row of a task says in the end is true (CompletedIsWhole) and final (FinishedIsSettled).
StatusIsTrue == CompletedIsWhole /\ FinishedIsSettled
=============================================================================
