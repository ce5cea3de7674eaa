------------------------------ MODULE Upgrade ------------------------------
(***************************************************************************)
(* What happens before the API serves: every process runs the migrations    *)
(* (api/src/migrations) under a lock kept in system_settings, one version   *)
(* per start, and exits after each; the supervisor starts it again.  The    *)
(* first visitor then creates the administrator (api/src/setup).             *)
(*                                                                          *)
(* A deletion (ALTER TABLE ... DELETE) is carried out by ClickHouse some     *)
(* time later, on the rows it found.  Only the newest row of a setting       *)
(* counts, and a deletion finds the older ones too: one row is kept here.    *)
(***************************************************************************)
EXTENDS Integers, Sequences, FiniteSets

CONSTANTS
  Processes,      \* instances of the API
  OldWorkspaces,  \* workspaces there are at the beginning
  OldVersions,    \* versions the database may have at the beginning; 0: a new database
  Visitors,       \* bound: calls of setup.initialize
  MaxCrashes,     \* bound: processes that are killed, commands that fail
  MaxCrowds       \* bound: times a process takes the lock while another one migrates

ASSUME UpgradeAssumption == OldVersions \subseteq Nat /\ IsFiniteSet(Processes)

CodeVersion == 6   \* APP_MAJOR_VERSION
VARIABLES
  version,   \* db_major_version, or 0 when there is no such setting
  lock,      \* migration_lock: "none", "held", or "lapsed" once it is older than lockTimeout
  setup,     \* setup_completed
  erasing,   \* the settings whose row a deletion was issued for
  tables,    \* tables of the system database besides system_settings
  known,     \* the workspaces in the table workspaces
  users,     \* rows of users: administrators, each named by the call that created it
  schema,    \* the database of each workspace, or absent
  process,   \* what each process does
  visitor,   \* what each call of setup.initialize does
  crashes, crowds,  \* counted against their bounds
  \* History variables: they record the past and guard nothing.
  crowded,   \* two processes migrated at the same time
  together   \* two calls of setup.initialize overlapped, or a reset fell among them

boot == <<tables, known, users, visitor, together>>
settings == <<version, lock, setup, erasing>>
upVars == <<settings, schema, process, crashes, crowds, crowded, boot>>

SystemTables == {"workspaces", "users"}
Views == {"sessions_mv", "pages_mv", "goals_mv"}

\* A database of a version before 4; one of version 4 or 5, whose tables have no user_id; one that
\* CREATE makes today.
Absent == [is |-> "absent"]
Ancient == [is |-> "ancient"]
OldSchema == [is |-> "current", columns |-> FALSE, views |-> [v \in Views |-> "old"]]
NewSchema == [is |-> "current", columns |-> TRUE, views |-> [v \in Views |-> "new"]]

Down == [at |-> "down"]
Serving == [at |-> "serving"]
Migrating(i) == process[i].at \notin {"down", "serving", "locking"}

UpInit ==
  \E v \in OldVersions :
    /\ version = v /\ setup = (v # 0) /\ lock = "none" /\ erasing = {}
    /\ tables = (IF v = 0 THEN {} ELSE SystemTables)
    /\ users = (IF v = 0 THEN {} ELSE {"first"})
    /\ known = (IF v = 0 THEN {} ELSE OldWorkspaces)
    /\ schema = [w \in OldWorkspaces |->
         IF v = 0 THEN Absent ELSE IF v < 4 THEN Ancient ELSE IF v < 6 THEN OldSchema ELSE NewSchema]
    /\ process = [i \in Processes |-> Down]
    /\ visitor = [s \in Visitors |-> [at |-> "new"]]
    /\ crashes = 0 /\ crowds = 0 /\ crowded = FALSE /\ together = FALSE

-----------------------------------------------------------------------------
\* MigrationsRunner.run

Go(i, q) ==
  /\ process' = [process EXCEPT ![i] = q]
  /\ crowded' = (crowded \/ Cardinality({j \in Processes : j # i /\ Migrating(j)}
                                         \cup (IF q.at \notin {"down", "serving", "locking"}
                                               THEN {i} ELSE {})) > 1)

\* ensureSystemDatabase, then acquireLock reads; the process exits as long as the lock is held.
CheckLock(i) ==
  /\ process[i] = Down /\ lock # "held"
  /\ Go(i, [at |-> "locking"])
  /\ UNCHANGED <<settings, schema, crashes, crowds, boot>>

TakeLock(i) ==
  /\ process[i].at = "locking"
  /\ crowds' = crowds + (IF \E j \in Processes : Migrating(j) THEN 1 ELSE 0) /\ crowds' <= MaxCrowds
  /\ lock' = "held" /\ erasing' = erasing \ {"lock"}
  /\ Go(i, [at |-> "version"])
  /\ UNCHANGED <<version, setup, schema, crashes, boot>>

\* What is left of a migration: system, listing, workspace, done in this order.
Release(next) == [at |-> "release", next |-> next]
Chosen(v) ==
  IF v = 0 THEN [at |-> "record", version |-> CodeVersion, next |-> Serving]  \* "Fresh install"
  ELSE IF v = CodeVersion THEN Release(Serving)
  ELSE IF v \in 3..CodeVersion - 1 THEN [at |-> "system", version |-> v + 1]
  ELSE Release(Down)    \* no such migration, or the database is newer: an error

ReadVersion(i) ==
  /\ process[i].at = "version"
  /\ Go(i, Chosen(version))
  /\ UNCHANGED <<settings, schema, crashes, crowds, boot>>

\* V4: every table is dropped; in system_settings everything but the lock is deleted.
ResetSystem(i) ==
  /\ process[i].at = "system" /\ process[i].version = 4
  /\ \/ \E t \in tables : tables' = tables \ {t} /\ UNCHANGED <<erasing, process, crowded>>
     \/ /\ tables = {}
        /\ erasing' = erasing \cup {"version", "setup"}
        /\ Go(i, [process[i] EXCEPT !.at = "listing"])
        /\ UNCHANGED tables
  /\ users' = (IF "users" \in tables' THEN users ELSE {})
  /\ known' = (IF "workspaces" \in tables' THEN known ELSE {})
  /\ together' = TRUE
  /\ UNCHANGED <<version, lock, setup, schema, crashes, crowds, visitor>>

\* V5 creates a table of the system database that is not among SystemTables; V6 has nothing here.
MigrateSystem(i) ==
  /\ process[i].at = "system" /\ process[i].version # 4
  /\ Go(i, [process[i] EXCEPT !.at = IF process[i].version = 5 THEN "record" ELSE "listing"])
  /\ UNCHANGED <<settings, schema, crashes, crowds, boot>>

\* getWorkspaces reads the table workspaces; it is an error when that was dropped.
ListWorkspaces(i) ==
  /\ process[i].at = "listing"
  /\ Go(i, IF "workspaces" \notin tables THEN Release(Down)
           ELSE [at |-> "workspace", version |-> process[i].version,
                 left |-> known, step |-> 1])
  /\ UNCHANGED <<settings, schema, crashes, crowds, boot>>

Commands6NoDrop ==   \* mutant: the first view is not dropped before it is created
  <<[do |-> "add", what |-> "user_id"], [do |-> "create", what |-> "sessions_mv"],
    [do |-> "drop", what |-> "pages_mv"], [do |-> "create", what |-> "pages_mv"],
    [do |-> "drop", what |-> "goals_mv"], [do |-> "create", what |-> "goals_mv"]>>
\* The commands of V6 for one workspace, in their order; those that add columns count as one.
Commands6 ==
  <<[do |-> "add", what |-> "user_id"],
    [do |-> "drop", what |-> "sessions_mv"], [do |-> "create", what |-> "sessions_mv"],
    [do |-> "drop", what |-> "pages_mv"], [do |-> "create", what |-> "pages_mv"],
    [do |-> "drop", what |-> "goals_mv"], [do |-> "create", what |-> "goals_mv"]>>

\* ADD COLUMN IF NOT EXISTS, DROP VIEW IF EXISTS, CREATE MATERIALIZED VIEW.
Applied(db, c) ==
  CASE c.do = "add" -> [db EXCEPT !.columns = TRUE]
    [] c.do = "drop" -> [db EXCEPT !.views[c.what] = "absent"]
    [] c.do = "create" -> [db EXCEPT !.views[c.what] = "new"]
Possible(db, c) == /\ db.is = "current"
                   /\ c.do = "create" => db.views[c.what] = "absent"   \* it has no IF NOT EXISTS

NextWorkspaceHasten(q, w, n) ==   \* mutant: stops after the first workspace
  IF q.step < n THEN [q EXCEPT !.step = @ + 1] ELSE [q EXCEPT !.left = {}, !.step = 1]
NextWorkspace(q, w, n) ==
  IF q.step < n THEN [q EXCEPT !.step = @ + 1] ELSE [q EXCEPT !.left = @ \ {w}, !.step = 1]

\* The workspaces take their turns; each is finished before the next.
NextLeft(q) == CHOOSE w \in q.left : TRUE

MigrateWorkspace(i) ==
  /\ process[i].at = "workspace" /\ process[i].left # {}
  /\ LET q == process[i]
         w == NextLeft(q)
     IN  IF q.version = 4
         THEN schema' = [schema EXCEPT ![w] = Absent] /\ Go(i, NextWorkspace(q, w, 1))
         ELSE IF Possible(schema[w], Commands6[q.step])
         THEN /\ schema' = [schema EXCEPT ![w] = Applied(@, Commands6[q.step])]
              /\ Go(i, NextWorkspace(q, w, Len(Commands6)))
         ELSE UNCHANGED schema /\ Go(i, Release(Down))
  /\ UNCHANGED <<settings, crashes, crowds, boot>>

WorkspacesDone(i) ==
  /\ process[i].at = "workspace" /\ process[i].left = {}
  /\ Go(i, [at |-> "record", version |-> process[i].version])
  /\ UNCHANGED <<settings, schema, crashes, crowds, boot>>

\* After a migration the process exits; with a new database it goes on.
SetVersion(i) ==
  /\ process[i].at = "record"
  /\ version' = process[i].version /\ erasing' = erasing \ {"version"}
  /\ Go(i, Release(IF "next" \in DOMAIN process[i] THEN process[i].next ELSE Down))
  /\ UNCHANGED <<lock, setup, schema, crashes, crowds, boot>>

\* finally: releaseLock deletes the lock, whoever holds it.  A process that goes on starts
\* NestJS, which creates the tables of the system database that are not there.
ReleaseLock(i) ==
  /\ process[i].at = "release"
  /\ erasing' = erasing \cup {"lock"}
  /\ Go(i, process[i].next)
  /\ tables' = IF process[i].next = Serving THEN SystemTables ELSE tables
  /\ UNCHANGED <<version, lock, setup, schema, crashes, crowds, known, users, visitor, together>>

\* The process is killed, or a command fails: a failed command still releases the lock.
Crash(i) ==
  /\ process[i].at \notin {"down", "serving"} /\ crashes < MaxCrashes
  /\ crashes' = crashes + 1
  /\ \/ Go(i, Down)
     \/ Migrating(i) /\ process[i].at # "release" /\ Go(i, Release(Down))
  /\ UNCHANGED <<settings, schema, crowds, boot>>

Erase ==
  /\ erasing # {} /\ erasing' = {}
  /\ version' = (IF "version" \in erasing THEN 0 ELSE version)
  /\ setup' = (setup /\ "setup" \notin erasing)
  /\ lock' = (IF "lock" \in erasing THEN "none" ELSE lock)
  /\ UNCHANGED <<schema, process, crashes, crowds, crowded, boot>>

\* Five minutes have passed; ClickHouse carries out deletions in less.
LapseLock ==
  /\ lock = "held" /\ "lock" \notin erasing /\ lock' = "lapsed"
  /\ UNCHANGED <<version, setup, erasing, schema, process, crashes, crowds, crowded, boot>>

-----------------------------------------------------------------------------
\* SetupService.createInitialAdmin

SetupVisit(s, q) ==
  /\ visitor' = [visitor EXCEPT ![s] = q]
  /\ UNCHANGED <<version, lock, tables, known, schema, process, crashes, crowds, crowded>>

CheckSetup(s) ==   \* isSetupComplete, findByEmail; else BadRequestException
  /\ visitor[s].at = "new" /\ \E i \in Processes : process[i] = Serving
  /\ SetupVisit(s, IF setup THEN [at |-> "refused"] ELSE [at |-> "create"])
  /\ together' = (together \/ \E o \in Visitors : visitor[o].at \in {"create", "mark"})
  /\ UNCHANGED <<setup, erasing, users>>

CreateAdmin(s) ==
  /\ visitor[s].at = "create"
  /\ users' = users \cup {s}
  /\ SetupVisit(s, [at |-> "mark"])
  /\ UNCHANGED <<setup, erasing, together>>

MarkSetup(s) ==
  /\ visitor[s].at = "mark"
  /\ setup' = TRUE /\ erasing' = erasing \ {"setup"}
  /\ SetupVisit(s, [at |-> "done"])
  /\ UNCHANGED <<users, together>>

Work(i) ==
  \/ CheckLock(i) \/ TakeLock(i) \/ ReadVersion(i) \/ ResetSystem(i) \/ MigrateSystem(i)
  \/ ListWorkspaces(i) \/ MigrateWorkspace(i) \/ WorkspacesDone(i) \/ SetVersion(i) \/ ReleaseLock(i)

UpNext ==
  \/ \E i \in Processes : Work(i) \/ Crash(i)
  \/ Erase \/ LapseLock
  \/ \E s \in Visitors : CheckSetup(s) \/ CreateAdmin(s) \/ MarkSetup(s)

UpSpec == UpInit /\ [][UpNext]_upVars

\* The supervisor starts a process that exited, processes run, ClickHouse deletes, time passes.
UpFairSpec ==
  /\ UpSpec
  /\ \A i \in Processes : WF_upVars(Work(i))
  /\ WF_upVars(Erase) /\ WF_upVars(LapseLock)

-----------------------------------------------------------------------------
\* The version of the database is earned: once it says 6, the tables of every workspace that is
\* to be migrated have the column and the views, whatever crashed on the way, unless two
\* processes migrated at the same time (migrations.service.ts, run and executeMigration).
VersionIsEarned ==
  ~crowded /\ version = 6
    => \A w \in OldWorkspaces : schema[w].is = "current" => schema[w] = NewSchema

\* In the end the API serves with a database of its version, whatever crashed holding the lock,
\* unless two processes migrated at the same time.
ComesUp == <>[](crowded \/ \E i \in Processes : process[i] = Serving /\ version = CodeVersion)

\* When setup is marked as complete there is an administrator, and one only if the calls of
\* setup.initialize did not overlap and none of them failed half-way.
OneAdministrator ==
  ~together /\ setup => Cardinality(users) = 1

\* What the database says of itself is true: its version, and that it is set up.
SettingsAreTrue == VersionIsEarned /\ OneAdministrator
=============================================================================
