-------------------------- MODULE Assistant_proofs --------------------------
(***************************************************************************)
(* Proofs about Upgrade, Assistant and Chat.                                *)
(*                                                                          *)
(* Upgrade: what the database says of itself is true, for any number of     *)
(* processes, workspaces and visitors, of crashes and of lapsed locks.  A    *)
(* database that begins at version 4 or later goes up one version at a time  *)
(* (OnCourse): whoever crashes leaves workspaces partly migrated, but the    *)
(* next process goes through all of them again, and the commands of a        *)
(* workspace reach NewSchema from wherever it was (PartlyDone).  One that    *)
(* begins earlier has no workspace left that could be migrated (Hopeless).   *)
(*                                                                          *)
(* Assistant: for any number of jobs and streams, a job runs once (RunInv),  *)
(* and what each client hears keeps the promise of AnswerStream (PromiseInv). *)
(*                                                                          *)
(* Chat: for any number of prompts, conversations and reloads, conversations *)
(* do not mix (ChatInv).  Besides what is kept, localStorage and what        *)
(* setTitle captured hold each turn where it was sent (AllHome), for either  *)
(* may become what is kept; and unless the conversation was changed under a  *)
(* prompt, what is remembered, and every prompt under way, is of the active  *)
(* conversation (OwnHistory).                                                *)
(***************************************************************************)
EXTENDS Upgrade, Assistant, Chat, FiniteSetTheorems, SequenceTheorems, TLAPS

-----------------------------------------------------------------------------
(* Upgrade. *)

Current == [is : {"current"}, columns : BOOLEAN, views : [Views -> {"old", "new", "absent"}]]
Locking == [at |-> "locking"]
AtVersion == [at |-> "version"]
Process == {Down, Serving, Locking, AtVersion, Release(Down), Release(Serving)}
             \cup [at : {"system", "record"}, version : {5, 6}]
             \cup [at : {"listing"}, version : {6}]
             \cup [at : {"workspace"}, version : {6}, left : SUBSET OldWorkspaces, step : 1..7]

\* What the commands of V6 before step k have made of a workspace.
PartlyDone(db, k) ==
  /\ k > 1 => db.columns = TRUE
  /\ k = 3 => db.views["sessions_mv"] = "absent"
  /\ k > 3 => db.views["sessions_mv"] = "new"
  /\ k = 5 => db.views["pages_mv"] = "absent"
  /\ k > 5 => db.views["pages_mv"] = "new"
  /\ k = 7 => db.views["goals_mv"] = "absent"

\* A process at q is where it should be, with the database at version v and the schemas sch.
OnCourse(q, v, sch) ==
  /\ q.at \in {"system", "listing", "workspace", "record"} => q.version = v + 1
  /\ q.at = "workspace" =>
       /\ \A w \in OldWorkspaces \ q.left : sch[w] = NewSchema
       /\ q.left # {} => PartlyDone(sch[NextLeft(q)], q.step)
  /\ q.at = "record" /\ q.version = 6 => \A w \in OldWorkspaces : sch[w] = NewSchema

Undisturbed ==
  /\ \A i, j \in Processes : Migrating(i) /\ Migrating(j) => i = j
  /\ \A i \in Processes : OnCourse(process[i], version, schema)
  /\ version = 6 => \A w \in OldWorkspaces : schema[w] = NewSchema

Good ==
  /\ known = OldWorkspaces /\ tables = SystemTables
  /\ version \in Nat /\ version >= 4 /\ "version" \notin erasing
  /\ schema \in [OldWorkspaces -> Current]
  /\ process \in [Processes -> Process]
  /\ crowded \in BOOLEAN
  /\ ~crowded => Undisturbed

\* No workspace can be migrated.
Hopeless == schema \in [OldWorkspaces -> {Absent, Ancient}]

-----------------------------------------------------------------------------
\* The states of a process differ.
LEMMA ProcessesDiffer ==
  ASSUME NEW q \in Process
  PROVE  /\ q.at = "down" <=> q = Down
         /\ q.at = "serving" <=> q = Serving
         /\ q.at = "version" <=> q = AtVersion
         /\ q.at = "release" <=> q \in {Release(Down), Release(Serving)}
         /\ q.at \in {"system", "record"} <=> q \in [at : {"system", "record"}, version : {5, 6}]
         /\ q.at = "listing" <=> q \in [at : {"listing"}, version : {6}]
         /\ q.at = "workspace" <=>
              q \in [at : {"workspace"}, version : {6}, left : SUBSET OldWorkspaces, step : 1..7]
<1> DEFINE Moved == [at : {"system", "record"}, version : {5, 6}]
           Listing == [at : {"listing"}, version : {6}]
           Busy == [at : {"workspace"}, version : {6}, left : SUBSET OldWorkspaces, step : 1..7]
<1>1. /\ Down.at = "down" /\ Serving.at = "serving" /\ Locking.at = "locking" /\ AtVersion.at = "version"
      /\ Release(Down).at = "release" /\ Release(Serving).at = "release"
  BY DEF Down, Serving, Locking, AtVersion, Release
<1>2. \A r \in Moved : r.at \in {"system", "record"}
  OBVIOUS
<1>3. \A r \in Listing : r.at = "listing"
  OBVIOUS
<1>4. \A r \in Busy : r.at = "workspace"
  OBVIOUS
<1>5. q \in {Down, Serving, Locking, AtVersion, Release(Down), Release(Serving)} \cup Moved \cup Listing \cup Busy
  BY DEF Process
<1> HIDE DEF Moved, Listing, Busy
<1>6. q.at = "down" <=> q = Down
  BY <1>1, <1>2, <1>3, <1>4, <1>5
<1>7. q.at = "serving" <=> q = Serving
  BY <1>1, <1>2, <1>3, <1>4, <1>5
<1>8. q.at = "version" <=> q = AtVersion
  BY <1>1, <1>2, <1>3, <1>4, <1>5
<1>9. q.at = "release" <=> q \in {Release(Down), Release(Serving)}
  BY <1>1, <1>2, <1>3, <1>4, <1>5
<1>10. q.at \in {"system", "record"} <=> q \in Moved
  BY <1>1, <1>2, <1>3, <1>4, <1>5
<1>11. q.at = "listing" <=> q \in Listing
  BY <1>1, <1>2, <1>3, <1>4, <1>5
<1>12. q.at = "workspace" <=> q \in Busy
  BY <1>1, <1>2, <1>3, <1>4, <1>5
<1> QED BY <1>6, <1>7, <1>8, <1>9, <1>10, <1>11, <1>12 DEF Moved, Listing, Busy

\* Who takes a step is alone, or the database is crowded from then on.
LEMMA Alone ==
  ASSUME process \in [Processes -> Process], NEW i \in Processes, NEW q \in Process, Go(i, q), crowded \in BOOLEAN, ~crowded'
  PROVE  /\ ~crowded
         /\ q.at \notin {"down", "serving", "locking"} => \A j \in Processes \ {i} : ~Migrating(j)
<1> DEFINE others == {j \in Processes : j # i /\ Migrating(j)}
<1>1. ~crowded
  BY DEF Go
<1>2. ASSUME q.at \notin {"down", "serving", "locking"}, NEW j \in Processes \ {i}, Migrating(j) PROVE FALSE
  <2>1. ~(Cardinality(others \cup {i}) > 1)
    BY <1>2 DEF Go
  <2>2. IsFiniteSet(others) /\ i \notin others /\ j \in others
    BY <1>2, UpgradeAssumption, FS_Subset
  <2>3. Cardinality(others \cup {i}) = Cardinality(others) + 1 /\ Cardinality(others) \in Nat
    BY <2>2, FS_AddElement, FS_CardinalityType
  <2>4. Cardinality(others) # 0
    BY <2>2, FS_EmptySet
  <2> QED BY <2>1, <2>3, <2>4
<1> QED BY <1>1, <1>2

\* A step of process i to q that leaves the version and the schemas alone.
LEMMA QuietBoot ==
  ASSUME Good, NEW i \in Processes, NEW q \in Process, Go(i, q),
         UNCHANGED <<version, schema, known, tables>>, "version" \notin erasing',
         ~crowded => OnCourse(q, version, schema)
  PROVE  Good'
<1>1. process' = [process EXCEPT ![i] = q] /\ crowded' \in BOOLEAN
  BY DEF Go, Good
<1>2. process' \in [Processes -> Process] /\ process'[i] = q /\ \A j \in Processes \ {i} : process'[j] = process[j]
  BY <1>1 DEF Good
<1>3. ASSUME ~crowded' PROVE Undisturbed'
  <2>1. /\ ~crowded
        /\ q.at \notin {"down", "serving", "locking"} => \A j \in Processes \ {i} : ~Migrating(j)
    BY <1>3, Alone DEF Good
  <2>2. Undisturbed
    BY <2>1 DEF Good
  <2>3. \A j, k \in Processes : Migrating(j)' /\ Migrating(k)' => j = k
    BY <1>2, <2>1, <2>2 DEF Migrating, Undisturbed
  <2>4. \A j \in Processes : OnCourse(process'[j], version', schema')
    BY <1>2, <2>1, <2>2 DEF Undisturbed
  <2> QED BY <2>2, <2>3, <2>4 DEF Undisturbed
<1> QED BY <1>1, <1>2, <1>3 DEF Good

\* A view of a workspace is replaced, or dropped.
LEMMA ViewChanges ==
  ASSUME NEW db \in Current, NEW v \in Views, NEW x \in {"new", "absent"}
  PROVE  LET r == [db EXCEPT !.views[v] = x]
         IN  /\ r \in Current /\ r.columns = db.columns /\ r.views[v] = x
             /\ \A u \in Views \ {v} : r.views[u] = db.views[u]
BY DEF Current

\* A workspace that the commands before step k have changed, and command k then changes.
LEMMA CommandsAddUp ==
  ASSUME NEW db \in Current, NEW k \in 1..7, PartlyDone(db, k), Possible(db, Commands6[k])
  PROVE  /\ Applied(db, Commands6[k]) \in Current
         /\ k < 7 => PartlyDone(Applied(db, Commands6[k]), k + 1)
         /\ k = 7 => Applied(db, Commands6[k]) = NewSchema
<1>1. CASE k = 1
  <2>1. Applied(db, Commands6[k]) = [db EXCEPT !.columns = TRUE]
    BY <1>1 DEF Applied, Commands6
  <2>2. PICK r : r = [db EXCEPT !.columns = TRUE]
    OBVIOUS
  <2>3. r \in Current /\ r.columns = TRUE
    BY <2>2 DEF Current
  <2>4. PartlyDone(r, 2)
    BY <2>3 DEF PartlyDone
  <2> QED BY <1>1, <2>1, <2>2, <2>3, <2>4
<1>2. CASE k = 2
  <2>1. Applied(db, Commands6[k]) = [db EXCEPT !.views["sessions_mv"] = "absent"]
    BY <1>2 DEF Applied, Commands6
  <2>2. PICK r : r = [db EXCEPT !.views["sessions_mv"] = "absent"]
    OBVIOUS
  <2>3. /\ r \in Current /\ r.columns = db.columns /\ r.views["sessions_mv"] = "absent"
        /\ \A u \in Views \ {"sessions_mv"} : r.views[u] = db.views[u]
    BY <2>2, ViewChanges DEF Views
  <2>4. PartlyDone(r, 3)
    BY <1>2, <2>3 DEF PartlyDone, Views
  <2> QED BY <1>2, <2>1, <2>2, <2>3, <2>4
<1>3. CASE k = 3
  <2>1. Applied(db, Commands6[k]) = [db EXCEPT !.views["sessions_mv"] = "new"]
    BY <1>3 DEF Applied, Commands6
  <2>2. PICK r : r = [db EXCEPT !.views["sessions_mv"] = "new"]
    OBVIOUS
  <2>3. /\ r \in Current /\ r.columns = db.columns /\ r.views["sessions_mv"] = "new"
        /\ \A u \in Views \ {"sessions_mv"} : r.views[u] = db.views[u]
    BY <2>2, ViewChanges DEF Views
  <2>4. PartlyDone(r, 4)
    BY <1>3, <2>3 DEF PartlyDone, Views
  <2> QED BY <1>3, <2>1, <2>2, <2>3, <2>4
<1>4. CASE k = 4
  <2>1. Applied(db, Commands6[k]) = [db EXCEPT !.views["pages_mv"] = "absent"]
    BY <1>4 DEF Applied, Commands6
  <2>2. PICK r : r = [db EXCEPT !.views["pages_mv"] = "absent"]
    OBVIOUS
  <2>3. /\ r \in Current /\ r.columns = db.columns /\ r.views["pages_mv"] = "absent"
        /\ \A u \in Views \ {"pages_mv"} : r.views[u] = db.views[u]
    BY <2>2, ViewChanges DEF Views
  <2>4. PartlyDone(r, 5)
    BY <1>4, <2>3 DEF PartlyDone, Views
  <2> QED BY <1>4, <2>1, <2>2, <2>3, <2>4
<1>5. CASE k = 5
  <2>1. Applied(db, Commands6[k]) = [db EXCEPT !.views["pages_mv"] = "new"]
    BY <1>5 DEF Applied, Commands6
  <2>2. PICK r : r = [db EXCEPT !.views["pages_mv"] = "new"]
    OBVIOUS
  <2>3. /\ r \in Current /\ r.columns = db.columns /\ r.views["pages_mv"] = "new"
        /\ \A u \in Views \ {"pages_mv"} : r.views[u] = db.views[u]
    BY <2>2, ViewChanges DEF Views
  <2>4. PartlyDone(r, 6)
    BY <1>5, <2>3 DEF PartlyDone, Views
  <2> QED BY <1>5, <2>1, <2>2, <2>3, <2>4
<1>6. CASE k = 6
  <2>1. Applied(db, Commands6[k]) = [db EXCEPT !.views["goals_mv"] = "absent"]
    BY <1>6 DEF Applied, Commands6
  <2>2. PICK r : r = [db EXCEPT !.views["goals_mv"] = "absent"]
    OBVIOUS
  <2>3. /\ r \in Current /\ r.columns = db.columns /\ r.views["goals_mv"] = "absent"
        /\ \A u \in Views \ {"goals_mv"} : r.views[u] = db.views[u]
    BY <2>2, ViewChanges DEF Views
  <2>4. PartlyDone(r, 7)
    BY <1>6, <2>3 DEF PartlyDone, Views
  <2> QED BY <1>6, <2>1, <2>2, <2>3, <2>4
<1>7. CASE k = 7
  <2>1. Applied(db, Commands6[k]) = [db EXCEPT !.views["goals_mv"] = "new"]
    BY <1>7 DEF Applied, Commands6
  <2>2. PICK r : r = [db EXCEPT !.views["goals_mv"] = "new"]
    OBVIOUS
  <2>3. /\ r \in Current /\ r.columns = db.columns /\ r.views["goals_mv"] = "new"
        /\ \A u \in Views \ {"goals_mv"} : r.views[u] = db.views[u]
    BY <2>2, ViewChanges DEF Views
  <2>4. r.columns = TRUE /\ \A u \in Views : r.views[u] = "new"
    BY <1>7, <2>3 DEF PartlyDone, Views
  <2>5. r = NewSchema
    BY <2>3, <2>4 DEF Current, NewSchema
  <2> QED BY <1>7, <2>1, <2>2, <2>3, <2>5
<1> QED BY <1>1, <1>2, <1>3, <1>4, <1>5, <1>6, <1>7
\* A command leaves the form of a schema.
LEMMA CommandsKeepForm ==
  ASSUME NEW db \in Current, NEW k \in 1..7
  PROVE  Applied(db, Commands6[k]) \in Current
<1>1. CASE k = 1
  BY <1>1 DEF Applied, Commands6, Current
<1>2. CASE k > 1
  <2>1. PICK v \in Views, x \in {"new", "absent"} : Applied(db, Commands6[k]) = [db EXCEPT !.views[v] = x]
    BY <1>2 DEF Applied, Commands6, Views
  <2>2. [db EXCEPT !.views[v] = x] \in Current
    BY ViewChanges
  <2> QED BY <2>1, <2>2
<1> QED BY <1>1, <1>2

\* The next workspace depends on what is left only.
LEMMA NextIsLeft ==
  ASSUME NEW q, q.left # {}
  PROVE  NextLeft(q) \in q.left /\ \A r : r.left = q.left => NextLeft(r) = NextLeft(q)
BY DEF NextLeft

\* Where nothing is asked of a process.
LEMMA IdleIsOnCourse ==
  ASSUME NEW q \in {Down, Serving, Locking, AtVersion, Release(Down), Release(Serving)}, NEW v, NEW sch
  PROVE  q \in Process /\ OnCourse(q, v, sch)
<1>1. q \in Process
  BY DEF Process
<1>2. q.at \notin {"system", "listing", "workspace", "record"}
  <2>1. /\ Down.at = "down" /\ Serving.at = "serving" /\ Locking.at = "locking" /\ AtVersion.at = "version"
        /\ Release(Down).at = "release" /\ Release(Serving).at = "release"
    BY DEF Down, Serving, Locking, AtVersion, Release
  <2> QED BY <2>1
<1> QED BY <1>1, <1>2 DEF OnCourse

\* The same for the beginning of a workspace.
LEMMA FirstIsOnCourse == ASSUME NEW db PROVE PartlyDone(db, 1)
BY DEF PartlyDone

\* The steps of a process that leave the schemas and the version alone.
LEMMA GoodQuietSteps ==
  ASSUME Good, NEW i \in Processes,
         \/ CheckLock(i) \/ TakeLock(i) \/ ReadVersion(i) \/ MigrateSystem(i) \/ ListWorkspaces(i)
         \/ WorkspacesDone(i) \/ ReleaseLock(i) \/ Crash(i)
  PROVE  Good'
<1>1. /\ process[i] \in Process /\ version \in Nat /\ version >= 4 /\ "version" \notin erasing
      /\ ~crowded => OnCourse(process[i], version, schema)
  BY DEF Good, Undisturbed
<1>2. CASE CheckLock(i)
  <2>1. Locking \in Process /\ OnCourse(Locking, version, schema)
    BY DEF Process, OnCourse, Locking
  <2> QED BY <1>1, <1>2, <2>1, QuietBoot DEF CheckLock, Locking, boot, settings
<1>3. CASE TakeLock(i)
  <2>1. AtVersion \in Process /\ OnCourse(AtVersion, version, schema)
    BY DEF Process, OnCourse, AtVersion
  <2>2. Go(i, AtVersion) /\ UNCHANGED <<version, schema, known, tables>> /\ "version" \notin erasing'
    BY <1>1, <1>3 DEF TakeLock, AtVersion, boot
  <2> QED BY <2>1, <2>2, QuietBoot
<1>4. CASE ReadVersion(i)
  <2>1. Chosen(version) \in Process /\ OnCourse(Chosen(version), version, schema)
    <3>1. CASE version = 6 \/ version > 6
      <4>1. PICK q \in {Release(Serving), Release(Down)} : Chosen(version) = q
        BY <1>1, <3>1 DEF Chosen, CodeVersion
      <4> QED BY <4>1, IdleIsOnCourse
    <3>2. CASE version \in 4..5
      <4>1. PICK v \in {5, 6} : v = version + 1
        BY <3>2
      <4>2. PICK q : q = [at |-> "system", version |-> v]
        OBVIOUS
      <4>3. Chosen(version) = q
        BY <1>1, <3>2, <4>1, <4>2 DEF Chosen, CodeVersion
      <4>4. q \in Process /\ OnCourse(q, version, schema)
        BY <4>1, <4>2 DEF Process, OnCourse
      <4> QED BY <4>3, <4>4
    <3> QED BY <1>1, <3>1, <3>2
  <2> QED BY <1>1, <1>4, <2>1, QuietBoot DEF ReadVersion, boot, settings
<1>5. CASE MigrateSystem(i)
  <2>1. process[i] \in [at : {"system", "record"}, version : {5, 6}]
    BY <1>1, <1>5, ProcessesDiffer DEF MigrateSystem
  <2>2. PICK q : q = [process[i] EXCEPT !.at = IF process[i].version = 5 THEN "record" ELSE "listing"]
    OBVIOUS
  <2>3. Go(i, q) /\ UNCHANGED <<settings, schema, boot>> /\ process[i].at = "system"
    BY <1>5, <2>2 DEF MigrateSystem
  <2>4. /\ q.version = process[i].version
        /\ q \in [at : {"record"}, version : {5}] \/ q \in [at : {"listing"}, version : {6}]
    BY <2>1, <2>2
  <2>5. q \in Process
    BY <2>4 DEF Process
  <2>6. ~crowded => OnCourse(q, version, schema)
    <3>1. ~crowded => q.version = version + 1
      BY <1>1, <2>3, <2>4 DEF OnCourse
    <3>2. q.at # "workspace" /\ ~(q.at = "record" /\ q.version = 6)
      BY <2>4
    <3> QED BY <3>1, <3>2 DEF OnCourse
  <2> QED BY <1>1, <2>3, <2>5, <2>6, QuietBoot DEF boot, settings
<1>6. CASE ListWorkspaces(i)
  <2>1. process[i].version = 6
    BY <1>1, <1>6, ProcessesDiffer DEF ListWorkspaces
  <2>2. PICK q : q = [at |-> "workspace", version |-> 6, left |-> known, step |-> 1]
    OBVIOUS
  <2>3. Go(i, q) /\ UNCHANGED <<settings, schema, boot>> /\ process[i].at = "listing"
    BY <1>6, <2>1, <2>2 DEF ListWorkspaces, Good, SystemTables
  <2>4. q \in Process /\ q.at = "workspace" /\ q.version = 6 /\ q.left = OldWorkspaces /\ q.step = 1
    BY <2>2 DEF Process, Good
  <2>5. ~crowded => OnCourse(q, version, schema)
    <3>1. ~crowded => q.version = version + 1
      BY <1>1, <2>1, <2>3, <2>4 DEF OnCourse
    <3>2. PartlyDone(schema[NextLeft(q)], q.step)
      BY <2>4, FirstIsOnCourse
    <3> QED BY <2>4, <3>1, <3>2 DEF OnCourse
  <2> QED BY <1>1, <2>3, <2>4, <2>5, QuietBoot DEF boot, settings
<1>7. CASE WorkspacesDone(i)
  <2>1. process[i].version = 6
    BY <1>1, <1>7, ProcessesDiffer DEF WorkspacesDone
  <2>2. PICK q : q = [at |-> "record", version |-> 6]
    OBVIOUS
  <2>3. Go(i, q) /\ UNCHANGED <<settings, schema, boot>> /\ process[i].at = "workspace" /\ process[i].left = {}
    BY <1>7, <2>1, <2>2 DEF WorkspacesDone
  <2>4. q \in Process /\ (~crowded => OnCourse(q, version, schema))
    BY <1>1, <2>1, <2>2, <2>3 DEF Process, OnCourse
  <2> QED BY <1>1, <2>3, <2>4, QuietBoot DEF boot, settings
<1>8. CASE ReleaseLock(i)
  <2>1. process[i] \in {Release(Down), Release(Serving)}
    BY <1>1, <1>8, ProcessesDiffer DEF ReleaseLock
  <2>2. PICK q \in {Down, Serving} : process[i].next = q
    BY <2>1 DEF Release
  <2>3. q \in Process /\ OnCourse(q, version, schema)
    BY IdleIsOnCourse
  <2>4. Go(i, q) /\ UNCHANGED <<version, schema, known>> /\ "version" \notin erasing'
    BY <1>1, <1>8, <2>2 DEF ReleaseLock
  <2>5. tables' = tables
    BY <1>8 DEF ReleaseLock, Good
  <2> QED BY <2>3, <2>4, <2>5, QuietBoot
<1>9. CASE Crash(i)
  <2>1. PICK q \in {Down, Release(Down)} : Go(i, q)
    BY <1>9 DEF Crash
  <2>2. q \in Process /\ OnCourse(q, version, schema)
    BY IdleIsOnCourse
  <2>3. UNCHANGED <<version, schema, known, tables>> /\ "version" \notin erasing'
    BY <1>1, <1>9 DEF Crash, settings, boot
  <2> QED BY <2>1, <2>2, <2>3, QuietBoot
<1> QED BY <1>2, <1>3, <1>4, <1>5, <1>6, <1>7, <1>8, <1>9

\* The steps that change the schema of a workspace, or the version.
LEMMA GoodMigratingSteps ==
  ASSUME Good, NEW i \in Processes, MigrateWorkspace(i) \/ SetVersion(i) \/ ResetSystem(i)
  PROVE  Good'
<1>1. /\ process[i] \in Process /\ version \in Nat /\ version >= 4 /\ "version" \notin erasing
      /\ ~crowded => OnCourse(process[i], version, schema)
  BY DEF Good, Undisturbed
<1>2. CASE ResetSystem(i)
  <2>1. process[i] \in [at : {"system", "record"}, version : {5, 6}] /\ process[i].version = 4
    BY <1>1, <1>2, ProcessesDiffer DEF ResetSystem
  <2> QED BY <2>1
<1>3. CASE SetVersion(i)
  <2>1. process[i] \in [at : {"system", "record"}, version : {5, 6}]
    BY <1>1, <1>3, ProcessesDiffer DEF SetVersion
  <2>2. "next" \notin DOMAIN process[i]
    BY <2>1
  <2>3. PICK q : q = Release(Down)
    OBVIOUS
  <2>4. Go(i, q) /\ version' = process[i].version /\ UNCHANGED <<schema, boot>> /\ "version" \notin erasing'
    BY <1>1, <1>3, <2>2, <2>3 DEF SetVersion
  <2>5. /\ process' = [process EXCEPT ![i] = q] /\ q \in Process /\ crowded' \in BOOLEAN
        /\ q.at = "release"
    BY <2>3, <2>4 DEF Go, Process, Release, Good
  <2>6. process' \in [Processes -> Process] /\ process'[i] = q /\ \A j \in Processes \ {i} : process'[j] = process[j]
    BY <2>5 DEF Good
  <2>7. ASSUME ~crowded' PROVE Undisturbed'
    <3>1. ~crowded /\ Undisturbed /\ \A j \in Processes \ {i} : ~Migrating(j)
      BY <2>4, <2>5, <2>7, Alone DEF Good
    <3>2. \A j, k \in Processes : Migrating(j)' /\ Migrating(k)' => j = k
      BY <2>6, <3>1 DEF Migrating, Undisturbed
    <3>3. \A j \in Processes : OnCourse(process'[j], version', schema')
      BY <2>5, <2>6, <3>1 DEF Migrating, OnCourse
    <3>4. version' = 6 => \A w \in OldWorkspaces : schema'[w] = NewSchema
      BY <1>3, <2>4, <3>1 DEF SetVersion, Undisturbed, OnCourse
    <3> QED BY <3>2, <3>3, <3>4 DEF Undisturbed
  <2>8. known' = OldWorkspaces /\ tables' = SystemTables /\ schema' \in [OldWorkspaces -> Current]
    BY <2>4 DEF Good, boot
  <2>9. version' \in Nat /\ version' >= 4 /\ "version" \notin erasing'
    BY <2>1, <2>4
  <2> QED BY <2>5, <2>6, <2>7, <2>8, <2>9 DEF Good
<1>4. CASE MigrateWorkspace(i)
  <2> DEFINE p == process[i]
             w == NextLeft(p)
             k == p.step
  <2>1. /\ p \in [at : {"workspace"}, version : {6}, left : SUBSET OldWorkspaces, step : 1..7]
        /\ p.left # {} /\ UNCHANGED <<settings, boot>>
    BY <1>1, <1>4, ProcessesDiffer DEF MigrateWorkspace
  <2>2. w \in p.left /\ w \in OldWorkspaces /\ schema[w] \in Current /\ k \in 1..7 /\ Len(Commands6) = 7
    BY <2>1, NextIsLeft DEF Good, Commands6
  <2>3. CASE ~Possible(schema[w], Commands6[k])
    <3>1. UNCHANGED schema /\ Go(i, Release(Down))
      BY <1>4, <2>1, <2>3 DEF MigrateWorkspace
    <3>2. Release(Down) \in Process /\ OnCourse(Release(Down), version, schema)
      BY DEF Process, OnCourse, Release
    <3> QED BY <1>1, <2>1, <3>1, <3>2, QuietBoot DEF settings, boot
  <2>4. CASE Possible(schema[w], Commands6[k])
    <3>1. PICK db : db = Applied(schema[w], Commands6[k])
      OBVIOUS
    <3>2. PICK q : q = NextWorkspace(p, w, 7)
      OBVIOUS
    <3>3. schema' = [schema EXCEPT ![w] = db] /\ Go(i, q)
      BY <1>4, <2>1, <2>2, <2>4, <3>1, <3>2 DEF MigrateWorkspace
    <3>4. PICK n \in Int : n = k + 1
      BY <2>2
    <3>5. k < 7 => q = [p EXCEPT !.step = n]
      BY <2>1, <2>2, <3>2, <3>4 DEF NextWorkspace
    <3>17. PICK l \in SUBSET OldWorkspaces : l = p.left \ {w}
      BY <2>1
    <3>6. k = 7 => q = [p EXCEPT !.left = l, !.step = 1]
      BY <2>1, <2>2, <3>2, <3>17 DEF NextWorkspace
    <3>7. q.at = "workspace" /\ q.version = 6
      <4>1. CASE k < 7
        BY <2>1, <3>5, <4>1
      <4>2. CASE k = 7
        BY <2>1, <3>6, <4>2
      <4> QED BY <2>2, <4>1, <4>2
    <3>8. k < 7 => q.left = p.left /\ q.step = n /\ q \in Process
      BY <2>1, <2>2, <3>4, <3>5 DEF Process
    <3>9. k = 7 => q.left = p.left \ {w} /\ q.step = 1 /\ q \in Process
      <4>1. CASE k = 7
        <5>1. q.left = l /\ q.step = 1
          BY <2>1, <3>6, <4>1
        <5>2. q \in [at : {"workspace"}, version : {6}, left : SUBSET OldWorkspaces, step : 1..7]
          <6>1. ASSUME NEW r, r \in [at : {"workspace"}, version : {6}, left : SUBSET OldWorkspaces, step : 1..7]
                PROVE  [r EXCEPT !.left = l, !.step = 1] \in [at : {"workspace"}, version : {6}, left : SUBSET OldWorkspaces, step : 1..7]
            <7>1. [r EXCEPT !.left = l, !.step = 1] = [at |-> "workspace", version |-> 6, left |-> l, step |-> 1]
              <8>1. r = [at |-> r.at, version |-> r.version, left |-> r.left, step |-> r.step] /\ r.at = "workspace" /\ r.version = 6
                BY <6>1
              <8>2. PICK x : x = [r EXCEPT !.left = l, !.step = 1]
                OBVIOUS
              <8>3. x = [at |-> x.at, version |-> x.version, left |-> x.left, step |-> x.step]
                BY <8>1, <8>2
              <8>4. x.at = "workspace" /\ x.version = 6 /\ x.left = l /\ x.step = 1
                BY <8>1, <8>2
              <8> QED BY <8>2, <8>3, <8>4
            <7>2. [at |-> "workspace", version |-> 6, left |-> l, step |-> 1]
                    \in [at : {"workspace"}, version : {6}, left : SUBSET OldWorkspaces, step : 1..7]
              BY <3>17
            <7> QED BY <7>1, <7>2
          <6>2. q = [p EXCEPT !.left = l, !.step = 1]
            BY <3>6, <4>1
          <6> HIDE DEF p
          <6> QED BY <2>1, <6>1, <6>2
        <5> QED BY <3>17, <5>1, <5>2 DEF Process
      <4> QED BY <4>1
    <3>10. q \in Process
      BY <2>2, <3>8, <3>9
    <3>11. /\ db \in Current
           /\ ~crowded => PartlyDone(schema[w], k)
      BY <1>1, <2>1, <2>2, <2>4, <3>1, CommandsKeepForm DEF OnCourse
    <3>12. /\ schema' \in [OldWorkspaces -> Current] /\ schema'[w] = db
           /\ \A x \in OldWorkspaces \ {w} : schema'[x] = schema[x]
      BY <2>2, <3>3, <3>11 DEF Good
    <3>13. ASSUME ~crowded PROVE OnCourse(q, version, schema')
      <4>1. /\ k < 7 => PartlyDone(db, n)
            /\ k = 7 => db = NewSchema
        BY <2>2, <2>4, <3>1, <3>4, <3>11, <3>13, CommandsAddUp
      <4>2. q.version = version + 1 /\ \A x \in OldWorkspaces \ p.left : schema[x] = NewSchema
        BY <1>1, <2>1, <3>7, <3>13 DEF OnCourse
      <4>3. \A x \in OldWorkspaces \ q.left : schema'[x] = NewSchema
        BY <2>2, <3>8, <3>9, <3>12, <4>1, <4>2
      <4>4. q.left # {} => PartlyDone(schema'[NextLeft(q)], q.step)
        <5>1. CASE k < 7
          <6>1. NextLeft(q) = w
            BY <2>1, <3>8, <5>1, NextIsLeft
          <6> QED BY <3>8, <3>12, <4>1, <5>1, <6>1
        <5>2. CASE k = 7
          BY <3>9, <5>2, FirstIsOnCourse
        <5> QED BY <2>2, <5>1, <5>2
      <4> QED BY <3>7, <4>2, <4>3, <4>4 DEF OnCourse
    <3>14. /\ process' = [process EXCEPT ![i] = q] /\ crowded' \in BOOLEAN /\ UNCHANGED <<version, known, tables, erasing>>
      BY <2>1, <3>3 DEF Go, Good, settings, boot
    <3>15. process' \in [Processes -> Process] /\ process'[i] = q /\ \A j \in Processes \ {i} : process'[j] = process[j]
      BY <3>10, <3>14 DEF Good
    <3>16. ASSUME ~crowded' PROVE Undisturbed'
      <4>1. ~crowded /\ Undisturbed /\ \A j \in Processes \ {i} : ~Migrating(j)
        BY <3>3, <3>7, <3>10, <3>16, Alone DEF Good
      <4>2. \A j, h \in Processes : Migrating(j)' /\ Migrating(h)' => j = h
        BY <3>15, <4>1 DEF Migrating, Undisturbed
      <4>3. \A j \in Processes \ {i} : OnCourse(process'[j], version', schema')
        BY <3>15, <4>1 DEF Migrating, OnCourse
      <4>4. OnCourse(process'[i], version', schema')
        BY <3>13, <3>14, <3>15, <4>1
      <4>5. version' # 6
        BY <1>1, <2>1, <3>14, <4>1 DEF OnCourse
      <4> QED BY <4>2, <4>3, <4>4, <4>5 DEF Undisturbed
    <3> QED BY <3>12, <3>14, <3>15, <3>16 DEF Good
  <2> QED BY <2>3, <2>4
<1> QED BY <1>2, <1>3, <1>4

-----------------------------------------------------------------------------
\* Every step keeps a good database good.
LEMMA GoodStep ==
  ASSUME Good, [UpNext]_upVars
  PROVE  Good'
<1>1. CASE \E i \in Processes : Work(i) \/ Crash(i)
  BY <1>1, GoodQuietSteps, GoodMigratingSteps DEF Work
<1>2. ASSUME UNCHANGED <<schema, process, crowded, tables, known>>, version' = version, "version" \notin erasing'
      PROVE  Good'
  BY <1>2 DEF Good, Undisturbed, Migrating
<1>3. CASE Erase
  BY <1>2, <1>3 DEF Erase, Good, boot
<1>4. CASE LapseLock
  BY <1>2, <1>4 DEF LapseLock, Good, boot
<1>5. CASE \E s \in Visitors : CheckSetup(s) \/ CreateAdmin(s) \/ MarkSetup(s)
  BY <1>2, <1>5 DEF CheckSetup, CreateAdmin, MarkSetup, SetupVisit, Good
<1>6. CASE UNCHANGED upVars
  BY <1>2, <1>6 DEF upVars, boot, settings, Good
<1> QED BY <1>1, <1>3, <1>4, <1>5, <1>6 DEF UpNext

\* Without a workspace that can be migrated, none is, whatever the version says.
LEMMA HopelessStep ==
  ASSUME Hopeless, [UpNext]_upVars
  PROVE  Hopeless'
<1>1. ASSUME NEW i \in Processes, MigrateWorkspace(i) PROVE Hopeless'
  <2>1. PICK w : schema' = [schema EXCEPT ![w] = Absent] \/ schema' = schema
                 \/ (Possible(schema[w], Commands6[process[i].step])
                     /\ schema' = [schema EXCEPT ![w] = Applied(@, Commands6[process[i].step])])
    BY <1>1 DEF MigrateWorkspace
  <2>2. w \in OldWorkspaces => ~Possible(schema[w], Commands6[process[i].step])
    BY DEF Hopeless, Possible, Absent, Ancient
  <2> QED BY <2>1, <2>2 DEF Hopeless
<1>2. ASSUME schema' = schema PROVE Hopeless'
  BY <1>2 DEF Hopeless
<1>3. CASE \E i \in Processes : CheckLock(i) \/ TakeLock(i) \/ ReadVersion(i) \/ ResetSystem(i) \/ MigrateSystem(i)
                               \/ ListWorkspaces(i) \/ WorkspacesDone(i) \/ SetVersion(i) \/ ReleaseLock(i) \/ Crash(i)
  BY <1>2, <1>3 DEF CheckLock, TakeLock, ReadVersion, ResetSystem, MigrateSystem, ListWorkspaces, WorkspacesDone,
                    SetVersion, ReleaseLock, Crash
<1>4. CASE Erase \/ LapseLock \/ UNCHANGED upVars
  BY <1>2, <1>4 DEF Erase, LapseLock, upVars
<1>5. CASE \E s \in Visitors : CheckSetup(s) \/ CreateAdmin(s) \/ MarkSetup(s)
  BY <1>2, <1>5 DEF CheckSetup, CreateAdmin, MarkSetup, SetupVisit
<1> QED BY <1>1, <1>3, <1>4, <1>5 DEF UpNext, Work

\* A database begins in one way or the other.
LEMMA GoodInit == UpInit => Good \/ Hopeless
<1> SUFFICES ASSUME UpInit PROVE Good \/ Hopeless
  OBVIOUS
<1>1. PICK v \in OldVersions :
        /\ version = v /\ erasing = {} /\ process = [i \in Processes |-> Down] /\ crowded = FALSE
        /\ v # 0 => tables = SystemTables /\ known = OldWorkspaces
        /\ schema = [w \in OldWorkspaces |->
             IF v = 0 THEN Absent ELSE IF v < 4 THEN Ancient ELSE IF v < 6 THEN OldSchema ELSE NewSchema]
  BY DEF UpInit
<1>2. v \in Nat
  BY UpgradeAssumption
<1>3. CASE v < 4
  BY <1>1, <1>2, <1>3 DEF Hopeless
<1>4. CASE v >= 4
  <2>1. \A i \in Processes : process[i] = Down /\ ~Migrating(i)
    BY <1>1 DEF Migrating, Down
  <2>2. process \in [Processes -> Process] /\ \A i \in Processes : OnCourse(process[i], version, schema)
    BY <1>1, <2>1, IdleIsOnCourse
  <2>3. OldSchema \in Current /\ NewSchema \in Current
    BY DEF OldSchema, NewSchema, Current
  <2>4. schema \in [OldWorkspaces -> Current] /\ (version = 6 => \A w \in OldWorkspaces : schema[w] = NewSchema)
    BY <1>1, <1>2, <1>4, <2>3
  <2>5. Undisturbed
    BY <2>1, <2>2, <2>4 DEF Undisturbed
  <2>6. v # 0 /\ version = v
    BY <1>1, <1>2, <1>4
  <2> QED BY <1>1, <1>2, <1>4, <2>2, <2>4, <2>5, <2>6 DEF Good
<1> QED BY <1>2, <1>3, <1>4

\* A workspace with a good database, or none to migrate: its version is earned.
LEMMA GoodIsEarned == Good \/ Hopeless => VersionIsEarned
BY DEF Good, Hopeless, Undisturbed, VersionIsEarned, Absent, Ancient

-----------------------------------------------------------------------------
\* While no calls overlap, an administrator is there as soon as setup is complete, and is one.
Visiting(s) == visitor[s].at \in {"create", "mark"}
AdminInv ==
  /\ visitor \in [Visitors -> [at : {"new", "refused", "create", "mark", "done"}]]
  /\ together \in BOOLEAN /\ setup \in BOOLEAN
  /\ ~together =>
       /\ "setup" \notin erasing
       /\ \A s, t \in Visitors : Visiting(s) /\ Visiting(t) => s = t
       /\ setup => \E u : users = {u}
       /\ \A s \in Visitors : visitor[s].at = "create" => users = {} /\ ~setup
       /\ \A s \in Visitors : visitor[s].at = "mark" => users = {s} /\ ~setup
       /\ ~setup /\ (\A s \in Visitors : ~Visiting(s)) => users = {}

\* Every step keeps that.
LEMMA AdminStep ==
  ASSUME AdminInv, [UpNext]_upVars
  PROVE  AdminInv'
<1>1. ASSUME UNCHANGED <<users, visitor, together, setup>>, "setup" \in erasing' => "setup" \in erasing
      PROVE  AdminInv'
  BY <1>1 DEF AdminInv, Visiting
<1>2. CASE \E i \in Processes : CheckLock(i) \/ TakeLock(i) \/ ReadVersion(i) \/ MigrateSystem(i)
             \/ ListWorkspaces(i) \/ MigrateWorkspace(i) \/ WorkspacesDone(i) \/ SetVersion(i) \/ ReleaseLock(i) \/ Crash(i)
  BY <1>1, <1>2 DEF CheckLock, TakeLock, ReadVersion, MigrateSystem, ListWorkspaces, MigrateWorkspace, WorkspacesDone,
                    SetVersion, ReleaseLock, Crash, boot, settings
<1>3. ASSUME NEW i \in Processes, ResetSystem(i) PROVE AdminInv'
  BY <1>3 DEF ResetSystem, AdminInv
<1>4. CASE Erase
  <2>1. "setup" \notin erasing => UNCHANGED <<users, visitor, together, setup>> /\ "setup" \notin erasing'
    BY <1>4 DEF Erase, boot, AdminInv
  <2>2. "setup" \in erasing => together /\ UNCHANGED <<visitor, together>> /\ setup' \in BOOLEAN
    BY <1>4 DEF Erase, boot, AdminInv
  <2> QED BY <1>1, <2>1, <2>2 DEF AdminInv
<1>5. CASE LapseLock \/ UNCHANGED upVars
  BY <1>1, <1>5 DEF LapseLock, upVars, boot, settings
<1>6. ASSUME NEW s \in Visitors, CheckSetup(s) PROVE AdminInv'
  BY <1>6 DEF CheckSetup, SetupVisit, AdminInv, Visiting
<1>7. ASSUME NEW s \in Visitors, CreateAdmin(s) PROVE AdminInv'
  BY <1>7 DEF CreateAdmin, SetupVisit, AdminInv, Visiting
<1>8. ASSUME NEW s \in Visitors, MarkSetup(s) PROVE AdminInv'
  BY <1>8 DEF MarkSetup, SetupVisit, AdminInv, Visiting
<1> QED BY <1>2, <1>3, <1>4, <1>5, <1>6, <1>7, <1>8 DEF UpNext, Work

\* It holds at the beginning.
LEMMA AdminInit == UpInit => AdminInv
<1> SUFFICES ASSUME UpInit PROVE AdminInv
  OBVIOUS
<1>1. /\ visitor = [s \in Visitors |-> [at |-> "new"]] /\ together = FALSE /\ erasing = {} /\ setup \in BOOLEAN
      /\ setup => users = {"first"}
      /\ ~setup => users = {}
  BY DEF UpInit
<1>2. \A s \in Visitors : visitor[s].at = "new"
  BY <1>1
<1>3. visitor \in [Visitors -> [at : {"new", "refused", "create", "mark", "done"}]]
  BY <1>1
<1> QED BY <1>1, <1>2, <1>3 DEF AdminInv, Visiting

\* It says what it should.
LEMMA AdminIsOne == AdminInv => OneAdministrator
BY FS_Singleton DEF AdminInv, OneAdministrator

-----------------------------------------------------------------------------
\* The version that the database has was earned by every workspace of it, whatever crashed on the way
\* and however often the migration began again (migrations.service.ts, run), unless two processes
\* migrated at the same time; and setup is marked when there is one administrator
\* (setup.service.ts, createInitialAdmin), unless calls overlapped.
THEOREM SettingsStayTrue == UpSpec => []SettingsAreTrue
<1>1. UpInit => (Good \/ Hopeless) /\ AdminInv
  BY GoodInit, AdminInit
<1>2. (Good \/ Hopeless) /\ AdminInv /\ [UpNext]_upVars => (Good \/ Hopeless)' /\ AdminInv'
  BY GoodStep, HopelessStep, AdminStep
<1>3. (Good \/ Hopeless) /\ AdminInv => SettingsAreTrue
  BY GoodIsEarned, AdminIsOne DEF SettingsAreTrue
<1> QED BY <1>1, <1>2, <1>3, PTL DEF UpSpec

-----------------------------------------------------------------------------
(* Assistant: a job runs once. *)

AtWork == {"workspace", "model", "tools", "tool", "config", "title", "usage"}
Run == {NotYet, Gone} \cup [at : {"closing"}, job : Jobs]
         \cup [at : AtWork, job : Jobs, rounds : Int, tools : Int]
Job == [status : {"pending", "running", "completed", "error"}, result : BOOLEAN, text : BOOLEAN,
        title : BOOLEAN, expired : BOOLEAN]

AsTypeOK ==
  /\ job \in [Jobs -> {Nobody} \cup Job]
  /\ run \in [Streams -> Run]

\* What a stream runs was begun, and either goes on or has its configuration.
RunsItsJob(s) ==
  Running(s) => /\ job[run[s].job] \in Job
                /\ job[run[s].job].status = "running" \/ Answered(run[s].job)

RunInv == AsTypeOK /\ (\A s \in Streams : RunsItsJob(s)) /\ JobRunsOnce

-----------------------------------------------------------------------------
\* The states of a stream differ, and those that are running have a job.
LEMMA StatesDiffer ==
  ASSUME NEW s \in Streams, AsTypeOK
  PROVE  /\ run[s] \in Run
         /\ Running(s) <=> run[s] \in [at : AtWork, job : Jobs, rounds : Int, tools : Int]
         /\ run[s].at = "new" <=> run[s] = NotYet
         /\ Running(s) => run[s].job \in Jobs /\ run[s].at \in AtWork
         /\ run[s].at \in AtWork => Running(s)
         /\ run[s].at = "closing" => ~Running(s) /\ run[s].job \in Jobs
BY DEF AsTypeOK, Run, Running, NotYet, Gone, AtWork

Working == [at : AtWork, job : Jobs, rounds : Int, tools : Int]

\* A step of stream s, which works for job j: it goes on as q and leaves the job as x.
LEMMA WorkKeepsRuns ==
  ASSUME RunInv, NEW s \in Streams, Running(s), NEW q \in Run, NEW x \in Job,
         run' = [run EXCEPT ![s] = q], job' = [job EXCEPT ![run[s].job] = x],
         q \in Working => /\ q.job = run[s].job
                          /\ x.status = "running" \/ (x.status = "completed" /\ x.result)
  PROVE  RunInv'
<1> DEFINE j == run[s].job
<1>1. /\ AsTypeOK /\ JobRunsOnce /\ j \in Jobs
      /\ \A t \in Streams : RunsItsJob(t)
  BY StatesDiffer DEF RunInv
<1>2. AsTypeOK'
  BY <1>1 DEF AsTypeOK
<1>3. /\ run'[s] = q /\ \A t \in Streams \ {s} : run'[t] = run[t]
      /\ job'[j] = x /\ \A i \in Jobs \ {j} : job'[i] = job[i]
  BY <1>1 DEF AsTypeOK
<1>4. Running(s)' => q \in Working
  BY <1>2, <1>3 DEF Running, Run, Working, NotYet, Gone
<1>5. \A t \in Streams \ {s} : Running(t)' => Running(t) /\ run'[t].job # j /\ run'[t].job \in Jobs
  <2> SUFFICES ASSUME NEW t \in Streams \ {s}, Running(t)'
               PROVE  Running(t) /\ run'[t].job # j /\ run'[t].job \in Jobs
    OBVIOUS
  <2>1. Running(t)
    BY <1>3 DEF Running
  <2> QED BY <1>1, <1>3, <2>1, StatesDiffer DEF JobRunsOnce
<1>6. ASSUME NEW t \in Streams PROVE RunsItsJob(t)'
  <2>1. CASE t = s
    BY <1>3, <1>4, <2>1 DEF RunsItsJob, Answered
  <2>2. CASE t # s
    BY <1>1, <1>3, <1>5, <2>2 DEF RunsItsJob, Answered
  <2> QED BY <2>1, <2>2
<1>7. JobRunsOnce'
  <2> SUFFICES ASSUME NEW t \in Streams, NEW u \in Streams, t # u, Running(t)', Running(u)'
               PROVE  run'[t].job # run'[u].job
    BY DEF JobRunsOnce
  <2>1. CASE t = s
    BY <1>3, <1>4, <1>5, <2>1
  <2>2. CASE u = s
    BY <1>3, <1>4, <1>5, <2>2
  <2>3. CASE t # s /\ u # s
    BY <1>1, <1>3, <1>5, <2>3 DEF JobRunsOnce
  <2> QED BY <2>1, <2>2, <2>3
<1> QED BY <1>2, <1>6, <1>7 DEF RunInv

\* Steps that change no stream, and leave a job that is run as it is or more complete.
LEMMA JobsKeepRuns ==
  ASSUME RunInv, UNCHANGED run, job' \in [Jobs -> {Nobody} \cup Job],
         \A i \in Jobs : job[i] \in Job => /\ job'[i] \in Job
                                           /\ job'[i].status = job[i].status
                                           /\ job'[i].result = job[i].result
  PROVE  RunInv'
<1>1. AsTypeOK /\ JobRunsOnce /\ AsTypeOK'
  BY DEF RunInv, AsTypeOK
<1>2. ASSUME NEW t \in Streams PROVE RunsItsJob(t)'
  <2>1. RunsItsJob(t)
    BY DEF RunInv
  <2>2. ASSUME Running(t)' PROVE Running(t) /\ run'[t].job = run[t].job /\ run[t].job \in Jobs
    BY <1>1, <2>2, StatesDiffer DEF Running
  <2> QED BY <2>1, <2>2 DEF RunsItsJob, Answered
<1>3. JobRunsOnce'
  BY <1>1 DEF JobRunsOnce, Running
<1> QED BY <1>1, <1>2, <1>3 DEF RunInv

-----------------------------------------------------------------------------
(* JobRunsOnce. *)

\* A stream that begins takes a job that no other stream runs.
LEMMA OpeningKeepsRuns ==
  ASSUME RunInv, NEW s \in Streams, NEW j \in Jobs, OpenShort(s, j) \/ OpenToRun(s, j)
  PROVE  RunInv'
<1>1. /\ AsTypeOK /\ JobRunsOnce /\ run[s] = NotYet /\ job[j] \in Job
      /\ \A t \in Streams : RunsItsJob(t)
  BY DEF RunInv, AsTypeOK, OpenShort, OpenToRun
<1>2. CASE OpenShort(s, j)
  <2>1. run' = [run EXCEPT ![s] = [at |-> "closing", job |-> j]] /\ job' = job
    BY <1>2 DEF OpenShort, Goes
  <2>2. AsTypeOK'
    BY <1>1, <2>1 DEF AsTypeOK, Run
  <2>3. \A t \in Streams : Running(t)' => Running(t) /\ run'[t] = run[t]
    BY <1>1, <2>1 DEF Running, AsTypeOK
  <2>4. \A t \in Streams : RunsItsJob(t)'
    BY <1>1, <2>1, <2>3 DEF RunsItsJob, Answered
  <2>5. JobRunsOnce'
    BY <1>1, <2>3 DEF JobRunsOnce
  <2> QED BY <2>2, <2>4, <2>5 DEF RunInv
<1>3. CASE OpenToRun(s, j)
  <2>1. PICK q : q = [at |-> "workspace", job |-> j, rounds |-> 0, tools |-> 0]
    OBVIOUS
  <2>2. /\ run' = [run EXCEPT ![s] = q] /\ job' = [job EXCEPT ![j].status = "running"]
        /\ Refusal(j) = "run"
    BY <1>3, <2>1 DEF OpenToRun, Goes
  <2>3. q \in Run /\ q.job = j
    BY <2>1 DEF Run, AtWork
  <2>4. job[j].status # "running" /\ ~Answered(j)
    BY <2>2 DEF Refusal
  <2>5. \A t \in Streams : Running(t) => run[t].job # j
    BY <1>1, <2>4 DEF RunsItsJob
  <2>6. AsTypeOK'
    BY <1>1, <2>2, <2>3 DEF AsTypeOK, Job
  <2>7. /\ run'[s] = q /\ \A t \in Streams \ {s} : run'[t] = run[t]
        /\ job'[j] \in Job /\ job'[j].status = "running" /\ \A i \in Jobs \ {j} : job'[i] = job[i]
    BY <1>1, <2>2, <2>6 DEF AsTypeOK, Job
  <2>8. \A t \in Streams \ {s} : Running(t)' => Running(t) /\ run[t].job \in Jobs \ {j}
    BY <1>1, <2>5, <2>7, StatesDiffer DEF Running
  <2>9. ASSUME NEW t \in Streams PROVE RunsItsJob(t)'
    <3>1. CASE t = s
      BY <2>3, <2>7, <3>1 DEF RunsItsJob
    <3>2. CASE t # s
      BY <1>1, <2>7, <2>8, <3>2 DEF RunsItsJob, Answered
    <3> QED BY <3>1, <3>2
  <2>10. JobRunsOnce'
    BY <1>1, <2>3, <2>7, <2>8 DEF JobRunsOnce
  <2> QED BY <2>6, <2>9, <2>10 DEF RunInv
<1> QED BY <1>2, <1>3

\* Every step of a stream that runs its job.
LEMMA ServingKeepsRuns ==
  ASSUME RunInv, NEW s \in Streams, Serve(s)
  PROVE  RunInv'
<1> DEFINE j == run[s].job
<1>1. AsTypeOK /\ RunsItsJob(s)
  BY DEF RunInv
<1>2. ASSUME Running(s) PROVE /\ run[s] \in Working /\ j \in Jobs /\ job[j] \in Job
                              /\ job[j].status = "running" \/ (job[j].status = "completed" /\ job[j].result)
                              /\ [job EXCEPT ![j] = job[j]] = job
                              /\ [run EXCEPT ![s] = run[s]] = run
  BY <1>1, <1>2, StatesDiffer DEF RunsItsJob, Answered, Working, AsTypeOK
<1>3. CASE Close(s)
  <2>1. run' = [run EXCEPT ![s] = Gone] /\ job' = job /\ run[s].at = "closing"
    BY <1>3 DEF Close, Goes
  <2>2. AsTypeOK'
    BY <1>1, <2>1 DEF AsTypeOK, Run
  <2>3. \A t \in Streams : Running(t)' => Running(t) /\ run'[t] = run[t]
    BY <1>1, <2>1 DEF Running, AsTypeOK, Gone
  <2>4. \A t \in Streams : RunsItsJob(t)'
    BY <2>1, <2>3 DEF RunsItsJob, Answered, RunInv
  <2>5. JobRunsOnce'
    BY <2>3 DEF JobRunsOnce, RunInv
  <2> QED BY <2>2, <2>4, <2>5 DEF RunInv
<1>4. CASE Fails(s) \/ Account(s)
  <2>1. Running(s)
    BY <1>4 DEF Running, Fails, Account
  <2>2. PICK q : q = [at |-> "closing", job |-> j]
    OBVIOUS
  <2>3. PICK x \in Job : job' = [job EXCEPT ![j] = x]
    <3>1. \E e \in {"error", "completed"} : job' = [job EXCEPT ![j].status = e]
      BY <1>4 DEF Fails, Account
    <3> QED BY <1>1, <1>2, <2>1, <3>1 DEF Job
  <2>4. run' = [run EXCEPT ![s] = q] /\ q \in Run /\ q \notin Working
    BY <1>2, <1>4, <2>1, <2>2 DEF Fails, Account, Goes, Run, Working, AtWork
  <2> QED BY <2>1, <2>3, <2>4, WorkKeepsRuns
<1>5. CASE Think(s)
  <2>1. Running(s)
    BY <1>5 DEF Running, Think
  <2>2. job' = [job EXCEPT ![j].text = TRUE] /\ run' = run
    BY <1>5 DEF Think
  <2>3. /\ job' \in [Jobs -> {Nobody} \cup Job]
        /\ \A i \in Jobs : job[i] \in Job => /\ job'[i] \in Job /\ job'[i].status = job[i].status
                                             /\ job'[i].result = job[i].result
    BY <1>1, <1>2, <2>1, <2>2 DEF AsTypeOK, Job
  <2> QED BY <2>2, <2>3, JobsKeepRuns
<1>6. CASE Configure(s)
  <2>1. Running(s)
    BY <1>6 DEF Running, Configure
  <2>2. PICK q : q = [run[s] EXCEPT !.at = "tools"]
    OBVIOUS
  <2>3. PICK x : x = [job[j] EXCEPT !.result = TRUE, !.status = "completed"]
    OBVIOUS
  <2>4. run' = [run EXCEPT ![s] = q] /\ job' = [job EXCEPT ![j] = x]
    BY <1>6, <2>2, <2>3 DEF Configure, Goes
  <2>5. x \in Job /\ x.status = "completed" /\ x.result
    BY <1>2, <2>1, <2>3 DEF Job
  <2>6. q \in Run /\ q.job = j
    BY <1>2, <2>1, <2>2 DEF Working, Run, AtWork
  <2> QED BY <2>1, <2>4, <2>5, <2>6, WorkKeepsRuns
<1>7. ASSUME Running(s), UNCHANGED job,
             NEW q \in Working, q.job = j, run' = [run EXCEPT ![s] = q]
      PROVE  RunInv'
  <2>1. q \in Run
    BY <1>7 DEF Working, Run
  <2>2. job' = [job EXCEPT ![j] = job[j]]
    BY <1>2, <1>7
  <2> QED BY <1>2, <1>7, <2>1, <2>2, WorkKeepsRuns
<1>8. CASE ReadWorkspace(s) \/ CallTool(s) \/ GiveTitle(s) \/ NoTitle(s)
  <2>1. Running(s) /\ UNCHANGED job
    BY <1>8 DEF Running, ReadWorkspace, CallTool, GiveTitle, NoTitle
  <2>2. PICK a \in AtWork : run' = [run EXCEPT ![s] = [run[s] EXCEPT !.at = a]]
    BY <1>8 DEF ReadWorkspace, CallTool, GiveTitle, NoTitle, Goes, AtWork
  <2>3. PICK q : q = [run[s] EXCEPT !.at = a]
    OBVIOUS
  <2>4. q \in Working /\ q.job = j
    BY <1>2, <2>1, <2>3 DEF Working
  <2> QED BY <1>7, <2>1, <2>2, <2>3, <2>4
<1>9. CASE WantTools(s) \/ EndTurn(s)
  <2>1. Running(s) /\ UNCHANGED job
    BY <1>9 DEF Running, WantTools, EndTurn
  <2>2. PICK r \in Int : r = run[s].rounds + 1
    BY <1>2, <2>1 DEF Working
  <2>3. \E a \in AtWork, n \in Int : run' = [run EXCEPT ![s] = [run[s] EXCEPT !.at = a, !.tools = n, !.rounds = r]]
    <3>1. CASE WantTools(s)
      <4>1. \E n \in 1..2 : run' = [run EXCEPT ![s] = [run[s] EXCEPT !.at = "tools", !.tools = n, !.rounds = r]]
        BY <2>2, <3>1 DEF WantTools, Goes
      <4>2. 1..2 \subseteq Int /\ "tools" \in AtWork
        BY DEF AtWork
      <4> QED BY <4>1, <4>2
    <3>2. CASE EndTurn(s)
      <4>1. run' = [run EXCEPT ![s] = [run[s] EXCEPT !.at = "title", !.tools = 0, !.rounds = r]]
        BY <1>2, <2>1, <2>2, <3>2 DEF EndTurn, Goes, Finish, Working
      <4>2. 0 \in Int /\ "title" \in AtWork
        BY DEF AtWork
      <4> QED BY <4>1, <4>2
    <3> QED BY <1>9, <3>1, <3>2
  <2>4. PICK a \in AtWork, n \in Int : run' = [run EXCEPT ![s] = [run[s] EXCEPT !.at = a, !.tools = n, !.rounds = r]]
    BY <2>3
  <2>5. PICK q : q = [run[s] EXCEPT !.at = a, !.tools = n, !.rounds = r]
    OBVIOUS
  <2>6. q \in Working /\ q.job = j
    BY <1>2, <2>1, <2>5 DEF Working
  <2> QED BY <1>7, <2>1, <2>4, <2>5, <2>6
<1>10. CASE ToolFails(s) \/ ToolSucceeds(s) \/ ToolsDone(s)
  <2>1. Running(s) /\ UNCHANGED job
    BY <1>10 DEF Running, ToolFails, ToolSucceeds, ToolsDone
  <2>2. PICK a \in AtWork, n \in Int :
          run' = [run EXCEPT ![s] = [run[s] EXCEPT !.at = a, !.tools = n]]
    <3>1. run[s] \in Working /\ run[s].tools - 1 \in Int /\ run[s].tools \in Int
      BY <1>2, <2>1 DEF Working
    <3>2. CASE ToolFails(s)
      BY <3>1, <3>2 DEF ToolFails, ToolDone, Goes, AtWork
    <3>3. CASE ToolSucceeds(s)
      BY <3>1, <3>3 DEF ToolSucceeds, Goes, AtWork
    <3>4. CASE ToolsDone(s)
      <4>1. [run[s] EXCEPT !.at = "model"] = [run[s] EXCEPT !.at = "model", !.tools = run[s].tools]
        BY <3>1 DEF Working
      <4> QED BY <3>1, <3>4, <4>1 DEF ToolsDone, Finish, Goes, AtWork
    <3> QED BY <1>10, <3>2, <3>3, <3>4
  <2>3. PICK q : q = [run[s] EXCEPT !.at = a, !.tools = n]
    OBVIOUS
  <2>4. q \in Working /\ q.job = j
    BY <1>2, <2>1, <2>3 DEF Working
  <2> QED BY <1>7, <2>1, <2>2, <2>3, <2>4
<1> QED BY <1>3, <1>4, <1>5, <1>6, <1>8, <1>9, <1>10 DEF Serve

\* Every step keeps the invariant.
LEMMA RunsStep ==
  ASSUME RunInv, [AsNext]_asVars
  PROVE  RunInv'
<1>1. ASSUME NEW j \in Jobs, CreateJob(j) \/ Expires(j) \/ CleanUp(j) PROVE RunInv'
  <2>1. AsTypeOK
    BY DEF RunInv
  <2>2. run' = run
    BY <1>1 DEF CreateJob, Expires, CleanUp
  <2>3. CASE CreateJob(j) /\ job' # job
    <3>1. PICK title \in BOOLEAN : job' = [job EXCEPT ![j] = NewJob(title)]
      BY <2>3 DEF CreateJob
    <3>2. NewJob(title) \in Job /\ job[j] = Nobody /\ Nobody \notin Job
      BY <2>3 DEF NewJob, Job, CreateJob, Nobody
    <3> QED BY <2>1, <2>2, <3>1, <3>2, JobsKeepRuns DEF AsTypeOK
  <2>4. CASE Expires(j)
    <3>1. job[j] \in Job /\ job' = [job EXCEPT ![j].expired = TRUE]
      BY <2>1, <2>4 DEF Expires, AsTypeOK
    <3>2. /\ job' \in [Jobs -> {Nobody} \cup Job]
          /\ \A i \in Jobs : job[i] \in Job => /\ job'[i] \in Job /\ job'[i].status = job[i].status
                                               /\ job'[i].result = job[i].result
      BY <2>1, <3>1 DEF AsTypeOK, Job
    <3> QED BY <2>2, <3>2, JobsKeepRuns
  <2>5. CASE job' = job
    BY <2>1, <2>2, <2>5, JobsKeepRuns DEF AsTypeOK
  <2> QED BY <1>1, <2>3, <2>4, <2>5 DEF CleanUp
<1>2. CASE HourPasses \/ UNCHANGED asVars
  BY <1>2, JobsKeepRuns DEF HourPasses, asVars, RunInv, AsTypeOK
<1> QED BY <1>1, <1>2, OpeningKeepsRuns, ServingKeepsRuns DEF AsNext

\* The invariant holds at the beginning.
LEMMA RunsInit == AsInit => RunInv
BY DEF AsInit, RunInv, AsTypeOK, RunsItsJob, JobRunsOnce, Running, NotYet, Run

\* However many streams ask for a job, and whatever the model, the tools, the timers and the
\* clients do meanwhile, one at a time runs it (assistant.service.ts, streamJob).
THEOREM OneStreamRunsAJob == AsSpec => []JobRunsOnce
<1>1. RunInv /\ [AsNext]_asVars => RunInv'
  BY RunsStep
<1>2. RunInv => JobRunsOnce
  BY DEF RunInv
<1> QED BY <1>1, <1>2, RunsInit, PTL DEF AsSpec

\* Jobs and streams are well typed.
THEOREM AssistantTypeCorrect == AsSpec => []AsTypeOK
<1>1. RunInv /\ [AsNext]_asVars => RunInv'
  BY RunsStep
<1>2. RunInv => AsTypeOK
  BY DEF RunInv
<1> QED BY <1>1, <1>2, RunsInit, PTL DEF AsSpec

-----------------------------------------------------------------------------
(* KeepsItsPromise. *)

Message == [phase : {"silent", "answering", "titled", "counted", "failed", "ended"},
            heard : {"nothing", "thinking", "tool_call", "tool_result", "config", "title", "usage", "error", "done"}]

\* Where a stream is tells what it may have said.
Fits(q, m) ==
  /\ q.at = "new" => m = [phase |-> "silent", heard |-> "nothing"]
  /\ q.at = "workspace" => m = [phase |-> "silent", heard |-> "nothing"]
  /\ q.at \in {"model", "tools", "title"} => m.phase \in {"silent", "answering"}
  /\ q.at = "tool" => m = [phase |-> "answering", heard |-> "tool_call"]
  /\ q.at = "config" => m = [phase |-> "answering", heard |-> "tool_result"]
  /\ q.at = "usage" => m.phase \in {"silent", "answering", "titled"}
  /\ q.at = "closing" => m.phase \in {"silent", "answering", "counted", "failed"}

PromiseInv ==
  /\ sent \in [Streams -> Message]
  /\ \A s \in Streams : Fits(run[s], sent[s])

\* What AnswerStream allows after m: the event e, and then the phase f.
MaySay(m, e, f) ==
  \/ /\ e \in {"thinking", "tool_call", "tool_result", "config"}
     /\ e = "tool_result" => m.heard = "tool_call"
     /\ e = "config" => m.heard \in {"tool_result", "nothing"}
     /\ m.phase \in {"silent", "answering"} /\ f = "answering"
  \/ e = "title" /\ f = "titled" /\ m.phase = "answering"
  \/ e = "usage" /\ f = "counted" /\ m.phase \in {"silent", "answering", "titled"}
  \/ e = "error" /\ f = "failed" /\ m.phase \in {"silent", "answering"}
  \/ e = "done" /\ f = "ended" /\ m.phase \in {"silent", "answering", "counted", "failed"}

\* The promise for the step of one stream.
LEMMA PromiseOfOne ==
  ASSUME NEW s \in Streams, sent \in [Streams -> Message], NEW e, NEW f, sent' = [sent EXCEPT ![s] = [phase |-> f, heard |-> e]],
         MaySay(sent[s], e, f)
  PROVE  /\ Stream(s)!StreamNext
         /\ \A t \in Streams : sent'[t] = sent[t] \/ Stream(t)!StreamNext
<1>1. sent'[s].phase = f /\ sent'[s].heard = e
  OBVIOUS
<1>2. Stream(s)!StreamNext
  BY <1>1 DEF MaySay, Stream!StreamNext, Stream!Say, Stream!Title, Stream!Usage, Stream!Failure, Stream!Done,
     Stream!Hear, Stream!Answering
<1> QED BY <1>2

Kept == PromiseInv' /\ \A t \in Streams : sent'[t] = sent[t] \/ Stream(t)!StreamNext

\* A step of stream s to q that says nothing.
LEMMA QuietStep ==
  ASSUME AsTypeOK, PromiseInv, NEW s \in Streams, NEW q, run' = [run EXCEPT ![s] = q], sent' = sent,
         Fits(q, sent[s])
  PROVE  Kept
BY DEF Kept, PromiseInv, AsTypeOK

\* A step of stream s to q after which the client has heard m.
LEMMA SayingStep ==
  ASSUME AsTypeOK, PromiseInv, NEW s \in Streams, NEW q, NEW m \in Message,
         run' = [run EXCEPT ![s] = q], sent' = [sent EXCEPT ![s] = m],
         Fits(q, m),
         MaySay(sent[s], m.heard, m.phase)
  PROVE  Kept
<1>1. m = [phase |-> m.phase, heard |-> m.heard]
  BY DEF Message
<1>2. sent \in [Streams -> Message]
  BY DEF PromiseInv
<1>3. PICK e, f : e = m.heard /\ f = m.phase
  OBVIOUS
<1>4. \A t \in Streams : sent'[t] = sent[t] \/ Stream(t)!StreamNext
  BY <1>1, <1>2, <1>3, PromiseOfOne
<1>5. PromiseInv'
  <2>1. sent' \in [Streams -> Message] /\ sent'[s] = m /\ run'[s] = q
    BY <1>2 DEF AsTypeOK
  <2>2. \A t \in Streams \ {s} : sent'[t] = sent[t] /\ run'[t] = run[t]
    BY <1>2 DEF AsTypeOK
  <2>3. ASSUME NEW t \in Streams PROVE Fits(run'[t], sent'[t])
    <3>1. CASE t = s
      BY <2>1, <3>1
    <3>2. CASE t # s
      BY <2>2, <3>2 DEF PromiseInv
    <3> QED BY <3>1, <3>2
  <2> QED BY <2>1, <2>3 DEF PromiseInv
<1> QED BY <1>4, <1>5 DEF Kept

\* Every step of a stream that runs its job, and the opening of one, keeps the promise.
LEMMA StreamsKeepPromise ==
  ASSUME AsTypeOK, PromiseInv, NEW s \in Streams,
         Serve(s) \/ \E j \in Jobs : OpenShort(s, j) \/ OpenToRun(s, j)
  PROVE  Kept
<1>1. Fits(run[s], sent[s]) /\ run[s] \in Run /\ sent[s] \in Message
  BY DEF PromiseInv, AsTypeOK
<1>0. run[s].at \in AtWork => run[s] \in Working
  BY <1>1, StatesDiffer DEF Working, Running
<1>2. CASE Close(s)
  <2>1. PICK m : m = [phase |-> "ended", heard |-> "done"]
    OBVIOUS
  <2>2. m \in Message
    BY <2>1 DEF Message
  <2>5. sent' = [sent EXCEPT ![s] = m]
    BY <1>2, <2>1 DEF Close, Sent
  <2>6. run' = [run EXCEPT ![s] = Gone]
    BY <1>2 DEF Close, Goes
  <2>3. Fits(Gone, m)
    BY <2>1 DEF Fits, Gone
  <2>4. MaySay(sent[s], m.heard, m.phase)
    BY <1>1, <1>2, <2>1 DEF Close, Fits, MaySay
  <2> QED BY <2>2, <2>3, <2>4, <2>5, <2>6, SayingStep
<1>3. CASE Fails(s)
  <2>1. PICK m, q : m = [phase |-> "failed", heard |-> "error"] /\ q = [at |-> "closing", job |-> run[s].job]
    OBVIOUS
  <2>2. m \in Message /\ sent' = [sent EXCEPT ![s] = m] /\ run' = [run EXCEPT ![s] = q]
    BY <1>3, <2>1 DEF Message, Fails, Goes, Sent
  <2>3. Fits(q, m)
    BY <2>1 DEF Fits
  <2>4. MaySay(sent[s], m.heard, m.phase)
    BY <1>1, <1>3, <2>1 DEF Fails, Fits, MaySay
  <2> QED BY <2>2, <2>3, <2>4, SayingStep
<1>4. CASE Think(s)
  <2>1. PICK m : m = [phase |-> "answering", heard |-> "thinking"]
    OBVIOUS
  <2>2. m \in Message /\ sent' = [sent EXCEPT ![s] = m]
    BY <1>4, <2>1 DEF Message, Think, Sent
  <2>3. PICK q : run' = [run EXCEPT ![s] = q] /\ q.at = "model"
    BY <1>4, <1>1 DEF Think, AsTypeOK
  <2>4. Fits(q, m)
    BY <2>1, <2>3 DEF Fits
  <2>5. MaySay(sent[s], m.heard, m.phase)
    BY <1>1, <1>4, <2>1 DEF Think, Fits, MaySay
  <2> QED BY <2>2, <2>3, <2>4, <2>5, SayingStep
<1>5. CASE CallTool(s)
  <2>1. PICK m : m = [phase |-> "answering", heard |-> "tool_call"]
    OBVIOUS
  <2>2. m \in Message /\ sent' = [sent EXCEPT ![s] = m]
    BY <1>5, <2>1 DEF Message, CallTool, Sent
  <2>3. PICK q : run' = [run EXCEPT ![s] = q] /\ q.at = "tool"
    <3>1. PICK q : q = [run[s] EXCEPT !.at = "tool"]
      OBVIOUS
    <3>2. run[s].at \in AtWork
      BY <1>5 DEF CallTool, AtWork
    <3>3. q.at = "tool"
      BY <1>0, <3>1, <3>2 DEF Working, AtWork, Finish
    <3>4. run' = [run EXCEPT ![s] = q]
      BY <1>5, <3>1 DEF CallTool, Goes, ToolDone
    <3> QED BY <3>3, <3>4
  <2>4. Fits(q, m)
    BY <2>1, <2>3 DEF Fits
  <2>5. MaySay(sent[s], m.heard, m.phase)
    BY <1>1, <1>5, <2>1 DEF CallTool, Fits, MaySay
  <2> QED BY <2>2, <2>3, <2>4, <2>5, SayingStep
<1>6. CASE ToolSucceeds(s)
  <2>1. PICK m : m = [phase |-> "answering", heard |-> "tool_result"]
    OBVIOUS
  <2>2. m \in Message /\ sent' = [sent EXCEPT ![s] = m]
    BY <1>6, <2>1 DEF Message, ToolSucceeds, Sent
  <2>3. PICK q : run' = [run EXCEPT ![s] = q] /\ q.at \in {"config", "tools"}
    <3>1. PICK c \in BOOLEAN : Goes(s, [run[s] EXCEPT !.at = IF c THEN "config" ELSE "tools", !.tools = @ - 1])
      BY <1>6 DEF ToolSucceeds
    <3>2. PICK a \in {"config", "tools"} : a = IF c THEN "config" ELSE "tools"
      OBVIOUS
    <3>3. PICK q : q = [run[s] EXCEPT !.at = a, !.tools = @ - 1]
      OBVIOUS
    <3>4. q.at = a
      BY <1>0, <1>6, <3>3 DEF ToolSucceeds, Working, AtWork
    <3>5. run' = [run EXCEPT ![s] = q]
      BY <3>1, <3>2, <3>3 DEF Goes
    <3> QED BY <3>4, <3>5
  <2>4. Fits(q, m)
    BY <2>1, <2>3 DEF Fits
  <2>5. MaySay(sent[s], m.heard, m.phase)
    BY <1>1, <1>6, <2>1 DEF ToolSucceeds, Fits, MaySay
  <2> QED BY <2>2, <2>3, <2>4, <2>5, SayingStep
<1>7. CASE Configure(s)
  <2>1. PICK m : m = [phase |-> "answering", heard |-> "config"]
    OBVIOUS
  <2>2. m \in Message /\ sent' = [sent EXCEPT ![s] = m]
    BY <1>7, <2>1 DEF Message, Configure, Sent
  <2>3. PICK q : run' = [run EXCEPT ![s] = q] /\ q.at = "tools"
    <3>1. PICK q : q = [run[s] EXCEPT !.at = "tools"]
      OBVIOUS
    <3>2. run[s].at \in AtWork
      BY <1>7 DEF Configure, AtWork
    <3>3. q.at = "tools"
      BY <1>0, <3>1, <3>2 DEF Working, AtWork, Finish
    <3>4. run' = [run EXCEPT ![s] = q]
      BY <1>7, <3>1 DEF Configure, Goes, ToolDone
    <3> QED BY <3>3, <3>4
  <2>4. Fits(q, m)
    BY <2>1, <2>3 DEF Fits
  <2>5. MaySay(sent[s], m.heard, m.phase)
    BY <1>1, <1>7, <2>1 DEF Configure, Fits, MaySay
  <2> QED BY <2>2, <2>3, <2>4, <2>5, SayingStep
<1>8. CASE GiveTitle(s)
  <2>1. PICK m : m = [phase |-> "titled", heard |-> "title"]
    OBVIOUS
  <2>2. m \in Message /\ sent' = [sent EXCEPT ![s] = m]
    BY <1>8, <2>1 DEF Message, GiveTitle, Sent
  <2>3. PICK q : run' = [run EXCEPT ![s] = q] /\ q.at = "usage"
    <3>1. PICK q : q = [run[s] EXCEPT !.at = "usage"]
      OBVIOUS
    <3>2. run[s].at \in AtWork
      BY <1>8 DEF GiveTitle, AtWork
    <3>3. q.at = "usage"
      BY <1>0, <3>1, <3>2 DEF Working, AtWork, Finish
    <3>4. run' = [run EXCEPT ![s] = q]
      BY <1>8, <3>1 DEF GiveTitle, Goes, ToolDone
    <3> QED BY <3>3, <3>4
  <2>4. Fits(q, m)
    BY <2>1, <2>3 DEF Fits
  <2>5. MaySay(sent[s], m.heard, m.phase)
    BY <1>1, <1>8, <2>1 DEF GiveTitle, Fits, MaySay
  <2> QED BY <2>2, <2>3, <2>4, <2>5, SayingStep
<1>9. CASE Account(s)
  <2>1. PICK m : m = [phase |-> "counted", heard |-> "usage"]
    OBVIOUS
  <2>2. m \in Message /\ sent' = [sent EXCEPT ![s] = m]
    BY <1>9, <2>1 DEF Message, Account, Sent
  <2>3. PICK q : run' = [run EXCEPT ![s] = q] /\ q.at = "closing"
    <3>1. PICK q : q = [at |-> "closing", job |-> run[s].job]
      OBVIOUS
    <3>3. q.at = "closing"
      BY <3>1
    <3>4. run' = [run EXCEPT ![s] = q]
      BY <1>9, <3>1 DEF Account, Goes, ToolDone
    <3> QED BY <3>3, <3>4
  <2>4. Fits(q, m)
    BY <2>1, <2>3 DEF Fits
  <2>5. MaySay(sent[s], m.heard, m.phase)
    BY <1>1, <1>9, <2>1 DEF Account, Fits, MaySay
  <2> QED BY <2>2, <2>3, <2>4, <2>5, SayingStep
<1>10. CASE ReadWorkspace(s)
  <2>1. sent' = sent
    BY <1>10 DEF ReadWorkspace
  <2>2. PICK q : run' = [run EXCEPT ![s] = q] /\ q.at = "model"
    <3>1. PICK q : q = [run[s] EXCEPT !.at = "model"]
      OBVIOUS
    <3>2. run[s].at \in AtWork
      BY <1>10 DEF ReadWorkspace, AtWork
    <3>3. q.at = "model"
      BY <1>0, <3>1, <3>2 DEF Working, AtWork, Finish
    <3>4. run' = [run EXCEPT ![s] = q]
      BY <1>10, <3>1 DEF ReadWorkspace, Goes, ToolDone
    <3> QED BY <3>3, <3>4
  <2>3. Fits(q, sent[s])
    BY <1>1, <1>10, <2>2 DEF ReadWorkspace, Fits
  <2> QED BY <2>1, <2>2, <2>3, QuietStep
<1>11. CASE WantTools(s)
  <2>1. sent' = sent
    BY <1>11 DEF WantTools
  <2>2. PICK q : run' = [run EXCEPT ![s] = q] /\ q.at = "tools"
    <3>1. PICK n \in 1..2 : Goes(s, [run[s] EXCEPT !.at = "tools", !.tools = n, !.rounds = @ + 1])
      BY <1>11 DEF WantTools
    <3>2. PICK q : q = [run[s] EXCEPT !.at = "tools", !.tools = n, !.rounds = @ + 1]
      OBVIOUS
    <3>3. q.at = "tools"
      BY <1>0, <1>11, <3>2 DEF WantTools, Working, AtWork
    <3>4. run' = [run EXCEPT ![s] = q]
      BY <3>1, <3>2 DEF Goes
    <3> QED BY <3>3, <3>4
  <2>3. Fits(q, sent[s])
    BY <1>1, <1>11, <2>2 DEF WantTools, Fits
  <2> QED BY <2>1, <2>2, <2>3, QuietStep
<1>12. CASE EndTurn(s)
  <2>1. sent' = sent
    BY <1>12 DEF EndTurn
  <2>2. PICK q : run' = [run EXCEPT ![s] = q] /\ q.at = "title"
    <3>1. PICK q : q = Finish(s, [run[s] EXCEPT !.rounds = @ + 1])
      OBVIOUS
    <3>2. run[s].at \in AtWork
      BY <1>12 DEF EndTurn, AtWork
    <3>3. q.at = "title"
      BY <1>0, <3>1, <3>2 DEF Working, AtWork, Finish
    <3>4. run' = [run EXCEPT ![s] = q]
      BY <1>12, <3>1 DEF EndTurn, Goes, ToolDone
    <3> QED BY <3>3, <3>4
  <2>3. Fits(q, sent[s])
    BY <1>1, <1>12, <2>2 DEF EndTurn, Fits
  <2> QED BY <2>1, <2>2, <2>3, QuietStep
<1>13. CASE ToolFails(s)
  <2>1. sent' = sent
    BY <1>13 DEF ToolFails
  <2>2. PICK q : run' = [run EXCEPT ![s] = q] /\ q.at = "tools"
    <3>1. PICK q : q = [run[s] EXCEPT !.at = "tools", !.tools = @ - 1]
      OBVIOUS
    <3>2. run[s].at \in AtWork
      BY <1>13 DEF ToolFails, AtWork
    <3>3. q.at = "tools"
      BY <1>0, <3>1, <3>2 DEF Working, AtWork, Finish
    <3>4. run' = [run EXCEPT ![s] = q]
      BY <1>13, <3>1 DEF ToolFails, Goes, ToolDone
    <3> QED BY <3>3, <3>4
  <2>3. Fits(q, sent[s])
    BY <1>1, <1>13, <2>2 DEF ToolFails, Fits
  <2> QED BY <2>1, <2>2, <2>3, QuietStep
<1>14. CASE ToolsDone(s)
  <2>1. sent' = sent
    BY <1>14 DEF ToolsDone
  <2>2. PICK q : run' = [run EXCEPT ![s] = q] /\ q.at \in {"title", "model"}
    <3>1. run[s] \in Working
      BY <1>0, <1>14 DEF ToolsDone, AtWork
    <3>2. PICK q : q = IF Answered(run[s].job) THEN Finish(s, run[s]) ELSE [run[s] EXCEPT !.at = "model"]
      OBVIOUS
    <3>3. q.at \in {"title", "model"}
      BY <3>1, <3>2 DEF Working, Finish
    <3>4. run' = [run EXCEPT ![s] = q]
      BY <1>14, <3>2 DEF ToolsDone, Goes
    <3> QED BY <3>3, <3>4
  <2>3. Fits(q, sent[s])
    BY <1>1, <1>14, <2>2 DEF ToolsDone, Fits
  <2> QED BY <2>1, <2>2, <2>3, QuietStep
<1>15. CASE NoTitle(s)
  <2>1. sent' = sent
    BY <1>15 DEF NoTitle
  <2>2. PICK q : run' = [run EXCEPT ![s] = q] /\ q.at = "usage"
    <3>1. PICK q : q = [run[s] EXCEPT !.at = "usage"]
      OBVIOUS
    <3>2. run[s].at \in AtWork
      BY <1>15 DEF NoTitle, AtWork
    <3>3. q.at = "usage"
      BY <1>0, <3>1, <3>2 DEF Working, AtWork, Finish
    <3>4. run' = [run EXCEPT ![s] = q]
      BY <1>15, <3>1 DEF NoTitle, Goes, ToolDone
    <3> QED BY <3>3, <3>4
  <2>3. Fits(q, sent[s])
    BY <1>1, <1>15, <2>2 DEF NoTitle, Fits
  <2> QED BY <2>1, <2>2, <2>3, QuietStep
<1>16. ASSUME NEW j \in Jobs, OpenToRun(s, j) PROVE Kept
  <2>1. sent' = sent
    BY <1>16 DEF OpenToRun
  <2>2. PICK q : q = [at |-> "workspace", job |-> j, rounds |-> 0, tools |-> 0]
    OBVIOUS
  <2>3. run' = [run EXCEPT ![s] = q] /\ run[s] = NotYet
    BY <1>16, <2>2 DEF OpenToRun, Goes
  <2>4. Fits(q, sent[s])
    BY <1>1, <2>2, <2>3 DEF Fits, NotYet
  <2> QED BY <2>1, <2>3, <2>4, QuietStep
<1>17. ASSUME NEW j \in Jobs, OpenShort(s, j) PROVE Kept
  <2>1. PICK q : q = [at |-> "closing", job |-> j]
    OBVIOUS
  <2>2. run' = [run EXCEPT ![s] = q] /\ run[s] = NotYet
    BY <1>17, <2>1 DEF OpenShort, Goes
  <2>3. sent[s] = [phase |-> "silent", heard |-> "nothing"]
    BY <1>1, <2>2 DEF Fits, NotYet
  <2>4. CASE Refusal(j) = "nothing" /\ sent' = sent
    <3>1. Fits(q, sent[s])
      BY <2>1, <2>3 DEF Fits
    <3> QED BY <2>2, <2>4, <3>1, QuietStep
  <2>5. CASE Refusal(j) = "error" /\ sent' = Sent(s, "error", "failed")
    <3>1. PICK m : m = [phase |-> "failed", heard |-> "error"]
      OBVIOUS
    <3>2. m \in Message /\ sent' = [sent EXCEPT ![s] = m]
      BY <2>5, <3>1 DEF Message, Sent
    <3>3. Fits(q, m) /\ MaySay(sent[s], m.heard, m.phase)
      BY <2>1, <2>3, <3>1 DEF Fits, MaySay
    <3> QED BY <2>2, <3>2, <3>3, SayingStep
  <2>6. CASE Refusal(j) \in {"config", "thinking"} /\ sent' = Sent(s, Refusal(j), "answering")
    <3>1. PICK e \in {"config", "thinking"} : sent' = Sent(s, e, "answering")
      BY <2>6
    <3>2. PICK m : m = [phase |-> "answering", heard |-> e]
      OBVIOUS
    <3>3. m \in Message /\ sent' = [sent EXCEPT ![s] = m]
      BY <3>1, <3>2 DEF Message, Sent
    <3>4. Fits(q, m) /\ MaySay(sent[s], m.heard, m.phase)
      BY <2>1, <2>3, <3>1, <3>2 DEF Fits, MaySay
    <3> QED BY <2>2, <3>3, <3>4, SayingStep
  <2> QED BY <1>17, <2>4, <2>5, <2>6 DEF OpenShort
<1> QED BY <1>2, <1>3, <1>4, <1>5, <1>6, <1>7, <1>8, <1>9, <1>10, <1>11, <1>12, <1>13, <1>14, <1>15, <1>16, <1>17
        DEF Serve

\* So does every step of the whole, and one that is not of a stream says nothing.
LEMMA PromiseStep == AsTypeOK /\ PromiseInv /\ [AsNext]_asVars
                       => PromiseInv' /\ \A t \in Streams : sent'[t] = sent[t] \/ Stream(t)!StreamNext
<1> SUFFICES ASSUME AsTypeOK, PromiseInv, [AsNext]_asVars
             PROVE  Kept
  BY DEF Kept
<1>1. CASE \E s \in Streams : Serve(s) \/ \E j \in Jobs : OpenShort(s, j) \/ OpenToRun(s, j)
  BY <1>1, StreamsKeepPromise
<1>2. CASE \/ \E j \in Jobs : CreateJob(j) \/ Expires(j) \/ CleanUp(j)
           \/ HourPasses \/ UNCHANGED asVars
  <2>1. sent' = sent /\ run' = run
    BY <1>2 DEF CreateJob, Expires, CleanUp, HourPasses, asVars
  <2> QED BY <2>1 DEF Kept, PromiseInv
<1> QED BY <1>1, <1>2 DEF AsNext

\* The requests for results implement one AnswerStream each: what a client receives is in the order
\* that sse-formatter.ts and the console rely on, ended by "done", whatever else goes on.
THEOREM StreamsKeepTheirPromise == AsSpec => KeepsItsPromise
<1>1. AsInit => PromiseInv /\ AsTypeOK /\ \A s \in Streams : Stream(s)!Silent
  BY RunsInit DEF AsInit, PromiseInv, Message, Fits, NotYet, RunInv, Stream!Silent
<1>2. RunInv /\ PromiseInv /\ [AsNext]_asVars => RunInv' /\ PromiseInv' /\ [\A s \in Streams : sent'[s] = sent[s] \/ Stream(s)!StreamNext]_sent
  BY RunsStep, PromiseStep DEF RunInv
<1> QED BY <1>1, <1>2, RunsInit, PTL DEF AsSpec, KeepsItsPromise

-----------------------------------------------------------------------------
(* Chat. *)

TurnStatus == {"pending", "streaming", "complete", "error"}
HomeTurn(h, id) == {t \in [prompt : DOMAIN h, status : TurnStatus] : h[t.prompt] = id}
HomeConvs(h) == UNION {[id : {i}, turns : Seq(HomeTurn(h, i))] : i \in Nat \ {0}}
HomeStore(h) == [convs : Seq(HomeConvs(h)), active : Nat]

\* What is said of each prompt.
CallSet == [at : {"job", "open", "stream", "hidden", "over"}, titles : BOOLEAN]

AllHome ==
  /\ home \in Seq(Nat \ {0}) /\ created \in Nat
  /\ convs \in Seq(HomeConvs(home)) /\ active \in Nat
  /\ localStore \in HomeStore(home) /\ onTitle \in HomeStore(home)
  /\ shown \in Seq(HomeTurn(home, active))

OwnHistory ==
  /\ call \in Seq(CallSet) /\ Len(call) = Len(home)
  /\ recent \subseteq DOMAIN home
  /\ context \in Seq(SUBSET DOMAIN home) /\ Len(context) = Len(home)
  /\ crossed \in BOOLEAN
  /\ ~crossed =>
       /\ \A q \in recent : home[q] = active
       /\ \A p \in DOMAIN home : call[p] # Over => home[p] = active
       /\ \A p \in DOMAIN home : \A q \in context[p] : home[q] = home[p]

ChatInv == AllHome /\ OwnHistory

\* What a conversation that is at home is.
LEMMA ConvIsHome ==
  ASSUME NEW h, NEW c
  PROVE  c \in HomeConvs(h) <=> /\ c = [id |-> c.id, turns |-> c.turns]
                                /\ c.id \in Nat \ {0} /\ c.turns \in Seq(HomeTurn(h, c.id))
BY DEF HomeConvs

\* Nothing has been said yet.
LEMMA EmptyIsHome == ASSUME NEW S  PROVE <<>> \in Seq(S)
OBVIOUS

\* Sequences of fewer things are sequences of more.
LEMMA SeqMono == ASSUME NEW S, NEW T, S \subseteq T  PROVE Seq(S) \subseteq Seq(T)
OBVIOUS

\* What is kept of a conversation was sent in it.
LEMMA TurnsAreHome ==
  ASSUME NEW h, NEW cs \in Seq(HomeConvs(h)), NEW id
  PROVE  TurnsOf(cs, id) \in Seq(HomeTurn(h, id))
<1>1. CASE Has(cs, id)
  <2>1. IndexOf(cs, id) \in DOMAIN cs /\ cs[IndexOf(cs, id)].id = id
    BY <1>1 DEF Has, IndexOf
  <2>2. cs[IndexOf(cs, id)] \in HomeConvs(h)
    BY <2>1
  <2>. QED  BY <1>1, <2>1, <2>2, ConvIsHome DEF TurnsOf
<1>2. CASE ~Has(cs, id)
  BY <1>2, EmptyIsHome DEF TurnsOf
<1>. QED  BY <1>1, <1>2

\* A conversation less.
LEMMA WithoutIsHome ==
  ASSUME NEW S, NEW cs \in Seq(S), NEW id
  PROVE  Without(cs, id) \in Seq(S)
<1>1. CASE Has(cs, id)
  <2>. DEFINE i == IndexOf(cs, id)
  <2>1. i \in DOMAIN cs /\ i \in 1..Len(cs)
    BY <1>1 DEF Has, IndexOf
  <2>2. SubSeq(cs, 1, i - 1) \in Seq(S) /\ SubSeq(cs, i + 1, Len(cs)) \in Seq(S)
    <3>1. \A j \in 1..i - 1 : cs[j] \in S
      BY <2>1
    <3>2. \A j \in i + 1..Len(cs) : cs[j] \in S
      BY <2>1
    <3>3. i - 1 \in Int /\ i + 1 \in Int /\ Len(cs) \in Int
      BY <2>1
    <3>. HIDE DEF i
    <3>. QED  BY <3>1, <3>2, <3>3, SubSeqProperties
  <2>. QED  BY <1>1, <2>2 DEF Without, RemoveAt
<1>2. CASE ~Has(cs, id)
  BY <1>2 DEF Without
<1>. QED  BY <1>1, <1>2

\* The turns of a conversation, kept in it.
LEMMA UpdatedIsHome ==
  ASSUME NEW h, NEW cs \in Seq(HomeConvs(h)), NEW id, NEW turns \in Seq(HomeTurn(h, id))
  PROVE  Updated(cs, id, turns) \in Seq(HomeConvs(h))
<1>1. CASE Has(cs, id)
  <2>1. PICK i \in DOMAIN cs : cs[i].id = id
    BY <1>1 DEF Has
  <2>2. cs[i] \in HomeConvs(h)
    BY <2>1
  <2>3. id \in Nat \ {0}
    BY <2>1, <2>2, ConvIsHome
  <2>4. [id |-> id, turns |-> turns] \in HomeConvs(h)
    BY <2>3 DEF HomeConvs
  <2>5. Without(cs, id) \in Seq(HomeConvs(h))
    BY WithoutIsHome
  <2>6. <<[id |-> id, turns |-> turns]>> \in Seq(HomeConvs(h))
    BY <2>4
  <2>. QED  BY <1>1, <2>5, <2>6 DEF Updated
<1>2. CASE ~Has(cs, id)
  BY <1>2 DEF Updated
<1>. QED  BY <1>1, <1>2

\* The first ones of a list.
LEMMA PrefixIsHome ==
  ASSUME NEW S, NEW cs \in Seq(S), NEW k \in Int, k <= Len(cs)
  PROVE  SubSeq(cs, 1, k) \in Seq(S)
<1>1. \A j \in 1..k : cs[j] \in S
  OBVIOUS
<1>. QED  BY <1>1, SubSeqProperties

\* What is written to localStorage is at home, and so is what is left of it when it is full.
LEMMA PersistIsHome ==
  ASSUME NEW h, NEW cs \in Seq(HomeConvs(h)), NEW id \in Nat, NEW n, Persist(cs, id, n)
  PROVE  localStore' \in HomeStore(h)
<1>. DEFINE k == IF Len(cs) < MaxStored THEN Len(cs) ELSE MaxStored
            kept1 == Limited(cs)
            half == SubSeq(kept1, 1, (Len(kept1) + 1) \div 2)
<1>1. kept1 \in Seq(HomeConvs(h))
  <2>1. k \in Int /\ k <= Len(cs)
    BY ChAssumption
  <2>. QED  BY <2>1, PrefixIsHome DEF Limited
<1>2. half \in Seq(HomeConvs(h))
  <2>1. Len(kept1) \in Nat
    BY <1>1
  <2>2. (Len(kept1) + 1) \div 2 \in Int /\ (Len(kept1) + 1) \div 2 <= Len(kept1)
    <3>. HIDE DEF kept1
    <3>1. CASE Len(kept1) = 0
      BY <3>1
    <3>2. CASE Len(kept1) > 0
      BY <2>1, <3>2
    <3>. QED  BY <2>1, <3>1, <3>2
  <2>. HIDE DEF kept1
  <2>. QED  BY <1>1, <2>2, PrefixIsHome
<1>3. half = <<>> \/ half[1].id \in Nat
  <2>. HIDE DEF half
  <2>1. half # <<>> => half[1] \in HomeConvs(h)
    BY <1>2
  <2>. QED  BY <2>1, ConvIsHome
<1>4. Nowhere \in HomeStore(h)
  BY EmptyIsHome DEF Nowhere, HomeStore
<1>5. [convs |-> kept1, active |-> id] \in HomeStore(h)
  BY <1>1 DEF HomeStore
<1>6. [convs |-> half, active |-> IF Has(half, id) THEN id ELSE IF half = <<>> THEN 0 ELSE half[1].id] \in HomeStore(h)
  <2>. HIDE DEF half
  <2>. QED  BY <1>2, <1>3 DEF HomeStore
<1>7. \/ localStore' = [convs |-> kept1, active |-> id]
      \/ localStore' \in {Nowhere, [convs |-> half, active |-> IF Has(half, id) THEN id ELSE IF half = <<>> THEN 0 ELSE half[1].id]}
  BY DEF Persist
<1>. HIDE DEF kept1, half
<1>. QED  BY <1>4, <1>5, <1>6, <1>7

\* The effects of a render keep turns where they were sent, and remember no others.
LEMMA RenderIsHome ==
  ASSUME NEW h, NEW cs \in Seq(HomeConvs(h)), NEW id \in Nat, NEW turns \in Seq(HomeTurn(h, id)), NEW st, NEW rec,
         NEW syn, NEW n, NEW ACTION Write, Write => localStore' \in HomeStore(h),
         Render(cs, id, turns, st, rec, syn, n, Write)
  PROVE  /\ convs' \in Seq(HomeConvs(h)) /\ active' = id /\ localStore' \in HomeStore(h)
         /\ shown' \in Seq(HomeTurn(h, id))
         /\ recent' \subseteq rec \cup {q \in DOMAIN h : h[q] = id}
<1>. DEFINE loads == Loads(cs, id, turns)
            turns2 == IF loads THEN TurnsOf(cs, id) ELSE turns
            syn2 == IF loads THEN SyncedWith(turns2) ELSE syn
            syncs == Syncs(id, turns2, syn2)
<1>1. /\ shown' = turns2
      /\ recent' = IF loads THEN PromptsOf(turns2) ELSE rec
      /\ active' = id
      /\ convs' = IF syncs THEN Updated(cs, id, turns2) ELSE cs
      /\ IF syncs THEN Persist(convs', id, n) ELSE Write
  BY DEF Render
<1>2. turns2 \in Seq(HomeTurn(h, id))
  <2>1. TurnsOf(cs, id) \in Seq(HomeTurn(h, id))
    BY TurnsAreHome
  <2>. QED  BY <2>1
<1>. HIDE DEF turns2, loads, syncs
<1>3. convs' \in Seq(HomeConvs(h))
  <2>1. Updated(cs, id, turns2) \in Seq(HomeConvs(h))
    BY <1>2, UpdatedIsHome
  <2>. QED  BY <1>1, <2>1
<1>4. localStore' \in HomeStore(h)
  <2>1. Persist(convs', id, n) => localStore' \in HomeStore(h)
    BY <1>3, PersistIsHome
  <2>. QED  BY <1>1, <2>1
<1>5. PromptsOf(turns2) \subseteq {q \in DOMAIN h : h[q] = id}
  BY <1>2 DEF PromptsOf, HomeTurn
<1>. QED  BY <1>1, <1>2, <1>3, <1>4, <1>5

\* A render whose handler writes localStorage.
LEMMA RenderPersists ==
  ASSUME NEW h, NEW cs \in Seq(HomeConvs(h)), NEW id \in Nat, NEW turns \in Seq(HomeTurn(h, id)), NEW st, NEW rec,
         NEW syn, NEW n, NEW j \in Nat,
         Render(cs, id, turns, st, rec, syn, n, Persist(cs, j, n))
  PROVE  /\ convs' \in Seq(HomeConvs(h)) /\ active' = id /\ localStore' \in HomeStore(h)
         /\ shown' \in Seq(HomeTurn(h, id))
         /\ recent' \subseteq rec \cup {q \in DOMAIN h : h[q] = id}
<1>1. Persist(cs, j, n) => localStore' \in HomeStore(h)
  BY PersistIsHome
<1>. QED  BY ONLY <1>1, RenderIsHome, Render(cs, id, turns, st, rec, syn, n, Persist(cs, j, n)),
             cs \in Seq(HomeConvs(h)), id \in Nat, turns \in Seq(HomeTurn(h, id))

\* A render of the same conversation.
LEMMA RerenderIsHome ==
  ASSUME AllHome, NEW turns \in Seq(HomeTurn(home, active)), NEW st, NEW rec, Rerender(turns, st, rec)
  PROVE  /\ convs' \in Seq(HomeConvs(home)) /\ active' = active /\ localStore' \in HomeStore(home)
         /\ shown' \in Seq(HomeTurn(home, active))
         /\ recent' \subseteq rec \cup {q \in DOMAIN home : home[q] = active}
<1>1. NoWrite => localStore' \in HomeStore(home)
  BY DEF AllHome, NoWrite
<1>2. Render(convs, active, turns, st, rec, synced, 0, NoWrite)
  BY DEF Rerender
<1>3. convs \in Seq(HomeConvs(home)) /\ active \in Nat
  BY DEF AllHome
<1>. QED  BY <1>1, <1>2, <1>3, RenderIsHome

\* What was at home stays so when another prompt is sent.
LEMMA HomeGrows ==
  ASSUME NEW h \in Seq(Nat \ {0}), NEW id
  PROVE  /\ \A i : HomeTurn(h, i) \subseteq HomeTurn(Append(h, id), i)
         /\ HomeConvs(h) \subseteq HomeConvs(Append(h, id))
         /\ HomeStore(h) \subseteq HomeStore(Append(h, id))
<1>1. ASSUME NEW i, NEW t \in HomeTurn(h, i)
      PROVE  t \in HomeTurn(Append(h, id), i)
  BY <1>1 DEF HomeTurn
<1>2. ASSUME NEW c \in HomeConvs(h)
      PROVE  c \in HomeConvs(Append(h, id))
  <2>1. HomeTurn(h, c.id) \subseteq HomeTurn(Append(h, id), c.id)
    BY <1>1
  <2>2. c.turns \in Seq(HomeTurn(Append(h, id), c.id))
    BY <2>1, ConvIsHome, SeqMono
  <2>. QED  BY <2>2, ConvIsHome
<1>3. ASSUME NEW c \in HomeStore(h)
      PROVE  c \in HomeStore(Append(h, id))
  BY <1>2, SeqMono DEF HomeStore
<1>. QED  BY <1>1, <1>2, <1>3

\* A new conversation has no turns.
LEMMA NewIsHome ==
  ASSUME NEW h, convs \in Seq(HomeConvs(h)), created \in Nat
  PROVE  WithNew \in Seq(HomeConvs(h)) /\ created + 1 \in Nat
<1>1. created + 1 \in Nat \ {0}
  OBVIOUS
<1>2. [id |-> created + 1, turns |-> <<>>] \in HomeConvs(h)
  BY <1>1, EmptyIsHome DEF HomeConvs
<1>. QED  BY <1>1, <1>2 DEF WithNew

\* What is sent goes to the conversation that is shown, or to a new one; it tells the model of what is remembered.
LEMMA SendKeeps ==
  ASSUME ChatInv, Send
  PROVE  ChatInv'
<1>. DEFINE p == Len(call) + 1
            creates == active = 0
            id == IF creates THEN created + 1 ELSE active
            first == TurnsOf(convs, active) = <<>> /\ shown = <<>>
            dropped == {q \in Prompts : q = p - 1 /\ call[q].at \in {"open", "stream", "hidden"}}
            turn == [prompt |-> p, status |-> "pending"]
            h == Append(home, id)
<1>. USE DEF ChatInv, AllHome, OwnHistory, Prompts
<1>1. /\ created' = IF creates THEN created + 1 ELSE created
      /\ call' = Append([q \in Prompts |-> IF q \in dropped THEN Over ELSE call[q]], [at |-> "job", titles |-> first])
      /\ onTitle' = [convs |-> convs, active |-> active]
      /\ home' = h /\ context' = Append(context, recent) /\ crossed' = crossed
      /\ IF creates
         THEN Render(WithNew, id, Append(shown, turn), "connecting", recent \cup dropped, synced, 0, Persist(WithNew, id, 0))
         ELSE Rerender(Append(shown, turn), "connecting", recent \cup dropped)
  BY DEF Send
<1>2. /\ p \in Nat \ {0} /\ id \in Nat \ {0} /\ DOMAIN home = 1..p - 1
      /\ h \in Seq(Nat \ {0}) /\ DOMAIN h = 1..p /\ h[p] = id /\ Len(h) = p
      /\ \A q \in 1..p - 1 : h[q] = home[q]
  OBVIOUS
<1>3. active = 0 => shown = <<>>
  <2>1. HomeTurn(home, 0) = {}
    BY DEF HomeTurn
  <2>. QED  BY <2>1
<1>4. turn \in HomeTurn(h, id)
  BY <1>2 DEF HomeTurn, TurnStatus
<1>5. shown \in Seq(HomeTurn(h, id))
  <2>1. CASE active = 0
    BY <1>3, <2>1, EmptyIsHome
  <2>2. CASE active # 0
    <3>1. id = active
      BY <2>2
    <3>2. HomeTurn(home, id) \subseteq HomeTurn(h, id)
      BY HomeGrows
    <3>. HIDE DEF h, id
    <3>. QED  BY <3>1, <3>2, SeqMono
  <2>. QED  BY <2>1, <2>2
<1>6. Append(shown, turn) \in Seq(HomeTurn(h, id))
  <2>. HIDE DEF turn, h, id
  <2>. QED  BY <1>4, <1>5
<1>7. /\ convs \in Seq(HomeConvs(h)) /\ localStore \in HomeStore(h)
      /\ [convs |-> convs, active |-> active] \in HomeStore(h)
  <2>1. HomeConvs(home) \subseteq HomeConvs(h) /\ HomeStore(home) \subseteq HomeStore(h)
    BY HomeGrows
  <2>. HIDE DEF h
  <2>. QED  BY <2>1, SeqMono DEF HomeStore
<1>8. /\ convs' \in Seq(HomeConvs(h)) /\ active' = id /\ localStore' \in HomeStore(h)
      /\ shown' \in Seq(HomeTurn(h, id))
      /\ recent' \subseteq recent \cup dropped \cup {q \in DOMAIN h : h[q] = id}
  <2>. HIDE DEF h, turn, dropped
  <2>1. CASE creates
    <3>1. WithNew \in Seq(HomeConvs(h))
      BY <1>7, NewIsHome
    <3>3. Render(WithNew, id, Append(shown, turn), "connecting", recent \cup dropped, synced, 0, Persist(WithNew, id, 0))
      BY <1>1, <2>1
    <3>. HIDE DEF id
    <3>4. id \in Nat
      BY <1>2
    <3>5. WithNew \in Seq(HomeConvs(h)) /\ Append(shown, turn) \in Seq(HomeTurn(h, id))
      BY <1>6, <3>1
    <3>6. ASSUME NEW cs \in Seq(HomeConvs(h)), NEW turns \in Seq(HomeTurn(h, id)), NEW rec,
                 Render(cs, id, turns, "connecting", rec, synced, 0, Persist(cs, id, 0))
          PROVE  /\ convs' \in Seq(HomeConvs(h)) /\ active' = id /\ localStore' \in HomeStore(h)
                 /\ shown' \in Seq(HomeTurn(h, id))
                 /\ recent' \subseteq rec \cup {q \in DOMAIN h : h[q] = id}
      BY ONLY <3>4, <3>6, RenderPersists
    <3>. QED  BY ONLY <3>3, <3>5, <3>6
  <2>2. CASE ~creates
    <3>1. Render(convs, id, Append(shown, turn), "connecting", recent \cup dropped, synced, 0, NoWrite)
      BY <1>1, <2>2 DEF Rerender
    <3>2. NoWrite => localStore' \in HomeStore(h)
      BY <1>7 DEF NoWrite
    <3>. HIDE DEF id
    <3>3. id \in Nat
      BY <1>2
    <3>. QED  BY <1>6, <1>7, <3>1, <3>2, <3>3, RenderIsHome
  <2>. QED  BY <2>1, <2>2
<1>9. AllHome'
  <2>. HIDE DEF h, id
  <2>. QED  BY <1>1, <1>2, <1>7, <1>8
<1>10. /\ call' \in Seq(CallSet) /\ Len(call') = Len(h)
       /\ \A q \in 1..p - 1 : call'[q] # Over => call[q] # Over
  <2>1. Over \in CallSet /\ [at |-> "job", titles |-> first] \in CallSet
    <3>. HIDE DEF first
    <3>1. first \in BOOLEAN
      BY DEF first
    <3>. QED  BY <3>1 DEF Over, CallSet
  <2>. DEFINE before == [q \in Prompts |-> IF q \in dropped THEN Over ELSE call[q]]
  <2>2. before \in Seq(CallSet) /\ Len(before) = p - 1
    <3>. HIDE DEF dropped, Over
    <3>. QED  BY <2>1
  <2>3. \A q \in 1..p - 1 : before[q] # Over => call[q] # Over
    OBVIOUS
  <2>. HIDE DEF before, first, dropped, h, id
  <2>. QED  BY <1>1, <1>2, <2>1, <2>2, <2>3
<1>11. dropped \subseteq DOMAIN home /\ \A q \in dropped : call[q] # Over
  BY DEF Over
<1>12. ASSUME ~crossed
       PROVE  /\ \A q \in recent : h[q] = id
              /\ \A q \in 1..p - 1 : call[q] # Over => h[q] = id
  <2>1. ASSUME NEW q \in DOMAIN home, home[q] = active
        PROVE  h[q] = id
    <3>1. home[q] # 0 /\ q \in 1..p - 1
      BY <1>2
    <3>2. id = active
      BY <2>1, <3>1
    <3>. HIDE DEF h, id
    <3>. QED  BY <1>2, <2>1, <3>1, <3>2
  <2>2. /\ \A q \in recent : q \in DOMAIN home /\ home[q] = active
        /\ \A q \in 1..p - 1 : q \in DOMAIN home /\ (call[q] # Over => home[q] = active)
    BY <1>2, <1>12
  <2>. HIDE DEF h, id
  <2>. QED  BY <2>1, <2>2
<1>13. OwnHistory'
  <2>1. recent' \subseteq DOMAIN h
    <3>. HIDE DEF h, id, dropped
    <3>1. DOMAIN home \subseteq DOMAIN h /\ recent \subseteq DOMAIN home
      BY <1>2
    <3>. QED  BY <1>8, <1>11, <3>1
  <2>2. context' \in Seq(SUBSET DOMAIN h) /\ Len(context') = Len(h)
    <3>1. recent \in SUBSET DOMAIN h /\ SUBSET DOMAIN home \subseteq SUBSET DOMAIN h
      BY <1>2
    <3>2. context \in Seq(SUBSET DOMAIN h)
      <4>. HIDE DEF h
      <4>. QED  BY <3>1, SeqMono
    <3>. HIDE DEF h
    <3>. QED  BY <1>1, <1>2, <3>1, <3>2
  <2>3. ASSUME ~crossed
        PROVE  /\ \A q \in recent' : h[q] = id
               /\ \A q \in DOMAIN h : call'[q] # Over => h[q] = id
               /\ \A i \in DOMAIN h : \A q \in context'[i] : h[q] = h[i]
    <3>1. \A q \in recent' : h[q] = id
      <4>. HIDE DEF h, id, dropped
      <4>. QED  BY <1>2, <1>8, <1>11, <1>12, <2>3
    <3>2. \A q \in DOMAIN h : call'[q] # Over => h[q] = id
      <4>. HIDE DEF h, id
      <4>1. ASSUME NEW q \in 1..p - 1, call'[q] # Over
            PROVE  h[q] = id
        BY <1>10, <1>12, <2>3, <4>1
      <4>2. \A q \in 1..p : q = p \/ q \in 1..p - 1
        BY <1>2
      <4>. HIDE DEF p
      <4>. QED  BY <1>2, <4>1, <4>2
    <3>3. ASSUME NEW i \in DOMAIN h, NEW q \in context'[i]
          PROVE  h[q] = h[i]
      <4>1. CASE i = p
        <5>1. context'[i] = recent
          BY <1>1, <1>2, <4>1
        <5>. HIDE DEF h, id
        <5>. QED  BY <1>2, <1>12, <2>3, <3>3, <4>1, <5>1
      <4>2. CASE i # p
        <5>1. i \in 1..p - 1 /\ context'[i] = context[i] /\ context[i] \subseteq DOMAIN home
          BY <1>1, <1>2, <4>2
        <5>2. home[q] = home[i]
          BY <2>3, <3>3, <5>1
        <5>. HIDE DEF h
        <5>. QED  BY <1>2, <3>3, <5>1, <5>2
      <4>. QED  BY <4>1, <4>2
    <3>. QED  BY <3>1, <3>2, <3>3
  <2>. HIDE DEF h, id
  <2>. QED  BY <1>1, <1>8, <1>10, <2>1, <2>2, <2>3
<1>. QED  BY <1>9, <1>13

\* What the user does: what is remembered is that of the conversation that is active now, or it
\* was not changed.
LEMMA CrossingKeeps ==
  ASSUME AllHome, OwnHistory, Crossing, NoCalls,
         \/ recent' \subseteq {q \in DOMAIN home : home[q] = active'}
         \/ active' = active /\ recent' \subseteq recent \cup {q \in DOMAIN home : home[q] = active'}
  PROVE  OwnHistory'
<1>1. /\ UNCHANGED <<call, home, context>>
      /\ crossed' = (crossed \/ \E p \in DOMAIN home : call[p] # Over)
  <2>1. Prompts = DOMAIN home
    BY DEF OwnHistory, AllHome, Prompts
  <2>. QED  BY <2>1 DEF Crossing, NoCalls, UnderWay
<1>2. crossed' \in BOOLEAN /\ recent' \subseteq DOMAIN home
  BY <1>1 DEF OwnHistory
<1>3. ASSUME ~crossed'
      PROVE  /\ ~crossed /\ \A p \in DOMAIN home : call[p] = Over
             /\ \A q \in recent' : home[q] = active'
  BY <1>1, <1>3 DEF OwnHistory
<1>. QED  BY <1>1, <1>2, <1>3 DEF OwnHistory

\* What a sendPrompt does: what is remembered was, or is that of the conversation that is active,
\* or of a prompt that was under way.
LEMMA GoingOnKeeps ==
  ASSUME AllHome, OwnHistory, UNCHANGED <<home, context, crossed>>, active' = active,
         \A q \in recent' : q \in DOMAIN home /\ (q \in recent \/ home[q] = active \/ call[q] # Over),
         call' \in Seq(CallSet), Len(call') = Len(call),
         \A q \in DOMAIN home : call'[q] # Over => call[q] # Over
  PROVE  OwnHistory'
BY DEF OwnHistory, AllHome

\* A new conversation is empty.
LEMMA NewConversationKeeps ==
  ASSUME ChatInv, NewConversation
  PROVE  ChatInv'
<1>1. AllHome /\ OwnHistory /\ Crossing /\ NoCalls /\ created' = created + 1
  BY DEF NewConversation, ChatInv
<1>2. /\ WithNew \in Seq(HomeConvs(home)) /\ created + 1 \in Nat
      /\ <<>> \in Seq(HomeTurn(home, created + 1))
  BY <1>1, NewIsHome, EmptyIsHome DEF AllHome
<1>3. Render(WithNew, created + 1, <<>>, "idle", {}, synced, 0, Persist(WithNew, created + 1, 0))
  BY DEF NewConversation, ClearedRecent
<1>4. /\ convs' \in Seq(HomeConvs(home)) /\ active' = created + 1 /\ localStore' \in HomeStore(home)
      /\ shown' \in Seq(HomeTurn(home, active'))
      /\ recent' \subseteq {q \in DOMAIN home : home[q] = active'}
  <2>. DEFINE id == created + 1
  <2>. HIDE DEF id
  <2>1. id \in Nat /\ <<>> \in Seq(HomeTurn(home, id)) /\ Render(WithNew, id, <<>>, "idle", {}, synced, 0, Persist(WithNew, id, 0))
    BY <1>2, <1>3 DEF id
  <2>2. ASSUME NEW cs \in Seq(HomeConvs(home)), NEW turns \in Seq(HomeTurn(home, id)), NEW rec,
               Render(cs, id, turns, "idle", rec, synced, 0, Persist(cs, id, 0))
        PROVE  /\ convs' \in Seq(HomeConvs(home)) /\ active' = id /\ localStore' \in HomeStore(home)
               /\ shown' \in Seq(HomeTurn(home, id))
               /\ recent' \subseteq rec \cup {q \in DOMAIN home : home[q] = id}
    BY ONLY <2>1, <2>2, RenderPersists
  <2>3. /\ convs' \in Seq(HomeConvs(home)) /\ active' = id /\ localStore' \in HomeStore(home)
        /\ shown' \in Seq(HomeTurn(home, id))
        /\ recent' \subseteq {} \cup {q \in DOMAIN home : home[q] = id}
    BY ONLY <1>2, <2>1, <2>2
  <2>. QED  BY ONLY <2>3 DEF id
<1>5. OwnHistory'
  BY ONLY <1>1, <1>4, CrossingKeeps
<1>6. AllHome'
  BY <1>1, <1>2, <1>4 DEF AllHome, NoCalls
<1>. QED  BY <1>5, <1>6 DEF ChatInv

\* Selecting a conversation shows what is kept of it.
LEMMA SelectKeeps ==
  ASSUME ChatInv, NEW k \in DOMAIN convs, SelectConversation(convs[k])
  PROVE  ChatInv'
<1>. DEFINE id == convs[k].id
            turns == convs[k].turns
            rec == IF turns = <<>> THEN {} ELSE PromptsOf(turns)
            syn == IF turns = <<>> THEN 0 ELSE SyncedWith(turns)
<1>1. AllHome /\ OwnHistory /\ Crossing /\ NoCalls /\ created' = created
  BY DEF SelectConversation, ChatInv
<1>2. convs \in Seq(HomeConvs(home)) /\ convs[k] \in HomeConvs(home)
  BY <1>1 DEF AllHome
<1>3. id \in Nat /\ turns \in Seq(HomeTurn(home, id))
  BY <1>2, ConvIsHome
<1>4. rec \subseteq {q \in DOMAIN home : home[q] = id}
  BY <1>3 DEF PromptsOf, HomeTurn
<1>5. Render(convs, id, turns, "idle", rec, syn, 1, Persist(convs, id, 1))
  BY DEF SelectConversation, ClearedRecent
<1>. HIDE DEF id, turns, rec, syn
<1>6. /\ convs' \in Seq(HomeConvs(home)) /\ active' = id /\ localStore' \in HomeStore(home)
      /\ shown' \in Seq(HomeTurn(home, id))
      /\ recent' \subseteq rec \cup {q \in DOMAIN home : home[q] = id}
  BY ONLY <1>2, <1>3, <1>5, RenderPersists
<1>7. OwnHistory'
  <2>1. recent' \subseteq {q \in DOMAIN home : home[q] = active'}
    BY <1>4, <1>6
  <2>. QED  BY ONLY <1>1, <2>1, CrossingKeeps
<1>8. AllHome'
  BY <1>1, <1>3, <1>6 DEF AllHome, NoCalls
<1>. QED  BY <1>7, <1>8 DEF ChatInv

\* Deleting one leaves the others as they were; the chat is emptied if it was the active one.
LEMMA DeleteKeeps ==
  ASSUME ChatInv, NEW k \in DOMAIN convs, DeleteConversation(convs[k])
  PROVE  ChatInv'
<1>. DEFINE id == convs[k].id
            rest == Without(convs, id)
            next == IF active # id THEN active ELSE IF rest = <<>> THEN 0 ELSE rest[1].id
<1>1. AllHome /\ OwnHistory /\ Crossing /\ NoCalls /\ created' = created
  BY DEF DeleteConversation, ChatInv
<1>2. rest \in Seq(HomeConvs(home))
  BY <1>1, WithoutIsHome DEF AllHome
<1>3. next \in Nat
  <2>. HIDE DEF rest
  <2>1. rest # <<>> => rest[1] \in HomeConvs(home)
    BY <1>2
  <2>2. rest # <<>> => rest[1].id \in Nat
    BY <2>1, ConvIsHome
  <2>. QED  BY <1>1, <2>2 DEF AllHome
<1>4. IF active = id THEN Render(rest, next, <<>>, "idle", {}, synced, 1, Persist(rest, next, 1))
      ELSE Render(rest, next, shown, status, recent, synced, 1, Persist(rest, next, 1))
  BY DEF DeleteConversation, ClearedRecent
<1>5. active # id => next = active /\ shown \in Seq(HomeTurn(home, next))
  BY <1>1 DEF AllHome
<1>6. <<>> \in Seq(HomeTurn(home, next))
  BY EmptyIsHome
<1>. HIDE DEF id, rest, next
<1>7. /\ convs' \in Seq(HomeConvs(home)) /\ active' = next /\ localStore' \in HomeStore(home)
      /\ shown' \in Seq(HomeTurn(home, next))
      /\ recent' \subseteq (IF active = id THEN {} ELSE recent) \cup {q \in DOMAIN home : home[q] = next}
  <2>1. CASE active = id
    <3>1. Render(rest, next, <<>>, "idle", {}, synced, 1, Persist(rest, next, 1))
      BY <1>4, <2>1
    <3>2. /\ convs' \in Seq(HomeConvs(home)) /\ active' = next /\ localStore' \in HomeStore(home)
          /\ shown' \in Seq(HomeTurn(home, next))
          /\ recent' \subseteq {} \cup {q \in DOMAIN home : home[q] = next}
      BY ONLY <1>2, <1>3, <1>6, <3>1, RenderPersists
    <3>. QED  BY <2>1, <3>2
  <2>2. CASE active # id
    <3>1. Render(rest, next, shown, status, recent, synced, 1, Persist(rest, next, 1))
      BY <1>4, <2>2
    <3>2. /\ convs' \in Seq(HomeConvs(home)) /\ active' = next /\ localStore' \in HomeStore(home)
          /\ shown' \in Seq(HomeTurn(home, next))
          /\ recent' \subseteq recent \cup {q \in DOMAIN home : home[q] = next}
      <4>1. shown \in Seq(HomeTurn(home, next))
        BY <1>5, <2>2
      <4>. QED  BY ONLY <1>2, <1>3, <4>1, <3>1, RenderPersists
    <3>. QED  BY <2>2, <3>2
  <2>. QED  BY <2>1, <2>2
<1>8. OwnHistory'
  <2>1. \/ recent' \subseteq {q \in DOMAIN home : home[q] = active'}
        \/ active' = active /\ recent' \subseteq recent \cup {q \in DOMAIN home : home[q] = active'}
    BY <1>5, <1>7
  <2>. QED  BY ONLY <1>1, <2>1, CrossingKeeps
<1>9. AllHome'
  BY <1>1, <1>3, <1>7 DEF AllHome, NoCalls
<1>. QED  BY <1>8, <1>9 DEF ChatInv

\* Reset empties the chat and what is kept of it.
LEMMA ClearKeeps ==
  ASSUME ChatInv, ClearMessages
  PROVE  ChatInv'
<1>. DEFINE cs == Updated(convs, active, <<>>)
<1>1. AllHome /\ OwnHistory /\ Crossing /\ NoCalls /\ created' = created
  BY DEF ClearMessages, ChatInv
<1>2. active \in Nat /\ <<>> \in Seq(HomeTurn(home, active)) /\ convs \in Seq(HomeConvs(home))
  BY <1>1, EmptyIsHome DEF AllHome
<1>3. cs \in Seq(HomeConvs(home))
  BY <1>2, UpdatedIsHome
<1>4. Render(cs, active, <<>>, "idle", {}, 0, 1, Persist(cs, active, 1))
  BY DEF ClearMessages, ClearedRecent
<1>. HIDE DEF cs
<1>5. /\ convs' \in Seq(HomeConvs(home)) /\ active' = active /\ localStore' \in HomeStore(home)
      /\ shown' \in Seq(HomeTurn(home, active))
      /\ recent' \subseteq {} \cup {q \in DOMAIN home : home[q] = active}
  BY ONLY <1>2, <1>3, <1>4, RenderPersists
<1>6. OwnHistory'
  <2>1. recent' \subseteq {q \in DOMAIN home : home[q] = active'}
    BY <1>5
  <2>. QED  BY ONLY <1>1, <2>1, CrossingKeeps
<1>7. AllHome'
  BY <1>1, <1>2, <1>5 DEF AllHome, NoCalls
<1>. QED  BY <1>6, <1>7 DEF ChatInv

\* After a reload only localStorage is left, and nothing is under way.
LEMMA ReloadKeeps ==
  ASSUME ChatInv, Reload
  PROVE  ChatInv'
<1>. DEFINE id == localStore.active
            loads == Loads(localStore.convs, id, <<>>)
            turns == IF loads THEN TurnsOf(localStore.convs, id) ELSE <<>>
<1>1. AllHome /\ OwnHistory
  BY DEF ChatInv
<1>2. /\ call' = [p \in Prompts |-> Over] /\ onTitle' = Nowhere
      /\ convs' = localStore.convs /\ active' = id /\ shown' = turns /\ recent' = PromptsOf(turns)
      /\ Crossing /\ UNCHANGED <<localStore, home, context, created>>
  BY DEF Reload
<1>3. localStore.convs \in Seq(HomeConvs(home)) /\ id \in Nat
  BY <1>1 DEF AllHome, HomeStore
<1>4. turns \in Seq(HomeTurn(home, id))
  BY <1>3, TurnsAreHome, EmptyIsHome
<1>5. PromptsOf(turns) \subseteq {q \in DOMAIN home : home[q] = id}
  <2>. HIDE DEF turns, id
  <2>. QED  BY <1>4 DEF PromptsOf, HomeTurn
<1>6. Nowhere \in HomeStore(home)
  BY EmptyIsHome DEF Nowhere, HomeStore
<1>7. AllHome'
  <2>. HIDE DEF turns
  <2>. QED  BY <1>1, <1>2, <1>3, <1>4, <1>6 DEF AllHome
<1>8. OwnHistory'
  <2>1. Prompts = DOMAIN home /\ Prompts = 1..Len(home)
    BY <1>1 DEF OwnHistory, AllHome, Prompts
  <2>2. crossed' = (crossed \/ \E p \in DOMAIN home : call[p] # Over)
    BY <1>2, <2>1 DEF Crossing, UnderWay
  <2>3. Over \in CallSet
    BY DEF Over, CallSet
  <2>4. call' \in Seq(CallSet) /\ Len(call') = Len(home') /\ \A p \in DOMAIN home : call'[p] = Over
    <3>. HIDE DEF Over
    <3>1. Len(home) \in Nat
      BY <1>1 DEF AllHome
    <3>. QED  BY <1>2, <2>1, <2>3, <3>1
  <2>5. /\ recent' \subseteq {q \in DOMAIN home : home[q] = active'}
        /\ crossed' \in BOOLEAN /\ (~crossed' => ~crossed)
    BY <1>1, <1>2, <1>5, <2>2 DEF OwnHistory
  <2>. HIDE DEF turns, id
  <2>. QED  BY <1>1, <1>2, <2>4, <2>5 DEF OwnHistory
<1>. QED  BY <1>7, <1>8 DEF ChatInv

\* The status of a turn changes, its prompt does not.
LEMMA TurnedIsHome ==
  ASSUME AllHome, NEW p, NEW s \in TurnStatus
  PROVE  Turned(p, s) \in Seq(HomeTurn(home, active))
<1>1. shown \in Seq(HomeTurn(home, active))
  BY DEF AllHome
<1>2. ASSUME NEW t \in HomeTurn(home, active)
      PROVE  [t EXCEPT !.status = s] \in HomeTurn(home, active)
  BY DEF HomeTurn
<1>3. \A i \in 1..Len(shown) : Turned(p, s)[i] \in HomeTurn(home, active)
  BY <1>1, <1>2 DEF Turned
<1>4. DOMAIN Turned(p, s) = 1..Len(shown) /\ Len(shown) \in Nat
  BY <1>1 DEF Turned
<1>5. Turned(p, s) = [i \in 1..Len(shown) |-> Turned(p, s)[i]]
  BY <1>1 DEF Turned
<1>. QED  BY ONLY <1>3, <1>4, <1>5

\* Where a call is changes only the call.
LEMMA CallIsThere ==
  ASSUME OwnHistory, NEW p \in Prompts, NEW c \in CallSet, call[p] # Over, call' = [call EXCEPT ![p] = c]
  PROVE  /\ call' \in Seq(CallSet) /\ Len(call') = Len(call)
         /\ \A q \in Prompts : call'[q] # Over => call[q] # Over
BY DEF OwnHistory, Prompts

\* A step of a sendPrompt that shows the same conversation again.
LEMMA RerenderKeeps ==
  ASSUME ChatInv, Unasked, NEW turns \in Seq(HomeTurn(home, active)), NEW st, NEW rec, Rerender(turns, st, rec),
         \A q \in rec : q \in recent \/ (q \in Prompts /\ call[q] # Over),
         call' \in Seq(CallSet), Len(call') = Len(call),
         \A q \in Prompts : call'[q] # Over => call[q] # Over
  PROVE  ChatInv'
<1>1. AllHome /\ OwnHistory /\ UNCHANGED <<onTitle, created, home, context, crossed>>
  BY DEF ChatInv, Unasked
<1>2. /\ convs' \in Seq(HomeConvs(home)) /\ active' = active /\ localStore' \in HomeStore(home)
      /\ shown' \in Seq(HomeTurn(home, active))
      /\ recent' \subseteq rec \cup {q \in DOMAIN home : home[q] = active}
  BY <1>1, RerenderIsHome
<1>3. Prompts = DOMAIN home /\ recent \subseteq DOMAIN home
  BY <1>1 DEF OwnHistory, AllHome, Prompts
<1>4. OwnHistory'
  <2>1. \A q \in recent' : q \in DOMAIN home /\ (q \in recent \/ home[q] = active \/ call[q] # Over)
    BY <1>2, <1>3
  <2>2. \A q \in DOMAIN home : call'[q] # Over => call[q] # Over
    BY <1>3
  <2>. QED  BY <1>1, <1>2, <2>1, <2>2, GoingOnKeeps
<1>5. AllHome'
  BY <1>1, <1>2 DEF AllHome
<1>. QED  BY <1>4, <1>5 DEF ChatInv

\* A step that leaves the chat and what is kept alone.
LEMMA QuietKeeps ==
  ASSUME ChatInv, UNCHANGED <<kept, chat, onTitle, created, home, context, crossed>>,
         call' \in Seq(CallSet), Len(call') = Len(call),
         \A q \in Prompts : call'[q] # Over => call[q] # Over
  PROVE  ChatInv'
<1>1. AllHome /\ OwnHistory
  BY DEF ChatInv
<1>2. Prompts = DOMAIN home /\ recent \subseteq DOMAIN home
  BY <1>1 DEF OwnHistory, AllHome, Prompts
<1>3. OwnHistory'
  BY <1>1, <1>2, GoingOnKeeps DEF kept, chat
<1>4. AllHome'
  BY <1>1 DEF AllHome, kept, chat
<1>. QED  BY <1>3, <1>4 DEF ChatInv

\* Where a call that is under way goes.
LEMMA CallsAreCalls ==
  ASSUME OwnHistory, NEW p \in Prompts
  PROVE  /\ call[p] \in CallSet /\ Over \in CallSet
         /\ call[p].at # "over" => call[p] # Over
         /\ \A w \in {"open", "stream", "hidden"} : [at |-> w, titles |-> call[p].titles] \in CallSet
         /\ \A w \in {"open", "stream", "hidden"} :
              [call[p] EXCEPT !.at = w] = [at |-> w, titles |-> call[p].titles]
<1>1. call[p] \in CallSet
  BY DEF OwnHistory, Prompts
<1>. QED  BY <1>1 DEF CallSet, Over

\* A call goes somewhere else.
LEMMA AtKeeps ==
  ASSUME OwnHistory, NEW p \in Prompts, NEW w \in {"open", "stream"}, call[p].at # "over", At(p, w)
  PROVE  /\ call' \in Seq(CallSet) /\ Len(call') = Len(call)
         /\ \A q \in Prompts : call'[q] # Over => call[q] # Over
<1>1. call[p] \in CallSet /\ call[p] # Over /\ [at |-> w, titles |-> call[p].titles] \in CallSet
  BY CallsAreCalls
<1>2. call' = [call EXCEPT ![p] = [at |-> w, titles |-> call[p].titles]]
  <2>1. [call[p] EXCEPT !.at = w] = [at |-> w, titles |-> call[p].titles]
    BY <1>1 DEF CallSet
  <2>2. call' = [call EXCEPT ![p] = [call[p] EXCEPT !.at = w]]
    BY DEF At
  <2>. QED  BY <2>1, <2>2
<1>. QED  BY <1>1, <1>2, CallIsThere

\* The title is set in the conversations there were, all of them at home.
LEMMA HearTitleKeeps ==
  ASSUME ChatInv, NEW p \in Prompts, HearTitle(p)
  PROVE  ChatInv'
<1>1. AllHome /\ OwnHistory /\ UNCHANGED <<call, onTitle, created, home, context, crossed>>
  BY DEF ChatInv, HearTitle, Unasked
<1>2. CASE onTitle.active = 0
  <2>1. UNCHANGED <<kept, chat>>
    BY <1>2 DEF HearTitle
  <2>. QED  BY <1>1, <2>1, QuietKeeps DEF OwnHistory
<1>3. CASE onTitle.active # 0
  <2>. DEFINE j == onTitle.active
              cs == Updated(onTitle.convs, j, TurnsOf(onTitle.convs, j))
  <2>1. onTitle.convs \in Seq(HomeConvs(home)) /\ j \in Nat
    BY <1>1 DEF AllHome, HomeStore
  <2>2. cs \in Seq(HomeConvs(home))
    BY <2>1, TurnsAreHome, UpdatedIsHome
  <2>3. Render(cs, active, shown, status, recent, synced, 0, Persist(cs, j, 0))
    BY <1>3 DEF HearTitle
  <2>4. active \in Nat /\ shown \in Seq(HomeTurn(home, active))
    BY <1>1 DEF AllHome
  <2>. HIDE DEF cs, j
  <2>5. /\ convs' \in Seq(HomeConvs(home)) /\ active' = active /\ localStore' \in HomeStore(home)
        /\ shown' \in Seq(HomeTurn(home, active))
        /\ recent' \subseteq recent \cup {q \in DOMAIN home : home[q] = active}
    BY ONLY <2>1, <2>2, <2>3, <2>4, RenderPersists
  <2>6. OwnHistory'
    <3>1. \A q \in recent' : q \in DOMAIN home /\ (q \in recent \/ home[q] = active \/ call[q] # Over)
      BY <1>1, <2>5 DEF OwnHistory
    <3>2. call' \in Seq(CallSet) /\ Len(call') = Len(call) /\ \A q \in DOMAIN home : call'[q] # Over => call[q] # Over
      BY <1>1 DEF OwnHistory
    <3>. QED  BY <1>1, <2>5, <3>1, <3>2, GoingOnKeeps
  <2>7. AllHome'
    BY <1>1, <2>5 DEF AllHome
  <2>. QED  BY <2>6, <2>7 DEF ChatInv
<1>. QED  BY <1>2, <1>3

\* A call goes on: its own turn changes, in the conversation that is shown.
LEMMA ProceedsKeeps ==
  ASSUME ChatInv, NEW p \in Prompts, Proceeds(p)
  PROVE  ChatInv'
<1>1. AllHome /\ OwnHistory
  BY DEF ChatInv
<1>2. Over \in CallSet /\ (call[p].at # "over" => call[p] # Over)
  BY <1>1, CallsAreCalls
<1>3. \A s \in TurnStatus : Turned(p, s) \in Seq(HomeTurn(home, active))
  BY <1>1, TurnedIsHome
<1>4. shown \in Seq(HomeTurn(home, active))
  BY <1>1 DEF AllHome
<1>5. call \in Seq(CallSet)
  BY <1>1 DEF OwnHistory
<1>6. {"streaming", "complete", "error"} \subseteq TurnStatus
  BY DEF TurnStatus
<1>7. CASE GetJob(p)
  <2>1. call[p].at # "over" /\ At(p, "open") /\ UNCHANGED <<kept, chat, onTitle, created, home, context, crossed>>
    BY <1>7 DEF GetJob, Unasked
  <2>2. /\ call' \in Seq(CallSet) /\ Len(call') = Len(call)
        /\ \A q \in Prompts : call'[q] # Over => call[q] # Over
    BY <1>1, <2>1, AtKeeps
  <2>. QED  BY <2>1, <2>2, QuietKeeps
<1>8. CASE Open(p)
  <2>1. call[p].at # "over" /\ At(p, "stream")
    BY <1>8 DEF Open
  <2>2. /\ call' \in Seq(CallSet) /\ Len(call') = Len(call)
        /\ \A q \in Prompts : call'[q] # Over => call[q] # Over
    BY <1>1, <2>1, AtKeeps
  <2>. QED  BY <1>4, <1>8, <2>2, RerenderKeeps DEF Open
<1>9. CASE Break(p)
  <2>1. call' = [call EXCEPT ![p] = Over] /\ call[p].at # "over"
    BY <1>9 DEF Break, Ends
  <2>2. /\ call' \in Seq(CallSet) /\ Len(call') = Len(call)
        /\ \A q \in Prompts : call'[q] # Over => call[q] # Over
    BY ONLY <1>1, <1>2, <2>1, p \in Prompts, CallIsThere
  <2>. QED  BY <1>3, <1>6, <1>9, <2>2, RerenderKeeps DEF Break
<1>10. CASE HearThought(p)
  BY <1>3, <1>5, <1>6, <1>10, RerenderKeeps DEF HearThought
<1>11. CASE HearMore(p)
  BY <1>5, <1>11, QuietKeeps DEF HearMore, Unasked
<1>12. CASE HearConfig(p)
  BY <1>3, <1>5, <1>6, <1>12, RerenderKeeps DEF HearConfig
<1>13. CASE HearError(p)
  BY <1>3, <1>5, <1>6, <1>13, RerenderKeeps DEF HearError
<1>14. CASE HearTitle(p)
  BY <1>14, HearTitleKeeps
<1>15. CASE HearDone(p)
  <2>1. call' = [call EXCEPT ![p] = Over] /\ call[p].at # "over"
    BY <1>15 DEF HearDone, Ends
  <2>2. /\ call' \in Seq(CallSet) /\ Len(call') = Len(call)
        /\ \A q \in Prompts : call'[q] # Over => call[q] # Over
    BY ONLY <1>1, <1>2, <2>1, p \in Prompts, CallIsThere
  <2>3. \A q \in recent \cup {p} : q \in recent \/ (q \in Prompts /\ call[q] # Over)
    BY <1>2, <2>1
  <2>. QED  BY <1>3, <1>6, <1>15, <2>2, <2>3, RerenderKeeps DEF HearDone
<1>. QED  BY <1>7, <1>8, <1>9, <1>10, <1>11, <1>12, <1>13, <1>14, <1>15 DEF Proceeds

\* Hiding the page and showing it again keeps who is under way.
LEMMA PageKeeps ==
  ASSUME ChatInv, HidePage \/ ShowPage
  PROVE  ChatInv'
<1>1. OwnHistory /\ UNCHANGED <<kept, chat, onTitle, created, home, context, crossed>>
  BY DEF ChatInv, HidePage, ShowPage, bounds
<1>2. ASSUME NEW p \in Prompts
      PROVE  /\ [call[p] EXCEPT !.at = "hidden"] \in CallSet /\ [call[p] EXCEPT !.at = "open"] \in CallSet
             /\ call[p] \in CallSet
             /\ call[p].at \in {"open", "stream", "hidden"} => call[p] # Over
  BY <1>1, CallsAreCalls
<1>3. Prompts = 1..Len(call) /\ Len(call) \in Nat
  BY <1>1 DEF OwnHistory, Prompts
<1>4. /\ call' \in Seq(CallSet) /\ Len(call') = Len(call)
      /\ \A q \in Prompts : call'[q] # Over => call[q] # Over
  <2>1. CASE HidePage
    <3>1. call' = [p \in Prompts |-> IF call[p].at \in {"open", "stream"} THEN [call[p] EXCEPT !.at = "hidden"]
                                     ELSE call[p]]
      BY <2>1 DEF HidePage
    <3>2. \A p \in Prompts : call'[p] \in CallSet /\ (call'[p] # Over => call[p] # Over)
      BY <1>2, <3>1
    <3>3. call' = [p \in 1..Len(call) |-> call'[p]]
      BY <1>3, <3>1
    <3>. QED  BY ONLY <1>3, <3>2, <3>3
  <2>2. CASE ShowPage
    <3>1. call' = [p \in Prompts |-> IF call[p].at = "hidden" THEN [call[p] EXCEPT !.at = "open"] ELSE call[p]]
      BY <2>2 DEF ShowPage
    <3>2. \A p \in Prompts : call'[p] \in CallSet /\ (call'[p] # Over => call[p] # Over)
      BY <1>2, <3>1
    <3>3. call' = [p \in 1..Len(call) |-> call'[p]]
      BY <1>3, <3>1
    <3>. QED  BY ONLY <1>3, <3>2, <3>3
  <2>. QED  BY <2>1, <2>2
<1>. QED  BY <1>1, <1>4, QuietKeeps

\* Conversations do not mix (useAssistant.ts, useAssistantStorage.ts, AssistantContext.tsx), however
\* many prompts, conversations and reloads there are, and however few of them localStorage keeps: no
\* turn is kept in, or shown with, a conversation it was not sent in, and what the model is told of
\* is of the same conversation, unless it was changed while an answer arrived.
THEOREM ConversationsAreApart == ChSpec => []ConversationsStayApart
<1>1. ChInit => ChatInv
  <2>. SUFFICES ASSUME ChInit PROVE ChatInv
    OBVIOUS
  <2>1. Nowhere \in HomeStore(<<>>)
    BY EmptyIsHome DEF Nowhere, HomeStore
  <2>2. AllHome
    BY <2>1, EmptyIsHome DEF ChInit, AllHome
  <2>3. OwnHistory
    <3>1. /\ call = <<>> /\ home = <<>> /\ context = <<>> /\ recent = {} /\ crossed = FALSE
      BY DEF ChInit
    <3>2. DOMAIN home = {} /\ Len(home) = Len(call) /\ Len(context) = Len(home)
      BY <3>1
    <3>3. call \in Seq(CallSet) /\ context \in Seq(SUBSET DOMAIN home)
      BY <3>1, EmptyIsHome
    <3>. QED  BY <3>1, <3>2, <3>3 DEF OwnHistory
  <2>. QED  BY <2>2, <2>3 DEF ChatInv
<1>2. ChatInv /\ [ChNext]_chVars => ChatInv'
  <2>. SUFFICES ASSUME ChatInv, [ChNext]_chVars PROVE ChatInv'
    OBVIOUS
  <2>1. CASE Send
    BY <2>1, SendKeeps
  <2>2. CASE NewConversation
    BY <2>2, NewConversationKeeps
  <2>3. CASE ClearMessages
    BY <2>3, ClearKeeps
  <2>4. CASE HistoryView
    BY <2>4, SelectKeeps, DeleteKeeps DEF HistoryView
  <2>5. CASE Reload
    BY <2>5, ReloadKeeps
  <2>6. CASE HidePage \/ ShowPage
    BY <2>6, PageKeeps
  <2>7. CASE \E p \in Prompts : Proceeds(p)
    BY <2>7, ProceedsKeeps
  <2>8. CASE UNCHANGED chVars
    BY <2>8, QuietKeeps DEF chVars, kept, chat, bounds, ChatInv, OwnHistory
  <2>. QED  BY <2>1, <2>2, <2>3, <2>4, <2>5, <2>6, <2>7, <2>8 DEF ChNext, User
<1>3. ChatInv => ConversationsStayApart
  <2>. SUFFICES ASSUME ChatInv PROVE ConversationsStayApart
    OBVIOUS
  <2>1. ASSUME NEW cs \in {convs, localStore.convs}, NEW i \in DOMAIN cs, NEW j \in DOMAIN cs[i].turns
        PROVE  home[cs[i].turns[j].prompt] = cs[i].id
    <3>1. cs \in Seq(HomeConvs(home))
      BY DEF ChatInv, AllHome, HomeStore
    <3>2. cs[i] \in HomeConvs(home)
      BY <3>1
    <3>3. cs[i].turns \in Seq(HomeTurn(home, cs[i].id))
      BY <3>2, ConvIsHome
    <3>4. cs[i].turns[j] \in HomeTurn(home, cs[i].id)
      BY <3>3
    <3>. QED  BY <3>4 DEF HomeTurn
  <2>2. Prompts = DOMAIN home
    BY DEF ChatInv, AllHome, OwnHistory, Prompts
  <2>. QED  BY <2>1, <2>2 DEF ConversationsStayApart, TurnsStayHome, HistoryIsItsOwn, ChatInv, OwnHistory
<1>. QED  BY <1>1, <1>2, <1>3, PTL DEF ChSpec

=============================================================================
