--------------------------- MODULE Backfill_proofs ---------------------------
(***************************************************************************)
(* Proofs about Backfill for any number of tasks, days, tables and faults.  *)
(*                                                                         *)
(* Placed says where a task is, so that a processor that is woken up cannot *)
(* be one that works.  With it, LockExcludes is inductive: without a crowd  *)
(* the working processor has the lock, and all who wait do so for it.       *)
(*                                                                         *)
(* Whole says what a processor has rewritten when it gets to a day and a    *)
(* table: all that lies behind.  A task that no kill has touched therefore  *)
(* completes with the whole period rewritten.                              *)
(*                                                                         *)
(* Truth relates the data to the tasks.  While one task at a time is live   *)
(* and none has given up a mutation, the only mutation is that of the live   *)
(* task, which waits for it; so what the last task rewrote stays as it was   *)
(* until another one submits a mutation.                                    *)
(*                                                                         *)
(* At the end, proofs about the console's Dashboard, which need the same     *)
(* lemmas on naturals and sequences, for any number of actions, failures,    *)
(* periods, ranges, values and filters: what was chosen is written, with the *)
(* period that waits for its timer (ChosenIsWritten); two filters meet on a   *)
(* dimension only where it is recorded (NothingCrossed); and a view that has   *)
(* not its answer waits for it (ViewsWait).                                  *)
(***************************************************************************)
EXTENDS Backfill, Dashboard, FiniteSetTheorems, SequenceTheorems, TLAPS

\* A set of naturals that has a member has a least one: the intervals up to its members are well
\* founded.
LEMMA LeastNatural ==
  ASSUME NEW n \in Nat, NEW S \in SUBSET (0..n), S # {}
  PROVE  \E m \in S : \A x \in S : m <= x
<1> DEFINE F == {0..m : m \in S}
<1>1. IsWellFoundedOn(StrictSubsetOrdering(0..n), FiniteSubsetsOf(0..n))
  BY FS_StrictSubsetOrderingWellFounded
<1>2. F \subseteq FiniteSubsetsOf(0..n)
  <2> SUFFICES ASSUME NEW m \in S PROVE 0..m \in FiniteSubsetsOf(0..n)
    OBVIOUS
  <2>1. m \in Int /\ m <= n
    OBVIOUS
  <2>2. IsFiniteSet(0..m)
    BY <2>1, FS_Interval
  <2>3. 0..m \subseteq 0..n
    BY <2>1
  <2> QED BY <2>2, <2>3 DEF FiniteSubsetsOf
<1>3. F # {}
  OBVIOUS
<1>4. \E A \in F : \A B \in F : ~(<<B, A>> \in StrictSubsetOrdering(0..n))
  <2> HIDE DEF F
  <2> QED BY <1>1, <1>2, <1>3, WFMin
<1>5. PICK m \in S : \A B \in F : ~(<<B, 0..m>> \in StrictSubsetOrdering(0..n))
  BY <1>4
<1>6. ASSUME NEW x \in S, x < m PROVE FALSE
  <2>1. x \in Int /\ m \in Int /\ n \in Int /\ 0 <= x /\ m <= n
    OBVIOUS
  <2>2. 0..x \in F
    OBVIOUS
  <2>3. /\ 0..x \in SUBSET (0..n) /\ 0..m \in SUBSET (0..n)
        /\ 0..x \subseteq 0..m
    BY <1>6, <2>1
  <2>4. m \in 0..m /\ m \notin 0..x
    BY <1>6, <2>1
  <2>5. <<0..x, 0..m>> \in StrictSubsetOrdering(0..n)
    BY <2>3, <2>4 DEF StrictSubsetOrdering
  <2> QED BY <1>5, <2>2, <2>5
<1> QED BY <1>6

\* A sequence without one of its elements.
Remaining(s, k) == SubSeq(s, 1, k - 1) \o SubSeq(s, k + 1, Len(s))

\* What remains of a sequence without one element: all the others and nothing else.
LEMMA Removal ==
  ASSUME NEW S, NEW s \in Seq(S), NEW k \in DOMAIN s
  PROVE  /\ Remaining(s, k) \in Seq(S) /\ Len(Remaining(s, k)) = Len(s) - 1
         /\ \A i \in DOMAIN Remaining(s, k) : \E j \in DOMAIN s : j # k /\ Remaining(s, k)[i] = s[j]
         /\ \A i \in DOMAIN s : i # k => \E j \in DOMAIN Remaining(s, k) : Remaining(s, k)[j] = s[i]
         /\ \A i \in DOMAIN Remaining(s, k) : Remaining(s, k)[i] = IF i < k THEN s[i] ELSE s[i + 1]
<1> DEFINE a == SubSeq(s, 1, k - 1)
           b == SubSeq(s, k + 1, Len(s))
           r == Remaining(s, k)
<1>1. k \in 1..Len(s) /\ Len(s) \in Nat /\ \A i \in 1..Len(s) : s[i] \in S
  OBVIOUS
<1>2. a \in Seq(S) /\ Len(a) = k - 1 /\ \A i \in 1..k - 1 : a[i] = s[i]
  <2>1. \A i \in 1..k - 1 : s[i] \in S
    BY <1>1
  <2>2. k - 1 \in Int /\ 1 \in Int
    BY <1>1
  <2>3. /\ a \in Seq(S) /\ Len(a) = IF 1 <= k - 1 THEN (k - 1) - 1 + 1 ELSE 0
        /\ \A i \in 1..(k - 1) - 1 + 1 : a[i] = s[1 + i - 1]
    BY <2>1, <2>2, SubSeqProperties
  <2> HIDE DEF a
  <2> QED BY <1>1, <2>3
<1>3. b \in Seq(S) /\ Len(b) = Len(s) - k /\ \A i \in 1..Len(s) - k : b[i] = s[k + i]
  <2>1. \A i \in k + 1..Len(s) : s[i] \in S
    BY <1>1
  <2>2. k + 1 \in Int /\ Len(s) \in Int
    BY <1>1
  <2>3. /\ b \in Seq(S) /\ Len(b) = IF k + 1 <= Len(s) THEN Len(s) - (k + 1) + 1 ELSE 0
        /\ \A i \in 1..Len(s) - (k + 1) + 1 : b[i] = s[(k + 1) + i - 1]
    BY <2>1, <2>2, SubSeqProperties
  <2> HIDE DEF b
  <2>4. Len(b) = Len(s) - k
    BY <1>1, <2>3
  <2>5. ASSUME NEW i \in 1..Len(s) - k PROVE b[i] = s[k + i]
    <3>1. i \in 1..Len(s) - (k + 1) + 1 /\ (k + 1) + i - 1 = k + i
      BY <1>1
    <3> QED BY <2>3, <3>1
  <2> QED BY <2>3, <2>4, <2>5
<1>4. /\ r \in Seq(S) /\ Len(r) = Len(a) + Len(b)
      /\ \A i \in 1..Len(a) + Len(b) : r[i] = IF i <= Len(a) THEN a[i] ELSE b[i - Len(a)]
  BY <1>2, <1>3, ConcatProperties DEF Remaining
<1> HIDE DEF a, b, r
<1>5. Len(r) = Len(s) - 1 /\ DOMAIN r = 1..Len(s) - 1 /\ DOMAIN s = 1..Len(s)
  <2>1. Len(r) = Len(s) - 1
    <3>1. Len(r) = Len(a) + Len(b) /\ Len(a) = k - 1 /\ Len(b) = Len(s) - k
      BY <1>2, <1>3, <1>4
    <3>2. k \in Int /\ Len(s) \in Int
      BY <1>1
    <3> QED BY <3>1, <3>2
  <2>2. DOMAIN r = 1..Len(r) /\ DOMAIN s = 1..Len(s)
    BY <1>4
  <2> QED BY <2>1, <2>2
<1>6. \A i \in 1..Len(s) - 1 : r[i] = IF i < k THEN s[i] ELSE s[i + 1]
  <2> SUFFICES ASSUME NEW i \in 1..Len(s) - 1 PROVE r[i] = IF i < k THEN s[i] ELSE s[i + 1]
    OBVIOUS
  <2>1. CASE i < k
    <3>1. i \in 1..Len(a) + Len(b) /\ i <= Len(a) /\ i \in 1..k - 1
      BY <1>1, <1>2, <1>3, <2>1
    <3> QED BY <1>2, <1>4, <2>1, <3>1
  <2>2. CASE ~(i < k)
    <3>0. i \in 1..Len(a) + Len(b) /\ ~(i <= Len(a)) /\ i - Len(a) = i - (k - 1)
      BY <1>1, <1>2, <1>3, <2>2
    <3>1. r[i] = b[i - (k - 1)]
      BY <1>4, <3>0
    <3>4. i - (k - 1) \in 1..Len(s) - k
      BY <1>1, <2>2
    <3>2. k + (i - (k - 1)) = i + 1
      BY <1>1
    <3> QED BY <1>3, <2>2, <3>1, <3>2, <3>4
  <2> QED BY <2>1, <2>2
<1>7. ASSUME NEW i \in DOMAIN r PROVE \E j \in DOMAIN s : j # k /\ r[i] = s[j]
  <2>1. i \in 1..Len(s) - 1 /\ i \in 1..Len(s) /\ i + 1 \in 1..Len(s) /\ (i < k => i # k) /\ (~(i < k) => i + 1 # k)
    BY <1>1, <1>5
  <2> QED BY <1>5, <1>6, <2>1
<1>8. ASSUME NEW i \in DOMAIN s, i # k PROVE \E j \in DOMAIN r : r[j] = s[i]
  <2>1. CASE i < k
    <3>1. i \in 1..Len(s) - 1
      BY <1>1, <1>5, <2>1
    <3> QED BY <1>5, <1>6, <2>1, <3>1
  <2>2. CASE k < i
    <3>1. i - 1 \in 1..Len(s) - 1 /\ ~(i - 1 < k) /\ (i - 1) + 1 = i
      BY <1>1, <1>5, <2>2
    <3>2. i - 1 \in DOMAIN r /\ r[i - 1] = s[i]
      BY <1>5, <1>6, <3>1
    <3> QED BY <3>2
  <2>3. i < k \/ k < i
    BY <1>1, <1>5, <1>8
  <2> QED BY <2>1, <2>2, <2>3
<1> QED BY <1>4, <1>5, <1>6, <1>7, <1>8 DEF r

-----------------------------------------------------------------------------
\* The names of places are different.
LEMMA PartitionsExist ==
  ASSUME NEW k \in DOMAIN Tables, NEW d \in Days
  PROVE  PartitionOf(Tables[k], d) \in Partition
BY DEF Partition

\* NextTable finds the first table that has something to rewrite.
LEMMA NextTableIsFirst ==
  ASSUME NEW t, NEW k \in 1..Len(Tables) + 1
  PROVE  /\ NextTable(t, k) \in k..Len(Tables) + 1
         /\ \A j \in k..Len(Tables) : j < NextTable(t, k) => j \notin ToRewrite(t, k)
<1>1. Len(Tables) \in Nat
  BY ConstantsAssumption
<1>2. ToRewrite(t, k) \in SUBSET (0..Len(Tables))
  BY <1>1 DEF ToRewrite
<1>3. CASE ToRewrite(t, k) = {}
  BY <1>1, <1>3 DEF NextTable
<1>4. CASE ToRewrite(t, k) # {}
  <2>1. \E j \in ToRewrite(t, k) : \A i \in ToRewrite(t, k) : j <= i
    BY <1>1, <1>2, <1>4, LeastNatural
  <2>2. /\ NextTable(t, k) \in ToRewrite(t, k)
        /\ \A i \in ToRewrite(t, k) : NextTable(t, k) <= i
    BY <1>4, <2>1 DEF NextTable
  <2>3. ToRewrite(t, k) \subseteq k..Len(Tables)
    BY DEF ToRewrite
  <2>4. ASSUME NEW j \in k..Len(Tables), j < NextTable(t, k) PROVE j \notin ToRewrite(t, k)
    BY <1>1, <2>2, <2>3, <2>4
  <2> QED BY <1>1, <2>2, <2>3, <2>4
<1> QED BY <1>3, <1>4

-----------------------------------------------------------------------------
(* Types. *)

\* The state in which the service is constructed is well typed.
LEMMA InitTypes == Init => TypeOK
<1> SUFFICES ASSUME Init PROVE TypeOK
  OBVIOUS
<1>1. 1 \in 1..Len(Tables) + 1 /\ <<>> \in Seq(Tasks) /\ <<>> \in Seq(Mutation)
  BY ConstantsAssumption
<1>2. /\ day \in [Tasks -> Nat \ {0}] /\ table \in [Tasks -> 1..Len(Tables) + 1]
      /\ monthsDone \in [Tasks -> SUBSET Partition]
      /\ applied \in [Tasks -> SUBSET Partition]
      /\ data \in [Partition -> Versions \cup {Initially, Mixed}]
  BY <1>1 DEF Init
<1>3. /\ proc \in [Tasks -> Processor]
      /\ \A t \in Tasks : proc[t] \notin {"submit", "wait"}
  BY DEF Init, Processor
<1>4. 0 \in 0..MaxEdits /\ 0 \in 0..MaxFaults /\ FirstVersion \in Versions
  BY ConstantsAssumption
<1>5. awaiting \in [Tasks -> Seq(Tasks)]
  BY <1>1 DEF Init
<1> QED BY <1>1, <1>2, <1>3, <1>4, <1>5 DEF Init, TypeOK

\* GoToTable(t, k) leaves a table to rewrite, or the end of the chunk.
LEMMA GoToTableTypes ==
  ASSUME TypeOK, NEW t \in Tasks, NEW k \in 1..Len(Tables) + 1, GoToTable(t, k), day[t] \in Days
  PROVE  /\ table' \in [Tasks -> 1..Len(Tables) + 1]
         /\ proc' \in [Tasks -> Processor]
         /\ \A u \in Tasks : proc'[u] \in {"submit", "wait"} => day[u] \in Days /\ table'[u] \in DOMAIN Tables
<1>1. Len(Tables) \in Nat /\ DOMAIN Tables = 1..Len(Tables)
  BY ConstantsAssumption
<1>2. NextTable(t, k) \in k..Len(Tables) + 1
  BY NextTableIsFirst
<1>3. NextTable(t, k) \in 1..Len(Tables) + 1
  BY <1>1, <1>2
<1> DEFINE n == NextTable(t, k)
           q == IF n > Len(Tables) THEN "progress" ELSE "submit"
<1>4. table' = [table EXCEPT ![t] = n] /\ proc' = [proc EXCEPT ![t] = q]
  BY DEF GoToTable
<1>5. q \in Processor /\ (q = "submit" => n \in DOMAIN Tables) /\ q # "wait"
  BY <1>1, <1>3 DEF Processor, Working
<1> HIDE DEF n, q
<1> QED BY <1>3, <1>4, <1>5 DEF TypeOK, n

\* The end of process(), for whatever comes next.
LEMMA EndProcessTypes ==
  ASSUME TypeOK, NEW t \in Tasks, NEW next \in Ending, EndProcess(t, next)
  PROVE  /\ proc' \in [Tasks -> Processor]
         /\ \A u \in Tasks : proc'[u] \in {"submit", "wait"} => proc[u] = proc'[u]
         /\ lock' \in Tasks \cup {NoTask}
         /\ awaiting' \in [Tasks -> Seq(Tasks)]
         /\ crowded' \in BOOLEAN
<1>1. awaiting[t] \in Seq(Tasks) /\ <<>> \in Seq(Tasks)
  BY DEF TypeOK
<1>2. awaiting[t] # <<>> => awaiting[t][Len(awaiting[t])] \in Tasks
  BY <1>1
<1>3. next \in Processor /\ next \notin {"submit", "wait"} /\ "totals" \in Processor
  BY DEF Processor, Working, Ending
<1>4. lock' \in Tasks \cup {NoTask} /\ awaiting' \in [Tasks -> Seq(Tasks)] /\ crowded' \in BOOLEAN
  BY <1>1, <1>2 DEF EndProcess, WokenBy, TypeOK
<1> QED BY <1>3, <1>4 DEF EndProcess, TypeOK

\* What is known of a mutation that is not done.
LEMMA MutationTypes ==
  ASSUME TypeOK, NEW k \in DOMAIN mutations
  PROVE  mutations[k].part \in Partition /\ mutations[k].by \in Tasks
<1>1. mutations[k] \in Mutation
  BY DEF TypeOK
<1> QED BY <1>1 DEF Mutation

\* killWorkspaceMutations leaves the mutations and the data well typed.
LEMMA KillTypes ==
  ASSUME TypeOK, NEW t \in Tasks, Kill(t)
  PROVE  mutations' \in Seq(Mutation) /\ robbed' \in SUBSET Tasks
         /\ data' \in [Partition -> Versions \cup {Initially, Mixed}]
<1>1. \A k \in DOMAIN mutations : mutations[k].by \in Tasks
  BY MutationTypes
<1>2. mutations' \in Seq(Mutation)
  BY DEF Kill
<1>3. robbed' \in SUBSET Tasks
  BY <1>1 DEF Kill, TypeOK
<1>4. data' \in [Partition -> Versions \cup {Initially, Mixed}]
  BY DEF Kill, TypeOK
<1> QED BY <1>2, <1>3, <1>4

\* Each step keeps the types.
LEMMA StepTypes == TypeOK /\ [Next]_vars => TypeOK'
<1> SUFFICES ASSUME TypeOK, [Next]_vars PROVE TypeOK'
  OBVIOUS
<1> USE DEF startVars, lockVars, workVars, storeVars, boundVars, pastVars
<1>1. CASE UNCHANGED vars
  BY <1>1 DEF vars, TypeOK
<1>2. ASSUME NEW t \in Tasks, StartReads(t) \/ StartChecks(t) \/ StartInserts(t) PROVE TypeOK'
  <2>1. CASE StartReads(t)
    BY <2>1 DEF StartReads, TypeOK
  <2>2. CASE StartChecks(t)
    <3>1. Append(created, t) \in Seq(Tasks) /\ (overlapped \/ Unfinished) \in BOOLEAN
      BY AppendProperties DEF TypeOK
    <3> QED BY <2>2, <3>1 DEF StartChecks, TypeOK
  <2>3. CASE StartInserts(t)
    <3>1. Append(scheduled, t) \in Seq(Tasks)
      BY AppendProperties DEF TypeOK
    <3> QED BY <2>3, <3>1 DEF StartInserts, TypeOK, Active
  <2> QED BY <1>2, <2>1, <2>2, <2>3
<1>3. CASE Spawn
  <2> DEFINE t == Head(scheduled)
  <2>1. t \in Tasks /\ Tail(scheduled) \in Seq(Tasks)
    BY <1>3, HeadTailProperties DEF Spawn, TypeOK
  <2>2. awaiting' \in [Tasks -> Seq(Tasks)]
    <3>1. \A u \in Tasks : Append(awaiting[u], t) \in Seq(Tasks)
      BY <2>1, AppendProperties DEF TypeOK
    <3>2. awaiting' = awaiting \/ awaiting' = [awaiting EXCEPT ![lock] = Append(@, t)]
      BY <1>3 DEF Spawn, LockFound
    <3>3. awaiting \in [Tasks -> Seq(Tasks)]
      BY DEF TypeOK
    <3> HIDE DEF t
    <3> QED BY <3>1, <3>2, <3>3
  <2>3. proc' \in [Tasks -> Processor] /\ \A u \in Tasks : proc'[u] \in {"submit", "wait"} => proc[u] = proc'[u]
    BY <1>3, <2>1 DEF Spawn, TypeOK, Processor, Working
  <2>4. lock' \in Tasks \cup {NoTask}
    BY <1>3, <2>1 DEF Spawn, TypeOK
  <2> QED BY <1>3, <2>1, <2>2, <2>3, <2>4 DEF Spawn, TypeOK
<1>4. ASSUME NEW t \in Tasks, Totals(t) \/ BeginChunk(t) \/ Submit(t) \/ WaitEnds(t) \/ EndChunk(t)
      PROVE  TypeOK'
  <2>1. CASE Totals(t)
    BY <2>1 DEF Totals, TypeOK, Processor, Working, Active
  <2>2. CASE BeginChunk(t)
    <3>1. 1 \in 1..Len(Tables) + 1 /\ day[t] \in Days /\ GoToTable(t, 1)
      BY <2>2, ConstantsAssumption DEF BeginChunk, ChunkLeft
    <3>2. /\ table' \in [Tasks -> 1..Len(Tables) + 1]
          /\ proc' \in [Tasks -> Processor]
          /\ \A u \in Tasks : proc'[u] \in {"submit", "wait"} => day[u] \in Days /\ table'[u] \in DOMAIN Tables
      BY <3>1, GoToTableTypes
    <3> QED BY <2>2, <3>2 DEF BeginChunk, TypeOK, Active
  <2>3. CASE Submit(t)
    <3>1. day[t] \in Days /\ table[t] \in DOMAIN Tables
      BY <2>3 DEF Submit, TypeOK
    <3>2. [part |-> PartitionOf(Tables[table[t]], day[t]), by |-> t] \in Mutation
      BY <3>1, PartitionsExist DEF Mutation
    <3>3. mutations' \in Seq(Mutation)
      BY <2>3, <3>2, AppendProperties DEF Submit, TypeOK
    <3> QED BY <2>3, <3>1, <3>3 DEF Submit, TypeOK, Processor, Working
  <2>4. CASE WaitEnds(t)
    <3>1. day[t] \in Days /\ table[t] \in DOMAIN Tables
      BY <2>4 DEF WaitEnds, TypeOK
    <3>2. table[t] + 1 \in 1..Len(Tables) + 1
      BY <3>1, ConstantsAssumption
    <3>3. /\ table' \in [Tasks -> 1..Len(Tables) + 1]
          /\ proc' \in [Tasks -> Processor]
          /\ \A u \in Tasks : proc'[u] \in {"submit", "wait"} => day[u] \in Days /\ table'[u] \in DOMAIN Tables
      BY <2>4, <3>1, <3>2, GoToTableTypes DEF WaitEnds
    <3>4. monthsDone' \in [Tasks -> SUBSET Partition]
      BY <2>4, <3>1, PartitionsExist DEF WaitEnds, TypeOK
    <3> QED BY <2>4, <3>3, <3>4 DEF WaitEnds, TypeOK
  <2>5. CASE EndChunk(t)
    BY <2>5, ConstantsAssumption DEF EndChunk, TypeOK, Processor, Working, Active
  <2> QED BY <1>4, <2>1, <2>2, <2>3, <2>4, <2>5
<1>5. ASSUME NEW t \in Tasks, EndChunks(t) \/ KillOnError(t) \/ WriteStatus(t) \/ Error(t) PROVE TypeOK'
  <2>1. CASE EndChunks(t)
    <3>1. PICK next \in Ending : EndProcess(t, next)
      BY <2>1 DEF EndChunks, Ending
    <3> QED BY <2>1, <3>1, EndProcessTypes DEF EndChunks, TypeOK
  <2>2. CASE KillOnError(t)
    <3>1. /\ proc' \in [Tasks -> Processor]
          /\ \A u \in Tasks : proc'[u] \in {"submit", "wait"} => proc[u] = proc'[u]
          /\ lock' \in Tasks \cup {NoTask}
          /\ awaiting' \in [Tasks -> Seq(Tasks)]
          /\ crowded' \in BOOLEAN
      <4>1. CASE EndProcess(t, "failing")
        BY <4>1, EndProcessTypes DEF Ending
      <4> QED BY <2>2, <4>1 DEF KillOnError, TypeOK, Processor, Working
    <3>2. Kill(t)
      BY <2>2 DEF KillOnError
    <3> QED BY <2>2, <3>1, <3>2, KillTypes DEF KillOnError, TypeOK
  <2>3. CASE WriteStatus(t)
    <3>1. StatusAfter(t) \in Terminal
      BY <2>3 DEF WriteStatus, StatusAfter, Ending, Terminal
    <3>2. faults' \in 0..MaxFaults
      BY <2>3, ConstantsAssumption DEF WriteStatus, TypeOK
    <3>3. proc' \in [Tasks -> Processor] /\ \A u \in Tasks : proc'[u] \in {"submit", "wait"} => proc[u] = proc'[u]
      BY <2>3 DEF WriteStatus, TypeOK, Processor, Ending
    <3>4. row' \in [Tasks -> {"none"} \cup Active \cup Terminal]
      <4>1. row' = row \/ row' = [row EXCEPT ![t] = StatusAfter(t)]
        BY <2>3 DEF WriteStatus
      <4>2. row \in [Tasks -> {"none"} \cup Active \cup Terminal]
        BY DEF TypeOK
      <4> QED BY <3>1, <4>1, <4>2
    <3>5. unsaved' \in SUBSET Tasks
      BY <2>3 DEF WriteStatus, TypeOK
    <3> QED BY <2>3, <3>2, <3>3, <3>4, <3>5 DEF WriteStatus, TypeOK
  <2>4. CASE Error(t)
    <3>1. /\ proc' \in [Tasks -> Processor]
          /\ \A u \in Tasks : proc'[u] \in {"submit", "wait"} => proc[u] = proc'[u]
          /\ lock' \in Tasks \cup {NoTask}
          /\ awaiting' \in [Tasks -> Seq(Tasks)]
          /\ crowded' \in BOOLEAN
      <4>1. CASE EndProcess(t, "failing")
        BY <4>1, EndProcessTypes DEF Ending
      <4> QED BY <2>4, <4>1 DEF Error, TypeOK, Processor, Working
    <3>2. faults' \in 0..MaxFaults
      BY <2>4, ConstantsAssumption DEF Error, TypeOK
    <3> QED BY <2>4, <3>1, <3>2 DEF Error, TypeOK
  <2> QED BY <1>5, <2>1, <2>2, <2>3, <2>4
<1>6. ASSUME NEW t \in Tasks, CancelReads(t) \/ CancelActs(t) \/ CancelKills(t) \/ CancelWrites(t)
      PROVE  TypeOK'
  <2>1. CASE CancelReads(t)
    BY <2>1 DEF CancelReads, TypeOK
  <2>2. CASE CancelActs(t)
    BY <2>2 DEF CancelActs, FlagProcessor, TypeOK
  <2>3. CASE CancelKills(t)
    <3>1. Kill(t)
      BY <2>3 DEF CancelKills
    <3> QED BY <2>3, <3>1, KillTypes DEF CancelKills, TypeOK
  <2>4. CASE CancelWrites(t)
    BY <2>4 DEF CancelWrites, StatusOfCancel, TypeOK, Terminal
  <2> QED BY <1>6, <2>1, <2>2, <2>3, <2>4
<1>7. CASE MutationRuns
  <2>1. PICK k \in Executing :
          /\ mutations' = Remaining(mutations, k)
          /\ data' = [data EXCEPT ![mutations[k].part] = snapshot[mutations[k].by]]
          /\ applied' = [applied EXCEPT ![mutations[k].by] = @ \cup {mutations[k].part}]
          /\ UNCHANGED <<filters, startVars, row, proc, workVars, cancelled, lockVars,
                         cancel, submitted, alive, boundVars, pastVars>>
    BY <1>7 DEF MutationRuns, Remaining
  <2>2. k \in DOMAIN mutations /\ mutations \in Seq(Mutation)
    BY DEF Executing, TypeOK
  <2>3. mutations[k].by \in Tasks /\ mutations[k].part \in Partition
    BY <2>2, MutationTypes
  <2>4. mutations' \in Seq(Mutation)
    BY <2>1, <2>2, Removal
  <2>5. data' \in [Partition -> Versions \cup {Initially, Mixed}] /\ applied' \in [Tasks -> SUBSET Partition]
    BY <2>1, <2>3 DEF TypeOK
  <2> QED BY <2>1, <2>4, <2>5 DEF TypeOK
<1>8. CASE EditFilters
  BY <1>8, ConstantsAssumption DEF EditFilters, TypeOK
<1>9. CASE Crash
  <2>1. faults' \in 0..MaxFaults
    BY <1>9, ConstantsAssumption DEF Crash, TypeOK
  <2>2. scheduled' \in Seq(Tasks) /\ awaiting' \in [Tasks -> Seq(Tasks)]
    BY <1>9 DEF Crash
  <2>3. /\ call' \in [Tasks -> {"new", "read", "admitted", "rejected", "started", "broken"}]
        /\ cancel' \in [Tasks -> {"idle", "read", "kill", "write", "done", "rejected", "broken"}]
    BY <1>9 DEF Crash, TypeOK
  <2>4. proc' \in [Tasks -> Processor] /\ \A u \in Tasks : proc'[u] \in {"submit", "wait"} => proc[u] = proc'[u]
    BY <1>9 DEF Crash, TypeOK, Processor
  <2> QED BY <1>9, <2>1, <2>2, <2>3, <2>4 DEF Crash, TypeOK
<1>10. CASE Restart
  BY <1>10 DEF Restart, TypeOK, Terminal
<1> QED
  BY <1>1, <1>2, <1>3, <1>4, <1>5, <1>6, <1>7, <1>8, <1>9, <1>10 DEF Next, Process

-----------------------------------------------------------------------------
(* Where tasks and their processors are. *)

\* A task is at one place at a time: with startBackfill, scheduled, waiting for one lock, or on its way.
UnstartedAreIdle ==
  \A t \in Tasks : call[t] # "started" => proc[t] = "none" /\ row[t] = "none" /\ cancel[t] = "idle"
ScheduledOnce ==
  /\ \A k \in DOMAIN scheduled : call[scheduled[k]] = "started" /\ proc[scheduled[k]] = "none"
  /\ \A j, k \in DOMAIN scheduled : scheduled[j] = scheduled[k] => j = k
QueuedOnce ==
  /\ \A t \in Tasks : \A k \in DOMAIN awaiting[t] : proc[awaiting[t][k]] = "queued"
  /\ \A t, u \in Tasks : \A j \in DOMAIN awaiting[t], k \in DOMAIN awaiting[u] :
        awaiting[t][j] = awaiting[u][k] => t = u
Placed == UnstartedAreIdle /\ ScheduledOnce /\ QueuedOnce

\* No two processors work, and all who wait do so for the one that works.
LockExcludes ==
  ~crowded =>
    /\ \A t \in Tasks : proc[t] \in Working => lock = t
    /\ lock # NoTask => proc[lock] \in Working
    /\ \A t \in Tasks : awaiting[t] # <<>> => lock = t

\* What the steps of a processor have in common.
LEMMA ProcessorMoves ==
  ASSUME TypeOK, NEW t \in Tasks,
         \/ Totals(t) \/ BeginChunk(t) \/ Submit(t) \/ WaitEnds(t) \/ EndChunk(t)
         \/ EndChunks(t) \/ KillOnError(t) \/ WriteStatus(t) \/ Error(t)
  PROVE  /\ UNCHANGED <<filters, startVars, cancel, cancelled, alive, overlapped>>
         /\ \/ /\ proc[t] \in Working
               /\ \E q \in Working \ {"totals"} : proc' = [proc EXCEPT ![t] = q]
               /\ UNCHANGED <<lockVars, crowded>>
            \/ /\ proc[t] \in Ending
               /\ \E q \in {"gone", "failing"} : proc' = [proc EXCEPT ![t] = q]
               /\ UNCHANGED <<lockVars, crowded>>
            \/ /\ proc[t] \in Working
               /\ \E q \in Ending : EndProcess(t, q)
         /\ \/ UNCHANGED row
            \/ proc[t] \in Working /\ row' = [row EXCEPT ![t] = "running"]
            \/ proc[t] \in Ending /\ row' = [row EXCEPT ![t] = StatusAfter(t)] /\ proc' = [proc EXCEPT ![t] = "gone"]
<1> USE DEF startVars, lockVars, pastVars
<1>1. CASE Totals(t)
  BY <1>1 DEF Totals, Working
<1>2. CASE BeginChunk(t)
  BY <1>2 DEF BeginChunk, GoToTable, Working
<1>3. CASE Submit(t)
  BY <1>3 DEF Submit, Working
<1>4. CASE WaitEnds(t)
  BY <1>4 DEF WaitEnds, GoToTable, Working
<1>5. CASE EndChunk(t)
  BY <1>5 DEF EndChunk, Working
<1>6. CASE EndChunks(t)
  BY <1>6 DEF EndChunks, Working, Ending
<1>7. CASE KillOnError(t)
  BY <1>7 DEF KillOnError, Working, Ending
<1>8. CASE WriteStatus(t)
  BY <1>8 DEF WriteStatus
<1>9. CASE Error(t)
  BY <1>9 DEF Error, Working, Ending
<1> QED BY <1>1, <1>2, <1>3, <1>4, <1>5, <1>6, <1>7, <1>8, <1>9

\* A final status is terminal, and it is completed for a processor that ended so.
LEMMA EndingStatuses ==
  ASSUME NEW t \in Tasks, proc[t] \in Ending
  PROVE  /\ StatusAfter(t) \in Terminal
         /\ StatusAfter(t) = "completed" <=> proc[t] = "completing"
BY DEF StatusAfter, Ending, Terminal

\* No step schedules a task twice, lets it wait for two locks, or touches one that is not started.
LEMMA StepPlaces == TypeOK /\ Placed /\ [Next]_vars => Placed'
<1> SUFFICES ASSUME TypeOK, Placed, [Next]_vars PROVE Placed'
  OBVIOUS
<1> USE DEF startVars, lockVars, workVars, storeVars, boundVars, pastVars
<1>0. /\ scheduled \in Seq(Tasks) /\ awaiting \in [Tasks -> Seq(Tasks)]
      /\ \A k \in DOMAIN scheduled : scheduled[k] \in Tasks
      /\ \A t \in Tasks : \A k \in DOMAIN awaiting[t] : awaiting[t][k] \in Tasks
  BY DEF TypeOK
<1>1. CASE UNCHANGED vars
  BY <1>1 DEF vars, Placed, UnstartedAreIdle, ScheduledOnce, QueuedOnce
<1>2. ASSUME NEW t \in Tasks, StartReads(t) \/ StartChecks(t) \/ StartInserts(t) PROVE Placed'
  <2>1. CASE StartReads(t) \/ StartChecks(t)
    <3>1. /\ call[t] # "started" /\ \A u \in Tasks \ {t} : call'[u] = call[u]
          /\ UNCHANGED <<proc, row, cancel, scheduled, awaiting>>
      BY <2>1 DEF StartReads, StartChecks, TypeOK
    <3>2. proc[t] = "none" /\ row[t] = "none" /\ cancel[t] = "idle"
      BY <3>1 DEF Placed, UnstartedAreIdle
    <3>3. UnstartedAreIdle'
      BY <3>1, <3>2 DEF Placed, UnstartedAreIdle
    <3>4. ScheduledOnce'
      BY <1>0, <3>1 DEF Placed, ScheduledOnce
    <3>5. QueuedOnce'
      BY <3>1 DEF Placed, QueuedOnce
    <3> QED BY <3>3, <3>4, <3>5 DEF Placed
  <2>2. CASE StartInserts(t)
    <3>1. call[t] = "admitted" /\ proc[t] = "none"
      BY <2>2 DEF StartInserts, Placed, UnstartedAreIdle
    <3>2. /\ DOMAIN scheduled' = 1..Len(scheduled) + 1 /\ scheduled'[Len(scheduled) + 1] = t
          /\ \A k \in DOMAIN scheduled : k \in DOMAIN scheduled' /\ scheduled'[k] = scheduled[k] /\ scheduled[k] # t
          /\ DOMAIN scheduled = 1..Len(scheduled) /\ Len(scheduled) \in Nat
      <4>1. scheduled' = Append(scheduled, t)
        BY <2>2 DEF StartInserts
      <4>2. \A k \in DOMAIN scheduled : scheduled[k] # t
        BY <3>1 DEF Placed, UnstartedAreIdle, ScheduledOnce, QueuedOnce
      <4> QED BY <1>0, <4>1, <4>2, AppendProperties
    <3>3. \A k \in DOMAIN scheduled' : k \in DOMAIN scheduled \/ k = Len(scheduled) + 1
      BY <3>2
    <3>4. UNCHANGED <<proc, cancel, awaiting>> /\ call' = [call EXCEPT ![t] = "started"] /\ row' = [row EXCEPT ![t] = "pending"]
      BY <2>2 DEF StartInserts
    <3>5. /\ call'[t] = "started"
          /\ \A u \in Tasks \ {t} : call'[u] = call[u] /\ row'[u] = row[u]
      BY <3>4 DEF TypeOK
    <3>6. \A k \in DOMAIN scheduled' : call'[scheduled'[k]] = "started" /\ proc'[scheduled'[k]] = "none"
      BY <1>0, <3>1, <3>2, <3>3, <3>4, <3>5 DEF Placed, UnstartedAreIdle, ScheduledOnce, QueuedOnce
    <3>7. \A j, k \in DOMAIN scheduled' : scheduled'[j] = scheduled'[k] => j = k
      BY <3>2, <3>3 DEF Placed, UnstartedAreIdle, ScheduledOnce, QueuedOnce
    <3> QED BY <3>4, <3>5, <3>6, <3>7 DEF Placed, UnstartedAreIdle, ScheduledOnce, QueuedOnce
  <2> QED BY <1>2, <2>1, <2>2
<1>3. CASE Spawn
  <2> DEFINE t == Head(scheduled)
  <2>1. /\ t \in Tasks /\ call[t] = "started" /\ proc[t] = "none"
        /\ \A k \in DOMAIN scheduled' : k + 1 \in DOMAIN scheduled /\ scheduled'[k] = scheduled[k + 1]
        /\ \A k \in DOMAIN scheduled' : scheduled'[k] # t
    <3>1. scheduled # <<>> /\ scheduled' = Tail(scheduled)
      BY <1>3 DEF Spawn
    <3>2. t = scheduled[1] /\ 1 \in DOMAIN scheduled
      BY <1>0, <3>1
    <3>3. \A k \in DOMAIN scheduled' : k + 1 \in DOMAIN scheduled /\ scheduled'[k] = scheduled[k + 1] /\ k + 1 # 1
      BY <1>0, <3>1, HeadTailProperties
    <3> QED BY <1>0, <3>2, <3>3 DEF Placed, UnstartedAreIdle, ScheduledOnce, QueuedOnce
  <2>2. \E q \in {"totals", "queued"} : proc' = [proc EXCEPT ![t] = q]
    BY <1>3 DEF Spawn
  <2>3. UNCHANGED <<call, row, cancel>>
    BY <1>3 DEF Spawn
  <2>4. \/ UNCHANGED awaiting
        \/ /\ lock \in Tasks /\ proc' = [proc EXCEPT ![t] = "queued"]
           /\ awaiting' = [awaiting EXCEPT ![lock] = Append(@, t)]
    BY <1>3 DEF Spawn, LockFound, TypeOK
  <2>5. \A u \in Tasks : \A k \in DOMAIN awaiting[u] : awaiting[u][k] # t
    BY <2>1 DEF Placed, UnstartedAreIdle, ScheduledOnce, QueuedOnce
  <2> HIDE DEF t
  <2>6. \A u \in Tasks \ {t} : proc'[u] = proc[u]
    BY <2>1, <2>2 DEF TypeOK
  <2>7. \A u \in Tasks : call'[u] # "started" => proc'[u] = "none" /\ row'[u] = "none" /\ cancel'[u] = "idle"
    BY <2>1, <2>3, <2>6 DEF Placed, UnstartedAreIdle, ScheduledOnce, QueuedOnce
  <2>8. /\ \A k \in DOMAIN scheduled' : call'[scheduled'[k]] = "started" /\ proc'[scheduled'[k]] = "none"
        /\ \A j, k \in DOMAIN scheduled' : scheduled'[j] = scheduled'[k] => j = k
    <3>1. \A k \in DOMAIN scheduled' : k \in Nat
      <4>1. scheduled' \in Seq(Tasks)
        BY <1>0, <1>3, HeadTailProperties DEF Spawn
      <4> QED BY <4>1
    <3>2. ASSUME NEW k \in DOMAIN scheduled'
          PROVE  call'[scheduled'[k]] = "started" /\ proc'[scheduled'[k]] = "none"
      <4>1. /\ k + 1 \in DOMAIN scheduled /\ scheduled'[k] = scheduled[k + 1]
            /\ scheduled'[k] # t /\ scheduled[k + 1] \in Tasks
        BY <1>0, <2>1
      <4> QED BY <2>3, <2>6, <4>1 DEF Placed, ScheduledOnce
    <3>3. ASSUME NEW j \in DOMAIN scheduled', NEW k \in DOMAIN scheduled', scheduled'[j] = scheduled'[k]
          PROVE  j = k
      <4>1. j + 1 \in DOMAIN scheduled /\ k + 1 \in DOMAIN scheduled /\ scheduled[j + 1] = scheduled[k + 1]
        BY <2>1, <3>3
      <4>2. j + 1 = k + 1
        BY <4>1 DEF Placed, ScheduledOnce
      <4> QED BY <3>1, <4>2
    <3> QED BY <3>2, <3>3
  <2>9. /\ \A a \in Tasks : \A k \in DOMAIN awaiting'[a] : proc'[awaiting'[a][k]] = "queued"
        /\ \A a, b \in Tasks : \A j \in DOMAIN awaiting'[a], k \in DOMAIN awaiting'[b] :
              awaiting'[a][j] = awaiting'[b][k] => a = b
    <3>1. CASE UNCHANGED awaiting
      <4>1. \A a \in Tasks : \A k \in DOMAIN awaiting[a] : proc'[awaiting[a][k]] = "queued"
        BY <1>0, <2>5, <2>6 DEF Placed, QueuedOnce
      <4> QED BY <3>1, <4>1 DEF Placed, QueuedOnce
    <3>2. CASE /\ lock \in Tasks /\ proc' = [proc EXCEPT ![t] = "queued"]
               /\ awaiting' = [awaiting EXCEPT ![lock] = Append(@, t)]
      <4>1. \A a \in Tasks : \A k \in DOMAIN awaiting'[a] :
              \/ k \in DOMAIN awaiting[a] /\ awaiting'[a][k] = awaiting[a][k]
              \/ a = lock /\ awaiting'[a][k] = t
        <5> SUFFICES ASSUME NEW a \in Tasks, NEW k \in DOMAIN awaiting'[a]
                     PROVE  \/ k \in DOMAIN awaiting[a] /\ awaiting'[a][k] = awaiting[a][k]
                            \/ a = lock /\ awaiting'[a][k] = t
          OBVIOUS
        <5>1. CASE a # lock
          BY <1>0, <3>2, <5>1
        <5>2. CASE a = lock
          <6>1. awaiting'[a] = Append(awaiting[a], t) /\ awaiting[a] \in Seq(Tasks)
            BY <1>0, <3>2, <5>2
          <6> QED BY <2>1, <5>2, <6>1, AppendProperties
        <5> QED BY <5>1, <5>2
      <4>2. proc'[t] = "queued"
        BY <2>1, <3>2 DEF TypeOK
      <4>3. ASSUME NEW a \in Tasks, NEW k \in DOMAIN awaiting'[a]
            PROVE  proc'[awaiting'[a][k]] = "queued"
        <5>1. CASE k \in DOMAIN awaiting[a] /\ awaiting'[a][k] = awaiting[a][k]
          <6>1. awaiting[a][k] \in Tasks \ {t} /\ proc[awaiting[a][k]] = "queued"
            BY <1>0, <2>5, <5>1 DEF Placed, QueuedOnce
          <6> QED BY <2>6, <5>1, <6>1
        <5> QED BY <4>1, <4>2, <5>1
      <4>4. ASSUME NEW a \in Tasks, NEW b \in Tasks, NEW j \in DOMAIN awaiting'[a], NEW k \in DOMAIN awaiting'[b],
                   awaiting'[a][j] = awaiting'[b][k]
            PROVE  a = b
        BY <2>5, <4>1, <4>4 DEF Placed, QueuedOnce
      <4> QED BY <4>3, <4>4
    <3> QED BY <2>4, <3>1, <3>2
  <2> QED BY <2>7, <2>8, <2>9 DEF Placed, UnstartedAreIdle, ScheduledOnce, QueuedOnce
<1>4. ASSUME NEW t \in Tasks, Process(t) \/ Error(t) PROVE Placed'
  <2>1. /\ UNCHANGED <<call, scheduled, cancel>>
        /\ row' = row \/ row' = [row EXCEPT ![t] = "running"] \/ row' = [row EXCEPT ![t] = StatusAfter(t)]
        /\ proc[t] \in Working \cup Ending
    BY <1>4, ProcessorMoves DEF Process
  <2>2. call[t] = "started" /\ proc[t] \notin {"none", "queued"}
    BY <2>1 DEF Placed, UnstartedAreIdle, Working, Ending
  <2>3. \A u \in Tasks \ {t} : row'[u] = row[u]
    BY <2>1 DEF TypeOK
  <2>4. CASE (\E q \in Working \cup Ending \cup {"gone"} : proc' = [proc EXCEPT ![t] = q]) /\ UNCHANGED awaiting
    <3>1. \A u \in Tasks \ {t} : proc'[u] = proc[u]
      BY <2>4 DEF TypeOK
    <3>2. UnstartedAreIdle'
      BY <2>1, <2>2, <2>3, <3>1 DEF Placed, UnstartedAreIdle
    <3>3. ScheduledOnce'
      BY <1>0, <2>1, <2>2, <3>1 DEF Placed, ScheduledOnce
    <3>4. QueuedOnce'
      BY <1>0, <2>2, <2>4, <3>1 DEF Placed, QueuedOnce
    <3> QED BY <3>2, <3>3, <3>4 DEF Placed
  <2>5. CASE \E q \in Ending : EndProcess(t, q)
    <3>1. PICK q \in Ending : EndProcess(t, q)
      BY <2>5
    <3>2. /\ awaiting' = [awaiting EXCEPT ![t] = <<>>]
          /\ \A u \in Tasks \ {t} : proc'[u] = IF \E k \in DOMAIN awaiting[t] : awaiting[t][k] = u
                                               THEN "totals" ELSE proc[u]
      BY <3>1 DEF EndProcess, WokenBy
    <3>3. \A u \in Tasks \ {t} : proc'[u] = proc[u] \/ proc[u] = "queued"
      BY <3>2 DEF Placed, UnstartedAreIdle, ScheduledOnce, QueuedOnce
    <3>4. \A u \in Tasks : call'[u] # "started" => proc'[u] = "none" /\ row'[u] = "none" /\ cancel'[u] = "idle"
      BY <2>1, <2>2, <2>3, <3>3 DEF Placed, UnstartedAreIdle, ScheduledOnce, QueuedOnce
    <3>5. \A k \in DOMAIN scheduled : call'[scheduled[k]] = "started" /\ proc'[scheduled[k]] = "none"
      BY <1>0, <2>1, <2>2, <3>3 DEF Placed, UnstartedAreIdle, ScheduledOnce, QueuedOnce
    <3>6. awaiting'[t] = <<>> /\ \A a \in Tasks \ {t} : awaiting'[a] = awaiting[a]
      BY <1>0, <3>2
    <3>7. ASSUME NEW a \in Tasks \ {t}, NEW k \in DOMAIN awaiting[a]
          PROVE  proc'[awaiting[a][k]] = "queued"
      <4>1. awaiting[a][k] \in Tasks /\ proc[awaiting[a][k]] = "queued"
        BY <1>0 DEF Placed, UnstartedAreIdle, ScheduledOnce, QueuedOnce
      <4>2. \A j \in DOMAIN awaiting[t] : awaiting[t][j] # awaiting[a][k]
        BY DEF Placed, UnstartedAreIdle, ScheduledOnce, QueuedOnce
      <4> QED BY <2>2, <3>2, <4>1, <4>2
    <3> QED BY <2>1, <3>4, <3>5, <3>6, <3>7 DEF Placed, UnstartedAreIdle, ScheduledOnce, QueuedOnce
  <2>6. \/ (\E q \in Working \cup Ending \cup {"gone"} : proc' = [proc EXCEPT ![t] = q]) /\ UNCHANGED awaiting
        \/ \E q \in Ending : EndProcess(t, q)
    <3>1. \A q \in {"gone", "failing"} : q \in Working \cup Ending \cup {"gone"}
      BY DEF Ending
    <3> QED BY <1>4, <3>1, ProcessorMoves DEF Process
  <2> QED BY <2>4, <2>5, <2>6
<1>5. ASSUME NEW t \in Tasks, CancelReads(t) \/ CancelActs(t) \/ CancelKills(t) \/ CancelWrites(t)
      PROVE  Placed'
  <2>1. /\ UNCHANGED <<call, scheduled, proc, awaiting>>
        /\ \A u \in Tasks \ {t} : row'[u] = row[u] /\ cancel'[u] = cancel[u]
        /\ row[t] # "none" \/ cancel[t] # "idle"
    BY <1>5 DEF CancelReads, CancelActs, CancelKills, CancelWrites, TypeOK
  <2>2. call[t] = "started"
    BY <2>1 DEF Placed, UnstartedAreIdle, ScheduledOnce, QueuedOnce
  <2>3. UnstartedAreIdle'
    BY <2>1, <2>2 DEF Placed, UnstartedAreIdle
  <2>4. ScheduledOnce' /\ QueuedOnce'
    BY <2>1 DEF Placed, ScheduledOnce, QueuedOnce
  <2> QED BY <2>3, <2>4 DEF Placed
<1>6. CASE MutationRuns \/ EditFilters
  BY <1>6 DEF MutationRuns, EditFilters, Placed, UnstartedAreIdle, ScheduledOnce, QueuedOnce
<1>7. CASE Crash
  <2>1. /\ \A t \in Tasks : call'[t] # "started" => call[t] # "started"
        /\ \A t \in Tasks : call[t] # "started" => proc'[t] = proc[t] /\ cancel'[t] = cancel[t]
        /\ UNCHANGED row
    BY <1>7 DEF Crash, TypeOK, Placed, UnstartedAreIdle, Running, Working, Ending
  <2>2. scheduled' = <<>> /\ \A t \in Tasks : awaiting'[t] = <<>>
    BY <1>7 DEF Crash
  <2> QED BY <2>1, <2>2 DEF Placed, UnstartedAreIdle, ScheduledOnce, QueuedOnce
<1>8. CASE Restart
  <2>1. \A t \in Tasks : row'[t] = row[t] \/ row[t] = "running"
    BY <1>8 DEF Restart
  <2> QED BY <1>8, <2>1 DEF Restart, Placed, UnstartedAreIdle, ScheduledOnce, QueuedOnce
<1> QED BY <1>1, <1>2, <1>3, <1>4, <1>5, <1>6, <1>7, <1>8 DEF Next

\* The lock is a lock as long as no two processors wait for it.
LEMMA StepExcludes == TypeOK /\ Placed /\ LockExcludes /\ [Next]_vars => LockExcludes'
<1> SUFFICES ASSUME TypeOK, Placed, LockExcludes, [Next]_vars, ~crowded' PROVE LockExcludes'
  BY DEF LockExcludes
<1> USE DEF startVars, lockVars, pastVars
<1>0. /\ proc \in [Tasks -> Processor] /\ lock \in Tasks \cup {NoTask} /\ NoTask \notin Tasks
      /\ awaiting \in [Tasks -> Seq(Tasks)]
  BY ConstantsAssumption DEF TypeOK
<1>1. CASE UNCHANGED <<proc, lock, awaiting, crowded>>
  BY <1>1 DEF LockExcludes
<1>2. CASE Spawn
  <2> DEFINE t == Head(scheduled)
  <2>1. t \in Tasks /\ proc[t] = "none" /\ ~crowded
    <3>1. t = scheduled[1] /\ 1 \in DOMAIN scheduled
      BY <1>2 DEF Spawn, TypeOK
    <3> QED BY <1>2, <3>1 DEF Spawn, Placed, ScheduledOnce, TypeOK
  <2>2. \/ /\ lock = NoTask /\ lock' = t
           /\ proc' = [proc EXCEPT ![t] = "totals"] /\ UNCHANGED awaiting
        \/ /\ lock \in Tasks /\ lock' = lock
           /\ proc' = [proc EXCEPT ![t] = "queued"]
           /\ awaiting' = [awaiting EXCEPT ![lock] = Append(@, t)]
    BY <1>0, <1>2 DEF Spawn, LockFound
  <2> HIDE DEF t
  <2>3. CASE lock = NoTask
    <3>1. lock' = t /\ proc'[t] = "totals" /\ \A u \in Tasks \ {t} : proc'[u] = proc[u]
      BY <1>0, <2>1, <2>2, <2>3
    <3>2. UNCHANGED awaiting /\ \A u \in Tasks : awaiting[u] = <<>>
      BY <1>0, <2>1, <2>2, <2>3 DEF LockExcludes
    <3>3. "totals" \in Working
      BY DEF Working
    <3> QED BY <1>0, <2>1, <2>3, <3>1, <3>2, <3>3 DEF LockExcludes
  <2>4. CASE lock \in Tasks
    <3>1. lock' = lock /\ proc'[t] = "queued" /\ \A u \in Tasks \ {t} : proc'[u] = proc[u]
      BY <1>0, <2>1, <2>2, <2>4
    <3>2. \A u \in Tasks \ {lock} : awaiting'[u] = awaiting[u]
      BY <1>0, <2>2, <2>4
    <3>3. proc[lock] \in Working /\ lock # t
      BY <1>0, <2>1, <2>4 DEF LockExcludes, Working
    <3>4. "queued" \notin Working
      BY DEF Working
    <3> QED BY <1>0, <2>1, <2>4, <3>1, <3>2, <3>3, <3>4 DEF LockExcludes
  <2> QED BY <1>0, <2>3, <2>4
<1>3. ASSUME NEW t \in Tasks, Process(t) \/ Error(t) PROVE LockExcludes'
  <2>1. CASE /\ proc[t] \in Working
             /\ \E q \in Working : proc' = [proc EXCEPT ![t] = q]
             /\ UNCHANGED <<lockVars, crowded>>
    BY <1>0, <2>1 DEF LockExcludes
  <2>2. CASE /\ proc[t] \in Ending
             /\ \E q \in {"gone", "failing"} : proc' = [proc EXCEPT ![t] = q]
             /\ UNCHANGED <<lockVars, crowded>>
    <3>1. proc[t] \notin Working /\ {"gone", "failing"} \cap Working = {}
      BY <2>2 DEF Ending, Working
    <3> QED BY <1>0, <2>2, <3>1 DEF LockExcludes
  <2>3. CASE proc[t] \in Working /\ \E q \in Ending : EndProcess(t, q)
    <3>1. PICK q \in Ending : EndProcess(t, q)
      BY <2>3
    <3>2. ~crowded /\ ~(Len(awaiting[t]) > 1)
      BY <3>1 DEF EndProcess, WokenBy
    <3>3. /\ lock = t
          /\ \A u \in Tasks \ {t} : proc[u] \notin Working /\ awaiting[u] = <<>>
      BY <1>0, <2>3, <3>2 DEF LockExcludes
    <3>4. /\ proc'[t] = q
          /\ \A u \in Tasks \ {t} : proc'[u] = IF \E k \in DOMAIN awaiting[t] : awaiting[t][k] = u
                                               THEN "totals" ELSE proc[u]
          /\ awaiting' = [awaiting EXCEPT ![t] = <<>>]
          /\ lock' = IF awaiting[t] = <<>> THEN NoTask ELSE awaiting[t][Len(awaiting[t])]
      BY <3>1 DEF EndProcess, WokenBy
    <3>5. \A u \in Tasks : awaiting'[u] = <<>>
      BY <1>0, <3>3, <3>4
    <3>6. q \notin Working /\ "totals" \in Working
      BY DEF Ending, Working
    <3>7. CASE awaiting[t] = <<>>
      BY <1>0, <3>3, <3>4, <3>5, <3>6, <3>7 DEF LockExcludes
    <3>8. CASE awaiting[t] # <<>>
      <4>1. awaiting[t] \in Seq(Tasks) /\ Len(awaiting[t]) = 1 /\ DOMAIN awaiting[t] = {1}
        <5>1. awaiting[t] \in Seq(Tasks)
          BY <1>0
        <5>2. Len(awaiting[t]) \in Nat \ {0} /\ DOMAIN awaiting[t] = 1..Len(awaiting[t])
          BY <3>8, <5>1, EmptySeq
        <5>3. Len(awaiting[t]) = 1
          <6> DEFINE n == Len(awaiting[t])
          <6>1. n \in Nat \ {0} /\ ~(n > 1)
            BY <3>2, <5>2
          <6> HIDE DEF n
          <6>2. n = 1
            BY <6>1
          <6> QED BY <6>2 DEF n
        <5> QED BY <5>1, <5>2, <5>3
      <4>2. lock' = awaiting[t][1] /\ awaiting[t][1] \in Tasks
        BY <3>4, <3>8, <4>1
      <4>3. awaiting[t][1] # t
        <5>1. proc[awaiting[t][1]] = "queued"
          BY <4>1 DEF Placed, QueuedOnce
        <5> QED BY <2>3, <5>1 DEF Working
      <4>4. \A u \in Tasks : proc'[u] \in Working <=> u = lock'
        BY <3>3, <3>4, <3>6, <4>1, <4>2, <4>3
      <4> QED BY <3>5, <4>2, <4>4 DEF LockExcludes
    <3> QED BY <3>7, <3>8
  <2> QED BY <1>3, <2>1, <2>2, <2>3, ProcessorMoves DEF Process
<1>4. CASE Crash
  <2>1. lock' = NoTask /\ \A t \in Tasks : awaiting'[t] = <<>>
    BY <1>4 DEF Crash
  <2>2. \A t \in Tasks : proc'[t] \notin Working
    <3> SUFFICES ASSUME NEW t \in Tasks PROVE proc'[t] \notin Working
      OBVIOUS
    <3>1. CASE t \in Running
      <4>1. proc'[t] = "lost"
        BY <1>4, <3>1 DEF Crash
      <4> QED BY <4>1 DEF Working
    <3>2. CASE t \notin Running
      <4>1. proc[t] \notin Working
        BY <3>2 DEF Running
      <4>2. proc'[t] = proc[t] \/ proc'[t] = "lost"
        BY <1>4 DEF Crash
      <4> QED BY <4>1, <4>2 DEF Working
    <3> QED BY <3>1, <3>2
  <2> QED BY <2>1, <2>2 DEF LockExcludes
<1>5. ASSUME NEW t \in Tasks,
             \/ StartReads(t) \/ StartChecks(t) \/ StartInserts(t)
             \/ CancelReads(t) \/ CancelActs(t) \/ CancelKills(t) \/ CancelWrites(t)
      PROVE  UNCHANGED <<proc, lock, awaiting, crowded>>
  BY <1>5 DEF StartReads, StartChecks, StartInserts, CancelReads, CancelActs, CancelKills, CancelWrites
<1>6. MutationRuns \/ EditFilters \/ Restart \/ UNCHANGED vars => UNCHANGED <<proc, lock, awaiting, crowded>>
  BY DEF MutationRuns, EditFilters, Restart, vars
<1> QED BY <1>1, <1>2, <1>3, <1>4, <1>5, <1>6 DEF Next

\* What has ended stays ended.
LEMMA StepSettles == TypeOK /\ Placed /\ FinishedIsSettled /\ [Next]_vars => FinishedIsSettled'
<1> SUFFICES ASSUME TypeOK, Placed, FinishedIsSettled, [Next]_vars, NEW t \in Tasks, proc'[t] = "gone"
             PROVE  row'[t] \in Terminal \/ t \in unsaved'
  BY DEF FinishedIsSettled
<1> USE DEF startVars, lockVars, workVars, storeVars, boundVars, pastVars
<1>0. /\ proc \in [Tasks -> Processor] /\ row \in [Tasks -> {"none"} \cup Active \cup Terminal]
      /\ proc[t] = "gone" => row[t] \in Terminal \/ t \in unsaved
  BY DEF TypeOK, FinishedIsSettled
<1>1. CASE UNCHANGED <<proc, row, unsaved>>
  BY <1>0, <1>1
<1>2. ASSUME NEW u \in Tasks, StartReads(u) \/ StartChecks(u) PROVE UNCHANGED <<proc, row, unsaved>>
  BY <1>2 DEF StartReads, StartChecks
<1>3. ASSUME NEW u \in Tasks, StartInserts(u) PROVE row'[t] \in Terminal \/ t \in unsaved'
  <2>1. proc[u] = "none" /\ UNCHANGED <<proc, unsaved>> /\ row' = [row EXCEPT ![u] = "pending"]
    BY <1>3 DEF StartInserts, Placed, UnstartedAreIdle
  <2> QED BY <1>0, <2>1
<1>4. CASE Spawn
  <2>1. Head(scheduled) \in Tasks
    BY <1>4 DEF Spawn, TypeOK
  <2>2. proc'[t] = proc[t] \/ proc'[t] \in {"totals", "queued"}
    BY <1>0, <1>4, <2>1 DEF Spawn
  <2> QED BY <1>0, <1>4, <2>2 DEF Spawn
<1>5. ASSUME NEW u \in Tasks, Process(u) \/ Error(u) PROVE row'[t] \in Terminal \/ t \in unsaved'
  <2>1. proc[u] \in Working \cup Ending
    BY <1>5, ProcessorMoves DEF Process
  <2>2. unsaved \subseteq unsaved'
    BY <1>5 DEF Process, Totals, BeginChunk, Submit, WaitEnds, EndChunk, EndChunks, KillOnError, WriteStatus, Error
  <2>3. CASE u # t
    <3>1. row'[t] = row[t] /\ (proc'[t] = proc[t] \/ proc'[t] = "totals")
      <4>1. row'[t] = row[t]
        BY <1>0, <1>5, <2>3, ProcessorMoves DEF Process
      <4>2. ASSUME NEW q \in Ending, EndProcess(u, q) PROVE proc'[t] = proc[t] \/ proc'[t] = "totals"
        BY <2>3, <4>2 DEF EndProcess
      <4>3. ASSUME NEW q, proc' = [proc EXCEPT ![u] = q] PROVE proc'[t] = proc[t]
        BY <1>0, <2>3, <4>3
      <4> QED BY <1>5, <4>1, <4>2, <4>3, ProcessorMoves DEF Process
    <3> QED BY <1>0, <2>2, <3>1
  <2>4. CASE u = t
    <3>1. CASE WriteStatus(t)
      <4>1. \/ row' = [row EXCEPT ![t] = StatusAfter(t)]
            \/ proc[t] = "failing" /\ t \in unsaved'
        BY <1>0, <3>1 DEF WriteStatus
      <4>2. StatusAfter(t) \in Terminal
        BY <3>1, EndingStatuses DEF WriteStatus
      <4> QED BY <1>0, <4>1, <4>2
    <3>2. CASE ~WriteStatus(t)
      <4>1. ASSUME NEW q \in Working \cup Ending, proc' = [proc EXCEPT ![t] = q] PROVE FALSE
        <5>1. proc'[t] = q
          BY <1>0, <4>1
        <5> QED BY <5>1 DEF Working, Ending
      <4>2. ASSUME NEW q \in Ending, EndProcess(t, q) PROVE FALSE
        <5>1. proc'[t] = q
          BY <4>2 DEF EndProcess
        <5> QED BY <5>1 DEF Ending
      <4>3. \/ \E q \in Working \cup Ending : proc' = [proc EXCEPT ![t] = q]
            \/ \E q \in Ending : EndProcess(t, q)
        BY <1>5, <2>4, <3>2
           DEF Process, Totals, BeginChunk, Submit, WaitEnds, EndChunk, EndChunks, KillOnError, Error,
               GoToTable, Working, Ending
      <4> QED BY <4>1, <4>2, <4>3
    <3> QED BY <3>1, <3>2
  <2> QED BY <2>3, <2>4
<1>6. ASSUME NEW u \in Tasks, CancelReads(u) \/ CancelActs(u) \/ CancelKills(u)
      PROVE  UNCHANGED <<proc, row, unsaved>>
  BY <1>6 DEF CancelReads, CancelActs, CancelKills
<1>7. ASSUME NEW u \in Tasks, CancelWrites(u) PROVE row'[t] \in Terminal \/ t \in unsaved'
  BY <1>0, <1>7 DEF CancelWrites, StatusOfCancel, Terminal
<1>8. MutationRuns \/ EditFilters \/ UNCHANGED vars => UNCHANGED <<proc, row, unsaved>>
  BY DEF MutationRuns, EditFilters, vars
<1>9. CASE Crash
  <2>1. proc[t] = "gone"
    BY <1>9 DEF Crash
  <2> QED BY <1>0, <1>9, <2>1 DEF Crash
<1>10. CASE Restart
  <2>1. row'[t] = row[t] \/ row'[t] = "failed"
    BY <1>10 DEF Restart
  <2> QED BY <1>0, <1>10, <2>1 DEF Restart, Terminal
<1> QED BY <1>1, <1>2, <1>3, <1>4, <1>5, <1>6, <1>7, <1>8, <1>9, <1>10 DEF Next

-----------------------------------------------------------------------------
(* What a task has rewritten. *)

\* Before its processor begins a task has done nothing, and only tasks that submitted one have mutations.
Unbegun ==
  /\ \A t \in Tasks : proc[t] \in {"none", "queued", "totals"} =>
        day[t] = 1 /\ monthsDone[t] = {} /\ applied[t] = {} /\ t \notin submitted
  /\ \A k \in DOMAIN mutations : mutations[k].by \in submitted
  /\ \A t \in Tasks : proc[t] = "wait" => t \in submitted

Advancing == {"chunk", "submit", "wait", "progress"}
Current(t) == PartitionOf(Tables[table[t]], day[t])
RewrittenBy(t, d, k) == Skipped(Tables[k], d) \/ PartitionOf(Tables[k], d) \in applied[t]
DaysDone(t) == \A d \in Days : d < day[t] => \A k \in DOMAIN Tables : RewrittenBy(t, d, k)
TablesDone(t, n) == \A k \in DOMAIN Tables : k < n => RewrittenBy(t, day[t], k)
HasMutation(t, part) == \E k \in DOMAIN mutations : mutations[k] = [part |-> part, by |-> t]

\* A processor has rewritten what lies behind it, and the partition it is at is being rewritten.
OnItsWay(t) ==
  /\ monthsDone[t] \subseteq applied[t]
  /\ DaysDone(t)
  /\ proc[t] \in {"submit", "wait", "progress"} => TablesDone(t, table[t])
  /\ proc[t] = "progress" => table[t] = Len(Tables) + 1
  /\ proc[t] = "wait" => Current(t) \in applied[t] \/ HasMutation(t, Current(t))

\* A kill may take its mutation from a task that is cancelled, or robbed by another one.
Excused(t) == t \in robbed \cup cancelled

WayIsMade(t) == proc[t] \in Advancing => Excused(t) \/ OnItsWay(t)
CompletionIsEarned(t) ==
  /\ proc[t] = "completing" \/ row[t] = "completed" => Scope \subseteq applied[t] \/ t \in robbed
  /\ row[t] = "completed" => proc[t] = "gone"
  /\ cancel[t] = "kill" => t \in cancelled

Whole == \A t \in Tasks : WayIsMade(t) /\ CompletionIsEarned(t)

\* Chunks of one day, as startBackfill makes them unless it is told otherwise.
DailyChunks == ChunkSize = 1

\* Every step leaves tasks that have not begun without a trace in the data.
LEMMA StepBegins == TypeOK /\ Placed /\ Unbegun /\ [Next]_vars => Unbegun'
<1> SUFFICES ASSUME TypeOK, Placed, Unbegun, [Next]_vars PROVE Unbegun'
  OBVIOUS
<1> USE DEF startVars, lockVars, workVars, storeVars, boundVars, pastVars
<1> DEFINE Begins(t) == proc[t] \in {"none", "queued", "totals"} =>
                          day[t] = 1 /\ monthsDone[t] = {} /\ applied[t] = {} /\ t \notin submitted
<1>0. /\ proc \in [Tasks -> Processor]
      /\ \A t \in Tasks : Begins(t)
  BY DEF TypeOK, Unbegun
<1>1. CASE UNCHANGED <<day, monthsDone, mutations, submitted, applied>> /\
           \A t \in Tasks : proc'[t] = proc[t] \/ (proc[t] \in {"none", "queued"} /\
                            proc'[t] \in {"totals", "queued"}) \/ proc'[t] = "lost"
  <2>1. \A t \in Tasks : Begins(t)'
    BY <1>0, <1>1
  <2>2. \A t \in Tasks : proc'[t] = "wait" => proc[t] = "wait"
    BY <1>1
  <2> QED BY <1>1, <2>1, <2>2 DEF Unbegun
<1>2. ASSUME NEW t \in Tasks,
             \/ StartReads(t) \/ StartChecks(t) \/ StartInserts(t)
             \/ CancelReads(t) \/ CancelActs(t) \/ CancelWrites(t)
      PROVE  UNCHANGED <<day, monthsDone, mutations, submitted, applied, proc>>
  BY <1>2 DEF StartReads, StartChecks, StartInserts, CancelReads, CancelActs, CancelWrites
<1>3. EditFilters \/ Restart \/ UNCHANGED vars => UNCHANGED <<day, monthsDone, mutations, submitted, applied, proc>>
  BY DEF EditFilters, Restart, vars
<1>4. CASE Crash
  BY <1>1, <1>4 DEF Crash
<1>5. CASE Spawn
  <2>1. Head(scheduled) \in Tasks /\ proc[Head(scheduled)] = "none"
    <3>1. Head(scheduled) = scheduled[1] /\ 1 \in DOMAIN scheduled /\ scheduled[1] \in Tasks
      BY <1>5 DEF Spawn, TypeOK
    <3> QED BY <3>1 DEF Placed, ScheduledOnce
  <2>2. \A t \in Tasks : proc'[t] = proc[t] \/ (proc[t] \in {"none", "queued"} /\ proc'[t] \in {"totals", "queued"})
    BY <1>0, <1>5, <2>1 DEF Spawn
  <2> QED BY <1>1, <1>5, <2>2 DEF Spawn
<1>6. ASSUME NEW t \in Tasks, CancelKills(t) PROVE Unbegun'
  <2>1. UNCHANGED <<day, monthsDone, submitted, applied, proc>> /\ mutations' = <<>>
    BY <1>6 DEF CancelKills, Kill
  <2> QED BY <2>1 DEF Unbegun
<1>7. CASE MutationRuns
  <2>1. PICK k \in Executing :
          /\ mutations' = Remaining(mutations, k)
          /\ applied' = [applied EXCEPT ![mutations[k].by] = @ \cup {mutations[k].part}]
    BY <1>7 DEF MutationRuns, Remaining
  <2>2. k \in DOMAIN mutations /\ mutations \in Seq(Mutation)
    BY DEF Executing, TypeOK
  <2>3. mutations[k].by \in submitted
    BY <2>2 DEF Unbegun
  <2>4. UNCHANGED <<day, monthsDone, submitted, proc>>
    BY <1>7 DEF MutationRuns
  <2>5. \A t \in Tasks : applied'[t] = applied[t] \/ t \in submitted
    BY <2>1, <2>3 DEF TypeOK
  <2>6. \A j \in DOMAIN mutations' : mutations'[j].by \in submitted
    <3>1. \A j \in DOMAIN mutations' : \E i \in DOMAIN mutations : mutations'[j] = mutations[i]
      BY <2>1, <2>2, Removal
    <3> QED BY <3>1 DEF Unbegun
  <2>7. \A t \in Tasks : Begins(t)'
    BY <1>0, <2>4, <2>5
  <2> QED BY <2>4, <2>6, <2>7 DEF Unbegun
<1>8. ASSUME NEW u \in Tasks, Process(u) \/ Error(u) PROVE Unbegun'
  <2>1. /\ proc[u] \in Working \cup Ending
        /\ proc'[u] \notin {"none", "queued", "totals"}
        /\ \A t \in Tasks \ {u} : proc'[t] = proc[t] \/ (proc[t] = "queued" /\ proc'[t] = "totals")
    <3>1. ASSUME NEW q \in (Working \ {"totals"}) \cup {"gone", "failing"}, proc' = [proc EXCEPT ![u] = q]
          PROVE  proc'[u] \notin {"none", "queued", "totals"} /\ \A t \in Tasks \ {u} : proc'[t] = proc[t]
      BY <1>0, <3>1 DEF Working
    <3>2. ASSUME NEW q \in Ending, EndProcess(u, q)
          PROVE  /\ proc'[u] \notin {"none", "queued", "totals"}
                 /\ \A t \in Tasks \ {u} : proc'[t] = proc[t] \/ (proc[t] = "queued" /\ proc'[t] = "totals")
      BY <1>0, <3>2 DEF EndProcess, WokenBy, Ending, Placed, QueuedOnce
    <3>3. /\ proc[u] \in Working \cup Ending
          /\ \/ \E q \in (Working \ {"totals"}) \cup {"gone", "failing"} : proc' = [proc EXCEPT ![u] = q]
             \/ \E q \in Ending : EndProcess(u, q)
      BY <1>8, ProcessorMoves DEF Process
    <3> QED BY <3>1, <3>2, <3>3
  <2>2. /\ \A t \in Tasks \ {u} : day'[t] = day[t] /\ monthsDone'[t] = monthsDone[t]
        /\ applied' = applied
        /\ submitted' = submitted \/ (submitted' = submitted \cup {u} /\ Submit(u))
    BY <1>8 DEF Process, Totals, BeginChunk, Submit, WaitEnds, EndChunk, EndChunks, KillOnError, Kill, WriteStatus,
                Error, TypeOK
  <2>3. \A t \in Tasks : Begins(t)'
    BY <1>0, <2>1, <2>2
  <2>4. CASE Submit(u)
    <3>1. /\ submitted' = submitted \cup {u}
          /\ mutations' = Append(mutations, [part |-> PartitionOf(Tables[table[u]], day[u]), by |-> u])
          /\ proc' = [proc EXCEPT ![u] = "wait"]
      BY <2>4 DEF Submit
    <3>2. [part |-> PartitionOf(Tables[table[u]], day[u]), by |-> u] \in Mutation
      BY <2>4, PartitionsExist DEF Submit, TypeOK, Mutation
    <3>3. \A k \in DOMAIN mutations' : mutations'[k].by = u \/ (k \in DOMAIN mutations /\ mutations'[k] = mutations[k])
      <4>1. mutations \in Seq(Mutation)
        BY DEF TypeOK
      <4>2. \A k \in DOMAIN mutations' : k = Len(mutations) + 1 \/ k \in 1..Len(mutations)
        BY <3>1, <3>2, <4>1, AppendProperties
      <4> QED BY <3>1, <3>2, <4>1, <4>2, AppendProperties
    <3> QED BY <1>0, <2>3, <3>1, <3>3 DEF Unbegun
  <2>5. CASE ~Submit(u)
    <3>1. submitted' = submitted /\ (mutations' = mutations \/ mutations' = <<>>)
      BY <1>8, <2>5 DEF Process, Totals, BeginChunk, WaitEnds, EndChunk, EndChunks, KillOnError, Kill, WriteStatus,
         Error
    <3>2. proc'[u] # "wait"
      <4>1. ASSUME EndProcess(u, "failing") \/ EndProcess(u, "cancelling") \/ EndProcess(u, "completing")
            PROVE  proc'[u] # "wait"
        BY <4>1 DEF EndProcess
      <4> QED BY <1>0, <1>8, <2>5, <4>1
                 DEF Process, Totals, BeginChunk, WaitEnds, EndChunk, EndChunks, KillOnError, WriteStatus, Error, GoToTable
    <3>3. \A t \in Tasks : proc'[t] = "wait" => t \in submitted'
      BY <2>1, <3>1, <3>2 DEF Unbegun
    <3>4. \A k \in DOMAIN mutations' : mutations'[k].by \in submitted'
      BY <3>1 DEF Unbegun
    <3> QED BY <2>3, <3>3, <3>4 DEF Unbegun
  <2> QED BY <2>4, <2>5
<1> QED BY <1>1, <1>2, <1>3, <1>4, <1>5, <1>6, <1>7, <1>8 DEF Next

\* Nothing a task has rewritten is lost, so a step that leaves its processor alone leaves it on its way.
LEMMA WayIsKept ==
  ASSUME NEW t \in Tasks, WayIsMade(t),
         proc'[t] = proc[t] \/ proc'[t] \notin Advancing,
         day'[t] = day[t], table'[t] = table[t], monthsDone'[t] = monthsDone[t],
         applied[t] \subseteq applied'[t],
         Excused(t) => Excused(t)',
         \A part : HasMutation(t, part) => HasMutation(t, part)' \/ part \in applied'[t] \/ Excused(t)'
  PROVE  WayIsMade(t)'
<1> SUFFICES ASSUME proc'[t] \in Advancing, ~Excused(t)' PROVE OnItsWay(t)'
  BY DEF WayIsMade
<1>1. OnItsWay(t) /\ proc'[t] = proc[t]
  BY DEF WayIsMade
<1>2. Current(t)' = Current(t)
  BY DEF Current
<1>3. \A d, k : RewrittenBy(t, d, k) => RewrittenBy(t, d, k)'
  BY DEF RewrittenBy
<1>4. DaysDone(t)'
  BY <1>1, <1>3 DEF OnItsWay, DaysDone
<1>5. proc[t] \in {"submit", "wait", "progress"} => TablesDone(t, table[t])'
  BY <1>1, <1>3 DEF OnItsWay, TablesDone
<1>6. proc[t] = "wait" => Current(t) \in applied'[t] \/ HasMutation(t, Current(t))'
  BY <1>1, <1>2 DEF OnItsWay
<1>7. /\ monthsDone'[t] \subseteq applied'[t]
      /\ proc'[t] = "progress" => table'[t] = Len(Tables) + 1
  BY <1>1 DEF OnItsWay
<1> QED BY <1>1, <1>2, <1>4, <1>5, <1>6, <1>7 DEF OnItsWay

\* A step that neither completes a task nor takes anything it has rewritten leaves its completion earned.
LEMMA CompletionIsKept ==
  ASSUME NEW t \in Tasks, CompletionIsEarned(t),
         proc'[t] = "completing" => proc[t] = "completing",
         row'[t] = "completed" => row[t] = "completed" /\ proc'[t] = proc[t],
         cancel'[t] = "kill" => cancel[t] = "kill" /\ cancelled \subseteq cancelled',
         applied[t] \subseteq applied'[t], robbed \subseteq robbed'
  PROVE  CompletionIsEarned(t)'
BY DEF CompletionIsEarned

\* NextTable passes over tables that are done.
LEMMA TablesArePassed ==
  ASSUME TypeOK, NEW t \in Tasks, NEW k \in 1..Len(Tables) + 1,
         monthsDone[t] \subseteq applied[t], TablesDone(t, k)
  PROVE  TablesDone(t, NextTable(t, k))
<1> SUFFICES ASSUME NEW j \in DOMAIN Tables, j < NextTable(t, k), ~(j < k) PROVE RewrittenBy(t, day[t], j)
  BY DEF TablesDone
<1>1. j \in k..Len(Tables)
  BY ConstantsAssumption
<1>2. j \notin ToRewrite(t, k)
  BY <1>1, NextTableIsFirst
<1> QED BY <1>1, <1>2 DEF ToRewrite, RewrittenBy

\* A processor begins or goes on with a chunk.
LEMMA WayGoesToTable ==
  ASSUME TypeOK, NEW t \in Tasks, NEW k \in 1..Len(Tables) + 1, GoToTable(t, k),
         DaysDone(t), TablesDone(t, k), monthsDone[t] \subseteq applied[t],
         day'[t] = day[t], monthsDone'[t] \subseteq applied[t], applied' = applied
  PROVE  OnItsWay(t)'
<1> DEFINE n == NextTable(t, k)
<1>1. n \in k..Len(Tables) + 1 /\ Len(Tables) \in Nat
  BY NextTableIsFirst, ConstantsAssumption
<1>2. table'[t] = n /\ proc'[t] = IF n > Len(Tables) THEN "progress" ELSE "submit"
  BY DEF GoToTable, TypeOK
<1>3. TablesDone(t, n)
  BY TablesArePassed
<1> HIDE DEF n
<1>4. \A d, j : RewrittenBy(t, d, j) => RewrittenBy(t, d, j)'
  BY DEF RewrittenBy
<1>5. DaysDone(t)'
  BY <1>4 DEF DaysDone
<1>6. \A j \in DOMAIN Tables : j < table'[t] => RewrittenBy(t, day[t], j)'
  BY <1>2, <1>3, <1>4 DEF TablesDone
<1>7. proc'[t] # "wait" /\ (proc'[t] = "progress" => table'[t] = Len(Tables) + 1)
  BY <1>1, <1>2
<1> QED BY <1>5, <1>6, <1>7 DEF OnItsWay, TablesDone, RewrittenBy

\* A chunk is done: so are the days up to the next one.
LEMMA DaysAreDone ==
  ASSUME TypeOK, DailyChunks, NEW t \in Tasks, DaysDone(t), TablesDone(t, Len(Tables) + 1),
         day'[t] = day[t] + ChunkSize, applied' = applied
  PROVE  DaysDone(t)'
<1> SUFFICES ASSUME NEW d \in Days, d < day'[t], NEW k \in DOMAIN Tables PROVE RewrittenBy(t, d, k)'
  BY DEF DaysDone
<1>1. day[t] \in Nat /\ d \in Nat /\ (d < day[t] \/ d = day[t])
  BY DEF TypeOK, DailyChunks, Days
<1>2. k < Len(Tables) + 1
  BY ConstantsAssumption
<1>3. RewrittenBy(t, d, k)
  BY <1>1, <1>2 DEF DaysDone, TablesDone
<1> QED BY <1>3 DEF RewrittenBy

\* No day is left: the scope is rewritten.
LEMMA ScopeIsDone ==
  ASSUME TypeOK, NEW t \in Tasks, DaysDone(t), day[t] \notin Days
  PROVE  Scope \subseteq applied[t]
<1>1. day[t] \in Nat \ {0} /\ LookbackDays \in Nat
  BY ConstantsAssumption DEF TypeOK
<1>2. \A d \in Days : d < day[t]
  BY <1>1 DEF Days
<1>3. ASSUME NEW k \in DOMAIN Tables, NEW d \in Days, ~Skipped(Tables[k], d)
      PROVE  PartitionOf(Tables[k], d) \in applied[t]
  BY <1>2, <1>3 DEF DaysDone, RewrittenBy
<1> QED BY <1>3 DEF Scope

\* The step of the processor of a task does not change what others have done.
LEMMA OthersGoOn ==
  ASSUME TypeOK, Placed, Whole, NEW u \in Tasks, Process(u) \/ Error(u), NEW t \in Tasks \ {u}
  PROVE  WayIsMade(t)' /\ CompletionIsEarned(t)'
<1> USE DEF startVars, lockVars, workVars, storeVars, boundVars, pastVars
<1>1. /\ day'[t] = day[t] /\ table'[t] = table[t] /\ monthsDone'[t] = monthsDone[t]
      /\ applied' = applied /\ cancelled' = cancelled /\ cancel' = cancel /\ row'[t] = row[t]
  BY <1>1 DEF Process, Totals, BeginChunk, GoToTable, Submit, WaitEnds, EndChunk, EndChunks, KillOnError, Kill,
              WriteStatus, Error, TypeOK
<1>2. proc'[t] = proc[t] \/ (proc[t] = "queued" /\ proc'[t] = "totals")
  <2>1. ASSUME NEW q, proc' = [proc EXCEPT ![u] = q] PROVE proc'[t] = proc[t]
    BY <2>1 DEF TypeOK
  <2>2. ASSUME NEW q, EndProcess(u, q) PROVE proc'[t] = proc[t] \/ (proc[t] = "queued" /\ proc'[t] = "totals")
    BY <2>2 DEF EndProcess, WokenBy, Placed, QueuedOnce
  <2> QED BY <2>1, <2>2, ProcessorMoves DEF Process
<1>3. robbed \subseteq robbed'
  BY DEF Process, Totals, BeginChunk, Submit, WaitEnds, EndChunk, EndChunks, KillOnError, Kill, WriteStatus, Error
<1>4. \A part : HasMutation(t, part) => HasMutation(t, part)' \/ Excused(t)'
  <2>1. CASE UNCHANGED mutations
    BY <2>1 DEF HasMutation
  <2>2. CASE Kill(u)
    BY <2>2 DEF Kill, HasMutation, Excused
  <2>3. CASE Submit(u)
    <3>1. mutations \in Seq(Mutation)
      BY DEF TypeOK
    <3>2. [part |-> PartitionOf(Tables[table[u]], day[u]), by |-> u] \in Mutation
      BY <2>3, PartitionsExist DEF Submit, TypeOK, Mutation
    <3>3. \A k \in DOMAIN mutations : k \in DOMAIN mutations' /\ mutations'[k] = mutations[k]
      BY <2>3, <3>1, <3>2, AppendProperties DEF Submit
    <3> QED BY <3>3 DEF HasMutation
  <2> QED
    BY <2>1, <2>2, <2>3
       DEF Process, Totals, BeginChunk, WaitEnds, EndChunk, EndChunks, KillOnError, WriteStatus, Error
<1>5. Excused(t) => Excused(t)'
  BY <1>1, <1>3 DEF Excused
<1>6. WayIsMade(t)'
  BY <1>1, <1>2, <1>4, <1>5, WayIsKept DEF Whole, Advancing
<1>7. CompletionIsEarned(t)'
  <2>1. row[t] = "completed" => proc[t] = "gone"
    BY DEF Whole, CompletionIsEarned
  <2> QED BY <1>1, <1>2, <1>3, <2>1, CompletionIsKept DEF Whole
<1> QED BY <1>6, <1>7

\* The step of the processor itself.
LEMMA ProcessorAdvances ==
  ASSUME TypeOK, Placed, Unbegun, Whole, DailyChunks, NEW t \in Tasks, Process(t) \/ Error(t)
  PROVE  WayIsMade(t)' /\ CompletionIsEarned(t)'
<1> USE DEF startVars, lockVars, workVars, storeVars, boundVars, pastVars
<1>0. /\ proc \in [Tasks -> Processor] /\ WayIsMade(t) /\ CompletionIsEarned(t)
      /\ row \in [Tasks -> {"none"} \cup Active \cup Terminal]
      /\ day \in [Tasks -> Nat \ {0}] /\ table \in [Tasks -> 1..Len(Tables) + 1]
      /\ monthsDone \in [Tasks -> SUBSET Partition]
  BY DEF TypeOK, Whole
<1>1. applied' = applied /\ cancelled' = cancelled /\ cancel' = cancel /\ robbed \subseteq robbed'
  BY DEF Process, Totals, BeginChunk, Submit, WaitEnds, EndChunk, EndChunks, KillOnError, Kill, WriteStatus, Error
<1>2. row[t] # "completed"
  BY <1>0, ProcessorMoves DEF Process, CompletionIsEarned, Working, Ending
<1>3. ASSUME row'[t] # "completed", proc'[t] # "completing" PROVE CompletionIsEarned(t)'
  BY <1>0, <1>1, <1>3 DEF CompletionIsEarned
<1>4. CASE Totals(t)
  <2>1. proc'[t] = "chunk" /\ row'[t] # "completed"
    BY <1>0, <1>4 DEF Totals
  <2>2. day'[t] = 1 /\ monthsDone'[t] = {}
    BY <1>4 DEF Totals, Unbegun
  <2>3. DaysDone(t)'
    BY <2>2 DEF DaysDone, Days
  <2>4. OnItsWay(t)'
    BY <2>1, <2>2, <2>3 DEF OnItsWay
  <2> QED BY <1>3, <2>1, <2>4 DEF WayIsMade
<1>5. CASE BeginChunk(t)
  <2>1. t \notin cancelled /\ GoToTable(t, 1) /\ proc[t] = "chunk" /\ UNCHANGED <<day, monthsDone, robbed>>
    BY <1>5 DEF BeginChunk, ChunkLeft
  <2>2. 1 \in 1..Len(Tables) + 1 /\ TablesDone(t, 1)
    BY ConstantsAssumption DEF TablesDone
  <2>3. proc'[t] \in {"progress", "submit"} /\ row'[t] # "completed"
    BY <1>0, <1>5 DEF BeginChunk, GoToTable
  <2>4. CASE Excused(t)
    BY <1>1, <1>3, <2>1, <2>3, <2>4 DEF WayIsMade, Excused
  <2>5. CASE OnItsWay(t)
    <3>1. DaysDone(t) /\ monthsDone[t] \subseteq applied[t]
      BY <2>5 DEF OnItsWay
    <3>2. OnItsWay(t)'
      BY <1>1, <2>1, <2>2, <3>1, WayGoesToTable
    <3> QED BY <1>3, <2>3, <3>2 DEF WayIsMade
  <2> QED BY <1>0, <2>1, <2>4, <2>5 DEF WayIsMade, Advancing
<1>6. CASE Submit(t)
  <2>1. /\ proc[t] = "submit" /\ proc'[t] = "wait" /\ UNCHANGED <<row, day, table, monthsDone, robbed>>
        /\ mutations' = Append(mutations, [part |-> Current(t), by |-> t])
    BY <1>0, <1>6 DEF Submit, Current
  <2>2. CASE Excused(t)
    BY <1>1, <1>2, <1>3, <2>1, <2>2 DEF WayIsMade, Excused
  <2>3. CASE OnItsWay(t)
    <3>1. mutations \in Seq(Mutation) /\ [part |-> Current(t), by |-> t] \in Mutation
      BY <1>6, PartitionsExist DEF Submit, TypeOK, Mutation, Current
    <3>2. Len(mutations) + 1 \in DOMAIN mutations' /\ mutations'[Len(mutations) + 1] = [part |-> Current(t), by |-> t]
      BY <2>1, <3>1, AppendProperties
    <3>3. Current(t)' = Current(t)
      BY <2>1 DEF Current
    <3>4. HasMutation(t, Current(t))'
      BY <3>2, <3>3 DEF HasMutation
    <3>5. monthsDone[t] \subseteq applied[t] /\ DaysDone(t) /\ TablesDone(t, table[t])
      BY <2>1, <2>3 DEF OnItsWay
    <3>6. DaysDone(t)' /\ TablesDone(t, table[t])'
      BY <1>1, <2>1, <3>5 DEF DaysDone, TablesDone, RewrittenBy
    <3>7. OnItsWay(t)'
      BY <1>1, <2>1, <3>4, <3>5, <3>6 DEF OnItsWay
    <3> QED BY <1>2, <1>3, <2>1, <3>7 DEF WayIsMade
  <2> QED BY <1>0, <2>1, <2>2, <2>3 DEF WayIsMade, Advancing
<1>7. CASE WaitEnds(t)
  <2>1. /\ proc[t] = "wait" /\ WaitOver(t) /\ GoToTable(t, table[t] + 1) /\ UNCHANGED <<row, day, robbed>>
        /\ monthsDone'[t] = monthsDone[t] \/ monthsDone'[t] = monthsDone[t] \cup {Current(t)}
    BY <1>0, <1>7 DEF WaitEnds, Current
  <2>2. table[t] \in Nat /\ table[t] + 1 \in 1..Len(Tables) + 1
    <3>1. table[t] \in DOMAIN Tables
      BY <2>1 DEF TypeOK
    <3>2. DOMAIN Tables = 1..Len(Tables) /\ Len(Tables) \in Nat
      BY ConstantsAssumption
    <3> QED BY <3>1, <3>2
  <2>3. proc'[t] \in {"progress", "submit"}
    BY <1>0, <2>1 DEF GoToTable
  <2>4. CASE Excused(t)
    BY <1>1, <1>2, <1>3, <2>1, <2>3, <2>4 DEF WayIsMade, Excused
  <2>5. CASE OnItsWay(t)
    <3>1. /\ monthsDone[t] \subseteq applied[t] /\ DaysDone(t) /\ TablesDone(t, table[t])
          /\ Current(t) \in applied[t] \/ HasMutation(t, Current(t))
      BY <2>1, <2>5 DEF OnItsWay
    <3>2. ~HasMutation(t, Current(t))
      BY <2>1 DEF WaitOver, HasMutation, Current, PartitionOf
    <3>3. Current(t) \in applied[t]
      BY <3>1, <3>2
    <3>4. TablesDone(t, table[t] + 1)
      <4> SUFFICES ASSUME NEW k \in DOMAIN Tables, k < table[t] + 1 PROVE RewrittenBy(t, day[t], k)
        BY DEF TablesDone
      <4>1. k < table[t] \/ k = table[t]
        BY <2>2, ConstantsAssumption
      <4> QED BY <3>1, <3>3, <4>1 DEF TablesDone, RewrittenBy, Current
    <3>5. monthsDone'[t] \subseteq applied[t]
      BY <2>1, <3>1, <3>3
    <3>6. OnItsWay(t)'
      BY <1>1, <2>1, <2>2, <3>1, <3>4, <3>5, WayGoesToTable
    <3> QED BY <1>2, <1>3, <2>1, <2>3, <3>6 DEF WayIsMade
  <2> QED BY <1>0, <2>1, <2>4, <2>5 DEF WayIsMade, Advancing
<1>8. CASE EndChunk(t)
  <2>1. /\ proc[t] = "progress" /\ proc'[t] = "chunk" /\ UNCHANGED <<monthsDone, robbed>> /\ row'[t] # "completed"
        /\ day'[t] = day[t] + ChunkSize
    BY <1>0, <1>8 DEF EndChunk
  <2>2. CASE Excused(t)
    BY <1>1, <1>3, <2>1, <2>2 DEF WayIsMade, Excused
  <2>3. CASE OnItsWay(t)
    <3>1. monthsDone[t] \subseteq applied[t] /\ DaysDone(t) /\ TablesDone(t, Len(Tables) + 1)
      BY <2>1, <2>3 DEF OnItsWay
    <3>2. DaysDone(t)'
      BY <1>1, <2>1, <3>1, DaysAreDone
    <3>3. OnItsWay(t)'
      BY <1>1, <2>1, <3>1, <3>2 DEF OnItsWay
    <3> QED BY <1>3, <2>1, <3>3 DEF WayIsMade
  <2> QED BY <1>0, <2>1, <2>2, <2>3 DEF WayIsMade, Advancing
<1>9. CASE EndChunks(t)
  <2>1. /\ proc[t] = "chunk" /\ ~ChunkLeft(t) /\ UNCHANGED <<row, robbed>>
        /\ proc'[t] = IF t \in cancelled THEN "cancelling" ELSE "completing"
    BY <1>9 DEF EndChunks, EndProcess
  <2>2. CASE t \in cancelled
    BY <1>2, <1>3, <2>1, <2>2 DEF WayIsMade, Advancing
  <2>3. CASE t \notin cancelled
    <3>1. day[t] \notin Days
      BY <2>1, <2>3 DEF ChunkLeft
    <3>2. Scope \subseteq applied[t] \/ t \in robbed
      <4>1. t \in robbed \/ OnItsWay(t)
        BY <1>0, <2>1, <2>3 DEF WayIsMade, Excused, Advancing
      <4> QED BY <3>1, <4>1, ScopeIsDone DEF OnItsWay
    <3>3. CompletionIsEarned(t)'
      BY <1>0, <1>1, <1>2, <2>1, <3>2 DEF CompletionIsEarned
    <3> QED BY <2>1, <2>3, <3>3 DEF WayIsMade, Advancing
  <2> QED BY <2>2, <2>3
<1>10. CASE KillOnError(t) \/ Error(t)
  <2>1. proc'[t] \in {"kill", "timeout", "failing"}
    BY <1>0, <1>10 DEF KillOnError, Error, EndProcess
  <2>2. row'[t] # "completed"
    BY <1>2, <1>10 DEF KillOnError, Error
  <2> QED BY <1>3, <2>1, <2>2 DEF WayIsMade, Advancing
<1>11. CASE WriteStatus(t)
  <2>1. proc[t] \in Ending /\ UNCHANGED robbed
    BY <1>11 DEF WriteStatus
  <2>2. \/ proc'[t] = "failing" /\ row'[t] # "completed"
        \/ proc'[t] = "gone" /\ row'[t] = StatusAfter(t)
        \/ proc'[t] = "gone" /\ row'[t] # "completed"
    BY <1>0, <1>2, <1>11 DEF WriteStatus
  <2>3. row'[t] = "completed" => proc'[t] = "gone" /\ (Scope \subseteq applied[t] \/ t \in robbed)
    BY <1>0, <2>1, <2>2, EndingStatuses DEF CompletionIsEarned
  <2>4. CompletionIsEarned(t)'
    BY <1>0, <1>1, <2>2, <2>3 DEF CompletionIsEarned
  <2> QED BY <2>2, <2>4 DEF WayIsMade, Advancing
<1> QED
  BY <1>4, <1>5, <1>6, <1>7, <1>8, <1>9, <1>10, <1>11 DEF Process

\* Every step of every actor leaves the tasks on their way, and completes only those that are whole.
LEMMA StepIsWhole ==
  TypeOK /\ Placed /\ Unbegun /\ Whole /\ DailyChunks /\ [Next]_vars => Whole'
<1> SUFFICES ASSUME TypeOK, Placed, Unbegun, Whole, DailyChunks, [Next]_vars,
                    NEW t \in Tasks
             PROVE  WayIsMade(t)' /\ CompletionIsEarned(t)'
  BY DEF Whole
<1> USE DEF startVars, lockVars, workVars, storeVars, boundVars, pastVars
<1>0. WayIsMade(t) /\ CompletionIsEarned(t)
  BY DEF Whole
<1>1. CASE /\ UNCHANGED <<workVars, mutations, applied, robbed>> /\ cancelled \subseteq cancelled'
           /\ proc'[t] = proc[t] \/ (proc[t] = "none" /\ proc'[t] \in {"totals", "queued"})
           /\ row'[t] = "completed" => row[t] = "completed"
           /\ cancel'[t] = "kill" => cancel[t] = "kill" \/ t \in cancelled'
  <2>1. WayIsMade(t)'
    BY <1>0, <1>1, WayIsKept DEF Excused, HasMutation, Advancing
  <2>2. CompletionIsEarned(t)'
    BY <1>0, <1>1 DEF CompletionIsEarned
  <2> QED BY <2>1, <2>2
<1>2. ASSUME NEW u \in Tasks,
             \/ StartReads(u) \/ StartChecks(u) \/ StartInserts(u)
             \/ CancelReads(u) \/ CancelActs(u) \/ CancelWrites(u)
      PROVE  /\ UNCHANGED <<proc, workVars, mutations, applied, robbed>> /\ cancelled \subseteq cancelled'
             /\ row'[t] = "completed" => row[t] = "completed"
             /\ cancel'[t] = "kill" => cancel[t] = "kill" \/ t \in cancelled'
  <2>1. /\ UNCHANGED <<proc, workVars, mutations, applied, robbed>> /\ cancelled \subseteq cancelled'
        /\ row' = row \/ row' = [row EXCEPT ![u] = "pending"] \/ row' = [row EXCEPT ![u] = "cancelled"]
    BY <1>2 DEF StartReads, StartChecks, StartInserts, CancelReads, CancelActs, CancelWrites, FlagProcessor,
                StatusOfCancel
  <2>2. row'[t] = "completed" => row[t] = "completed"
    BY <2>1 DEF TypeOK
  <2>3. cancel'[t] = "kill" => cancel[t] = "kill" \/ t \in cancelled'
    BY <1>2 DEF StartReads, StartChecks, StartInserts, CancelReads, CancelActs, CancelWrites, FlagProcessor, TypeOK
  <2> QED BY <2>1, <2>2, <2>3
<1>3. CASE EditFilters \/ UNCHANGED vars
  BY <1>1, <1>3 DEF EditFilters, vars
<1>4. CASE Restart
  <2>1. row'[t] = "completed" => row[t] = "completed"
    BY <1>4 DEF Restart
  <2> QED BY <1>1, <1>4, <2>1 DEF Restart
<1>5. CASE Crash
  <2>1. proc'[t] \notin Advancing /\ proc'[t] # "completing"
    <3>1. CASE t \in Running
      <4>1. proc'[t] = "lost"
        BY <1>5, <3>1 DEF Crash
      <4> QED BY <4>1 DEF Advancing
    <3>2. CASE t \notin Running
      <4>1. proc[t] \notin Advancing /\ proc[t] # "completing"
        BY <3>2 DEF Running, Advancing, Working, Ending
      <4>2. proc'[t] = proc[t] \/ proc'[t] = "lost"
        BY <1>5 DEF Crash
      <4> QED BY <4>1, <4>2 DEF Advancing
    <3> QED BY <3>1, <3>2
  <2>2. UNCHANGED <<row, applied, robbed>> /\ cancel'[t] # "kill"
    BY <1>5 DEF Crash
  <2>3. row[t] = "completed" => proc'[t] = proc[t]
    <3>1. row[t] = "completed" => proc[t] = "gone"
      BY <1>0 DEF CompletionIsEarned
    <3>2. proc[t] = "gone" => t \notin Running
      BY DEF Running, Working, Ending
    <3> QED BY <1>5, <3>1, <3>2 DEF Crash
  <2> QED BY <1>0, <2>1, <2>2, <2>3 DEF WayIsMade, CompletionIsEarned
<1>6. CASE Spawn
  <2>1. Head(scheduled) \in Tasks /\ proc[Head(scheduled)] = "none"
    <3>1. Head(scheduled) = scheduled[1] /\ 1 \in DOMAIN scheduled /\ scheduled[1] \in Tasks
      BY <1>6 DEF Spawn, TypeOK
    <3> QED BY <3>1 DEF Placed, ScheduledOnce
  <2>2. proc'[t] = proc[t] \/ (proc[t] = "none" /\ proc'[t] \in {"totals", "queued"})
    BY <1>6, <2>1 DEF Spawn, TypeOK
  <2> QED BY <1>1, <1>6, <2>2 DEF Spawn
<1>7. ASSUME NEW u \in Tasks, CancelKills(u) PROVE WayIsMade(t)' /\ CompletionIsEarned(t)'
  <2>1. /\ UNCHANGED <<proc, row, workVars, cancelled, applied>> /\ Kill(u) /\ cancel[u] = "kill"
        /\ cancel'[t] = "kill" => cancel[t] = "kill"
    BY <1>7 DEF CancelKills, TypeOK
  <2>2. robbed \subseteq robbed' /\ \A k \in DOMAIN mutations : mutations[k].by # u => mutations[k].by \in robbed'
    BY <2>1 DEF Kill
  <2>3. u \in cancelled
    BY <2>1 DEF Whole, CompletionIsEarned
  <2>4. \A part : HasMutation(t, part) => Excused(t)'
    BY <2>1, <2>2, <2>3 DEF HasMutation, Excused
  <2>5. Excused(t) => Excused(t)'
    BY <2>1, <2>2 DEF Excused
  <2> QED BY <1>0, <2>1, <2>2, <2>4, <2>5, WayIsKept, CompletionIsKept
<1>8. CASE MutationRuns
  <2>1. PICK k \in Executing :
          /\ mutations' = Remaining(mutations, k)
          /\ applied' = [applied EXCEPT ![mutations[k].by] = @ \cup {mutations[k].part}]
          /\ UNCHANGED <<row, proc, workVars, cancelled, cancel, robbed>>
    BY <1>8 DEF MutationRuns, Remaining
  <2>2. k \in DOMAIN mutations /\ mutations \in Seq(Mutation) /\ applied \in [Tasks -> SUBSET Partition]
    BY DEF Executing, TypeOK
  <2>3. applied[t] \subseteq applied'[t] /\ (mutations[k].by = t => mutations[k].part \in applied'[t])
    BY <2>1, <2>2
  <2>4. \A i \in DOMAIN mutations : i # k => \E j \in DOMAIN mutations' : mutations'[j] = mutations[i]
    BY <2>1, <2>2, Removal
  <2>5. ASSUME NEW part, HasMutation(t, part) PROVE HasMutation(t, part)' \/ part \in applied'[t]
    <3>1. PICK i \in DOMAIN mutations : mutations[i] = [part |-> part, by |-> t]
      BY <2>5 DEF HasMutation
    <3>2. CASE i = k
      BY <2>3, <3>1, <3>2
    <3>3. CASE i # k
      BY <2>4, <3>1, <3>3 DEF HasMutation
    <3> QED BY <3>2, <3>3
  <2>6. Excused(t) => Excused(t)'
    BY <2>1 DEF Excused
  <2> QED BY <1>0, <2>1, <2>3, <2>5, <2>6, WayIsKept, CompletionIsKept
<1>9. ASSUME NEW u \in Tasks, Process(u) \/ Error(u) PROVE WayIsMade(t)' /\ CompletionIsEarned(t)'
  BY <1>9, OthersGoOn, ProcessorAdvances
<1> QED
  BY <1>1, <1>2, <1>3, <1>4, <1>5, <1>6, <1>7, <1>8, <1>9 DEF Next

-----------------------------------------------------------------------------
(* The data and the last task that rewrote it. *)

\* No task was admitted beside an unfinished one, and none lost a mutation to another.
Calm == ~overlapped /\ robbed = {}

Live(t) == call[t] = "admitted" \/ (\E k \in DOMAIN scheduled : scheduled[k] = t) \/ t \in Running

\* Tasks are created when their calls are admitted; unless tasks overlapped, only the one created last is live.
OneIsLive ==
  /\ \A k \in DOMAIN created : call[created[k]] \in {"admitted", "started", "broken"}
  /\ ~overlapped => \A t \in Tasks : Live(t) => created # <<>> /\ t = created[Len(created)]

\* A task that submitted a mutation is completed or on its way to be.
Sound(t) == t \in submitted =>
   \/ row[t] = "completed" \/ proc[t] = "completing" \/ (proc[t] \in Advancing /\ t \notin cancelled)
AllSound == \A t \in Tasks : Sound(t)

OnlyMutationOf(t) == proc[t] = "wait" /\ mutations = <<[part |-> Current(t), by |-> t]>>
RewrittenLast(i) ==
  row[created[i]] = "completed" /\ \A j \in DOMAIN created : j > i => created[j] \notin submitted

\* What a task has applied is there as long as it works, and as long as none created later submitted a mutation.
Agreement ==
  /\ mutations # <<>> => \E t \in Tasks : OnlyMutationOf(t)
  /\ \A t \in Running : \A p \in applied[t] : data[p] = snapshot[t]
  /\ \A i \in DOMAIN created : RewrittenLast(i) => \A p \in Scope : data[p] = snapshot[created[i]]

Truth == Calm /\ AllSound => Agreement

\* Only an admission makes a task live.
LEMMA StepOrders == TypeOK /\ Placed /\ OneIsLive /\ [Next]_vars => OneIsLive'
<1> SUFFICES ASSUME TypeOK, Placed, OneIsLive, [Next]_vars PROVE OneIsLive'
  OBVIOUS
<1> USE DEF startVars, lockVars, workVars, storeVars, boundVars, pastVars
<1>0. /\ created \in Seq(Tasks) /\ scheduled \in Seq(Tasks) /\ \A k \in DOMAIN created : created[k] \in Tasks
      /\ \A k \in DOMAIN scheduled : scheduled[k] \in Tasks
      /\ created # <<>> => created[Len(created)] \in Tasks
      /\ call \in [Tasks -> {"new", "read", "admitted", "rejected", "started", "broken"}]
      /\ proc \in [Tasks -> Processor]
  BY DEF TypeOK
<1>1. CASE /\ UNCHANGED created /\ (overlapped => overlapped')
           /\ \A t \in Tasks : call[t] \in {"admitted", "started", "broken"} => call'[t] \in {"admitted", "started", "broken"}
           /\ \A t \in Tasks : Live(t)' => Live(t)
  BY <1>0, <1>1 DEF OneIsLive
<1>2. CASE UNCHANGED vars
  BY <1>2 DEF vars, OneIsLive, Live, Running
<1>3. ASSUME NEW t \in Tasks, StartReads(t) PROVE OneIsLive'
  <2>1. /\ UNCHANGED <<created, scheduled, proc, overlapped>>
        /\ call[t] = "new" /\ call'[t] = "read" /\ \A u \in Tasks \ {t} : call'[u] = call[u]
    BY <1>0, <1>3 DEF StartReads
  <2> QED BY <1>1, <2>1 DEF Live, Running
<1>4. ASSUME NEW t \in Tasks, StartChecks(t) PROVE OneIsLive'
  <2>0. UNCHANGED <<scheduled, proc>> /\ call[t] = "read" /\ \A u \in Tasks \ {t} : call'[u] = call[u]
    BY <1>0, <1>4 DEF StartChecks
  <2>1. CASE call'[t] = "rejected" /\ UNCHANGED <<created, overlapped>>
    BY <1>1, <2>0, <2>1 DEF Live, Running
  <2>2. CASE call'[t] = "admitted" /\ created' = Append(created, t) /\ overlapped' = (overlapped \/ Unfinished)
    <3>1. /\ DOMAIN created' = 1..Len(created) + 1 /\ Len(created') = Len(created) + 1 /\ created' # <<>>
          /\ created'[Len(created) + 1] = t /\ \A k \in 1..Len(created) : created'[k] = created[k]
          /\ Len(created) \in Nat /\ DOMAIN created = 1..Len(created)
      BY <1>0, <2>2, AppendProperties
    <3>2. \A k \in DOMAIN created' : k \in DOMAIN created \/ k = Len(created) + 1
      BY <3>1
    <3>3. \A k \in DOMAIN created' : call'[created'[k]] \in {"admitted", "started", "broken"}
      BY <1>0, <2>0, <2>2, <3>1, <3>2 DEF OneIsLive
    <3>4. ASSUME ~overlapped', NEW u \in Tasks, Live(u)' PROVE u = t
      <4>1. ~Unfinished
        BY <2>2, <3>4
      <4>2. scheduled = <<>> /\ Running = {} /\ \A v \in Tasks : call[v] # "admitted"
        BY <4>1 DEF Unfinished
      <4> QED BY <2>0, <3>4, <4>2 DEF Live, Running
    <3> QED BY <3>1, <3>3, <3>4 DEF OneIsLive
  <2> QED BY <1>0, <1>4, <2>1, <2>2 DEF StartChecks
<1>5. ASSUME NEW t \in Tasks, StartInserts(t) PROVE OneIsLive'
  <2>1. /\ UNCHANGED <<created, proc, overlapped>> /\ scheduled' = Append(scheduled, t)
        /\ call[t] = "admitted" /\ call'[t] = "started" /\ \A u \in Tasks \ {t} : call'[u] = call[u]
    BY <1>0, <1>5 DEF StartInserts
  <2>2. \A k \in DOMAIN scheduled' : scheduled'[k] = t \/ (k \in DOMAIN scheduled /\ scheduled'[k] = scheduled[k])
    BY <1>0, <2>1, AppendProperties
  <2> QED BY <1>1, <2>1, <2>2 DEF Live, Running
<1>6. CASE Spawn
  <2>1. /\ UNCHANGED <<created, call, overlapped>> /\ scheduled # <<>> /\ scheduled' = Tail(scheduled)
        /\ \E q \in Processor : proc' = [proc EXCEPT ![Head(scheduled)] = q]
    BY <1>6 DEF Spawn, Processor, Working
  <2>2. Head(scheduled) = scheduled[1] /\ 1 \in DOMAIN scheduled
    BY <1>0, <2>1
  <2>3. \A k \in DOMAIN scheduled' : k + 1 \in DOMAIN scheduled /\ scheduled'[k] = scheduled[k + 1]
    BY <1>0, <2>1, HeadTailProperties
  <2>4. \A u \in Tasks : u \in Running' => u = Head(scheduled) \/ u \in Running
    BY <1>0, <2>1 DEF Running
  <2> QED BY <1>1, <2>1, <2>2, <2>3, <2>4 DEF Live
<1>7. ASSUME NEW t \in Tasks, Process(t) \/ Error(t) PROVE OneIsLive'
  <2>1. UNCHANGED <<created, call, scheduled, overlapped>> /\ proc[t] \in Working \cup Ending
    BY <1>7, ProcessorMoves
       DEF Process, Totals, BeginChunk, Submit, WaitEnds, EndChunk, EndChunks, KillOnError, Kill, WriteStatus, Error
  <2>2. t \in Running
    BY <2>1 DEF Running
  <2>3. \A u \in Tasks \ {t} : u \in Running' => u \in Running
    <3>1. ASSUME NEW q, proc' = [proc EXCEPT ![t] = q] PROVE \A u \in Tasks \ {t} : u \in Running' => u \in Running
      BY <1>0, <3>1 DEF Running
    <3>2. ASSUME NEW q, EndProcess(t, q) PROVE \A u \in Tasks \ {t} : u \in Running' => u \in Running
      BY <1>0, <3>2 DEF Running, EndProcess, WokenBy, Placed, QueuedOnce
    <3> QED BY <1>7, <3>1, <3>2, ProcessorMoves DEF Process
  <2> QED BY <1>1, <2>1, <2>2, <2>3 DEF Live
<1>8. ASSUME NEW t \in Tasks, CancelReads(t) \/ CancelActs(t) \/ CancelKills(t) \/ CancelWrites(t)
      PROVE  UNCHANGED <<created, call, scheduled, proc, overlapped>>
  BY <1>8 DEF CancelReads, CancelActs, CancelKills, CancelWrites
<1>9. MutationRuns \/ EditFilters \/ Restart => UNCHANGED <<created, call, scheduled, proc, overlapped>>
  BY DEF MutationRuns, EditFilters, Restart
<1>10. CASE Crash
  <2>1. /\ UNCHANGED <<created, overlapped>> /\ scheduled' = <<>>
        /\ \A t \in Tasks : call'[t] = IF call[t] \in {"read", "admitted"} THEN "broken" ELSE call[t]
        /\ \A t \in Tasks : t \in Running' => t \in Running
    BY <1>10 DEF Crash, Running, Working, Ending
  <2> QED BY <1>1, <2>1 DEF Live
<1>11. CASE UNCHANGED <<created, call, scheduled, proc, overlapped>>
  BY <1>11 DEF OneIsLive, Live, Running
<1> QED BY <1>2, <1>3, <1>4, <1>5, <1>6, <1>7, <1>8, <1>9, <1>10, <1>11 DEF Next

\* A task that is sound was so before: nothing makes up for a mutation that was given up.
LEMMA SoundBefore ==
  ASSUME TypeOK, Placed, Unbegun, Whole, [Next]_vars, NEW t \in Tasks, Sound(t)'
  PROVE  Sound(t)
<1> SUFFICES ASSUME t \in submitted
             PROVE  row[t] = "completed" \/ proc[t] = "completing" \/ (proc[t] \in Advancing /\ t \notin cancelled)
  BY DEF Sound
<1> USE DEF startVars, lockVars, workVars, storeVars, boundVars, pastVars
<1>0. /\ proc \in [Tasks -> Processor] /\ row \in [Tasks -> {"none"} \cup Active \cup Terminal]
      /\ proc[t] \notin {"none", "queued", "totals"}
  BY DEF TypeOK, Unbegun
<1>1. CASE /\ submitted \subseteq submitted' /\ cancelled \subseteq cancelled'
           /\ row'[t] = "completed" => row[t] = "completed"
           /\ proc'[t] = proc[t]
  BY <1>1 DEF Sound
<1>2. CASE UNCHANGED vars \/ EditFilters \/ MutationRuns
  BY <1>1, <1>2 DEF vars, EditFilters, MutationRuns
<1>3. ASSUME NEW u \in Tasks,
             \/ StartReads(u) \/ StartChecks(u) \/ StartInserts(u)
             \/ CancelReads(u) \/ CancelActs(u) \/ CancelKills(u) \/ CancelWrites(u)
      PROVE  /\ submitted \subseteq submitted' /\ cancelled \subseteq cancelled'
             /\ row'[t] = "completed" => row[t] = "completed"
             /\ proc'[t] = proc[t]
  <2>1. /\ UNCHANGED <<submitted, proc>> /\ cancelled \subseteq cancelled'
        /\ row' = row \/ row' = [row EXCEPT ![u] = "pending"] \/ row' = [row EXCEPT ![u] = "cancelled"]
    BY <1>3 DEF StartReads, StartChecks, StartInserts, CancelReads, CancelActs, CancelKills, CancelWrites,
                FlagProcessor, StatusOfCancel
  <2> QED BY <1>0, <2>1
<1>4. CASE Restart
  BY <1>1, <1>4 DEF Restart
<1>5. CASE Crash
  <2>1. UNCHANGED <<submitted, row>> /\ (proc'[t] = "lost" \/ (proc'[t] = proc[t] /\ t \notin Running))
    BY <1>5 DEF Crash
  <2>2. proc'[t] # "completing" /\ proc'[t] \notin Advancing
    BY <2>1 DEF Running, Advancing, Working, Ending
  <2> QED BY <2>1, <2>2 DEF Sound
<1>6. CASE Spawn
  <2>1. Head(scheduled) \in Tasks /\ proc[Head(scheduled)] = "none"
    <3>1. Head(scheduled) = scheduled[1] /\ 1 \in DOMAIN scheduled /\ scheduled[1] \in Tasks
      BY <1>6 DEF Spawn, TypeOK
    <3> QED BY <3>1 DEF Placed, ScheduledOnce
  <2>2. proc'[t] = proc[t]
    BY <1>0, <1>6, <2>1 DEF Spawn
  <2> QED BY <1>1, <1>6, <2>2 DEF Spawn
<1>7. ASSUME NEW u \in Tasks, Process(u) \/ Error(u)
      PROVE  row[t] = "completed" \/ proc[t] = "completing" \/ (proc[t] \in Advancing /\ t \notin cancelled)
  <2>1. submitted \subseteq submitted' /\ cancelled' = cancelled
    BY <1>7 DEF Process, Totals, BeginChunk, Submit, WaitEnds, EndChunk, EndChunks, KillOnError, WriteStatus, Error
  <2>2. row'[t] = "completed" => row[t] = "completed" \/ proc[t] = "completing"
    BY <1>0, <1>7, ProcessorMoves, EndingStatuses DEF Process
  <2>3. CASE u # t
    <3>1. ASSUME NEW q, proc' = [proc EXCEPT ![u] = q] PROVE proc'[t] = proc[t]
      BY <1>0, <2>3, <3>1
    <3>2. ASSUME NEW q, EndProcess(u, q) PROVE proc'[t] = proc[t]
      BY <1>0, <2>3, <3>2 DEF EndProcess, WokenBy, Placed, QueuedOnce
    <3>3. proc'[t] = proc[t]
      BY <1>7, <3>1, <3>2, ProcessorMoves DEF Process
    <3> QED BY <2>1, <2>2, <3>3 DEF Sound
  <2>4. CASE u = t
    <3>1. CASE Totals(t)
      BY <1>0, <3>1 DEF Totals
    <3>2. CASE BeginChunk(t) \/ Submit(t) \/ WaitEnds(t) \/ EndChunk(t)
      <4>1. proc[t] \in Advancing
        BY <3>2 DEF BeginChunk, Submit, WaitEnds, EndChunk, Advancing
      <4>2. proc'[t] # "completing"
        BY <1>0, <3>2 DEF BeginChunk, Submit, WaitEnds, EndChunk, GoToTable
      <4> QED BY <2>1, <2>2, <4>1, <4>2 DEF Sound
    <3>3. CASE EndChunks(t)
      <4>1. proc[t] = "chunk" /\ (t \in cancelled => proc'[t] = "cancelling")
        BY <1>0, <3>3 DEF EndChunks, EndProcess
      <4> QED BY <2>1, <2>2, <4>1 DEF Sound, Advancing
    <3>4. CASE KillOnError(t) \/ Error(t)
      <4>1. proc'[t] \in {"kill", "timeout", "failing"}
        BY <1>0, <3>4 DEF KillOnError, Error, EndProcess
      <4> QED BY <2>1, <2>2, <4>1 DEF Sound, Advancing
    <3>5. CASE WriteStatus(t)
      <4>1. proc'[t] \in {"gone", "failing"}
        BY <1>0, <3>5 DEF WriteStatus
      <4> QED BY <2>1, <2>2, <4>1 DEF Sound, Advancing
    <3> QED BY <1>7, <2>4, <3>1, <3>2, <3>3, <3>4, <3>5 DEF Process
  <2> QED BY <2>3, <2>4
<1> QED BY <1>1, <1>2, <1>3, <1>4, <1>5, <1>6, <1>7 DEF Next

\* A kill on behalf of a task takes nothing but its own mutations, unless it robs others.
LEMMA KillSpares ==
  ASSUME TypeOK, NEW t \in Tasks, Kill(t), robbed' = {}
  PROVE  /\ \A k \in DOMAIN mutations : mutations[k].by = t
         /\ mutations' = <<>>
         /\ mutations = <<>> => data' = data
<1>1. \A k \in DOMAIN mutations : mutations[k].by = t
  BY DEF Kill
<1>2. ASSUME mutations = <<>> PROVE data' = data
  <2>1. Executing = {}
    BY <1>2 DEF Executing
  <2>2. PICK half \in SUBSET {mutations[k] : k \in Executing} :
          data' = [p \in Partition |->
                     IF \E m \in half : m.part = p /\ data[p] # snapshot[m.by] THEN Mixed ELSE data[p]]
    BY DEF Kill
  <2>3. half = {}
    BY <2>1, <2>2
  <2>4. data \in [Partition -> Versions \cup {Initially, Mixed}]
    BY DEF TypeOK
  <2>5. data' = [p \in Partition |-> data[p]]
    BY <2>2, <2>3
  <2> QED BY <2>4, <2>5
<1> QED BY <1>1, <1>2 DEF Kill

\* Steps that neither rewrite data nor submit or take mutations.
LEMMA AgreementIsKept ==
  ASSUME Agreement, UNCHANGED <<mutations, data>>, submitted \subseteq submitted',
         \A t \in Tasks : proc[t] = "wait" /\ mutations # <<>> => proc'[t] = "wait" /\ Current(t)' = Current(t),
         \A t \in Tasks : t \in Running' => \/ applied'[t] = {}
                                            \/ t \in Running /\ applied'[t] = applied[t] /\ snapshot'[t] = snapshot[t],
         \A k \in DOMAIN created : k \in DOMAIN created' /\ created'[k] = created[k],
         \A k \in DOMAIN created' : row'[created'[k]] = "completed" =>
            k \in DOMAIN created /\ row[created[k]] = "completed" /\ snapshot'[created[k]] = snapshot[created[k]]
  PROVE  Agreement'
<1>1. mutations' # <<>> => \E t \in Tasks : OnlyMutationOf(t)'
  <2> SUFFICES ASSUME mutations # <<>> PROVE \E t \in Tasks : OnlyMutationOf(t)'
    OBVIOUS
  <2>1. PICK t \in Tasks : OnlyMutationOf(t)
    BY DEF Agreement
  <2>2. OnlyMutationOf(t)'
    BY <2>1 DEF OnlyMutationOf
  <2> QED BY <2>2
<1>2. \A t \in Running' : \A p \in applied'[t] : data'[p] = snapshot'[t]
  BY DEF Agreement, Running
<1>3. ASSUME NEW i \in DOMAIN created', RewrittenLast(i)', NEW p \in Scope PROVE data'[p] = snapshot'[created'[i]]
  <2>1. /\ i \in DOMAIN created /\ row[created[i]] = "completed" /\ created'[i] = created[i]
        /\ snapshot'[created[i]] = snapshot[created[i]]
    BY <1>3 DEF RewrittenLast
  <2>2. RewrittenLast(i)
    BY <1>3, <2>1 DEF RewrittenLast
  <2> QED BY <2>1, <2>2 DEF Agreement
<1> QED BY <1>1, <1>2, <1>3 DEF Agreement

\* The only mutation is that of the live task, which waits for it.
LEMMA MutationIsAwaited ==
  ASSUME TypeOK, OneIsLive, Agreement, Calm, mutations # <<>>, NEW u \in Tasks, u \in Running
  PROVE  OnlyMutationOf(u) /\ proc[u] = "wait" /\ u = created[Len(created)] /\ Len(created) \in DOMAIN created
<1>1. PICK t \in Tasks : OnlyMutationOf(t)
  BY DEF Agreement
<1>2. Live(t) /\ Live(u)
  BY <1>1 DEF OnlyMutationOf, Live, Running, Working
<1>3. created # <<>> /\ t = created[Len(created)] /\ u = created[Len(created)]
  BY <1>2 DEF OneIsLive, Calm
<1>4. created \in Seq(Tasks)
  BY DEF TypeOK
<1> QED BY <1>1, <1>3, <1>4 DEF OnlyMutationOf

\* While everything is sound, who does not wait takes no mutation away and finds none when killing.
LEMMA StepAgrees ==
  ASSUME TypeOK, Placed, OneIsLive, Unbegun, Whole, [Next]_vars,
         Agreement, Calm, Calm', AllSound, AllSound'
  PROVE  Agreement'
<1> USE DEF startVars, lockVars, workVars, storeVars, boundVars, pastVars
<1>0. /\ proc \in [Tasks -> Processor] /\ row \in [Tasks -> {"none"} \cup Active \cup Terminal]
      /\ created \in Seq(Tasks) /\ \A k \in DOMAIN created : created[k] \in Tasks
      /\ mutations \in Seq(Mutation) /\ snapshot \in [Tasks -> Versions]
      /\ \A t \in Tasks : Sound(t) /\ Sound(t)'
      /\ \A t \in Tasks : row[t] = "completed" => proc[t] = "gone"
      /\ robbed = {} /\ robbed' = {}
  BY DEF TypeOK, AllSound, Calm, Whole, CompletionIsEarned
<1>1. \A t \in Tasks : OnlyMutationOf(t) => t \in submitted /\ proc[t] = "wait" /\ t \in Running /\ mutations # <<>>
  BY DEF OnlyMutationOf, Unbegun, Running, Working
<1>2. CASE UNCHANGED <<mutations, data, proc, day, table, applied, snapshot, created, submitted>>
           /\ \A t \in Tasks : row'[t] = "completed" => row[t] = "completed"
  BY <1>0, <1>2, AgreementIsKept DEF Running, Current
<1>3. CASE UNCHANGED vars \/ EditFilters \/ Restart
  BY <1>2, <1>3 DEF vars, EditFilters, Restart
<1>4. ASSUME NEW t \in Tasks, StartReads(t) PROVE Agreement'
  <2>1. /\ UNCHANGED <<mutations, data, proc, day, table, applied, created, submitted, row>>
        /\ call[t] = "new" /\ \A u \in Tasks \ {t} : snapshot'[u] = snapshot[u]
    BY <1>0, <1>4 DEF StartReads
  <2>2. t \notin Running
    BY <2>1 DEF Placed, UnstartedAreIdle, Running, Working, Ending
  <2>3. \A k \in DOMAIN created : created[k] # t
    BY <2>1 DEF OneIsLive
  <2> QED BY <1>0, <2>1, <2>2, <2>3, AgreementIsKept DEF Running, Current
<1>5. ASSUME NEW t \in Tasks, StartChecks(t) PROVE Agreement'
  <2>1. /\ UNCHANGED <<mutations, data, proc, day, table, applied, snapshot, submitted, row>>
        /\ call[t] = "read" /\ (created' = created \/ created' = Append(created, t))
    BY <1>5 DEF StartChecks
  <2>2. row[t] = "none"
    BY <2>1 DEF Placed, UnstartedAreIdle
  <2>3. /\ \A k \in DOMAIN created : k \in DOMAIN created' /\ created'[k] = created[k]
        /\ \A k \in DOMAIN created' : k \in DOMAIN created \/ created'[k] = t
    <3>1. CASE created' = Append(created, t)
      <4>1. /\ DOMAIN created' = 1..Len(created) + 1 /\ DOMAIN created = 1..Len(created) /\ Len(created) \in Nat
            /\ created'[Len(created) + 1] = t /\ \A k \in 1..Len(created) : created'[k] = created[k]
        BY <1>0, <3>1, AppendProperties
      <4> QED BY <4>1
    <3> QED BY <2>1, <3>1
  <2> QED BY <1>0, <2>1, <2>2, <2>3, AgreementIsKept DEF Running, Current
<1>6. ASSUME NEW t \in Tasks, StartInserts(t) \/ CancelReads(t) \/ CancelActs(t) \/ CancelWrites(t) PROVE Agreement'
  <2>1. /\ UNCHANGED <<mutations, data, proc, day, table, applied, snapshot, created, submitted>>
        /\ row' = row \/ row' = [row EXCEPT ![t] = "pending"] \/ row' = [row EXCEPT ![t] = "cancelled"]
    BY <1>6 DEF StartInserts, CancelReads, CancelActs, CancelWrites, StatusOfCancel
  <2> QED BY <1>0, <1>2, <2>1
<1>7. ASSUME NEW t \in Tasks, CancelKills(t) PROVE Agreement'
  <2>1. /\ UNCHANGED <<proc, day, table, applied, snapshot, created, submitted, row>> /\ Kill(t) /\ t \in cancelled
    BY <1>7 DEF CancelKills, Whole, CompletionIsEarned
  <2>2. mutations = <<>>
    <3> SUFFICES ASSUME mutations # <<>> PROVE FALSE
      OBVIOUS
    <3>1. PICK u \in Tasks : OnlyMutationOf(u)
      BY DEF Agreement
    <3>2. 1 \in DOMAIN mutations /\ mutations[1].by = u
      BY <3>1 DEF OnlyMutationOf
    <3>3. u = t
      BY <1>0, <2>1, <3>2, KillSpares
    <3> QED BY <1>0, <1>1, <2>1, <3>1, <3>3 DEF Sound
  <2>3. UNCHANGED <<mutations, data>>
    BY <1>0, <2>1, <2>2, KillSpares
  <2> QED BY <1>2, <2>1, <2>3
<1>8. CASE Spawn
  <2>1. Head(scheduled) \in Tasks /\ proc[Head(scheduled)] = "none"
    <3>1. Head(scheduled) = scheduled[1] /\ 1 \in DOMAIN scheduled /\ scheduled[1] \in Tasks
      BY <1>8 DEF Spawn, TypeOK
    <3> QED BY <3>1 DEF Placed, ScheduledOnce
  <2>2. UNCHANGED <<mutations, data, day, table, applied, snapshot, created, submitted, row>>
    BY <1>8 DEF Spawn
  <2>3. \A t \in Tasks : proc'[t] = proc[t] \/ (t = Head(scheduled) /\ proc[t] = "none" /\ applied[t] = {})
    BY <1>0, <1>8, <2>1 DEF Spawn, Unbegun
  <2> QED BY <2>2, <2>3, AgreementIsKept DEF Running, Current
<1>9. CASE Crash
  <2>1. UNCHANGED <<mutations, data, day, table, applied, snapshot, created, submitted, row>>
    BY <1>9 DEF Crash
  <2>2. \A t \in Tasks : (t \in Running => proc'[t] = "lost") /\ (t \in Running' => t \in Running)
    BY <1>9 DEF Crash, Running, Working, Ending
  <2>3. mutations = <<>>
    <3> SUFFICES ASSUME mutations # <<>> PROVE FALSE
      OBVIOUS
    <3>1. PICK u \in Tasks : OnlyMutationOf(u)
      BY DEF Agreement
    <3>2. u \in submitted' /\ proc'[u] = "lost" /\ row'[u] # "completed"
      BY <1>0, <1>1, <2>1, <2>2, <3>1
    <3> QED BY <1>0, <3>2 DEF Sound, Advancing
  <2> QED BY <2>1, <2>2, <2>3, AgreementIsKept
<1>10. CASE MutationRuns
  <2>1. PICK k \in Executing :
          /\ mutations' = Remaining(mutations, k)
          /\ data' = [data EXCEPT ![mutations[k].part] = snapshot[mutations[k].by]]
          /\ applied' = [applied EXCEPT ![mutations[k].by] = @ \cup {mutations[k].part}]
          /\ UNCHANGED <<row, proc, snapshot, created, submitted>>
    BY <1>10 DEF MutationRuns, Remaining
  <2>2. k \in DOMAIN mutations /\ mutations # <<>>
    BY DEF Executing
  <2>3. PICK u \in Tasks : OnlyMutationOf(u)
    BY <2>2 DEF Agreement
  <2>4. u \in submitted /\ proc[u] = "wait" /\ u \in Running
    BY <1>1, <2>3
  <2>5. k = 1 /\ Len(mutations) = 1 /\ mutations[k] = [part |-> Current(u), by |-> u]
    BY <2>2, <2>3 DEF OnlyMutationOf
  <2>6. mutations' = <<>>
    <3>1. mutations' \in Seq(Mutation) /\ Len(mutations') = Len(mutations) - 1
      BY <1>0, <2>1, <2>2, Removal
    <3>2. Len(mutations') = 0
      BY <2>5, <3>1
    <3> QED BY <3>1, <3>2
  <2>7. \A t \in Running : t = u
    BY <2>2, <2>4, MutationIsAwaited DEF Running
  <2>8. ASSUME NEW p \in applied'[u] PROVE data'[p] = snapshot'[u]
    <3>1. p = Current(u) \/ p \in applied[u]
      BY <2>1, <2>5 DEF TypeOK
    <3>2. p \in Partition /\ Current(u) \in Partition
      <4>1. mutations[k] \in Mutation
        BY <1>0, <2>2
      <4>2. Current(u) \in Partition
        BY <2>5, <4>1 DEF Mutation
      <4> QED BY <3>1, <4>2 DEF TypeOK
    <3>3. data \in [Partition -> Versions \cup {Initially, Mixed}]
      BY DEF TypeOK
    <3>4. p \in applied[u] => data[p] = snapshot[u]
      BY <2>4 DEF Agreement
    <3> QED BY <2>1, <2>5, <3>1, <3>2, <3>3, <3>4
  <2>9. ASSUME NEW i \in DOMAIN created', RewrittenLast(i)' PROVE FALSE
    <3>1. i \in DOMAIN created /\ row[created[i]] = "completed" /\ created[i] # u
      BY <1>0, <2>1, <2>4, <2>9 DEF RewrittenLast
    <3>2. u = created[Len(created)] /\ Len(created) \in DOMAIN created
      BY <2>2, <2>4, MutationIsAwaited
    <3>3. Len(created) > i
      BY <1>0, <3>1, <3>2
    <3> QED BY <2>1, <2>4, <2>9, <3>2, <3>3 DEF RewrittenLast
  <2>10. \A t \in Running' : t = u
    BY <2>1, <2>7 DEF Running
  <2> QED BY <2>6, <2>8, <2>9, <2>10 DEF Agreement
<1>11. ASSUME NEW t \in Tasks, Process(t) \/ Error(t) PROVE Agreement'
  <2>1. /\ t \in Running /\ UNCHANGED <<snapshot, created, applied>>
        /\ \A u \in Tasks \ {t} : /\ day'[u] = day[u] /\ table'[u] = table[u]
                                  /\ u \in Running' => u \in Running
                                  /\ proc[u] = "wait" => proc'[u] = "wait"
                                  /\ row'[u] = row[u]
    <3>1. ASSUME NEW q, proc' = [proc EXCEPT ![t] = q] PROVE \A u \in Tasks \ {t} : proc'[u] = proc[u]
      BY <1>0, <3>1
    <3>2. ASSUME NEW q, EndProcess(t, q)
          PROVE  \A u \in Tasks \ {t} : proc'[u] = proc[u] \/ (proc[u] = "queued" /\ proc'[u] = "totals")
      BY <1>0, <3>2 DEF EndProcess, WokenBy, Placed, QueuedOnce
    <3>3. \A u \in Tasks \ {t} : proc'[u] = proc[u] \/ (proc[u] = "queued" /\ proc'[u] = "totals")
      BY <1>11, <3>1, <3>2, ProcessorMoves DEF Process
    <3>4. proc[t] \in Working \cup Ending /\ \A u \in Tasks \ {t} : row'[u] = row[u]
      BY <1>0, <1>11, ProcessorMoves DEF Process
    <3>5. \A u \in Tasks \ {t} : day'[u] = day[u] /\ table'[u] = table[u]
      BY <1>11
         DEF TypeOK, Process, Totals, BeginChunk, GoToTable, Submit, WaitEnds, EndChunk, EndChunks, KillOnError, WriteStatus, Error
    <3>6. UNCHANGED <<snapshot, created, applied>>
      BY <1>11 DEF Process, Totals, BeginChunk, Submit, WaitEnds, EndChunk, EndChunks, KillOnError, WriteStatus, Error
    <3> QED BY <3>3, <3>4, <3>5, <3>6 DEF Running
  <2>2. mutations # <<>> => OnlyMutationOf(t) /\ proc[t] = "wait"
    BY <2>1, MutationIsAwaited
  <2>3. CASE /\ UNCHANGED <<mutations, data, submitted>> /\ row'[t] # "completed"
             /\ mutations = <<>> \/ proc[t] # "wait"
    <3>1. mutations = <<>>
      BY <2>2, <2>3
    <3>2. \A k \in DOMAIN created' : row'[created'[k]] = "completed" => row[created[k]] = "completed"
      BY <1>0, <2>1, <2>3
    <3> QED BY <2>1, <2>3, <3>1, <3>2, AgreementIsKept DEF Running
  <2>4. CASE Totals(t) \/ BeginChunk(t) \/ EndChunk(t)
    <3>1. UNCHANGED <<mutations, data, submitted>> /\ row'[t] = "running" /\ proc[t] # "wait"
      BY <1>0, <2>4 DEF Totals, BeginChunk, EndChunk
    <3> QED BY <2>3, <3>1
  <2>5. CASE EndChunks(t)
    <3>1. UNCHANGED <<mutations, data, submitted, row>> /\ proc[t] = "chunk"
      BY <2>5 DEF EndChunks
    <3> QED BY <1>0, <2>3, <3>1
  <2>6. CASE Submit(t)
    <3>1. /\ proc[t] = "submit" /\ proc'[t] = "wait" /\ mutations' = Append(mutations, [part |-> Current(t), by |-> t])
          /\ UNCHANGED <<day, table, data, row>> /\ submitted \subseteq submitted'
      BY <1>0, <2>6 DEF Submit, Current
    <3>2. mutations = <<>>
      BY <2>2, <3>1
    <3>3. mutations' = <<[part |-> Current(t), by |-> t]>>
      BY <3>1, <3>2
    <3>4. OnlyMutationOf(t)'
      BY <3>1, <3>3 DEF OnlyMutationOf, Current
    <3>5. \A u \in Running' : u \in Running
      BY <2>1 DEF Running
    <3>6. \A u \in Running' : \A p \in applied'[u] : data'[p] = snapshot'[u]
      BY <2>1, <3>1, <3>5 DEF Agreement
    <3>7. \A i \in DOMAIN created' : RewrittenLast(i)' => RewrittenLast(i)
      BY <2>1, <3>1 DEF RewrittenLast
    <3>8. \A i \in DOMAIN created' : RewrittenLast(i)' => \A p \in Scope : data'[p] = snapshot'[created'[i]]
      BY <2>1, <3>1, <3>7 DEF Agreement
    <3> QED BY <3>4, <3>6, <3>8 DEF Agreement
  <2>7. CASE WaitEnds(t)
    <3>1. /\ WaitOver(t) /\ UNCHANGED <<mutations, data, submitted, row>> /\ proc[t] = "wait"
      BY <2>7 DEF WaitEnds
    <3>2. mutations = <<>>
      <4> SUFFICES ASSUME mutations # <<>> PROVE FALSE
        OBVIOUS
      <4>1. 1 \in DOMAIN mutations /\ mutations[1].part = Current(t)
        BY <2>2 DEF OnlyMutationOf
      <4>2. Current(t)[1] = Tables[table[t]]
        BY DEF Current, PartitionOf
      <4> QED BY <3>1, <4>1, <4>2 DEF WaitOver
    <3> QED BY <1>0, <2>3, <3>1, <3>2
  <2>8. CASE Error(t)
    <3>1. /\ UNCHANGED <<mutations, data, submitted, row>> /\ proc'[t] \in {"kill", "timeout", "failing"}
          /\ proc[t] \in Working
      BY <1>0, <2>8 DEF Error, EndProcess, Working
    <3>2. row[t] # "completed"
      BY <1>0, <3>1 DEF Working
    <3>3. t \notin submitted
      BY <1>0, <3>1, <3>2 DEF Sound, Advancing
    <3>4. proc[t] # "wait"
      BY <3>3 DEF Unbegun
    <3> QED BY <2>3, <3>1, <3>2, <3>4
  <2>9. CASE KillOnError(t)
    <3>1. /\ UNCHANGED <<submitted, row>> /\ proc'[t] \in {"kill", "failing"} /\ proc[t] \in {"timeout", "kill"} /\ Kill(t)
      BY <1>0, <2>9 DEF KillOnError, EndProcess
    <3>2. row[t] # "completed" /\ mutations = <<>>
      BY <1>0, <2>2, <3>1
    <3>3. UNCHANGED <<mutations, data>>
      BY <1>0, <3>1, <3>2, KillSpares
    <3> QED BY <2>3, <3>1, <3>2, <3>3
  <2>10. CASE WriteStatus(t)
    <3>1. UNCHANGED <<mutations, data, submitted>> /\ proc[t] \in Ending
      BY <2>10 DEF WriteStatus
    <3>2. mutations = <<>>
      BY <2>2, <3>1 DEF Ending
    <3>3. CASE row'[t] # "completed"
      BY <2>3, <3>1, <3>2, <3>3
    <3>4. CASE row'[t] = "completed"
      <4>1. row[t] # "completed"
        BY <1>0, <3>1 DEF Ending
      <4>2. proc[t] = "completing"
        BY <1>0, <2>10, <3>1, <3>4, <4>1, EndingStatuses DEF WriteStatus
      <4>3. Scope \subseteq applied[t]
        BY <1>0, <4>2 DEF Whole, CompletionIsEarned
      <4>4. \A p \in Scope : data[p] = snapshot[t]
        BY <2>1, <4>3 DEF Agreement
      <4>5. ASSUME NEW i \in DOMAIN created', RewrittenLast(i)', NEW p \in Scope
            PROVE  data'[p] = snapshot'[created'[i]]
        <5>1. CASE created[i] = t
          BY <2>1, <3>1, <4>4, <5>1
        <5>2. CASE created[i] # t
          <6>1. i \in DOMAIN created /\ RewrittenLast(i)
            BY <1>0, <2>1, <3>1, <4>5, <5>2 DEF RewrittenLast
          <6> QED BY <2>1, <3>1, <6>1 DEF Agreement
        <5> QED BY <5>1, <5>2
      <4>6. \A u \in Running' : u \in Running
        BY <2>1 DEF Running
      <4>7. \A u \in Running' : \A p \in applied'[u] : data'[p] = snapshot'[u]
        BY <2>1, <3>1, <4>6 DEF Agreement
      <4> QED BY <3>1, <3>2, <4>5, <4>7 DEF Agreement
    <3> QED BY <3>3, <3>4
  <2> QED BY <1>11, <2>4, <2>5, <2>6, <2>7, <2>8, <2>9, <2>10 DEF Process
<1> QED BY <1>3, <1>4, <1>5, <1>6, <1>7, <1>8, <1>9, <1>10, <1>11 DEF Next

\* The data goes on agreeing with the tasks that wrote it: what was disturbed before stays so.
LEMMA StepIsTrue ==
  TypeOK /\ Placed /\ OneIsLive /\ Unbegun /\ Whole /\ Truth /\ [Next]_vars => Truth'
<1> SUFFICES ASSUME TypeOK, Placed, OneIsLive, Unbegun, Whole, Truth, [Next]_vars, Calm', AllSound'
             PROVE  Agreement'
  BY DEF Truth
<1>1. AllSound
  BY SoundBefore DEF AllSound
<1>2. (overlapped => overlapped') /\ robbed \subseteq robbed'
  <2> USE DEF startVars, lockVars, workVars, storeVars, boundVars, pastVars
  <2>1. ASSUME NEW t \in Tasks, Process(t) \/ Error(t) PROVE overlapped' = overlapped /\ robbed \subseteq robbed'
    BY <2>1 DEF Process, Totals, BeginChunk, Submit, WaitEnds, EndChunk, EndChunks, KillOnError, Kill, WriteStatus,
       Error
  <2>2. ASSUME NEW t \in Tasks,
               StartReads(t) \/ StartInserts(t) \/ CancelReads(t) \/ CancelActs(t) \/ CancelWrites(t)
        PROVE  UNCHANGED <<overlapped, robbed>>
    BY <2>2 DEF StartReads, StartInserts, CancelReads, CancelActs, CancelWrites
  <2>4. ASSUME NEW t \in Tasks, StartChecks(t)
        PROVE  (overlapped => overlapped') /\ UNCHANGED robbed
    <3>1. UNCHANGED robbed /\ (UNCHANGED overlapped \/ overlapped' = (overlapped \/ Unfinished))
      BY <2>4 DEF StartChecks
    <3>2. (overlapped' = (overlapped \/ Unfinished)) => (overlapped => overlapped')
      BY Zenon
    <3> QED BY <3>1, <3>2, Zenon
  <2>5. ASSUME NEW t \in Tasks, CancelKills(t)
        PROVE  UNCHANGED overlapped /\ robbed \subseteq robbed'
    BY <2>5 DEF CancelKills, Kill
  <2>3. Spawn \/ MutationRuns \/ EditFilters \/ Crash \/ Restart \/ UNCHANGED vars => UNCHANGED <<overlapped, robbed>>
    BY DEF Spawn, MutationRuns, EditFilters, Crash, Restart, vars
  <2> QED BY <2>1, <2>2, <2>3, <2>4, <2>5 DEF Next
<1>3. Calm
  BY <1>2 DEF Calm
<1>4. Agreement
  BY <1>1, <1>3 DEF Truth
<1> QED BY <1>1, <1>3, <1>4, StepAgrees

-----------------------------------------------------------------------------
(* The theorems. *)

\* All parts of the inductive invariant hold when the service starts.
LEMMA InitInvariant == Init => TypeOK /\ Placed /\ LockExcludes /\ FinishedIsSettled /\ Unbegun /\ Whole /\ OneIsLive /\ Truth
<1> SUFFICES ASSUME Init
             PROVE  TypeOK /\ Placed /\ LockExcludes /\ FinishedIsSettled /\ Unbegun /\ Whole /\ OneIsLive /\ Truth
  OBVIOUS
<1>1. TypeOK
  BY InitTypes
<1>2. Placed
  BY DEF Init, Placed, UnstartedAreIdle, ScheduledOnce, QueuedOnce
<1>3. LockExcludes
  BY DEF Init, LockExcludes, Working
<1>4. FinishedIsSettled
  BY DEF Init, FinishedIsSettled
<1>5. Unbegun
  BY DEF Init, Unbegun
<1>6. Whole
  BY DEF Init, Whole, WayIsMade, CompletionIsEarned, Advancing
<1>7. OneIsLive
  BY DEF Init, OneIsLive, Live, Running, Working, Ending
<1>8. Agreement
  BY DEF Init, Agreement, Running, Working, Ending
<1> QED BY <1>1, <1>2, <1>3, <1>4, <1>5, <1>6, <1>7, <1>8 DEF Truth

\* For any number of tasks, days and faults every variable keeps its type; a processor that submits or
\* waits is at a day of the period and at a table (processDateChunk).
THEOREM BackfillTypeCorrect == Spec => []TypeOK
<1>1. TypeOK /\ [Next]_vars => TypeOK'
  BY StepTypes
<1> QED BY <1>1, InitInvariant, PTL DEF Spec

\* The lock of process() excludes processors as long as no two waited for one promise, for any number of
\* tasks, cancellations, errors and deaths of the process.
THEOREM ProcessorsExcludeEachOther == Spec => []OneProcessorUnlessCrowded
<1>1. TypeOK /\ Placed /\ LockExcludes /\ [Next]_vars => TypeOK' /\ Placed' /\ LockExcludes'
  BY StepTypes, StepPlaces, StepExcludes
<1>2. LockExcludes => OneProcessorUnlessCrowded
  BY DEF LockExcludes, OneProcessorUnlessCrowded, OneProcessor
<1> QED BY <1>1, <1>2, InitInvariant, PTL DEF Spec

------------------------------------------------------------

\* With chunks of one day, what the row of a task says in the end is true and final: completed only when
\* each partition of the period was rewritten with its filters, unless the kill of another task took a
\* mutation from it, and settled when its processor has ended.  With longer chunks it is not, since
\* generateDateChunks gives only the first day of a chunk to processEventsForDate.
THEOREM StatusTellsTheTruth == DailyChunks => (Spec => []StatusIsTrue)
<1> SUFFICES ASSUME DailyChunks PROVE Spec => []StatusIsTrue
  OBVIOUS
<1> DEFINE I == TypeOK /\ Placed /\ FinishedIsSettled /\ Unbegun /\ Whole
<1>1. Init => I
  BY InitInvariant
<1>2. I /\ [Next]_vars => I'
  BY StepTypes, StepPlaces, StepSettles, StepBegins, StepIsWhole
<1>3. I => StatusIsTrue
  BY DEF Whole, CompletionIsEarned, StatusIsTrue, CompletedIsWhole
<1> QED BY <1>1, <1>2, <1>3, PTL DEF Spec

\* A set of naturals with an upper bound has a greatest member: its distance to the bound is the least.
LEMMA GreatestNatural ==
  ASSUME NEW n \in Nat, NEW S \in SUBSET (1..n), S # {}
  PROVE  \E m \in S : \A x \in S : m >= x
<1> DEFINE D == {n - x : x \in S}
<1>1. D \in SUBSET (0..n) /\ D # {}
  <2>1. ASSUME NEW x \in S PROVE n - x \in 0..n
    <3>1. x \in Int /\ 1 <= x /\ x <= n
      OBVIOUS
    <3> QED BY <3>1
  <2> QED BY <2>1
<1>2. \E d \in D : \A e \in D : d <= e
  <2> HIDE DEF D
  <2> QED BY <1>1, LeastNatural
<1>3. PICK m \in S : \A e \in D : n - m <= e
  BY <1>2
<1>4. ASSUME NEW x \in S PROVE m >= x
  <2>1. n - m <= n - x
    BY <1>3
  <2>2. x \in Int /\ m \in Int /\ n \in Int
    OBVIOUS
  <2> QED BY <2>1, <2>2
<1> QED BY <1>4

\* getBackfillSummary takes the completed task that was created last.
LEMMA LastCompletedIsLast ==
  ASSUME TypeOK, Completed # {}
  PROVE  \E i \in Completed : /\ LastCompleted = created[i]
                              /\ \A j \in DOMAIN created : j > i => row[created[j]] # "completed"
<1>1. created \in Seq(Tasks) /\ Len(created) \in Nat /\ DOMAIN created = 1..Len(created)
  BY DEF TypeOK
<1>2. Completed \in SUBSET (1..Len(created))
  BY <1>1 DEF Completed
<1>3. \E m \in Completed : \A x \in Completed : m >= x
  BY <1>1, <1>2, GreatestNatural
<1> DEFINE i == CHOOSE k \in Completed : \A j \in Completed : k >= j
<1>4. i \in Completed /\ \A j \in Completed : i >= j
  BY <1>3
<1>5. LastCompleted = created[i]
  BY DEF LastCompleted
<1> HIDE DEF i
<1>6. ASSUME NEW j \in DOMAIN created, j > i PROVE row[created[j]] # "completed"
  <2>1. ~(i >= j)
    BY <1>1, <1>2, <1>4, <1>6
  <2> QED BY <1>4, <2>1 DEF Completed
<1> QED BY <1>4, <1>5, <1>6

\* With chunks of one day, getBackfillSummary tells the truth for any number of tasks and changes of the
\* filters: when no task is active and none is said to be needed, the data agrees with the filters, unless
\* tasks overlapped, one lost a mutation to another or one that submitted a mutation was not completed.
THEOREM SummaryTellsTheTruth == DailyChunks => (Spec => []SummaryIsRightUndisturbed)
<1> SUFFICES ASSUME DailyChunks PROVE Spec => []SummaryIsRightUndisturbed
  OBVIOUS
<1> DEFINE I == TypeOK /\ Placed /\ OneIsLive /\ Unbegun /\ Whole /\ Truth
<1>1. Init => I
  BY InitInvariant
<1>2. I /\ [Next]_vars => I'
  BY StepTypes, StepPlaces, StepOrders, StepBegins, StepIsWhole, StepIsTrue
<1>3. I => SummaryIsRightUndisturbed
  <2> SUFFICES ASSUME I, ~overlapped, robbed = {}, \A t \in submitted : row[t] = "completed", ~NeedsBackfill,
                      NEW p \in Scope
               PROVE  data[p] = filters
    BY DEF SummaryIsRightUndisturbed, SummaryIsRight, Uniform
  <2>1. Agreement
    BY DEF Truth, Calm, AllSound, Sound
  <2>2. Completed # {} /\ snapshot[LastCompleted] = filters
    BY DEF NeedsBackfill
  <2>3. PICK i \in Completed : /\ LastCompleted = created[i]
                               /\ \A j \in DOMAIN created : j > i => row[created[j]] # "completed"
    BY <2>2, LastCompletedIsLast
  <2>4. i \in DOMAIN created /\ RewrittenLast(i)
    BY <2>3 DEF Completed, RewrittenLast
  <2> QED BY <2>1, <2>2, <2>3, <2>4 DEF Agreement
<1> QED BY <1>1, <1>2, <1>3, PTL DEF Spec

-----------------------------------------------------------------------------
(* The dashboard: sequences of filters. *)

\* Every set of positions can be counted in order, which is what InOrder chooses.
LEMMA PositionsAreInOrder ==
  ASSUME NEW n \in Nat, NEW K \in SUBSET (1..n)
  PROVE  /\ Cardinality(K) \in Nat
         /\ InOrder(K) \in [1..Cardinality(K) -> K]
         /\ \A i, j \in 1..Cardinality(K) : i < j => InOrder(K)[i] < InOrder(K)[j]
<1> DEFINE Counts(S, f) == f \in [1..Cardinality(S) -> S] /\ \A i, j \in 1..Cardinality(S) : i < j => f[i] < f[j]
           B == {m \in 0..n : \E S \in SUBSET (1..m) : ~\E f : Counts(S, f)}
<1>1. ASSUME NEW m \in Nat, NEW S \in SUBSET (1..m)
      PROVE  IsFiniteSet(S) /\ Cardinality(S) \in Nat
  <2>1. IsFiniteSet(1..m)
    BY FS_Interval
  <2>2. IsFiniteSet(S)
    BY <2>1, FS_Subset
  <2> QED BY <2>2, FS_CardinalityType
<1>2. B = {}
  <2> SUFFICES ASSUME B # {} PROVE FALSE
    OBVIOUS
  <2>1. B \in SUBSET (0..n)
    OBVIOUS
  <2>2. PICK m \in B : \A x \in B : m <= x
    <3> HIDE DEF B
    <3> QED BY <2>1, LeastNatural
  <2>3. m \in Nat /\ m <= n
    BY <2>1
  <2>4. PICK S \in SUBSET (1..m) : ~\E f : Counts(S, f)
    BY <2>2
  <2> HIDE DEF Counts
  <2>5. m # 0
    <3> SUFFICES ASSUME m = 0 PROVE FALSE
      OBVIOUS
    <3>1. S = {}
      OBVIOUS
    <3>3. Cardinality(S) = 0
      BY <3>1, FS_EmptySet
    <3>2. Counts(S, [i \in 1..0 |-> 0])
      BY <3>1, <3>3 DEF Counts
    <3> QED BY <2>4, <3>2
  <2>6. m - 1 \in 0..n /\ m - 1 \notin B
    <3>1. m - 1 \in 0..n /\ ~(m <= m - 1)
      BY <2>3, <2>5
    <3> HIDE DEF B
    <3> QED BY <2>2, <3>1
  <2>7. S \ {m} \in SUBSET (1..m - 1)
    <3> SUFFICES ASSUME NEW x \in S, x # m PROVE x \in 1..m - 1
      OBVIOUS
    <3>1. x \in 1..m
      OBVIOUS
    <3> QED BY <2>3, <3>1
  <2>8. PICK g : Counts(S \ {m}, g)
    BY <2>6, <2>7
  <2>9. m \in S
    <3> SUFFICES ASSUME m \notin S PROVE FALSE
      OBVIOUS
    <3>1. S \ {m} = S
      OBVIOUS
    <3> QED BY <2>4, <2>8, <3>1
  <2> DEFINE k == Cardinality(S)
             f == [i \in 1..k |-> IF i = k THEN m ELSE g[i]]
  <2>10. k \in Nat /\ IsFiniteSet(S) /\ Cardinality(S \ {m}) = k - 1
    BY <1>1, <2>3, <2>9, FS_RemoveElement
  <2> HIDE DEF k
  <2>11. g \in [1..k - 1 -> S \ {m}] /\ \A i, j \in 1..k - 1 : i < j => g[i] < g[j]
    BY <2>8, <2>10 DEF Counts
  <2>12. \A i \in 1..k : i # k => i \in 1..k - 1
    BY <2>10
  <2>13. f \in [1..k -> S]
    BY <2>9, <2>11, <2>12
  <2>14. ASSUME NEW i \in 1..k, NEW j \in 1..k, i < j PROVE f[i] < f[j]
    <3>1. i \in 1..k - 1 /\ f[i] = g[i] /\ g[i] \in S \ {m}
      BY <2>10, <2>11, <2>14
    <3>2. CASE j = k
      <4>1. g[i] \in 1..m - 1 /\ f[j] = m
        BY <2>7, <3>1, <3>2
      <4> QED BY <2>3, <3>1, <4>1
    <3>3. CASE j # k
      <4>1. j \in 1..k - 1 /\ f[j] = g[j]
        BY <2>12, <3>3
      <4> QED BY <2>11, <2>14, <3>1, <4>1
    <3> QED BY <3>2, <3>3
  <2>15. Counts(S, f)
    <3> HIDE DEF f
    <3> QED BY <2>13, <2>14 DEF Counts, k
  <2> QED BY <2>4, <2>15
<1>3. \E f : Counts(K, f)
  <2>1. n \in 0..n
    OBVIOUS
  <2> QED BY <1>2, <2>1
<1>4. \E f \in [1..Cardinality(K) -> K] : \A i, j \in DOMAIN f : i < j => f[i] < f[j]
  BY <1>3
<1>5. /\ InOrder(K) \in [1..Cardinality(K) -> K]
      /\ \A i, j \in DOMAIN InOrder(K) : i < j => InOrder(K)[i] < InOrder(K)[j]
  BY <1>4 DEF InOrder
<1>6. DOMAIN InOrder(K) = 1..Cardinality(K)
  BY <1>5
<1> QED BY <1>1, <1>5, <1>6

\* No two filters of a sequence are on the same dimension.
Distinct(fs) == \A i, j \in DOMAIN fs : i # j => fs[i].dim # fs[j].dim

\* Without keeps filters, none of those on the dimensions, and does not repeat one.
LEMMA WithoutDropsDimensions ==
  ASSUME NEW S, NEW s \in Seq(S), NEW D
  PROVE  /\ Without(s, D) \in Seq(S)
         /\ FilterDims(Without(s, D)) \subseteq FilterDims(s) \ D
         /\ Distinct(s) => Distinct(Without(s, D))
<1> DEFINE K == {i \in DOMAIN s : s[i].dim \notin D}
           at == InOrder(K)
           n == Cardinality(K)
<1>1. Len(s) \in Nat /\ DOMAIN s = 1..Len(s) /\ \A i \in DOMAIN s : s[i] \in S
  OBVIOUS
<1>2. K \in SUBSET (1..Len(s))
  BY <1>1
<1>3. n \in Nat /\ at \in [1..n -> K] /\ \A i, j \in 1..n : i < j => at[i] < at[j]
  <2> HIDE DEF K
  <2> QED BY <1>1, <1>2, PositionsAreInOrder
<1>4. Without(s, D) = [i \in 1..n |-> s[at[i]]]
  <2>1. DOMAIN at = 1..n
    BY <1>3
  <2> HIDE DEF n
  <2> QED BY <2>1 DEF Without
<1> HIDE DEF at, n
<1>5. \A i \in 1..n : at[i] \in DOMAIN s /\ s[at[i]] \in S /\ s[at[i]].dim \notin D /\ at[i] \in 1..Len(s)
  BY <1>1, <1>3
<1>6. Without(s, D) \in Seq(S) /\ DOMAIN Without(s, D) = 1..n
  BY <1>3, <1>4, <1>5
<1>7. FilterDims(Without(s, D)) \subseteq FilterDims(s) \ D
  BY <1>4, <1>5 DEF FilterDims
<1>8. ASSUME Distinct(s) PROVE Distinct(Without(s, D))
  <2> SUFFICES ASSUME NEW i \in 1..n, NEW j \in 1..n, i # j PROVE s[at[i]].dim # s[at[j]].dim
    BY <1>4, <1>6 DEF Distinct
  <2>1. i < j \/ j < i
    OBVIOUS
  <2>2. at[i] # at[j]
    BY <1>3, <1>5, <2>1
  <2> QED BY <1>5, <1>8, <2>2 DEF Distinct
<1> QED BY <1>6, <1>7, <1>8

\* A removal keeps filters and does not repeat one.
LEMMA RemovalDropsOne ==
  ASSUME NEW S, NEW s \in Seq(S), NEW k \in DOMAIN s
  PROVE  /\ RemoveAt(s, k) \in Seq(S)
         /\ FilterDims(RemoveAt(s, k)) \subseteq FilterDims(s)
         /\ Distinct(s) => Distinct(RemoveAt(s, k))
<1> DEFINE r == RemoveAt(s, k)
<1>1. r = Remaining(s, k)
  BY DEF RemoveAt, Remaining
<1>2. /\ r \in Seq(S) /\ Len(r) = Len(s) - 1
      /\ \A i \in DOMAIN r : r[i] = IF i < k THEN s[i] ELSE s[i + 1]
  BY <1>1, Removal
<1> HIDE DEF r
<1>3. Len(s) \in Nat /\ DOMAIN s = 1..Len(s) /\ DOMAIN r = 1..Len(s) - 1 /\ k \in 1..Len(s)
  BY <1>2
<1>4. \A i \in DOMAIN r : i \in DOMAIN s /\ i + 1 \in DOMAIN s /\ i \in Int
  BY <1>3
<1>5. FilterDims(r) \subseteq FilterDims(s)
  BY <1>2, <1>4 DEF FilterDims
<1>6. ASSUME Distinct(s) PROVE Distinct(r)
  <2> SUFFICES ASSUME NEW i \in DOMAIN r, NEW j \in DOMAIN r, i # j PROVE r[i].dim # r[j].dim
    BY DEF Distinct
  <2> DEFINE p == IF i < k THEN i ELSE i + 1
             q == IF j < k THEN j ELSE j + 1
  <2>1. p \in DOMAIN s /\ q \in DOMAIN s /\ p # q
    BY <1>3, <1>4
  <2>2. r[i] = s[p] /\ r[j] = s[q]
    BY <1>2
  <2> QED BY <1>6, <2>1, <2>2 DEF Distinct
<1> QED BY <1>2, <1>5, <1>6 DEF r

\* Appending filters on other dimensions repeats none.
LEMMA AppendingKeepsDistinct ==
  ASSUME NEW S, NEW s \in Seq(S), NEW t \in Seq(S)
  PROVE  /\ s \o t \in Seq(S)
         /\ FilterDims(s \o t) \subseteq FilterDims(s) \cup FilterDims(t)
         /\ Distinct(s) /\ Distinct(t) /\ FilterDims(s) \cap FilterDims(t) = {} => Distinct(s \o t)
<1> DEFINE c == s \o t
<1>1. /\ c \in Seq(S) /\ Len(c) = Len(s) + Len(t)
      /\ \A i \in 1..Len(s) + Len(t) : c[i] = IF i <= Len(s) THEN s[i] ELSE t[i - Len(s)]
  BY ConcatProperties
<1> HIDE DEF c
<1>2. Len(s) \in Nat /\ Len(t) \in Nat /\ DOMAIN s = 1..Len(s) /\ DOMAIN t = 1..Len(t) /\ DOMAIN c = 1..Len(s) + Len(t)
  BY <1>1
<1>3. ASSUME NEW i \in DOMAIN c
      PROVE  \/ i <= Len(s) /\ i \in DOMAIN s /\ c[i] = s[i]
             \/ ~(i <= Len(s)) /\ i - Len(s) \in DOMAIN t /\ c[i] = t[i - Len(s)]
  BY <1>1, <1>2
<1>4. FilterDims(c) \subseteq FilterDims(s) \cup FilterDims(t)
  BY <1>3 DEF FilterDims
<1>5. ASSUME Distinct(s), Distinct(t), FilterDims(s) \cap FilterDims(t) = {},
             NEW i \in DOMAIN c, NEW j \in DOMAIN c, i # j
      PROVE  c[i].dim # c[j].dim
  <2>1. i \in Int /\ j \in Int /\ Len(s) \in Int
    BY <1>2
  <2>2. CASE i <= Len(s) /\ j <= Len(s)
    BY <1>3, <1>5, <2>2 DEF Distinct
  <2>3. CASE ~(i <= Len(s)) /\ ~(j <= Len(s))
    <3>1. i - Len(s) # j - Len(s)
      BY <1>5, <2>1
    <3> QED BY <1>3, <1>5, <2>3, <3>1 DEF Distinct
  <2>4. CASE i <= Len(s) /\ ~(j <= Len(s))
    <3>1. c[i].dim \in FilterDims(s) /\ c[j].dim \in FilterDims(t)
      BY <1>3, <2>4 DEF FilterDims
    <3> QED BY <1>5, <3>1
  <2>5. CASE ~(i <= Len(s)) /\ j <= Len(s)
    <3>1. c[i].dim \in FilterDims(t) /\ c[j].dim \in FilterDims(s)
      BY <1>3, <2>5 DEF FilterDims
    <3> QED BY <1>5, <3>1
  <2> QED BY <2>2, <2>3, <2>4, <2>5
<1> QED BY <1>1, <1>4, <1>5 DEF c, Distinct

\* A click leaves one filter on each dimension, if it found one on each and adds one on each.
LEMMA TogglingKeepsDistinct ==
  ASSUME NEW S, NEW s \in Seq(S), NEW t \in Seq(S)
  PROVE  /\ Toggled(s, t) \in Seq(S)
         /\ FilterDims(Toggled(s, t)) \subseteq FilterDims(s) \cup FilterDims(t)
         /\ Distinct(s) /\ Distinct(t) => Distinct(Toggled(s, t))
<1> DEFINE w == Without(s, FilterDims(t))
<1>1. w \in Seq(S) /\ FilterDims(w) \subseteq FilterDims(s) \ FilterDims(t) /\ (Distinct(s) => Distinct(w))
  BY WithoutDropsDimensions
<1> HIDE DEF w
<1>2. /\ w \o t \in Seq(S) /\ FilterDims(w \o t) \subseteq FilterDims(w) \cup FilterDims(t)
      /\ Distinct(w) /\ Distinct(t) /\ FilterDims(w) \cap FilterDims(t) = {} => Distinct(w \o t)
  BY <1>1, AppendingKeepsDistinct
<1>3. Toggled(s, t) = w \/ Toggled(s, t) = w \o t
  BY DEF Toggled, w
<1> QED BY <1>1, <1>2, <1>3

-----------------------------------------------------------------------------
(* The dashboard: what is chosen, clicked and shown. *)

\* The dimensions of the tabs and those of the heat map.
AnyDimension == {Dimension[t] : t \in DOMAIN Dimension} \cup {"day_of_week", "hour"}

\* Filters: the value of one belongs to its dimension.
FilterType ==
  {f \in [dim : AnyDimension, op : OperatorOptions, value : AnyDimension \X Values] : f.value[1] = f.dim}

\* The parameters in the address.
ParametersType ==
  [period : Periods \cup {Custom, None}, comparison : Comparisons \cup {None}, range : Ranges \cup {None},
   filters : Seq(FilterType)]

DashboardTypes ==
  /\ search \in ParametersType /\ url \in ParametersType
  /\ pendingPeriod \in Periods \cup {Custom, None} /\ pendingRange \in Ranges \cup {None}
  /\ picking \in AnyDimension \cup {None}
  /\ activeTab \in WidgetTabs
  /\ open /\ pendingPeriod # None => armed = search

\* What was chosen is what the address shows, with the period that waits for its timer.
ChosenIsWritten ==
  open /\ ~stale =>
    chosen = IF pendingPeriod = None THEN Shown(url) ELSE [Shown(url) EXCEPT !.period = pendingPeriod]

\* Neither the page nor the address has two filters on a dimension, nor one on the selected dimension.
NothingCrossed ==
  ~crossed => /\ Distinct(search.filters) /\ Distinct(url.filters)
              /\ picking # None => picking \notin FilterDims(search.filters) \cup FilterDims(url.filters)

\* A view that has not the answer to its query waits for it, or will have none.
ViewsWait ==
  open => \A v \in WidgetViews : LET q == DimensionQuery(v, search, activeTab, sort, drawer)
                           IN  q \in asked \cup refused \/ response[v] = q

\* Parameters of which one is written stay parameters.
LEMMA ParametersAreWritten ==
  ASSUME NEW s \in ParametersType
  PROVE  /\ \A p \in Periods \cup {Custom, None} : [s EXCEPT !.period = p] \in ParametersType
         /\ \A c \in Comparisons \cup {None} : [s EXCEPT !.comparison = c] \in ParametersType
         /\ \A r \in Ranges \cup {None} : [s EXCEPT !.period = Custom, !.range = r] \in ParametersType
         /\ \A f \in Seq(FilterType) : [s EXCEPT !.filters = f] \in ParametersType
         /\ s.filters \in Seq(FilterType)
<1> DEFINE F == Seq(FilterType)
           T == [period : Periods \cup {Custom, None}, comparison : Comparisons \cup {None}, range : Ranges \cup {None},
                 filters : F]
<1>1. s \in T
  BY DEF ParametersType
<1>2. /\ \A p \in Periods \cup {Custom, None} : [s EXCEPT !.period = p] \in T
      /\ \A c \in Comparisons \cup {None} : [s EXCEPT !.comparison = c] \in T
      /\ \A r \in Ranges \cup {None} : [s EXCEPT !.period = Custom, !.range = r] \in T
      /\ \A f \in F : [s EXCEPT !.filters = f] \in T
      /\ s.filters \in F
  <2> HIDE DEF F
  <2> QED BY <1>1
<1> QED BY <1>2 DEF ParametersType

\* What the address does not say is taken to be what the page shows without it.
LEMMA LoadedShowsTheSame ==
  ASSUME DashboardAssumption, NEW s \in ParametersType, NEW store
  PROVE  LET u == Loaded(s, SavedOf(s), Loaded(s, store, s))
         IN  u \in ParametersType /\ u.filters = s.filters /\ Shown(u) = Shown(s)
<1> DEFINE u == Loaded(s, SavedOf(s), Loaded(s, store, s))
<1>1. s \in [period : Periods \cup {Custom, None}, comparison : Comparisons \cup {None}, range : Ranges \cup {None},
             filters : Seq(FilterType)]
  BY DEF ParametersType
<1>2. Default # None /\ Default \in Periods /\ Default \in Comparisons
  BY DEF DashboardAssumption
<1>3. CASE s.comparison = None
  <2>1. u = [s EXCEPT !.comparison = Default]
    BY <1>2, <1>3 DEF Loaded, SavedOf, Or
  <2> HIDE DEF u
  <2>2. u.filters = s.filters /\ Shown(u) = Shown(s)
    BY <1>1, <1>2, <1>3, <2>1 DEF Shown, Or
  <2> QED BY <1>2, <2>1, <2>2, ParametersAreWritten DEF u
<1>4. CASE s.comparison # None /\ s.period = None
  <2>1. u = [s EXCEPT !.period = Default]
    BY <1>2, <1>4 DEF Loaded, SavedOf, Or
  <2> HIDE DEF u
  <2>2. u.filters = s.filters /\ Shown(u) = Shown(s)
    BY <1>1, <1>2, <1>4, <2>1 DEF Shown, Or
  <2> QED BY <1>2, <2>1, <2>2, ParametersAreWritten DEF u
<1>5. CASE s.comparison # None /\ s.period # None
  BY <1>5 DEF Loaded
<1> QED BY <1>3, <1>4, <1>5


\* A filter by a value of its dimension is one.
LEMMA FiltersFitTheirType ==
  ASSUME NEW d \in AnyDimension, NEW op \in OperatorOptions, NEW v \in ValuesOf(d)
  PROVE  Filter(d, op, v) \in FilterType
<1>1. v \in AnyDimension \X Values /\ v[1] = d
  BY DEF ValuesOf
<1>2. [dim |-> d, op |-> op, value |-> v] \in [dim : AnyDimension, op : OperatorOptions, value : AnyDimension \X Values]
  BY <1>1
<1> QED BY <1>1, <1>2 DEF Filter, FilterType

\* Rows that are offered are values of the dimension by which a click on them filters.
LEMMA RowsAreOfTheTab ==
  ASSUME DashboardAssumption, activeTab \in WidgetTabs, NEW v \in WidgetViews, NEW picked \in Offered(v), activeTab \in DOMAIN TabKeyToDimension
  PROVE  Filter(TabKeyToDimension[activeTab], "equals", picked) \in FilterType
<1>1. activeTab \in DOMAIN Dimension
  BY DEF DashboardAssumption
<1>2. activeTab # "exit"
  BY <1>1 DEF Dimension
<1>3. TabKeyToDimension[activeTab] = Dimension[activeTab] /\ Dimension[activeTab] \in AnyDimension
  BY <1>1, <1>2 DEF TabKeyToDimension, AnyDimension
<1>4. picked \in Rows(v)
  BY DEF Offered
<1>5. picked \in ValuesOf(Dimension[activeTab])
  BY <1>4 DEF Rows, RowsOf
<1>6. "equals" \in OperatorOptions
  BY DEF OperatorOptions
<1> QED BY <1>3, <1>5, <1>6, FiltersFitTheirType

\* One filter, or the two of a cell, are distinct filters.
LEMMA AddedFilters ==
  /\ \A f \in FilterType : <<f>> \in Seq(FilterType) /\ Distinct(<<f>>)
  /\ \A v \in Values : LET added == <<Filter("day_of_week", "equals", <<"day_of_week", v>>), Filter("hour", "equals", <<"hour", v>>)>>
                       IN  added \in Seq(FilterType) /\ Distinct(added)
<1>1. ASSUME NEW f \in FilterType PROVE <<f>> \in Seq(FilterType) /\ Distinct(<<f>>)
  BY DEF Distinct
<1>2. ASSUME NEW v \in Values, NEW d, NEW h,
             d = Filter("day_of_week", "equals", <<"day_of_week", v>>), h = Filter("hour", "equals", <<"hour", v>>)
      PROVE  <<d, h>> \in Seq(FilterType) /\ Distinct(<<d, h>>)
  <2>1. d.dim # h.dim
    BY <1>2 DEF Filter
  <2>2. "day_of_week" \in AnyDimension /\ "hour" \in AnyDimension /\ "equals" \in OperatorOptions
    BY DEF AnyDimension, OperatorOptions
  <2>3. <<"day_of_week", v>> \in ValuesOf("day_of_week") /\ <<"hour", v>> \in ValuesOf("hour")
    BY DEF ValuesOf
  <2>4. d \in FilterType /\ h \in FilterType
    BY <1>2, <2>2, <2>3, FiltersFitTheirType
  <2> QED BY <2>1, <2>4 DEF Distinct
<1> QED BY <1>1, <1>2

-----------------------------------------------------------------------------
(* The dashboard: steps. *)

\* What the steps do, the clicks that add filters taken together.
LEMMA DashboardSteps ==
  ASSUME DashboardAssumption, DashboardTypes, DashboardNext
  PROVE  \/ \E s \in {Blank, url} : OpenPage(s)
         \/ Rerender \/ DebounceFires \/ RangeFires \/ HandleCustomRangeOk \/ CancelRange
         \/ \E q \in asked : AnswerQuery(q) \/ Fail(q)
         \/ \E p \in Periods : SetPeriod(p)
         \/ \E c \in Comparisons : SetComparison(c)
         \/ \E r \in Ranges : PickRange(r)
         \/ \E added \in Seq(FilterType) : Distinct(added) /\ Act /\ HandleAddFilter(added)
         \/ \E dim \in AnyDimension : HandleDimensionSelect(dim)
         \/ \E op \in OperatorOptions, v \in ValuesOf(picking) : HandleApplyFilter(op, v) /\ Filter(picking, op, v) \in FilterType
         \/ \E i \in DOMAIN search.filters : HandleRemoveFilter(i)
         \/ HandlePrevious
         \/ \E t \in WidgetTabs : SetActiveTab(t)
         \/ HandleHeaderClick \/ SetDrawerOpen \/ LeavePage
<1>1. ASSUME NEW v \in WidgetViews, NEW picked \in Offered(v), HandleRowClick(v, picked)
      PROVE  \E added \in Seq(FilterType) : Distinct(added) /\ Act /\ HandleAddFilter(added)
  <2>1. Act /\ activeTab \in DOMAIN TabKeyToDimension /\ HandleAddFilter(<<Filter(TabKeyToDimension[activeTab], "equals", picked)>>)
    BY <1>1 DEF HandleRowClick
  <2>2. activeTab \in WidgetTabs
    BY DEF DashboardTypes
  <2>3. Filter(TabKeyToDimension[activeTab], "equals", picked) \in FilterType
    BY <2>1, <2>2, RowsAreOfTheTab
  <2> QED BY <2>1, <2>3, AddedFilters
<1>2. ASSUME NEW v \in Values, HandleHeatmapCellClick(v, v)
      PROVE  \E added \in Seq(FilterType) : Distinct(added) /\ Act /\ HandleAddFilter(added)
  BY <1>2, AddedFilters DEF HandleHeatmapCellClick
<1>3. ASSUME NEW dim \in AvailableDimensions PROVE dim \in AnyDimension
  BY DEF AvailableDimensions, AnyDimension, DashboardAssumption
<1>4. ASSUME NEW op \in OperatorOptions, NEW v \in ValuesOf(picking), HandleApplyFilter(op, v)
      PROVE  Filter(picking, op, v) \in FilterType
  <2>1. picking \in AnyDimension
    BY <1>4 DEF HandleApplyFilter, DashboardTypes
  <2> QED BY <2>1, FiltersFitTheirType
<1> QED BY <1>1, <1>2, <1>3, <1>4 DEF DashboardNext

\* A step keeps the types, and the timer has the parameters of the page.
LEMMA StepDashboardTypes ==
  DashboardAssumption /\ DashboardTypes /\ [DashboardNext]_dashboardVars => DashboardTypes'
<1> SUFFICES ASSUME DashboardAssumption, DashboardTypes, [DashboardNext]_dashboardVars PROVE DashboardTypes'
  OBVIOUS
<1> USE DEF DashboardTypes
<1>0. Blank \in ParametersType
  BY DEF Blank, ParametersType
<1>1. ASSUME NEW s \in {Blank, url}, OpenPage(s) PROVE DashboardTypes'
  <2>1. url' \in ParametersType
    BY <1>0, <1>1, LoadedShowsTheSame DEF OpenPage
  <2> QED BY <1>0, <1>1, <2>1 DEF OpenPage, RenderWidget, DashboardAssumption
<1>2. CASE Rerender
  BY <1>2 DEF Rerender, RenderWidget, Rearmed
<1>3. CASE DebounceFires
  <2>1. url' \in ParametersType
    BY <1>3, ParametersAreWritten DEF DebounceFires, NavigateTo
  <2> QED BY <1>3, <2>1 DEF DebounceFires, pageVars, widgetVars
<1>4. ASSUME SetCustomRange, \/ UNCHANGED <<pendingPeriod, armed>>
                             \/ pendingPeriod' = Custom /\ armed' = search
      PROVE  DashboardTypes'
  <2>1. url' \in ParametersType
    BY <1>4, ParametersAreWritten DEF SetCustomRange, NavigateTo
  <2> QED BY <1>4, <2>1 DEF SetCustomRange, pageVars, widgetVars
<1>5. CASE CancelRange
  BY <1>5 DEF CancelRange, pageVars, widgetVars
<1>6. ASSUME NEW q \in asked, AnswerQuery(q) \/ Fail(q) PROVE DashboardTypes'
  BY <1>6 DEF AnswerQuery, Fail
<1>7. ASSUME NEW p \in Periods, SetPeriod(p) PROVE DashboardTypes'
  BY <1>7 DEF SetPeriod, pageVars, widgetVars
<1>8. ASSUME NEW c \in Comparisons, SetComparison(c) PROVE DashboardTypes'
  <2>1. url' \in ParametersType
    BY <1>8, ParametersAreWritten DEF SetComparison, NavigateTo
  <2> QED BY <1>8, <2>1 DEF SetComparison, pageVars, widgetVars
<1>9. ASSUME NEW r \in Ranges, PickRange(r) PROVE DashboardTypes'
  BY <1>9 DEF PickRange, pageVars, widgetVars
<1>10. ASSUME NEW f \in Seq(FilterType), NEW g, SetFilters(f, g), picking' \in {picking, None} PROVE DashboardTypes'
  <2>1. url' \in ParametersType
    BY <1>10, ParametersAreWritten DEF SetFilters, NavigateTo
  <2> QED BY <1>10, <2>1 DEF SetFilters, pageVars, widgetVars
<1>11. search.filters \in Seq(FilterType)
  BY ParametersAreWritten
<1>12. ASSUME NEW added \in Seq(FilterType), HandleAddFilter(added) PROVE DashboardTypes'
  <2>1. Toggled(search.filters, added) \in Seq(FilterType)
    BY <1>11, TogglingKeepsDistinct
  <2> QED BY <1>10, <1>12, <2>1 DEF HandleAddFilter
<1>13. ASSUME NEW dim \in AnyDimension, HandleDimensionSelect(dim) PROVE DashboardTypes'
  BY <1>13 DEF HandleDimensionSelect, pageVars, widgetVars
<1>14. ASSUME NEW op \in OperatorOptions, NEW v \in ValuesOf(picking), HandleApplyFilter(op, v),
              Filter(picking, op, v) \in FilterType
       PROVE  DashboardTypes'
  <2>1. Append(search.filters, Filter(picking, op, v)) \in Seq(FilterType)
    BY <1>11, <1>14, AppendProperties
  <2> QED BY <1>10, <1>14, <2>1 DEF HandleApplyFilter
<1>15. ASSUME NEW i \in DOMAIN search.filters, HandleRemoveFilter(i) PROVE DashboardTypes'
  <2>1. RemoveAt(search.filters, i) \in Seq(FilterType)
    BY <1>11, RemovalDropsOne
  <2> QED BY <1>10, <1>15, <2>1 DEF HandleRemoveFilter
<1>16. CASE HandlePrevious
  BY <1>16 DEF HandlePrevious, pageVars, widgetVars
<1>17. ASSUME NEW t \in WidgetTabs, SetActiveTab(t) PROVE DashboardTypes'
  BY <1>17 DEF SetActiveTab, RenderWidget, OfWidget, pageVars
<1>18. CASE HandleHeaderClick \/ SetDrawerOpen
  BY <1>18 DEF HandleHeaderClick, SetDrawerOpen, RenderWidget, OfWidget, pageVars
<1>19. CASE LeavePage
  BY <1>19 DEF LeavePage
<1>20. CASE UNCHANGED dashboardVars
  BY <1>20 DEF dashboardVars
<1> QED BY <1>1, <1>2, <1>3, <1>4, <1>5, <1>6, <1>7, <1>8, <1>9, <1>12, <1>13, <1>14, <1>15, <1>16, <1>17, <1>18,
           <1>19, <1>20, DashboardSteps DEF RangeFires, HandleCustomRangeOk

\* What was chosen is written: an action on a page that shows its address writes what it changes.
LEMMA StepChosenIsWritten ==
  DashboardAssumption /\ DashboardTypes /\ ChosenIsWritten /\ [DashboardNext]_dashboardVars => ChosenIsWritten'
<1> SUFFICES ASSUME DashboardAssumption, DashboardTypes, ChosenIsWritten, [DashboardNext]_dashboardVars,
                    open', ~stale'
             PROVE  chosen' = IF pendingPeriod' = None THEN Shown(url')
                              ELSE [Shown(url') EXCEPT !.period = pendingPeriod']
  BY DEF ChosenIsWritten
<1> DEFINE Fine == chosen' = IF pendingPeriod' = None THEN Shown(url')
                             ELSE [Shown(url') EXCEPT !.period = pendingPeriod']
<1>0. None \notin Periods \cup Comparisons \cup Ranges \cup {Custom}
  BY DEF DashboardAssumption
<1>1. ASSUME NEW s \in {Blank, url}, OpenPage(s) PROVE Fine
  <2>1. s \in ParametersType
    <3>1. Blank \in ParametersType /\ url \in ParametersType
      BY DEF DashboardTypes, Blank, ParametersType
    <3> QED BY <3>1
  <2>2. Shown(url') = Shown(s)
    BY <1>1, <2>1, LoadedShowsTheSame DEF OpenPage
  <2> QED BY <1>1, <2>2 DEF OpenPage
<1>2. ASSUME Rerender PROVE Fine
  BY <1>2 DEF Rerender, ChosenIsWritten
\* The other actions write what is rendered, which is the address.
<1>3. ASSUME NEW s, NavigateTo(s), open
      PROVE  /\ url' = s /\ url = search /\ ~stale
             /\ chosen = IF pendingPeriod = None THEN Shown(url) ELSE [Shown(url) EXCEPT !.period = pendingPeriod]
  BY <1>3 DEF NavigateTo, ChosenIsWritten
<1>4. search \in [period : Periods \cup {Custom, None}, comparison : Comparisons \cup {None}, range : Ranges \cup {None},
                  filters : Seq(FilterType)]
  BY DEF DashboardTypes, ParametersType
<1>5. ASSUME DebounceFires PROVE Fine
  <2>1. /\ open /\ pendingPeriod # None /\ pendingPeriod' = None /\ chosen' = chosen
        /\ NavigateTo([armed EXCEPT !.period = pendingPeriod])
    BY <1>5 DEF DebounceFires
  <2>2. armed = search
    BY <2>1 DEF DashboardTypes
  <2>3. url' = [search EXCEPT !.period = pendingPeriod] /\ chosen = [Shown(search) EXCEPT !.period = pendingPeriod]
    BY <1>3, <2>1, <2>2
  <2>4. Shown(url') = [Shown(search) EXCEPT !.period = pendingPeriod]
    BY <1>4, <2>1, <2>3 DEF Shown, Or
  <2> QED BY <2>1, <2>3, <2>4
<1>6. ASSUME SetCustomRange, \/ pendingPeriod = None /\ UNCHANGED <<pendingPeriod, armed>>
                             \/ pendingPeriod' = Custom
      PROVE  Fine
  <2>1. /\ open /\ pendingRange # None /\ NavigateTo([search EXCEPT !.period = Custom, !.range = pendingRange])
        /\ chosen' = [chosen EXCEPT !.period = Custom, !.range = pendingRange]
    BY <1>6 DEF SetCustomRange
  <2>2. /\ url' = [search EXCEPT !.period = Custom, !.range = pendingRange]
        /\ chosen = IF pendingPeriod = None THEN Shown(search) ELSE [Shown(search) EXCEPT !.period = pendingPeriod]
    BY <1>3, <2>1
  <2>3. Shown(url') = [Shown(search) EXCEPT !.period = Custom, !.range = pendingRange]
    BY <1>0, <1>4, <2>2 DEF Shown, Or
  <2>4. chosen' = [Shown(search) EXCEPT !.period = Custom, !.range = pendingRange]
    BY <1>4, <2>1, <2>2 DEF Shown
  <2>5. Shown(url') = [Shown(url') EXCEPT !.period = Custom]
    BY <1>4, <2>3 DEF Shown
  <2> QED BY <1>0, <1>6, <2>3, <2>4, <2>5
<1>7. ASSUME CancelRange PROVE Fine
  BY <1>7 DEF CancelRange, ChosenIsWritten
<1>8. ASSUME NEW q \in asked, AnswerQuery(q) \/ Fail(q) PROVE Fine
  BY <1>8 DEF AnswerQuery, Fail, ChosenIsWritten
<1>9. ASSUME NEW p \in Periods, SetPeriod(p) PROVE Fine
  <2>1. open /\ url' = url /\ ~stale /\ pendingPeriod' = p /\ p # None /\ chosen' = [chosen EXCEPT !.period = p]
    BY <1>0, <1>9 DEF SetPeriod, Act
  <2>2. chosen = IF pendingPeriod = None THEN Shown(url) ELSE [Shown(url) EXCEPT !.period = pendingPeriod]
    BY <2>1 DEF ChosenIsWritten
  <2>3. [chosen EXCEPT !.period = p] = [Shown(url) EXCEPT !.period = p]
    <3>1. Shown(url) = [url EXCEPT !.period = Or(url.period, Default), !.comparison = Or(url.comparison, Default)]
      BY DEF Shown
    <3>2. url \in [period : Periods \cup {Custom, None}, comparison : Comparisons \cup {None}, range : Ranges \cup {None},
                  filters : Seq(FilterType)]
      BY DEF DashboardTypes, ParametersType
    <3> QED BY <2>2, <3>1, <3>2
  <2> QED BY <2>1, <2>3
<1>10. ASSUME NEW c \in Comparisons, SetComparison(c) PROVE Fine
  <2>1. /\ open /\ NavigateTo([search EXCEPT !.comparison = c]) /\ pendingPeriod' = pendingPeriod
        /\ chosen' = [chosen EXCEPT !.comparison = c] /\ c # None
    BY <1>0, <1>10 DEF SetComparison, Act
  <2>2. /\ url' = [search EXCEPT !.comparison = c]
        /\ chosen = IF pendingPeriod = None THEN Shown(search) ELSE [Shown(search) EXCEPT !.period = pendingPeriod]
    BY <1>3, <2>1
  <2>3. Shown(url') = [Shown(search) EXCEPT !.comparison = c]
    BY <1>4, <2>1, <2>2 DEF Shown, Or
  <2> QED BY <1>4, <2>1, <2>2, <2>3 DEF Shown
<1>11. ASSUME NEW r \in Ranges, PickRange(r) PROVE Fine
  BY <1>11 DEF PickRange, Act, ChosenIsWritten
<1>12. ASSUME NEW f, NEW g, open, SetFilters(f, g), search.filters = chosen.filters => f = g
       PROVE  Fine
  <2>1. /\ NavigateTo([search EXCEPT !.filters = f]) /\ pendingPeriod' = pendingPeriod
        /\ chosen' = [chosen EXCEPT !.filters = g]
    BY <1>12 DEF SetFilters
  <2>2. /\ url' = [search EXCEPT !.filters = f]
        /\ chosen = IF pendingPeriod = None THEN Shown(search) ELSE [Shown(search) EXCEPT !.period = pendingPeriod]
    BY <1>3, <1>12, <2>1
  <2>3. chosen.filters = search.filters
    BY <1>4, <2>2 DEF Shown
  <2>4. Shown(url') = [Shown(search) EXCEPT !.filters = f]
    BY <1>4, <2>2 DEF Shown
  <2> QED BY <1>4, <1>12, <2>1, <2>2, <2>3, <2>4 DEF Shown
<1>13. ASSUME NEW added \in Seq(FilterType), Act, HandleAddFilter(added) PROVE Fine
  BY <1>12, <1>13 DEF HandleAddFilter, Act
<1>14. ASSUME NEW dim \in AnyDimension, HandleDimensionSelect(dim) PROVE Fine
  BY <1>14 DEF HandleDimensionSelect, Act, ChosenIsWritten
<1>15. ASSUME NEW op \in OperatorOptions, NEW v \in ValuesOf(picking), HandleApplyFilter(op, v) PROVE Fine
  <2>1. open /\ SetFilters(Append(search.filters, Filter(picking, op, v)), Append(chosen.filters, Filter(picking, op, v)))
    BY <1>15 DEF HandleApplyFilter, Act
  <2> QED BY <1>12, <2>1
<1>16. ASSUME NEW i \in DOMAIN search.filters, HandleRemoveFilter(i) PROVE Fine
  <2>1. open /\ SetFilters(RemoveAt(search.filters, i),
                           IF i \in DOMAIN chosen.filters THEN RemoveAt(chosen.filters, i) ELSE chosen.filters)
    BY <1>16 DEF HandleRemoveFilter, Act
  <2> QED BY <1>12, <2>1
<1>17. ASSUME HandlePrevious PROVE Fine
  BY <1>17 DEF HandlePrevious, Act, ChosenIsWritten
<1>18. ASSUME NEW t \in WidgetTabs, SetActiveTab(t) PROVE Fine
  BY <1>18 DEF SetActiveTab, Act, OfWidget, ChosenIsWritten
<1>19. ASSUME HandleHeaderClick \/ SetDrawerOpen PROVE Fine
  BY <1>19 DEF HandleHeaderClick, SetDrawerOpen, Act, OfWidget, ChosenIsWritten
<1>20. ASSUME LeavePage PROVE Fine
  BY <1>20 DEF LeavePage
<1>21. ASSUME UNCHANGED dashboardVars PROVE Fine
  BY <1>21 DEF dashboardVars, ChosenIsWritten
<1> QED
  <2> HIDE DEF Fine
  <2>1. RangeFires \/ HandleCustomRangeOk => Fine
    <3>1. RangeFires => pendingPeriod = None /\ SetCustomRange /\ UNCHANGED <<pendingPeriod, armed>>
      BY DEF RangeFires
    <3>2. HandleCustomRangeOk => SetCustomRange /\ pendingPeriod' = Custom
      BY DEF HandleCustomRangeOk
    <3> QED BY <1>6, <3>1, <3>2
  <2>2. ASSUME DashboardNext PROVE Fine
    BY <1>1, <1>2, <1>5, <1>7, <1>8, <1>9, <1>10, <1>11, <1>13, <1>14, <1>15, <1>16, <1>17, <1>18, <1>19,
       <1>20, <2>1, <2>2, DashboardSteps
  <2> QED BY <1>21, <2>2 DEF Fine

\* A click on a row and the filter builder do not meet on a dimension, or it is recorded.
LEMMA StepNothingCrossed ==
  DashboardAssumption /\ DashboardTypes /\ NothingCrossed /\ [DashboardNext]_dashboardVars => NothingCrossed'
<1> SUFFICES ASSUME DashboardAssumption, DashboardTypes, NothingCrossed, [DashboardNext]_dashboardVars, ~crossed'
             PROVE  NothingCrossed'
  BY DEF NothingCrossed
<1> USE DEF NothingCrossed
<1>0. Blank.filters = <<>> /\ Distinct(<<>>) /\ FilterDims(<<>>) = {}
  BY DEF Blank, Distinct, FilterDims
<1>1. ASSUME NEW s \in {Blank, url}, OpenPage(s) PROVE NothingCrossed'
  <2>1. s \in ParametersType
    <3>1. Blank \in ParametersType /\ url \in ParametersType
      BY DEF DashboardTypes, Blank, ParametersType
    <3> QED BY <3>1
  <2>2. url'.filters = s.filters /\ search' = s /\ picking' = None /\ (s = url => ~crossed)
    BY <1>1, <2>1, LoadedShowsTheSame DEF OpenPage
  <2>3. Distinct(s.filters)
    BY <1>0, <1>1, <2>2
  <2> QED BY <2>2, <2>3
<1>2. CASE Rerender
  BY <1>2 DEF Rerender
\* What is written of the rest keeps the filters of the page.
<1>3. ASSUME NEW s, NavigateTo(s), s.filters = search.filters, UNCHANGED <<search, crossed, picking>>
      PROVE  NothingCrossed'
  BY <1>3 DEF NavigateTo
<1>4. /\ search \in [period : Periods \cup {Custom, None}, comparison : Comparisons \cup {None}, range : Ranges \cup {None},
                     filters : Seq(FilterType)]
      /\ search.filters \in Seq(FilterType)
  BY DEF DashboardTypes, ParametersType
<1>5. CASE DebounceFires
  <2>1. armed = search /\ NavigateTo([armed EXCEPT !.period = pendingPeriod]) /\ UNCHANGED <<search, crossed, picking>>
    BY <1>5 DEF DebounceFires, DashboardTypes, pageVars
  <2>2. [search EXCEPT !.period = pendingPeriod].filters = search.filters
    BY <1>4
  <2> QED BY <1>3, <2>1, <2>2
<1>6. CASE SetCustomRange
  <2>1. NavigateTo([search EXCEPT !.period = Custom, !.range = pendingRange]) /\ UNCHANGED <<search, crossed, picking>>
    BY <1>6 DEF SetCustomRange, pageVars
  <2>2. [search EXCEPT !.period = Custom, !.range = pendingRange].filters = search.filters
    BY <1>4
  <2> QED BY <1>3, <2>1, <2>2
<1>7. CASE CancelRange
  BY <1>7 DEF CancelRange, pageVars
<1>8. ASSUME NEW q \in asked, AnswerQuery(q) \/ Fail(q) PROVE NothingCrossed'
  BY <1>8 DEF AnswerQuery, Fail
<1>9. ASSUME NEW p, SetPeriod(p) PROVE NothingCrossed'
  BY <1>9 DEF SetPeriod, pageVars
<1>10. ASSUME NEW c, SetComparison(c) PROVE NothingCrossed'
  <2>1. NavigateTo([search EXCEPT !.comparison = c]) /\ UNCHANGED <<search, crossed, picking>>
    BY <1>10 DEF SetComparison, pageVars
  <2>2. [search EXCEPT !.comparison = c].filters = search.filters
    BY <1>4
  <2> QED BY <1>3, <2>1, <2>2
<1>11. ASSUME NEW r, PickRange(r) PROVE NothingCrossed'
  BY <1>11 DEF PickRange, pageVars
\* What is written of the filters.
<1>12. ASSUME NEW f, NEW g, SetFilters(f, g), ~crossed, Distinct(f),
              picking' # None => picking' = picking /\ picking \notin FilterDims(f)
       PROVE  NothingCrossed'
  <2>1. url' = [search EXCEPT !.filters = f] /\ search' = search
    BY <1>12 DEF SetFilters, NavigateTo, pageVars
  <2>2. url'.filters = f
    BY <1>4, <2>1
  <2> QED BY <1>12, <2>1, <2>2
<1>13. ASSUME NEW added \in Seq(FilterType), Distinct(added), HandleAddFilter(added) PROVE NothingCrossed'
  <2>1. /\ SetFilters(Toggled(search.filters, added), Toggled(chosen.filters, added))
        /\ picking' \in {picking, None} /\ ~crossed /\ picking \notin FilterDims(added)
    BY <1>13 DEF HandleAddFilter
  <2>2. /\ FilterDims(Toggled(search.filters, added)) \subseteq FilterDims(search.filters) \cup FilterDims(added)
        /\ Distinct(Toggled(search.filters, added))
    BY <1>4, <1>13, <2>1, TogglingKeepsDistinct
  <2> QED BY <1>12, <2>1, <2>2
<1>14. ASSUME NEW dim, HandleDimensionSelect(dim) PROVE NothingCrossed'
  <2>1. /\ ~crossed /\ picking' = dim /\ dim \notin FilterDims(url.filters) /\ dim \notin FilterDims(search.filters)
        /\ UNCHANGED <<search, url>>
    BY <1>14 DEF HandleDimensionSelect, AvailableDimensions, pageVars
  <2> QED BY <2>1
<1>15. ASSUME NEW op, NEW v, HandleApplyFilter(op, v), Filter(picking, op, v) \in FilterType PROVE NothingCrossed'
  <2> DEFINE f == Filter(picking, op, v)
             s == search.filters
  <2>1. /\ SetFilters(Append(s, f), Append(chosen.filters, f))
        /\ picking # None /\ picking' = None /\ ~crossed
    BY <1>15 DEF HandleApplyFilter
  <2>2. f.dim = picking /\ f \in FilterType
    BY <1>15 DEF Filter
  <2> HIDE DEF f
  <2>3. Distinct(s) /\ picking \notin FilterDims(s)
    BY <2>1
  <2>4. Distinct(<<f>>) /\ FilterDims(<<f>>) = {picking} /\ <<f>> \in Seq(FilterType)
    BY <2>2 DEF Distinct, FilterDims
  <2>5. Append(s, f) = s \o <<f>>
    BY <1>4, <2>2, AppendIsConcat
  <2>6. Distinct(s \o <<f>>)
    <3>1. s \in Seq(FilterType) /\ FilterDims(s) \cap FilterDims(<<f>>) = {}
      BY <1>4, <2>3, <2>4
    <3> HIDE DEF s
    <3> QED BY <2>3, <2>4, <3>1, AppendingKeepsDistinct
  <2> QED BY <1>12, <2>1, <2>5, <2>6
<1>16. ASSUME NEW i \in DOMAIN search.filters, HandleRemoveFilter(i) PROVE NothingCrossed'
  <2>1. /\ ~crossed /\ picking' = picking
        /\ SetFilters(RemoveAt(search.filters, i),
                      IF i \in DOMAIN chosen.filters THEN RemoveAt(chosen.filters, i) ELSE chosen.filters)
    BY <1>16 DEF HandleRemoveFilter
  <2>2. Distinct(RemoveAt(search.filters, i)) /\ FilterDims(RemoveAt(search.filters, i)) \subseteq FilterDims(search.filters)
    BY <1>4, <2>1, RemovalDropsOne
  <2> QED BY <1>12, <2>1, <2>2
<1>17. CASE HandlePrevious
  BY <1>17 DEF HandlePrevious, pageVars
<1>18. ASSUME NEW t, SetActiveTab(t) PROVE NothingCrossed'
  BY <1>18 DEF SetActiveTab, OfWidget, pageVars
<1>19. CASE HandleHeaderClick \/ SetDrawerOpen
  BY <1>19 DEF HandleHeaderClick, SetDrawerOpen, OfWidget, pageVars
<1>20. CASE LeavePage
  BY <1>20 DEF LeavePage
<1>21. CASE UNCHANGED dashboardVars
  BY <1>21 DEF dashboardVars
<1> QED
  <2> HIDE DEF NothingCrossed
  <2> QED BY <1>1, <1>2, <1>5, <1>6, <1>7, <1>8, <1>9, <1>10, <1>11, <1>13, <1>14, <1>15, <1>16, <1>17, <1>18, <1>19,
             <1>20, <1>21, DashboardSteps DEF RangeFires, HandleCustomRangeOk

\* A widget that is rendered asks for what it has not.
LEMMA RenderedViewsWait ==
  ASSUME NEW s, NEW t, NEW order, NEW expanded, RenderWidget(s, t, order, expanded), search' = s
  PROVE  ViewsWait'
BY DEF RenderWidget, ViewsWait

\* A view waits for its answer until it has it, or the query has failed.
LEMMA StepViewsWait ==
  DashboardAssumption /\ DashboardTypes /\ ViewsWait /\ [DashboardNext]_dashboardVars => ViewsWait'
<1> SUFFICES ASSUME DashboardAssumption, DashboardTypes, ViewsWait, [DashboardNext]_dashboardVars PROVE ViewsWait'
  OBVIOUS
<1> DEFINE Shows == <<open, search, activeTab, sort, drawer, asked, refused, response>>
<1>1. ASSUME UNCHANGED Shows PROVE ViewsWait'
  BY <1>1 DEF ViewsWait
<1>2. ASSUME NEW s, OpenPage(s) PROVE ViewsWait'
  BY <1>2, RenderedViewsWait DEF OpenPage
<1>3. CASE Rerender
  BY <1>3, RenderedViewsWait DEF Rerender
<1>4. CASE DebounceFires
  BY <1>1, <1>4 DEF DebounceFires, pageVars, widgetVars
<1>5. CASE SetCustomRange
  BY <1>1, <1>5 DEF SetCustomRange, pageVars, widgetVars
<1>6. CASE CancelRange
  BY <1>1, <1>6 DEF CancelRange, pageVars, widgetVars
<1>7. ASSUME NEW q \in asked, AnswerQuery(q) PROVE ViewsWait'
  BY <1>7 DEF AnswerQuery, ViewsWait
<1>8. ASSUME NEW q \in asked, Fail(q) PROVE ViewsWait'
  BY <1>8 DEF Fail, ViewsWait
<1>9. ASSUME NEW p, SetPeriod(p) PROVE ViewsWait'
  BY <1>1, <1>9 DEF SetPeriod, Act, pageVars, widgetVars
<1>10. ASSUME NEW c, SetComparison(c) PROVE ViewsWait'
  BY <1>1, <1>10 DEF SetComparison, Act, pageVars, widgetVars
<1>11. ASSUME NEW r, PickRange(r) PROVE ViewsWait'
  BY <1>1, <1>11 DEF PickRange, Act, pageVars, widgetVars
<1>12. ASSUME NEW f, NEW g, SetFilters(f, g) PROVE ViewsWait'
  BY <1>1, <1>12 DEF SetFilters, pageVars, widgetVars
<1>13. ASSUME NEW added, HandleAddFilter(added) PROVE ViewsWait'
  BY <1>12, <1>13 DEF HandleAddFilter
<1>14. ASSUME NEW dim, HandleDimensionSelect(dim) PROVE ViewsWait'
  BY <1>1, <1>14 DEF HandleDimensionSelect, Act, pageVars, widgetVars
<1>15. ASSUME NEW op, NEW v, HandleApplyFilter(op, v) PROVE ViewsWait'
  BY <1>12, <1>15 DEF HandleApplyFilter
<1>16. ASSUME NEW i, HandleRemoveFilter(i) PROVE ViewsWait'
  BY <1>12, <1>16 DEF HandleRemoveFilter
<1>17. CASE HandlePrevious
  BY <1>1, <1>17 DEF HandlePrevious, Act, pageVars, widgetVars
<1>18. ASSUME NEW t, SetActiveTab(t) PROVE ViewsWait'
  BY <1>18, RenderedViewsWait DEF SetActiveTab, OfWidget, pageVars
<1>19. CASE HandleHeaderClick
  BY <1>19, RenderedViewsWait DEF HandleHeaderClick, OfWidget, pageVars
<1>20. CASE SetDrawerOpen
  BY <1>20, RenderedViewsWait DEF SetDrawerOpen, OfWidget, pageVars
<1>21. CASE LeavePage
  BY <1>21 DEF LeavePage, ViewsWait
<1>22. CASE UNCHANGED dashboardVars
  BY <1>1, <1>22 DEF dashboardVars
<1> QED
  <2> HIDE DEF ViewsWait
  <2> QED BY <1>2, <1>3, <1>4, <1>5, <1>6, <1>7, <1>8, <1>9, <1>10, <1>11, <1>13, <1>14, <1>15, <1>16, <1>17, <1>18,
             <1>19, <1>20, <1>21, <1>22, DashboardSteps DEF RangeFires, HandleCustomRangeOk

\* The dashboard is true for any number of actions, failures, periods, ranges, values and filters: what it
\* shows is what was chosen, what was clicked filters by its own dimension, one dimension has one filter, and
\* the rows that stay are those of the parameters that are shown.
THEOREM DashboardTellsTheTruth == DashboardAssumption => (DashboardSpec => []DashboardIsTrue)
<1> SUFFICES ASSUME DashboardAssumption PROVE DashboardSpec => []DashboardIsTrue
  OBVIOUS
<1> DEFINE I == DashboardTypes /\ ChosenIsWritten /\ NothingCrossed /\ ViewsWait
<1>1. DashboardInit => I
  <2> SUFFICES ASSUME DashboardInit PROVE I
    OBVIOUS
  <2>1. Blank \in ParametersType /\ Distinct(Blank.filters)
    BY DEF Blank, ParametersType, Distinct
  <2> QED BY <2>1 DEF DashboardInit, DashboardTypes, DashboardAssumption, ChosenIsWritten, NothingCrossed, ViewsWait
<1>2. I /\ [DashboardNext]_dashboardVars => I'
  BY StepDashboardTypes, StepChosenIsWritten, StepNothingCrossed, StepViewsWait
<1>3. I => DashboardIsTrue
  <2> SUFFICES ASSUME I PROVE DashboardIsTrue
    OBVIOUS
  <2>1. ChoicesStand
    BY DEF ChoicesStand, ChosenIsWritten
  <2>2. FiltersFit
    <3>1. url.filters \in Seq(FilterType)
      BY DEF DashboardTypes, ParametersType
    <3>2. \A i \in DOMAIN url.filters : url.filters[i] \in FilterType
      BY <3>1
    <3> QED BY <3>2 DEF FiltersFit, FilterType
  <2>3. OnePerDimension
    BY DEF OnePerDimension, NothingCrossed, Distinct
  <2>4. RowsAreCurrent
    BY DEF RowsAreCurrent, ViewsWait, Rows
  <2> QED BY <2>1, <2>2, <2>3, <2>4 DEF DashboardIsTrue
<1> QED BY <1>1, <1>2, <1>3, PTL DEF DashboardSpec

=============================================================================
