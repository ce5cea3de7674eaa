------------------------- MODULE EventBuffer_proofs -------------------------
(***************************************************************************)
(* Proofs about EventBuffer and Delivery: events on their way to the       *)
(* tables, and what the tables then say of a session.                      *)
(*                                                                         *)
(* EventBuffer, for every set of workspaces and requests, every batch and  *)
(* buffer size and any number of failures and crashes.  The inductive      *)
(* invariant joins the type invariant, the exclusion of two inserts for a  *)
(* workspace and the accounting of events: the accounting is preserved by  *)
(* an insert that ends only because it was the only one of its workspace,  *)
(* and the exclusion only because the flushing mark is exact.              *)
(*                                                                         *)
(* Delivery, for every number of tabs, clock, latency and threshold.  The  *)
(* invariant (DelInv) says what payloads say of one another (Told), what   *)
(* waits to be inserted (BufferTells, BufferOrder) and what is stored      *)
(* (SessionTells, RowsTell): a payload that was built later says no less   *)
(* of a page, and what waits is in the order in which it was taken.        *)
(***************************************************************************)
EXTENDS EventBuffer, Delivery, SequenceTheorems, FiniteSetTheorems, WellFoundedInduction, TLAPS

IInv ==
  /\ TypeOK
  /\ IsFiniteSet(inserts)
  /\ OneInsertPerWorkspace
  /\ NothingLost

\* The next event of a request that has more to add is an event of the model.
LEMMA EventPair ==
  ASSUME NEW r \in Requests, NEW k \in Nat, k < NumEvents[r]
  PROVE  <<r, k + 1>> \in Event
BY ConstantsAssumption DEF Event

\* What one more write makes of the counters is a count again.
LEMMA WrittenType ==
  ASSUME TypeOK, NEW done, IsFiniteSet(done)
  PROVE  Written(done) \in [Event -> Nat]
<1>1. SUFFICES ASSUME NEW e \in Event
               PROVE  copies[e] + Cardinality({i \in done : e \in Events(i.batch)}) \in Nat
  BY DEF Written
<1>2. IsFiniteSet({i \in done : e \in Events(i.batch)})
  BY FS_Subset
<1>3. Cardinality({i \in done : e \in Events(i.batch)}) \in Nat
  BY <1>2, FS_CardinalityType
<1>4. copies[e] \in Nat
  BY DEF TypeOK
<1>. QED  BY <1>3, <1>4

\* Whatever a batch holds is an event.
LEMMA EventsType == \A s \in Seq(Event) : Events(s) \subseteq Event
BY DEF Events

\* Batches, snapshots and buffers can be joined in either grouping.
LEMMA Assoc ==
  \A s, t, u \in Seq(Event) : (s \o t) \o u = s \o (t \o u)
BY ConcatAssociative

\* Two sequences of events joined are a sequence of events.
LEMMA ConcatType == \A s, t \in Seq(Event) : s \o t \in Seq(Event)
BY ConcatProperties

\* flush() up to its await keeps the exclusion and the accounting, when buf is what
\* follows the settled events of w, or the snapshot of w that is in flight.
LEMMA StartFlushPreserves ==
  ASSUME IInv, NEW w \in Workspaces, NEW buf \in Seq(Event),
         NEW by \in Requests \cup Background,
         StartFlush(w, buf, by),
         UNCHANGED settled,
         accepted' \in [Workspaces -> Seq(Event)],
         \A v \in Workspaces \ {w} : accepted'[v] = accepted[v],
         w \notin flushingWorkspaces => accepted'[w] = settled[w] \o buf,
         \A i \in inserts : i.ws = w => accepted'[w] = settled[w] \o (i.batch \o buf)
  PROVE  /\ buffers' \in [Workspaces -> Seq(Event)]
         /\ flushTimers' \in SUBSET Workspaces
         /\ flushingWorkspaces' \in SUBSET Workspaces
         /\ inserts' \in SUBSET Insert
         /\ disturbed' \in SUBSET Workspaces
         /\ IsFiniteSet(inserts')
         /\ OneInsertPerWorkspace'
         /\ NothingLost'
<1>1. flushTimers' \in SUBSET Workspaces /\ disturbed' \in SUBSET Workspaces
  BY DEF StartFlush, StopTimer, IInv, TypeOK
<1>2. CASE CanFlush(w, buf)
  <2> DEFINE new == [ws |-> w, batch |-> buf, by |-> by]
  <2>1. /\ buffers' = [buffers EXCEPT ![w] = <<>>]
        /\ flushingWorkspaces' = flushingWorkspaces \cup {w}
        /\ inserts' = inserts \cup {new}
        /\ w \notin flushingWorkspaces
    BY <1>2 DEF StartFlush, CanFlush, AfterSnapshot
  <2>2. new \in Insert /\ new.ws = w /\ new.batch = buf
    BY DEF Insert
  <2>3. IsFiniteSet(inserts')
    BY <2>1, FS_AddElement DEF IInv
  <2>4. \A i \in inserts : i.ws # w
    BY <2>1 DEF IInv, OneInsertPerWorkspace
  <2>5. OneInsertPerWorkspace'
    BY <2>1, <2>2, <2>4 DEF IInv, OneInsertPerWorkspace
  <2>6. NothingLost'
    <3>1. ASSUME NEW v \in Workspaces \ flushingWorkspaces'
          PROVE  accepted'[v] = settled'[v] \o buffers'[v]
      BY <2>1 DEF IInv, TypeOK, NothingLost
    <3>2. ASSUME NEW i \in inserts'
          PROVE  accepted'[i.ws] = settled'[i.ws] \o (i.batch \o buffers'[i.ws])
      <4>1. CASE i = new
        BY <2>1, <2>2, <4>1, ConcatEmptySeq DEF IInv, TypeOK
      <4>2. CASE i \in inserts
        BY <2>1, <2>4, <4>2 DEF IInv, TypeOK, NothingLost, Insert
      <4>. QED  BY <2>1, <4>1, <4>2
    <3>. QED  BY <3>1, <3>2 DEF NothingLost
  <2>. QED  BY <1>1, <2>1, <2>2, <2>3, <2>5, <2>6 DEF IInv, TypeOK
<1>3. CASE ~CanFlush(w, buf)
  <2>1. /\ buffers' = [buffers EXCEPT ![w] = buf]
        /\ UNCHANGED <<flushingWorkspaces, inserts>>
    BY <1>3 DEF StartFlush
  <2>2. NothingLost'
    <3>1. ASSUME NEW v \in Workspaces \ flushingWorkspaces'
          PROVE  accepted'[v] = settled'[v] \o buffers'[v]
      BY <2>1 DEF IInv, TypeOK, NothingLost
    <3>2. ASSUME NEW i \in inserts'
          PROVE  accepted'[i.ws] = settled'[i.ws] \o (i.batch \o buffers'[i.ws])
      BY <2>1 DEF IInv, TypeOK, NothingLost, Insert
    <3>. QED  BY <3>1, <3>2 DEF NothingLost
  <2>. QED  BY <1>1, <2>1, <2>2 DEF IInv, TypeOK, OneInsertPerWorkspace
<1>. QED  BY <1>2, <1>3

\* The buffer of w with one more event still follows what is settled or in flight.
LEMMA PushAccounting ==
  ASSUME IInv, NEW w \in Workspaces, NEW e \in Event,
         accepted' = [accepted EXCEPT ![w] = Append(@, e)]
  PROVE  LET buf == Append(buffers[w], e)
         IN /\ buf \in Seq(Event)
            /\ accepted' \in [Workspaces -> Seq(Event)]
            /\ \A v \in Workspaces \ {w} : accepted'[v] = accepted[v]
            /\ w \notin flushingWorkspaces => accepted'[w] = settled[w] \o buf
            /\ \A i \in inserts :
                  i.ws = w => accepted'[w] = settled[w] \o (i.batch \o buf)
<1> DEFINE buf == Append(buffers[w], e)
<1>1. /\ buffers[w] \in Seq(Event)
      /\ accepted[w] \in Seq(Event)
      /\ settled[w] \in Seq(Event)
      /\ <<e>> \in Seq(Event)
  BY DEF IInv, TypeOK
<1>2. accepted'[w] = accepted[w] \o <<e>> /\ buf = buffers[w] \o <<e>>
  BY <1>1, AppendIsConcat DEF IInv, TypeOK
<1>3. ASSUME w \notin flushingWorkspaces
      PROVE  accepted'[w] = settled[w] \o buf
  <2>1. accepted[w] = settled[w] \o buffers[w]
    BY <1>3 DEF IInv, NothingLost
  <2>2. (settled[w] \o buffers[w]) \o <<e>> = settled[w] \o (buffers[w] \o <<e>>)
    BY <1>1, Assoc
  <2>. QED  BY <1>2, <2>1, <2>2
<1>4. ASSUME NEW i \in inserts, i.ws = w
      PROVE  accepted'[w] = settled[w] \o (i.batch \o buf)
  <2>1. accepted[w] = settled[w] \o (i.batch \o buffers[w]) /\ i.batch \in Seq(Event)
    BY <1>4 DEF IInv, TypeOK, NothingLost, Insert
  <2>2. i.batch \o buffers[w] \in Seq(Event)
    BY <1>1, <2>1, ConcatType
  <2>3. /\ (settled[w] \o (i.batch \o buffers[w])) \o <<e>>
             = settled[w] \o ((i.batch \o buffers[w]) \o <<e>>)
        /\ (i.batch \o buffers[w]) \o <<e>> = i.batch \o (buffers[w] \o <<e>>)
    BY <1>1, <2>1, <2>2, Assoc
  <2>. QED  BY <1>2, <2>1, <2>3
<1>5. \A v \in Workspaces \ {w} : accepted'[v] = accepted[v]
  BY DEF IInv, TypeOK
<1>6. buf \in Seq(Event) /\ accepted' \in [Workspaces -> Seq(Event)]
  BY <1>1 DEF IInv, TypeOK
<1>. QED  BY <1>3, <1>4, <1>5, <1>6

-----------------------------------------------------------------------------
(* Each action preserves the invariant. *)

\* A fresh process with empty buffers satisfies the invariant.
LEMMA InitIInv == Init => IInv
<1> SUFFICES ASSUME Init PROVE IInv
  OBVIOUS
<1>1. TypeOK
  BY ConstantsAssumption DEF Init, TypeOK, EmptyBuffers, NothingDue
<1>2. IsFiniteSet(inserts) /\ OneInsertPerWorkspace
  BY FS_EmptySet DEF Init, OneInsertPerWorkspace
<1>3. NothingLost
  BY ConcatEmptySeq DEF Init, NothingLost, EmptyBuffers
<1>. QED  BY <1>1, <1>2, <1>3 DEF IInv

\* addBatch is done or has more to add, and in the second case it has.
LEMMA ProgressType ==
  ASSUME NEW r \in Requests, NEW n \in Nat, n <= NumEvents[r]
  PROVE  /\ Progress(r, n) \in {"ok", "adding"}
         /\ Progress(r, n) = "adding" => n < NumEvents[r]
BY ConstantsAssumption DEF Progress

\* add() keeps the invariant, whether it pushes, arms the timer or flushes.
LEMMA AddPreserves ==
  ASSUME IInv, NEW r \in Requests, Add(r)
  PROVE  IInv'
<1> DEFINE w == WorkspaceOf[r]
           e == <<r, pushed[r] + 1>>
           buf == Append(buffers[w], e)
<1>1. w \in Workspaces /\ r \in Requests \cup Background
  BY ConstantsAssumption
<1>2. pushed[r] \in Nat /\ pushed[r] < NumEvents[r] /\ NumEvents[r] \in Nat
  BY ConstantsAssumption DEF Add, IInv, TypeOK
<1>3. e \in Event
  BY <1>2, EventPair
<1>4. /\ accepted' = [accepted EXCEPT ![w] = Append(@, e)]
      /\ pushed' = [pushed EXCEPT ![r] = @ + 1]
      /\ UNCHANGED <<phase, copies, failures, crashes, settled, doubtful, due>>
  BY DEF Add
<1> HIDE DEF w, e
<1>5. /\ buf \in Seq(Event)
      /\ accepted' \in [Workspaces -> Seq(Event)]
      /\ \A v \in Workspaces \ {w} : accepted'[v] = accepted[v]
      /\ w \notin flushingWorkspaces => accepted'[w] = settled[w] \o buf
      /\ \A i \in inserts : i.ws = w => accepted'[w] = settled[w] \o (i.batch \o buf)
  BY <1>1, <1>3, <1>4, PushAccounting
<1>6. \E s \in {"ok", "adding", "waiting"} :
         /\ req' = [req EXCEPT ![r] = s]
         /\ s = "adding" => pushed[r] + 1 < NumEvents[r]
  <2>1. /\ Progress(r, pushed[r] + 1) \in {"ok", "adding"}
        /\ Progress(r, pushed[r] + 1) = "adding" => pushed[r] + 1 < NumEvents[r]
    BY <1>2, ProgressType
  <2>2. \/ req' = [req EXCEPT ![r] = "waiting"]
        \/ req' = [req EXCEPT ![r] = Progress(r, pushed[r] + 1)]
    BY DEF Add, AfterFullPush
  <2>. QED  BY <2>1, <2>2
<1>7. /\ pushed' \in [Requests -> Nat]
      /\ req' \in [Requests -> {"new", "adding", "waiting", "ok", "error"}]
      /\ \A q \in Requests :
            /\ pushed'[q] <= NumEvents[q]
            /\ req'[q] \in {"new", "adding"} => pushed'[q] < NumEvents[q]
  BY <1>2, <1>4, <1>6 DEF IInv, TypeOK
<1>8. /\ buffers' \in [Workspaces -> Seq(Event)]
      /\ flushTimers' \in SUBSET Workspaces
      /\ disturbed' \in SUBSET Workspaces
      /\ flushingWorkspaces' \in SUBSET Workspaces
      /\ inserts' \in SUBSET Insert
      /\ IsFiniteSet(inserts')
      /\ OneInsertPerWorkspace'
      /\ NothingLost'
  <2>1. CASE StartFlush(w, buf, r)
    BY <1>1, <1>4, <1>5, <2>1, StartFlushPreserves
  <2>2. CASE /\ buffers' = [buffers EXCEPT ![w] = buf]
             /\ flushTimers' \in {flushTimers, flushTimers \cup {w}}
             /\ UNCHANGED <<flushingWorkspaces, inserts, disturbed>>
    <3>1. NothingLost'
      <4>1. ASSUME NEW v \in Workspaces \ flushingWorkspaces'
            PROVE  accepted'[v] = settled'[v] \o buffers'[v]
        BY <1>4, <1>5, <2>2 DEF IInv, TypeOK, NothingLost
      <4>2. ASSUME NEW i \in inserts'
            PROVE  accepted'[i.ws] = settled'[i.ws] \o (i.batch \o buffers'[i.ws])
        BY <1>4, <1>5, <2>2 DEF IInv, TypeOK, NothingLost, Insert
      <4>. QED  BY <4>1, <4>2 DEF NothingLost
    <3>. QED  BY <1>1, <1>5, <2>2, <3>1 DEF IInv, TypeOK, OneInsertPerWorkspace
  <2>. QED  BY <2>1, <2>2 DEF Add, w, e
<1>. QED  BY <1>4, <1>5, <1>7, <1>8 DEF IInv, TypeOK

\* The two callers that flush a buffer as it stands.
LEMMA FlushCallPreserves ==
  ASSUME IInv, NEW w \in Workspaces, NEW by \in Background,
         StartFlush(w, buffers[w], by),
         UNCHANGED <<requestVars, phase, copies, failures, crashes, historyVars>>
  PROVE  IInv'
<1>1. buffers[w] \in Seq(Event)
  BY DEF IInv, TypeOK
<1>2. /\ accepted' \in [Workspaces -> Seq(Event)]
      /\ UNCHANGED <<accepted, settled>>
  BY DEF IInv, TypeOK, historyVars
<1>3. /\ w \notin flushingWorkspaces => accepted'[w] = settled[w] \o buffers[w]
      /\ \A i \in inserts :
            i.ws = w => accepted'[w] = settled[w] \o (i.batch \o buffers[w])
  BY <1>2 DEF IInv, NothingLost
<1>4. /\ buffers' \in [Workspaces -> Seq(Event)]
      /\ flushTimers' \in SUBSET Workspaces
      /\ disturbed' \in SUBSET Workspaces
      /\ flushingWorkspaces' \in SUBSET Workspaces
      /\ inserts' \in SUBSET Insert
      /\ IsFiniteSet(inserts')
      /\ OneInsertPerWorkspace'
      /\ NothingLost'
  BY <1>1, <1>2, <1>3, StartFlushPreserves
<1>. QED  BY <1>4 DEF IInv, TypeOK, requestVars, historyVars

\* onModuleDestroy, which flushes every idle workspace at once, keeps the invariant.
LEMMA OnModuleDestroyPreserves ==
  ASSUME IInv, OnModuleDestroy
  PROVE  IInv'
<1> DEFINE flushed == {w \in Workspaces : CanFlush(w, buffers[w])}
           new(w) == [ws |-> w, batch |-> buffers[w], by |-> "destroy"]
<1>1. /\ flushTimers' = {}
      /\ buffers' = [w \in Workspaces |-> IF w \in flushed THEN <<>> ELSE buffers[w]]
      /\ flushingWorkspaces' = flushingWorkspaces \cup flushed
      /\ inserts' = inserts \cup {new(w) : w \in flushed}
      /\ phase' \in {"destroyed", "destroying"}
      /\ due' = [w \in Workspaces |->
                   [events |-> buffers[w], busy |-> w \in flushingWorkspaces]]
      /\ UNCHANGED <<req, pushed, copies, failures, crashes, accepted, settled,
                     doubtful, disturbed>>
  BY DEF OnModuleDestroy, AfterSnapshot, requestVars
<1>2. \A w \in flushed : w \in Workspaces \ flushingWorkspaces
  BY DEF CanFlush
<1>3. \A w \in flushed :
         new(w) \in Insert /\ new(w).ws = w /\ new(w).batch = buffers[w]
  BY DEF IInv, TypeOK, Insert, Background
<1> HIDE DEF flushed, new
<1>4. inserts' \in SUBSET Insert
  BY <1>1, <1>3 DEF IInv, TypeOK
<1>5. IsFiniteSet(inserts')
  <2>1. flushed \subseteq Workspaces
    BY <1>2
  <2>2. IsFiniteSet(flushed)
    BY <2>1, FS_Subset, ConstantsAssumption
  <2>3. IsFiniteSet({new(w) : w \in flushed})
    <3> DEFINE T == {new(w) : w \in flushed}
               f == [w \in flushed |-> new(w)]
    <3>1. f \in Surjection(flushed, T)
      BY DEF Surjection
    <3>. QED  BY <2>2, <3>1, FS_Surjection
  <2>4. IsFiniteSet(inserts)
    BY DEF IInv
  <2>5. IsFiniteSet(inserts \cup {new(w) : w \in flushed})
    BY <2>3, <2>4, FS_Union
  <2>. QED  BY <1>1, <2>5
<1>6. OneInsertPerWorkspace'
  <2>1. ASSUME NEW i \in inserts', NEW j \in inserts', i.ws = j.ws
        PROVE  i = j
    BY <1>1, <1>2, <1>3, <2>1 DEF IInv, OneInsertPerWorkspace
  <2>2. flushingWorkspaces' = {i.ws : i \in inserts'}
    BY <1>1, <1>3 DEF IInv, OneInsertPerWorkspace
  <2>. QED  BY <2>1, <2>2 DEF OneInsertPerWorkspace
<1>7. NothingLost'
  <2>1. ASSUME NEW v \in Workspaces \ flushingWorkspaces'
        PROVE  accepted'[v] = settled'[v] \o buffers'[v]
    BY <1>1 DEF IInv, TypeOK, NothingLost
  <2>2. ASSUME NEW i \in inserts'
        PROVE  accepted'[i.ws] = settled'[i.ws] \o (i.batch \o buffers'[i.ws])
    <3>1. CASE i \in inserts
      <4>1. i.ws \in flushingWorkspaces /\ i.ws \in Workspaces
        BY <3>1 DEF IInv, TypeOK, OneInsertPerWorkspace, Insert
      <4>2. buffers'[i.ws] = buffers[i.ws]
        BY <1>1, <1>2, <4>1
      <4>. QED  BY <1>1, <3>1, <4>2 DEF IInv, NothingLost
    <3>2. ASSUME NEW w \in flushed, i = new(w)
          PROVE  accepted'[i.ws] = settled'[i.ws] \o (i.batch \o buffers'[i.ws])
      <4>1. i.ws = w /\ i.batch = buffers[w] /\ buffers'[w] = <<>>
        BY <1>1, <1>2, <1>3, <3>2
      <4>2. buffers[w] \in Seq(Event) /\ accepted[w] = settled[w] \o buffers[w]
        BY <1>2 DEF IInv, TypeOK, NothingLost
      <4>3. buffers[w] \o <<>> = buffers[w]
        BY <4>2, ConcatEmptySeq
      <4>. QED  BY <1>1, <4>1, <4>2, <4>3
    <3>. QED  BY <1>1, <3>1, <3>2
  <2>. QED  BY <2>1, <2>2 DEF NothingLost
<1>8. TypeOK'
  BY <1>1, <1>2, <1>4 DEF IInv, TypeOK
<1>. QED  BY <1>5, <1>6, <1>7, <1>8 DEF IInv

\* What both endings of an insert share: it was the only one of its workspace.
LEMMA InsertEndsPreserves ==
  ASSUME IInv, NEW i \in inserts, InsertEnds(i)
  PROVE  /\ i.ws \in Workspaces /\ i.batch \in Seq(Event)
         /\ i.by \in Requests \cup Background
         /\ flushingWorkspaces' \in SUBSET Workspaces
         /\ inserts' \in SUBSET Insert
         /\ IsFiniteSet(inserts')
         /\ OneInsertPerWorkspace'
         /\ \A j \in inserts' : j \in inserts /\ j.ws # i.ws
         /\ \A w \in Workspaces :
               w \notin flushingWorkspaces' =>
                 w = i.ws \/ w \notin flushingWorkspaces
<1>1. i \in Insert
  BY DEF IInv, TypeOK
<1>2. /\ inserts' = inserts \ {i}
      /\ flushingWorkspaces' = flushingWorkspaces \ {i.ws}
  BY DEF InsertEnds
<1>3. \A j \in inserts' : j \in inserts /\ j.ws # i.ws
  BY <1>2 DEF IInv, OneInsertPerWorkspace
<1>4. IsFiniteSet(inserts')
  <2>1. IsFiniteSet(inserts)
    BY DEF IInv
  <2>. QED  BY <1>2, <2>1, FS_RemoveElement
<1>5. OneInsertPerWorkspace'
  BY <1>2, <1>3 DEF IInv, OneInsertPerWorkspace
<1>. QED  BY <1>1, <1>2, <1>3, <1>4, <1>5 DEF IInv, TypeOK, Insert

\* A successful insert keeps the invariant: the snapshot moves to what is settled.
LEMMA InsertSucceedsPreserves ==
  ASSUME IInv, NEW i \in inserts, InsertSucceeds(i)
  PROVE  IInv'
<1>1. InsertEnds(i)
  BY DEF InsertSucceeds
<1>2. /\ i.ws \in Workspaces /\ i.batch \in Seq(Event)
      /\ i.by \in Requests \cup Background
      /\ flushingWorkspaces' \in SUBSET Workspaces
      /\ inserts' \in SUBSET Insert
      /\ IsFiniteSet(inserts')
      /\ OneInsertPerWorkspace'
      /\ \A j \in inserts' : j \in inserts /\ j.ws # i.ws
      /\ \A w \in Workspaces :
            w \notin flushingWorkspaces' => w = i.ws \/ w \notin flushingWorkspaces
  BY <1>1, InsertEndsPreserves
<1>3. /\ settled' = [settled EXCEPT ![i.ws] = @ \o i.batch]
      /\ UNCHANGED <<buffers, accepted>>
  BY DEF InsertSucceeds
<1>4. settled' \in [Workspaces -> Seq(Event)]
  <2>1. settled[i.ws] \o i.batch \in Seq(Event)
    BY <1>2, ConcatType DEF IInv, TypeOK
  <2>. QED  BY <1>3, <2>1 DEF IInv, TypeOK
<1>5. NothingLost'
  <2>1. ASSUME NEW w \in Workspaces \ flushingWorkspaces'
        PROVE  accepted'[w] = settled'[w] \o buffers'[w]
    <3>1. CASE w = i.ws
      <4>1. accepted[w] = settled[w] \o (i.batch \o buffers[w])
        BY <3>1 DEF IInv, NothingLost
      <4>2. (settled[w] \o i.batch) \o buffers[w] = settled[w] \o (i.batch \o buffers[w])
        <5>1. settled[w] \in Seq(Event) /\ buffers[w] \in Seq(Event)
          BY DEF IInv, TypeOK
        <5>. QED  BY <1>2, <5>1, Assoc
      <4>. QED  BY <1>3, <3>1, <4>1, <4>2 DEF IInv, TypeOK
    <3>2. CASE w # i.ws
      BY <1>2, <1>3, <3>2 DEF IInv, TypeOK, NothingLost
    <3>. QED  BY <3>1, <3>2
  <2>2. ASSUME NEW j \in inserts'
        PROVE  accepted'[j.ws] = settled'[j.ws] \o (j.batch \o buffers'[j.ws])
    BY <1>2, <1>3 DEF IInv, TypeOK, NothingLost, Insert
  <2>. QED  BY <2>1, <2>2 DEF NothingLost
<1>6. copies' \in [Event -> Nat]
  <2>1. IsFiniteSet({i})
    BY FS_Singleton
  <2>. QED  BY <2>1, WrittenType DEF InsertSucceeds, IInv
<1>7. /\ req' \in [Requests -> {"new", "adding", "waiting", "ok", "error"}]
      /\ \A r \in Requests :
            /\ pushed'[r] <= NumEvents[r]
            /\ req'[r] \in {"new", "adding"} => pushed'[r] < NumEvents[r]
  <2>1. ASSUME i.by \in Requests
        PROVE  /\ Progress(i.by, pushed[i.by]) \in {"ok", "adding"}
               /\ Progress(i.by, pushed[i.by]) = "adding"
                     => pushed[i.by] < NumEvents[i.by]
    BY <2>1, ProgressType DEF IInv, TypeOK
  <2>. QED  BY <2>1 DEF InsertSucceeds, IInv, TypeOK
<1>8. TypeOK'
  BY <1>2, <1>3, <1>4, <1>6, <1>7 DEF InsertSucceeds, IInv, TypeOK
<1>. QED  BY <1>2, <1>5, <1>8 DEF IInv

\* A failed insert keeps the invariant: the snapshot returns to the front.
LEMMA InsertFailsPreserves ==
  ASSUME IInv, NEW i \in inserts, NEW written \in BOOLEAN, InsertFails(i, written)
  PROVE  IInv'
<1>1. InsertEnds(i)
  BY DEF InsertFails
<1>2. /\ i.ws \in Workspaces /\ i.batch \in Seq(Event)
      /\ i.by \in Requests \cup Background
      /\ flushingWorkspaces' \in SUBSET Workspaces
      /\ inserts' \in SUBSET Insert
      /\ IsFiniteSet(inserts')
      /\ OneInsertPerWorkspace'
      /\ \A j \in inserts' : j \in inserts /\ j.ws # i.ws
      /\ \A w \in Workspaces :
            w \notin flushingWorkspaces' => w = i.ws \/ w \notin flushingWorkspaces
  BY <1>1, InsertEndsPreserves
<1>3. /\ buffers' = [buffers EXCEPT ![i.ws] = i.batch \o @]
      /\ UNCHANGED <<settled, accepted>>
  BY DEF InsertFails, Requeue
<1>4. buffers' \in [Workspaces -> Seq(Event)]
  <2>1. i.batch \o buffers[i.ws] \in Seq(Event)
    BY <1>2, ConcatType DEF IInv, TypeOK
  <2>. QED  BY <1>3, <2>1 DEF IInv, TypeOK
<1>5. NothingLost'
  <2>1. ASSUME NEW w \in Workspaces \ flushingWorkspaces'
        PROVE  accepted'[w] = settled'[w] \o buffers'[w]
    BY <1>2, <1>3 DEF IInv, TypeOK, NothingLost
  <2>2. ASSUME NEW j \in inserts'
        PROVE  accepted'[j.ws] = settled'[j.ws] \o (j.batch \o buffers'[j.ws])
    BY <1>2, <1>3 DEF IInv, TypeOK, NothingLost, Insert
  <2>. QED  BY <2>1, <2>2 DEF NothingLost
<1>6. copies' \in [Event -> Nat] /\ doubtful' \in SUBSET Event
  <2>1. Written({i}) \in [Event -> Nat]
    BY FS_Singleton, WrittenType DEF IInv
  <2>2. Events(i.batch) \subseteq Event
    BY <1>2, EventsType
  <2>. QED  BY <2>1, <2>2 DEF InsertFails, IInv, TypeOK
<1>7. failures' \in 0..MaxFailures
  BY ConstantsAssumption DEF InsertFails, IInv, TypeOK
<1>8. TypeOK'
  BY <1>2, <1>3, <1>4, <1>6, <1>7 DEF InsertFails, IInv, TypeOK
<1>. QED  BY <1>2, <1>5, <1>8 DEF IInv

\* Losing memory keeps the invariant: only what is settled counts as accepted.
LEMMA CrashPreserves ==
  ASSUME IInv, Crash
  PROVE  IInv'
<1>1. /\ buffers' = EmptyBuffers /\ flushTimers' = {} /\ flushingWorkspaces' = {}
      /\ inserts' = {} /\ accepted' = settled /\ due' = NothingDue /\ disturbed' = {}
      /\ UNCHANGED <<pushed, failures, settled>>
  BY DEF Crash
<1>2. copies' \in [Event -> Nat] /\ doubtful' \in SUBSET Event
  <2>1. PICK done \in SUBSET inserts :
               /\ copies' = Written(done)
               /\ doubtful' = doubtful \cup UNION {Events(i.batch) : i \in done}
    BY DEF Crash
  <2>2. IsFiniteSet(done)
    BY <2>1, FS_Subset DEF IInv
  <2>3. \A i \in done : Events(i.batch) \subseteq Event
    BY <2>1, EventsType DEF IInv, TypeOK, Insert
  <2>. QED  BY <2>1, <2>2, <2>3, WrittenType DEF IInv, TypeOK
<1>3. crashes' \in 0..MaxCrashes /\ phase' = "down"
  BY ConstantsAssumption DEF Crash, IInv, TypeOK
<1>4. /\ req' \in [Requests -> {"new", "adding", "waiting", "ok", "error"}]
      /\ \A r \in Requests : req'[r] \in {"new", "adding"} => req[r] = "new"
  BY DEF Crash, IInv, TypeOK
<1>5. TypeOK'
  BY <1>1, <1>2, <1>3, <1>4 DEF IInv, TypeOK, EmptyBuffers, NothingDue
<1>6. IsFiniteSet(inserts') /\ OneInsertPerWorkspace'
  BY <1>1, FS_EmptySet DEF OneInsertPerWorkspace
<1>7. NothingLost'
  <2>1. \A w \in Workspaces : settled[w] \o <<>> = settled[w]
    BY ConcatEmptySeq DEF IInv, TypeOK
  <2>. QED  BY <1>1, <2>1 DEF NothingLost, EmptyBuffers
<1>. QED  BY <1>5, <1>6, <1>7 DEF IInv

\* The invariant is inductive: one step for each action.
LEMMA NextIInv == IInv /\ [Next]_vars => IInv'
<1> SUFFICES ASSUME IInv, [Next]_vars PROVE IInv'
  OBVIOUS
<1>1. ASSUME NEW r \in Requests, Add(r) PROVE IInv'
  BY <1>1, AddPreserves
<1>2. ASSUME NEW w \in Workspaces, TimerFires(w) PROVE IInv'
  BY <1>2, FlushCallPreserves DEF TimerFires, Background
<1>3. ASSUME NEW w \in Workspaces, ExplicitFlush(w) PROVE IInv'
  BY <1>3, FlushCallPreserves DEF ExplicitFlush, Background
<1>4. ASSUME NEW w \in Workspaces, InsertReturns(w) PROVE IInv'
  BY <1>4, InsertSucceedsPreserves, InsertFailsPreserves DEF InsertReturns
<1>5. CASE OnModuleDestroy
  BY <1>5, OnModuleDestroyPreserves
<1>6. CASE Crash
  BY <1>6, CrashPreserves
<1>7. CASE Restart
  BY <1>7 DEF Restart, IInv, TypeOK, OneInsertPerWorkspace, NothingLost,
              bufferVars, requestVars, historyVars
<1>8. CASE UNCHANGED vars
  BY <1>8 DEF vars, IInv, TypeOK, OneInsertPerWorkspace, NothingLost,
              bufferVars, requestVars, historyVars
<1>. QED  BY <1>1, <1>2, <1>3, <1>4, <1>5, <1>6, <1>7, <1>8 DEF Next

\* Every reachable state satisfies the invariant.
LEMMA Invariance == Spec => []IInv
BY InitIInv, NextIInv, PTL DEF Spec

-----------------------------------------------------------------------------

\* Every reachable state of the buffer service has the declared types; in
\* particular a request never pushes more events than it carries.
THEOREM TypeCorrect == Spec => []TypeOK
BY Invariance, PTL DEF IInv

\* flush() admits one insert per workspace, and its mark is exact: neither two
\* inserts race for a workspace nor does a mark outlive its insert.
THEOREM InsertsExcludeEachOther == Spec => []OneInsertPerWorkspace
BY Invariance, PTL DEF IInv

\* Buffering, failed inserts and shutdown lose, invent and reorder no event.
THEOREM EventsAreAccountedFor == Spec => []NothingLost
BY Invariance, PTL DEF IInv

-----------------------------------------------------------------------------
(* The buffer implements the durable log.                                  *)

\* The initial state is an empty log.
LEMMA InitRefines == Init => Log!Init
BY DEF Init, Log!Init, EmptyBuffers

\* An insert that succeeds makes the next stretch of the log durable: the accounting
\* says that the settled events and the snapshot together are a prefix of it.
LEMMA SucceedsPersists ==
  ASSUME IInv, NEW i \in inserts, InsertSucceeds(i), i.batch # <<>>
  PROVE  Log!Persist(i.ws)
<1> DEFINE w == i.ws
           old == settled[w]
           n == Len(old) + Len(i.batch)
<1>1. /\ w \in Workspaces /\ i.batch \in Seq(Event) /\ old \in Seq(Event)
      /\ buffers[w] \in Seq(Event)
  BY DEF IInv, TypeOK, Insert
<1>2. /\ settled' = [settled EXCEPT ![w] = old \o i.batch]
      /\ UNCHANGED accepted
  BY DEF InsertSucceeds
<1>3. accepted[w] = (old \o i.batch) \o buffers[w]
  <2>1. accepted[w] = old \o (i.batch \o buffers[w])
    BY DEF IInv, NothingLost
  <2>. QED  BY <1>1, <2>1, Assoc
<1>4. /\ old \o i.batch \in Seq(Event) /\ Len(old \o i.batch) = n
      /\ Len(old) \in Nat /\ Len(i.batch) \in Nat /\ Len(i.batch) > 0
      /\ Len(buffers[w]) \in Nat
  <2>1. old \o i.batch \in Seq(Event) /\ Len(old \o i.batch) = n
    BY <1>1, ConcatProperties
  <2>2. Len(i.batch) \in Nat /\ Len(i.batch) > 0
    BY <1>1
  <2>3. Len(old) \in Nat /\ Len(buffers[w]) \in Nat
    BY <1>1
  <2>. QED  BY <2>1, <2>2, <2>3
<1> HIDE DEF n
<1>5. n \in Nat /\ n > Len(old) /\ n > 0
  <2>1. \A a, b \in Nat : b > 0 => a + b \in Nat /\ a + b > a /\ a + b > 0
    OBVIOUS
  <2>2. Len(old) \in Nat /\ Len(i.batch) \in Nat /\ Len(i.batch) > 0
    BY <1>4
  <2> HIDE DEF old
  <2>. QED  BY <2>1, <2>2 DEF n
<1>6. Len(accepted[w]) = n + Len(buffers[w])
  <2> DEFINE s == old \o i.batch
  <2>1. s \in Seq(Event) /\ Len(s) = n
    BY <1>4
  <2> HIDE DEF s
  <2>2. Len(s \o buffers[w]) = Len(s) + Len(buffers[w])
    BY <1>1, <2>1, ConcatProperties
  <2>. QED  BY <1>3, <2>1, <2>2 DEF s
<1>7. SubSeq(accepted[w], 1, n) = old \o i.batch
  <2> DEFINE s == old \o i.batch
  <2>1. s \in Seq(Event) /\ Len(s) = n /\ accepted[w] = s \o buffers[w]
    BY <1>3, <1>4
  <2> HIDE DEF s
  <2>2. SubSeq(s \o buffers[w], 1, n) = SubSeq(s, 1, n)
    <3>1. 1 \in 1..Len(s) /\ n \in 1..Len(s)
      BY <1>5, <2>1
    <3>. QED  BY <1>1, <2>1, <3>1, SubSeqOfConcat1
  <2>3. SubSeq(s, 1, n) = s
    BY <2>1, SubSeqFull
  <2>. QED  BY <2>1, <2>2, <2>3 DEF s
<1>8. n \in (Len(old) + 1) .. Len(accepted[w])
  BY <1>4, <1>5, <1>6
<1>. QED  BY <1>2, <1>7, <1>8 DEF Log!Persist

\* add() appends one event to the log and makes none durable.
LEMMA AddAccepts ==
  ASSUME IInv, NEW r \in Requests, Add(r)
  PROVE  Log!Next
<1>1. WorkspaceOf[r] \in Workspaces
  BY ConstantsAssumption
<1>2. <<r, pushed[r] + 1>> \in Event
  BY EventPair DEF Add, IInv, TypeOK
<1>3. Log!Accept(WorkspaceOf[r], <<r, pushed[r] + 1>>)
  BY DEF Add, Log!Accept
<1>. QED  BY <1>1, <1>2, <1>3 DEF Log!Next

\* Every step of the buffer is a step of the log or leaves it alone.
LEMMA StepRefines == IInv /\ [Next]_vars => [Log!Next]_(Log!vars)
<1> SUFFICES ASSUME IInv, [Next]_vars PROVE [Log!Next]_(Log!vars)
  OBVIOUS
<1>1. ASSUME NEW r \in Requests, Add(r) PROVE Log!Next
  BY <1>1, AddAccepts
<1>2. ASSUME NEW w \in Workspaces, TimerFires(w) \/ ExplicitFlush(w)
      PROVE  UNCHANGED Log!vars
  BY <1>2 DEF TimerFires, ExplicitFlush, historyVars, Log!vars
<1>3. ASSUME NEW w \in Workspaces, InsertReturns(w)
      PROVE  [Log!Next]_(Log!vars)
  <2>1. PICK i \in inserts :
          InsertSucceeds(i) \/ \E written \in BOOLEAN : InsertFails(i, written)
    BY <1>3 DEF InsertReturns
  <2>2. CASE InsertSucceeds(i) /\ i.batch # <<>>
    <3>1. i.ws \in Workspaces
      BY DEF IInv, TypeOK, Insert
    <3>. QED  BY <2>2, <3>1, SucceedsPersists DEF Log!Next
  <2>3. CASE InsertSucceeds(i) /\ i.batch = <<>>
    <3>1. i.ws \in Workspaces /\ settled[i.ws] \in Seq(Event)
      BY DEF IInv, TypeOK, Insert
    <3>2. settled[i.ws] \o <<>> = settled[i.ws]
      BY <3>1, ConcatEmptySeq
    <3>3. settled' = settled /\ accepted' = accepted
      BY <2>3, <3>1, <3>2 DEF InsertSucceeds, IInv, TypeOK
    <3>. QED  BY <3>3 DEF Log!vars
  <2>4. CASE \E written \in BOOLEAN : InsertFails(i, written)
    BY <2>4 DEF InsertFails, Log!vars
  <2>. QED  BY <2>1, <2>2, <2>3, <2>4
<1>4. CASE Crash
  BY <1>4 DEF Crash, Log!Next, Log!Crash
<1>5. CASE OnModuleDestroy
  BY <1>5 DEF OnModuleDestroy, Log!vars
<1>6. CASE Restart
  BY <1>6 DEF Restart, historyVars, Log!vars
<1>7. CASE UNCHANGED vars
  BY <1>7 DEF vars, historyVars, Log!vars
<1>. QED  BY <1>1, <1>2, <1>3, <1>4, <1>5, <1>6, <1>7 DEF Next

\* The buffer service implements the durable log: events become durable in the order
\* in which they were accepted and only a crash drops any, those not yet durable.
THEOREM BufferImplementsLog == Spec => LogSpec
<1>1. Init => Log!Init
  BY InitRefines
<1>2. IInv /\ [Next]_vars => [Log!Next]_(Log!vars)
  BY StepRefines
<1>. QED  BY <1>1, <1>2, Invariance, PTL DEF Spec, LogSpec, Log!Spec

-----------------------------------------------------------------------------
(* How often an event is written.  The accounting alone does not bound the *)
(* copies: it must also be known that an event is accepted at most once,   *)
(* by the workspace of its request, and not written before it is pushed.   *)

NoRepeats(s) == \A a, b \in DOMAIN s : s[a] = s[b] => a = b

AcceptedOnce ==
  \A w \in Workspaces :
     /\ NoRepeats(accepted[w])
     /\ \A e \in Events(accepted[w]) :
           /\ WorkspaceOf[e[1]] = w
           /\ e[2] <= pushed[e[1]]

UnwrittenBeforePush ==
  \A r \in Requests : \A k \in 1..NumEvents[r] :
     k > pushed[r] => copies[<<r, k>>] = 0

OnceInv == AcceptedOnce /\ UnwrittenBeforePush /\ ExactlyOnceUnlessDoubtful

\* The events of two joined batches are those of either.
LEMMA EventsOfConcat ==
  ASSUME NEW s \in Seq(Event), NEW t \in Seq(Event)
  PROVE  Events(s \o t) = Events(s) \cup Events(t)
<1>1. /\ s \o t \in Seq(Event)
      /\ Len(s \o t) = Len(s) + Len(t)
      /\ \A n \in 1 .. Len(s) + Len(t) :
            (s \o t)[n] = IF n <= Len(s) THEN s[n] ELSE t[n - Len(s)]
  BY ConcatProperties
<1>2. /\ DOMAIN s = 1..Len(s) /\ DOMAIN t = 1..Len(t)
      /\ DOMAIN (s \o t) = 1..(Len(s) + Len(t))
      /\ Len(s) \in Nat /\ Len(t) \in Nat
  BY <1>1
<1>3. ASSUME NEW n \in DOMAIN (s \o t)
      PROVE  (s \o t)[n] \in Events(s) \cup Events(t)
  <2>1. CASE n <= Len(s)
    BY <1>1, <1>2, <2>1 DEF Events
  <2>2. CASE n > Len(s)
    <3>1. n - Len(s) \in DOMAIN t
      BY <1>2, <2>2
    <3>. QED  BY <1>1, <1>2, <2>2, <3>1 DEF Events
  <2>. QED  BY <1>2, <2>1, <2>2
<1>4. ASSUME NEW n \in DOMAIN s
      PROVE  s[n] \in Events(s \o t)
  <2>1. n \in DOMAIN (s \o t) /\ (s \o t)[n] = s[n]
    BY <1>1, <1>2
  <2>. QED  BY <2>1 DEF Events
<1>5. ASSUME NEW n \in DOMAIN t
      PROVE  t[n] \in Events(s \o t)
  <2> DEFINE m == n + Len(s)
  <2>1. m \in DOMAIN (s \o t) /\ ~(m <= Len(s)) /\ m - Len(s) = n
    BY <1>2
  <2>2. (s \o t)[m] = t[n]
    BY <1>1, <1>2, <2>1
  <2>. QED  BY <2>1, <2>2 DEF Events
<1>. QED  BY <1>3, <1>4, <1>5 DEF Events

\* Without repetition, what is in the first part is not in the second.
LEMMA PartsAreDisjoint ==
  ASSUME NEW s \in Seq(Event), NEW t \in Seq(Event), NoRepeats(s \o t),
         NEW e \in Events(s), e \in Events(t)
  PROVE  FALSE
<1>1. /\ Len(s \o t) = Len(s) + Len(t) /\ s \o t \in Seq(Event)
      /\ \A n \in 1 .. Len(s) + Len(t) :
            (s \o t)[n] = IF n <= Len(s) THEN s[n] ELSE t[n - Len(s)]
  BY ConcatProperties
<1>2. /\ DOMAIN s = 1..Len(s) /\ DOMAIN t = 1..Len(t)
      /\ DOMAIN (s \o t) = 1..(Len(s) + Len(t))
      /\ Len(s) \in Nat /\ Len(t) \in Nat
  BY <1>1
<1>3. PICK a \in DOMAIN s : s[a] = e
  BY DEF Events
<1>4. PICK b \in DOMAIN t : t[b] = e
  BY DEF Events
<1> DEFINE c == b + Len(s)
<1>5. /\ a \in DOMAIN (s \o t) /\ c \in DOMAIN (s \o t)
      /\ a <= Len(s) /\ ~(c <= Len(s)) /\ c - Len(s) = b /\ a # c
  BY <1>2, <1>3, <1>4
<1>6. (s \o t)[a] = e /\ (s \o t)[c] = e
  BY <1>1, <1>2, <1>3, <1>4, <1>5
<1>. QED  BY <1>5, <1>6 DEF NoRepeats

\* One new event at the end repeats none.
LEMMA AppendKeepsNoRepeats ==
  ASSUME NEW s \in Seq(Event), NoRepeats(s), NEW e \in Event \ Events(s)
  PROVE  NoRepeats(Append(s, e)) /\ Events(Append(s, e)) = Events(s) \cup {e}
<1>1. /\ DOMAIN s = 1..Len(s) /\ DOMAIN Append(s, e) = 1..(Len(s) + 1) /\ Len(s) \in Nat
      /\ \A n \in 1..Len(s) : Append(s, e)[n] = s[n]
      /\ Append(s, e)[Len(s) + 1] = e
  OBVIOUS
<1>2. \A n \in 1..Len(s) : s[n] # e
  BY <1>1 DEF Events
<1>3. NoRepeats(Append(s, e))
  BY <1>1, <1>2 DEF NoRepeats
<1>4. Events(Append(s, e)) = Events(s) \cup {e}
  BY <1>1 DEF Events
<1>. QED  BY <1>3, <1>4

\* One insert writes each event of its batch once more and touches no other.
LEMMA WrittenByOne ==
  ASSUME TypeOK, NEW i, NEW e \in Event
  PROVE  Written({i})[e] = IF e \in Events(i.batch) THEN copies[e] + 1 ELSE copies[e]
<1>1. copies[e] \in Nat
  BY DEF TypeOK
<1>2. Written({i})[e] = copies[e] + Cardinality({j \in {i} : e \in Events(j.batch)})
  BY DEF Written
<1>3. CASE e \in Events(i.batch)
  <2>1. {j \in {i} : e \in Events(j.batch)} = {i}
    BY <1>3
  <2>2. Cardinality({i}) = 1
    BY FS_Singleton
  <2>. QED  BY <1>2, <1>3, <2>1, <2>2
<1>4. CASE e \notin Events(i.batch)
  <2>1. {j \in {i} : e \in Events(j.batch)} = {}
    BY <1>4
  <2>2. Written({i})[e] = copies[e] + Cardinality({})
    BY <1>2, <2>1
  <2>3. Cardinality({}) = 0
    BY FS_EmptySet
  <2>. QED  BY <1>1, <1>4, <2>2, <2>3
<1>. QED  BY <1>3, <1>4

\* Inserts that end together write no event outside their batches.
LEMMA WrittenElsewhere ==
  ASSUME TypeOK, NEW done, NEW e \in Event, \A i \in done : e \notin Events(i.batch)
  PROVE  Written(done)[e] = copies[e]
<1>1. copies[e] \in Nat
  BY DEF TypeOK
<1>2. Written(done)[e] = copies[e] + Cardinality({i \in done : e \in Events(i.batch)})
  BY DEF Written
<1>3. {i \in done : e \in Events(i.batch)} = {}
  OBVIOUS
<1>4. Written(done)[e] = copies[e] + Cardinality({})
  BY <1>2, <1>3
<1>5. Cardinality({}) = 0
  BY FS_EmptySet
<1>. QED  BY <1>1, <1>4, <1>5

\* What is settled, in flight or buffered is accepted, and none of it twice.
LEMMA PartsOfAccepted ==
  ASSUME IInv, AcceptedOnce
  PROVE  /\ \A w \in Workspaces : Events(settled[w]) \subseteq Events(accepted[w])
         /\ \A i \in inserts :
               /\ i.ws \in Workspaces /\ i.batch \in Seq(Event)
               /\ Events(i.batch) \subseteq Events(accepted[i.ws])
               /\ Events(i.batch) \cap Events(settled[i.ws]) = {}
<1>1. \A w \in Workspaces : settled[w] \in Seq(Event) /\ buffers[w] \in Seq(Event)
  BY DEF IInv, TypeOK
<1>2. ASSUME NEW i \in inserts
      PROVE  /\ i.ws \in Workspaces /\ i.batch \in Seq(Event)
             /\ Events(settled[i.ws]) \subseteq Events(accepted[i.ws])
             /\ Events(i.batch) \subseteq Events(accepted[i.ws])
             /\ Events(i.batch) \cap Events(settled[i.ws]) = {}
  <2> DEFINE s == settled[i.ws]
             t == i.batch \o buffers[i.ws]
  <2>1. i.ws \in Workspaces /\ i.batch \in Seq(Event)
    BY DEF IInv, TypeOK, Insert
  <2>2. s \in Seq(Event) /\ t \in Seq(Event)
    BY <1>1, <2>1, ConcatType
  <2>3. accepted[i.ws] = s \o t
    BY DEF IInv, NothingLost
  <2>4. Events(t) = Events(i.batch) \cup Events(buffers[i.ws])
    BY <1>1, <2>1, EventsOfConcat
  <2>5. NoRepeats(accepted[i.ws])
    BY <2>1 DEF AcceptedOnce
  <2> HIDE DEF s, t
  <2>6. Events(accepted[i.ws]) = Events(s) \cup Events(t)
    BY <2>2, <2>3, EventsOfConcat
  <2>7. Events(s) \cap Events(t) = {}
    BY <2>2, <2>3, <2>5, PartsAreDisjoint
  <2>. QED  BY <2>1, <2>4, <2>6, <2>7 DEF s
<1>3. ASSUME NEW w \in Workspaces
      PROVE  Events(settled[w]) \subseteq Events(accepted[w])
  <2>1. CASE w \in flushingWorkspaces
    BY <1>2, <2>1 DEF IInv, OneInsertPerWorkspace
  <2>2. CASE w \notin flushingWorkspaces
    <3>1. accepted[w] = settled[w] \o buffers[w]
      BY <2>2 DEF IInv, NothingLost
    <3>. QED  BY <1>1, <3>1, EventsOfConcat
  <2>. QED  BY <2>1, <2>2
<1>. QED  BY <1>2, <1>3

\* An event is its request and its index.
LEMMA EventParts ==
  \A e \in Event : /\ e = <<e[1], e[2]>> /\ e[1] \in Requests
                   /\ e[2] \in 1..NumEvents[e[1]]
BY DEF Event

\* Nothing is accepted and nothing written at the start.
LEMMA InitOnce == Init => OnceInv
<1> SUFFICES ASSUME Init PROVE OnceInv
  OBVIOUS
<1>1. \A w \in Workspaces : accepted[w] = <<>> /\ settled[w] = <<>>
  BY DEF Init, EmptyBuffers
<1>2. AcceptedOnce
  BY <1>1 DEF AcceptedOnce, NoRepeats, Events
<1>3. UnwrittenBeforePush
  BY ConstantsAssumption DEF Init, UnwrittenBeforePush, Event
<1>4. ExactlyOnceUnlessDoubtful
  BY DEF Init, ExactlyOnceUnlessDoubtful
<1>. QED  BY <1>2, <1>3, <1>4 DEF OnceInv

\* add() accepts an event that was neither accepted nor written before.
LEMMA AddOnce ==
  ASSUME IInv, OnceInv, NEW r \in Requests, Add(r)
  PROVE  OnceInv'
<1> DEFINE w == WorkspaceOf[r]
           k == pushed[r] + 1
           e == <<r, k>>
<1>1. /\ w \in Workspaces
      /\ \A q \in Requests : NumEvents[q] \in Nat /\ pushed[q] \in Nat
      /\ k \in Nat /\ k <= NumEvents[r] /\ k > pushed[r]
  <2>1. w \in Workspaces /\ \A q \in Requests : NumEvents[q] \in Nat
    BY ConstantsAssumption
  <2>2. \A q \in Requests : pushed[q] \in Nat
    BY DEF IInv, TypeOK
  <2>3. pushed[r] < NumEvents[r]
    BY DEF Add, IInv, TypeOK
  <2>. QED  BY <2>1, <2>2, <2>3
<1>2. e \in Event
  BY <1>1, EventPair
<1>3. /\ accepted' = [accepted EXCEPT ![w] = Append(@, e)]
      /\ pushed' = [pushed EXCEPT ![r] = k]
      /\ UNCHANGED <<copies, settled, doubtful>>
  BY DEF Add
<1>4. e[1] = r /\ e[2] = k
  OBVIOUS
<1>5. /\ accepted \in [Workspaces -> Seq(Event)]
      /\ pushed \in [Requests -> Nat]
      /\ accepted[w] \in Seq(Event)
  BY <1>1 DEF IInv, TypeOK
<1> HIDE DEF w, e, k
<1>6. e \notin Events(accepted[w])
  BY <1>1, <1>4 DEF OnceInv, AcceptedOnce
<1>7. /\ NoRepeats(Append(accepted[w], e))
      /\ Events(Append(accepted[w], e)) = Events(accepted[w]) \cup {e}
  BY <1>1, <1>2, <1>5, <1>6, AppendKeepsNoRepeats DEF OnceInv, AcceptedOnce
<1>8. /\ pushed'[r] = k
      /\ \A q \in Requests : q # r => pushed'[q] = pushed[q]
      /\ \A q \in Requests : pushed'[q] \in Nat /\ pushed[q] <= pushed'[q]
  BY <1>1, <1>3, <1>5
<1>9. AcceptedOnce'
  <2> SUFFICES ASSUME NEW v \in Workspaces
               PROVE  /\ NoRepeats(accepted'[v])
                      /\ \A f \in Events(accepted'[v]) :
                            WorkspaceOf[f[1]] = v /\ f[2] <= pushed'[f[1]]
    BY DEF AcceptedOnce
  <2>1. ASSUME NEW f \in Events(accepted[v])
        PROVE  WorkspaceOf[f[1]] = v /\ f[2] <= pushed'[f[1]]
    <3>1. WorkspaceOf[f[1]] = v /\ f[2] <= pushed[f[1]]
      BY DEF OnceInv, AcceptedOnce
    <3>2. f \in Event
      BY EventsType DEF IInv, TypeOK
    <3>3. f[1] \in Requests /\ f[2] \in Nat
      BY <1>1, <3>2, EventParts
    <3>. QED  BY <1>1, <1>8, <3>1, <3>3
  <2>2. CASE v = w
    <3>1. accepted'[v] = Append(accepted[w], e)
      BY <1>3, <1>5, <2>2
    <3>2. WorkspaceOf[e[1]] = v /\ e[2] <= pushed'[e[1]]
      BY <1>1, <1>4, <1>8, <2>2 DEF w
    <3>. QED  BY <1>7, <2>1, <2>2, <3>1, <3>2
  <2>3. CASE v # w
    <3>1. accepted'[v] = accepted[v]
      BY <1>3, <1>5, <2>3
    <3>. QED  BY <2>1, <3>1 DEF OnceInv, AcceptedOnce
  <2>. QED  BY <2>2, <2>3
<1>10. UnwrittenBeforePush'
  BY <1>1, <1>3, <1>8 DEF OnceInv, UnwrittenBeforePush
<1>11. ExactlyOnceUnlessDoubtful'
  <2> SUFFICES ASSUME NEW q \in Requests, NEW m \in 1..pushed'[q],
                      <<q, m>> \notin doubtful
               PROVE  copies[<<q, m>>] =
                        (IF <<q, m>> \in Events(settled[WorkspaceOf[q]]) THEN 1 ELSE 0)
    BY <1>3 DEF ExactlyOnceUnlessDoubtful
  <2>1. CASE m <= pushed[q]
    BY <1>1, <2>1 DEF OnceInv, ExactlyOnceUnlessDoubtful
  <2>2. CASE m > pushed[q]
    <3>1. q = r /\ m = k
      BY <1>1, <1>8, <2>2 DEF k
    <3>2. copies[e] = 0
      BY <1>1 DEF OnceInv, UnwrittenBeforePush, e
    <3>3. Events(settled[w]) \subseteq Events(accepted[w])
      BY <1>1, PartsOfAccepted DEF OnceInv
    <3>. QED  BY <1>6, <3>1, <3>2, <3>3 DEF e, w
  <2>. QED  BY <1>1, <1>8, <2>1, <2>2
<1>. QED  BY <1>9, <1>10, <1>11 DEF OnceInv

\* Writing counts toward the events of a batch; those are pushed events of its
\* workspace.
LEMMA BatchIsPushed ==
  ASSUME IInv, OnceInv, NEW i \in inserts, NEW r \in Requests, NEW k \in 1..NumEvents[r],
         <<r, k>> \in Events(i.batch)
  PROVE  WorkspaceOf[r] = i.ws /\ k <= pushed[r]
<1>1. i.ws \in Workspaces /\ <<r, k>> \in Events(accepted[i.ws])
  BY PartsOfAccepted DEF OnceInv
<1>. QED  BY <1>1 DEF OnceInv, AcceptedOnce

\* A successful insert writes once what it settles and had not been settled.
LEMMA InsertSucceedsOnce ==
  ASSUME IInv, OnceInv, NEW i \in inserts, InsertSucceeds(i)
  PROVE  OnceInv'
<1>1. /\ settled' = [settled EXCEPT ![i.ws] = @ \o i.batch]
      /\ copies' = Written({i})
      /\ UNCHANGED <<pushed, accepted, doubtful>>
  BY DEF InsertSucceeds
<1>2. i.ws \in Workspaces /\ i.batch \in Seq(Event)
  BY PartsOfAccepted DEF OnceInv
<1>3. AcceptedOnce'
  BY <1>1 DEF OnceInv, AcceptedOnce
<1>4. \A r \in Requests : \A k \in 1..NumEvents[r] : <<r, k>> \in Event
  BY DEF Event
<1>5. UnwrittenBeforePush'
  <2> SUFFICES ASSUME NEW r \in Requests, NEW k \in 1..NumEvents[r], k > pushed[r]
               PROVE  copies'[<<r, k>>] = 0
    BY <1>1 DEF UnwrittenBeforePush
  <2>1. <<r, k>> \notin Events(i.batch)
    <3>1. pushed[r] \in Nat /\ NumEvents[r] \in Nat
      BY ConstantsAssumption DEF IInv, TypeOK
    <3>. QED  BY <3>1, BatchIsPushed
  <2>2. copies'[<<r, k>>] = copies[<<r, k>>]
    BY <1>1, <1>4, <2>1, WrittenByOne DEF IInv
  <2>. QED  BY <2>2 DEF OnceInv, UnwrittenBeforePush
<1>6. ExactlyOnceUnlessDoubtful'
  <2> SUFFICES ASSUME NEW r \in Requests, NEW k \in 1..pushed[r], <<r, k>> \notin doubtful
               PROVE  copies'[<<r, k>>] =
                        (IF <<r, k>> \in Events(settled'[WorkspaceOf[r]]) THEN 1 ELSE 0)
    BY <1>1 DEF ExactlyOnceUnlessDoubtful
  <2> DEFINE e == <<r, k>>
             v == WorkspaceOf[r]
  <2>1. k \in 1..NumEvents[r] /\ v \in Workspaces
    BY ConstantsAssumption DEF IInv, TypeOK
  <2>2. e \in Event
    BY <1>4, <2>1
  <2>3. copies[e] = IF e \in Events(settled[v]) THEN 1 ELSE 0
    BY DEF OnceInv, ExactlyOnceUnlessDoubtful
  <2>4. e \in Events(i.batch) => v = i.ws
    BY <2>1, BatchIsPushed
  <2>5. copies'[e] = IF e \in Events(i.batch) THEN copies[e] + 1 ELSE copies[e]
    BY <1>1, <2>2, WrittenByOne DEF IInv
  <2>6. settled[v] \in Seq(Event) /\ settled \in [Workspaces -> Seq(Event)]
    BY <2>1 DEF IInv, TypeOK
  <2>7. CASE v = i.ws
    <3>1. Events(settled'[v]) = Events(settled[v]) \cup Events(i.batch)
      BY <1>1, <1>2, <2>6, <2>7, EventsOfConcat
    <3>2. Events(i.batch) \cap Events(settled[v]) = {}
      BY <2>7, PartsOfAccepted DEF OnceInv
    <3>. QED  BY <2>3, <2>5, <3>1, <3>2
  <2>8. CASE v # i.ws
    <3>1. settled'[v] = settled[v]
      BY <1>1, <2>1, <2>6, <2>8
    <3>. QED  BY <2>3, <2>4, <2>5, <2>8, <3>1
  <2>. QED  BY <2>7, <2>8
<1>. QED  BY <1>3, <1>5, <1>6 DEF OnceInv

\* A failed insert writes nothing, or only what becomes doubtful.
LEMMA InsertFailsOnce ==
  ASSUME IInv, OnceInv, NEW i \in inserts, NEW written \in BOOLEAN,
         InsertFails(i, written)
  PROVE  OnceInv'
<1>1. /\ copies' = IF written THEN Written({i}) ELSE copies
      /\ doubtful' = IF written THEN doubtful \cup Events(i.batch) ELSE doubtful
      /\ UNCHANGED <<pushed, accepted, settled>>
  BY DEF InsertFails
<1>2. \A r \in Requests : \A k \in 1..NumEvents[r] : <<r, k>> \in Event
  BY DEF Event
<1>3. \A r \in Requests : pushed[r] \in Nat /\ NumEvents[r] \in Nat
                          /\ pushed[r] <= NumEvents[r]
  BY ConstantsAssumption DEF IInv, TypeOK
<1>4. ASSUME NEW r \in Requests, NEW k \in 1..NumEvents[r],
             <<r, k>> \notin Events(i.batch)
      PROVE  copies'[<<r, k>>] = copies[<<r, k>>]
  <2>1. <<r, k>> \in Event
    BY <1>2
  <2>2. Written({i})[<<r, k>>] = copies[<<r, k>>]
    BY <1>4, <2>1, WrittenByOne DEF IInv
  <2>. QED  BY <1>1, <2>2
<1>5. UnwrittenBeforePush'
  <2> SUFFICES ASSUME NEW r \in Requests, NEW k \in 1..NumEvents[r], k > pushed[r]
               PROVE  copies'[<<r, k>>] = 0
    BY <1>1 DEF UnwrittenBeforePush
  <2>1. <<r, k>> \notin Events(i.batch)
    BY <1>3, BatchIsPushed
  <2>. QED  BY <1>4, <2>1 DEF OnceInv, UnwrittenBeforePush
<1>6. ExactlyOnceUnlessDoubtful'
  <2> SUFFICES ASSUME NEW r \in Requests, NEW k \in 1..pushed[r], <<r, k>> \notin doubtful'
               PROVE  copies'[<<r, k>>] =
                        (IF <<r, k>> \in Events(settled[WorkspaceOf[r]]) THEN 1 ELSE 0)
    BY <1>1 DEF ExactlyOnceUnlessDoubtful
  <2>1. k \in 1..NumEvents[r] /\ <<r, k>> \notin doubtful
    BY <1>1, <1>3
  <2>2. copies'[<<r, k>>] = copies[<<r, k>>]
    <3>1. CASE written
      BY <1>1, <1>4, <2>1, <3>1
    <3>2. CASE ~written
      BY <1>1, <3>2
    <3>. QED  BY <3>1, <3>2
  <2>. QED  BY <2>1, <2>2 DEF OnceInv, ExactlyOnceUnlessDoubtful
<1>. QED  BY <1>1, <1>5, <1>6 DEF OnceInv, AcceptedOnce

\* A crash leaves doubtful whatever it may have written.
LEMMA CrashOnce ==
  ASSUME IInv, OnceInv, Crash
  PROVE  OnceInv'
<1>1. accepted' = settled /\ UNCHANGED <<pushed, settled>>
  BY DEF Crash
<1>2. PICK done \in SUBSET inserts :
         /\ copies' = Written(done)
         /\ doubtful' = doubtful \cup UNION {Events(i.batch) : i \in done}
  BY DEF Crash
<1>3. \A r \in Requests : pushed[r] \in Nat /\ NumEvents[r] \in Nat
                          /\ pushed[r] <= NumEvents[r]
  BY ConstantsAssumption DEF IInv, TypeOK
<1>4. ASSUME NEW r \in Requests, NEW k \in 1..NumEvents[r],
             \A i \in done : <<r, k>> \notin Events(i.batch)
      PROVE  copies'[<<r, k>>] = copies[<<r, k>>]
  <2>1. <<r, k>> \in Event
    BY DEF Event
  <2>. QED  BY <1>2, <1>4, <2>1, WrittenElsewhere DEF IInv
<1>5. UnwrittenBeforePush'
  <2> SUFFICES ASSUME NEW r \in Requests, NEW k \in 1..NumEvents[r], k > pushed[r]
               PROVE  copies'[<<r, k>>] = 0
    BY <1>1 DEF UnwrittenBeforePush
  <2>1. \A i \in done : <<r, k>> \notin Events(i.batch)
    BY <1>2, <1>3, BatchIsPushed
  <2>. QED  BY <1>4, <2>1 DEF OnceInv, UnwrittenBeforePush
<1>6. ExactlyOnceUnlessDoubtful'
  <2> SUFFICES ASSUME NEW r \in Requests, NEW k \in 1..pushed[r], <<r, k>> \notin doubtful'
               PROVE  copies'[<<r, k>>] =
                        (IF <<r, k>> \in Events(settled[WorkspaceOf[r]]) THEN 1 ELSE 0)
    BY <1>1 DEF ExactlyOnceUnlessDoubtful
  <2>1. k \in 1..NumEvents[r] /\ <<r, k>> \notin doubtful
    BY <1>2, <1>3
  <2>2. \A i \in done : <<r, k>> \notin Events(i.batch)
    BY <1>2
  <2>. QED  BY <1>4, <2>1, <2>2 DEF OnceInv, ExactlyOnceUnlessDoubtful
<1>7. AcceptedOnce'
  <2> SUFFICES ASSUME NEW w \in Workspaces
               PROVE  /\ NoRepeats(settled[w])
                      /\ \A e \in Events(settled[w]) :
                            WorkspaceOf[e[1]] = w /\ e[2] <= pushed[e[1]]
    BY <1>1 DEF AcceptedOnce
  <2>1. \E t \in Seq(Event) : accepted[w] = settled[w] \o t
    <3>1. CASE w \in flushingWorkspaces
      <4>1. PICK i \in inserts : i.ws = w
        BY <3>1 DEF IInv, OneInsertPerWorkspace
      <4>2. i.batch \in Seq(Event) /\ buffers[w] \in Seq(Event)
        BY DEF IInv, TypeOK, Insert
      <4>3. i.batch \o buffers[w] \in Seq(Event)
        BY <4>2, ConcatType
      <4>. QED  BY <4>1, <4>3 DEF IInv, NothingLost
    <3>2. CASE w \notin flushingWorkspaces
      BY <3>2 DEF IInv, TypeOK, NothingLost
    <3>. QED  BY <3>1, <3>2
  <2>2. PICK t \in Seq(Event) : accepted[w] = settled[w] \o t
    BY <2>1
  <2>3. settled[w] \in Seq(Event)
    BY DEF IInv, TypeOK
  <2>4. NoRepeats(settled[w] \o t)
    BY <2>2 DEF OnceInv, AcceptedOnce
  <2>5. NoRepeats(settled[w])
    <3> DEFINE s == settled[w]
    <3>1. s \in Seq(Event)
      BY <2>3
    <3> HIDE DEF s
    <3>2. /\ DOMAIN s = 1..Len(s) /\ Len(s) \in Nat /\ Len(t) \in Nat
          /\ DOMAIN (s \o t) = 1..(Len(s) + Len(t))
          /\ \A n \in 1..Len(s) : (s \o t)[n] = s[n]
      BY <3>1, ConcatProperties
    <3>3. NoRepeats(s \o t)
      BY <2>4 DEF s
    <3>4. NoRepeats(s)
      BY <3>2, <3>3 DEF NoRepeats
    <3>. QED  BY <3>4 DEF s
  <2>6. Events(settled[w]) \subseteq Events(accepted[w])
    BY PartsOfAccepted DEF OnceInv
  <2>. QED  BY <2>5, <2>6 DEF OnceInv, AcceptedOnce
<1>. QED  BY <1>5, <1>6, <1>7 DEF OnceInv

\* A step that neither accepts nor writes nor settles anything.
LEMMA ElsewhereOnce ==
  ASSUME OnceInv, UNCHANGED <<accepted, settled, doubtful, copies, pushed>>
  PROVE  OnceInv'
BY DEF OnceInv, AcceptedOnce, UnwrittenBeforePush, ExactlyOnceUnlessDoubtful

\* The count of copies is inductive on top of the accounting.
LEMMA NextOnce == IInv /\ OnceInv /\ [Next]_vars => OnceInv'
<1> SUFFICES ASSUME IInv, OnceInv, [Next]_vars PROVE OnceInv'
  OBVIOUS
<1>1. ASSUME NEW r \in Requests, Add(r) PROVE OnceInv'
  BY <1>1, AddOnce
<1>2. ASSUME NEW w \in Workspaces, TimerFires(w) \/ ExplicitFlush(w) PROVE OnceInv'
  BY <1>2, ElsewhereOnce DEF TimerFires, ExplicitFlush, requestVars, historyVars
<1>3. ASSUME NEW w \in Workspaces, InsertReturns(w) PROVE OnceInv'
  BY <1>3, InsertSucceedsOnce, InsertFailsOnce DEF InsertReturns
<1>4. CASE OnModuleDestroy
  BY <1>4, ElsewhereOnce DEF OnModuleDestroy, requestVars
<1>5. CASE Crash
  BY <1>5, CrashOnce
<1>6. CASE Restart
  BY <1>6, ElsewhereOnce DEF Restart, requestVars, historyVars
<1>7. CASE UNCHANGED vars
  BY <1>7, ElsewhereOnce DEF vars, requestVars, historyVars
<1>. QED  BY <1>1, <1>2, <1>3, <1>4, <1>5, <1>6, <1>7 DEF Next

\* Retries, shutdowns and crashes alone write no event twice and none before it is
\* settled: whatever is in ClickHouse more or less than once went there with an insert
\* that was not reported successful.
THEOREM EventsAreWrittenOnce == Spec => []ExactlyOnceUnlessDoubtful
<1>1. Init => OnceInv
  BY InitOnce
<1>2. IInv /\ OnceInv /\ [Next]_vars => OnceInv'
  BY NextOnce
<1>3. OnceInv => ExactlyOnceUnlessDoubtful
  BY DEF OnceInv
<1>. QED  BY <1>1, <1>2, <1>3, Invariance, PTL DEF Spec

-----------------------------------------------------------------------------
(* Shutdown. *)

\* What onModuleDestroy found in an idle workspace is settled or in one of the
\* inserts it started, until one of these fails.
DestroyAwaits ==
  phase = "destroying" =>
    \A w \in Workspaces :
       ~due[w].busy =>
         \/ Events(due[w].events) \subseteq Events(settled[w])
         \/ \E i \in inserts :
               /\ i.by = "destroy" /\ i.ws = w
               /\ Events(due[w].events) \subseteq Events(i.batch)

DestroyInv == DestroyAwaits /\ DestroyFlushesIdle

\* onModuleDestroy starts an insert for every idle workspace that has events.
LEMMA OnModuleDestroyStarts ==
  ASSUME IInv, OnModuleDestroy
  PROVE  DestroyInv'
<1> DEFINE flushed == {w \in Workspaces : CanFlush(w, buffers[w])}
           new(w) == [ws |-> w, batch |-> buffers[w], by |-> "destroy"]
<1>1. /\ inserts' = inserts \cup {new(w) : w \in flushed}
      /\ phase' = IF flushed = {} THEN "destroyed" ELSE "destroying"
      /\ due' = [w \in Workspaces |->
                   [events |-> buffers[w], busy |-> w \in flushingWorkspaces]]
  BY DEF OnModuleDestroy
<1>2. \A w \in Workspaces :
         ~due'[w].busy => w \in flushed \/ due'[w].events = <<>>
  BY <1>1 DEF CanFlush
<1>3. Events(<<>>) = {}
  BY DEF Events
<1>4. \A w \in flushed : /\ new(w).by = "destroy" /\ new(w).ws = w
                         /\ new(w).batch = buffers[w] /\ due'[w].events = buffers[w]
  BY <1>1
<1>5. DestroyFlushesIdle'
  BY <1>1, <1>2, <1>3 DEF DestroyFlushesIdle
<1> HIDE DEF flushed, new
<1>6. DestroyAwaits'
  <2> SUFFICES ASSUME NEW w \in Workspaces, ~due'[w].busy
               PROVE  \/ Events(due'[w].events) \subseteq Events(settled'[w])
                      \/ \E i \in inserts' :
                            /\ i.by = "destroy" /\ i.ws = w
                            /\ Events(due'[w].events) \subseteq Events(i.batch)
    BY DEF DestroyAwaits
  <2>1. CASE w \in flushed
    <3>1. new(w) \in inserts'
      BY <1>1, <2>1
    <3>2. /\ new(w).by = "destroy" /\ new(w).ws = w
          /\ Events(due'[w].events) \subseteq Events(new(w).batch)
      BY <1>4, <2>1
    <3>. QED  BY <3>1, <3>2
  <2>2. CASE due'[w].events = <<>>
    BY <1>3, <2>2
  <2>. QED  BY <1>2, <2>1, <2>2
<1>. QED  BY <1>5, <1>6 DEF DestroyInv

\* A successful insert settles its batch; the last one of onModuleDestroy ends it.
LEMMA InsertSucceedsAwaited ==
  ASSUME IInv, DestroyInv, NEW i \in inserts, InsertSucceeds(i)
  PROVE  DestroyInv'
<1>1. /\ inserts' = inserts \ {i}
      /\ settled' = [settled EXCEPT ![i.ws] = @ \o i.batch]
      /\ phase' = IF phase = "destroying" /\ DestroyEnds(i) THEN "destroyed" ELSE phase
      /\ UNCHANGED due
  BY DEF InsertSucceeds, InsertEnds
<1>2. i.ws \in Workspaces /\ i.batch \in Seq(Event)
  BY DEF IInv, TypeOK, Insert
<1>3. \A w \in Workspaces :
         /\ Events(settled[w]) \subseteq Events(settled'[w])
         /\ w = i.ws => Events(i.batch) \subseteq Events(settled'[w])
  <2> SUFFICES ASSUME NEW w \in Workspaces
               PROVE  /\ Events(settled[w]) \subseteq Events(settled'[w])
                      /\ w = i.ws => Events(i.batch) \subseteq Events(settled'[w])
    OBVIOUS
  <2>1. settled[w] \in Seq(Event) /\ settled \in [Workspaces -> Seq(Event)]
    BY DEF IInv, TypeOK
  <2>2. CASE w = i.ws
    <3>1. settled'[w] = settled[w] \o i.batch
      BY <1>1, <2>1, <2>2
    <3>. QED  BY <1>2, <2>1, <3>1, EventsOfConcat
  <2>3. CASE w # i.ws
    BY <1>1, <2>1, <2>3
  <2>. QED  BY <2>2, <2>3
<1>4. ASSUME phase = "destroying", NEW w \in Workspaces, ~due[w].busy
      PROVE  \/ Events(due[w].events) \subseteq Events(settled'[w])
             \/ \E j \in inserts' :
                   /\ j.by = "destroy" /\ j.ws = w
                   /\ Events(due[w].events) \subseteq Events(j.batch)
  BY <1>1, <1>3, <1>4 DEF DestroyInv, DestroyAwaits
<1>5. DestroyAwaits'
  BY <1>1, <1>4 DEF DestroyAwaits
<1>6. DestroyFlushesIdle'
  <2>1. CASE phase = "destroying" /\ DestroyEnds(i)
    <3>1. \A j \in inserts' : j.by # "destroy"
      BY <1>1, <2>1 DEF DestroyEnds
    <3>. QED  BY <1>1, <1>4, <2>1, <3>1 DEF DestroyFlushesIdle
  <2>2. CASE ~(phase = "destroying" /\ DestroyEnds(i))
    BY <1>1, <1>3, <2>2 DEF DestroyInv, DestroyFlushesIdle
  <2>. QED  BY <2>1, <2>2
<1>. QED  BY <1>5, <1>6 DEF DestroyInv

\* The failure of an insert that onModuleDestroy awaits makes it fail; another one
\* changes nothing it waits for.
LEMMA InsertFailsAwaited ==
  ASSUME IInv, DestroyInv, NEW i \in inserts, NEW written \in BOOLEAN,
         InsertFails(i, written)
  PROVE  DestroyInv'
<1>1. /\ inserts' = inserts \ {i}
      /\ phase' = IF phase = "destroying" /\ i.by = "destroy"
                  THEN "destroyFailed" ELSE phase
      /\ UNCHANGED <<settled, due>>
  BY DEF InsertFails, InsertEnds
<1>. QED  BY <1>1 DEF DestroyInv, DestroyAwaits, DestroyFlushesIdle

\* Starting inserts leaves those that are awaited.
LEMMA MoreInsertsAwaited ==
  ASSUME DestroyInv, inserts \subseteq inserts', UNCHANGED <<phase, settled, due>>
  PROVE  DestroyInv'
BY DEF DestroyInv, DestroyAwaits, DestroyFlushesIdle

\* Flushing starts at most one insert and ends none.
LEMMA StartFlushAdds ==
  ASSUME NEW w, NEW buf, NEW by, StartFlush(w, buf, by)
  PROVE  inserts \subseteq inserts'
BY DEF StartFlush

\* What onModuleDestroy awaits is inductive on top of the accounting.
LEMMA NextDestroy == IInv /\ DestroyInv /\ [Next]_vars => DestroyInv'
<1> SUFFICES ASSUME IInv, DestroyInv, [Next]_vars PROVE DestroyInv'
  OBVIOUS
<1>1. ASSUME NEW r \in Requests, Add(r) PROVE DestroyInv'
  <2>1. inserts \subseteq inserts'
    BY <1>1, StartFlushAdds DEF Add
  <2>. QED  BY <1>1, <2>1, MoreInsertsAwaited DEF Add
<1>2. ASSUME NEW w \in Workspaces, TimerFires(w) \/ ExplicitFlush(w) PROVE DestroyInv'
  <2>1. inserts \subseteq inserts'
    BY <1>2, StartFlushAdds DEF TimerFires, ExplicitFlush
  <2>. QED  BY <1>2, <2>1, MoreInsertsAwaited DEF TimerFires, ExplicitFlush, historyVars
<1>3. ASSUME NEW w \in Workspaces, InsertReturns(w) PROVE DestroyInv'
  BY <1>3, InsertSucceedsAwaited, InsertFailsAwaited DEF InsertReturns
<1>4. CASE OnModuleDestroy
  BY <1>4, OnModuleDestroyStarts
<1>5. CASE Crash
  BY <1>5 DEF Crash, DestroyInv, DestroyAwaits, DestroyFlushesIdle
<1>6. CASE Restart
  BY <1>6 DEF Restart, DestroyInv, DestroyAwaits, DestroyFlushesIdle
<1>7. CASE UNCHANGED vars
  BY <1>7, MoreInsertsAwaited DEF vars, bufferVars, historyVars
<1>. QED  BY <1>1, <1>2, <1>3, <1>4, <1>5, <1>6, <1>7 DEF Next

\* When onModuleDestroy has resolved, what it found in idle workspaces is settled.
THEOREM DestroyFlushesWhatIsIdle == Spec => []DestroyFlushesIdle
<1>1. Init => DestroyInv
  BY DEF Init, DestroyInv, DestroyAwaits, DestroyFlushesIdle
<1>2. IInv /\ DestroyInv /\ [Next]_vars => DestroyInv'
  BY NextDestroy
<1>3. DestroyInv => DestroyFlushesIdle
  BY DEF DestroyInv
<1>. QED  BY <1>1, <1>2, <1>3, Invariance, PTL DEF Spec

-----------------------------------------------------------------------------
(* Delivery: the greatest of some numbers. *)

\* Numbered values have a greatest one, the last of those that are equal: of sets without one, none
\* would be the smallest, and finite sets are well founded.
LEMMA LastGreatest ==
  ASSUME NEW n \in Nat, NEW K \in SUBSET (1..n), K # {}, NEW v, \A i \in K : v[i] \in Int
  PROVE  \E k \in K : \A j \in K : v[j] < v[k] \/ (v[j] = v[k] /\ j <= k)
<1> DEFINE Greatest(S) == \E k \in S : \A j \in S : v[j] < v[k] \/ (v[j] = v[k] /\ j <= k)
           F == {S \in SUBSET K : S # {} /\ ~Greatest(S)}
<1>1. F = {}
  <2> SUFFICES ASSUME F # {} PROVE FALSE
    OBVIOUS
  <2>1. PICK S \in F : \A R \in F : ~(<<R, S>> \in StrictSubsetOrdering(1..n))
    <3>1. IsWellFoundedOn(StrictSubsetOrdering(1..n), FiniteSubsetsOf(1..n))
      BY FS_StrictSubsetOrderingWellFounded
    <3>2. F \subseteq FiniteSubsetsOf(1..n)
      <4>1. IsFiniteSet(1..n)
        BY FS_Interval
      <4>2. \A S \in SUBSET (1..n) : IsFiniteSet(S)
        BY <4>1, FS_Subset
      <4>3. F \subseteq SUBSET (1..n)
        OBVIOUS
      <4> HIDE DEF F
      <4> QED BY <4>2, <4>3 DEF FiniteSubsetsOf
    <3> HIDE DEF F
    <3> QED BY <3>1, <3>2, WFMin
  <2>2. S \in SUBSET K /\ S # {} /\ ~Greatest(S)
    OBVIOUS
  <2>3. PICK x \in S : TRUE
    BY <2>2
  <2> DEFINE R == S \ {x}
  <2>4. R \in SUBSET K /\ x \in Int /\ v[x] \in Int /\ \A j \in S : j \in Int /\ v[j] \in Int
    BY <2>2, <2>3
  <2>5. <<R, S>> \in StrictSubsetOrdering(1..n)
    BY <2>2, <2>3 DEF StrictSubsetOrdering
  <2>6. R = {} \/ Greatest(R)
    <3>1. R \notin F
      <4> HIDE DEF F, R
      <4> QED BY <2>1, <2>5
    <3> HIDE DEF Greatest, R
    <3> QED BY <2>4, <3>1
  <2>7. ASSUME R = {} PROVE Greatest(S)
    <3>1. \A j \in S : j = x
      BY <2>7
    <3> QED BY <2>3, <2>4, <3>1
  <2>8. ASSUME Greatest(R) PROVE Greatest(S)
    <3>1. PICK k \in R : \A j \in R : v[j] < v[k] \/ (v[j] = v[k] /\ j <= k)
      BY <2>8
    <3>2. CASE v[x] < v[k] \/ (v[x] = v[k] /\ x <= k)
      <4>1. \A j \in S : v[j] < v[k] \/ (v[j] = v[k] /\ j <= k)
        BY <3>1, <3>2
      <4> QED BY <4>1
    <3>3. CASE ~(v[x] < v[k] \/ (v[x] = v[k] /\ x <= k))
      <4>1. k \in S /\ (v[k] < v[x] \/ (v[k] = v[x] /\ k <= x))
        BY <2>4, <3>3
      <4>2. \A j \in S : v[j] < v[x] \/ (v[j] = v[x] /\ j <= x)
        <5> TAKE j \in S
        <5>1. CASE j = x
          BY <2>4, <5>1
        <5>2. CASE j # x
          <6>1. v[j] < v[k] \/ (v[j] = v[k] /\ j <= k)
            BY <3>1, <5>2
          <6> QED BY <2>4, <4>1, <6>1
        <5> QED BY <5>1, <5>2
      <4> QED BY <2>3, <4>2
    <3> QED BY <3>2, <3>3
  <2> HIDE DEF Greatest
  <2> QED BY <2>2, <2>6, <2>7, <2>8
<1>2. Greatest(K)
  <2> HIDE DEF Greatest
  <2> QED BY <1>1
<1> QED BY <1>2

\* What Max is, when there is one.
LEMMA MaxIs ==
  ASSUME NEW S \in SUBSET Int, NEW x \in S, \A y \in S : y <= x
  PROVE  Max(S) = x
<1>1. \A y \in S : x >= y
  OBVIOUS
<1>2. Max(S) \in S /\ \A y \in S : Max(S) >= y
  BY <1>1 DEF Max
<1>3. Max(S) >= x /\ Max(S) <= x /\ Max(S) \in Int /\ x \in Int
  BY <1>2
<1> QED BY <1>3

-----------------------------------------------------------------------------
(* Delivery: what a block makes of a table. *)

\* The rows that count are those of the table and of the block.
LEMMA IntoAddsNothing ==
  ASSUME NEW table, NEW rows, NEW key
  PROVE  Into(table, rows, key) \subseteq table \cup {rows[i] : i \in DOMAIN rows}
BY DEF Into

\* A block of at most n rows, and a table that has one row of each key.
Keyed(n, rows, table, key) ==
  /\ n \in Nat /\ DOMAIN rows \in SUBSET (1..n) /\ \A i \in DOMAIN rows : rows[i].version \in Int
  /\ \A r \in table : r.version \in Int
  /\ \A r, s \in table : r[key] = s[key] => r = s

\* Each key has a row that counts.
LEMMA IntoKeepsKeys ==
  ASSUME NEW n, NEW rows, NEW table, NEW key, Keyed(n, rows, table, key),
         NEW x, (\E r \in table : r[key] = x) \/ \E i \in DOMAIN rows : rows[i][key] = x
  PROVE  \E q \in Into(table, rows, key) : q[key] = x
<1> USE DEF Keyed
<1> DEFINE D == DOMAIN rows
           T == Into(table, rows, key)
<1>1. ASSUME NEW i \in D PROVE \E q \in T : q[key] = rows[i][key]
  <2> DEFINE K == {j \in D : rows[j][key] = rows[i][key]}
             v == [j \in D |-> rows[j].version]
  <2>1. PICK k \in K : \A j \in K : v[j] < v[k] \/ (v[j] = v[k] /\ j <= k)
    <3>1. K \in SUBSET (1..n) /\ K # {} /\ \A j \in K : v[j] \in Int
      OBVIOUS
    <3> HIDE DEF K, v
    <3> QED BY <3>1, LastGreatest
  <2>2. k \in D /\ rows[k][key] = rows[i][key] /\ rows[k].version \in Int
    OBVIOUS
  <2>3. \A j \in D : rows[j][key] = rows[k][key] =>
          rows[j].version < rows[k].version \/ (rows[j].version = rows[k].version /\ j <= k)
    BY <2>1, <2>2
  <2>4. CASE \A r \in table : r[key] = rows[k][key] => r.version <= rows[k].version
    <3>1. rows[k] \in T
      BY <2>2, <2>3, <2>4 DEF Into
    <3> QED BY <2>2, <3>1
  <2>5. CASE \E r \in table : r[key] = rows[k][key] /\ ~(r.version <= rows[k].version)
    <3>1. PICK r \in table : r[key] = rows[k][key] /\ ~(r.version <= rows[k].version)
      BY <2>5
    <3>2. ASSUME NEW j \in D, rows[j][key] = r[key] PROVE rows[j].version < r.version
      <4>1. rows[j].version <= rows[k].version /\ rows[j].version \in Int /\ r.version \in Int
        BY <2>2, <2>3, <3>1, <3>2
      <4> QED BY <2>2, <3>1, <4>1
    <3>3. r \in T
      BY <3>2 DEF Into
    <3> QED BY <2>2, <3>1, <3>3
  <2> QED BY <2>4, <2>5
<1>2. ASSUME NEW r \in table PROVE \E q \in T : q[key] = r[key]
  <2>1. CASE \E i \in D : rows[i][key] = r[key]
    BY <1>1, <2>1
  <2>2. CASE \A i \in D : rows[i][key] # r[key]
    <3>1. r \in T
      BY <2>2 DEF Into
    <3> QED BY <3>1
  <2> QED BY <2>1, <2>2
<1> QED BY <1>1, <1>2

\* One row counts of each key.
LEMMA IntoIsOnePerKey ==
  ASSUME NEW n, NEW rows, NEW table, NEW key, Keyed(n, rows, table, key),
         NEW p \in Into(table, rows, key), NEW q \in Into(table, rows, key), p[key] = q[key]
  PROVE  p = q
<1> USE DEF Keyed
<1> DEFINE Newest(k) == /\ \A r \in table : r[key] = rows[k][key] => r.version <= rows[k].version
                        /\ \A j \in DOMAIN rows : rows[j][key] = rows[k][key] =>
                             rows[j].version < rows[k].version \/ (rows[j].version = rows[k].version /\ j <= k)
           Stays(r) == r \in table /\ \A i \in DOMAIN rows : rows[i][key] = r[key] => rows[i].version < r.version
<1>1. ASSUME NEW r \in Into(table, rows, key)
      PROVE  Stays(r) \/ \E k \in DOMAIN rows : r = rows[k] /\ Newest(k)
  BY DEF Into
<1>2. ASSUME NEW r, NEW k \in DOMAIN rows, Stays(r), Newest(k), r[key] = rows[k][key] PROVE FALSE
  <2>1. r.version \in Int /\ rows[k].version \in Int /\ rows[k].version < r.version /\ r.version <= rows[k].version
    BY <1>2
  <2> QED BY <2>1
<1>3. ASSUME NEW i \in DOMAIN rows, NEW k \in DOMAIN rows, Newest(i), Newest(k), rows[i][key] = rows[k][key] PROVE i = k
  <2>1. /\ rows[i].version < rows[k].version \/ (rows[i].version = rows[k].version /\ i <= k)
        /\ rows[k].version < rows[i].version \/ (rows[k].version = rows[i].version /\ k <= i)
        /\ rows[i].version \in Int /\ rows[k].version \in Int /\ i \in Int /\ k \in Int
    BY <1>3
  <2> QED BY <2>1
<1>4. ASSUME Stays(p), Stays(q) PROVE p = q
  BY <1>4
<1> HIDE DEF Stays, Newest
<1> QED BY <1>1, <1>2, <1>3, <1>4

-----------------------------------------------------------------------------
(* Delivery: types, and when payloads are under way. *)

PageType == [kind : {"pageview"}, number : Nat, at : Int, until : Int]
GoalType == [kind : {"goal"}, number : Nat, at : Int]
ActionType == PageType \cup GoalType
PayloadType ==
  [id : Nat, tab : Tabs, actions : Seq(ActionType), updated : Int, sentAt : Int, left : Nat, allowed : BOOLEAN]
EventType ==
  [token : {"pv", "goal"} \X Int, kind : {"pageview", "goal"}, number : Nat, of : Nat, created : Int,
   updated : Int, version : Nat, entered : Int, duration : Int]

DelTypes ==
  /\ time \in Nat /\ offset \in Int /\ sends \in Nat
  /\ actionLog \in [Tabs -> Seq(ActionType)]
  /\ wire \in SUBSET PayloadType /\ taken \in SUBSET PayloadType /\ inserted \in SUBSET taken
  /\ buffer \in Seq(EventType)
  /\ eventRows \in SUBSET EventType
  /\ \A r \in pages \cup goals : r.version \in Nat

\* Payloads are told apart by their ids, say something, and have been under way for a while at most.
UnderWay ==
  /\ \A m \in wire \cup taken : /\ m.id < sends /\ m.actions # <<>>
                                /\ m.sentAt = m.left + offset /\ m.left <= time
  /\ \A m \in wire : time - m.left <= MaxLatency
  /\ \A m, o \in wire \cup taken : m.id = o.id => m = o
  /\ wire \cap taken = {}

\* The number of the next page is greater than all there are.
LEMMA NextNumberIsNew ==
  ASSUME NEW h \in Seq(ActionType)
  PROVE  NextPageNumber(h) \in Nat /\ \A i \in DOMAIN h : h[i].number < NextPageNumber(h)
<1> DEFINE v == [i \in DOMAIN h |-> h[i].number]
           N == {h[i].number : i \in DOMAIN h} \cup {0}
<1>1. Len(h) \in Nat /\ DOMAIN h = 1..Len(h) /\ \A i \in DOMAIN h : h[i].number \in Nat
  BY DEF ActionType, PageType, GoalType
<1>2. N \in SUBSET Int /\ 0 \in N
  BY <1>1
<1>3. \E x \in N : x \in Nat /\ \A y \in N : y <= x
  <2>1. CASE DOMAIN h = {}
    BY <2>1
  <2>2. CASE DOMAIN h # {}
    <3>1. \E k \in DOMAIN h : \A j \in DOMAIN h : v[j] < v[k] \/ (v[j] = v[k] /\ j <= k)
      <4>1. DOMAIN h \in SUBSET (1..Len(h)) /\ \A i \in DOMAIN h : v[i] \in Int
        BY <1>1
      <4> HIDE DEF v
      <4> QED BY <1>1, <2>2, <4>1, LastGreatest
    <3>2. PICK k \in DOMAIN h : \A j \in DOMAIN h : v[j] < v[k] \/ (v[j] = v[k] /\ j <= k)
      BY <3>1
    <3>3. \A j \in DOMAIN h : h[j].number <= h[k].number
      BY <1>1, <3>2
    <3>4. h[k].number \in N /\ h[k].number \in Nat
      BY <1>1
    <3> QED BY <3>3, <3>4
  <2> QED BY <2>1, <2>2
<1>4. PICK x \in N : x \in Nat /\ \A y \in N : y <= x
  BY <1>3
<1>5. Max(N) = x
  <2> HIDE DEF N
  <2> QED BY <1>2, <1>4, MaxIs
<1>6. NextPageNumber(h) = x + 1
  BY <1>5 DEF NextPageNumber
<1>7. \A i \in DOMAIN h : h[i].number <= x
  BY <1>4
<1> HIDE DEF N
<1> QED BY <1>1, <1>4, <1>6, <1>7

\* Built changes the end of the page that is open, and no more.
LEMMA BuiltIs ==
  ASSUME DelTypes, NEW h \in Seq(ActionType)
  PROVE  /\ Built(h) \in Seq(ActionType) /\ Len(Built(h)) = Len(h) /\ DOMAIN Built(h) = DOMAIN h
         /\ \A i \in DOMAIN h :
              /\ Built(h)[i].kind = h[i].kind /\ Built(h)[i].number = h[i].number /\ Built(h)[i].at = h[i].at
              /\ IsCurrent(h, i) => Built(h)[i].until = BrowserTime
              /\ ~IsCurrent(h, i) => Built(h)[i] = h[i]
<1>1. Len(h) \in Nat /\ DOMAIN h = 1..Len(h) /\ \A i \in DOMAIN h : h[i] \in ActionType
  OBVIOUS
<1>2. BrowserTime \in Int
  BY DEF BrowserTime, DelTypes
<1>3. ASSUME NEW a \in PageType
      PROVE  /\ [a EXCEPT !.until = BrowserTime] \in PageType
             /\ [a EXCEPT !.until = BrowserTime].until = BrowserTime
             /\ [a EXCEPT !.until = BrowserTime].kind = a.kind
             /\ [a EXCEPT !.until = BrowserTime].number = a.number
             /\ [a EXCEPT !.until = BrowserTime].at = a.at
  BY <1>2 DEF PageType
<1>4. ASSUME NEW i \in DOMAIN h, IsCurrent(h, i) PROVE h[i] \in PageType
  BY <1>1, <1>4 DEF IsCurrent, ActionType, PageType, GoalType
<1> DEFINE b(i) == IF IsCurrent(h, i) THEN [h[i] EXCEPT !.until = BrowserTime] ELSE h[i]
<1>5. \A i \in 1..Len(h) : b(i) \in ActionType
  BY <1>1, <1>3, <1>4 DEF ActionType
<1>6. Built(h) = [i \in 1..Len(h) |-> b(i)]
  BY <1>1 DEF Built
<1>7. Built(h) \in Seq(ActionType)
  <2> HIDE DEF b
  <2> QED BY <1>1, <1>5, <1>6
<1>8. DOMAIN Built(h) = 1..Len(h) /\ \A i \in 1..Len(h) : Built(h)[i] = b(i)
  BY <1>6
<1>9. Len(Built(h)) = Len(h)
  <2>1. DOMAIN Built(h) = 1..Len(Built(h)) /\ Len(Built(h)) \in Nat
    BY <1>7
  <2> QED BY <1>1, <1>8, <2>1
<1>10. ASSUME NEW i \in DOMAIN h
       PROVE  /\ Built(h)[i].kind = h[i].kind /\ Built(h)[i].number = h[i].number /\ Built(h)[i].at = h[i].at
              /\ IsCurrent(h, i) => Built(h)[i].until = BrowserTime
              /\ ~IsCurrent(h, i) => Built(h)[i] = h[i]
  BY <1>1, <1>3, <1>4, <1>8
<1> QED BY <1>1, <1>7, <1>8, <1>9, <1>10

\* An event of a payload is one.
LEMMA EventsOfAPayload ==
  ASSUME DelTypes, DeliveryAssumption, NEW m \in PayloadType
  PROVE  /\ Skew(m) \in Int
         /\ \A a \in ActionType : ActionEvent(a, m) \in EventType
         /\ Deserialized(m) \in Seq(EventType) /\ Len(Deserialized(m)) = Len(m.actions)
         /\ \A i \in 1..Len(m.actions) : m.actions[i] \in ActionType /\ Deserialized(m)[i] = ActionEvent(m.actions[i], m)
<1>1. time \in Nat /\ offset \in Int /\ m.sentAt \in Int /\ m.updated \in Int /\ m.id \in Nat /\ m.actions \in Seq(ActionType)
  BY DEF DelTypes, PayloadType
<1>2. Skew(m) \in Int
  BY <1>1 DEF Skew
<1>3. ASSUME NEW a \in ActionType PROVE ActionEvent(a, m) \in EventType
  <2>1. a.at \in Int /\ a.number \in Nat /\ a.kind \in {"pageview", "goal"} /\ (a.kind = "pageview" => a.until \in Int)
    BY DEF ActionType, PageType, GoalType
  <2>2. Token(a) \in {"pv", "goal"} \X Int
    BY <2>1 DEF Token
  <2>3. Corrected(Start, m) \in Int /\ Corrected(m.updated, m) \in Int /\ Corrected(a.at, m) \in Int
    BY <1>1, <1>2, <2>1 DEF Corrected, Start
  <2>4. (IF a.kind = "pageview" THEN a.until - a.at ELSE 0) \in Int
    BY <2>1
  <2> QED BY <1>1, <2>1, <2>2, <2>3, <2>4 DEF ActionEvent, EventType
<1>4. Len(m.actions) \in Nat /\ DOMAIN m.actions = 1..Len(m.actions) /\ \A i \in 1..Len(m.actions) : m.actions[i] \in ActionType
  BY <1>1
<1>5. Deserialized(m) = [i \in 1..Len(m.actions) |-> ActionEvent(m.actions[i], m)]
  BY <1>4 DEF Deserialized
<1>6. Deserialized(m) \in Seq(EventType)
  BY <1>3, <1>4, <1>5
<1>7. Len(Deserialized(m)) = Len(m.actions)
  <2>1. DOMAIN Deserialized(m) = 1..Len(Deserialized(m)) /\ Len(Deserialized(m)) \in Nat
    BY <1>6
  <2>2. DOMAIN Deserialized(m) = 1..Len(m.actions)
    BY <1>5
  <2> QED BY <1>4, <2>1, <2>2
<1> QED BY <1>2, <1>3, <1>4, <1>5, <1>6, <1>7

\* A taken payload is behind the events that waited before it.
LEMMA TakenBuffer ==
  ASSUME DelTypes, DeliveryAssumption, NEW m \in PayloadType
  PROVE  LET b == buffer \o Deserialized(m)
             n == Len(buffer)
         IN  /\ b \in Seq(EventType) /\ Len(b) = n + Len(m.actions) /\ n \in Nat /\ Len(m.actions) \in Nat
             /\ DOMAIN b = 1..n + Len(m.actions) /\ DOMAIN buffer = 1..n /\ DOMAIN m.actions = 1..Len(m.actions)
             /\ \A i \in 1..n + Len(m.actions) :
                  IF i <= n THEN i \in DOMAIN buffer /\ b[i] = buffer[i]
                  ELSE i - n \in DOMAIN m.actions /\ b[i] = ActionEvent(m.actions[i - n], m)
<1> DEFINE d == Deserialized(m)
           b == buffer \o d
           n == Len(buffer)
<1>1. buffer \in Seq(EventType) /\ n \in Nat /\ DOMAIN buffer = 1..n
  BY DEF DelTypes
<1>2. d \in Seq(EventType) /\ Len(d) = Len(m.actions) /\ \A i \in 1..Len(m.actions) : d[i] = ActionEvent(m.actions[i], m)
  BY EventsOfAPayload
<1>3. m.actions \in Seq(ActionType) /\ Len(m.actions) \in Nat /\ DOMAIN m.actions = 1..Len(m.actions)
  BY DEF PayloadType
<1>4. /\ b \in Seq(EventType) /\ Len(b) = n + Len(d)
      /\ \A i \in 1..n + Len(d) : b[i] = IF i <= n THEN buffer[i] ELSE d[i - n]
  <2> HIDE DEF d
  <2> QED BY <1>1, <1>2, ConcatProperties
<1> HIDE DEF b, d, n
<1>5. Len(b) = n + Len(m.actions)
  BY <1>2, <1>4
<1>6. DOMAIN b = 1..n + Len(m.actions)
  BY <1>4, <1>5
<1>7. ASSUME NEW i \in 1..n + Len(m.actions)
      PROVE  IF i <= n THEN i \in DOMAIN buffer /\ b[i] = buffer[i]
             ELSE i - n \in DOMAIN m.actions /\ b[i] = ActionEvent(m.actions[i - n], m)
  <2>1. CASE i <= n
    BY <1>1, <1>2, <1>3, <1>4, <2>1
  <2>2. CASE ~(i <= n)
    <3>1. i - n \in 1..Len(m.actions)
      BY <1>1, <1>3, <2>2
    <3> QED BY <1>2, <1>3, <1>4, <2>2, <3>1
  <2> QED BY <2>1, <2>2
<1> QED BY <1>1, <1>3, <1>4, <1>5, <1>6, <1>7 DEF b, d, n

-----------------------------------------------------------------------------
(* Delivery: steps. *)

\* What is appended to the history of a tab is an action.
LEMMA HistoryGrows ==
  ASSUME DelTypes, NEW t \in Tabs, NEW h \in Seq(ActionType), NEW number \in Nat
  PROVE  /\ Append(h, NewPage(number)) \in Seq(ActionType)
         /\ Append(h, Goal(number)) \in Seq(ActionType)
         /\ \A g \in Seq(ActionType) : [actionLog EXCEPT ![t] = g] \in [Tabs -> Seq(ActionType)]
<1>1. BrowserTime \in Int
  BY DEF BrowserTime, DelTypes
<1>2. NewPage(number) \in ActionType
  BY <1>1 DEF NewPage, ActionType, PageType
<1>3. Goal(number) \in ActionType
  BY <1>1 DEF Goal, ActionType, GoalType
<1>4. ASSUME NEW g \in Seq(ActionType) PROVE [actionLog EXCEPT ![t] = g] \in [Tabs -> Seq(ActionType)]
  <2> DEFINE S == Seq(ActionType)
  <2>1. actionLog \in [Tabs -> S] /\ g \in S
    BY DEF DelTypes
  <2> HIDE DEF S
  <2>2. [actionLog EXCEPT ![t] = g] \in [Tabs -> S]
    BY <2>1
  <2> QED BY <2>2 DEF S
<1> QED BY <1>2, <1>3, <1>4, AppendProperties

\* What is sent is a payload.
LEMMA SentPayloads ==
  ASSUME DelTypes
  PROVE  /\ \A t \in Tabs, h \in Seq(ActionType), allowed \in BOOLEAN :
              [id |-> sends, tab |-> t, actions |-> h, updated |-> BrowserTime, sentAt |-> BrowserTime, left |-> time,
               allowed |-> allowed] \in PayloadType
         /\ \A m \in PayloadType : LET r == [m EXCEPT !.id = sends, !.sentAt = BrowserTime, !.left = time]
                                   IN  /\ r \in PayloadType /\ r.id = sends /\ r.sentAt = BrowserTime /\ r.left = time
                                       /\ r.tab = m.tab /\ r.actions = m.actions /\ r.updated = m.updated
<1> DEFINE S == Seq(ActionType)
           P == [id : Nat, tab : Tabs, actions : S, updated : Int, sentAt : Int, left : Nat, allowed : BOOLEAN]
<1>1. PayloadType = P
  BY DEF PayloadType
<1>2. BrowserTime \in Int /\ sends \in Nat /\ time \in Nat
  BY DEF BrowserTime, DelTypes
<1> HIDE DEF S
<1>3. \A t \in Tabs, h \in S, allowed \in BOOLEAN :
        [id |-> sends, tab |-> t, actions |-> h, updated |-> BrowserTime, sentAt |-> BrowserTime, left |-> time,
         allowed |-> allowed] \in P
  BY <1>2
<1>4. ASSUME NEW m \in P
      PROVE  LET r == [m EXCEPT !.id = sends, !.sentAt = BrowserTime, !.left = time]
             IN  /\ r \in P /\ r.id = sends /\ r.sentAt = BrowserTime /\ r.left = time
                 /\ r.tab = m.tab /\ r.actions = m.actions /\ r.updated = m.updated
  BY <1>2
<1> HIDE DEF P
<1> QED BY <1>1, <1>3, <1>4 DEF S

\* The rows of a block have versions.
LEMMA RowsHaveVersions ==
  ASSUME DelTypes
  PROVE  /\ \A i \in DOMAIN buffer : buffer[i] \in EventType
         /\ \A e \in EventType : PageRow(e).version \in Nat /\ GoalRow(e).version \in Nat
         /\ \A kind : Views(kind) \in SUBSET (1..Len(buffer)) /\ Views(kind) \subseteq DOMAIN buffer /\ Len(buffer) \in Nat
<1>1. \A i \in DOMAIN buffer : buffer[i] \in EventType
  BY DEF DelTypes
<1>2. \A e \in EventType : PageRow(e).version \in Nat /\ GoalRow(e).version \in Nat
  BY DEF PageRow, GoalRow, EventType
<1>3. DOMAIN buffer = 1..Len(buffer) /\ Len(buffer) \in Nat
  BY DEF DelTypes
<1> QED BY <1>1, <1>2, <1>3 DEF Views

\* Every step keeps the types.
LEMMA StepDelTypes == DeliveryAssumption /\ DelTypes /\ [DelNext]_delVars => DelTypes'
<1> SUFFICES ASSUME DeliveryAssumption, DelTypes, [DelNext]_delVars PROVE DelTypes'
  OBVIOUS
<1>1. ASSUME NEW t \in Tabs, Browse(t) PROVE DelTypes'
  <2>1. actionLog[t] \in Seq(ActionType)
    BY DEF DelTypes
  <2>2. Built(actionLog[t]) \in Seq(ActionType) /\ NextPageNumber(actionLog[t]) \in Nat
    BY <2>1, BuiltIs, NextNumberIsNew
  <2>3. actionLog' \in [Tabs -> Seq(ActionType)]
    BY <1>1, <2>2, HistoryGrows DEF Browse, DelTypes
  <2> QED BY <1>1, <2>3 DEF Browse, DelTypes, tables
<1>2. ASSUME NEW t \in Tabs, RecordGoal(t) PROVE DelTypes'
  <2>1. actionLog[t] \in Seq(ActionType)
    BY DEF DelTypes
  <2>2. PICK i \in DOMAIN actionLog[t] : actionLog' = [actionLog EXCEPT ![t] = Append(@, Goal(actionLog[t][i].number))]
    BY <1>2 DEF RecordGoal
  <2>3. actionLog[t][i].number \in Nat
    BY <2>1, NextNumberIsNew DEF ActionType, PageType, GoalType
  <2>4. actionLog' \in [Tabs -> Seq(ActionType)]
    BY <2>1, <2>2, <2>3, HistoryGrows DEF DelTypes
  <2> QED BY <1>2, <2>4 DEF RecordGoal, DelTypes, tables
<1>3. ASSUME NEW t \in Tabs, Send(t) PROVE DelTypes'
  <2>1. actionLog[t] \in Seq(ActionType)
    BY DEF DelTypes
  <2>2. Built(actionLog[t]) \in Seq(ActionType)
    BY <2>1, BuiltIs
  <2>3. actionLog' = [actionLog EXCEPT ![t] = Built(actionLog[t])] /\ actionLog' \in [Tabs -> Seq(ActionType)]
    BY <1>3, <2>2, HistoryGrows DEF Send, DelTypes
  <2>4. actionLog'[t] \in Seq(ActionType)
    BY <2>3
  <2>5. PICK allowed \in BOOLEAN :
          wire' = wire \cup {[id |-> sends, tab |-> t, actions |-> actionLog'[t], updated |-> BrowserTime,
                              sentAt |-> BrowserTime, left |-> time, allowed |-> allowed]}
    BY <1>3 DEF Send
  <2> DEFINE m == [id |-> sends, tab |-> t, actions |-> actionLog'[t], updated |-> BrowserTime,
                   sentAt |-> BrowserTime, left |-> time, allowed |-> allowed]
  <2>6. m \in PayloadType
    BY <2>4, SentPayloads
  <2>7. wire' = wire \cup {m}
    BY <2>5
  <2> HIDE DEF m
  <2>8. wire' \in SUBSET PayloadType /\ sends' \in Nat
    BY <1>3, <2>6, <2>7 DEF Send, DelTypes
  <2> QED BY <1>3, <2>3, <2>8 DEF Send, DelTypes, tables
<1>4. ASSUME NEW m \in wire \cup taken, Resend(m) PROVE DelTypes'
  <2>1. m \in PayloadType
    BY DEF DelTypes
  <2> DEFINE r == [m EXCEPT !.id = sends, !.sentAt = BrowserTime, !.left = time]
  <2>2. r \in PayloadType
    BY <2>1, SentPayloads
  <2>3. wire' = wire \cup {r}
    BY <1>4 DEF Resend
  <2> HIDE DEF r
  <2>4. wire' \in SUBSET PayloadType /\ sends' \in Nat
    BY <1>4, <2>2, <2>3 DEF Resend, DelTypes
  <2> QED BY <1>4, <2>4 DEF Resend, DelTypes, tables
<1>5. ASSUME NEW m \in wire, Take(m) PROVE DelTypes'
  <2>1. m \in PayloadType
    BY DEF DelTypes
  <2>2. buffer' \in Seq(EventType)
    BY <1>5, <2>1, TakenBuffer DEF Take
  <2> QED BY <1>5, <2>1, <2>2 DEF Take, DelTypes, tables
<1>6. ASSUME NEW m \in wire, Refuse(m) PROVE DelTypes'
  BY <1>6 DEF Refuse, DelTypes, tables
<1>7. CASE InsertBlock
  <2>1. buffer' \in Seq(EventType)
    BY <1>7 DEF InsertBlock
  <2>2. eventRows' \in SUBSET EventType
    <3>1. eventRows' \subseteq eventRows \cup {buffer[i] : i \in DOMAIN buffer}
      BY <1>7, IntoAddsNothing DEF InsertBlock
    <3> QED BY <3>1, RowsHaveVersions DEF DelTypes
  <2>3. \A r \in pages' : r.version \in Nat
    <3> DEFINE rows == [i \in Views("pageview") |-> PageRow(buffer[i])]
    <3>1. pages' \subseteq pages \cup {rows[i] : i \in DOMAIN rows}
      <4> HIDE DEF rows
      <4> QED BY <1>7, IntoAddsNothing DEF InsertBlock, rows
    <3>2. \A i \in DOMAIN rows : rows[i].version \in Nat
      BY RowsHaveVersions
    <3> HIDE DEF rows
    <3> QED BY <3>1, <3>2 DEF DelTypes
  <2>4. \A r \in goals' : r.version \in Nat
    <3> DEFINE rows == [i \in Views("goal") |-> GoalRow(buffer[i])]
    <3>1. goals' \subseteq goals \cup {rows[i] : i \in DOMAIN rows}
      <4> HIDE DEF rows
      <4> QED BY <1>7, IntoAddsNothing DEF InsertBlock, rows
    <3>2. \A i \in DOMAIN rows : rows[i].version \in Nat
      BY RowsHaveVersions
    <3> HIDE DEF rows
    <3> QED BY <3>1, <3>2 DEF DelTypes
  <2> QED BY <1>7, <2>1, <2>2, <2>3, <2>4 DEF InsertBlock, DelTypes
<1>8. CASE Elapse
  BY <1>8 DEF Elapse, DelTypes, tables
<1>9. CASE UNCHANGED delVars
  BY <1>9 DEF delVars, DelTypes, tables
<1> QED BY <1>1, <1>2, <1>3, <1>4, <1>5, <1>6, <1>7, <1>8, <1>9 DEF DelNext

\* Payloads on their way are told apart, and are not on it for long.
LEMMA StepUnderWay == DeliveryAssumption /\ DelTypes /\ UnderWay /\ [DelNext]_delVars => UnderWay'
<1> SUFFICES ASSUME DeliveryAssumption, DelTypes, UnderWay, [DelNext]_delVars PROVE UnderWay'
  OBVIOUS
<1> USE DEF UnderWay
<1>0. time \in Nat /\ offset \in Int /\ sends \in Nat /\ MaxLatency \in Nat /\ \A m \in wire \cup taken : m \in PayloadType
  BY DEF DelTypes, DeliveryAssumption
<1>1. ASSUME NEW t \in Tabs, Browse(t) \/ RecordGoal(t) PROVE UnderWay'
  BY <1>1 DEF Browse, RecordGoal
\* A new payload.
<1>2. ASSUME NEW m \in PayloadType, wire' = wire \cup {m}, sends' = sends + 1, UNCHANGED <<time, offset, taken>>,
             m.id = sends, m.actions # <<>>, m.sentAt = time + offset, m.left = time
      PROVE  UnderWay'
  <2>1. \A o \in wire \cup taken : o.id < sends /\ o.id \in Nat /\ o.left \in Nat /\ o.left <= time
    BY <1>0 DEF PayloadType
  <2>2. \A o \in wire \cup taken : o.id # m.id /\ o # m
    BY <1>0, <1>2, <2>1
  <2>3. \A o \in wire' \cup taken' : /\ o.id < sends' /\ o.actions # <<>>
                                     /\ o.sentAt = o.left + offset' /\ o.left <= time'
    BY <1>0, <1>2, <2>1
  <2>4. \A o \in wire' : time' - o.left <= MaxLatency
    BY <1>0, <1>2
  <2>5. \A o, p \in wire' \cup taken' : o.id = p.id => o = p
    BY <1>2, <2>2
  <2>6. wire' \cap taken' = {}
    BY <1>2, <2>2
  <2> QED BY <2>3, <2>4, <2>5, <2>6
<1>3. ASSUME NEW t \in Tabs, Send(t) PROVE UnderWay'
  <2>1. actionLog[t] \in Seq(ActionType) /\ actionLog[t] # <<>>
    BY <1>3 DEF DelTypes, Send
  <2>2. Built(actionLog[t]) \in Seq(ActionType) /\ Len(Built(actionLog[t])) = Len(actionLog[t])
    BY <2>1, BuiltIs
  <2>3. actionLog'[t] = Built(actionLog[t])
    BY <1>3 DEF Send, DelTypes
  <2>4. actionLog'[t] \in Seq(ActionType) /\ actionLog'[t] # <<>>
    BY <2>1, <2>2, <2>3
  <2>5. PICK allowed \in BOOLEAN :
          wire' = wire \cup {[id |-> sends, tab |-> t, actions |-> actionLog'[t], updated |-> BrowserTime,
                              sentAt |-> BrowserTime, left |-> time, allowed |-> allowed]}
    BY <1>3 DEF Send
  <2> DEFINE m == [id |-> sends, tab |-> t, actions |-> actionLog'[t], updated |-> BrowserTime,
                   sentAt |-> BrowserTime, left |-> time, allowed |-> allowed]
  <2>6. m \in PayloadType
    BY <2>4, SentPayloads
  <2>7. m.id = sends /\ m.actions # <<>> /\ m.sentAt = time + offset /\ m.left = time
    BY <2>4 DEF BrowserTime
  <2> HIDE DEF m
  <2>8. wire' = wire \cup {m} /\ sends' = sends + 1 /\ UNCHANGED <<time, offset, taken>>
    BY <1>3, <2>5 DEF Send, m
  <2> QED BY <1>2, <2>6, <2>7, <2>8
<1>4. ASSUME NEW m \in wire \cup taken, Resend(m) PROVE UnderWay'
  <2> DEFINE r == [m EXCEPT !.id = sends, !.sentAt = BrowserTime, !.left = time]
  <2>1. /\ r \in PayloadType /\ r.id = sends /\ r.sentAt = BrowserTime /\ r.left = time /\ r.actions = m.actions
    BY <1>0, SentPayloads
  <2> HIDE DEF r
  <2>2. wire' = wire \cup {r} /\ sends' = sends + 1 /\ UNCHANGED <<time, offset, taken>>
    BY <1>4 DEF Resend, r
  <2>3. r.sentAt = time + offset
    BY <2>1 DEF BrowserTime
  <2> QED BY <1>2, <2>1, <2>2, <2>3
<1>5. ASSUME NEW m \in wire, Take(m) PROVE UnderWay'
  BY <1>5 DEF Take
<1>6. ASSUME NEW m \in wire, Refuse(m) PROVE UnderWay'
  BY <1>6 DEF Refuse
<1>7. CASE InsertBlock
  BY <1>7 DEF InsertBlock
<1>8. CASE Elapse
  <2>1. \A m \in wire \cup taken : m.left \in Nat
    BY <1>0 DEF PayloadType
  <2>2. time' = time + 1 /\ UNCHANGED <<wire, taken, sends, offset>> /\ \A m \in wire : time - m.left < MaxLatency
    BY <1>8 DEF Elapse
  <2>3. \A m \in wire : time' - m.left <= MaxLatency
    BY <1>0, <2>1, <2>2
  <2>4. \A m \in wire \cup taken : m.left <= time'
    BY <1>0, <2>1, <2>2
  <2> QED BY <2>2, <2>3, <2>4
<1>9. CASE UNCHANGED delVars
  BY <1>9 DEF delVars
<1> QED BY <1>1, <1>3, <1>4, <1>5, <1>6, <1>7, <1>8, <1>9 DEF DelNext

\* The clock of the browser is told from the time that a payload was under way, up to the threshold.
LEMMA SkewIsRight ==
  ASSUME DeliveryAssumption, DelTypes, UnderWay, NEW m \in wire, NEW a \in ActionType
  PROVE  ActionEvent(a, m).entered - (a.at - offset) \in -Threshold .. Threshold + MaxLatency
<1>1. m \in PayloadType /\ time \in Nat /\ offset \in Int /\ Threshold \in Nat /\ MaxLatency \in Nat
  BY DEF DelTypes, DeliveryAssumption
<1>2. m.left \in Nat /\ m.sentAt = m.left + offset /\ m.left <= time /\ time - m.left <= MaxLatency
  BY <1>1 DEF PayloadType, UnderWay
<1>3. a.at \in Int
  BY DEF ActionType, PageType, GoalType
<1>4. ActionEvent(a, m).entered = a.at + Skew(m)
  BY DEF ActionEvent, Corrected
<1>5. PICK s \in Int : s = time - (m.left + offset)
  BY <1>1, <1>2
<1>6. CASE s < -Threshold \/ s > Threshold
  <2>1. Skew(m) = s
    BY <1>2, <1>5, <1>6 DEF Skew
  <2> QED BY <1>1, <1>2, <1>3, <1>4, <1>5, <2>1
<1>7. CASE ~(s < -Threshold \/ s > Threshold)
  <2>1. Skew(m) = 0
    BY <1>2, <1>5, <1>7 DEF Skew
  <2> QED BY <1>1, <1>2, <1>3, <1>4, <1>5, <1>7, <2>1
<1> QED BY <1>6, <1>7

\* Events that wait or are stored have the times of a payload.
LEMMA StepTimes ==
  DeliveryAssumption /\ DelTypes /\ UnderWay /\ TimesAreRight /\ [DelNext]_delVars => TimesAreRight'
<1> SUFFICES ASSUME DeliveryAssumption, DelTypes, UnderWay, TimesAreRight, [DelNext]_delVars PROVE TimesAreRight'
  OBVIOUS
<1> DEFINE Right(e, T, off) == \E m \in T : \E a \in Range(m.actions) :
                                 /\ m.id = e.of /\ Token(a) = e.token
                                 /\ e.entered - (a.at - off) \in -Threshold .. Threshold + MaxLatency
<1>1. TimesAreRight <=> \A e \in Range(buffer) \cup eventRows : Right(e, taken, offset)
  BY DEF TimesAreRight
<1>2. TimesAreRight' <=> \A e \in Range(buffer') \cup eventRows' : Right(e, taken', offset')
  BY DEF TimesAreRight
<1>3. ASSUME UNCHANGED <<buffer, eventRows, taken, offset>> PROVE TimesAreRight'
  BY <1>1, <1>2, <1>3
<1>4. ASSUME NEW t, Browse(t) \/ RecordGoal(t) \/ Send(t) PROVE TimesAreRight'
  BY <1>3, <1>4 DEF Browse, RecordGoal, Send, tables
<1>5. ASSUME NEW m, Resend(m) \/ Refuse(m) PROVE TimesAreRight'
  BY <1>3, <1>5 DEF Resend, Refuse, tables
<1>6. ASSUME NEW m \in wire, Take(m) PROVE TimesAreRight'
  <2>1. m \in PayloadType
    BY DEF DelTypes
  <2>2. buffer' = buffer \o Deserialized(m) /\ taken' = taken \cup {m} /\ eventRows' = eventRows /\ offset' = offset
    BY <1>6 DEF Take, tables
  <2>3. ASSUME NEW e, Right(e, taken, offset) PROVE Right(e, taken', offset')
    BY <2>2, <2>3
  <2>4. ASSUME NEW a \in Range(m.actions) PROVE Right(ActionEvent(a, m), taken', offset')
    <3>1. a \in ActionType
      BY <2>1 DEF PayloadType, Range
    <3>2. ActionEvent(a, m).entered - (a.at - offset) \in -Threshold .. Threshold + MaxLatency
      BY <3>1, SkewIsRight
    <3>3. ActionEvent(a, m).of = m.id /\ ActionEvent(a, m).token = Token(a)
      BY DEF ActionEvent
    <3>4. m \in taken'
      BY <2>2
    <3> QED BY <2>2, <3>2, <3>3, <3>4
  <2>5. ASSUME NEW i \in DOMAIN buffer' PROVE Right(buffer'[i], taken', offset')
    <3> HIDE DEF Right
    <3>1. i \in 1..Len(buffer) + Len(m.actions)
      BY <2>1, <2>2, TakenBuffer
    <3>2. CASE i <= Len(buffer)
      <4>1. i \in DOMAIN buffer /\ buffer'[i] = buffer[i]
        BY <2>1, <2>2, <3>1, <3>2, TakenBuffer
      <4>2. buffer[i] \in Range(buffer)
        BY <4>1 DEF Range
      <4> QED BY <1>1, <2>3, <4>1, <4>2
    <3>3. CASE ~(i <= Len(buffer))
      <4>1. i - Len(buffer) \in DOMAIN m.actions /\ buffer'[i] = ActionEvent(m.actions[i - Len(buffer)], m)
        BY <2>1, <2>2, <3>1, <3>3, TakenBuffer
      <4>2. m.actions[i - Len(buffer)] \in Range(m.actions)
        BY <4>1 DEF Range
      <4> QED BY <2>4, <4>1, <4>2
    <3> QED BY <3>2, <3>3
  <2> HIDE DEF Right
  <2> QED BY <1>1, <1>2, <2>2, <2>3, <2>5 DEF Range
<1>7. CASE InsertBlock
  <2>1. eventRows' \subseteq eventRows \cup {buffer[i] : i \in DOMAIN buffer} /\ buffer' = <<>>
        /\ UNCHANGED <<taken, offset>>
    BY <1>7, IntoAddsNothing DEF InsertBlock
  <2>2. Range(buffer') = {}
    BY <2>1 DEF Range
  <2> HIDE DEF Right
  <2> QED BY <1>1, <1>2, <2>1, <2>2 DEF Range
<1>8. CASE Elapse
  BY <1>3, <1>8 DEF Elapse, tables
<1>9. CASE UNCHANGED delVars
  BY <1>3, <1>9 DEF delVars, tables
<1> HIDE DEF Right
<1> QED BY <1>4, <1>5, <1>6, <1>7, <1>8, <1>9 DEF DelNext

-----------------------------------------------------------------------------
(* Delivery: what payloads say of the pages of their tab. *)

\* A page has one number.
PagesOnce(h) ==
  \A i, j \in DOMAIN h : h[i].kind = "pageview" /\ h[j].kind = "pageview" /\ h[i].number = h[j].number => i = j

\* No page ends after now.
PagesEnd(h, now) == \A i \in DOMAIN h : h[i].kind = "pageview" => h[i].until <= now

\* The tab still knows every page of a payload; it may have lasted longer by now.
KnownOf(o, h, now) ==
  \A i \in DOMAIN o.actions : o.actions[i].kind = "pageview" => \E j \in DOMAIN h :
    /\ h[j].kind = "pageview" /\ h[j].number = o.actions[i].number /\ h[j].at = o.actions[i].at
    /\ o.actions[i].until <= h[j].until
    /\ o.updated = now => o.actions[i].until = h[j].until
    /\ IsCurrent(h, j) => o.actions[i].until = o.updated

\* A payload says of the pages of another what that one said, or that they lasted longer.
SaidBefore(o, m) ==
  \A i \in DOMAIN o.actions, j \in DOMAIN m.actions :
    o.actions[i].kind = "pageview" /\ m.actions[j].kind = "pageview" /\ o.actions[i].number = m.actions[j].number =>
      o.actions[i].at = m.actions[j].at /\ o.actions[i].until <= m.actions[j].until

Told(hist, W, now) ==
  /\ \A t \in Tabs : PagesOnce(hist[t]) /\ PagesEnd(hist[t], now)
  /\ \A o \in W : o.updated <= now /\ KnownOf(o, hist[o.tab], now)
  /\ \A o, m \in W : o.tab = m.tab /\ o.updated <= m.updated => SaidBefore(o, m)

HistoryIsTold == Told(actionLog, wire \cup taken, BrowserTime)

\* What is built is of the same pages.
LEMMA BuiltTells ==
  ASSUME DelTypes, NEW h \in Seq(ActionType), PagesOnce(h), PagesEnd(h, BrowserTime)
  PROVE  /\ PagesOnce(Built(h)) /\ PagesEnd(Built(h), BrowserTime)
         /\ \A o \in PayloadType : KnownOf(o, h, BrowserTime) => KnownOf(o, Built(h), BrowserTime)
<1> DEFINE b == Built(h)
<1>1. /\ DOMAIN b = DOMAIN h
      /\ \A i \in DOMAIN h : /\ b[i].kind = h[i].kind /\ b[i].number = h[i].number /\ b[i].at = h[i].at
                             /\ IsCurrent(h, i) => b[i].until = BrowserTime
                             /\ ~IsCurrent(h, i) => b[i] = h[i]
  BY BuiltIs
<1>2. BrowserTime \in Int
  BY DEF BrowserTime, DelTypes
<1>3. \A i \in DOMAIN h : h[i].kind = "pageview" => h[i].until \in Int
  BY DEF ActionType, PageType, GoalType
<1> HIDE DEF b
<1>4. PagesOnce(b)
  BY <1>1 DEF PagesOnce
<1>5. PagesEnd(b, BrowserTime)
  BY <1>1, <1>2 DEF PagesEnd
<1>6. \A i \in DOMAIN h : IsCurrent(b, i) => IsCurrent(h, i)
  BY <1>1 DEF IsCurrent
<1>7. ASSUME NEW o \in PayloadType, KnownOf(o, h, BrowserTime) PROVE KnownOf(o, b, BrowserTime)
  <2> SUFFICES ASSUME NEW i \in DOMAIN o.actions, o.actions[i].kind = "pageview"
               PROVE  \E j \in DOMAIN b :
                        /\ b[j].kind = "pageview" /\ b[j].number = o.actions[i].number /\ b[j].at = o.actions[i].at
                        /\ o.actions[i].until <= b[j].until
                        /\ o.updated = BrowserTime => o.actions[i].until = b[j].until
                        /\ IsCurrent(b, j) => o.actions[i].until = o.updated
    BY DEF KnownOf
  <2>1. PICK j \in DOMAIN h :
          /\ h[j].kind = "pageview" /\ h[j].number = o.actions[i].number /\ h[j].at = o.actions[i].at
          /\ o.actions[i].until <= h[j].until
          /\ o.updated = BrowserTime => o.actions[i].until = h[j].until
          /\ IsCurrent(h, j) => o.actions[i].until = o.updated
    BY <1>7 DEF KnownOf
  <2>2. o.actions[i].until \in Int
    BY DEF PayloadType, ActionType, PageType, GoalType
  <2>3. CASE IsCurrent(h, j)
    <3>1. b[j].until = BrowserTime /\ h[j].until <= BrowserTime /\ h[j].until \in Int
      BY <1>1, <1>3, <2>1, <2>3 DEF PagesEnd
    <3>2. o.actions[i].until <= b[j].until
      BY <1>2, <2>1, <2>2, <3>1
    <3>3. o.updated = BrowserTime => o.actions[i].until = b[j].until
      BY <2>1, <2>3, <3>1
    <3> QED BY <1>1, <2>1, <2>3, <3>2, <3>3
  <2>4. CASE ~IsCurrent(h, j)
    BY <1>1, <1>6, <2>1, <2>4
  <2> QED BY <2>3, <2>4
<1> QED BY <1>4, <1>5, <1>7 DEF b

\* What is appended is a goal, or a page of a new number.
LEMMA AppendTells ==
  ASSUME DelTypes, NEW h \in Seq(ActionType), PagesOnce(h), PagesEnd(h, BrowserTime),
         NEW a \in ActionType,
         a.kind = "pageview" => a.until <= BrowserTime /\ \A i \in DOMAIN h : h[i].number # a.number
  PROVE  /\ PagesOnce(Append(h, a)) /\ PagesEnd(Append(h, a), BrowserTime)
         /\ \A o : KnownOf(o, h, BrowserTime) => KnownOf(o, Append(h, a), BrowserTime)
<1> DEFINE g == Append(h, a)
<1>1. Len(h) \in Nat /\ DOMAIN h = 1..Len(h) /\ DOMAIN g = 1..Len(h) + 1 /\ g[Len(h) + 1] = a
      /\ \A i \in DOMAIN h : i \in DOMAIN g /\ g[i] = h[i]
  BY AppendProperties
<1>2. \A i \in DOMAIN g : i \in DOMAIN h \/ g[i] = a
  BY <1>1
<1>3. \A i, j \in DOMAIN g : i \notin DOMAIN h /\ j \notin DOMAIN h => i = j
  BY <1>1
<1> HIDE DEF g
<1>4. PagesOnce(g)
  BY <1>1, <1>2, <1>3 DEF PagesOnce
<1>5. PagesEnd(g, BrowserTime)
  BY <1>1, <1>2 DEF PagesEnd
<1>6. \A i \in DOMAIN h : IsCurrent(g, i) => IsCurrent(h, i)
  BY <1>1 DEF IsCurrent
<1>7. ASSUME NEW o, KnownOf(o, h, BrowserTime) PROVE KnownOf(o, g, BrowserTime)
  BY <1>1, <1>6, <1>7 DEF KnownOf
<1> QED BY <1>4, <1>5, <1>7 DEF g

\* The history of a tab changes.
LEMMA TabTold ==
  ASSUME NEW hist, NEW W, NEW now, Told(hist, W, now), NEW t \in Tabs, NEW g, DOMAIN hist = Tabs,
         PagesOnce(g), PagesEnd(g, now), \A o \in W : o.tab \in Tabs,
         \A o \in W : KnownOf(o, hist[t], now) => KnownOf(o, g, now)
  PROVE  Told([hist EXCEPT ![t] = g], W, now)
<1> DEFINE n == [hist EXCEPT ![t] = g]
<1>1. n[t] = g /\ \A u \in Tabs : u # t => n[u] = hist[u]
  OBVIOUS
<1> HIDE DEF n
<1>2. \A u \in Tabs : PagesOnce(n[u]) /\ PagesEnd(n[u], now)
  BY <1>1 DEF Told
<1>3. \A o \in W : o.updated <= now /\ KnownOf(o, n[o.tab], now)
  BY <1>1 DEF Told
<1>4. \A o, m \in W : o.tab = m.tab /\ o.updated <= m.updated => SaidBefore(o, m)
  BY DEF Told
<1>5. Told(n, W, now)
  BY <1>2, <1>3, <1>4 DEF Told
<1> QED BY <1>5 DEF n

\* A payload is sent.
LEMMA PayloadTold ==
  ASSUME NEW hist, NEW W, NEW now, Told(hist, W, now), NEW m,
         m.updated <= now, KnownOf(m, hist[m.tab], now), SaidBefore(m, m),
         \A o \in W : o.tab = m.tab => /\ o.updated <= m.updated => SaidBefore(o, m)
                                       /\ m.updated <= o.updated => SaidBefore(m, o)
  PROVE  Told(hist, W \cup {m}, now)
<1>1. \A o \in W \cup {m} : o.updated <= now /\ KnownOf(o, hist[o.tab], now)
  BY DEF Told
<1>2. \A o, p \in W \cup {m} : o.tab = p.tab /\ o.updated <= p.updated => SaidBefore(o, p)
  BY DEF Told
<1>3. \A t \in Tabs : PagesOnce(hist[t]) /\ PagesEnd(hist[t], now)
  BY DEF Told
<1> QED BY <1>1, <1>2, <1>3 DEF Told

\* What is built now says what was said before, and what was built at the same time says the same.
LEMMA NewestSays ==
  ASSUME NEW o \in PayloadType, NEW m \in PayloadType, KnownOf(o, m.actions, m.updated), PagesOnce(m.actions),
         o.updated <= m.updated
  PROVE  SaidBefore(o, m) /\ (m.updated <= o.updated => SaidBefore(m, o))
<1>1. ASSUME NEW i \in DOMAIN o.actions, NEW k \in DOMAIN m.actions, o.actions[i].kind = "pageview",
             m.actions[k].kind = "pageview", o.actions[i].number = m.actions[k].number
      PROVE  /\ o.actions[i].at = m.actions[k].at /\ o.actions[i].until <= m.actions[k].until
             /\ o.updated = m.updated => o.actions[i].until = m.actions[k].until
  <2>1. PICK j \in DOMAIN m.actions :
          /\ m.actions[j].kind = "pageview" /\ m.actions[j].number = o.actions[i].number
          /\ m.actions[j].at = o.actions[i].at /\ o.actions[i].until <= m.actions[j].until
          /\ o.updated = m.updated => o.actions[i].until = m.actions[j].until
    BY <1>1 DEF KnownOf
  <2>2. j = k
    BY <1>1, <2>1 DEF PagesOnce
  <2> QED BY <2>1, <2>2
<1>2. m.updated <= o.updated => o.updated = m.updated
  BY DEF PayloadType
<1>3. \A i \in DOMAIN o.actions : o.actions[i].kind = "pageview" => o.actions[i].until \in Int
  BY DEF PayloadType, ActionType, PageType, GoalType
<1>4. SaidBefore(o, m)
  BY <1>1 DEF SaidBefore
<1>5. ASSUME m.updated <= o.updated PROVE SaidBefore(m, o)
  <2>1. ASSUME NEW k \in DOMAIN m.actions, NEW i \in DOMAIN o.actions, o.actions[i].kind = "pageview",
               m.actions[k].kind = "pageview", o.actions[i].number = m.actions[k].number
        PROVE  m.actions[k].at = o.actions[i].at /\ m.actions[k].until <= o.actions[i].until
    <3>1. o.actions[i].at = m.actions[k].at /\ o.actions[i].until = m.actions[k].until /\ o.actions[i].until \in Int
      BY <1>1, <1>2, <1>3, <1>5, <2>1
    <3> QED BY <3>1
  <2> QED BY <2>1 DEF SaidBefore
<1> QED BY <1>4, <1>5

\* Every step keeps what was said.
LEMMA StepTold == DeliveryAssumption /\ DelTypes /\ HistoryIsTold /\ [DelNext]_delVars => HistoryIsTold'
<1> SUFFICES ASSUME DeliveryAssumption, DelTypes, HistoryIsTold, [DelNext]_delVars PROVE HistoryIsTold'
  OBVIOUS
<1> DEFINE W == wire \cup taken
           now == BrowserTime
<1>0. /\ now \in Int /\ DOMAIN actionLog = Tabs /\ Told(actionLog, W, now)
      /\ \A o \in W : o \in PayloadType /\ o.tab \in Tabs /\ o.updated \in Int
      /\ \A t \in Tabs : actionLog[t] \in Seq(ActionType)
  BY DEF BrowserTime, DelTypes, HistoryIsTold, PayloadType
<1>1. HistoryIsTold' <=> Told(actionLog', wire' \cup taken', time' + offset')
  BY DEF HistoryIsTold, BrowserTime
<1>2. \A t \in Tabs : PagesOnce(actionLog[t]) /\ PagesEnd(actionLog[t], now)
  BY <1>0 DEF Told
<1>3. ASSUME UNCHANGED <<actionLog, time, offset>>, wire' \cup taken' \subseteq W PROVE HistoryIsTold'
  <2>1. now = time + offset
    BY DEF BrowserTime
  <2> HIDE DEF W, now
  <2> QED BY <1>0, <1>1, <1>3, <2>1 DEF Told
<1>4. ASSUME NEW t \in Tabs, Browse(t) PROVE HistoryIsTold'
  <2> DEFINE b == Built(actionLog[t])
             a == NewPage(NextPageNumber(actionLog[t]))
  <2>1. /\ b \in Seq(ActionType) /\ PagesOnce(b) /\ PagesEnd(b, now)
        /\ DOMAIN b = DOMAIN actionLog[t] /\ \A i \in DOMAIN b : b[i].number = actionLog[t][i].number
        /\ \A o \in PayloadType : KnownOf(o, actionLog[t], now) => KnownOf(o, b, now)
    BY <1>0, <1>2, BuiltIs, BuiltTells
  <2>2. a \in ActionType /\ a.until = now /\ a.number = NextPageNumber(actionLog[t])
    BY <1>0, NextNumberIsNew DEF NewPage, ActionType, PageType
  <2>3. \A i \in DOMAIN b : b[i].number # a.number
    <3>1. \A i \in DOMAIN actionLog[t] : actionLog[t][i].number \in Nat
      BY <1>0 DEF ActionType, PageType, GoalType
    <3>2. NextPageNumber(actionLog[t]) \in Nat /\ \A i \in DOMAIN actionLog[t] : actionLog[t][i].number < NextPageNumber(actionLog[t])
      BY <1>0, NextNumberIsNew
    <3> QED BY <2>1, <2>2, <3>1, <3>2
  <2>4. actionLog' = [actionLog EXCEPT ![t] = Append(b, a)] /\ UNCHANGED <<wire, taken, time, offset>>
    BY <1>4 DEF Browse
  <2> HIDE DEF a, b
  <2>5. a.until <= BrowserTime
    BY <1>0, <2>2
  <2>6. /\ PagesOnce(Append(b, a)) /\ PagesEnd(Append(b, a), now)
        /\ \A o : KnownOf(o, b, now) => KnownOf(o, Append(b, a), now)
    BY <2>1, <2>2, <2>3, <2>5, AppendTells
  <2> DEFINE g == Append(b, a)
  <2> HIDE DEF g, W, now
  <2>7. \A o \in W : KnownOf(o, actionLog[t], now) => KnownOf(o, g, now)
    BY <1>0, <2>1, <2>6 DEF g
  <2>8. Told([actionLog EXCEPT ![t] = g], W, now)
    BY <1>0, <2>6, <2>7, TabTold DEF g
  <2>9. now = time' + offset'
    BY <2>4 DEF now, BrowserTime
  <2> QED BY <1>1, <2>4, <2>8, <2>9 DEF g, W
<1>5. ASSUME NEW t \in Tabs, RecordGoal(t) PROVE HistoryIsTold'
  <2>1. PICK i \in DOMAIN actionLog[t] : actionLog' = [actionLog EXCEPT ![t] = Append(@, Goal(actionLog[t][i].number))]
    BY <1>5 DEF RecordGoal
  <2> DEFINE a == Goal(actionLog[t][i].number)
             g == Append(actionLog[t], a)
  <2>2. actionLog[t][i].number \in Nat
    BY <1>0 DEF ActionType, PageType, GoalType
  <2>3. a \in ActionType /\ a.kind = "goal"
    BY <1>0, <2>2 DEF Goal, ActionType, GoalType
  <2>4. actionLog' = [actionLog EXCEPT ![t] = g] /\ UNCHANGED <<wire, taken, time, offset>>
    BY <1>5, <2>1 DEF RecordGoal
  <2> HIDE DEF a
  <2>5. /\ PagesOnce(g) /\ PagesEnd(g, now) /\ \A o : KnownOf(o, actionLog[t], now) => KnownOf(o, g, now)
    BY <1>0, <1>2, <2>3, AppendTells
  <2> HIDE DEF g, W, now
  <2>6. Told([actionLog EXCEPT ![t] = g], W, now)
    BY <1>0, <2>5, TabTold
  <2>7. now = time' + offset'
    BY <2>4 DEF now, BrowserTime
  <2> QED BY <1>1, <2>4, <2>6, <2>7 DEF W
<1>6. ASSUME NEW t \in Tabs, Send(t) PROVE HistoryIsTold'
  <2> DEFINE b == Built(actionLog[t])
             hist == [actionLog EXCEPT ![t] = b]
  <2>1. /\ b \in Seq(ActionType) /\ PagesOnce(b) /\ PagesEnd(b, now)
        /\ \A o \in PayloadType : KnownOf(o, actionLog[t], now) => KnownOf(o, b, now)
    BY <1>0, <1>2, BuiltIs, BuiltTells
  <2>2. actionLog' = hist /\ UNCHANGED <<taken, time, offset>>
    BY <1>6 DEF Send
  <2>3. hist[t] = b
    BY <1>0
  <2>4. PICK allowed \in BOOLEAN :
          wire' = wire \cup {[id |-> sends, tab |-> t, actions |-> actionLog'[t], updated |-> BrowserTime,
                              sentAt |-> BrowserTime, left |-> time, allowed |-> allowed]}
    BY <1>6 DEF Send
  <2> DEFINE m == [id |-> sends, tab |-> t, actions |-> b, updated |-> BrowserTime,
                   sentAt |-> BrowserTime, left |-> time, allowed |-> allowed]
  <2>5. m \in PayloadType
    BY <2>1, SentPayloads
  <2>6. m.actions = b /\ m.updated = now /\ m.tab = t
    OBVIOUS
  <2>7. wire' = wire \cup {m}
    BY <2>2, <2>3, <2>4
  <2>8. \A i \in DOMAIN b : IsCurrent(b, i) => b[i].until = now
    <3>1. \A i \in DOMAIN b : IsCurrent(b, i) => IsCurrent(actionLog[t], i) /\ i \in DOMAIN actionLog[t]
      BY <1>0, BuiltIs DEF IsCurrent
    <3> QED BY <1>0, <3>1, BuiltIs
  <2>9. \A i \in DOMAIN b : b[i].kind = "pageview" => b[i].until \in Int
    BY <2>1 DEF ActionType, PageType, GoalType
  <2> HIDE DEF b
  <2>10. Told(hist, W, now)
    <3> HIDE DEF W, now, m
    <3> QED BY <1>0, <2>1, TabTold
  <2> HIDE DEF m, W, now, hist
  <2>11. KnownOf(m, b, now)
    BY <2>6, <2>8, <2>9 DEF KnownOf
  <2>12. m.updated <= now
    BY <1>0, <2>6
  <2>13. SaidBefore(m, m)
    BY <2>1, <2>5, <2>6, <2>11, <2>12, <1>0, NewestSays
  <2>14. ASSUME NEW o \in W, o.tab = m.tab
         PROVE  /\ o.updated <= m.updated => SaidBefore(o, m)
                /\ m.updated <= o.updated => SaidBefore(m, o)
    <3>1. KnownOf(o, b, now) /\ o.updated <= now
      BY <2>3, <2>6, <2>10, <2>14 DEF Told
    <3> QED BY <1>0, <2>1, <2>5, <2>6, <3>1, NewestSays
  <2>15. Told(hist, W \cup {m}, now)
    BY <2>3, <2>6, <2>10, <2>11, <2>12, <2>13, <2>14, PayloadTold
  <2>16. now = time' + offset' /\ wire' \cup taken' = W \cup {m}
    BY <2>2, <2>7 DEF now, W, BrowserTime
  <2> QED BY <1>1, <2>2, <2>15, <2>16
<1>7. ASSUME NEW m \in W, Resend(m) PROVE HistoryIsTold'
  <2> DEFINE r == [m EXCEPT !.id = sends, !.sentAt = BrowserTime, !.left = time]
  <2>1. r.tab = m.tab /\ r.actions = m.actions /\ r.updated = m.updated
    BY <1>0, SentPayloads
  <2>2. wire' \cup taken' = W \cup {r} /\ UNCHANGED <<actionLog, time, offset>>
    BY <1>7 DEF Resend
  <2> HIDE DEF r, W, now
  <2>3. /\ \A o \in W : o.updated <= now /\ KnownOf(o, actionLog[o.tab], now)
        /\ \A o, p \in W : o.tab = p.tab /\ o.updated <= p.updated => SaidBefore(o, p)
    BY <1>0 DEF Told
  <2>4. r.updated <= now /\ KnownOf(r, actionLog[r.tab], now)
    BY <2>1, <2>3 DEF KnownOf
  <2>5. m.updated <= m.updated
    BY <1>0
  <2>6. SaidBefore(r, r)
    BY <2>1, <2>3, <2>5 DEF SaidBefore
  <2>7. \A o \in W : o.tab = r.tab => /\ o.updated <= r.updated => SaidBefore(o, r)
                                      /\ r.updated <= o.updated => SaidBefore(r, o)
    BY <2>1, <2>3 DEF SaidBefore
  <2>8. Told(actionLog, W \cup {r}, now)
    BY <1>0, <2>4, <2>6, <2>7, PayloadTold
  <2>9. now = time' + offset'
    BY <2>2 DEF now, BrowserTime
  <2> QED BY <1>1, <2>2, <2>8, <2>9
<1>8. ASSUME NEW m \in wire, Take(m) \/ Refuse(m) PROVE HistoryIsTold'
  BY <1>3, <1>8 DEF Take, Refuse
<1>9. CASE InsertBlock
  BY <1>3, <1>9 DEF InsertBlock
<1>10. CASE Elapse
  <2>1. time' + offset' = now + 1 /\ UNCHANGED <<actionLog, wire, taken>>
    BY <1>10 DEF Elapse, DelTypes, BrowserTime
  <2>2. \A t \in Tabs : \A i \in DOMAIN actionLog[t] : actionLog[t][i].kind = "pageview" => actionLog[t][i].until \in Int
    BY <1>0 DEF ActionType, PageType, GoalType
  <2> HIDE DEF W, now
  <2>3. \A t \in Tabs : PagesEnd(actionLog[t], now + 1)
    BY <1>0, <1>2, <2>2 DEF PagesEnd
  <2>4. ASSUME NEW o \in W PROVE o.updated <= now + 1 /\ KnownOf(o, actionLog[o.tab], now + 1)
    <3>1. o.updated <= now /\ KnownOf(o, actionLog[o.tab], now) /\ o.updated \in Int
      BY <1>0 DEF Told
    <3>2. o.updated # now + 1 /\ o.updated <= now + 1
      BY <1>0, <3>1
    <3> QED BY <3>1, <3>2 DEF KnownOf
  <2>5. Told(actionLog, W, now + 1)
    BY <1>0, <2>3, <2>4 DEF Told
  <2> QED BY <1>1, <2>1, <2>5 DEF W
<1>11. CASE UNCHANGED delVars
  BY <1>3, <1>11 DEF delVars
<1> HIDE DEF W, now
<1> QED BY <1>4, <1>5, <1>6, <1>7, <1>8, <1>9, <1>10, <1>11 DEF DelNext, W

-----------------------------------------------------------------------------
(* Delivery: what waits in the buffer, and what the tables say. *)

Fresh == taken \ inserted

\* The event of an action of a payload whose times are right.
Shows(e, a, m) ==
  /\ e.kind = a.kind /\ e.number = a.number /\ e.of = m.id /\ e.created = offset /\ e.updated = m.updated
  /\ e.entered = a.at /\ (a.kind = "pageview" => e.duration = a.until - a.at)

\* The buffer is what the payloads say that are not in the tables yet.
BufferTells ==
  /\ \A i \in DOMAIN buffer : \E m \in Fresh : \E k \in DOMAIN m.actions : Shows(buffer[i], m.actions[k], m)
  /\ \A m \in Fresh : \A k \in DOMAIN m.actions : \E i \in DOMAIN buffer : Shows(buffer[i], m.actions[k], m)
  /\ \A m \in Fresh : (\A i \in DOMAIN buffer : buffer[i].of = m.id) => Len(buffer) = Len(m.actions)

\* What waits is in the order in which it was taken, and newer than what is stored.
BufferOrder ==
  /\ \A i \in DOMAIN buffer : buffer[i].version <= time
  /\ \A p \in pages : p.version <= time /\ \A i \in DOMAIN buffer : p.version <= buffer[i].version
  /\ \A i, j \in DOMAIN buffer : i <= j => buffer[i].version <= buffer[j].version
  /\ ~swapped => /\ \A i, j \in DOMAIN buffer : i <= j => buffer[i].updated <= buffer[j].updated
                 /\ \A o \in inserted, i \in DOMAIN buffer : o.updated <= buffer[i].updated

SessionTells ==
  /\ inserted = {} => sessions = {}
  /\ inserted # {} => \E m \in inserted, s \in sessions :
       /\ sessions = {s} /\ s.created = offset /\ s.version = m.updated
       /\ \A o \in inserted : o.updated <= m.updated
       /\ ~twice => s.pageviews + s.goals = Len(m.actions)

\* A page lasts as long as the payload says that gives it the most time.
LastsAs(p, S) ==
  /\ \E m \in S : \E k \in DOMAIN m.actions :
       m.actions[k].kind = "pageview" /\ m.actions[k].number = p.number /\ p.duration = m.actions[k].until - m.actions[k].at
  /\ \A m \in S : \A k \in DOMAIN m.actions :
       m.actions[k].kind = "pageview" /\ m.actions[k].number = p.number => m.actions[k].until - m.actions[k].at <= p.duration

RowsTell ==
  /\ {p.number : p \in pages} = {a.number : a \in Actions(inserted, "pageview")}
  /\ \A p, q \in pages : p.number = q.number => p = q
  /\ {g.at : g \in goals} = {a.at : a \in Actions(inserted, "goal")}
  /\ \A g, h \in goals : g.at = h.at => g = h
  /\ OneTab /\ ~swapped => \A p \in pages : LastsAs(p, inserted)

DelInv ==
  /\ DelTypes /\ UnderWay /\ HistoryIsTold /\ TimesAreRight
  /\ ~skewed => BufferTells /\ BufferOrder /\ SessionTells /\ RowsTell

\* What the actions of payloads are.
LEMMA ActionsAre ==
  ASSUME NEW S, NEW kind, NEW a
  PROVE  a \in Actions(S, kind) <=> \E m \in S : \E k \in DOMAIN m.actions : a = m.actions[k] /\ a.kind = kind
BY DEF Actions, Range

\* Without a correction, an event shows its action.
LEMMA EventShows ==
  ASSUME DelTypes, NEW m \in PayloadType, NEW a \in ActionType, Skew(m) = 0
  PROVE  Shows(ActionEvent(a, m), a, m) /\ ActionEvent(a, m).version = time
<1>1. \A t \in Int : Corrected(t, m) = t
  BY DEF Corrected
<1>2. a.at \in Int /\ m.updated \in Int /\ offset \in Int
  BY DEF ActionType, PageType, GoalType, PayloadType, DelTypes
<1>3. Corrected(Start, m) = offset /\ Corrected(m.updated, m) = m.updated /\ Corrected(a.at, m) = a.at
  BY <1>1, <1>2 DEF Start
<1>4. LET e == ActionEvent(a, m)
      IN  /\ e.kind = a.kind /\ e.number = a.number /\ e.of = m.id /\ e.created = Corrected(Start, m)
          /\ e.updated = Corrected(m.updated, m) /\ e.entered = Corrected(a.at, m) /\ e.version = time
          /\ a.kind = "pageview" => e.duration = a.until - a.at
  BY DEF ActionEvent
<1> QED BY <1>3, <1>4 DEF Shows

\* A payload that is taken puts its events behind the others.
LEMMA TakeTells ==
  ASSUME DeliveryAssumption, DelTypes, UnderWay, NEW m \in wire, Take(m), ~skewed', BufferTells, BufferOrder
  PROVE  BufferTells' /\ BufferOrder'
<1> DEFINE n == Len(buffer)
           l == Len(m.actions)
<1>1. m \in PayloadType /\ time \in Nat
  BY DEF DelTypes
<1>2. /\ buffer' = buffer \o Deserialized(m) /\ taken' = taken \cup {m} /\ Skew(m) = 0
      /\ swapped' = (swapped \/ \E o \in taken : o.updated > m.updated)
      /\ UNCHANGED <<time, offset, inserted, pages>>
  BY DEF Take, tables
<1>3. /\ Len(buffer') = n + l /\ n \in Nat /\ l \in Nat
      /\ DOMAIN buffer' = 1..n + l /\ DOMAIN buffer = 1..n /\ DOMAIN m.actions = 1..l
      /\ \A i \in 1..n + l : IF i <= n THEN i \in DOMAIN buffer /\ buffer'[i] = buffer[i]
                             ELSE i - n \in DOMAIN m.actions /\ buffer'[i] = ActionEvent(m.actions[i - n], m)
  BY <1>1, <1>2, TakenBuffer
<1>4. Fresh' = Fresh \cup {m} /\ m \notin Fresh
  BY <1>2 DEF Fresh, UnderWay, DelTypes
<1>5. \A k \in DOMAIN m.actions : m.actions[k] \in ActionType
  BY <1>1, <1>3, EventsOfAPayload
<1>6. \A k \in DOMAIN m.actions : /\ Shows(ActionEvent(m.actions[k], m), m.actions[k], m)
                                  /\ ActionEvent(m.actions[k], m).version = time
  BY <1>1, <1>2, <1>5, EventShows
<1>7. ASSUME NEW i \in DOMAIN buffer', i \notin DOMAIN buffer
      PROVE  /\ i - n \in DOMAIN m.actions /\ Shows(buffer'[i], m.actions[i - n], m) /\ buffer'[i].version = time
             /\ \A j \in DOMAIN buffer : ~(i <= j)
  BY <1>3, <1>6, <1>7
<1>8. ASSUME NEW i \in DOMAIN buffer PROVE i \in DOMAIN buffer' /\ buffer'[i] = buffer[i]
  BY <1>3
<1>9. ASSUME NEW k \in DOMAIN m.actions PROVE \E i \in DOMAIN buffer' : Shows(buffer'[i], m.actions[k], m)
  <2>1. k + n \in 1..n + l /\ ~(k + n <= n) /\ (k + n) - n = k
    BY <1>3
  <2>2. buffer'[k + n] = ActionEvent(m.actions[k], m)
    BY <1>3, <2>1
  <2> QED BY <1>3, <1>6, <2>1, <2>2
<1>10. \A e, a, o : Shows(e, a, o)' <=> Shows(e, a, o)
  BY <1>2 DEF Shows
<1> HIDE DEF n, l
<1>11. BufferTells'
  <2>1. ASSUME NEW i \in DOMAIN buffer'
        PROVE  \E o \in Fresh' : \E k \in DOMAIN o.actions : Shows(buffer'[i], o.actions[k], o)
    <3>1. CASE i \in DOMAIN buffer
      BY <1>4, <1>8, <3>1 DEF BufferTells
    <3>2. CASE i \notin DOMAIN buffer
      BY <1>4, <1>7, <3>2
    <3> QED BY <3>1, <3>2
  <2>2. ASSUME NEW o \in Fresh', NEW k \in DOMAIN o.actions
        PROVE  \E i \in DOMAIN buffer' : Shows(buffer'[i], o.actions[k], o)
    <3>1. CASE o = m
      BY <1>9, <3>1
    <3>2. CASE o \in Fresh
      BY <1>8, <3>2 DEF BufferTells
    <3> QED BY <1>4, <3>1, <3>2
  <2>3. ASSUME NEW o \in Fresh', \A i \in DOMAIN buffer' : buffer'[i].of = o.id PROVE Len(buffer') = Len(o.actions)
    <3>1. 1 \in DOMAIN m.actions
      BY <1>1, <1>3 DEF UnderWay, PayloadType
    <3>2. PICK i \in DOMAIN buffer' : Shows(buffer'[i], m.actions[1], m)
      BY <1>9, <3>1
    <3>3. o.id = m.id
      BY <2>3, <3>2 DEF Shows
    <3>4. o = m
      BY <1>4, <3>3 DEF UnderWay, Fresh
    <3>5. DOMAIN buffer = {}
      <4> SUFFICES ASSUME NEW j \in DOMAIN buffer PROVE FALSE
        OBVIOUS
      <4>1. PICK p \in Fresh : \E k \in DOMAIN p.actions : Shows(buffer[j], p.actions[k], p)
        BY DEF BufferTells
      <4>2. p.id = m.id
        BY <1>8, <2>3, <3>4, <4>1 DEF Shows
      <4>3. p = m
        BY <4>2 DEF UnderWay, Fresh
      <4> QED BY <1>4, <4>3
    <3>6. n = 0
      BY <1>3, <3>5
    <3> QED BY <1>3, <3>4, <3>6 DEF l
  <2> QED BY <1>10, <2>1, <2>2, <2>3 DEF BufferTells
<1>12. BufferOrder'
  <2>1. \A i \in DOMAIN buffer' : buffer'[i].version <= time
    <3> SUFFICES ASSUME NEW i \in DOMAIN buffer' PROVE buffer'[i].version <= time
      OBVIOUS
    <3>1. CASE i \in DOMAIN buffer
      BY <1>8, <3>1 DEF BufferOrder
    <3>2. CASE i \notin DOMAIN buffer
      BY <1>1, <1>7, <3>2
    <3> QED BY <3>1, <3>2
  <2>2. ASSUME NEW p \in pages, NEW i \in DOMAIN buffer' PROVE p.version <= buffer'[i].version
    <3>1. CASE i \in DOMAIN buffer
      BY <1>8, <3>1 DEF BufferOrder
    <3>2. CASE i \notin DOMAIN buffer
      BY <1>7, <3>2 DEF BufferOrder
    <3> QED BY <3>1, <3>2
  <2>3. ASSUME NEW i \in DOMAIN buffer', NEW j \in DOMAIN buffer', i <= j PROVE buffer'[i].version <= buffer'[j].version
    <3>1. CASE j \in DOMAIN buffer
      BY <1>7, <1>8, <2>3, <3>1 DEF BufferOrder
    <3>2. CASE j \notin DOMAIN buffer
      BY <1>7, <2>1, <3>2
    <3> QED BY <3>1, <3>2
  <2>4. ASSUME ~swapped' PROVE ~swapped /\ \A o \in taken : o.updated <= m.updated
    <3>1. m.updated \in Int /\ \A o \in taken : o.updated \in Int
      BY <1>1 DEF DelTypes, PayloadType
    <3>2. ~swapped /\ \A o \in taken : ~(o.updated > m.updated)
      BY <1>2, <2>4
    <3> QED BY <3>1, <3>2
  <2>5. \A i \in DOMAIN buffer' : i \notin DOMAIN buffer => buffer'[i].updated = m.updated
    BY <1>7 DEF Shows
  <2>6. ASSUME ~swapped', NEW i \in DOMAIN buffer' PROVE buffer'[i].updated <= m.updated
    <3>1. CASE i \in DOMAIN buffer
      <4>1. PICK o \in Fresh : \E k \in DOMAIN o.actions : Shows(buffer[i], o.actions[k], o)
        BY <3>1 DEF BufferTells
      <4>2. buffer'[i].updated = o.updated
        BY <1>8, <3>1, <4>1 DEF Shows
      <4> QED BY <2>4, <2>6, <4>2 DEF Fresh
    <3>2. CASE i \notin DOMAIN buffer
      BY <1>1, <2>5, <3>2 DEF PayloadType
    <3> QED BY <3>1, <3>2
  <2>7. ASSUME ~swapped', NEW i \in DOMAIN buffer', NEW j \in DOMAIN buffer', i <= j
        PROVE  buffer'[i].updated <= buffer'[j].updated
    <3>1. CASE j \in DOMAIN buffer
      BY <1>7, <1>8, <2>4, <2>7, <3>1 DEF BufferOrder
    <3>2. CASE j \notin DOMAIN buffer
      BY <2>5, <2>6, <2>7, <3>2
    <3> QED BY <3>1, <3>2
  <2>8. ASSUME ~swapped', NEW o \in inserted, NEW i \in DOMAIN buffer' PROVE o.updated <= buffer'[i].updated
    <3>1. CASE i \in DOMAIN buffer
      BY <1>8, <2>4, <2>8, <3>1 DEF BufferOrder
    <3>2. CASE i \notin DOMAIN buffer
      BY <2>4, <2>5, <2>8, <3>2 DEF DelTypes
    <3> QED BY <3>1, <3>2
  <2>9. \A p \in pages : p.version <= time
    BY DEF BufferOrder
  <2> QED BY <1>2, <2>1, <2>2, <2>3, <2>7, <2>8, <2>9 DEF BufferOrder
<1> QED BY <1>11, <1>12

\* When a block is inserted, what was fresh is stored.
LEMMA FlushEmpties ==
  ASSUME DelTypes, InsertBlock
  PROVE  /\ Fresh' = {} /\ buffer' = <<>> /\ DOMAIN buffer' = {} /\ inserted' = taken /\ taken' = taken
         /\ inserted \cup Fresh = taken /\ inserted \subseteq taken
         /\ UNCHANGED <<time, offset, swapped, skewed>>
         /\ Len(buffer) \in Nat /\ DOMAIN buffer = 1..Len(buffer) /\ 1 \in DOMAIN buffer
         /\ \A i \in DOMAIN buffer : buffer[i] \in EventType
<1>1. buffer' = <<>> /\ inserted' = taken /\ UNCHANGED <<time, offset, taken, swapped, skewed>> /\ buffer # <<>>
  BY DEF InsertBlock
<1>2. buffer \in Seq(EventType) /\ inserted \in SUBSET taken
  BY DEF DelTypes
<1>3. DOMAIN buffer' = {}
  BY <1>1
<1>4. Len(buffer) \in Nat /\ DOMAIN buffer = 1..Len(buffer) /\ 1 \in DOMAIN buffer
  BY <1>1, <1>2
<1> QED BY <1>1, <1>2, <1>3, <1>4 DEF Fresh

\* The table of the rows of a block, by kind: they are the rows of the fresh actions.
LEMMA ViewsAreFresh ==
  ASSUME DelTypes, BufferTells, NEW kind
  PROVE  /\ \A i \in Views(kind) : \E m \in Fresh : \E k \in DOMAIN m.actions :
              i \in DOMAIN buffer /\ m.actions[k].kind = kind /\ Shows(buffer[i], m.actions[k], m)
         /\ \A m \in Fresh : \A k \in DOMAIN m.actions : m.actions[k].kind = kind =>
              \E i \in Views(kind) : i \in DOMAIN buffer /\ Shows(buffer[i], m.actions[k], m)
<1>1. ASSUME NEW i \in Views(kind)
      PROVE  \E m \in Fresh : \E k \in DOMAIN m.actions :
               i \in DOMAIN buffer /\ m.actions[k].kind = kind /\ Shows(buffer[i], m.actions[k], m)
  <2>1. i \in DOMAIN buffer /\ buffer[i].kind = kind
    BY DEF Views
  <2>2. PICK m \in Fresh : \E k \in DOMAIN m.actions : Shows(buffer[i], m.actions[k], m)
    BY <2>1 DEF BufferTells
  <2> QED BY <2>1, <2>2 DEF Shows
<1>2. ASSUME NEW m \in Fresh, NEW k \in DOMAIN m.actions, m.actions[k].kind = kind
      PROVE  \E i \in Views(kind) : i \in DOMAIN buffer /\ Shows(buffer[i], m.actions[k], m)
  <2>1. PICK i \in DOMAIN buffer : Shows(buffer[i], m.actions[k], m)
    BY DEF BufferTells
  <2> QED BY <1>2, <2>1 DEF Shows, Views
<1> QED BY <1>1, <1>2

\* The session is the newest of what was stored and what is.
LEMMA FlushSession ==
  ASSUME DelTypes, UnderWay, InsertBlock, BufferTells, SessionTells
  PROVE  SessionTells'
<1> DEFINE n == Len(buffer)
           r == SessionRow
           v == [i \in DOMAIN buffer |-> buffer[i].updated]
           U == {e.updated : e \in Range(buffer)}
<1>1. /\ inserted' = taken /\ inserted \cup Fresh = taken /\ inserted \subseteq taken
      /\ offset' = offset /\ n \in Nat /\ DOMAIN buffer = 1..n /\ 1 \in DOMAIN buffer
      /\ \A i \in DOMAIN buffer : buffer[i] \in EventType
  BY FlushEmpties
<1>2. sessions' = Into(sessions, <<r>>, SessionKey) /\ twice' = (twice \/ \E d, e \in Range(buffer) : d.of # e.of)
  BY DEF InsertBlock
<1>3. PICK k \in DOMAIN buffer : \A j \in DOMAIN buffer : v[j] < v[k] \/ (v[j] = v[k] /\ j <= k)
  <2>1. DOMAIN buffer \in SUBSET (1..n) /\ DOMAIN buffer # {} /\ \A i \in DOMAIN buffer : v[i] \in Int
    BY <1>1 DEF EventType
  <2> HIDE DEF v, n
  <2> QED BY <1>1, <2>1, LastGreatest
<1>4. PICK m \in Fresh : \E l \in DOMAIN m.actions : Shows(buffer[k], m.actions[l], m)
  BY DEF BufferTells
<1>5. m \in taken /\ m \in PayloadType /\ m.updated \in Int /\ buffer[k].updated = m.updated
  BY <1>4 DEF Fresh, Shows, DelTypes, PayloadType
<1>6. \A i \in DOMAIN buffer : buffer[i].updated <= m.updated
  <2>1. \A i \in DOMAIN buffer : buffer[i].updated \in Int
    BY <1>1 DEF EventType
  <2>2. \A i \in DOMAIN buffer : buffer[i].updated <= buffer[k].updated
    BY <1>3, <2>1
  <2> QED BY <1>5, <2>2
<1>7. r.version = m.updated
  <2>1. U \in SUBSET Int
    <3>1. \A i \in DOMAIN buffer : buffer[i].updated \in Int
      BY <1>1 DEF EventType
    <3> QED BY <3>1 DEF Range
  <2>2. m.updated \in U /\ \A y \in U : y <= m.updated
    BY <1>5, <1>6 DEF Range
  <2>3. Max(U) = m.updated
    <3> HIDE DEF U
    <3> QED BY <2>1, <2>2, MaxIs
  <2>4. r.version = Max(U)
    BY DEF SessionRow
  <2> HIDE DEF U, r
  <2> QED BY <2>3, <2>4
<1>8. r.created = offset
  <2>1. buffer[1].created = offset
    BY <1>1 DEF BufferTells, Shows
  <2> QED BY <2>1 DEF SessionRow
\* What the fresh payloads say is in the buffer.
<1>9. ASSUME NEW o \in Fresh PROVE o.updated <= m.updated /\ \E i \in DOMAIN buffer : buffer[i].of = o.id
  <2>1. o.actions # <<>> /\ o.actions \in Seq(ActionType)
    BY DEF Fresh, UnderWay, DelTypes, PayloadType
  <2>2. 1 \in DOMAIN o.actions
    BY <2>1
  <2>3. PICK i \in DOMAIN buffer : Shows(buffer[i], o.actions[1], o)
    BY <2>2 DEF BufferTells
  <2> QED BY <1>6, <2>3 DEF Shows
<1>10. ASSUME ~twice' PROVE ~twice /\ r.pageviews + r.goals = Len(m.actions)
  <2>1. ~twice /\ \A i, j \in DOMAIN buffer : buffer[i].of = buffer[j].of
    BY <1>2, <1>10 DEF Range
  <2>2. \A i \in DOMAIN buffer : buffer[i].of = m.id
    BY <1>4, <2>1 DEF Shows
  <2>3. n = Len(m.actions)
    BY <2>2 DEF BufferTells
  <2>4. Views("pageview") \cup Views("goal") = 1..n /\ Views("pageview") \cap Views("goal") = {}
    BY <1>1 DEF Views, EventType
  <2>5. IsFiniteSet(1..n) /\ Cardinality(1..n) = n
    BY <1>1, FS_Interval
  <2>6. IsFiniteSet(Views("pageview")) /\ IsFiniteSet(Views("goal"))
    BY <2>4, <2>5, FS_Subset
  <2>7. Cardinality(1..n) = Cardinality(Views("pageview")) + Cardinality(Views("goal"))
                            - Cardinality(Views("pageview") \cap Views("goal"))
    BY <2>4, <2>6, FS_Union
  <2>8. Cardinality(Views("pageview") \cap Views("goal")) = 0
    BY <2>4, FS_EmptySet
  <2>9. Cardinality(Views("pageview")) \in Nat /\ Cardinality(Views("goal")) \in Nat
    BY <2>6, FS_CardinalityType
  <2>10. r.pageviews = Cardinality(Views("pageview")) /\ r.goals = Cardinality(Views("goal"))
    BY DEF SessionRow
  <2> HIDE DEF n, r
  <2> QED BY <1>1, <2>1, <2>3, <2>5, <2>7, <2>8, <2>9, <2>10
<1> HIDE DEF r
<1>11. /\ \A s : s \in sessions' <=>
            \/ s \in sessions /\ (r.created = s.created => r.version < s.version)
            \/ s = r /\ \A t \in sessions : t.created = r.created => t.version <= r.version
  <2>1. DOMAIN <<r>> = {1} /\ <<r>>[1] = r
    OBVIOUS
  <2>2. ~(r.version < r.version)
    BY <1>5, <1>7
  <2> DEFINE rows == <<r>>
  <2>3. DOMAIN rows = {1} /\ rows[1] = r
    BY <2>1
  <2>4. sessions' = Into(sessions, rows, SessionKey)
    BY <1>2
  <2> HIDE DEF rows
  <2>5. \A t : t[SessionKey] = t.created
    BY DEF SessionKey
  <2>6. 1 <= 1
    OBVIOUS
  <2> QED BY <2>3, <2>4, <2>5, <2>6 DEF Into
<1>12. taken # {}
  BY <1>5
<1>13. CASE inserted = {}
  <2>1. sessions = {}
    BY <1>13 DEF SessionTells
  <2>2. sessions' = {r}
    BY <1>11, <2>1
  <2>3. \A o \in taken : o.updated <= m.updated
    BY <1>1, <1>9, <1>13
  <2> QED BY <1>1, <1>5, <1>7, <1>8, <1>10, <1>12, <2>2, <2>3 DEF SessionTells
<1>14. CASE inserted # {}
  <2>1. PICK o \in inserted, s \in sessions :
          /\ sessions = {s} /\ s.created = offset /\ s.version = o.updated
          /\ \A p \in inserted : p.updated <= o.updated
          /\ ~twice => s.pageviews + s.goals = Len(o.actions)
    BY <1>14 DEF SessionTells
  <2>2. o \in taken /\ o.updated \in Int
    BY DEF DelTypes, PayloadType
  <2>3. \A p \in taken : p.updated \in Int
    BY DEF DelTypes, PayloadType
  <2>4. CASE m.updated < o.updated
    <3>1. sessions' = {s}
      BY <1>5, <1>7, <1>8, <1>11, <2>1, <2>2, <2>4
    <3>2. \A p \in taken : p.updated <= o.updated
      BY <1>1, <1>5, <1>9, <2>1, <2>2, <2>3, <2>4
    <3> QED BY <1>1, <1>2, <1>12, <2>1, <2>2, <3>1, <3>2 DEF SessionTells
  <2>5. CASE ~(m.updated < o.updated)
    <3>1. o.updated <= m.updated
      BY <1>5, <2>2, <2>5
    <3>2. sessions' = {r}
      BY <1>5, <1>7, <1>8, <1>11, <2>1, <2>5, <3>1
    <3>3. \A p \in taken : p.updated <= m.updated
      BY <1>1, <1>5, <1>9, <2>1, <2>2, <2>3, <3>1
    <3> QED BY <1>1, <1>5, <1>7, <1>8, <1>10, <1>12, <3>2, <3>3 DEF SessionTells
  <2> QED BY <2>4, <2>5
<1> QED BY <1>13, <1>14

\* The rows of the actions that were stored and of those that are.
LEMMA ActionsAdd ==
  ASSUME NEW S, NEW T, NEW kind
  PROVE  Actions(S \cup T, kind) = Actions(S, kind) \cup Actions(T, kind)
<1>1. \A a : a \in Actions(S \cup T, kind) <=> a \in Actions(S, kind) \/ a \in Actions(T, kind)
  BY ActionsAre
<1> QED BY <1>1

\* Pages have one row each, and all have one.
LEMMA FlushPages ==
  ASSUME DelTypes, InsertBlock, BufferTells, RowsTell
  PROVE  /\ {p.number : p \in pages'} = {a.number : a \in Actions(taken, "pageview")}
         /\ \A p, q \in pages' : p.number = q.number => p = q
<1> DEFINE rows == [i \in Views("pageview") |-> PageRow(buffer[i])]
           n == Len(buffer)
<1>1. inserted \cup Fresh = taken
  BY FlushEmpties
<1>2. /\ n \in Nat /\ DOMAIN rows \in SUBSET (1..n) /\ \A i \in DOMAIN rows : rows[i].version \in Int
      /\ \A p \in pages : p.version \in Int
  BY RowsHaveVersions DEF DelTypes
<1>3. pages' = Into(pages, rows, PageKey)
  BY DEF InsertBlock
<1>4. \A r : r[PageKey] = r.number
  BY DEF PageKey
<1>5. DOMAIN rows = Views("pageview") /\ \A i \in DOMAIN rows : rows[i].number = buffer[i].number
  BY DEF PageRow
<1> HIDE DEF rows, n
<1>6. Keyed(n, rows, pages, PageKey)
  <2>1. \A p, q \in pages : p[PageKey] = q[PageKey] => p = q
    BY <1>4 DEF RowsTell
  <2> QED BY <1>2, <2>1 DEF Keyed
<1>7. /\ \A p \in pages' : (\E q \in pages : q[PageKey] = p[PageKey]) \/ \E i \in DOMAIN rows : rows[i][PageKey] = p[PageKey]
      /\ \A q \in pages : \E p \in pages' : p[PageKey] = q[PageKey]
      /\ \A i \in DOMAIN rows : \E p \in pages' : p[PageKey] = rows[i][PageKey]
  <2>1. pages' \subseteq pages \cup {rows[i] : i \in DOMAIN rows}
    BY <1>3, IntoAddsNothing
  <2>2. ASSUME NEW x, (\E q \in pages : q[PageKey] = x) \/ \E i \in DOMAIN rows : rows[i][PageKey] = x
        PROVE  \E p \in pages' : p[PageKey] = x
    BY <1>3, <1>6, <2>2, IntoKeepsKeys
  <2>3. \A q \in pages : \E p \in pages' : p[PageKey] = q[PageKey]
    BY <2>2
  <2>4. \A i \in DOMAIN rows : \E p \in pages' : p[PageKey] = rows[i][PageKey]
    BY <2>2
  <2> QED BY <2>1, <2>3, <2>4
<1>8. \A p, q \in pages' : p[PageKey] = q[PageKey] => p = q
  BY <1>3, <1>6, IntoIsOnePerKey
<1>9. {rows[i].number : i \in DOMAIN rows} = {a.number : a \in Actions(Fresh, "pageview")}
  <2>1. ASSUME NEW i \in DOMAIN rows PROVE \E a \in Actions(Fresh, "pageview") : rows[i].number = a.number
    <3>1. PICK m \in Fresh : \E k \in DOMAIN m.actions :
            m.actions[k].kind = "pageview" /\ Shows(buffer[i], m.actions[k], m)
      BY <1>5, ViewsAreFresh
    <3>2. PICK k \in DOMAIN m.actions : m.actions[k].kind = "pageview" /\ Shows(buffer[i], m.actions[k], m)
      BY <3>1
    <3> QED BY <1>5, <3>2, ActionsAre DEF Shows
  <2>2. ASSUME NEW a \in Actions(Fresh, "pageview") PROVE \E i \in DOMAIN rows : rows[i].number = a.number
    <3>1. PICK m \in Fresh : \E k \in DOMAIN m.actions : a = m.actions[k] /\ a.kind = "pageview"
      BY ActionsAre
    <3>2. PICK k \in DOMAIN m.actions : a = m.actions[k] /\ a.kind = "pageview"
      BY <3>1
    <3>3. PICK i \in Views("pageview") : Shows(buffer[i], m.actions[k], m)
      BY <3>2, ViewsAreFresh
    <3> QED BY <1>5, <3>2, <3>3 DEF Shows
  <2> QED BY <2>1, <2>2
<1>10. {p.number : p \in pages'} = {p.number : p \in pages} \cup {rows[i].number : i \in DOMAIN rows}
  BY <1>4, <1>7
<1>11. {a.number : a \in Actions(taken, "pageview")}
         = {a.number : a \in Actions(inserted, "pageview")} \cup {a.number : a \in Actions(Fresh, "pageview")}
  BY <1>1, ActionsAdd
<1>12. {p.number : p \in pages} = {a.number : a \in Actions(inserted, "pageview")}
  BY DEF RowsTell
<1> QED BY <1>4, <1>8, <1>9, <1>10, <1>11, <1>12

\* So do goals.
LEMMA FlushGoals ==
  ASSUME DelTypes, InsertBlock, BufferTells, RowsTell
  PROVE  /\ {g.at : g \in goals'} = {a.at : a \in Actions(taken, "goal")}
         /\ \A g, h \in goals' : g.at = h.at => g = h
<1> DEFINE rows == [i \in Views("goal") |-> GoalRow(buffer[i])]
           n == Len(buffer)
<1>1. inserted \cup Fresh = taken
  BY FlushEmpties
<1>2. /\ n \in Nat /\ DOMAIN rows \in SUBSET (1..n) /\ \A i \in DOMAIN rows : rows[i].version \in Int
      /\ \A g \in goals : g.version \in Int
  BY RowsHaveVersions DEF DelTypes
<1>3. goals' = Into(goals, rows, GoalKey)
  BY DEF InsertBlock
<1>4. \A r : r[GoalKey] = r.at
  BY DEF GoalKey
<1>5. DOMAIN rows = Views("goal") /\ \A i \in DOMAIN rows : rows[i].at = buffer[i].entered
  BY DEF GoalRow
<1> HIDE DEF rows, n
<1>6. Keyed(n, rows, goals, GoalKey)
  <2>1. \A p, q \in goals : p[GoalKey] = q[GoalKey] => p = q
    BY <1>4 DEF RowsTell
  <2> QED BY <1>2, <2>1 DEF Keyed
<1>7. /\ \A p \in goals' : (\E q \in goals : q[GoalKey] = p[GoalKey]) \/ \E i \in DOMAIN rows : rows[i][GoalKey] = p[GoalKey]
      /\ \A q \in goals : \E p \in goals' : p[GoalKey] = q[GoalKey]
      /\ \A i \in DOMAIN rows : \E p \in goals' : p[GoalKey] = rows[i][GoalKey]
  <2>1. goals' \subseteq goals \cup {rows[i] : i \in DOMAIN rows}
    BY <1>3, IntoAddsNothing
  <2>2. ASSUME NEW x, (\E q \in goals : q[GoalKey] = x) \/ \E i \in DOMAIN rows : rows[i][GoalKey] = x
        PROVE  \E p \in goals' : p[GoalKey] = x
    BY <1>3, <1>6, <2>2, IntoKeepsKeys
  <2>3. \A q \in goals : \E p \in goals' : p[GoalKey] = q[GoalKey]
    BY <2>2
  <2>4. \A i \in DOMAIN rows : \E p \in goals' : p[GoalKey] = rows[i][GoalKey]
    BY <2>2
  <2> QED BY <2>1, <2>3, <2>4
<1>8. \A p, q \in goals' : p[GoalKey] = q[GoalKey] => p = q
  BY <1>3, <1>6, IntoIsOnePerKey
<1>9. {rows[i].at : i \in DOMAIN rows} = {a.at : a \in Actions(Fresh, "goal")}
  <2>1. ASSUME NEW i \in DOMAIN rows PROVE \E a \in Actions(Fresh, "goal") : rows[i].at = a.at
    <3>1. PICK m \in Fresh : \E k \in DOMAIN m.actions :
            m.actions[k].kind = "goal" /\ Shows(buffer[i], m.actions[k], m)
      BY <1>5, ViewsAreFresh
    <3>2. PICK k \in DOMAIN m.actions : m.actions[k].kind = "goal" /\ Shows(buffer[i], m.actions[k], m)
      BY <3>1
    <3> QED BY <1>5, <3>2, ActionsAre DEF Shows
  <2>2. ASSUME NEW a \in Actions(Fresh, "goal") PROVE \E i \in DOMAIN rows : rows[i].at = a.at
    <3>1. PICK m \in Fresh : \E k \in DOMAIN m.actions : a = m.actions[k] /\ a.kind = "goal"
      BY ActionsAre
    <3>2. PICK k \in DOMAIN m.actions : a = m.actions[k] /\ a.kind = "goal"
      BY <3>1
    <3>3. PICK i \in Views("goal") : Shows(buffer[i], m.actions[k], m)
      BY <3>2, ViewsAreFresh
    <3> QED BY <1>5, <3>2, <3>3 DEF Shows
  <2> QED BY <2>1, <2>2
<1>10. {p.at : p \in goals'} = {p.at : p \in goals} \cup {rows[i].at : i \in DOMAIN rows}
  BY <1>4, <1>7
<1>11. {a.at : a \in Actions(taken, "goal")}
         = {a.at : a \in Actions(inserted, "goal")} \cup {a.at : a \in Actions(Fresh, "goal")}
  BY <1>1, ActionsAdd
<1>12. {p.at : p \in goals} = {a.at : a \in Actions(inserted, "goal")}
  BY DEF RowsTell
<1> QED BY <1>4, <1>8, <1>9, <1>10, <1>11, <1>12

\* With one tab, and no payload overtaken, the row of a page that counts is of the payload built last.
LEMMA FlushLast ==
  ASSUME DelTypes, HistoryIsTold, InsertBlock, BufferTells, BufferOrder, RowsTell, ~swapped,
         \A m, o \in taken : m.tab = o.tab, NEW p \in pages'
  PROVE  LastsAs(p, taken)
<1> DEFINE rows == [i \in Views("pageview") |-> PageRow(buffer[i])]
<1>1. /\ inserted \cup Fresh = taken /\ inserted \subseteq taken /\ DOMAIN buffer = 1..Len(buffer)
      /\ \A i \in DOMAIN buffer : buffer[i] \in EventType
  BY FlushEmpties
<1>2. pages' = Into(pages, rows, PageKey)
  BY DEF InsertBlock
<1>3. \A r : r[PageKey] = r.number
  BY DEF PageKey
<1>4. DOMAIN rows = Views("pageview") /\ Views("pageview") \subseteq DOMAIN buffer
      /\ \A i \in DOMAIN rows : /\ rows[i].number = buffer[i].number /\ rows[i].version = buffer[i].version
                                /\ rows[i].duration = buffer[i].duration
  BY DEF PageRow, Views
<1>5. \A i \in DOMAIN rows : i \in Int /\ rows[i].version \in Int
  BY <1>1, <1>4 DEF EventType
<1> HIDE DEF rows
<1>6. \/ p \in pages /\ \A i \in DOMAIN rows : rows[i].number = p.number => rows[i].version < p.version
      \/ \E k \in DOMAIN rows :
           p = rows[k] /\ \A j \in DOMAIN rows : rows[j].number = rows[k].number =>
                            rows[j].version < rows[k].version \/ (rows[j].version = rows[k].version /\ j <= k)
  BY <1>2, <1>3 DEF Into
<1>7. CASE p \in pages /\ \A i \in DOMAIN rows : rows[i].number = p.number => rows[i].version < p.version
  <2>1. LastsAs(p, inserted)
    BY <1>1, <1>7 DEF RowsTell, OneTab
  <2>2. \A i \in DOMAIN rows : rows[i].number # p.number
    <3> SUFFICES ASSUME NEW i \in DOMAIN rows, rows[i].number = p.number PROVE FALSE
      OBVIOUS
    <3>1. p.version <= rows[i].version /\ rows[i].version < p.version /\ p.version \in Int /\ rows[i].version \in Int
      BY <1>4, <1>5, <1>7 DEF BufferOrder, DelTypes
    <3> QED BY <3>1
  <2>3. ASSUME NEW m \in Fresh, NEW k \in DOMAIN m.actions, m.actions[k].kind = "pageview",
               m.actions[k].number = p.number
        PROVE  FALSE
    <3>1. PICK i \in Views("pageview") : Shows(buffer[i], m.actions[k], m)
      BY <2>3, ViewsAreFresh
    <3> QED BY <1>4, <2>2, <2>3, <3>1 DEF Shows
  <2> QED BY <1>1, <2>1, <2>3 DEF LastsAs
<1>8. ASSUME NEW k \in DOMAIN rows, p = rows[k],
             \A j \in DOMAIN rows : rows[j].number = rows[k].number =>
               rows[j].version < rows[k].version \/ (rows[j].version = rows[k].version /\ j <= k)
      PROVE  LastsAs(p, taken)
  <2>1. PICK m \in Fresh : \E l \in DOMAIN m.actions :
          m.actions[l].kind = "pageview" /\ Shows(buffer[k], m.actions[l], m)
    BY <1>4, ViewsAreFresh
  <2>2. PICK l \in DOMAIN m.actions : m.actions[l].kind = "pageview" /\ Shows(buffer[k], m.actions[l], m)
    BY <2>1
  <2> DEFINE a == m.actions[l]
  <2>3. p.number = a.number /\ p.duration = a.until - a.at /\ buffer[k].updated = m.updated /\ m \in taken
    BY <1>1, <1>4, <1>8, <2>2 DEF Shows
\* A payload that is as new as this one, or older, says no more.
  <2>4. ASSUME NEW o \in taken, NEW i \in DOMAIN o.actions, o.actions[i].kind = "pageview",
               o.actions[i].number = p.number
        PROVE  o.actions[i].until - o.actions[i].at <= p.duration
    <3>1. o.updated <= m.updated
      <4>1. CASE o \in inserted
        BY <1>4, <2>3, <4>1 DEF BufferOrder
      <4>2. CASE o \in Fresh
        <5>1. PICK j \in Views("pageview") : Shows(buffer[j], o.actions[i], o)
          BY <2>4, <4>2, ViewsAreFresh
        <5>2. j \in DOMAIN rows /\ rows[j].number = rows[k].number /\ buffer[j].updated = o.updated
          BY <1>4, <1>8, <2>4, <5>1 DEF Shows
        <5>3. rows[j].version < rows[k].version \/ j <= k
          BY <1>8, <5>2
        <5>4. j <= k
          <6> SUFFICES ASSUME ~(j <= k) PROVE FALSE
            OBVIOUS
          <6>1. k <= j /\ j \in DOMAIN buffer /\ k \in DOMAIN buffer
            BY <1>4, <1>5, <5>2
          <6>2. rows[k].version <= rows[j].version
            BY <1>4, <5>2, <6>1 DEF BufferOrder
          <6> QED BY <1>5, <5>2, <5>3, <6>2
        <5> QED BY <1>4, <2>3, <5>2, <5>4 DEF BufferOrder
      <4> QED BY <1>1, <4>1, <4>2
    <3>2. SaidBefore(o, m)
      BY <2>3, <3>1 DEF HistoryIsTold, Told
    <3>3. o.actions[i].at = a.at /\ o.actions[i].until <= a.until
      BY <2>2, <2>3, <2>4, <3>2 DEF SaidBefore
    <3>4. m \in PayloadType /\ o \in PayloadType
      BY <2>3 DEF DelTypes
    <3>5. a.at \in Int /\ a.until \in Int /\ o.actions[i].until \in Int
      BY <2>2, <2>4, <3>4 DEF PayloadType, ActionType, PageType, GoalType
    <3> HIDE DEF a
    <3> QED BY <2>3, <3>3, <3>5
  <2> QED BY <2>2, <2>3, <2>4 DEF LastsAs
<1> QED BY <1>6, <1>7, <1>8

\* What is stored is no newer than now, and no older than what waits: nothing does.
LEMMA FlushTells ==
  ASSUME DelTypes, UnderWay, HistoryIsTold, InsertBlock, BufferTells, BufferOrder, SessionTells, RowsTell
  PROVE  BufferTells' /\ BufferOrder' /\ SessionTells' /\ RowsTell'
<1>1. /\ Fresh' = {} /\ DOMAIN buffer' = {} /\ inserted' = taken /\ UNCHANGED <<time, swapped>>
      /\ \A i \in DOMAIN buffer : buffer[i] \in EventType
  BY FlushEmpties
<1>2. BufferTells'
  BY <1>1 DEF BufferTells
<1>3. \A p \in pages' : p.version <= time
  <2> DEFINE rows == [i \in Views("pageview") |-> PageRow(buffer[i])]
  <2>1. pages' \subseteq pages \cup {rows[i] : i \in DOMAIN rows}
    <3> HIDE DEF rows
    <3> QED BY IntoAddsNothing DEF InsertBlock, rows
  <2>2. \A i \in DOMAIN rows : rows[i].version = buffer[i].version /\ i \in DOMAIN buffer
    BY DEF PageRow, Views
  <2> HIDE DEF rows
  <2> QED BY <2>1, <2>2 DEF BufferOrder
<1>4. BufferOrder'
  BY <1>1, <1>3 DEF BufferOrder
<1>5. SessionTells'
  BY FlushSession
<1>6. OneTab' <=> \A m, o \in taken : m.tab = o.tab
  BY <1>1 DEF OneTab
<1>7. OneTab' /\ ~swapped' => \A p \in pages' : LastsAs(p, inserted')
  BY <1>1, <1>6, FlushLast
<1>8. RowsTell'
  BY <1>1, <1>7, FlushPages, FlushGoals DEF RowsTell, LastsAs
<1> QED BY <1>2, <1>4, <1>5, <1>8

\* A step that takes nothing and stores nothing changes nothing of it.
LEMMA QuietTells ==
  ASSUME DelTypes, UNCHANGED <<offset, buffer, tables, taken, inserted, swapped, twice, skewed>>, time' \in Nat, time <= time'
  PROVE  /\ BufferTells => BufferTells'
         /\ BufferOrder => BufferOrder'
         /\ SessionTells => SessionTells'
         /\ RowsTell => RowsTell'
<1>1. UNCHANGED <<pages, sessions, goals>>
  BY DEF tables
<1>2. BufferTells => BufferTells'
  BY DEF BufferTells, Fresh, Shows
<1>3. BufferOrder => BufferOrder'
  <2> SUFFICES ASSUME BufferOrder PROVE BufferOrder'
    OBVIOUS
  <2>1. time \in Int /\ \A i \in DOMAIN buffer : buffer[i].version \in Int
    <3>1. \A i \in DOMAIN buffer : buffer[i] \in EventType
      BY RowsHaveVersions
    <3> QED BY <3>1 DEF DelTypes, EventType
  <2>2. \A p \in pages : p.version \in Int
    BY DEF DelTypes
  <2>3. \A i \in DOMAIN buffer : buffer[i].version <= time'
    BY <2>1 DEF BufferOrder
  <2>4. \A p \in pages : p.version <= time'
    BY <2>1, <2>2 DEF BufferOrder
  <2> QED BY <1>1, <2>3, <2>4 DEF BufferOrder
<1>4. SessionTells => SessionTells'
  BY <1>1 DEF SessionTells
<1>5. RowsTell => RowsTell'
  BY <1>1 DEF RowsTell, OneTab
<1> QED BY <1>2, <1>3, <1>4, <1>5

\* The invariant is kept.
LEMMA StepDelInv == DeliveryAssumption /\ DelInv /\ [DelNext]_delVars => DelInv'
<1> SUFFICES ASSUME DeliveryAssumption, DelInv, [DelNext]_delVars PROVE DelInv'
  OBVIOUS
<1>1. DelTypes /\ UnderWay /\ HistoryIsTold /\ TimesAreRight
  BY DEF DelInv
<1>2. DelTypes' /\ UnderWay' /\ HistoryIsTold' /\ TimesAreRight'
  BY <1>1, StepDelTypes, StepUnderWay, StepTold, StepTimes
<1> DEFINE Tells == BufferTells /\ BufferOrder /\ SessionTells /\ RowsTell
<1>3. ~skewed => Tells
  BY DEF DelInv
<1>4. SUFFICES ASSUME ~skewed' PROVE Tells'
  BY <1>2 DEF DelInv
<1>5. time \in Nat /\ time' \in Nat
  BY <1>1, <1>2 DEF DelTypes
<1>6. ASSUME UNCHANGED <<offset, buffer, tables, taken, inserted, swapped, twice, skewed>>, time <= time' PROVE Tells'
  BY <1>1, <1>3, <1>4, <1>5, <1>6, QuietTells
<1>7. ASSUME NEW t, Browse(t) \/ RecordGoal(t) \/ Send(t) PROVE Tells'
  <2>1. UNCHANGED <<offset, buffer, tables, taken, inserted, swapped, twice, skewed>> /\ time' = time
    BY <1>7 DEF Browse, RecordGoal, Send
  <2> HIDE DEF Tells
  <2> QED BY <1>5, <1>6, <2>1
<1>8. ASSUME NEW m, Resend(m) \/ Refuse(m) PROVE Tells'
  <2>1. UNCHANGED <<offset, buffer, tables, taken, inserted, swapped, twice, skewed>> /\ time' = time
    BY <1>8 DEF Resend, Refuse
  <2> HIDE DEF Tells
  <2> QED BY <1>5, <1>6, <2>1
<1>9. ASSUME NEW m \in wire, Take(m) PROVE Tells'
  <2>1. ~skewed
    BY <1>4, <1>9 DEF Take
  <2>2. BufferTells' /\ BufferOrder'
    BY <1>1, <1>3, <1>4, <1>9, <2>1, TakeTells
  <2>3. UNCHANGED <<sessions, pages, goals, inserted, twice, offset>> /\ (~swapped' => ~swapped)
    BY <1>9 DEF Take, tables
  <2>4. SessionTells'
    BY <1>3, <2>1, <2>3 DEF SessionTells
  <2>5. RowsTell'
    BY <1>3, <2>1, <2>3 DEF RowsTell, OneTab
  <2> QED BY <2>2, <2>4, <2>5
<1>10. CASE InsertBlock
  <2>1. ~skewed
    BY <1>4, <1>10 DEF InsertBlock
  <2> QED BY <1>1, <1>3, <1>10, <2>1, FlushTells
<1>11. CASE Elapse
  <2>1. UNCHANGED <<offset, buffer, tables, taken, inserted, swapped, twice, skewed>> /\ time' = time + 1
    BY <1>11 DEF Elapse
  <2> HIDE DEF Tells
  <2> QED BY <1>5, <1>6, <2>1
<1>12. CASE UNCHANGED delVars
  <2>1. UNCHANGED <<offset, buffer, tables, taken, inserted, swapped, twice, skewed>> /\ time' = time
    BY <1>12 DEF delVars
  <2> HIDE DEF Tells
  <2> QED BY <1>5, <1>6, <2>1
<1> HIDE DEF Tells
<1> QED BY <1>7, <1>8, <1>9, <1>10, <1>11, <1>12 DEF DelNext

\* It holds at the beginning.
LEMMA InitDelInv == DeliveryAssumption /\ DelInit => DelInv
<1> SUFFICES ASSUME DeliveryAssumption, DelInit PROVE DelInv
  OBVIOUS
<1>1. /\ time = 0 /\ offset \in Int /\ wire = {} /\ sends = 0 /\ buffer = <<>> /\ eventRows = {} /\ sessions = {}
      /\ pages = {} /\ goals = {} /\ taken = {} /\ inserted = {} /\ skewed = FALSE /\ actionLog = [t \in Tabs |-> <<>>]
  BY DEF DelInit, DeliveryAssumption
<1>2. actionLog \in [Tabs -> Seq(ActionType)] /\ \A t \in Tabs : DOMAIN actionLog[t] = {}
  <2>1. <<>> \in Seq(ActionType) /\ DOMAIN <<>> = {}
    OBVIOUS
  <2> DEFINE S == Seq(ActionType)
             e == <<>>
  <2>2. e \in S /\ DOMAIN e = {} /\ actionLog = [t \in Tabs |-> e]
    BY <1>1, <2>1
  <2> HIDE DEF S, e
  <2>3. actionLog \in [Tabs -> S] /\ \A t \in Tabs : DOMAIN actionLog[t] = {}
    BY <2>2
  <2> QED BY <2>3 DEF S
<1>3. buffer \in Seq(EventType) /\ DOMAIN buffer = {}
  BY <1>1
<1>4. DelTypes
  BY <1>1, <1>2, <1>3 DEF DelTypes
<1>5. UnderWay
  BY <1>1 DEF UnderWay
<1>6. HistoryIsTold
  BY <1>1, <1>2 DEF HistoryIsTold, Told, PagesOnce, PagesEnd
<1>7. TimesAreRight
  BY <1>1, <1>3 DEF TimesAreRight, Range
<1>8. BufferTells /\ BufferOrder /\ SessionTells
  BY <1>1, <1>3 DEF BufferTells, Fresh, BufferOrder, SessionTells
<1>9. RowsTell
  <2>1. \A kind : Actions({}, kind) = {}
    BY DEF Actions
  <2> QED BY <1>1, <2>1 DEF RowsTell
<1> QED BY <1>4, <1>5, <1>6, <1>7, <1>8, <1>9 DEF DelInv

\* What the invariant says of the tables.
LEMMA TablesFollow == DelInv => TablesAreRight
<1> SUFFICES ASSUME DelInv PROVE TablesAreRight
  OBVIOUS
<1>1. DelTypes /\ TimesAreRight /\ (~skewed => SessionTells /\ RowsTell)
  BY DEF DelInv
<1>2. SessionIsNewest
  BY <1>1 DEF SessionIsNewest, SessionTells
<1>3. OneRowEach
  <2> SUFFICES ASSUME ~skewed PROVE OneRowEach
    BY DEF OneRowEach
  <2>1. RowsTell
    BY <1>1
  <2>2. ASSUME OneTab, ~swapped, NEW p \in pages
        PROVE  p.duration = Max({a.until - a.at : a \in {b \in Actions(inserted, "pageview") : b.number = p.number}})
    <3> DEFINE V == {b \in Actions(inserted, "pageview") : b.number = p.number}
               S == {a.until - a.at : a \in V}
    <3>1. LastsAs(p, inserted)
      BY <2>1, <2>2 DEF RowsTell
    <3>2. PICK m \in inserted : \E k \in DOMAIN m.actions :
            /\ m.actions[k].kind = "pageview" /\ m.actions[k].number = p.number
            /\ p.duration = m.actions[k].until - m.actions[k].at
      BY <3>1 DEF LastsAs
    <3>3. PICK k \in DOMAIN m.actions :
            /\ m.actions[k].kind = "pageview" /\ m.actions[k].number = p.number
            /\ p.duration = m.actions[k].until - m.actions[k].at
      BY <3>2
    <3>4. m.actions[k] \in V
      BY <3>3, ActionsAre
    <3>5. p.duration \in S
      BY <3>3, <3>4
    <3>6. ASSUME NEW a \in V PROVE a.until - a.at \in Int /\ a.until - a.at <= p.duration
      <4>1. PICK o \in inserted : \E j \in DOMAIN o.actions : a = o.actions[j] /\ a.kind = "pageview"
        BY ActionsAre
      <4>2. PICK j \in DOMAIN o.actions : a = o.actions[j] /\ a.kind = "pageview"
        BY <4>1
      <4>3. o \in PayloadType
        BY <1>1 DEF DelTypes
      <4>4. a.until \in Int /\ a.at \in Int
        BY <4>2, <4>3 DEF PayloadType, ActionType, PageType, GoalType
      <4> QED BY <3>1, <4>2, <4>4 DEF LastsAs
    <3>7. S \in SUBSET Int /\ \A y \in S : y <= p.duration
      <4> HIDE DEF V
      <4> QED BY <3>6
    <3>8. Max(S) = p.duration
      <4> HIDE DEF S, V
      <4> QED BY <3>5, <3>7, MaxIs
    <3> QED BY <3>8
  <2> HIDE DEF OneTab
  <2> QED BY <2>1, <2>2 DEF OneRowEach, RowsTell
<1> QED BY <1>1, <1>2, <1>3 DEF TablesAreRight

\* Whatever was sent again, late or out of order: a session is one row, that of the payload that
\* was built last; each page and each goal has one row; and the times that are stored are right
\* within the threshold and the time a payload is under way (api/src/database/schemas.ts,
\* api/src/events/session-payload.handler.ts).
THEOREM TablesTellTheSession == DeliveryAssumption => (DelSpec => []TablesAreRight)
<1> SUFFICES ASSUME DeliveryAssumption PROVE DelSpec => []TablesAreRight
  OBVIOUS
<1>1. DelInit => DelInv
  BY InitDelInv
<1>2. DelInv /\ [DelNext]_delVars => DelInv'
  BY StepDelInv
<1>3. DelInv => TablesAreRight
  BY TablesFollow
<1> QED BY <1>1, <1>2, <1>3, PTL DEF DelSpec
=============================================================================
