--------------------------- MODULE Reading_proofs ---------------------------
(***************************************************************************)
(* Proofs about what a caller of the API may read and is told: ApiKeys,      *)
(* QueryCache and Export, for any numbers of requests, queries and rows; and *)
(* about the workspace whose settings he changes: Workspaces, for any number *)
(* of calls and payloads; and about what its filters make of its data:       *)
(* Rules, for any filters.                                                   *)
(*                                                                          *)
(* ApiKeys: an ended key is refused because, as long as nothing has crossed  *)
(* its end, a revoked row is stamped after every row that could make the key *)
(* active again: the active rows stored, those that uses are about to        *)
(* insert, and those they have yet to read.                                  *)
(*                                                                          *)
(* QueryCache: an answer travels from the execution of one query to the      *)
(* cache and to callers with other queries; what it keeps is that some query *)
(* with the same key sorts so.  A backfill is seen because what is cached,   *)
(* executed or looked up under a key that is not tracked is among the keys   *)
(* that were being asked for when a clearing ended.                          *)
(*                                                                          *)
(* Export: a page is closed downwards in the order of the cursor, so that    *)
(* what is not behind its last row has been read; and a page that is not     *)
(* full holds all the rows there are.                                        *)
(*                                                                          *)
(* Workspaces: rows are told apart by their stamps, and a call that has      *)
(* doomed all of them is about to insert one.  While calls take turns, rows  *)
(* that last are newer than those to go, so that what is read is what the    *)
(* calls before have made, and a call under way is on the way to what it     *)
(* means (TurnInv).  Payloads are judged by rows that were to be seen no     *)
(* longer ago than a cached row lives.                                       *)
(*                                                                          *)
(* Rules: a row is what the evaluator makes of an event, or what the         *)
(* compiled filters make of the row a backfill found (RulesInv).  Where no   *)
(* two operations meet in one priority, the first operation of those that    *)
(* match decides in the evaluator too, although it executes them all.        *)
(***************************************************************************)
EXTENDS ApiKeys, QueryCache, Export, Workspaces, Rules, FiniteSetTheorems, WellFoundedInduction, TLAPS

-----------------------------------------------------------------------------
(* ApiKeys *)

Row == [stamp : Nat, status : {"active", "revoked"}, lapses : BOOLEAN]

UseState == {Unmade, Over}
              \cup [at : {"read", "used"}, stamp : Nat, late : BOOLEAN]
              \cup [at : {"insert"}, late : BOOLEAN, row : Row]
              \cup [at : {"used"}, late : BOOLEAN]
RevocationState == {Unmade, Over} \cup [at : {"delete", "insert"}, row : Row]

KeysTypeOK ==
  /\ keyRows \in SUBSET Row /\ keyDoomed \in SUBSET Row
  /\ keyMade \in BOOLEAN /\ keyLapsed \in BOOLEAN /\ keyPurged \in BOOLEAN
  /\ keyCrossed \in BOOLEAN /\ keyEnded \in BOOLEAN /\ keyStamps \in Nat
  /\ use \in [Uses -> UseState]
  /\ revocation \in [Revocations -> RevocationState]

Revoking(v) == revocation[v].at \in {"delete", "insert"}

\* Every stamp in use was given.
StampsGiven ==
  /\ \A r \in keyRows \cup keyDoomed : r.stamp <= keyStamps
  /\ \A u \in Uses : /\ use[u].at = "read" => use[u].stamp <= keyStamps
                     /\ use[u].at = "insert" => use[u].row.stamp <= keyStamps
  /\ \A v \in Revocations : Revoking(v) => revocation[v].row.stamp <= keyStamps

\* Nothing happens to a key that was not created.
NothingBeforeCreate ==
  ~keyMade => /\ keyRows = {} /\ keyDoomed = {} /\ ~keyEnded /\ ~keyPurged
              /\ \A u \in Uses : use[u] = Unmade
              /\ \A v \in Revocations : revocation[v] = Unmade

\* The row a revocation will insert is revoked and has its stamp for itself.
RevocationsStandApart ==
  \A v \in Revocations : Revoking(v) =>
    LET s == revocation[v].row.stamp
    IN /\ revocation[v].row.status = "revoked"
       /\ \A r \in keyRows \cup keyDoomed : r.stamp # s
       /\ \A u \in Uses : /\ use[u].at = "read" => use[u].stamp # s
                          /\ use[u].at = "insert" => use[u].row.stamp # s
       /\ \A w \in Revocations \ {v} : Revoking(w) => revocation[w].row.stamp # s

\* s is newer than every row that is active or may become so.
NewerThanActive(s) ==
  /\ \A r \in keyRows : r.status = "active" => r.stamp < s
  /\ \A u \in Uses : /\ use[u].at = "read" /\ ~keyPurged => use[u].stamp < s
                     /\ use[u].at = "insert" /\ use[u].row.status = "active"
                          => use[u].row.stamp < s

NothingActive ==
  /\ \A r \in keyRows : r.status # "active"
  /\ \A u \in Uses : /\ use[u].at = "read" => keyPurged
                     /\ use[u].at = "insert" => use[u].row.status # "active"

\* A revoked row counts that no deletion on its way can take away, but the last one.
Topped ==
  \E r \in keyRows : /\ r.status = "revoked"
                     /\ r \notin keyDoomed \/ keyPurged
                     /\ NewerThanActive(r.stamp)

RevocationsWin ==
  /\ \A v \in Revocations : Revoking(v) => NewerThanActive(revocation[v].row.stamp)
  /\ keyPurged => /\ \A u \in Uses : use[u].at # "insert"
                  /\ \A r \in keyRows : r.status = "active" => r \in keyDoomed
  /\ keyEnded => (\E v \in Revocations : Revoking(v)) \/ NothingActive \/ Topped

KeysInv == /\ KeysTypeOK /\ StampsGiven /\ NothingBeforeCreate /\ RevocationsStandApart
           /\ EndedKeyIsRefused
           /\ ~keyCrossed => RevocationsWin

-----------------------------------------------------------------------------
(* The newest row. *)

\* Every set of naturals that has a member has a least one: the intervals below its
\* members are well founded.
LEMMA LeastNatural ==
  ASSUME NEW S \in SUBSET Nat, S # {}
  PROVE  \E m \in S : \A x \in S : m <= x
<1>1. PICK n \in S : TRUE
  OBVIOUS
<1> DEFINE F == {0..m : m \in {x \in S : x <= n}}
<1>2. IsWellFoundedOn(StrictSubsetOrdering(0..n), FiniteSubsetsOf(0..n))
  BY FS_StrictSubsetOrderingWellFounded
<1>3. F \subseteq FiniteSubsetsOf(0..n)
  <2> SUFFICES ASSUME NEW m \in S, m <= n PROVE 0..m \in FiniteSubsetsOf(0..n)
    OBVIOUS
  <2>1. m \in Nat /\ n \in Nat
    OBVIOUS
  <2>2. IsFiniteSet(0..m)
    BY <2>1, FS_Interval
  <2>. QED  BY <2>1, <2>2 DEF FiniteSubsetsOf
<1>4. F # {}
  BY <1>1
<1>5. \E A \in F : \A B \in F : ~(<<B, A>> \in StrictSubsetOrdering(0..n))
  <2> HIDE DEF F
  <2>. QED  BY <1>2, <1>3, <1>4, WFMin
<1>6. PICK m \in S : m <= n /\ \A B \in F : ~(<<B, 0..m>> \in StrictSubsetOrdering(0..n))
  BY <1>5
<1>7. ASSUME NEW x \in S, x < m PROVE FALSE
  <2>1. x \in Nat /\ m \in Nat /\ n \in Nat /\ x <= n
    BY <1>6, <1>7
  <2>2. 0..x \in F
    BY <2>1
  <2>3. /\ 0..x \in SUBSET (0..n) /\ 0..m \in SUBSET (0..n)
        /\ 0..x \subseteq 0..m
    BY <1>6, <1>7, <2>1
  <2>4. m \in 0..m /\ m \notin 0..x
    BY <1>7, <2>1
  <2>5. <<0..x, 0..m>> \in StrictSubsetOrdering(0..n)
    BY <2>3, <2>4 DEF StrictSubsetOrdering
  <2>. QED  BY <1>6, <2>2, <2>5
<1>. QED  BY <1>7

\* Every bounded set of naturals that has a member has a greatest one.
LEMMA GreatestNatural ==
  ASSUME NEW n \in Nat, NEW S \in SUBSET (0..n), S # {}
  PROVE  \E m \in S : \A x \in S : x <= m
<1> DEFINE T == {n - x : x \in S}
<1>1. T \in SUBSET Nat
  OBVIOUS
<1>2. PICK k \in T : \A j \in T : k <= j
  <2>1. T # {}
    OBVIOUS
  <2>. QED  BY <1>1, <2>1, LeastNatural
<1>3. PICK m \in S : k = n - m
  BY <1>2
<1>4. ASSUME NEW x \in S PROVE x <= m
  <2>1. n - x \in T
    OBVIOUS
  <2>2. n - m <= n - x
    BY <1>2, <1>3, <2>1
  <2>. QED  BY <2>2
<1>. QED  BY <1>4

\* The row that counts is a stored row, and none is newer.
LEMMA LatestKeyIsNewest ==
  ASSUME KeysTypeOK, StampsGiven, keyRows # {}
  PROVE  /\ LatestKey \in keyRows
         /\ \A r \in keyRows : r.stamp <= LatestKey.stamp
<1> DEFINE S == {r.stamp : r \in keyRows}
<1>1. S \in SUBSET (0..keyStamps) /\ S # {} /\ keyStamps \in Nat
  BY DEF KeysTypeOK, StampsGiven, Row
<1>2. PICK m \in S : \A x \in S : x <= m
  <2> HIDE DEF S
  <2>. QED  BY <1>1, GreatestNatural
<1>3. \E r \in keyRows : \A o \in keyRows : o.stamp <= r.stamp
  BY <1>2
<1>. QED  BY <1>3 DEF LatestKey

\* Two stamps the newest of which is also the older.
LEMMA AcceptedIsActive ==
  ASSUME KeysTypeOK, StampsGiven, Accepted
  PROVE  ~NothingActive /\ ~Topped
<1>1. /\ LatestKey \in keyRows /\ LatestKey.status = "active"
      /\ \A r \in keyRows : r.stamp <= LatestKey.stamp
  BY LatestKeyIsNewest DEF Accepted
<1>2. \A r \in keyRows : r.stamp \in Nat
  BY DEF KeysTypeOK, Row
<1>. QED  BY <1>1, <1>2 DEF NothingActive, Topped, NewerThanActive

\* Stamps are numbers, wherever they are.
LEMMA StampsAreNumbers ==
  ASSUME KeysTypeOK
  PROVE  /\ keyStamps \in Nat
         /\ \A r \in keyRows \cup keyDoomed : r.stamp \in Nat
         /\ \A u \in Uses : /\ use[u].at = "read" => use[u].stamp \in Nat
                            /\ use[u].at = "insert" => use[u].row.stamp \in Nat
         /\ \A v \in Revocations : Revoking(v) => revocation[v].row.stamp \in Nat
<1>1. \A r \in keyRows \cup keyDoomed : r.stamp \in Nat
  BY DEF KeysTypeOK, Row
<1>2. \A u \in Uses : /\ use[u].at = "read" => use[u].stamp \in Nat
                      /\ use[u].at = "insert" => use[u].row.stamp \in Nat
  BY DEF KeysTypeOK, UseState, Row, Unmade, Over
<1>3. \A v \in Revocations : Revoking(v) => revocation[v].row.stamp \in Nat
  BY DEF KeysTypeOK, RevocationState, Row, Revoking, Unmade, Over
<1>. QED  BY <1>1, <1>2, <1>3 DEF KeysTypeOK

\* The next stamp is newer than all.
LEMMA NextStampIsNewest ==
  ASSUME KeysTypeOK, StampsGiven
  PROVE  /\ \A r \in keyRows \cup keyDoomed : r.stamp < keyStamps + 1
         /\ \A u \in Uses : /\ use[u].at = "read" => use[u].stamp < keyStamps + 1
                            /\ use[u].at = "insert" => use[u].row.stamp < keyStamps + 1
         /\ \A v \in Revocations : Revoking(v) => revocation[v].row.stamp < keyStamps + 1
<1>1. \A n \in Nat : n <= keyStamps => n < keyStamps + 1
  BY StampsAreNumbers
<1>. QED  BY <1>1, StampsAreNumbers DEF StampsGiven

-----------------------------------------------------------------------------
(* Each action preserves the invariant. *)

\* Before a key is created nothing has ended.
LEMMA KeysInitInv == KeysInit => KeysInv
<1> SUFFICES ASSUME KeysInit PROVE KeysInv
  OBVIOUS
<1>1. /\ keyRows = {} /\ keyDoomed = {} /\ keyStamps = 0 /\ ~keyEnded /\ ~keyPurged
      /\ \A u \in Uses : use[u] = Unmade
      /\ \A v \in Revocations : revocation[v] = Unmade
  BY DEF KeysInit
<1>2. Unmade.at = "new"
  BY DEF Unmade
<1>3. KeysTypeOK
  BY DEF KeysInit, KeysTypeOK, UseState, RevocationState
<1>4. StampsGiven
  BY <1>1, <1>2 DEF StampsGiven, Revoking
<1>5. NothingBeforeCreate
  BY <1>1 DEF NothingBeforeCreate
<1>6. RevocationsStandApart
  BY <1>1, <1>2 DEF RevocationsStandApart, Revoking
<1>7. EndedKeyIsRefused
  BY <1>1, <1>2 DEF EndedKeyIsRefused
<1>8. RevocationsWin
  BY <1>1, <1>2 DEF RevocationsWin, Revoking
<1>. QED  BY <1>3, <1>4, <1>5, <1>6, <1>7, <1>8 DEF KeysInv

\* A key that is created has one row, and nobody has read it.
LEMMA CreatePreserves ==
  ASSUME KeysInv, Create
  PROVE  KeysInv'
<1>1. /\ ~keyMade /\ keyMade' = TRUE /\ keyStamps' = keyStamps + 1 /\ keyStamps \in Nat
      /\ UNCHANGED <<keyDoomed, keyLapsed, use, revocation, keyPurged, keyCrossed, keyEnded>>
      /\ keyDoomed = {} /\ ~keyEnded /\ ~keyPurged
      /\ \A u \in Uses : use[u] = Unmade
      /\ \A v \in Revocations : revocation[v] = Unmade
  BY DEF Create, KeysInv, KeysTypeOK, NothingBeforeCreate
<1>2. PICK lapses \in BOOLEAN :
        keyRows' = {[stamp |-> keyStamps', status |-> "active", lapses |-> lapses]}
  BY DEF Create
<1>3. \A u \in Uses : use[u].at = "new"
  BY <1>1 DEF Unmade
<1>4. \A v \in Revocations : revocation[v].at = "new"
  BY <1>1 DEF Unmade
<1>5. KeysTypeOK'
  BY <1>1, <1>2 DEF KeysInv, KeysTypeOK, Row
<1>6. StampsGiven'
  BY <1>1, <1>2, <1>3, <1>4 DEF StampsGiven, Revoking
<1>7. NothingBeforeCreate'
  BY <1>1 DEF NothingBeforeCreate
<1>8. RevocationsStandApart'
  BY <1>1, <1>4 DEF RevocationsStandApart, Revoking
<1>9. EndedKeyIsRefused'
  BY <1>1, <1>3 DEF EndedKeyIsRefused
<1>10. RevocationsWin'
  BY <1>1, <1>4 DEF RevocationsWin, Revoking
<1>. QED  BY <1>5, <1>6, <1>7, <1>8, <1>9, <1>10 DEF KeysInv

\* A use is accepted while the newest row is active; its stamp is newer than all, older than that of any
\* revocation to come.
LEMMA UseAcceptedPreserves ==
  ASSUME KeysInv, NEW u \in Uses, UseAccepted(u)
  PROVE  KeysInv'
<1> DEFINE new == [at |-> "read", stamp |-> keyStamps + 1, late |-> keyEnded]
<1>1. /\ use[u] = Unmade /\ Accepted /\ keyStamps' = keyStamps + 1 /\ keyStamps \in Nat
      /\ use' = [use EXCEPT ![u] = new]
      /\ keyCrossed' = (keyCrossed \/ \E v \in Revocations : Revoking(v))
      /\ UNCHANGED <<keyRows, keyDoomed, keyMade, keyLapsed, revocation, keyPurged, keyEnded>>
  BY DEF UseAccepted, KeysInv, KeysTypeOK, Revoking
<1>2. /\ new.at = "read" /\ new.stamp = keyStamps + 1 /\ new.late = keyEnded
      /\ use'[u] = new /\ \A q \in Uses \ {u} : use'[q] = use[q]
  BY <1>1 DEF KeysInv, KeysTypeOK
<1>3. KeysTypeOK'
  <2>1. new \in UseState
    BY <1>1 DEF KeysInv, KeysTypeOK, UseState
  <2> HIDE DEF new
  <2>2. keyCrossed' \in BOOLEAN
    BY <1>1
  <2>. QED  BY <1>1, <2>1, <2>2 DEF KeysInv, KeysTypeOK
<1> HIDE DEF new
<1>4. StampsGiven'
  <2>1. \A n \in Nat : n < keyStamps + 1 => n <= keyStamps'
    BY <1>1
  <2>2. keyStamps + 1 <= keyStamps'
    BY <1>1
  <2>. QED  BY <1>1, <1>2, <2>1, <2>2, NextStampIsNewest, StampsAreNumbers
            DEF KeysInv, StampsGiven, Revoking
<1>5. NothingBeforeCreate'
  BY <1>1 DEF KeysInv, NothingBeforeCreate, Accepted
<1>6. RevocationsStandApart'
  <2>1. \A n \in Nat : n < keyStamps + 1 => n # keyStamps + 1
    OBVIOUS
  <2>. QED  BY <1>1, <1>2, <2>1, NextStampIsNewest, StampsAreNumbers
            DEF KeysInv, RevocationsStandApart, Revoking
<1>7. ~keyCrossed' => ~keyCrossed /\ ~keyEnded /\ \A v \in Revocations : ~Revoking(v)
  BY <1>1, AcceptedIsActive DEF KeysInv, RevocationsWin
<1>8. EndedKeyIsRefused'
  BY <1>1, <1>2, <1>7 DEF KeysInv, EndedKeyIsRefused
<1>9. ASSUME ~keyCrossed' PROVE RevocationsWin'
  BY <1>1, <1>2, <1>7, <1>9 DEF KeysInv, RevocationsWin, Revoking
<1>. QED  BY <1>3, <1>4, <1>5, <1>6, <1>8, <1>9 DEF KeysInv

\* A refused use is over: it neither reads nor writes.
LEMMA UseRefusedPreserves ==
  ASSUME KeysInv, NEW u \in Uses, UseRefused(u)
  PROVE  KeysInv'
<1>1. /\ use[u] = Unmade /\ keyMade
      /\ use' = [use EXCEPT ![u] = Over]
      /\ UNCHANGED <<keyRows, keyDoomed, keyMade, keyStamps, keyLapsed, revocation, keyPurged,
                     keyCrossed, keyEnded>>
  BY DEF UseRefused
<1>2. /\ use'[u] = Over /\ Over.at = "over"
      /\ \A q \in Uses \ {u} : use'[q] = use[q]
  BY <1>1 DEF KeysInv, KeysTypeOK, Over
<1>3. KeysTypeOK'
  BY <1>1 DEF KeysInv, KeysTypeOK, UseState
<1>4. StampsGiven'
  BY <1>1, <1>2 DEF KeysInv, StampsGiven, Revoking
<1>5. NothingBeforeCreate'
  BY <1>1 DEF NothingBeforeCreate
<1>6. RevocationsStandApart'
  BY <1>1, <1>2 DEF KeysInv, RevocationsStandApart, Revoking
<1>7. EndedKeyIsRefused'
  BY <1>1, <1>2 DEF KeysInv, EndedKeyIsRefused
<1>8. ASSUME ~keyCrossed' PROVE RevocationsWin'
  BY <1>1, <1>2, <1>8
     DEF KeysInv, RevocationsWin, Revoking, NewerThanActive, NothingActive, Topped
<1>. QED  BY <1>3, <1>4, <1>5, <1>6, <1>7, <1>8 DEF KeysInv

\* updateLastUsed reads the row: what it will insert has the stamp it took before.
LEMMA UsedReadsPreserves ==
  ASSUME KeysInv, NEW u \in Uses, UsedReads(u)
  PROVE  KeysInv'
<1> DEFINE new == IF keyRows = {} THEN [use[u] EXCEPT !.at = "used"]
                  ELSE [at |-> "insert", late |-> use[u].late,
                        row |-> [LatestKey EXCEPT !.stamp = use[u].stamp]]
<1>1. /\ use[u].at = "read"
      /\ use' = [use EXCEPT ![u] = new]
      /\ keyCrossed' = (keyCrossed \/ (keyPurged /\ keyRows # {}))
      /\ UNCHANGED <<keyRows, keyDoomed, keyMade, keyStamps, keyLapsed, revocation, keyPurged,
                     keyEnded>>
  BY DEF UsedReads, KeysInv, KeysTypeOK
<1>2. use[u] \in [at : {"read", "used"}, stamp : Nat, late : BOOLEAN] /\ use[u] # Unmade
  BY <1>1 DEF KeysInv, KeysTypeOK, UseState, Unmade, Over
<1>3. /\ new \in UseState
      /\ new.late = use[u].late
      /\ new.at \in {"used", "insert"}
      /\ new.at = "insert" => /\ keyRows # {}
                              /\ new.row.stamp = use[u].stamp
  <2>1. CASE keyRows = {}
    BY <1>2, <2>1 DEF UseState
  <2>2. CASE keyRows # {}
    <3>1. LatestKey \in Row
      BY <2>2, LatestKeyIsNewest DEF KeysInv, KeysTypeOK
    <3>2. /\ [LatestKey EXCEPT !.stamp = use[u].stamp] \in Row
          /\ [LatestKey EXCEPT !.stamp = use[u].stamp].stamp = use[u].stamp
      BY <1>2, <3>1 DEF Row
    <3>. QED  BY <1>2, <2>2, <3>2 DEF UseState
  <2>. QED  BY <2>1, <2>2
<1> HIDE DEF new
<1>4. use'[u] = new /\ \A q \in Uses \ {u} : use'[q] = use[q]
  BY <1>1 DEF KeysInv, KeysTypeOK
<1>5. KeysTypeOK'
  BY <1>1, <1>3 DEF KeysInv, KeysTypeOK
<1>6. StampsGiven'
  BY <1>1, <1>3, <1>4 DEF KeysInv, StampsGiven, Revoking
<1>7. NothingBeforeCreate'
  BY <1>1, <1>2 DEF KeysInv, NothingBeforeCreate
<1>8. RevocationsStandApart'
  BY <1>1, <1>3, <1>4 DEF KeysInv, RevocationsStandApart, Revoking
<1>9. EndedKeyIsRefused'
  BY <1>1, <1>3, <1>4 DEF KeysInv, EndedKeyIsRefused
<1>10. ASSUME ~keyCrossed' PROVE RevocationsWin'
  <2>1. ~keyCrossed /\ (new.at = "insert" => ~keyPurged)
    BY <1>1, <1>3, <1>10
  <2>2. \A s : NewerThanActive(s) => NewerThanActive(s)'
    BY <1>1, <1>3, <1>4, <2>1 DEF NewerThanActive
  <2>3. NothingActive => NothingActive'
    BY <1>1, <1>3, <1>4, <2>1 DEF NothingActive
  <2>4. Topped => Topped'
    BY <1>1, <2>2 DEF Topped
  <2>. QED  BY <1>1, <1>3, <1>4, <2>1, <2>2, <2>3, <2>4 DEF KeysInv, RevocationsWin, Revoking
<1>. QED  BY <1>5, <1>6, <1>7, <1>8, <1>9, <1>10 DEF KeysInv

\* updateLastUsed inserts the row it made: nothing more is active than was about to be.
LEMMA UsedInsertsPreserves ==
  ASSUME KeysInv, NEW u \in Uses, UsedInserts(u)
  PROVE  KeysInv'
<1> DEFINE new == [at |-> "used", late |-> use[u].late]
           row == use[u].row
<1>1. /\ use[u].at = "insert"
      /\ use' = [use EXCEPT ![u] = new]
      /\ keyStamps' = keyStamps + 1 /\ keyStamps \in Nat
      /\ UNCHANGED <<keyDoomed, keyMade, keyLapsed, revocation, keyPurged, keyCrossed, keyEnded>>
  BY DEF UsedInserts, KeysInv, KeysTypeOK
<1>2. use[u] \in [at : {"insert"}, late : BOOLEAN, row : Row] /\ use[u] # Unmade
  BY <1>1 DEF KeysInv, KeysTypeOK, UseState, Unmade, Over
<1>3. row \in Row /\ keyRows' = keyRows \cup {row}
  <2>1. row \in Row
    BY <1>2
  <2>2. [row EXCEPT !.stamp = row.stamp] = row
    BY <2>1 DEF Row
  <2>. QED  BY <2>1, <2>2 DEF UsedInserts, UsedStamp
<1>4. new \in UseState /\ new.at = "used" /\ new.late = use[u].late
  BY <1>2 DEF UseState
<1>5. use'[u] = new /\ \A q \in Uses \ {u} : use'[q] = use[q]
  BY <1>1 DEF KeysInv, KeysTypeOK
<1>6. /\ row.stamp \in Nat /\ row.stamp <= keyStamps
      /\ row.status \in {"active", "revoked"}
  BY <1>1, <1>3 DEF KeysInv, StampsGiven, Row
<1>7. KeysTypeOK'
  <2>1. keyRows' \in SUBSET Row
    BY <1>3 DEF KeysInv, KeysTypeOK
  <2>. QED  BY <1>1, <1>4, <2>1 DEF KeysInv, KeysTypeOK
<1>8. StampsGiven'
  <2>1. \A n \in Nat : n < keyStamps + 1 => n <= keyStamps'
    BY <1>1
  <2>. QED  BY <1>1, <1>3, <1>4, <1>5, <1>6, <2>1, NextStampIsNewest, StampsAreNumbers
            DEF KeysInv, StampsGiven, Revoking
<1>9. NothingBeforeCreate'
  BY <1>1, <1>2 DEF KeysInv, NothingBeforeCreate
<1> HIDE DEF new
<1>10. RevocationsStandApart'
  BY <1>1, <1>3, <1>4, <1>5 DEF KeysInv, RevocationsStandApart, Revoking
<1>11. EndedKeyIsRefused'
  BY <1>1, <1>4, <1>5 DEF KeysInv, EndedKeyIsRefused
<1>12. ASSUME ~keyCrossed' PROVE RevocationsWin'
  <2>1. ~keyCrossed /\ ~keyPurged
    BY <1>1, <1>12 DEF KeysInv, RevocationsWin
  <2>2. \A s : NewerThanActive(s) => NewerThanActive(s)'
    BY <1>1, <1>3, <1>4, <1>5 DEF NewerThanActive
  <2>3. NothingActive => NothingActive'
    BY <1>1, <1>3, <1>4, <1>5 DEF NothingActive
  <2>4. Topped => Topped'
    BY <1>1, <1>3, <2>2 DEF Topped
  <2>. QED  BY <1>1, <2>1, <2>2, <2>3, <2>4 DEF KeysInv, RevocationsWin, Revoking
<1>. QED  BY <1>7, <1>8, <1>9, <1>10, <1>11, <1>12 DEF KeysInv

\* A revocation takes the newest stamp of all.
LEMMA RevokeReadsPreserves ==
  ASSUME KeysInv, NEW v \in Revocations, RevokeReads(v)
  PROVE  KeysInv'
<1> DEFINE row == [LatestKey EXCEPT !.status = "revoked", !.stamp = keyStamps + 1]
           new == [at |-> "delete", row |-> row]
<1>1. /\ revocation[v] = Unmade /\ keyRows # {}
      /\ keyStamps' = keyStamps + 1 /\ keyStamps \in Nat
      /\ revocation' = [revocation EXCEPT ![v] = new]
      /\ UNCHANGED <<keyRows, keyDoomed, keyMade, keyLapsed, use, keyPurged, keyCrossed, keyEnded>>
  BY DEF RevokeReads, KeysInv, KeysTypeOK
<1>2. /\ row \in Row /\ row.status = "revoked" /\ row.stamp = keyStamps + 1
  <2>1. LatestKey \in Row
    BY <1>1, LatestKeyIsNewest DEF KeysInv, KeysTypeOK
  <2>2. keyStamps + 1 \in Nat
    BY <1>1
  <2>. QED  BY <2>1, <2>2 DEF Row
<1> HIDE DEF row
<1>3. new \in RevocationState /\ new.row = row /\ new.at = "delete"
  BY <1>2 DEF RevocationState
<1> HIDE DEF new
<1>4. revocation'[v] = new /\ \A w \in Revocations \ {v} : revocation'[w] = revocation[w]
  BY <1>1 DEF KeysInv, KeysTypeOK
<1>5. KeysTypeOK'
  BY <1>1, <1>3 DEF KeysInv, KeysTypeOK
<1>6. /\ \A r \in keyRows \cup keyDoomed : r.stamp \in Nat /\ r.stamp < keyStamps + 1
      /\ \A q \in Uses :
            /\ use[q].at = "read" => use[q].stamp \in Nat /\ use[q].stamp < keyStamps + 1
            /\ use[q].at = "insert" => /\ use[q].row.stamp \in Nat
                                       /\ use[q].row.stamp < keyStamps + 1
      /\ \A w \in Revocations :
            Revoking(w) => /\ revocation[w].row.stamp \in Nat
                           /\ revocation[w].row.stamp < keyStamps + 1
  BY NextStampIsNewest, StampsAreNumbers DEF KeysInv
<1>7. StampsGiven'
  <2>1. \A n \in Nat : n < keyStamps + 1 => n <= keyStamps'
    BY <1>1
  <2>2. keyStamps + 1 <= keyStamps'
    BY <1>1
  <2>. QED  BY <1>1, <1>2, <1>3, <1>4, <1>6, <2>1, <2>2 DEF StampsGiven, Revoking
<1>8. NothingBeforeCreate'
  BY <1>1 DEF KeysInv, NothingBeforeCreate
<1>9. RevocationsStandApart'
  BY <1>1, <1>2, <1>3, <1>4, <1>6 DEF KeysInv, RevocationsStandApart, Revoking
<1>10. EndedKeyIsRefused'
  BY <1>1 DEF KeysInv, EndedKeyIsRefused
<1>11. ASSUME ~keyCrossed' PROVE RevocationsWin'
  <2>1. \A s : NewerThanActive(s) => NewerThanActive(s)'
    BY <1>1 DEF NewerThanActive
  <2>2. PICK s : s = keyStamps + 1
    OBVIOUS
  <2>6. NewerThanActive(s)'
    BY <1>1, <1>6, <2>2 DEF NewerThanActive
  <2>3. Revoking(v)'
    BY <1>3, <1>4 DEF Revoking
  <2>4. ASSUME NEW w \in Revocations, Revoking(w)'
        PROVE  NewerThanActive(revocation[w].row.stamp)'
    <3>1. CASE w = v
      <4>1. revocation'[w].row.stamp = s
        BY <1>2, <1>3, <1>4, <2>2, <3>1
      <4>. QED  BY <2>6, <4>1
    <3>2. CASE w # v
      BY <1>1, <1>4, <1>11, <2>1, <2>4, <3>2 DEF KeysInv, RevocationsWin, Revoking
    <3>. QED  BY <3>1, <3>2
  <2>5. keyPurged' => /\ \A q \in Uses : use'[q].at # "insert"
                      /\ \A r \in keyRows' : r.status = "active" => r \in keyDoomed'
    BY <1>1, <1>11 DEF KeysInv, RevocationsWin
  <2>. QED  BY <2>3, <2>4, <2>5 DEF RevocationsWin
<1>. QED  BY <1>5, <1>7, <1>8, <1>9, <1>10, <1>11 DEF KeysInv

\* A revocation dooms the rows there are, and goes on to insert its own.
LEMMA RevokeDeletesPreserves ==
  ASSUME KeysInv, NEW v \in Revocations, RevokeDeletes(v)
  PROVE  KeysInv'
<1> DEFINE new == [revocation[v] EXCEPT !.at = "insert"]
<1>1. /\ revocation[v].at = "delete"
      /\ keyDoomed' = keyRows
      /\ revocation' = [revocation EXCEPT ![v] = new]
      /\ UNCHANGED <<keyRows, keyMade, keyStamps, keyLapsed, use, keyPurged, keyCrossed, keyEnded>>
  BY DEF RevokeDeletes, KeysInv, KeysTypeOK
<1>2. /\ revocation[v] \in [at : {"delete", "insert"}, row : Row]
      /\ revocation[v] # Unmade /\ Revoking(v)
  BY <1>1 DEF KeysInv, KeysTypeOK, RevocationState, Unmade, Over, Revoking
<1>3. new \in RevocationState /\ new.row = revocation[v].row /\ new.at = "insert"
  BY <1>2 DEF RevocationState
<1> HIDE DEF new
<1>4. /\ revocation'[v] = new
      /\ \A w \in Revocations \ {v} : revocation'[w] = revocation[w]
  BY <1>1 DEF KeysInv, KeysTypeOK
<1>5. \A w \in Revocations : /\ Revoking(w)' <=> Revoking(w)
                             /\ Revoking(w) => revocation'[w].row = revocation[w].row
  BY <1>2, <1>3, <1>4 DEF Revoking
<1>6. KeysTypeOK'
  BY <1>1, <1>3 DEF KeysInv, KeysTypeOK
<1>7. StampsGiven'
  BY <1>1, <1>5 DEF KeysInv, StampsGiven
<1>8. NothingBeforeCreate'
  BY <1>1, <1>2 DEF KeysInv, NothingBeforeCreate
<1>9. RevocationsStandApart'
  BY <1>1, <1>5 DEF KeysInv, RevocationsStandApart
<1>10. EndedKeyIsRefused'
  BY <1>1 DEF KeysInv, EndedKeyIsRefused
<1>11. ASSUME ~keyCrossed' PROVE RevocationsWin'
  <2>1. \A s : NewerThanActive(s) => NewerThanActive(s)'
    BY <1>1 DEF NewerThanActive
  <2>2. RevocationsWin
    BY <1>1, <1>11 DEF KeysInv
  <2>. QED  BY <1>1, <1>2, <1>5, <2>1, <2>2 DEF RevocationsWin
<1>. QED  BY <1>6, <1>7, <1>8, <1>9, <1>10, <1>11 DEF KeysInv

\* The revoked row is newer than whatever could be active, and not among the doomed.
LEMMA RevokeInsertsPreserves ==
  ASSUME KeysInv, NEW v \in Revocations, RevokeInserts(v)
  PROVE  KeysInv'
<1> DEFINE row == revocation[v].row
<1>1. /\ revocation[v].at = "insert"
      /\ keyRows' = keyRows \cup {row}
      /\ revocation' = [revocation EXCEPT ![v] = Over]
      /\ keyEnded' = TRUE
      /\ UNCHANGED <<keyDoomed, keyMade, keyStamps, keyLapsed, use, keyPurged, keyCrossed>>
  BY DEF RevokeInserts
<1>2. row \in Row /\ revocation[v] # Unmade /\ Revoking(v) /\ row.status = "revoked"
  BY <1>1 DEF KeysInv, KeysTypeOK, RevocationState, RevocationsStandApart, Unmade, Over, Revoking
<1>3. /\ row.stamp <= keyStamps /\ row \notin keyDoomed
      /\ \A r \in keyRows \cup keyDoomed : r.stamp # row.stamp
  BY <1>2 DEF KeysInv, StampsGiven, RevocationsStandApart
<1> HIDE DEF row
<1>4. /\ revocation'[v] = Over /\ Over.at = "over"
      /\ \A w \in Revocations \ {v} : revocation'[w] = revocation[w]
  BY <1>1 DEF KeysInv, KeysTypeOK, Over
<1>5. \A w \in Revocations :
         Revoking(w)' => w # v /\ Revoking(w) /\ revocation'[w].row = revocation[w].row
  BY <1>4 DEF Revoking
<1>6. KeysTypeOK'
  BY <1>1, <1>2 DEF KeysInv, KeysTypeOK, RevocationState
<1>7. StampsGiven'
  BY <1>1, <1>3, <1>5 DEF KeysInv, StampsGiven
<1>8. NothingBeforeCreate'
  BY <1>1, <1>2 DEF KeysInv, NothingBeforeCreate
<1>9. RevocationsStandApart'
  BY <1>1, <1>2, <1>5 DEF KeysInv, RevocationsStandApart, row
<1>10. EndedKeyIsRefused'
  BY <1>1 DEF KeysInv, EndedKeyIsRefused
<1>11. ASSUME ~keyCrossed' PROVE RevocationsWin'
  <2>1. \A s : NewerThanActive(s) => NewerThanActive(s)'
    BY <1>1, <1>2 DEF NewerThanActive
  <2>2. RevocationsWin
    BY <1>1, <1>11 DEF KeysInv
  <2>3. PICK r \in keyRows' : r = row
    BY <1>1
  <2>4. Topped'
    <3>1. NewerThanActive(r.stamp)
      BY <1>2, <2>2, <2>3 DEF RevocationsWin, row
    <3>2. NewerThanActive(r.stamp)'
      BY <2>1, <3>1
    <3>. QED  BY <1>1, <1>2, <1>3, <2>3, <3>2 DEF Topped
  <2>. QED  BY <1>1, <1>2, <1>5, <2>1, <2>2, <2>4 DEF RevocationsWin
<1>. QED  BY <1>6, <1>7, <1>8, <1>9, <1>10, <1>11 DEF KeysInv

\* The rows of a deleted workspace are doomed; what is under way then crosses the end.
LEMMA PurgePreserves ==
  ASSUME KeysInv, Purge
  PROVE  KeysInv'
<1>1. /\ keyMade /\ keyDoomed' = keyRows /\ keyPurged' = TRUE
      /\ UNCHANGED <<keyRows, keyMade, keyStamps, keyLapsed, use, revocation, keyEnded>>
  BY DEF Purge
<1>8. /\ keyCrossed' \in BOOLEAN
      /\ ~keyCrossed' => /\ ~keyCrossed
                         /\ \A u \in Uses : use[u].at \notin {"read", "insert"}
                         /\ \A v \in Revocations : ~Revoking(v)
  BY DEF Purge, Revoking
<1>2. KeysTypeOK'
  BY <1>1, <1>8 DEF KeysInv, KeysTypeOK
<1>3. StampsGiven'
  BY <1>1 DEF KeysInv, StampsGiven, Revoking
<1>4. NothingBeforeCreate'
  BY <1>1 DEF NothingBeforeCreate
<1>5. RevocationsStandApart'
  BY <1>1 DEF KeysInv, RevocationsStandApart, Revoking
<1>6. EndedKeyIsRefused'
  BY <1>1, <1>8 DEF KeysInv, EndedKeyIsRefused
<1>7. ASSUME ~keyCrossed' PROVE RevocationsWin'
  <2>1. RevocationsWin
    BY <1>7, <1>8 DEF KeysInv
  <2>5. /\ \A u \in Uses : use[u].at \notin {"read", "insert"}
        /\ \A v \in Revocations : ~Revoking(v)
    BY <1>7, <1>8
  <2>2. \A s : NewerThanActive(s) => NewerThanActive(s)'
    BY <1>1 DEF NewerThanActive
  <2>3. Topped => Topped'
    BY <1>1, <2>2 DEF Topped
  <2>4. NothingActive => NothingActive'
    BY <1>1 DEF NothingActive
  <2>. QED  BY <1>1, <2>1, <2>3, <2>4, <2>5 DEF RevocationsWin, Revoking
<1>. QED  BY <1>2, <1>3, <1>4, <1>5, <1>6, <1>7 DEF KeysInv

\* A deletion takes away rows, but not the revoked row that counts.
LEMMA KeyMutationPreserves ==
  ASSUME KeysInv, KeyMutation
  PROVE  KeysInv'
<1>1. /\ keyDoomed # {}
      /\ keyRows' = keyRows \ keyDoomed /\ keyDoomed' = {}
      /\ keyEnded' = (keyEnded \/ keyPurged)
      /\ UNCHANGED <<keyMade, keyStamps, keyLapsed, use, revocation, keyPurged, keyCrossed>>
  BY DEF KeyMutation
<1>2. KeysTypeOK'
  BY <1>1 DEF KeysInv, KeysTypeOK
<1>3. StampsGiven'
  BY <1>1 DEF KeysInv, StampsGiven, Revoking
<1>4. NothingBeforeCreate'
  BY <1>1 DEF KeysInv, NothingBeforeCreate
<1>5. RevocationsStandApart'
  BY <1>1 DEF KeysInv, RevocationsStandApart, Revoking
<1>6. EndedKeyIsRefused'
  BY <1>1 DEF KeysInv, EndedKeyIsRefused
<1>7. ASSUME ~keyCrossed' PROVE RevocationsWin'
  <2>1. RevocationsWin
    BY <1>1, <1>7 DEF KeysInv
  <2>2. \A s : NewerThanActive(s) => NewerThanActive(s)'
    BY <1>1 DEF NewerThanActive
  <2>3. keyPurged => NothingActive'
    BY <1>1, <2>1 DEF RevocationsWin, NothingActive
  <2>4. ~keyPurged /\ Topped => Topped'
    BY <1>1, <2>2 DEF Topped
  <2>5. NothingActive => NothingActive'
    BY <1>1 DEF NothingActive
  <2>6. \A v \in Revocations : Revoking(v)' <=> Revoking(v)
    BY <1>1 DEF Revoking
  <2>. QED  BY <1>1, <2>1, <2>2, <2>3, <2>4, <2>5, <2>6 DEF RevocationsWin, NothingActive
<1>. QED  BY <1>2, <1>3, <1>4, <1>5, <1>6, <1>7 DEF KeysInv

\* Nothing else of the key changes.
LEMMA ElsewherePreserves ==
  ASSUME KeysInv, keyLapsed' \in BOOLEAN,
         UNCHANGED <<keyRows, keyDoomed, keyMade, keyStamps, use, revocation, keyPurged,
                     keyCrossed, keyEnded>>
  PROVE  KeysInv'
<1>1. KeysTypeOK'
  BY DEF KeysInv, KeysTypeOK
<1>2. StampsGiven' /\ NothingBeforeCreate' /\ RevocationsStandApart' /\ EndedKeyIsRefused'
  BY DEF KeysInv, StampsGiven, NothingBeforeCreate, RevocationsStandApart, EndedKeyIsRefused,
         Revoking
<1>3. ~keyCrossed' => RevocationsWin'
  BY DEF KeysInv, RevocationsWin, Revoking, NewerThanActive, NothingActive, Topped
<1>. QED  BY <1>1, <1>2, <1>3 DEF KeysInv

\* The invariant is inductive.
LEMMA KeysNextInv == KeysInv /\ [KeysNext]_keyVars => KeysInv'
<1> SUFFICES ASSUME KeysInv, [KeysNext]_keyVars PROVE KeysInv'
  OBVIOUS
<1>1. CASE Create
  BY <1>1, CreatePreserves
<1>2. CASE Purge
  BY <1>2, PurgePreserves
<1>3. CASE KeyMutation
  BY <1>3, KeyMutationPreserves
<1>4. CASE Lapse
  BY <1>4, ElsewherePreserves DEF Lapse
<1>5. ASSUME NEW u \in Uses, UseAccepted(u) PROVE KeysInv'
  BY <1>5, UseAcceptedPreserves
<1>6. ASSUME NEW u \in Uses, UseRefused(u) PROVE KeysInv'
  BY <1>6, UseRefusedPreserves
<1>7. ASSUME NEW u \in Uses, UsedReads(u) PROVE KeysInv'
  BY <1>7, UsedReadsPreserves
<1>8. ASSUME NEW u \in Uses, UsedInserts(u) PROVE KeysInv'
  BY <1>8, UsedInsertsPreserves
<1>9. ASSUME NEW v \in Revocations, RevokeReads(v) PROVE KeysInv'
  BY <1>9, RevokeReadsPreserves
<1>10. ASSUME NEW v \in Revocations, RevokeDeletes(v) PROVE KeysInv'
  BY <1>10, RevokeDeletesPreserves
<1>11. ASSUME NEW v \in Revocations, RevokeInserts(v) PROVE KeysInv'
  BY <1>11, RevokeInsertsPreserves
<1>12. CASE UNCHANGED keyVars
  <2>1. keyLapsed' \in BOOLEAN
    BY <1>12 DEF keyVars, KeysInv, KeysTypeOK
  <2>. QED  BY <1>12, <2>1, ElsewherePreserves DEF keyVars
<1>. QED  BY <1>1, <1>2, <1>3, <1>4, <1>5, <1>6, <1>7, <1>8, <1>9, <1>10, <1>11, <1>12
          DEF KeysNext

\* The invariant holds in every behaviour.
LEMMA KeysInvariance == KeysSpec => []KeysInv
BY KeysInitInv, KeysNextInv, PTL DEF KeysSpec

-----------------------------------------------------------------------------

\* However many requests use a key while it is revoked or its workspace deleted, none that
\* begins after the end is accepted, unless one was stamped, or read a row, while the end
\* was on its way.
THEOREM EndedKeysAreRefused == KeysSpec => []EndedKeyIsRefused
BY KeysInvariance, PTL DEF KeysInv

\* Rows, requests and revocations have the declared types.
THEOREM KeysTypeCorrect == KeysSpec => []KeysTypeOK
BY KeysInvariance, PTL DEF KeysInv

-----------------------------------------------------------------------------
(* QueryCache *)

Keys == {Key(q) : q \in Requested}

\* What executions for the key k may answer.
AnswersFor(k) == [sorted : {SortedBy(q) : q \in {p \in Requested : Key(p) = k}}, epoch : Nat]

Failed == [at |-> "failed"]

\* The call of c is about a query, and an answer it has is of its key.
CallFits(c) ==
  \/ calls[c] = Idle \/ calls[c] = Failed
  \/ \E q \in Requested : calls[c] = [at |-> "lookup", query |-> q]
  \/ \E q \in Requested : calls[c] = [at |-> "wait", query |-> q]
  \/ \E q \in Requested : \E a \in AnswersFor(Key(q)) :
       calls[c] = [at |-> "done", query |-> q, answer |-> a]

\* The execution under the key k is of a query with that key.
ExecutionFits(k) ==
  \E q \in {p \in Requested : Key(p) = k} :
     \/ pending[k] = [at |-> "read", query |-> q]
     \/ \E a \in AnswersFor(k), at \in {"store", "end"} :
          pending[k] = [at |-> at, query |-> q, answer |-> a]

AnswersBelong ==
  /\ epoch \in Nat
  /\ calls = [c \in Callers |-> calls[c]]
  /\ \A c \in Callers : CallFits(c)
  /\ \A k \in DOMAIN pending : ExecutionFits(k)
  /\ \A k \in DOMAIN cache : cache[k] \in AnswersFor(k)

\* Keys in use are tracked, or were in use when a clearing ended.
KeysAreKnown ==
  /\ tracked \subseteq Keys
  /\ DOMAIN cache \subseteq tracked \cup across
  /\ DOMAIN pending \subseteq tracked \cup across
  /\ \A c \in Callers : calls[c].at = "lookup" => Key(calls[c].query) \in tracked \cup across

\* What is about to be stored was read after the last backfill, too.
ReadSinceBackfill ==
  clearing = NoOrder =>
    /\ \A k \in DOMAIN cache \ across : cache[k].epoch = epoch
    /\ \A k \in DOMAIN pending \ across :
         pending[k].at \in {"store", "end"} => pending[k].answer.epoch = epoch

CacheInv == AnswersBelong /\ KeysAreKnown /\ ReadSinceBackfill

-----------------------------------------------------------------------------
\* What the caller c does next fits, and no other call changes.
LEMMA CallChanges ==
  ASSUME NEW c \in Callers, NEW r, calls = [b \in Callers |-> calls[b]],
         calls' = [calls EXCEPT ![c] = r]
  PROVE  /\ calls' = [b \in Callers |-> calls'[b]]
         /\ calls'[c] = r
         /\ \A b \in Callers \ {c} : calls'[b] = calls[b]
<1>1. DOMAIN calls = Callers
  OBVIOUS
<1> QED BY <1>1

\* What a call is about, by how far it is.
LEMMA CallStates ==
  ASSUME NEW c, CallFits(c)
  PROVE  /\ calls[c].at = "lookup" => \E q \in Requested : calls[c] = [at |-> "lookup", query |-> q]
         /\ calls[c].at = "wait" => \E q \in Requested : calls[c] = [at |-> "wait", query |-> q]
         /\ calls[c].at = "done" =>
              \E q \in Requested : \E a \in AnswersFor(Key(q)) :
                calls[c] = [at |-> "done", query |-> q, answer |-> a]
<1>1. CASE calls[c] = Idle \/ calls[c] = Failed
  BY <1>1 DEF Idle, Failed
<1>2. CASE \E q \in Requested : calls[c] = [at |-> "lookup", query |-> q]
  BY <1>2
<1>3. CASE \E q \in Requested : calls[c] = [at |-> "wait", query |-> q]
  BY <1>3
<1>4. CASE \E q \in Requested : \E a \in AnswersFor(Key(q)) :
             calls[c] = [at |-> "done", query |-> q, answer |-> a]
  <2>1. calls[c].at = "done"
    <3>1. PICK q \in Requested : \E a \in AnswersFor(Key(q)) :
            calls[c] = [at |-> "done", query |-> q, answer |-> a]
      BY <1>4
    <3>2. PICK a \in AnswersFor(Key(q)) : calls[c] = [at |-> "done", query |-> q, answer |-> a]
      BY <3>1
    <3> QED BY <3>2
  <2> QED BY <1>4, <2>1
<1> QED BY <1>1, <1>2, <1>3, <1>4 DEF CallFits

\* What an execution is of, by how far it is.
LEMMA ExecutionStates ==
  ASSUME NEW k, ExecutionFits(k)
  PROVE  \E q \in {p \in Requested : Key(p) = k} :
           \/ pending[k].at = "read" /\ pending[k] = [at |-> "read", query |-> q]
           \/ \E a \in AnswersFor(k) :
                /\ pending[k].at = "store" /\ pending[k] = [at |-> "store", query |-> q, answer |-> a]
           \/ \E a \in AnswersFor(k) :
                /\ pending[k].at = "end" /\ pending[k] = [at |-> "end", query |-> q, answer |-> a]
<1>1. PICK q \in {p \in Requested : Key(p) = k} :
        \/ pending[k] = [at |-> "read", query |-> q]
        \/ \E a \in AnswersFor(k), at \in {"store", "end"} :
             pending[k] = [at |-> at, query |-> q, answer |-> a]
  BY DEF ExecutionFits
<1>2. CASE pending[k] = [at |-> "read", query |-> q]
  BY <1>2
<1>3. ASSUME NEW a \in AnswersFor(k), NEW at \in {"store", "end"},
             pending[k] = [at |-> at, query |-> q, answer |-> a]
      PROVE  /\ pending[k].at = at
             /\ at = "store" \/ at = "end"
  BY <1>3
<1> QED BY <1>1, <1>2, <1>3

\* An answer for the key of a query is what AnswerIsOfTheQuery asks of it.
LEMMA AnswerFits ==
  ASSUME AskedAreQueries, NEW q \in Requested, NEW a \in AnswersFor(Key(q))
  PROVE  a.sorted \in IF q.order = NoOrder THEN {q.metrics[i] : i \in DOMAIN q.metrics}
                                           ELSE {q.order}
<1>1. PICK p \in Requested : Key(p) = Key(q) /\ a.sorted = SortedBy(p)
  BY DEF AnswersFor
<1>2. p.order = q.order /\ {p.metrics[i] : i \in DOMAIN p.metrics} = {q.metrics[i] : i \in DOMAIN q.metrics}
  BY <1>1 DEF Key
<1>3. CASE q.order = NoOrder
  <2>1. a.sorted = p.metrics[1] /\ 1 \in DOMAIN p.metrics
    BY <1>1, <1>2, <1>3 DEF SortedBy, AskedAreQueries
  <2>2. a.sorted \in {p.metrics[i] : i \in DOMAIN p.metrics}
    BY <2>1
  <2> QED BY <1>2, <1>3, <2>2
<1>4. CASE q.order # NoOrder
  BY <1>1, <1>2, <1>4 DEF SortedBy
<1> QED BY <1>3, <1>4

-----------------------------------------------------------------------------
\* Nothing is cached, executed or asked for at the beginning.
LEMMA InitFits == QueryCacheInit => CacheInv
<1> SUFFICES ASSUME QueryCacheInit PROVE CacheInv
  OBVIOUS
<1>1. DOMAIN cache = {} /\ DOMAIN pending = {}
  BY DEF QueryCacheInit
<1>2. \A c \in Callers : calls[c] = Idle
  BY DEF QueryCacheInit
<1>3. AnswersBelong
  BY <1>1, <1>2 DEF QueryCacheInit, AnswersBelong, CallFits
<1>4. KeysAreKnown
  BY <1>1, <1>2 DEF QueryCacheInit, KeysAreKnown, Idle
<1>5. ReadSinceBackfill
  BY <1>1 DEF ReadSinceBackfill
<1> QED BY <1>3, <1>4, <1>5 DEF CacheInv

\* AskQuery tracks the key before it is looked up.
LEMMA AskKeeps ==
  ASSUME CacheInv, NEW c \in Callers, NEW q \in Requested, AskQuery(c, q)
  PROVE  CacheInv'
<1> DEFINE r == [at |-> "lookup", query |-> q]
<1>1. /\ calls' = [b \in Callers |-> calls'[b]]
      /\ calls'[c] = r
      /\ \A b \in Callers \ {c} : calls'[b] = calls[b]
  <2>1. calls' = [calls EXCEPT ![c] = r] /\ calls = [b \in Callers |-> calls[b]]
    BY DEF AskQuery, CacheInv, AnswersBelong
  <2> HIDE DEF r
  <2> QED BY <2>1, CallChanges
<1>2. UNCHANGED <<epoch, cache, pending, clearing, across>> /\ tracked' = tracked \cup {Key(q)}
  BY DEF AskQuery
<1>3. AnswersBelong'
  <2>1. \A b \in Callers : CallFits(b)'
    BY <1>1, <1>2 DEF CacheInv, AnswersBelong, CallFits
  <2> QED BY <1>1, <1>2, <2>1 DEF CacheInv, AnswersBelong, ExecutionFits
<1>4. KeysAreKnown'
  BY <1>1, <1>2 DEF CacheInv, KeysAreKnown, Keys
<1>5. ReadSinceBackfill'
  BY <1>2 DEF CacheInv, ReadSinceBackfill
<1> QED BY <1>3, <1>4, <1>5 DEF CacheInv

\* A lookup takes the cached answer, or waits for the execution, which it may have to start.
LEMMA LookupKeeps ==
  ASSUME CacheInv, NEW c \in Callers, Lookup(c)
  PROVE  CacheInv'
<1>1. PICK q \in Requested : calls[c] = [at |-> "lookup", query |-> q]
  <2>1. calls[c].at = "lookup" /\ CallFits(c)
    BY DEF Lookup, CacheInv, AnswersBelong
  <2> QED BY <2>1, CallStates
<1> DEFINE k == Key(q)
<1>2. UNCHANGED <<epoch, cache, tracked, clearing, across>>
  BY DEF Lookup
<1>3. calls = [b \in Callers |-> calls[b]]
  BY DEF CacheInv, AnswersBelong
<1>4. k \in Keys /\ k \in tracked \cup across
  BY <1>1 DEF CacheInv, KeysAreKnown, Keys
<1>5. CASE Cached(k) /\ UNCHANGED pending /\ calls' = [calls EXCEPT ![c] = [at |-> "done", query |-> q, answer |-> cache[k]]]
  <2>1. /\ calls' = [b \in Callers |-> calls'[b]]
        /\ calls'[c] = [at |-> "done", query |-> q, answer |-> cache[k]]
        /\ \A b \in Callers \ {c} : calls'[b] = calls[b]
    BY <1>3, <1>5
  <2>2. cache[k] \in AnswersFor(k)
    BY <1>5 DEF Cached, CacheInv, AnswersBelong
  <2>3. \A b \in Callers : CallFits(b)'
    BY <2>1, <2>2 DEF CacheInv, AnswersBelong, CallFits
  <2>4. AnswersBelong'
    BY <1>2, <1>5, <2>1, <2>3 DEF CacheInv, AnswersBelong, ExecutionFits
  <2>5. KeysAreKnown'
    BY <1>2, <1>5, <2>1 DEF CacheInv, KeysAreKnown
  <2>6. ReadSinceBackfill'
    BY <1>2, <1>5 DEF CacheInv, ReadSinceBackfill
  <2> QED BY <2>4, <2>5, <2>6 DEF CacheInv
<1>6. CASE /\ calls' = [calls EXCEPT ![c].at = "wait"]
           /\ \/ UNCHANGED pending
              \/ pending' = With(pending, k, [at |-> "read", query |-> q])
  <2>1. /\ calls' = [b \in Callers |-> calls'[b]]
        /\ calls'[c] = [at |-> "wait", query |-> q]
        /\ \A b \in Callers \ {c} : calls'[b] = calls[b]
    BY <1>1, <1>3, <1>6
  <2>2. \A b \in Callers : CallFits(b)'
    BY <2>1 DEF CacheInv, AnswersBelong, CallFits
  <2>3. /\ DOMAIN pending' \subseteq DOMAIN pending \cup {k}
        /\ \A j \in DOMAIN pending' :
             \/ j \in DOMAIN pending /\ pending'[j] = pending[j]
             \/ j = k /\ pending'[j] = [at |-> "read", query |-> q]
    <3>1. CASE UNCHANGED pending
      BY <3>1
    <3>2. CASE pending' = With(pending, k, [at |-> "read", query |-> q])
      <4>1. pending' = [j \in DOMAIN pending \cup {k} |->
                          IF j = k THEN [at |-> "read", query |-> q] ELSE pending[j]]
        BY <3>2 DEF With
      <4> QED BY <4>1
    <3> QED BY <1>6, <3>1, <3>2
  <2>4. \A j \in DOMAIN pending' : ExecutionFits(j)'
    BY <2>3 DEF CacheInv, AnswersBelong, ExecutionFits, AnswersFor
  <2>5. AnswersBelong'
    BY <1>2, <2>1, <2>2, <2>4 DEF CacheInv, AnswersBelong
  <2>6. KeysAreKnown'
    BY <1>2, <1>4, <2>1, <2>3 DEF CacheInv, KeysAreKnown
  <2>7. ReadSinceBackfill'
    BY <1>2, <2>3 DEF CacheInv, ReadSinceBackfill
  <2> QED BY <2>5, <2>6, <2>7 DEF CacheInv
<1> QED
  BY <1>1, <1>5, <1>6 DEF Lookup, AnswerIs

\* Executions.
LEMMA ReadKeeps ==
  ASSUME CacheInv, NEW k, ReadRows(k)
  PROVE  CacheInv'
<1>1. PICK q \in {p \in Requested : Key(p) = k} : pending[k] = [at |-> "read", query |-> q]
  <2>1. ExecutionFits(k) /\ pending[k].at = "read"
    BY DEF ReadRows, CacheInv, AnswersBelong
  <2> QED BY <2>1, ExecutionStates
<1> DEFINE a == [sorted |-> SortedBy(q), epoch |-> epoch]
<1>2. UNCHANGED <<epoch, cache, tracked, clearing, calls, across>> /\ k \in DOMAIN pending
  BY DEF ReadRows
<1>3. /\ DOMAIN pending' = DOMAIN pending
      /\ pending'[k] = [at |-> "store", query |-> q, answer |-> a]
      /\ \A j \in DOMAIN pending \ {k} : pending'[j] = pending[j]
  BY <1>1 DEF ReadRows
<1>4. a \in AnswersFor(k)
  BY DEF AnswersFor, CacheInv, AnswersBelong
<1>5. \A j \in DOMAIN pending' : ExecutionFits(j)'
  <2>1. ExecutionFits(k)'
    BY <1>1, <1>2, <1>3, <1>4 DEF ExecutionFits, AnswersFor
  <2>2. \A j \in DOMAIN pending \ {k} : ExecutionFits(j)'
    BY <1>2, <1>3 DEF CacheInv, AnswersBelong, ExecutionFits, AnswersFor
  <2> QED BY <1>3, <2>1, <2>2
<1>6. AnswersBelong'
  BY <1>2, <1>5 DEF CacheInv, AnswersBelong, CallFits
<1>7. KeysAreKnown'
  BY <1>2, <1>3 DEF CacheInv, KeysAreKnown
<1>8. ReadSinceBackfill'
  BY <1>2, <1>3 DEF CacheInv, ReadSinceBackfill
<1> QED BY <1>6, <1>7, <1>8 DEF CacheInv

\* An answer is stored under the key of its question.
LEMMA StoreKeeps ==
  ASSUME CacheInv, NEW k, Store(k)
  PROVE  CacheInv'
<1>1. PICK q \in {p \in Requested : Key(p) = k}, a \in AnswersFor(k) :
        pending[k] = [at |-> "store", query |-> q, answer |-> a]
  <2>1. ExecutionFits(k) /\ pending[k].at = "store"
    BY DEF Store, CacheInv, AnswersBelong
  <2> QED BY <2>1, ExecutionStates
<1>2. UNCHANGED <<epoch, tracked, clearing, calls, across>> /\ k \in DOMAIN pending
  BY DEF Store
<1>3. /\ DOMAIN pending' = DOMAIN pending
      /\ pending'[k] = [at |-> "end", query |-> q, answer |-> a]
      /\ \A j \in DOMAIN pending \ {k} : pending'[j] = pending[j]
  BY <1>1 DEF Store
<1>4. /\ DOMAIN cache' = DOMAIN cache \cup {k}
      /\ cache'[k] = a
      /\ \A j \in DOMAIN cache \ {k} : cache'[j] = cache[j]
  BY <1>1 DEF Store, With
<1>5. \A j \in DOMAIN pending' : ExecutionFits(j)'
  <2>1. ExecutionFits(k)'
    BY <1>1, <1>2, <1>3 DEF ExecutionFits, AnswersFor
  <2>2. \A j \in DOMAIN pending \ {k} : ExecutionFits(j)'
    BY <1>2, <1>3 DEF CacheInv, AnswersBelong, ExecutionFits, AnswersFor
  <2> QED BY <1>3, <2>1, <2>2
<1>6. AnswersBelong'
  BY <1>2, <1>4, <1>5 DEF CacheInv, AnswersBelong, CallFits
<1>7. KeysAreKnown'
  BY <1>2, <1>3, <1>4 DEF CacheInv, KeysAreKnown
<1>8. ReadSinceBackfill'
  BY <1>1, <1>2, <1>3, <1>4 DEF CacheInv, ReadSinceBackfill
<1> QED BY <1>6, <1>7, <1>8 DEF CacheInv

\* An execution ends and answers who wait, or fails.
LEMMA ExecutionEndKeeps ==
  ASSUME CacheInv, NEW k, QueryEnds(k) \/ QueryFails(k)
  PROVE  CacheInv'
<1>1. UNCHANGED <<epoch, cache, tracked, clearing, across>> /\ k \in DOMAIN pending
  BY DEF QueryEnds, QueryFails
<1>2. /\ DOMAIN pending' = DOMAIN pending \ {k}
      /\ \A j \in DOMAIN pending' : pending'[j] = pending[j]
  BY DEF QueryEnds, QueryFails, Without
<1>3. calls' = [c \in Callers |-> calls'[c]]
  BY DEF QueryEnds, QueryFails
<1>4. \A c \in Callers : /\ CallFits(c)'
                         /\ calls'[c].at = "lookup" => calls'[c] = calls[c]
  <2> SUFFICES ASSUME NEW c \in Callers
      PROVE CallFits(c)' /\ (calls'[c].at = "lookup" => calls'[c] = calls[c])
    OBVIOUS
  <2>1. CallFits(c)
    BY DEF CacheInv, AnswersBelong
  <2>2. CASE calls'[c] = calls[c]
    BY <1>1, <2>1, <2>2 DEF CallFits, AnswersFor
  <2>3. CASE calls'[c] = Failed
    BY <2>3 DEF CallFits, Failed
  <2>4. CASE QueryEnds(k) /\ c \in Waiting(k)
    <3>1. PICK q \in Requested : calls[c] = [at |-> "wait", query |-> q]
      BY <2>1, <2>4, CallStates DEF Waiting
    <3>2. Key(q) = k
      BY <2>4, <3>1 DEF Waiting
    <3>3. pending[k].answer \in AnswersFor(k)
      <4>1. ExecutionFits(k) /\ pending[k].at = "end"
        BY <2>4 DEF QueryEnds, CacheInv, AnswersBelong
      <4>2. PICK p \in Requested, a \in AnswersFor(k) :
              pending[k] = [at |-> "end", query |-> p, answer |-> a]
        BY <4>1, ExecutionStates
      <4> QED BY <4>2
    <3>4. calls'[c] = [at |-> "done", query |-> q, answer |-> pending[k].answer]
      BY <2>4, <3>1 DEF QueryEnds
    <3>5. CallFits(c)'
      BY <3>2, <3>3, <3>4 DEF CallFits, AnswersFor
    <3>6. calls'[c].at # "lookup"
      BY <3>4
    <3> QED BY <3>5, <3>6
  <2>5. CASE QueryEnds(k) /\ c \notin Waiting(k)
    BY <2>2, <2>5 DEF QueryEnds
  <2>6. CASE QueryFails(k) /\ c \notin Waiting(k)
    BY <2>2, <2>6 DEF QueryFails
  <2>7. CASE QueryFails(k) /\ c \in Waiting(k)
    <3>1. calls'[c] = Failed
      BY <2>7 DEF QueryFails, Failed
    <3>2. calls'[c].at # "lookup"
      BY <3>1 DEF Failed
    <3> QED BY <2>3, <3>1, <3>2
  <2> QED BY <2>4, <2>5, <2>6, <2>7
<1>5. \A j \in DOMAIN pending' : ExecutionFits(j)'
  BY <1>1, <1>2 DEF CacheInv, AnswersBelong, ExecutionFits, AnswersFor
<1>6. AnswersBelong'
  BY <1>1, <1>3, <1>4, <1>5 DEF CacheInv, AnswersBelong
<1>7. KeysAreKnown'
  BY <1>1, <1>2, <1>4 DEF CacheInv, KeysAreKnown
<1>8. ReadSinceBackfill'
  BY <1>1, <1>2 DEF CacheInv, ReadSinceBackfill
<1> QED BY <1>6, <1>7, <1>8 DEF CacheInv

\* A backfill ends: from now on there is something to clear.
LEMMA BackfillKeeps ==
  ASSUME AskedAreQueries, CacheInv, BackfillCompletes
  PROVE  CacheInv'
<1>1. UNCHANGED <<cache, tracked, pending, calls, across>>
  BY DEF BackfillCompletes
<1>2. epoch' \in Nat
  BY DEF BackfillCompletes, CacheInv, AnswersBelong
<1>3. clearing' # NoOrder
  BY DEF BackfillCompletes, CacheInv, KeysAreKnown, Keys, AskedAreQueries
<1>4. AnswersBelong'
  BY <1>1, <1>2 DEF CacheInv, AnswersBelong, CallFits, ExecutionFits, AnswersFor
<1>5. KeysAreKnown'
  BY <1>1 DEF CacheInv, KeysAreKnown
<1>6. ReadSinceBackfill'
  BY <1>3 DEF ReadSinceBackfill
<1> QED BY <1>4, <1>5, <1>6 DEF CacheInv

\* What is in use when the clearing is over is across it, so nothing else can be old.
LEMMA ClearingKeeps ==
  ASSUME CacheInv, CachesCleared
  PROVE  CacheInv'
<1>1. UNCHANGED <<epoch, pending, calls>> /\ tracked' = {}
  BY DEF CachesCleared
<1>2. /\ DOMAIN cache' = DOMAIN cache \ clearing
      /\ \A j \in DOMAIN cache' : cache'[j] = cache[j]
  BY DEF CachesCleared, Deleted, Without
<1>3. /\ DOMAIN cache' \subseteq across'
      /\ DOMAIN pending' \subseteq across'
      /\ \A c \in Callers : calls'[c].at = "lookup" => Key(calls'[c].query) \in across'
  <2>1. DOMAIN cache \subseteq tracked \cup across
    BY DEF CacheInv, KeysAreKnown
  <2>2. across' = (across \ clearing) \cup (tracked \ clearing) \cup DOMAIN pending
                  \cup {Key(calls[c].query) : c \in {c \in Callers : calls[c].at = "lookup"}}
    BY DEF CachesCleared
  <2> QED BY <1>1, <1>2, <2>1, <2>2
<1>4. AnswersBelong'
  BY <1>1, <1>2 DEF CacheInv, AnswersBelong, CallFits, ExecutionFits, AnswersFor
<1>5. KeysAreKnown'
  BY <1>1, <1>3 DEF KeysAreKnown
<1>6. ReadSinceBackfill'
  BY <1>3 DEF ReadSinceBackfill
<1> QED BY <1>4, <1>5, <1>6 DEF CacheInv

\* An entry that expires leaves the others as they were.
LEMMA ExpiryKeeps ==
  ASSUME CacheInv, NEW k, Expires(k)
  PROVE  CacheInv'
<1>1. UNCHANGED <<epoch, tracked, pending, clearing, calls, across>>
  BY DEF Expires
<1>2. /\ DOMAIN cache' = DOMAIN cache \ {k}
      /\ \A j \in DOMAIN cache' : cache'[j] = cache[j]
  BY DEF Expires, Without
<1>3. AnswersBelong'
  BY <1>1, <1>2 DEF CacheInv, AnswersBelong, CallFits, ExecutionFits, AnswersFor
<1>4. KeysAreKnown'
  BY <1>1, <1>2 DEF CacheInv, KeysAreKnown
<1>5. ReadSinceBackfill'
  BY <1>1, <1>2 DEF CacheInv, ReadSinceBackfill
<1> QED BY <1>3, <1>4, <1>5 DEF CacheInv

-----------------------------------------------------------------------------
\* The invariant is inductive.
LEMMA StepKeeps ==
  ASSUME AskedAreQueries, CacheInv, [QueryCacheNext]_cacheVars
  PROVE  CacheInv'
<1>1. CASE UNCHANGED cacheVars
  BY <1>1 DEF cacheVars, CacheInv, AnswersBelong, CallFits, ExecutionFits, AnswersFor,
              KeysAreKnown, ReadSinceBackfill
<1>2. ASSUME NEW c \in Callers, NEW q \in Requested, AskQuery(c, q) PROVE CacheInv'
  BY <1>2, AskKeeps
<1>3. ASSUME NEW c \in Callers, Lookup(c) PROVE CacheInv'
  BY <1>3, LookupKeeps
<1>4. ASSUME NEW k \in DOMAIN pending, ReadRows(k) \/ Store(k) \/ QueryEnds(k) \/ QueryFails(k) PROVE CacheInv'
  BY <1>4, ReadKeeps, StoreKeeps, ExecutionEndKeeps
<1>5. CASE BackfillCompletes
  BY <1>5, BackfillKeeps
<1>6. CASE CachesCleared
  BY <1>6, ClearingKeeps
<1>7. ASSUME NEW k \in DOMAIN cache, Expires(k) PROVE CacheInv'
  BY <1>7, ExpiryKeeps
<1> QED BY <1>1, <1>2, <1>3, <1>4, <1>5, <1>6, <1>7 DEF QueryCacheNext

\* AnalyticsService.query answers what was asked, and with the rows a backfill left behind, for any
\* number of callers, queries and backfills.
THEOREM AnswersFitQueries == AskedAreQueries => (QueryCacheSpec => []AnswersFit)
<1> SUFFICES ASSUME AskedAreQueries PROVE QueryCacheSpec => []AnswersFit
  OBVIOUS
<1>1. CacheInv => AnswersFit
  <2> SUFFICES ASSUME CacheInv PROVE AnswersFit
    OBVIOUS
  <2>1. ASSUME NEW c \in Answered
        PROVE  LET q == calls[c].query IN
               calls[c].answer.sorted \in IF q.order = NoOrder THEN {q.metrics[i] : i \in DOMAIN q.metrics}
                                                             ELSE {q.order}
    <3>1. PICK q \in Requested : \E a \in AnswersFor(Key(q)) :
            calls[c] = [at |-> "done", query |-> q, answer |-> a]
      BY <2>1, CallStates DEF Answered, CacheInv, AnswersBelong
    <3>2. calls[c].query = q /\ calls[c].answer \in AnswersFor(Key(q))
      BY <3>1
    <3> QED BY <3>2, AnswerFits
  <2>2. AnswerIsOfTheQuery
    BY <2>1 DEF AnswerIsOfTheQuery
  <2>3. BackfillIsSeen
    BY DEF CacheInv, ReadSinceBackfill, BackfillIsSeen
  <2> QED BY <2>2, <2>3 DEF AnswersFit
<1>2. CacheInv /\ [QueryCacheNext]_cacheVars => CacheInv'
  BY StepKeeps
<1> QED BY <1>1, <1>2, InitFits, PTL DEF QueryCacheSpec

-----------------------------------------------------------------------------
(* Export *)

\* A finite set has a least element in every strict order.
LEMMA LeastExists ==
  ASSUME NEW S, IsFiniteSet(S), S # {}, NEW R,
         \A x \in S : <<x, x>> \notin R,
         \A x, y, z \in S : <<x, y>> \in R /\ <<y, z>> \in R => <<x, z>> \in R
  PROVE  \E x \in S : \A y \in S : <<y, x>> \notin R
<1> DEFINE Below(x) == {y \in S : <<y, x>> \in R}
           T == {Below(x) : x \in S}
<1>1. T \subseteq FiniteSubsetsOf(S) /\ T # {}
  <2>1. \A x \in S : Below(x) \in SUBSET S /\ IsFiniteSet(Below(x))
    BY FS_Subset
  <2>2. T \subseteq FiniteSubsetsOf(S)
    <3>1. \A x \in S : Below(x) \in FiniteSubsetsOf(S)
      <4> HIDE DEF Below
      <4> QED BY <2>1 DEF FiniteSubsetsOf
    <3> HIDE DEF Below
    <3> QED BY <3>1
  <2>3. PICK x \in S : TRUE
    OBVIOUS
  <2>4. Below(x) \in T
    OBVIOUS
  <2> QED BY <2>2, <2>4
<1>2. PICK B \in T : \A C \in T : <<C, B>> \notin StrictSubsetOrdering(S)
  <2> HIDE DEF T
  <2> QED BY <1>1, FS_StrictSubsetOrderingWellFounded, WFMin
<1>3. PICK x \in S : B = Below(x)
  OBVIOUS
<1>4. ASSUME NEW y \in S, <<y, x>> \in R PROVE FALSE
  <2>3. \A z : z \in Below(y) => z \in Below(x)
    BY <1>4
  <2>4. y \in Below(x) /\ y \notin Below(y)
    BY <1>4
  <2>5. Below(y) \in T /\ Below(x) \subseteq S /\ Below(y) \subseteq S
    OBVIOUS
  <2>1. Below(y) \subseteq Below(x) /\ Below(y) # Below(x) /\ Below(y) \in T /\ Below(x) \subseteq S
    <3> HIDE DEF Below, T
    <3> QED BY <2>3, <2>4, <2>5
  <2>2. <<Below(y), Below(x)>> \in StrictSubsetOrdering(S)
    BY <2>1 DEF StrictSubsetOrdering
  <2> QED BY <1>2, <1>3, <2>1, <2>2
<1> QED BY <1>4

-----------------------------------------------------------------------------
ExportRow == [token : Tokens, id : Ids, updated : Times, known : BOOLEAN]
Apart(S) == \A r, o \in S : r.id = o.id => r = o

\* Times and ids are numbers.
LEMMA TimesAndIdsAreNumbers ==
  /\ \A u \in Times : u \in Int /\ u > -1
  /\ \A i \in Ids : i \in Int
<1>1. \A u \in Times : u \in Nat
  BY ExportAssumption
<1>2. \A i \in Ids : i \in Nat
  BY ExportAssumption
<1> QED BY <1>1, <1>2

\* After orders the rows that have ids of their own.
LEMMA AfterOrders ==
  ASSUME NEW S \in SUBSET ExportRow, Apart(S)
  PROVE  /\ \A r \in S : ~After(r, r)
         /\ \A q, r, o \in S : After(q, r) /\ After(r, o) => After(q, o)
         /\ \A r, o \in S : r = o \/ After(r, o) \/ After(o, r)
         /\ \A r, o \in S : ~(After(r, o) /\ After(o, r))
<1>1. \A r \in S : r.updated \in Int /\ r.id \in Int
  <2>1. \A r \in S : r.updated \in Times /\ r.id \in Ids
    BY DEF ExportRow
  <2> QED BY <2>1, TimesAndIdsAreNumbers
<1>2. \A r \in S : ~After(r, r)
  BY <1>1 DEF After
<1>3. \A q, r, o \in S : After(q, r) /\ After(r, o) => After(q, o)
  BY <1>1 DEF After
<1>4. \A r, o \in S : r = o \/ After(r, o) \/ After(o, r)
  BY <1>1 DEF After, Apart
<1>5. \A r, o \in S : ~(After(r, o) /\ After(o, r))
  BY <1>1 DEF After
<1> QED BY <1>2, <1>3, <1>4, <1>5

\* The first row of a set, and the last.
LEMMA EndsExist ==
  ASSUME NEW S \in SUBSET ExportRow, Apart(S), IsFiniteSet(S), S # {}
  PROVE  /\ \E r \in S : \A o \in S : o = r \/ After(o, r)
         /\ \E r \in S : \A o \in S : o = r \/ After(r, o)
<1>1. \E r \in S : \A o \in S : o = r \/ After(o, r)
  <2> DEFINE R == {p \in S \X S : After(p[2], p[1])}
  <2>1. \A r, o \in S : <<r, o>> \in R <=> After(o, r)
    OBVIOUS
  <2> HIDE DEF R
  <2>2. PICK r \in S : \A o \in S : <<o, r>> \notin R
    <3>1. \A x \in S : <<x, x>> \notin R
      BY <2>1, AfterOrders
    <3>2. \A x, y, z \in S : <<x, y>> \in R /\ <<y, z>> \in R => <<x, z>> \in R
      BY <2>1, AfterOrders
    <3> QED BY <3>1, <3>2, LeastExists
  <2> QED BY <2>1, <2>2, AfterOrders
<1>2. \E r \in S : \A o \in S : o = r \/ After(r, o)
  <2> DEFINE R == {p \in S \X S : After(p[1], p[2])}
  <2>1. \A r, o \in S : <<r, o>> \in R <=> After(r, o)
    OBVIOUS
  <2> HIDE DEF R
  <2>2. PICK r \in S : \A o \in S : <<o, r>> \notin R
    <3>1. \A x \in S : <<x, x>> \notin R
      BY <2>1, AfterOrders
    <3>2. \A x, y, z \in S : <<x, y>> \in R /\ <<y, z>> \in R => <<x, z>> \in R
      BY <2>1, AfterOrders
    <3> QED BY <3>1, <3>2, LeastExists
  <2> QED BY <2>1, <2>2, AfterOrders
<1> QED BY <1>1, <1>2

Before(S, r) == {o \in S : After(r, o)}

\* A row that comes before one of the page is on the page, and its last row is there.
LEMMA PageIsClosed ==
  ASSUME NEW S \in SUBSET ExportRow, Apart(S), IsFiniteSet(S), NEW n \in Nat \ {0}
  PROVE  /\ \A r \in Foremost(S, n), o \in S : After(r, o) => o \in Foremost(S, n)
         /\ S # {} => /\ LastOf(Foremost(S, n)) \in Foremost(S, n)
                      /\ \A o \in Foremost(S, n) : o = LastOf(Foremost(S, n)) \/ After(LastOf(Foremost(S, n)), o)
<1>1. \A r \in S : IsFiniteSet(Before(S, r)) /\ Cardinality(Before(S, r)) \in Nat
  BY FS_Subset, FS_CardinalityType DEF Before
<1>2. \A r \in S : r \in Foremost(S, n) <=> Cardinality(Before(S, r)) < n
  BY DEF Foremost, Before
<1>3. ASSUME NEW r \in Foremost(S, n), NEW o \in S, After(r, o) PROVE o \in Foremost(S, n)
  <2>1. r \in S
    BY DEF Foremost
  <2>2. Before(S, o) \in SUBSET Before(S, r)
    BY <1>3, <2>1, AfterOrders DEF Before
  <2>3. Cardinality(Before(S, o)) <= Cardinality(Before(S, r))
    BY <1>1, <2>1, <2>2, FS_Subset
  <2> QED BY <1>1, <1>2, <2>1, <2>3
<1>4. ASSUME S # {} PROVE /\ LastOf(Foremost(S, n)) \in Foremost(S, n)
                          /\ \A o \in Foremost(S, n) : o = LastOf(Foremost(S, n)) \/ After(LastOf(Foremost(S, n)), o)
  <2>1. PICK r \in S : \A o \in S : o = r \/ After(o, r)
    BY <1>4, EndsExist
  <2>2. Before(S, r) = {}
    BY <2>1, AfterOrders DEF Before
  <2>3. r \in Foremost(S, n)
    BY <1>2, <2>2, FS_EmptySet
  <2> DEFINE D == Foremost(S, n)
  <2>4. D \in SUBSET ExportRow /\ Apart(D) /\ IsFiniteSet(D) /\ D # {}
    <3>1. D \in SUBSET S
      BY DEF Foremost
    <3> QED BY <2>3, <3>1, FS_Subset DEF Apart
  <2> HIDE DEF D
  <2>5. \E l \in D : \A o \in D : o = l \/ After(l, o)
    BY <2>4, EndsExist
  <2>6. LastOf(D) \in D /\ \A o \in D : o = LastOf(D) \/ After(LastOf(D), o)
    BY <2>5 DEF LastOf
  <2> QED BY <2>6 DEF D
<1> QED BY <1>3, <1>4

\* If there are no more rows than fit on the page, the page has them all.
LEMMA LastPageIsWhole ==
  ASSUME NEW S \in SUBSET ExportRow, Apart(S), IsFiniteSet(S), ~HasMore(S)
  PROVE  S \subseteq Foremost(S, Limit)
<1> SUFFICES ASSUME NEW b \in S, b \notin Foremost(S, Limit) PROVE FALSE
  OBVIOUS
<1> DEFINE D == Foremost(S, Limit)
           E == Foremost(S, Limit + 1)
<1>1. \A r \in S : IsFiniteSet(Before(S, r)) /\ Cardinality(Before(S, r)) \in Nat
  BY FS_Subset, FS_CardinalityType DEF Before
<1>2. \A r \in S : /\ r \in D <=> Cardinality(Before(S, r)) < Limit
                   /\ r \in E <=> Cardinality(Before(S, r)) < Limit + 1
  BY DEF Foremost, Before
<1>3. PICK r \in S \ D : \A o \in S \ D : o = r \/ After(o, r)
  <2>1. S \ D \in SUBSET ExportRow /\ Apart(S \ D) /\ IsFiniteSet(S \ D) /\ S \ D # {}
    BY FS_Subset DEF Apart
  <2> HIDE DEF D
  <2> QED BY <2>1, EndsExist
<1> DEFINE P == Before(S, r)
<1>4. P \subseteq D /\ P \in SUBSET ExportRow /\ Apart(P) /\ IsFiniteSet(P) /\ Cardinality(P) \in Nat /\ Cardinality(P) >= Limit
  <2>1. P \subseteq D
    BY <1>3, AfterOrders DEF Before
  <2>2. ~(Cardinality(P) < Limit) /\ Cardinality(P) \in Nat /\ IsFiniteSet(P)
    BY <1>1, <1>2, <1>3
  <2>3. P \in SUBSET ExportRow /\ Apart(P)
    BY DEF Before, Apart
  <2> QED BY <2>1, <2>2, <2>3, ExportAssumption
<1>5. P # {}
  BY <1>4, FS_EmptySet, ExportAssumption
<1>6. PICK m \in P : \A o \in P : o = m \/ After(m, o)
  <2> HIDE DEF P
  <2> QED BY <1>4, <1>5, EndsExist
<1>7. m \in S /\ m \in D /\ r \in S /\ r \notin D /\ r \notin P
  BY <1>3, <1>4, <1>6, AfterOrders DEF Before
<1>8. Before(S, m) = P \ {m}
  BY <1>6, <1>7, AfterOrders DEF Before
<1>9. Cardinality(P \ {m}) = Cardinality(P) - 1
  BY <1>4, <1>6, FS_RemoveElement
<1>10. Cardinality(P) = Limit
  <2>1. Cardinality(Before(S, m)) < Limit
    BY <1>2, <1>7
  <2> HIDE DEF P
  <2> QED BY <1>4, <1>8, <1>9, <2>1, ExportAssumption
<1>11. r \in E /\ P \subseteq E
  <2>1. r \in E
    BY <1>2, <1>7, <1>10, ExportAssumption
  <2>2. \A o \in P : o \in S /\ o \in D
    BY <1>4 DEF Before
  <2>3. \A o \in P : o \in E
    BY <1>1, <1>2, <2>2, ExportAssumption
  <2> QED BY <2>1, <2>3
<1>12. IsFiniteSet(E)
  BY FS_Subset DEF Foremost
<1>13. Cardinality(P \cup {r}) = Limit + 1 /\ Cardinality(P \cup {r}) <= Cardinality(E) /\ Cardinality(E) \in Nat
  <2>1. P \cup {r} \in SUBSET E
    BY <1>11
  <2>2. Cardinality(P \cup {r}) = Cardinality(P) + 1
    <3> HIDE DEF P
    <3> QED BY <1>4, <1>7, FS_AddElement
  <2> HIDE DEF E, P
  <2> QED BY <1>10, <1>12, <2>1, <2>2, FS_Subset, FS_CardinalityType
<1> QED BY <1>13, ExportAssumption DEF HasMore

-----------------------------------------------------------------------------
\* What the reader has got so far: every row of the period up to the cursor that has been there all along.
Covered(r) == r.known /\ r.updated <= Until /\ ~After(r, reader.cursor) => r \in got
ExInv ==
  /\ exported \in SUBSET ExportRow /\ Apart(exported) /\ IsFiniteSet(exported)
  /\ steady \subseteq exported
  /\ reader \in [at : {"outside", "reading", "done"}, cursor : [updated : Int, id : Int]]
  /\ reader.at = "outside" => reader.cursor = NoCursor
  /\ reader.at = "reading" => \A r \in steady : Covered(r)
  /\ ExportIsComplete

\* A write takes rows away and adds one that is none of the steady ones.
LEMMA WriteKeeps == ASSUME ExInv, Write PROVE ExInv'
<1>1. PICK t \in Tokens, i \in Ids \ {r.id : r \in exported \cup got}, u \in Times, known \in BOOLEAN :
        /\ exported' = {r \in exported : r.token # t} \cup {[token |-> t, id |-> i, updated |-> u, known |-> known]}
        /\ steady' = steady \cap exported' /\ reader' = reader /\ got' = got
  BY DEF Write
<1>2. PICK n : n = [token |-> t, id |-> i, updated |-> u, known |-> known]
  OBVIOUS
<1>3. n \in ExportRow /\ n.id = i /\ \A r \in exported : r.id # i
  BY <1>2 DEF ExportRow
<1> DEFINE others == {r \in exported : r.token # t}
<1>4. exported' = others \cup {n} /\ others \subseteq exported
  BY <1>1, <1>2
<1> HIDE DEF others
<1>5. exported' \in SUBSET ExportRow /\ Apart(exported')
  BY <1>3, <1>4 DEF Apart, ExInv
<1>6. IsFiniteSet(exported')
  <2>1. IsFiniteSet(others)
    BY <1>4, FS_Subset DEF ExInv
  <2> QED BY <1>4, <2>1, FS_AddElement
<1>7. steady' \subseteq exported' /\ steady' \subseteq steady
  BY <1>1
<1> QED BY <1>1, <1>5, <1>6, <1>7 DEF ExInv, Covered, ExportIsComplete, Apart, After

\* A page takes the cursor to its last row, and there is no row between that it leaves out.
LEMMA PageKeeps == ASSUME ExInv, ReadPage PROVE ExInv'
<1> DEFINE found == {r \in exported : Matches(r)}
           data == Foremost(found, Limit)
           last == LastOf(data)
<1>1. /\ reader.at # "done" /\ got' = got \cup data /\ exported' = exported
      /\ steady' = IF reader.at = "outside" THEN exported ELSE steady
      /\ reader' = IF HasMore(found)
                   THEN [at |-> "reading", cursor |-> [updated |-> last.updated, id |-> last.id]]
                   ELSE [at |-> "done", cursor |-> NoCursor]
  BY DEF ReadPage
<1>2. found \in SUBSET ExportRow /\ Apart(found) /\ IsFiniteSet(found) /\ exported \in SUBSET ExportRow /\ Apart(exported)
  BY FS_Subset DEF ExInv, Apart
<1>3. steady' \subseteq exported
  BY <1>1 DEF ExInv
<1>4. ASSUME NEW r \in steady', r.known, r.updated <= Until PROVE r \in got \/ r \in found
  <2>1. CASE After(r, reader.cursor)
    BY <1>3, <1>4, <2>1 DEF Matches
  <2>2. CASE ~After(r, reader.cursor) /\ reader.at = "reading"
    BY <1>1, <1>4, <2>2 DEF ExInv, Covered
  <2>3. CASE ~After(r, reader.cursor) /\ reader.at = "outside"
    <3>1. r.updated \in Times
      BY <1>2, <1>3 DEF ExportRow
    <3>2. r.updated \in Int /\ r.updated > -1
      BY <3>1, TimesAndIdsAreNumbers
    <3>3. reader.cursor.updated = -1
      BY <2>3 DEF ExInv, NoCursor
    <3> QED BY <2>3, <3>2, <3>3 DEF After
  <2> QED BY <1>1, <2>1, <2>2, <2>3 DEF ExInv
<1>5. CASE HasMore(found)
  <2>1. found # {}
    <3>1. found = {} => Foremost(found, Limit + 1) = {}
      BY DEF Foremost
    <3>2. 0 <= Limit
      BY ExportAssumption
    <3> HIDE DEF found
    <3> QED BY <1>5, <3>1, <3>2, FS_EmptySet, ExportAssumption DEF HasMore
  <2>2. /\ last \in data /\ \A o \in data : o = last \/ After(last, o)
        /\ \A r \in data, o \in found : After(r, o) => o \in data
    <3> HIDE DEF found
    <3> QED BY <1>2, <2>1, PageIsClosed, ExportAssumption
  <2>3. data \subseteq found
    BY DEF Foremost
  <2>4. /\ reader' = [at |-> "reading", cursor |-> [updated |-> last.updated, id |-> last.id]]
        /\ last \in ExportRow
    BY <1>1, <1>2, <1>5, <2>2, <2>3
  <2> HIDE DEF last, data, found
  <2>5. /\ reader'.at = "reading" /\ reader'.cursor.updated = last.updated /\ reader'.cursor.id = last.id
        /\ reader' \in [at : {"outside", "reading", "done"}, cursor : [updated : Int, id : Int]]
    <3>1. last.updated \in Int /\ last.id \in Int
      <4>1. last.updated \in Times /\ last.id \in Ids
        BY <2>4 DEF ExportRow
      <4> QED BY <4>1, TimesAndIdsAreNumbers
    <3> QED BY <2>4, <3>1
  <2>6. ASSUME NEW r \in steady' PROVE Covered(r)'
    <3> SUFFICES ASSUME r.known, r.updated <= Until, ~After(r, reader'.cursor)
                 PROVE  r \in got'
      BY DEF Covered
    <3>1. ~After(r, last)
      BY <2>5 DEF After
    <3>2. ASSUME r \in found PROVE r \in data
      <4>1. r = last \/ After(last, r)
        BY <1>2, <2>2, <2>3, <3>1, <3>2, AfterOrders
      <4> QED BY <2>2, <3>2, <4>1
    <3> QED BY <1>1, <1>4, <3>2
  <2> QED BY <1>1, <1>2, <1>3, <2>5, <2>6 DEF ExInv, ExportIsComplete
<1>6. CASE ~HasMore(found)
  <2>1. found \subseteq data
    <3> HIDE DEF found
    <3> QED BY <1>2, <1>6, LastPageIsWhole
  <2>2. reader' = [at |-> "done", cursor |-> NoCursor]
    BY <1>1, <1>6
  <2>3. reader' \in [at : {"outside", "reading", "done"}, cursor : [updated : Int, id : Int]] /\ reader'.at = "done"
    BY <2>2 DEF NoCursor
  <2>4. ExportIsComplete'
    BY <1>1, <1>4, <2>1 DEF ExportIsComplete
  <2> QED BY <1>1, <1>3, <2>3, <2>4 DEF ExInv
<1> QED BY <1>5, <1>6

\* Whatever is written while a reader follows the cursor, and whatever the size of a page, he gets
\* every row of the period that stays (export.service.ts, getUserEvents).
THEOREM ExportsAreComplete == ExSpec => []ExportIsComplete
<1>1. ExInit => ExInv
  BY FS_EmptySet DEF ExInit, ExInv, Apart, NoCursor, ExportIsComplete
<1>2. ExInv /\ [ExNext]_exVars => ExInv'
  <2>1. ExInv /\ UNCHANGED exVars => ExInv'
    BY DEF exVars, ExInv, Covered, ExportIsComplete, After, Apart
  <2> QED BY <2>1, WriteKeeps, PageKeeps DEF ExNext
<1>3. ExInv => ExportIsComplete
  BY DEF ExInv
<1> QED BY <1>1, <1>2, <1>3, PTL DEF ExSpec

-----------------------------------------------------------------------------
(* Workspaces *)

IsSettings(s) == s = [f \in Fields |-> s[f]]
RequestKinds == FilterKinds \cup SmtpKinds \cup {"settings", "create", "delete"}
DeletePlaces == {"delete memberships", "delete tasks", "drop database", "delete row"}

\* The call holds a row that it is about to insert, or has inserted.
Pending(c) == change[c].at \in {"delete old", "insert"}
Holding(c) == Pending(c) \/ change[c].at = "announce"

ChangeOK(c) ==
  /\ UnderWay(c) => {"at", "asked"} \subseteq DOMAIN change[c] /\ change[c].asked.kind \in RequestKinds
  /\ Holding(c) => "row" \in DOMAIN change[c] /\ change[c].row.stamp \in 0..wsStamps /\ IsSettings(change[c].row.settings)

WsTyped ==
  /\ change = [c \in WsCalls |-> change[c]] /\ payload = [p \in Payloads |-> payload[p]]
  /\ wsStamps \in Nat
  /\ IsFiniteSet(wsRows) /\ doomed \subseteq wsRows
  /\ \A r \in wsRows : r.stamp \in 0..wsStamps /\ IsSettings(r.settings)
  /\ IsSettings(expected) /\ kept \subseteq Everything
  /\ \A c \in WsCalls : ChangeOK(c)

\* Of a finite set of rows one is the latest, and one the oldest.
LEMMA LatestIs ==
  ASSUME NEW S, IsFiniteSet(S), S # {}, \A r \in S : r.stamp \in Nat
  PROVE  Latest(S) \in S /\ \A o \in S : o.stamp <= Latest(S).stamp
<1> DEFINE R == {p \in S \X S : p[1].stamp > p[2].stamp}
<1>1. \A r, o \in S : <<r, o>> \in R <=> r.stamp > o.stamp
  OBVIOUS
<1> HIDE DEF R
<1>2. PICK r \in S : \A o \in S : <<o, r>> \notin R
  <2>1. \A x \in S : <<x, x>> \notin R
    BY <1>1
  <2>2. \A x, y, z \in S : <<x, y>> \in R /\ <<y, z>> \in R => <<x, z>> \in R
    BY <1>1
  <2> QED BY <2>1, <2>2, LeastExists
<1>3. ASSUME NEW o \in S PROVE o.stamp <= r.stamp
  <2>1. ~(o.stamp > r.stamp)
    BY <1>1, <1>2
  <2> QED BY <2>1
<1> QED BY <1>3 DEF Latest

\* Likewise for the oldest.
LEMMA OldestIs ==
  ASSUME NEW S, IsFiniteSet(S), S # {}, \A r \in S : r.stamp \in Nat
  PROVE  \E r \in S : \A o \in S : r.stamp <= o.stamp
<1> DEFINE R == {p \in S \X S : p[1].stamp < p[2].stamp}
<1>1. \A r, o \in S : <<r, o>> \in R <=> r.stamp < o.stamp
  OBVIOUS
<1> HIDE DEF R
<1>2. PICK r \in S : \A o \in S : <<o, r>> \notin R
  <2>1. \A x \in S : <<x, x>> \notin R
    BY <1>1
  <2>2. \A x, y, z \in S : <<x, y>> \in R /\ <<y, z>> \in R => <<x, z>> \in R
    BY <1>1
  <2> QED BY <2>1, <2>2, LeastExists
<1>3. ASSUME NEW o \in S PROVE r.stamp <= o.stamp
  <2>1. ~(o.stamp < r.stamp)
    BY <1>1, <1>2
  <2> QED BY <2>1
<1> QED BY <1>3

\* What a call does is its own.
LEMMA Went ==
  ASSUME WsTyped, NEW c \in WsCalls, NEW q, Go(c, q)
  PROVE  /\ change' = [d \in WsCalls |-> change'[d]]
         /\ change'[c] = q
         /\ \A d \in WsCalls : d # c => change'[d] = change[d]
<1>1. change = [d \in WsCalls |-> change[d]]
  BY DEF WsTyped
<1> QED BY <1>1 DEF Go

\* Settings stay settings.
LEMMA SettingsKept ==
  ASSUME NEW s, IsSettings(s), NEW c, NEW q, q.kind \in RequestKinds
  PROVE  IsSettings(Meant(q, c, s))
<1>1. IsSettings(DefaultSettings)
  BY DEF IsSettings, DefaultSettings, Fields
<1>2. \A x : IsSettings([s EXCEPT !.domains = x]) /\ IsSettings([s EXCEPT !.filters = x]) /\ IsSettings([s EXCEPT !.smtp = x])
  BY DEF IsSettings, Fields
<1>3. CASE q.kind = "settings"
  BY <1>2, <1>3 DEF Meant
<1>4. CASE q.kind \in FilterKinds
  <2>1. Meant(q, c, s) = [s EXCEPT !.filters = FilterEdit(q, c, s.filters)]
    BY <1>4 DEF Meant, FilterKinds
  <2> QED BY <1>2, <2>1
<1>5. CASE q.kind = "set smtp"
  BY <1>2, <1>5 DEF Meant, FilterKinds
<1>6. CASE q.kind = "delete smtp"
  BY <1>2, <1>6 DEF Meant, FilterKinds
<1>7. CASE q.kind = "create"
  BY <1>1, <1>7 DEF Meant, FilterKinds
<1>8. CASE q.kind = "delete"
  BY <1>8 DEF Meant, FilterKinds
<1> QED BY <1>3, <1>4, <1>5, <1>6, <1>7, <1>8 DEF RequestKinds, SmtpKinds

\* What is merged from settings are settings.
LEMMA MergedIs ==
  ASSUME NEW s, NEW patch
  PROVE  IsSettings(Merged(s, patch))
BY DEF IsSettings, Merged

\* Rows are told apart by their stamps, also from those about to be inserted.
StampsApart ==
  /\ \A r, o \in wsRows : r.stamp = o.stamp => r = o
  /\ \A c \in WsCalls : Pending(c) => \A r \in wsRows : r.stamp # change[c].row.stamp
  /\ \A c, d \in WsCalls : Pending(c) /\ Pending(d) /\ c # d => change[c].row.stamp # change[d].row.stamp

\* What stays, unless a deletion has begun.
Staying ==
  /\ WorkspaceStays
  /\ \A c \in WsCalls : change[c].at \in DeletePlaces => "deletion begun" \in ends

RowsInv == WsTyped /\ StampsApart /\ Staying

\* A call that goes on to the next await is asked for what it was.
LEMMA Advances ==
  ASSUME NEW r, {"at", "asked"} \subseteq DOMAIN r, NEW x, NEW q, q = [r EXCEPT !.at = x]
  PROVE  /\ q.at = x /\ q.asked = r.asked /\ DOMAIN q = DOMAIN r
         /\ "row" \in DOMAIN r => q.row = r.row
OBVIOUS

\* A call goes on and leaves the rows alone.
LEMMA CallGoes ==
  ASSUME RowsInv, NEW c \in WsCalls, NEW q, Go(c, q),
         UNCHANGED <<wsRows, doomed, wsStamps, payload>>, IsSettings(expected'), kept' \subseteq Everything,
         ends \subseteq ends', "born" \in ends' => "born" \in ends,
         q.at \notin {"idle", "done", "failed"} => {"at",
         "asked"} \subseteq DOMAIN q /\ q.asked.kind \in RequestKinds,
         q.at \in {"delete old", "insert", "announce"} =>
           "row" \in DOMAIN q /\ q.row = change[c].row /\ Holding(c) /\ (q.at = "announce" \/ Pending(c)),
         q.at \in DeletePlaces => "deletion begun" \in ends',
         change[c].at = "insert" => q.at = "insert" \/ "failed" \in ends'
  PROVE  RowsInv'
<1>1. /\ change' = [d \in WsCalls |-> change'[d]]
      /\ change'[c] = q
      /\ \A d \in WsCalls : d # c => change'[d] = change[d]
  <2>1. WsTyped
    BY DEF RowsInv
  <2> QED BY <2>1, Went
<1>2. WsTyped'
  <2>1. ChangeOK(c)'
    BY <1>1 DEF RowsInv, WsTyped, ChangeOK, UnderWay, Holding, Pending
  <2>2. ASSUME NEW d \in WsCalls, d # c PROVE ChangeOK(d)'
    <3>1. ChangeOK(d)
      BY DEF RowsInv, WsTyped
    <3>2. change'[d] = change[d]
      BY <1>1, <2>2
    <3> QED BY <3>1, <3>2 DEF ChangeOK, UnderWay, Holding, Pending
  <2>3. \A d \in WsCalls : ChangeOK(d)'
    BY <2>1, <2>2
  <2> QED BY <1>1, <2>3 DEF RowsInv, WsTyped
<1>3. \A d \in WsCalls : Pending(d)' => Pending(d) /\ change'[d].row = change[d].row
  BY <1>1 DEF Pending
<1>4. StampsApart'
  BY <1>3 DEF RowsInv, StampsApart
<1>5. \A d \in WsCalls : change'[d].at \in DeletePlaces => "deletion begun" \in ends'
  BY <1>1 DEF RowsInv, Staying
<1>6. WorkspaceStays'
  <2>1. SUFFICES ASSUME "born" \in ends', ends' \cap {"failed", "deletion begun"} = {}, Lasting' = {}
                 PROVE  \E d \in WsCalls : change'[d].at = "insert"
    BY DEF WorkspaceStays
  <2>2. PICK d \in WsCalls : change[d].at = "insert"
    BY <2>1 DEF RowsInv, Staying, WorkspaceStays, Lasting
  <2>3. change'[d].at = "insert"
    BY <1>1, <2>1, <2>2
  <2> QED BY <2>3
<1> QED BY <1>2, <1>4, <1>5, <1>6 DEF RowsInv, Staying

\* The calls that leave the rows alone.
QuietCall(c) ==
  \/ StartCreate(c) \/ CreateDatabase(c) \/ CreateMembership(c) \/ CreateTask(c)
  \/ StartDelete(c) \/ DeleteMemberships(c) \/ DeleteTasks(c) \/ DropDatabase(c)
  \/ StartUpdate(c) \/ StartEdit(c) \/ UpdateFindsNothing(c) \/ Announce(c) \/ Fail(c)

\* What a filter or SMTP call asks for is known by its kind.
LEMMA EditsAreRequests ==
  ASSUME NEW c, NEW fs, NEW q \in FilterRequests(c, fs) \cup [kind : SmtpKinds]
  PROVE  q.kind \in FilterKinds \cup SmtpKinds
<1>1. CASE q \in [kind : SmtpKinds]
  BY <1>1
<1>2. CASE q \in FilterRequests(c, fs)
  <2> DEFINE ids == {fs[i].id : i \in DOMAIN fs}
  <2> DEFINE lists == SetToSeqs(ids)
  <2>1. q \in {[kind |-> "create filter"]} \cup [kind : {"delete filter"}, id : ids]
             \cup [kind : {"move filter"}, id : ids, order : {1}] \cup [kind : {"reorder filters"}, ids : lists]
    BY <1>2 DEF FilterRequests
  <2> HIDE DEF ids, lists
  <2>2. CASE q \in {[kind |-> "create filter"]}
    <3>1. [kind |-> "create filter"].kind = "create filter"
      OBVIOUS
    <3>2. q = [kind |-> "create filter"]
      BY <2>2
    <3>3. q.kind = "create filter"
      BY <3>1, <3>2, Zenon
    <3> QED BY <3>3 DEF FilterKinds
  <2>3. CASE q \in [kind : {"delete filter"}, id : ids]
    BY <2>3 DEF FilterKinds
  <2>4. CASE q \in [kind : {"move filter"}, id : ids, order : {1}]
    BY <2>4 DEF FilterKinds
  <2>5. CASE q \in [kind : {"reorder filters"}, ids : lists]
    BY <2>5 DEF FilterKinds
  <2> QED BY <2>1, <2>2, <2>3, <2>4, <2>5
<1> QED BY <1>1, <1>2

\* A call ends as it was meant.
LEMMA EndIs ==
  ASSUME RowsInv, NEW c \in WsCalls, UnderWay(c), End(c)
  PROVE  Go(c, Concluded) /\ IsSettings(expected') /\ ends \subseteq ends' /\ ("born" \in ends' => "born" \in ends)
<1>1. change[c].asked.kind \in RequestKinds /\ IsSettings(expected)
  BY DEF RowsInv, WsTyped, ChangeOK
<1>2. IsSettings(Meant(change[c].asked, c, expected))
  BY <1>1, SettingsKept
<1> QED BY <1>2 DEF End

\* A request that is answered by an end.
LEMMA CallEnds ==
  ASSUME RowsInv, NEW c \in WsCalls, UnderWay(c), change[c].at # "insert", End(c),
         UNCHANGED <<wsRows, doomed, wsStamps, payload>>, kept' \subseteq Everything
  PROVE  RowsInv'
<1>1. Go(c, Concluded) /\ IsSettings(expected') /\ ends \subseteq ends' /\ ("born" \in ends' => "born" \in ends)
  BY EndIs
<1>2. Concluded.at = "done"
  BY DEF Concluded
<1> HIDE DEF Concluded
<1> DEFINE q == Concluded
<1>3. /\ q.at \notin {"idle", "done", "failed"} => {"at", "asked"} \subseteq DOMAIN q /\ q.asked.kind \in RequestKinds
      /\ q.at \in {"delete old", "insert", "announce"} =>
           "row" \in DOMAIN q /\ q.row = change[c].row /\ Holding(c) /\ (q.at = "announce" \/ Pending(c))
      /\ q.at \in DeletePlaces => "deletion begun" \in ends'
  BY <1>2 DEF DeletePlaces
<1> HIDE DEF q
<1>4. Go(c, q)
  BY <1>1 DEF q
<1> QED BY <1>1, <1>3, <1>4, CallGoes

\* A request that goes on to another place, which is not one where it holds a row.
LEMMA CallAdvances ==
  ASSUME RowsInv, NEW c \in WsCalls, UnderWay(c), ~Holding(c), NEW x, Go(c, [change[c] EXCEPT !.at = x]),
         x \notin {"delete old", "insert", "announce"}, x \in DeletePlaces => change[c].at \in DeletePlaces,
         UNCHANGED <<wsRows, doomed, wsStamps, payload, expected, ends>>, kept' \subseteq Everything
  PROVE  RowsInv'
<1>1. {"at", "asked"} \subseteq DOMAIN change[c] /\ change[c].asked.kind \in RequestKinds /\ IsSettings(expected)
  BY DEF RowsInv, WsTyped, ChangeOK
<1>2. PICK q : q = [change[c] EXCEPT !.at = x]
  OBVIOUS
<1>3. q.at = x /\ q.asked = change[c].asked /\ DOMAIN q = DOMAIN change[c] /\ Go(c, q)
  BY <1>1, <1>2
<1>4. change[c].at \in DeletePlaces => "deletion begun" \in ends
  BY DEF RowsInv, Staying
<1>5. /\ q.at \notin {"idle", "done", "failed"} => {"at", "asked"} \subseteq DOMAIN q /\ q.asked.kind \in RequestKinds
      /\ q.at \in {"delete old", "insert", "announce"} =>
           "row" \in DOMAIN q /\ q.row = change[c].row /\ Holding(c) /\ (q.at = "announce" \/ Pending(c))
      /\ q.at \in DeletePlaces => "deletion begun" \in ends'
      /\ change[c].at # "insert"
  BY <1>1, <1>3, <1>4 DEF Holding, Pending
<1> QED BY <1>1, <1>3, <1>5, CallGoes

\* A request that begins.
LEMMA CallBegins ==
  ASSUME RowsInv, NEW c \in WsCalls, NEW q, BeginChange(c, q),
         q.at \in {"create database", "delete memberships", "update"},
         {"at", "asked"} \subseteq DOMAIN q /\ q.asked.kind \in RequestKinds,
         q.at = "delete memberships" => "deletion begun" \in ends',
         ends \subseteq ends', "born" \in ends' => "born" \in ends,
         UNCHANGED <<wsRows, doomed, kept, wsStamps, payload, expected>>
  PROVE  RowsInv'
<1>0. change[c].at = "idle" /\ Go(c, q)
  <2>1. change[c] = Unbegun /\ Go(c, q)
    BY DEF BeginChange
  <2>2. Unbegun.at = "idle"
    BY DEF Unbegun
  <2> QED BY <2>1, <2>2
<1>1. change[c].at = "idle" /\ Go(c, q) /\ IsSettings(expected') /\ kept' \subseteq Everything
  BY <1>0 DEF RowsInv, WsTyped, IsSettings
<1>2. /\ q.at \notin {"idle", "done", "failed"} => {"at", "asked"} \subseteq DOMAIN q /\ q.asked.kind \in RequestKinds
      /\ q.at \in {"delete old", "insert", "announce"} =>
           "row" \in DOMAIN q /\ q.row = change[c].row /\ Holding(c) /\ (q.at = "announce" \/ Pending(c))
      /\ q.at \in DeletePlaces => "deletion begun" \in ends'
      /\ change[c].at # "insert"
  BY <1>1 DEF DeletePlaces
<1> QED BY <1>1, <1>2, CallGoes

\* These calls keep the types, the stamps apart and the workspace.
LEMMA QuietCalls ==
  ASSUME RowsInv, NEW c \in WsCalls, QuietCall(c)
  PROVE  RowsInv'
<1>1. kept \subseteq Everything /\ IsSettings(expected)
  BY DEF RowsInv, WsTyped
<1>2. CASE StartCreate(c)
  <2> DEFINE q == [at |-> "create database", asked |-> [kind |-> "create"]]
  <2>1. /\ q.at = "create database" /\ DOMAIN q = {"at", "asked"} /\ q.asked.kind \in RequestKinds
        /\ BeginChange(c, q) /\ UNCHANGED <<wsRows, doomed, kept, wsStamps, payload, expected, ends>>
    BY <1>2 DEF StartCreate, RequestKinds, served
  <2> HIDE DEF q
  <2> QED BY <2>1, CallBegins
<1>3. CASE CreateDatabase(c)
  <2>0. PICK x : x = "create row"
    OBVIOUS
  <2>1. /\ UnderWay(c) /\ ~Holding(c) /\ kept' \subseteq Everything /\ Go(c, [change[c] EXCEPT !.at = x])
        /\ UNCHANGED <<wsRows, doomed, wsStamps, payload, expected, ends>>
    BY <2>0, <1>1, <1>3 DEF CreateDatabase, UnderWay, Holding, Pending, Everything, served, wsPast
  <2>2. x \notin {"delete old", "insert", "announce"} /\ (x \in DeletePlaces => change[c].at \in DeletePlaces)
    BY <2>0, <2>1 DEF DeletePlaces
  <2> QED BY <2>1, <2>2, CallAdvances
<1>4. CASE CreateMembership(c)
  <2>0. PICK x : x = "create task"
    OBVIOUS
  <2>1. /\ UnderWay(c) /\ ~Holding(c) /\ kept' \subseteq Everything /\ Go(c, [change[c] EXCEPT !.at = x])
        /\ UNCHANGED <<wsRows, doomed, wsStamps, payload, expected, ends>>
    BY <2>0, <1>1, <1>4 DEF CreateMembership, UnderWay, Holding, Pending, Everything, served, wsPast
  <2>2. x \notin {"delete old", "insert", "announce"} /\ (x \in DeletePlaces => change[c].at \in DeletePlaces)
    BY <2>0, <2>1 DEF DeletePlaces
  <2> QED BY <2>1, <2>2, CallAdvances
<1>5. CASE CreateTask(c)
  <2>1. /\ UnderWay(c) /\ change[c].at # "insert" /\ kept' \subseteq Everything /\ End(c)
        /\ UNCHANGED <<wsRows, doomed, wsStamps, payload>>
    BY <1>1, <1>5 DEF CreateTask, UnderWay, Everything, served
  <2> QED BY <2>1, CallEnds
<1>6. CASE StartDelete(c)
  <2> DEFINE q == [at |-> "delete memberships", asked |-> [kind |-> "delete"]]
  <2>1. /\ q.at = "delete memberships" /\ DOMAIN q = {"at", "asked"} /\ q.asked.kind \in RequestKinds
        /\ BeginChange(c, q) /\ UNCHANGED <<wsRows, doomed, kept, wsStamps, payload, expected>>
        /\ ends' = ends \cup {"deletion begun"}
    BY <1>6 DEF StartDelete, RequestKinds, served
  <2> HIDE DEF q
  <2> QED BY <2>1, CallBegins
<1>7. CASE DeleteMemberships(c)
  <2>0. PICK x : x = "delete tasks"
    OBVIOUS
  <2>1. /\ UnderWay(c) /\ ~Holding(c) /\ kept' \subseteq Everything /\ Go(c, [change[c] EXCEPT !.at = x])
        /\ UNCHANGED <<wsRows, doomed, wsStamps, payload, expected, ends>> /\ change[c].at \in DeletePlaces
    BY <2>0, <1>1, <1>7 DEF DeleteMemberships, DeleteStep, UnderWay, Holding, Pending, served, wsPast, DeletePlaces
  <2>2. x \notin {"delete old", "insert", "announce"} /\ (x \in DeletePlaces => change[c].at \in DeletePlaces)
    BY <2>0, <2>1 DEF DeletePlaces
  <2> QED BY <2>1, <2>2, CallAdvances
<1>8. CASE DeleteTasks(c)
  <2>0. PICK x : x = "drop database"
    OBVIOUS
  <2>1. /\ UnderWay(c) /\ ~Holding(c) /\ kept' \subseteq Everything /\ Go(c, [change[c] EXCEPT !.at = x])
        /\ UNCHANGED <<wsRows, doomed, wsStamps, payload, expected, ends>> /\ change[c].at \in DeletePlaces
    BY <2>0, <1>1, <1>8 DEF DeleteTasks, DeleteStep, UnderWay, Holding, Pending, served, wsPast, DeletePlaces
  <2>2. x \notin {"delete old", "insert", "announce"} /\ (x \in DeletePlaces => change[c].at \in DeletePlaces)
    BY <2>0, <2>1 DEF DeletePlaces
  <2> QED BY <2>1, <2>2, CallAdvances
<1>9. CASE DropDatabase(c)
  <2>0. PICK x : x = "delete row"
    OBVIOUS
  <2>1. /\ UnderWay(c) /\ ~Holding(c) /\ kept' \subseteq Everything /\ Go(c, [change[c] EXCEPT !.at = x])
        /\ UNCHANGED <<wsRows, doomed, wsStamps, payload, expected, ends>> /\ change[c].at \in DeletePlaces
    BY <2>0, <1>1, <1>9 DEF DropDatabase, DeleteStep, UnderWay, Holding, Pending, served, wsPast, DeletePlaces
  <2>2. x \notin {"delete old", "insert", "announce"} /\ (x \in DeletePlaces => change[c].at \in DeletePlaces)
    BY <2>0, <2>1 DEF DeletePlaces
  <2> QED BY <2>1, <2>2, CallAdvances
<1>10. CASE StartUpdate(c)
  <2> DEFINE q == [at |-> "update", asked |-> [kind |-> "settings"], patch |-> [f \in {"domains"} |-> c]]
  <2>1. /\ q.at = "update" /\ DOMAIN q = {"at", "asked", "patch"} /\ q.asked.kind \in RequestKinds
        /\ BeginChange(c, q) /\ UNCHANGED <<wsRows, doomed, kept, wsStamps, payload, expected, ends>>
    BY <1>10 DEF StartUpdate, RequestKinds, served
  <2> HIDE DEF q
  <2> QED BY <2>1, CallBegins
<1>11. CASE StartEdit(c)
  <2> DEFINE s == Latest(wsRows).settings
  <2>1. PICK r \in FilterRequests(c, s.filters) \cup [kind : SmtpKinds] :
               BeginChange(c, [at |-> "update", asked |-> r, patch |-> Patch(r, c, s)])
    BY <1>11 DEF StartEdit
  <2>2. r.kind \in RequestKinds
    BY EditsAreRequests DEF RequestKinds
  <2> DEFINE q == [at |-> "update", asked |-> r, patch |-> Patch(r, c, s)]
  <2>3. /\ q.at = "update" /\ DOMAIN q = {"at", "asked", "patch"} /\ q.asked.kind \in RequestKinds
        /\ BeginChange(c, q) /\ UNCHANGED <<wsRows, doomed, kept, wsStamps, payload, expected, ends>>
    BY <1>11, <2>1, <2>2 DEF StartEdit, served
  <2> HIDE DEF q
  <2> QED BY <2>3, CallBegins
<1>12. CASE UpdateFindsNothing(c)
  <2> DEFINE q == Concluded
  <2>1. /\ q.at = "done" /\ Go(c, q) /\ change[c].at = "update"
        /\ UNCHANGED <<wsRows, doomed, kept, wsStamps, payload, expected, ends>>
    BY <1>12 DEF UpdateFindsNothing, Refused, Concluded, served, wsPast
  <2> HIDE DEF q
  <2>2. q.at \notin DeletePlaces
    BY <2>1 DEF DeletePlaces
  <2> QED BY <1>1, <2>1, <2>2, CallGoes
<1>13. CASE Announce(c)
  <2>1. /\ UnderWay(c) /\ change[c].at # "insert" /\ kept' \subseteq Everything /\ End(c)
        /\ UNCHANGED <<wsRows, doomed, wsStamps, payload>>
    BY <1>1, <1>13 DEF Announce, UnderWay
  <2> QED BY <2>1, CallEnds
<1>14. CASE Fail(c)
  <2> DEFINE q == Broken
  <2>1. /\ q.at = "failed" /\ Go(c, q) /\ ends' = ends \cup {"failed"}
        /\ UNCHANGED <<wsRows, doomed, kept, wsStamps, payload, expected>>
    BY <1>14 DEF Fail, Broken, served
  <2> HIDE DEF q
  <2>2. q.at \notin DeletePlaces
    BY <2>1 DEF DeletePlaces
  <2> QED BY <1>1, <2>1, <2>2, CallGoes
<1> QED BY <1>2, <1>3, <1>4, <1>5, <1>6, <1>7, <1>8, <1>9, <1>10, <1>11, <1>12, <1>13, <1>14 DEF QuietCall

\* A step of no call keeps what calls are relied on for.
LEMMA RowsFrame ==
  ASSUME RowsInv, UNCHANGED <<wsStamps, change, ends, expected, kept>>, payload' = [p \in Payloads |-> payload'[p]],
         wsRows' \subseteq wsRows, doomed' \subseteq wsRows', Lasting' = Lasting
  PROVE  RowsInv'
<1>1. \A c \in WsCalls : ChangeOK(c)'
  BY DEF RowsInv, WsTyped, ChangeOK, UnderWay, Holding, Pending
<1>2. IsFiniteSet(wsRows')
  BY FS_Subset DEF RowsInv, WsTyped
<1>3. WsTyped'
  BY <1>1, <1>2 DEF RowsInv, WsTyped, IsSettings
<1>4. StampsApart'
  BY DEF RowsInv, StampsApart, Pending
<1>5. Staying'
  BY DEF RowsInv, Staying, WorkspaceStays
<1> QED BY <1>3, <1>4, <1>5 DEF RowsInv

\* The row that ClickHouse removes is one it was told to, and none of those is older.
LEMMA MutateIs ==
  ASSUME WsTyped, WsMutate
  PROVE  \E o \in doomed : /\ \A r \in doomed : o.stamp <= r.stamp
                           /\ wsRows' = wsRows \ {o} /\ doomed' = doomed \ {o} /\ Lasting' = Lasting
<1> DEFINE oldest == CHOOSE r \in doomed : \A o \in doomed : r.stamp <= o.stamp
<1>1. IsFiniteSet(doomed) /\ doomed # {} /\ (\A r \in doomed : r.stamp \in Nat) /\ doomed \subseteq wsRows
  BY FS_Subset DEF WsTyped, WsMutate
<1>2. \E r \in doomed : \A o \in doomed : r.stamp <= o.stamp
  BY <1>1, OldestIs
<1>3. oldest \in doomed /\ \A r \in doomed : oldest.stamp <= r.stamp
  BY <1>2
<1>4. wsRows' = wsRows \ {oldest} /\ doomed' = doomed \ {oldest}
  BY DEF WsMutate
<1> HIDE DEF oldest
<1>5. Lasting' = Lasting
  BY <1>1, <1>3, <1>4 DEF Lasting
<1> QED BY <1>3, <1>4, <1>5

\* Removing a row that was to go keeps them.
LEMMA MutateKeepsRows ==
  ASSUME RowsInv, WsMutate
  PROVE  RowsInv'
<1>1. WsTyped
  BY DEF RowsInv
<1>2. PICK o \in doomed : wsRows' = wsRows \ {o} /\ doomed' = doomed \ {o} /\ Lasting' = Lasting
  BY <1>1, MutateIs
<1>3. UNCHANGED <<wsStamps, change, ends, expected, kept, payload>>
  BY DEF WsMutate, served, wsPast
<1> QED BY <1>1, <1>2, <1>3, RowsFrame DEF WsTyped

\* What a payload does is its own.
LEMMA PayloadWent ==
  ASSUME WsTyped, NEW p \in Payloads, NEW q, payload' = [payload EXCEPT ![p] = q]
  PROVE  /\ payload' = [r \in Payloads |-> payload'[r]]
         /\ payload'[p] = q
         /\ \A r \in Payloads : r # p => payload'[r] = payload[r]
<1>1. payload = [r \in Payloads |-> payload[r]]
  BY DEF WsTyped
<1> QED BY <1>1

PayloadStep(p) == PayloadHits(p) \/ PayloadMisses(p) \/ PayloadFindsNothing(p) \/ PayloadFills(p)

\* Payloads keep them.
LEMMA PayloadsKeepRows ==
  ASSUME RowsInv, NEW p \in Payloads, PayloadStep(p)
  PROVE  RowsInv'
<1>1. WsTyped
  BY DEF RowsInv
<1>2. PICK q : payload' = [payload EXCEPT ![p] = q]
  BY DEF PayloadStep, PayloadHits, PayloadMisses, PayloadFindsNothing, PayloadFills
<1>3. payload' = [r \in Payloads |-> payload'[r]]
  BY <1>1, <1>2, PayloadWent
<1>4. UNCHANGED <<wsRows, doomed, wsStamps, change, ends, expected, kept>>
  BY DEF PayloadStep, PayloadHits, PayloadMisses, PayloadFindsNothing, PayloadFills, wsPast
<1> QED BY <1>1, <1>3, <1>4, RowsFrame DEF Lasting, WsTyped

\* The clock keeps them.
LEMMA TickKeepsRows ==
  ASSUME RowsInv, Tick
  PROVE  RowsInv'
<1>1. WsTyped
  BY DEF RowsInv
<1>2. UNCHANGED <<wsRows, doomed, wsStamps, change, ends, expected, kept, payload>>
  BY DEF Tick, wsPast
<1> QED BY <1>1, <1>2, RowsFrame DEF Lasting, WsTyped

\* Stamps go up.
LEMMA IntervalGrows ==
  ASSUME NEW m \in Nat, NEW n \in Nat, m <= n
  PROVE  \A k \in 0..m : k \in 0..n
OBVIOUS

\* A row that is new has a stamp that no row has, stored or about to be.
IsNew(n, c) ==
  /\ IsSettings(n.settings) /\ n.stamp \in 0..wsStamps'
  /\ \A r \in wsRows : r.stamp # n.stamp
  /\ \A d \in WsCalls : d # c /\ Pending(d) => change[d].row.stamp # n.stamp
\* What a call is like that has just added it.
HasAdded(q) ==
  /\ {"at", "asked"} \subseteq DOMAIN q /\ q.asked.kind \in RequestKinds
  /\ \/ q.at = "create membership"
     \/ q.at = "announce" /\ "row" \in DOMAIN q /\ q.row.stamp \in 0..wsStamps' /\ IsSettings(q.row.settings)

\* A row is added.
LEMMA RowIsAdded ==
  ASSUME RowsInv, NEW c \in WsCalls, NEW q, Go(c, q), NEW n, wsRows' = wsRows \cup {n}, IsNew(n, c), HasAdded(q),
         wsStamps' \in Nat, wsStamps <= wsStamps', UNCHANGED <<doomed, kept, payload, expected, ends>>
  PROVE  RowsInv'
<1>1. /\ change' = [d \in WsCalls |-> change'[d]]
      /\ change'[c] = q
      /\ \A d \in WsCalls : d # c => change'[d] = change[d]
  <2>1. WsTyped
    BY DEF RowsInv
  <2> QED BY <2>1, Went
<1>0. wsStamps \in Nat /\ \A k \in 0..wsStamps : k \in 0..wsStamps'
  <2>1. wsStamps \in Nat
    BY DEF RowsInv, WsTyped
  <2> QED BY <2>1, IntervalGrows
<1>2. WsTyped'
  <2>1. ChangeOK(c)'
    BY <1>1 DEF ChangeOK, UnderWay, Holding, Pending, HasAdded
  <2>2. ASSUME NEW d \in WsCalls, d # c PROVE ChangeOK(d)'
    <3>1. ChangeOK(d) /\ wsStamps \in Nat
      BY DEF RowsInv, WsTyped
    <3>2. change'[d] = change[d]
      BY <1>1, <2>2
    <3> QED BY <1>0, <3>1, <3>2 DEF ChangeOK, UnderWay, Holding, Pending
  <2>3. \A d \in WsCalls : ChangeOK(d)'
    BY <2>1, <2>2
  <2>4. IsFiniteSet(wsRows')
    BY FS_AddElement DEF RowsInv, WsTyped
  <2>5. \A r \in wsRows' : r.stamp \in 0..wsStamps' /\ IsSettings(r.settings)
    <3>1. \A r \in wsRows : r.stamp \in 0..wsStamps /\ IsSettings(r.settings)
      BY DEF RowsInv, WsTyped
    <3> QED BY <1>0, <3>1 DEF IsNew
  <2>6. IsSettings(expected')
    BY DEF RowsInv, WsTyped, IsSettings
  <2> QED BY <1>1, <2>3, <2>4, <2>5, <2>6 DEF RowsInv, WsTyped
<1>3. \A d \in WsCalls : Pending(d)' => d # c /\ Pending(d) /\ change'[d] = change[d]
  BY <1>1 DEF Pending, HasAdded
<1>4. StampsApart'
  <2>1. \A r, o \in wsRows' : r.stamp = o.stamp => r = o
    BY DEF RowsInv, StampsApart, IsNew
  <2>2. \A d \in WsCalls : Pending(d)' => \A r \in wsRows' : r.stamp # change'[d].row.stamp
    BY <1>3 DEF RowsInv, StampsApart, IsNew
  <2>3. \A d, e \in WsCalls : Pending(d)' /\ Pending(e)' /\ d # e => change'[d].row.stamp # change'[e].row.stamp
    BY <1>3 DEF RowsInv, StampsApart, IsNew
  <2> QED BY <2>1, <2>2, <2>3 DEF StampsApart
<1>5. n \in Lasting'
  <2>1. n \notin wsRows /\ doomed \subseteq wsRows
    BY DEF RowsInv, WsTyped, IsNew
  <2> QED BY <2>1 DEF Lasting
<1>6. \A d \in WsCalls : change'[d].at \in DeletePlaces => "deletion begun" \in ends'
  BY <1>1 DEF RowsInv, Staying, DeletePlaces, HasAdded
<1>7. WorkspaceStays'
  BY <1>5 DEF WorkspaceStays
<1> QED BY <1>2, <1>4, <1>6, <1>7 DEF RowsInv, Staying

\* The row of a new workspace keeps them.
LEMMA CreateKeepsRows ==
  ASSUME RowsInv, NEW c \in WsCalls, CreateRow(c)
  PROVE  RowsInv'
<1>1. wsStamps \in Nat /\ {"at", "asked"} \subseteq DOMAIN change[c] /\ change[c].asked.kind \in RequestKinds
  BY DEF RowsInv, WsTyped, ChangeOK, UnderWay, CreateRow
<1>2. PICK n : n = [stamp |-> wsStamps', settings |-> DefaultSettings]
  OBVIOUS
<1>3. n.stamp = wsStamps + 1 /\ IsSettings(n.settings) /\ wsRows' = wsRows \cup {n} /\ wsStamps' = wsStamps + 1
  BY <1>2 DEF CreateRow, IsSettings, DefaultSettings, Fields
<1>4. PICK q : q = [change[c] EXCEPT !.at = "create membership"]
  OBVIOUS
<1>5. q.at = "create membership" /\ {"at", "asked"} \subseteq DOMAIN q /\ q.asked.kind \in RequestKinds /\ Go(c, q)
  BY <1>1, <1>4 DEF CreateRow
<1>6. UNCHANGED <<doomed, kept, payload, expected, ends>>
  BY DEF CreateRow, served, wsPast
<1>7. /\ \A r \in wsRows : r.stamp # n.stamp
      /\ \A d \in WsCalls : d # c /\ Pending(d) => change[d].row.stamp # n.stamp
  BY <1>1, <1>3 DEF RowsInv, WsTyped, ChangeOK, Holding
<1>8. wsStamps' \in Nat /\ wsStamps <= wsStamps' /\ n.stamp \in 0..wsStamps'
  BY <1>1, <1>3
<1>9. IsNew(n, c) /\ HasAdded(q)
  BY <1>3, <1>5, <1>7, <1>8 DEF IsNew, HasAdded
<1> QED BY <1>3, <1>5, <1>6, <1>8, <1>9, RowIsAdded

\* The row of an update keeps them.
LEMMA InsertKeepsRows ==
  ASSUME RowsInv, NEW c \in WsCalls, InsertNew(c)
  PROVE  RowsInv'
<1>1. /\ wsStamps \in Nat /\ {"at", "asked", "row"} \subseteq DOMAIN change[c] /\ change[c].asked.kind \in RequestKinds
      /\ change[c].row.stamp \in 0..wsStamps /\ IsSettings(change[c].row.settings) /\ Pending(c)
  BY DEF RowsInv, WsTyped, ChangeOK, UnderWay, Holding, Pending, InsertNew
<1>2. PICK n : n = change[c].row
  OBVIOUS
<1>4. PICK q : q = [change[c] EXCEPT !.at = "announce"]
  OBVIOUS
<1>5. q.at = "announce" /\ {"at", "asked", "row"} \subseteq DOMAIN q /\ q.asked.kind \in RequestKinds /\ Go(c, q) /\ q.row = n
  BY <1>1, <1>2, <1>4 DEF InsertNew
<1>6. UNCHANGED <<doomed, kept, payload, expected, ends, wsStamps>> /\ wsRows' = wsRows \cup {n}
  BY <1>2 DEF InsertNew, served, wsPast
<1>7. /\ \A r \in wsRows : r.stamp # n.stamp
      /\ \A d \in WsCalls : d # c /\ Pending(d) => change[d].row.stamp # n.stamp
  BY <1>1, <1>2 DEF RowsInv, StampsApart
<1>8. wsStamps' \in Nat /\ wsStamps <= wsStamps' /\ n.stamp \in 0..wsStamps' /\ IsSettings(n.settings)
  BY <1>1, <1>2, <1>6
<1>9. IsNew(n, c) /\ HasAdded(q)
  BY <1>5, <1>7, <1>8 DEF IsNew, HasAdded
<1> QED BY <1>5, <1>6, <1>8, <1>9, RowIsAdded

IsChange(q) ==
  /\ q.at \notin {"idle", "done", "failed"} => {"at", "asked"} \subseteq DOMAIN q /\ q.asked.kind \in RequestKinds
  /\ q.at \in {"delete old", "insert", "announce"} =>
       "row" \in DOMAIN q /\ q.row.stamp \in 0..wsStamps' /\ IsSettings(q.row.settings)

\* A call that writes no row keeps the types.
LEMMA TypesGoOn ==
  ASSUME WsTyped, NEW c \in WsCalls, NEW q, Go(c, q), IsChange(q), wsStamps' \in Nat, wsStamps <= wsStamps',
         UNCHANGED <<wsRows, payload, kept>>, IsSettings(expected'), doomed' \subseteq wsRows
  PROVE  WsTyped'
<1>0. wsStamps \in Nat /\ \A k \in 0..wsStamps : k \in 0..wsStamps'
  <2>1. wsStamps \in Nat
    BY DEF WsTyped
  <2> QED BY <2>1, IntervalGrows
<1>1. /\ change' = [d \in WsCalls |-> change'[d]]
      /\ change'[c] = q
      /\ \A d \in WsCalls : d # c => change'[d] = change[d]
  BY Went
<1>2. ChangeOK(c)'
  BY <1>1 DEF ChangeOK, UnderWay, Holding, Pending, IsChange
<1>3. ASSUME NEW d \in WsCalls, d # c PROVE ChangeOK(d)'
  <2>1. ChangeOK(d)
    BY DEF WsTyped
  <2>2. change'[d] = change[d]
    BY <1>1, <1>3
  <2> QED BY <1>0, <2>1, <2>2 DEF ChangeOK, UnderWay, Holding, Pending
<1>4. \A d \in WsCalls : ChangeOK(d)'
  BY <1>2, <1>3
<1>5. \A r \in wsRows' : r.stamp \in 0..wsStamps' /\ IsSettings(r.settings)
  <2>1. \A r \in wsRows : r.stamp \in 0..wsStamps /\ IsSettings(r.settings)
    BY DEF WsTyped
  <2> QED BY <1>0, <2>1
<1> QED BY <1>1, <1>4, <1>5 DEF WsTyped

\* Reading for an update keeps them.
LEMMA ReadKeepsRows ==
  ASSUME RowsInv, NEW c \in WsCalls, UpdateReads(c)
  PROVE  RowsInv'
<1>1. /\ WsTyped /\ wsStamps \in Nat /\ {"at", "asked"} \subseteq DOMAIN change[c]
      /\ change[c].asked.kind \in RequestKinds /\ change[c].at = "update"
  BY DEF RowsInv, WsTyped, ChangeOK, UnderWay, UpdateReads
<1>2. PICK n : n = [stamp |-> wsStamps', settings |-> Merged(Latest(wsRows).settings, change[c].patch)]
  OBVIOUS
<1>3. n.stamp = wsStamps + 1 /\ IsSettings(n.settings) /\ wsStamps' = wsStamps + 1
  BY <1>2, MergedIs DEF UpdateReads
<1>4. PICK q : q = [at |-> "delete old", asked |-> change[c].asked, row |-> n]
  OBVIOUS
<1>5. q.at = "delete old" /\ DOMAIN q = {"at", "asked", "row"} /\ q.asked = change[c].asked /\ q.row = n /\ Go(c, q)
  BY <1>2, <1>4 DEF UpdateReads
<1>6. UNCHANGED <<wsRows, doomed, kept, payload, expected, ends>>
  BY DEF UpdateReads, served, wsPast
<1>7. /\ change' = [d \in WsCalls |-> change'[d]]
      /\ change'[c] = q
      /\ \A d \in WsCalls : d # c => change'[d] = change[d]
  BY <1>1, <1>5, Went
<1>8. WsTyped'
  <2>1. wsStamps' \in Nat /\ wsStamps <= wsStamps' /\ n.stamp \in 0..wsStamps'
    BY <1>1, <1>3
  <2>2. IsChange(q)
    BY <1>1, <1>3, <1>5, <2>1 DEF IsChange
  <2>3. IsSettings(expected') /\ doomed' \subseteq wsRows
    BY <1>1, <1>6 DEF WsTyped, IsSettings
  <2> QED BY <1>1, <1>5, <1>6, <2>1, <2>2, <2>3, TypesGoOn
<1>9. \A d \in WsCalls : Pending(d)' => \/ d = c /\ change'[d].row = n
                                        \/ d # c /\ Pending(d) /\ change'[d].row = change[d].row
  BY <1>5, <1>7 DEF Pending
<1>10. /\ \A r \in wsRows : r.stamp # n.stamp
       /\ \A d \in WsCalls : Pending(d) => change[d].row.stamp # n.stamp
  BY <1>1, <1>3 DEF WsTyped, ChangeOK, Holding
<1>11. StampsApart'
  BY <1>6, <1>9, <1>10 DEF RowsInv, StampsApart
<1>12. Staying'
  <2>1. \A d \in WsCalls : change'[d].at \in DeletePlaces => "deletion begun" \in ends'
    BY <1>5, <1>6, <1>7 DEF RowsInv, Staying, DeletePlaces
  <2>2. \A d \in WsCalls : change[d].at = "insert" => change'[d].at = "insert"
    BY <1>1, <1>7
  <2>3. WorkspaceStays'
    BY <1>6, <2>2 DEF RowsInv, Staying, WorkspaceStays, Lasting
  <2> QED BY <2>1, <2>3 DEF Staying
<1> QED BY <1>8, <1>11, <1>12 DEF RowsInv

\* The deletion of the old rows keeps them: the call is about to insert one.
LEMMA DeleteOldKeepsRows ==
  ASSUME RowsInv, NEW c \in WsCalls, DeleteOld(c)
  PROVE  RowsInv'
<1>1. /\ WsTyped /\ wsStamps \in Nat /\ {"at", "asked", "row"} \subseteq DOMAIN change[c]
      /\ change[c].asked.kind \in RequestKinds /\ change[c].at = "delete old" /\ Pending(c)
      /\ change[c].row.stamp \in 0..wsStamps /\ IsSettings(change[c].row.settings)
  BY DEF RowsInv, WsTyped, ChangeOK, UnderWay, Holding, Pending, DeleteOld
<1>2. PICK q : q = [change[c] EXCEPT !.at = "insert"]
  OBVIOUS
<1>3. q.at = "insert" /\ DOMAIN q = DOMAIN change[c] /\ q.asked = change[c].asked /\ q.row = change[c].row /\ Go(c, q)
  BY <1>1, <1>2 DEF DeleteOld
<1>4. UNCHANGED <<wsRows, wsStamps, kept, payload, expected, ends>> /\ doomed' = wsRows
  BY DEF DeleteOld, served, wsPast
<1>5. /\ change' = [d \in WsCalls |-> change'[d]]
      /\ change'[c] = q
      /\ \A d \in WsCalls : d # c => change'[d] = change[d]
  BY <1>1, <1>3, Went
<1>6. WsTyped'
  <2>0. wsStamps' = wsStamps
    BY <1>4
  <2>4. wsStamps \in Nat
    BY <1>1
  <2>1. wsStamps' \in Nat /\ wsStamps <= wsStamps'
    BY <2>0, <2>4
  <2>2. IsChange(q)
    BY <1>1, <1>3, <1>4 DEF IsChange
  <2>3. IsSettings(expected') /\ doomed' \subseteq wsRows
    BY <1>1, <1>4 DEF WsTyped, IsSettings
  <2> QED BY <1>1, <1>3, <1>4, <2>1, <2>2, <2>3, TypesGoOn
<1>7. \A d \in WsCalls : Pending(d)' => Pending(d) /\ change'[d].row = change[d].row
  BY <1>1, <1>3, <1>5 DEF Pending
<1>8. StampsApart'
  BY <1>4, <1>7 DEF RowsInv, StampsApart
<1>9. Staying'
  <2>1. \A d \in WsCalls : change'[d].at \in DeletePlaces => "deletion begun" \in ends'
    BY <1>3, <1>4, <1>5 DEF RowsInv, Staying, DeletePlaces
  <2>2. WorkspaceStays'
    BY <1>3, <1>5 DEF WorkspaceStays
  <2> QED BY <2>1, <2>2 DEF Staying
<1> QED BY <1>6, <1>8, <1>9 DEF RowsInv

\* The deletion of the workspace keeps them: it had begun.
LEMMA DeleteRowKeepsRows ==
  ASSUME RowsInv, NEW c \in WsCalls, DeleteRow(c)
  PROVE  RowsInv'
<1>1. WsTyped /\ UnderWay(c) /\ change[c].at \in DeletePlaces /\ End(c) /\ ~Pending(c)
  BY DEF RowsInv, UnderWay, DeletePlaces, DeleteRow, Pending
<1>2. Go(c, Concluded) /\ IsSettings(expected') /\ ends \subseteq ends'
  BY <1>1, EndIs
<1>3. PICK q : q = Concluded
  OBVIOUS
<1>4. q.at = "done" /\ Go(c, q)
  <2>1. Concluded.at = "done"
    BY DEF Concluded
  <2> QED BY <1>2, <1>3, <2>1
<1>5. UNCHANGED <<wsRows, wsStamps, kept, payload>> /\ doomed' = wsRows
  BY DEF DeleteRow, served
<1>6. /\ change' = [d \in WsCalls |-> change'[d]]
      /\ change'[c] = q
      /\ \A d \in WsCalls : d # c => change'[d] = change[d]
  BY <1>1, <1>4, Went
<1>7. WsTyped'
  <2>1. wsStamps' \in Nat /\ wsStamps <= wsStamps'
    BY <1>1, <1>5 DEF WsTyped
  <2>2. IsChange(q)
    BY <1>4 DEF IsChange
  <2> QED BY <1>1, <1>2, <1>4, <1>5, <2>1, <2>2, TypesGoOn
<1>8. \A d \in WsCalls : Pending(d)' => Pending(d) /\ change'[d].row = change[d].row
  BY <1>4, <1>6 DEF Pending
<1>9. StampsApart'
  BY <1>5, <1>8 DEF RowsInv, StampsApart
<1>10. "deletion begun" \in ends'
  BY <1>1, <1>2 DEF RowsInv, Staying
<1> QED BY <1>7, <1>9, <1>10 DEF RowsInv, Staying, WorkspaceStays

\* The settings of a workspace in the beginning.
LEMMA FirstRowIs ==
  ASSUME WsInit
  PROVE  /\ doomed = {} /\ (wsRows = {FirstRow} \/ wsRows = {}) /\ FirstRow.stamp = 0
         /\ FirstRow.settings = DefaultSettings /\ IsSettings(DefaultSettings)
         /\ \A c \in WsCalls : change[c].at = "idle"
         /\ \A p \in Payloads : payload[p].at = "idle"
BY DEF WsInit, FirstRow, DefaultSettings, IsSettings, Fields, Unbegun

\* They hold at first.
LEMMA RowsInit ==
  ASSUME WsInit
  PROVE  RowsInv
<1>1. WsTyped
  <2>1. change = [c \in WsCalls |-> change[c]] /\ payload = [p \in Payloads |-> payload[p]]
    BY DEF WsInit
  <2>2. IsFiniteSet(wsRows)
    <3>1. IsFiniteSet({FirstRow}) /\ IsFiniteSet({})
      BY FS_Singleton, FS_EmptySet
    <3> QED BY <3>1, FirstRowIs
  <2>3. \A c \in WsCalls : ChangeOK(c)
    BY FirstRowIs DEF ChangeOK, UnderWay, Holding, Pending
  <2>4. kept \subseteq Everything /\ wsStamps = 0 /\ expected = DefaultSettings /\ doomed = {}
    BY DEF WsInit
  <2>5. \A r \in wsRows : r.stamp = 0 /\ IsSettings(r.settings)
    BY FirstRowIs
  <2> QED BY <2>1, <2>2, <2>3, <2>4, <2>5, FirstRowIs DEF WsTyped
<1>2. StampsApart
  BY FirstRowIs DEF StampsApart, Pending
<1>3. Staying
  <2>1. "born" \in ends => wsRows # {} /\ doomed = {}
    BY DEF WsInit
  <2>2. \A c \in WsCalls : change[c].at \notin DeletePlaces
    BY FirstRowIs DEF DeletePlaces
  <2> QED BY <2>1, <2>2 DEF Staying, WorkspaceStays, Lasting
<1> QED BY <1>1, <1>2, <1>3 DEF RowsInv

\* The steps of a workspace.
LEMMA WsSteps ==
  ASSUME WsNext
  PROVE  \/ \E c \in WsCalls : \/ QuietCall(c) \/ CreateRow(c) \/ DeleteRow(c) \/ UpdateReads(c)
                               \/ DeleteOld(c) \/ InsertNew(c)
         \/ \E p \in Payloads : PayloadStep(p)
         \/ WsMutate \/ Tick
BY DEF WsNext, QuietCall, PayloadStep

\* They hold after every step.
LEMMA RowsNext ==
  ASSUME RowsInv, [WsNext]_wsVars
  PROVE  RowsInv'
<1>1. CASE UNCHANGED wsVars
  BY <1>1 DEF wsVars, served, wsPast, RowsInv, WsTyped, ChangeOK, UnderWay, Holding, Pending, StampsApart, Staying,
              WorkspaceStays, Lasting, IsSettings
<1>2. CASE WsNext
  BY <1>2, WsSteps, QuietCalls, CreateKeepsRows, DeleteRowKeepsRows, ReadKeepsRows, DeleteOldKeepsRows,
     InsertKeepsRows, PayloadsKeepRows, MutateKeepsRows, TickKeepsRows
<1> QED BY <1>1, <1>2

-----------------------------------------------------------------------------
\* What payloads are judged by.

WasSeen(n, t) == t \in 0..wsClock /\ n \in visible[t]

PaySeen(q) ==
  /\ q.at = "read" => {"at", "row", "since", "due"} \subseteq DOMAIN q /\ WasSeen(q.row.stamp, q.since)
  /\ q.at = "judged" => \E t \in 0..wsClock : t > q.since - CacheTTL /\ WasSeen(q.row.stamp, t)

EntrySeen(e) == \E t \in 0..wsClock : e.expires = t + CacheTTL /\ WasSeen(e.row.stamp, t)

\* What is read, cached or judged by was to be seen when it was read.
SeenInv ==
  /\ wsClock \in 0..MaxWsTime /\ visible = [t \in 0..MaxWsTime |-> visible[t]]
  /\ SeenIn(wsRows) \subseteq visible[wsClock]
  /\ \A p \in Payloads : PaySeen(payload[p])
  /\ \A e \in wsCache : EntrySeen(e)
  /\ \A e, f \in wsCache : e = f

\* What was seen remains seen.
LEMMA SeenStays ==
  ASSUME SeenInv, wsClock' \in 0..MaxWsTime, wsClock <= wsClock', visible' = [t \in 0..MaxWsTime |-> visible'[t]],
         \A t \in 0..wsClock : visible[t] \subseteq visible'[t], SeenIn(wsRows') \subseteq visible'[wsClock'],
         payload' = payload, wsCache' \subseteq wsCache
  PROVE  SeenInv'
<1>1. wsClock \in Nat /\ wsClock' \in Nat /\ \A t \in 0..wsClock : t \in 0..wsClock'
  <2>1. wsClock \in Nat /\ wsClock' \in Nat
    BY WorkspacesAssumption DEF SeenInv
  <2> QED BY <2>1, IntervalGrows
<1>2. \A n, t : WasSeen(n, t) => WasSeen(n, t)'
  BY <1>1 DEF WasSeen
<1>3. \A p \in Payloads : PaySeen(payload[p])'
  <2> SUFFICES ASSUME NEW p \in Payloads PROVE PaySeen(payload[p])'
    OBVIOUS
  <2>1. PaySeen(payload[p]) /\ payload'[p] = payload[p]
    BY DEF SeenInv
  <2> QED BY <1>1, <1>2, <2>1 DEF PaySeen
<1>4. \A e \in wsCache' : EntrySeen(e)'
  BY <1>1, <1>2 DEF SeenInv, EntrySeen
<1> QED BY <1>3, <1>4 DEF SeenInv

\* Nothing is to be seen that was not there.
LEMMA SeenUnseen ==
  ASSUME SeenInv, UNCHANGED <<visible, wsRows, wsClock, payload>>, wsCache' \subseteq wsCache
  PROVE  SeenInv'
<1>1. wsClock \in Nat
  BY WorkspacesAssumption DEF SeenInv
<1>2. wsClock <= wsClock'
  BY <1>1
<1>3. SeenIn(wsRows') = SeenIn(wsRows)
  OBVIOUS
<1> QED BY <1>2, <1>3, SeenStays DEF SeenInv

\* New rows are seen at once.
LEMMA SeenSee ==
  ASSUME SeenInv, See(wsRows'), UNCHANGED <<wsClock, wsCache, payload>>
  PROVE  SeenInv'
<1>1. wsClock \in Nat /\ wsClock \in 0..MaxWsTime /\ visible = [t \in 0..MaxWsTime |-> visible[t]]
  BY WorkspacesAssumption DEF SeenInv
<1>2. PICK S : S = SeenIn(wsRows')
  OBVIOUS
<1>3. visible' = [visible EXCEPT ![wsClock] = @ \cup S]
  BY <1>2 DEF See
<1>4. /\ visible' = [t \in 0..MaxWsTime |-> visible'[t]]
      /\ S \subseteq visible'[wsClock]
      /\ \A t \in 0..MaxWsTime : visible[t] \subseteq visible'[t]
  BY <1>1, <1>3
<1>5. \A t \in 0..wsClock : t \in 0..MaxWsTime
  BY <1>1, WorkspacesAssumption
<1>6. wsClock' \in 0..MaxWsTime /\ wsClock <= wsClock'
  BY <1>1
<1> QED BY <1>2, <1>4, <1>5, <1>6, SeenStays

\* What was seen remains seen as time passes.
LEMMA SeenTick ==
  ASSUME SeenInv, Tick
  PROVE  SeenInv'
<1>1. /\ wsClock \in Nat /\ wsClock \in 0..MaxWsTime /\ visible = [t \in 0..MaxWsTime |-> visible[t]]
      /\ wsClock < MaxWsTime /\ wsClock' = wsClock + 1 /\ MaxWsTime \in Nat
  BY WorkspacesAssumption DEF SeenInv, Tick
<1>2. PICK S : S = SeenIn(wsRows)
  OBVIOUS
<1>3. visible' = [visible EXCEPT ![wsClock'] = S] /\ UNCHANGED <<wsRows, payload, wsCache>>
  BY <1>2 DEF Tick
<1>4. wsClock' \in 0..MaxWsTime /\ wsClock <= wsClock' /\ \A t \in 0..wsClock : t \in 0..MaxWsTime /\ t # wsClock'
  BY <1>1
<1>5. /\ visible' = [t \in 0..MaxWsTime |-> visible'[t]]
      /\ S \subseteq visible'[wsClock']
      /\ \A t \in 0..wsClock : visible[t] \subseteq visible'[t]
  BY <1>1, <1>3, <1>4
<1>6. SeenIn(wsRows') = S
  BY <1>2, <1>3
<1> QED BY <1>3, <1>4, <1>5, <1>6, SeenStays

\* A payload goes on.
LEMMA SeenPayload ==
  ASSUME WsTyped, SeenInv, NEW p \in Payloads, NEW q, payload' = [payload EXCEPT ![p] = q], PaySeen(q),
         UNCHANGED <<wsRows, wsClock, visible>>, \A e \in wsCache' : EntrySeen(e), \A e, f \in wsCache' : e = f
  PROVE  SeenInv'
<1>1. /\ payload'[p] = q
      /\ \A r \in Payloads : r # p => payload'[r] = payload[r]
  BY PayloadWent
<1>2. \A r \in Payloads : PaySeen(payload'[r])
  BY <1>1 DEF SeenInv
<1>3. \A r : PaySeen(r) <=> PaySeen(r)'
  BY DEF PaySeen, WasSeen
<1>4. \A r \in Payloads : PaySeen(payload[r])'
  BY <1>2 DEF PaySeen, WasSeen
<1>5. \A e \in wsCache' : EntrySeen(e)'
  BY DEF EntrySeen, WasSeen
<1> QED BY <1>4, <1>5 DEF SeenInv

\* Payloads are judged by what was to be seen.
LEMMA SeenPayloads ==
  ASSUME WsTyped, SeenInv, NEW p \in Payloads, PayloadStep(p)
  PROVE  SeenInv'
<1>1. /\ wsClock \in Nat /\ CacheTTL \in Nat \ {0}
      /\ SeenIn(wsRows) \subseteq visible[wsClock]
      /\ \A e \in wsCache : EntrySeen(e)
      /\ \A e, f \in wsCache : e = f
      /\ PaySeen(payload[p])
  BY WorkspacesAssumption DEF SeenInv
<1>2. CASE PayloadHits(p)
  <2>1. PICK e \in wsCache : e.expires > wsClock
    BY <1>2 DEF PayloadHits, Fresh
  <2>2. Entry = e
    BY <1>1, <2>1 DEF Entry
  <2>3. PICK t \in 0..wsClock : e.expires = t + CacheTTL /\ WasSeen(e.row.stamp, t)
    BY <1>1 DEF EntrySeen
  <2>4. t > wsClock - CacheTTL
    BY <1>1, <2>1, <2>3
  <2>5. PICK q : q = [at |-> "judged", row |-> e.row, since |-> wsClock, due |-> announced]
    OBVIOUS
  <2>6. q.at = "judged" /\ q.row = e.row /\ q.since = wsClock /\ payload' = [payload EXCEPT ![p] = q]
    BY <1>2, <2>2, <2>5 DEF PayloadHits
  <2>7. PaySeen(q)
    BY <2>3, <2>4, <2>6 DEF PaySeen
  <2>8. UNCHANGED <<wsRows, wsClock, visible, wsCache>>
    BY <1>2 DEF PayloadHits, Unseen
  <2> QED BY <1>1, <2>6, <2>7, <2>8, SeenPayload
<1>3. CASE PayloadMisses(p)
  <2>1. Latest(wsRows).stamp \in visible[wsClock]
    BY <1>1, <1>3 DEF PayloadMisses, SeenIn
  <2>2. PICK r : r = Latest(wsRows)
    OBVIOUS
  <2>3. PICK q : q = [at |-> "read", row |-> r, since |-> wsClock, due |-> announced]
    OBVIOUS
  <2>4. /\ q.at = "read" /\ q.row = r /\ q.since = wsClock /\ payload' = [payload EXCEPT ![p] = q]
        /\ DOMAIN q = {"at", "row", "since", "due"}
    BY <1>3, <2>2, <2>3 DEF PayloadMisses
  <2>5. WasSeen(r.stamp, wsClock)
    BY <1>1, <2>1, <2>2 DEF WasSeen
  <2>6. PaySeen(q)
    BY <2>4, <2>5 DEF PaySeen
  <2>7. UNCHANGED <<wsRows, wsClock, visible, wsCache>>
    BY <1>3 DEF PayloadMisses, Unseen
  <2> QED BY <1>1, <2>4, <2>6, <2>7, SeenPayload
<1>4. CASE PayloadFindsNothing(p)
  <2>1. PICK q : q = [at |-> "refused"]
    OBVIOUS
  <2>2. q.at = "refused" /\ payload' = [payload EXCEPT ![p] = q]
    BY <1>4, <2>1 DEF PayloadFindsNothing
  <2>3. PaySeen(q)
    BY <2>2 DEF PaySeen
  <2>4. UNCHANGED <<wsRows, wsClock, visible, wsCache>>
    BY <1>4 DEF PayloadFindsNothing, Unseen
  <2> QED BY <1>1, <2>2, <2>3, <2>4, SeenPayload
<1>5. CASE PayloadFills(p)
  <2>1. PICK r : r = payload[p]
    OBVIOUS
  <2>2. {"at", "row", "since", "due"} \subseteq DOMAIN r /\ WasSeen(r.row.stamp, r.since) /\ r.since \in 0..wsClock
    BY <1>1, <1>5, <2>1 DEF PayloadFills, PaySeen, WasSeen
  <2>3. PICK q : q = [r EXCEPT !.at = "judged"]
    OBVIOUS
  <2>4. q.at = "judged" /\ q.row = r.row /\ q.since = r.since
    BY <2>2, <2>3
  <2>5. payload' = [payload EXCEPT ![p] = q]
    <3>1. payload = [s \in Payloads |-> payload[s]]
      BY DEF WsTyped
    <3> QED BY <1>5, <2>1, <2>3, <3>1 DEF PayloadFills
  <2>6. r.since > r.since - CacheTTL
    BY <1>1, <2>2
  <2>7. PaySeen(q)
    BY <2>2, <2>4, <2>6 DEF PaySeen
  <2>8. PICK e : e = [row |-> r.row, expires |-> ExpiryOf(p)]
    OBVIOUS
  <2>9. e.row = r.row /\ e.expires = r.since + CacheTTL /\ wsCache' = {e}
    BY <1>5, <2>1, <2>8 DEF PayloadFills, ExpiryOf
  <2>10. EntrySeen(e)
    BY <2>2, <2>9 DEF EntrySeen
  <2>11. UNCHANGED <<wsRows, wsClock, visible>>
    BY <1>5 DEF PayloadFills, Unseen
  <2> QED BY <2>5, <2>7, <2>9, <2>10, <2>11, SeenPayload
<1> QED BY <1>2, <1>3, <1>4, <1>5 DEF PayloadStep

\* It was to be seen at first.
LEMMA SeenInit ==
  ASSUME WsInit
  PROVE  SeenInv
<1>1. wsClock = 0 /\ wsCache = {} /\ \A p \in Payloads : payload[p].at = "idle"
  BY FirstRowIs DEF WsInit
<1>2. PICK S : S = SeenIn(wsRows)
  OBVIOUS
<1>3. visible = [t \in 0..MaxWsTime |-> IF t = 0 THEN S ELSE {}]
  BY <1>2 DEF WsInit
<1>4. 0 \in 0..MaxWsTime
  BY WorkspacesAssumption
<1>5. visible = [t \in 0..MaxWsTime |-> visible[t]] /\ S \subseteq visible[0]
  BY <1>3, <1>4
<1> QED BY <1>1, <1>2, <1>4, <1>5 DEF SeenInv, PaySeen

\* And after every step.
LEMMA SeenNext ==
  ASSUME WsTyped, SeenInv, [WsNext]_wsVars
  PROVE  SeenInv'
<1>1. CASE UNCHANGED wsVars
  BY <1>1, SeenUnseen DEF wsVars, served
<1>2. ASSUME NEW c \in WsCalls,
             QuietCall(c) \/ CreateRow(c) \/ DeleteRow(c) \/ UpdateReads(c) \/ DeleteOld(c) \/ InsertNew(c)
      PROVE  SeenInv'
  <2>1. CASE CreateRow(c) \/ InsertNew(c)
    BY <2>1, SeenSee DEF CreateRow, InsertNew, served
  <2>2. CASE Announce(c)
    BY <2>2, SeenUnseen DEF Announce, Invalidate
  <2>3. CASE DeleteRow(c) \/ UpdateReads(c) \/ DeleteOld(c)
    BY <2>3, SeenUnseen DEF DeleteRow, UpdateReads, DeleteOld, Unseen, served
  <2>4. CASE QuietCall(c) /\ ~Announce(c)
    BY <2>4, SeenUnseen DEF QuietCall, StartCreate, CreateDatabase, CreateMembership, CreateTask, StartDelete,
       DeleteMemberships, DeleteTasks, DropDatabase, DeleteStep, StartUpdate, StartEdit, UpdateFindsNothing, Fail,
       Unseen, served
  <2> QED BY <1>2, <2>1, <2>2, <2>3, <2>4
<1>3. CASE WsMutate
  BY <1>3, SeenSee DEF WsMutate, served
<1>4. CASE Tick
  BY <1>4, SeenTick
<1>5. ASSUME NEW p \in Payloads, PayloadStep(p) PROVE SeenInv'
  BY <1>5, SeenPayloads
<1> QED BY <1>1, <1>2, <1>3, <1>4, <1>5, WsSteps

\* So payloads are judged in time.
LEMMA SeenJudges ==
  ASSUME SeenInv
  PROVE  JudgedInTime
<1> SUFFICES ASSUME NEW p \in Payloads, payload[p].at = "judged"
             PROVE  \E t \in 0..MaxWsTime : t > payload[p].since - CacheTTL /\ payload[p].row.stamp \in visible[t]
  BY DEF JudgedInTime
<1>1. PICK t \in 0..wsClock : t > payload[p].since - CacheTTL /\ WasSeen(payload[p].row.stamp, t)
  BY DEF SeenInv, PaySeen
<1>2. t \in 0..MaxWsTime
  BY WorkspacesAssumption DEF SeenInv
<1> QED BY <1>1, <1>2 DEF WasSeen

-----------------------------------------------------------------------------
\* Calls that do not overlap.

\* One call at most is under way.  The row it holds has the newest stamp, and rows that last are
\* newer than those that go.
Solo ==
  /\ \A c, d \in WsCalls : UnderWay(c) /\ UnderWay(d) => c = d
  /\ \A c \in WsCalls : Pending(c) => change[c].row.stamp = wsStamps /\ \A r \in wsRows : r.stamp < wsStamps
  /\ \A r \in Lasting, o \in doomed : o.stamp < r.stamp
  /\ \A c \in WsCalls : change[c].at = "announce" => change[c].row \in Lasting /\ change[c].row.stamp = wsStamps
  /\ wsRows # {} => \E r \in wsRows : r.stamp >= announced

\* What is read, cached or judged by is as new as what was announced.
Timely ==
  /\ \A p \in Payloads : payload[p].at = "read" => payload[p].row.stamp >= announced /\ payload[p].row.stamp >= payload[p].due
  /\ \A p \in Payloads : payload[p].at = "judged" => payload[p].row.stamp >= payload[p].due
  /\ \A e \in wsCache : e.row.stamp >= announced

AloneInv ==
  /\ announced \in 0..wsStamps
  /\ \A p \in Payloads : payload[p].at = "read" => payload[p].row.stamp \in Nat
  /\ ~wsOverlapped => Solo
  /\ ~wsOverlapped /\ ~wsLate => Timely

\* A call goes on, and leaves rows and payloads alone.
LEMMA AloneGoes ==
  ASSUME RowsInv, AloneInv, NEW c \in WsCalls, NEW q, Go(c, q),
         UNCHANGED <<wsRows, doomed, wsStamps, announced, wsLate, payload, wsCache>>,
         ~wsOverlapped' => ~wsOverlapped /\ (UnderWay(c) \/ \A d \in WsCalls : ~UnderWay(d)),
         q.at # "announce",
         q.at \in {"delete old", "insert"} => Pending(c) /\ q.row = change[c].row
  PROVE  AloneInv'
<1>1. /\ change'[c] = q
      /\ \A d \in WsCalls : d # c => change'[d] = change[d]
  <2>1. WsTyped
    BY DEF RowsInv
  <2> QED BY <2>1, Went
<1>2. ASSUME ~wsOverlapped' PROVE Solo'
  <2>1. Solo /\ \A d \in WsCalls : UnderWay(d) => d = c
    BY <1>2 DEF AloneInv, Solo
  <2>2. \A d \in WsCalls : UnderWay(d)' => d = c
    BY <1>1, <2>1 DEF UnderWay
  <2>3. \A d \in WsCalls : Pending(d)' => Pending(d) /\ change'[d].row = change[d].row
    BY <1>1 DEF Pending
  <2>4. \A d \in WsCalls : change'[d].at = "announce" => change'[d] = change[d]
    BY <1>1
  <2> QED BY <2>1, <2>2, <2>3, <2>4 DEF Solo, Lasting
<1>3. ASSUME ~wsOverlapped', ~wsLate' PROVE Timely'
  BY <1>3 DEF AloneInv, Timely
<1> QED BY <1>2, <1>3 DEF AloneInv

\* A call that is about to hold a row goes on, or a set of rows is to go.
LEMMA AloneCalls ==
  ASSUME RowsInv, AloneInv, NEW c \in WsCalls, QuietCall(c), ~Announce(c)
  PROVE  AloneInv'
<1>1. UnderWay(c) => {"at", "asked"} \subseteq DOMAIN change[c]
  BY DEF RowsInv, WsTyped, ChangeOK
<1>2. UNCHANGED <<wsRows, doomed, wsStamps, announced, wsLate, payload, wsCache>>
  BY DEF QuietCall, StartCreate, CreateDatabase, CreateMembership, CreateTask, StartDelete,
       DeleteMemberships, DeleteTasks, DropDatabase, DeleteStep, StartUpdate, StartEdit, UpdateFindsNothing, Fail,
       Unseen, served
<1>3. PICK q : Go(c, q) /\ q.at \notin {"announce", "delete old", "insert"}
  <2>1. CASE StartCreate(c)
    <3>1. PICK q : q = [at |-> "create database", asked |-> [kind |-> "create"]]
      OBVIOUS
    <3>2. Go(c, q) /\ q.at = "create database"
      BY <2>1, <3>1 DEF StartCreate, BeginChange
    <3> QED BY <3>2
  <2>2. CASE StartDelete(c)
    <3>1. PICK q : q = [at |-> "delete memberships", asked |-> [kind |-> "delete"]]
      OBVIOUS
    <3>2. Go(c, q) /\ q.at = "delete memberships"
      BY <2>2, <3>1 DEF StartDelete, BeginChange
    <3> QED BY <3>2
  <2>3. CASE StartUpdate(c)
    <3>1. PICK q : q = [at |-> "update", asked |-> [kind |-> "settings"], patch |-> [f \in {"domains"} |-> c]]
      OBVIOUS
    <3>2. Go(c, q) /\ q.at = "update"
      BY <2>3, <3>1 DEF StartUpdate, BeginChange
    <3> QED BY <3>2
  <2>4. CASE StartEdit(c)
    <3> DEFINE s == Latest(wsRows).settings
    <3>1. PICK r \in FilterRequests(c, s.filters) \cup [kind : SmtpKinds] :
               BeginChange(c, [at |-> "update", asked |-> r, patch |-> Patch(r, c, s)])
      BY <2>4 DEF StartEdit
    <3>2. PICK q : q = [at |-> "update", asked |-> r, patch |-> Patch(r, c, s)]
      OBVIOUS
    <3> HIDE DEF s
    <3>3. Go(c, q) /\ q.at = "update"
      BY <3>1, <3>2 DEF BeginChange
    <3> QED BY <3>3
  <2>5. CASE CreateTask(c) \/ UpdateFindsNothing(c)
    <3>1. Go(c, Concluded)
      BY <2>5 DEF CreateTask, UpdateFindsNothing, End, Refused
    <3>2. Concluded.at = "done"
      BY DEF Concluded
    <3> QED BY <3>1, <3>2
  <2>6. CASE Fail(c)
    <3>1. Go(c, Broken)
      BY <2>6 DEF Fail
    <3>2. Broken.at = "failed"
      BY DEF Broken
    <3> QED BY <3>1, <3>2
  <2>7. CASE CreateDatabase(c) \/ CreateMembership(c) \/ DeleteMemberships(c) \/ DeleteTasks(c) \/ DropDatabase(c)
    <3>1. PICK x \in {"create row", "create task", "delete tasks", "drop database", "delete row"} :
            Go(c, [change[c] EXCEPT !.at = x])
      BY <2>7 DEF CreateDatabase, CreateMembership, DeleteMemberships, DeleteTasks, DropDatabase, DeleteStep
    <3>2. UnderWay(c)
      BY <2>7 DEF CreateDatabase, CreateMembership, DeleteMemberships, DeleteTasks, DropDatabase, DeleteStep, UnderWay
    <3>3. PICK q : q = [change[c] EXCEPT !.at = x]
      OBVIOUS
    <3>4. q.at = x /\ Go(c, q)
      BY <1>1, <3>1, <3>2, <3>3
    <3> QED BY <3>4
  <2> QED BY <2>1, <2>2, <2>3, <2>4, <2>5, <2>6, <2>7 DEF QuietCall
<1>4. \/ BeginChange(c, change'[c])
      \/ UnderWay(c) /\ wsOverlapped' = wsOverlapped
  <2>1. CASE StartCreate(c) \/ StartDelete(c) \/ StartUpdate(c) \/ StartEdit(c)
    <3>1. PICK r : BeginChange(c, r)
      BY <2>1 DEF StartCreate, StartDelete, StartUpdate, StartEdit
    <3>2. Go(c, r) /\ change = [d \in WsCalls |-> change[d]]
      BY <3>1 DEF BeginChange, RowsInv, WsTyped
    <3>3. change'[c] = r
      BY <3>2 DEF Go
    <3> QED BY <3>1, <3>3
  <2>2. CASE ~(StartCreate(c) \/ StartDelete(c) \/ StartUpdate(c) \/ StartEdit(c))
    BY <2>2 DEF QuietCall, CreateDatabase, CreateMembership, CreateTask, DeleteMemberships, DeleteTasks, DropDatabase,
       DeleteStep, UpdateFindsNothing, Fail, UnderWay, wsPast, End, Refused
  <2> QED BY <2>1, <2>2
<1>5. ~wsOverlapped' => ~wsOverlapped /\ (UnderWay(c) \/ \A d \in WsCalls : ~UnderWay(d))
  BY <1>4 DEF BeginChange
<1>6. q.at # "announce" /\ (q.at \in {"delete old", "insert"} => Pending(c) /\ q.row = change[c].row)
  BY <1>3
<1> QED BY <1>2, <1>3, <1>5, <1>6, AloneGoes

\* What lies in an interval of the natural numbers.
LEMMA Within ==
  ASSUME NEW n \in Nat, NEW m \in 0..n
  PROVE  m \in Nat /\ m <= n /\ m \in 0..(n + 1) /\ m < n + 1 /\ n + 1 \in Nat
OBVIOUS

\* No number is less than itself.
LEMMA NotLess ==
  ASSUME NEW n \in Nat
  PROVE  ~(n < n)
OBVIOUS

\* The greater of two numbers.
LEMMA MaxOfTwo ==
  ASSUME NEW m \in Nat, NEW n \in Nat
  PROVE  Max({m, n}) \in {m, n} /\ m <= Max({m, n}) /\ n <= Max({m, n})
<1>1. \E x \in {m, n} : \A y \in {m, n} : x >= y
  OBVIOUS
<1> QED BY <1>1 DEF Max

\* A call that others go on without keeps them to themselves.
LEMMA SoloEnds ==
  ASSUME RowsInv, Solo, NEW c \in WsCalls, UnderWay(c), NEW q, Go(c, q)
  PROVE  /\ change'[c] = q
         /\ \A d \in WsCalls : UnderWay(d)' => d = c
         /\ \A d \in WsCalls : Pending(d)' => d = c
         /\ \A d \in WsCalls : change'[d].at = "announce" => d = c
<1>1. /\ change'[c] = q
      /\ \A d \in WsCalls : d # c => change'[d] = change[d]
  <2>1. WsTyped
    BY DEF RowsInv
  <2> QED BY <2>1, Went
<1>2. \A d \in WsCalls : d # c => ~UnderWay(d)
  BY DEF Solo
<1>3. \A d \in WsCalls : d # c => ~UnderWay(d)'
  BY <1>1, <1>2 DEF UnderWay
<1> QED BY <1>1, <1>3 DEF UnderWay, Pending

\* A change is announced: what is cached goes, and whoever read before is late.
LEMMA AloneAnnounce ==
  ASSUME RowsInv, SeenInv, AloneInv, NEW c \in WsCalls, Announce(c)
  PROVE  AloneInv'
<1>1. PICK n : n = change[c].row.stamp
  OBVIOUS
<1>2. /\ wsStamps \in Nat /\ announced \in Nat /\ n \in Nat /\ announced <= wsStamps /\ n <= wsStamps
  <2>1. wsStamps \in Nat /\ announced \in 0..wsStamps /\ n \in 0..wsStamps
    BY <1>1 DEF RowsInv, WsTyped, ChangeOK, Holding, Announce, AloneInv
  <2> QED BY <2>1
<1>3. announced' = Max({announced, n}) /\ announced' \in {announced, n} /\ n <= announced' /\ announced <= announced'
  <2>1. announced' = Max({announced, n})
    BY <1>1 DEF Announce
  <2> QED BY <1>2, <2>1, MaxOfTwo
<1>4. announced' \in 0..wsStamps'
  <2>1. wsStamps' = wsStamps
    BY DEF Announce
  <2> QED BY <1>2, <1>3, <2>1
<1>5. /\ UNCHANGED <<wsRows, doomed, wsStamps, payload, wsOverlapped>> /\ wsCache' = {} /\ UnderWay(c)
      /\ Go(c, Concluded)
  BY DEF Announce, Invalidate, End, UnderWay
<1>6. ASSUME ~wsOverlapped' PROVE Solo'
  <2>1. Solo
    BY <1>5, <1>6 DEF AloneInv
  <2>2. change'[c].at = "done"
    <3>1. change'[c] = Concluded
      BY <1>5, <2>1, SoloEnds
    <3>2. Concluded.at = "done"
      BY DEF Concluded
    <3> QED BY <3>1, <3>2
  <2>3. \A d \in WsCalls : ~UnderWay(d)' /\ ~Pending(d)' /\ change'[d].at # "announce"
    <3>1. \A d \in WsCalls : UnderWay(d)' => d = c
      BY <1>5, <2>1, SoloEnds
    <3>2. \A d \in WsCalls : ~UnderWay(d)'
      BY <2>2, <3>1 DEF UnderWay
    <3> QED BY <3>2 DEF UnderWay, Pending
  <2>4. \E r \in wsRows : r.stamp >= announced'
    <3>1. change[c].row \in wsRows /\ n = wsStamps
      BY <1>1, <2>1 DEF Solo, Announce, Lasting
    <3>2. change[c].row.stamp >= announced'
      BY <1>1, <1>2, <1>3, <3>1
    <3> QED BY <3>1, <3>2
  <2> QED BY <1>5, <2>1, <2>3, <2>4 DEF Solo, Lasting
<1>7. ASSUME ~wsOverlapped', ~wsLate' PROVE Timely'
  <2>1. ~wsOverlapped /\ ~wsLate /\ \A p \in Payloads : payload[p].at = "read" => ~(payload[p].row.stamp < announced')
    BY <1>5, <1>7 DEF Announce
  <2>2. \A p \in Payloads : payload[p].at = "read" => payload[p].row.stamp >= announced'
    BY <1>2, <1>3, <2>1 DEF AloneInv
  <2>3. Timely
    BY <2>1 DEF AloneInv
  <2> QED BY <1>5, <2>2, <2>3 DEF Timely
<1> QED BY <1>4, <1>5, <1>6, <1>7 DEF AloneInv

\* An update takes the newest stamp.
LEMMA AloneReads ==
  ASSUME RowsInv, AloneInv, NEW c \in WsCalls, UpdateReads(c)
  PROVE  AloneInv'
<1>1. /\ wsStamps \in Nat /\ announced \in Nat /\ announced <= wsStamps /\ wsStamps' = wsStamps + 1
      /\ \A r \in wsRows : r.stamp \in 0..wsStamps
  <2>1. wsStamps \in Nat /\ announced \in 0..wsStamps
    BY DEF RowsInv, WsTyped, AloneInv
  <2>2. \A r \in wsRows : r.stamp \in 0..wsStamps
    BY DEF RowsInv, WsTyped
  <2>3. announced \in Nat /\ announced <= wsStamps
    BY <2>1, Within
  <2>4. wsStamps' = wsStamps + 1
    BY DEF UpdateReads
  <2> QED BY <2>1, <2>2, <2>3, <2>4
<1>2. /\ UNCHANGED <<wsRows, doomed, announced, wsLate, payload, wsCache, wsOverlapped>> /\ UnderWay(c)
  BY DEF UpdateReads, served, wsPast, Unseen, UnderWay
<1>3. PICK n : n = [stamp |-> wsStamps', settings |-> Merged(Latest(wsRows).settings, change[c].patch)]
  OBVIOUS
<1>4. PICK q : q = [at |-> "delete old", asked |-> change[c].asked, row |-> n]
  OBVIOUS
<1>5. q.at = "delete old" /\ q.row = n /\ n.stamp = wsStamps' /\ Go(c, q)
  BY <1>3, <1>4 DEF UpdateReads
<1>6. ASSUME ~wsOverlapped' PROVE Solo'
  <2>1. Solo
    BY <1>2, <1>6 DEF AloneInv
  <2>2. /\ change'[c] = q
        /\ \A d \in WsCalls : UnderWay(d)' => d = c
        /\ \A d \in WsCalls : Pending(d)' => d = c
        /\ \A d \in WsCalls : change'[d].at = "announce" => d = c
    BY <1>2, <1>5, <2>1, SoloEnds
  <2>3. \A r \in wsRows : r.stamp < wsStamps'
    BY <1>1
  <2> QED BY <1>2, <1>5, <2>1, <2>2, <2>3 DEF Solo, Lasting
<1>7. announced' \in 0..wsStamps'
  <2>1. announced' = announced
    BY <1>2
  <2> QED BY <1>1, <2>1
<1>8. ASSUME ~wsOverlapped', ~wsLate' PROVE Timely'
  BY <1>2, <1>8 DEF AloneInv, Timely
<1> QED BY <1>2, <1>6, <1>7, <1>8 DEF AloneInv

\* All rows are to go.
LEMMA AloneDooms ==
  ASSUME RowsInv, AloneInv, NEW c \in WsCalls, DeleteOld(c) \/ DeleteRow(c)
  PROVE  AloneInv'
<1>1. /\ UNCHANGED <<wsRows, wsStamps, announced, wsLate, payload, wsCache, wsOverlapped>> /\ doomed' = wsRows
      /\ UnderWay(c) /\ Lasting' = {}
  BY DEF DeleteOld, DeleteRow, served, wsPast, Unseen, UnderWay, End, Lasting
<1>2. PICK q : Go(c, q) /\ q.at # "announce" /\ (q.at \in {"delete old", "insert"} => Pending(c) /\ q.row = change[c].row)
  <2>1. CASE DeleteOld(c)
    <3>1. {"at", "row"} \subseteq DOMAIN change[c] /\ Pending(c)
      BY <2>1 DEF DeleteOld, RowsInv, WsTyped, ChangeOK, UnderWay, Holding, Pending
    <3>2. PICK q : q = [change[c] EXCEPT !.at = "insert"]
      OBVIOUS
    <3>3. q.at = "insert" /\ q.row = change[c].row /\ Go(c, q)
      BY <2>1, <3>1, <3>2 DEF DeleteOld
    <3> QED BY <3>1, <3>3
  <2>2. CASE DeleteRow(c)
    <3>1. Go(c, Concluded)
      BY <2>2 DEF DeleteRow, End
    <3>2. Concluded.at = "done"
      BY DEF Concluded
    <3> QED BY <3>1, <3>2
  <2> QED BY <2>1, <2>2
<1>3. ASSUME ~wsOverlapped' PROVE Solo'
  <2>1. Solo
    BY <1>1, <1>3 DEF AloneInv
  <2>2. /\ change'[c] = q
        /\ \A d \in WsCalls : UnderWay(d)' => d = c
        /\ \A d \in WsCalls : Pending(d)' => d = c
        /\ \A d \in WsCalls : change'[d].at = "announce" => d = c
    BY <1>1, <1>2, <2>1, SoloEnds
  <2>3. \A d \in WsCalls : Pending(d)' => change'[d].row.stamp = wsStamps /\ \A r \in wsRows : r.stamp < wsStamps
    BY <1>2, <2>1, <2>2 DEF Solo, Pending
  <2> QED BY <1>1, <1>2, <2>1, <2>2, <2>3 DEF Solo
<1>4. ASSUME ~wsOverlapped', ~wsLate' PROVE Timely'
  BY <1>1, <1>4 DEF AloneInv, Timely
<1> QED BY <1>1, <1>3, <1>4 DEF AloneInv

\* A row is added that is newer than all.
LEMMA AloneAdds ==
  ASSUME RowsInv, AloneInv, NEW c \in WsCalls, UnderWay(c), NEW q, Go(c, q), NEW n, wsRows' = wsRows \cup {n},
         q.at = "create membership" \/ (q.at = "announce" /\ q.row = n),
         wsStamps' \in {wsStamps, wsStamps + 1},
         ~wsOverlapped => n.stamp = wsStamps' /\ \A r \in wsRows : r.stamp < n.stamp,
         UNCHANGED <<doomed, announced, wsLate, payload, wsCache, wsOverlapped>>
  PROVE  AloneInv'
<1>1. /\ wsStamps \in Nat /\ announced \in Nat /\ announced <= wsStamps
  <2>1. wsStamps \in Nat /\ announced \in 0..wsStamps
    BY DEF RowsInv, WsTyped, AloneInv
  <2> QED BY <2>1, Within
<1>2. announced' \in 0..wsStamps' /\ wsStamps' \in Nat /\ announced <= wsStamps'
  <2>0. announced \in 0..wsStamps
    BY DEF AloneInv
  <2>1. announced' = announced /\ (wsStamps' = wsStamps \/ wsStamps' = wsStamps + 1)
    OBVIOUS
  <2>2. announced \in 0..(wsStamps + 1) /\ wsStamps + 1 \in Nat
    BY <1>1, <2>0, Within
  <2>3. announced' \in 0..wsStamps' /\ wsStamps' \in Nat /\ announced' = announced
    BY <1>1, <2>0, <2>1, <2>2, Zenon
  <2>4. announced' <= wsStamps'
    BY <2>3, Within
  <2> QED BY <2>3, <2>4
<1>3. ASSUME ~wsOverlapped' PROVE Solo'
  <2>1. Solo /\ n.stamp = wsStamps' /\ \A r \in wsRows : r.stamp < n.stamp
    BY <1>3 DEF AloneInv
  <2>2. /\ change'[c] = q
        /\ \A d \in WsCalls : UnderWay(d)' => d = c
        /\ \A d \in WsCalls : Pending(d)' => d = c
        /\ \A d \in WsCalls : change'[d].at = "announce" => d = c
    BY <2>1, SoloEnds
  <2>3. \A d \in WsCalls : ~Pending(d)'
    BY <2>2 DEF Pending
  <2>4. doomed \subseteq wsRows /\ n \notin doomed
    <3>1. doomed \subseteq wsRows
      BY DEF RowsInv, WsTyped
    <3>2. n \notin wsRows
      <4>1. n.stamp \in Nat
        BY <1>2, <2>1
      <4>2. ~(n.stamp < n.stamp)
        BY <4>1, NotLess
      <4>3. \A r \in wsRows : r.stamp < n.stamp
        BY <2>1
      <4>4. n \in wsRows => n.stamp < n.stamp
        BY <4>3, Zenon
      <4> QED BY <4>2, <4>4, Zenon
    <3> QED BY <3>1, <3>2
  <2>5. Lasting' = Lasting \cup {n}
    BY <2>4 DEF Lasting
  <2>6. \A r \in Lasting', o \in doomed' : o.stamp < r.stamp
    BY <2>1, <2>4, <2>5 DEF Solo
  <2>7. n.stamp >= announced
    BY <1>2, <2>1
  <2>8. \E r \in wsRows' : r.stamp >= announced'
    BY <2>7
  <2>9. \A d \in WsCalls : change'[d].at = "announce" => change'[d].row \in Lasting' /\ change'[d].row.stamp = wsStamps'
    BY <2>1, <2>2, <2>5
  <2> QED BY <2>2, <2>3, <2>6, <2>8, <2>9 DEF Solo
<1>4. ASSUME ~wsOverlapped', ~wsLate' PROVE Timely'
  BY <1>4 DEF AloneInv, Timely
<1> QED BY <1>2, <1>3, <1>4 DEF AloneInv

\* The row of a new workspace is the newest.
LEMMA AloneCreates ==
  ASSUME RowsInv, AloneInv, NEW c \in WsCalls, CreateRow(c)
  PROVE  AloneInv'
<1>1. {"at", "asked"} \subseteq DOMAIN change[c] /\ UnderWay(c) /\ wsStamps \in Nat /\ wsStamps' = wsStamps + 1
  BY DEF RowsInv, WsTyped, ChangeOK, UnderWay, CreateRow
<1>2. PICK n : n = [stamp |-> wsStamps', settings |-> DefaultSettings]
  OBVIOUS
<1>3. n.stamp = wsStamps' /\ wsRows' = wsRows \cup {n}
  BY <1>2 DEF CreateRow
<1>4. PICK q : q = [change[c] EXCEPT !.at = "create membership"]
  OBVIOUS
<1>5. q.at = "create membership" /\ Go(c, q)
  BY <1>1, <1>4 DEF CreateRow
<1>6. \A r \in wsRows : r.stamp < n.stamp
  BY <1>1, <1>3 DEF RowsInv, WsTyped
<1>7. UNCHANGED <<doomed, announced, wsLate, payload, wsCache, wsOverlapped>> /\ wsStamps' \in {wsStamps, wsStamps + 1}
  BY <1>1 DEF CreateRow, served, wsPast
<1> QED BY <1>1, <1>3, <1>5, <1>6, <1>7, AloneAdds

\* The row of an update is the newest.
LEMMA AloneInserts ==
  ASSUME RowsInv, AloneInv, NEW c \in WsCalls, InsertNew(c)
  PROVE  AloneInv'
<1>1. {"at", "asked", "row"} \subseteq DOMAIN change[c] /\ UnderWay(c) /\ Pending(c)
  BY DEF RowsInv, WsTyped, ChangeOK, UnderWay, Holding, Pending, InsertNew
<1>2. PICK n : n = change[c].row
  OBVIOUS
<1>3. wsRows' = wsRows \cup {n}
  BY <1>2 DEF InsertNew
<1>4. PICK q : q = [change[c] EXCEPT !.at = "announce"]
  OBVIOUS
<1>5. q.at = "announce" /\ q.row = n /\ Go(c, q)
  BY <1>1, <1>2, <1>4 DEF InsertNew
<1>6. ~wsOverlapped => n.stamp = wsStamps' /\ \A r \in wsRows : r.stamp < n.stamp
  BY <1>1, <1>2 DEF AloneInv, Solo, InsertNew
<1>7. UNCHANGED <<doomed, announced, wsLate, payload, wsCache, wsOverlapped>> /\ wsStamps' \in {wsStamps, wsStamps + 1}
  BY DEF InsertNew, served, wsPast
<1> QED BY <1>1, <1>3, <1>5, <1>6, <1>7, AloneAdds


\* The greatest of the stamps is at least any other, whichever row the removed one was.
LEMMA AloneMutate ==
  ASSUME RowsInv, AloneInv, WsMutate
  PROVE  AloneInv'
<1>1. PICK o \in doomed : /\ \A r \in doomed : o.stamp <= r.stamp
                          /\ wsRows' = wsRows \ {o} /\ doomed' = doomed \ {o} /\ Lasting' = Lasting
  <2>1. WsTyped
    BY DEF RowsInv
  <2> QED BY <2>1, MutateIs
<1>2. UNCHANGED <<wsStamps, change, announced, wsLate, payload, wsCache, wsOverlapped>>
  BY DEF WsMutate, served, wsPast
<1>3. ASSUME Solo PROVE Solo'
  <2>1. ASSUME wsRows' # {} PROVE \E r \in wsRows' : r.stamp >= announced
    <3>1. PICK r \in wsRows : r.stamp >= announced
      BY <1>1, <1>3, <2>1 DEF Solo
    <3>2. CASE r # o
      BY <1>1, <3>1, <3>2
    <3>3. CASE r = o
      <4>1. PICK x \in wsRows : x # o
        BY <1>1, <2>1
      <4>2. o.stamp <= x.stamp
        <5>1. x \in doomed => o.stamp <= x.stamp
          BY <1>1
        <5>2. x \notin doomed => o.stamp < x.stamp
          BY <1>3 DEF Solo, Lasting
        <5>3. x.stamp \in Nat /\ o.stamp \in Nat
          <6>1. x.stamp \in 0..wsStamps /\ o.stamp \in 0..wsStamps /\ wsStamps \in Nat
            BY DEF RowsInv, WsTyped
          <6> QED BY <6>1, Within
        <5>4. o.stamp < x.stamp => o.stamp <= x.stamp
          BY <5>3
        <5> QED BY <5>1, <5>2, <5>4
      <4>3. x.stamp \in Nat /\ r.stamp \in Nat /\ announced \in Nat
        <5>1. x.stamp \in 0..wsStamps /\ r.stamp \in 0..wsStamps /\ announced \in 0..wsStamps /\ wsStamps \in Nat
          BY DEF RowsInv, WsTyped, AloneInv
        <5> QED BY <5>1, Within
      <4>4. x.stamp >= announced
        BY <3>1, <3>3, <4>2, <4>3
      <4> QED BY <1>1, <4>1, <4>4
    <3> QED BY <3>2, <3>3
  <2>2. \A r \in Lasting', x \in doomed' : x.stamp < r.stamp
    BY <1>1, <1>3 DEF Solo
  <2>3. \A c, d \in WsCalls : UnderWay(c)' /\ UnderWay(d)' => c = d
    BY <1>2, <1>3 DEF Solo, UnderWay
  <2>4. \A c \in WsCalls : Pending(c)' => change'[c].row.stamp = wsStamps' /\ \A r \in wsRows' : r.stamp < wsStamps'
    BY <1>1, <1>2, <1>3 DEF Solo, Pending
  <2>5. \A c \in WsCalls : change'[c].at = "announce" => change'[c].row \in Lasting' /\ change'[c].row.stamp = wsStamps'
    BY <1>1, <1>2, <1>3 DEF Solo
  <2>6. wsRows' # {} => \E r \in wsRows' : r.stamp >= announced'
    BY <1>2, <2>1
  <2> QED BY <2>2, <2>3, <2>4, <2>5, <2>6 DEF Solo
<1>4. Timely => Timely'
  BY <1>2 DEF Timely
<1> QED BY <1>2, <1>3, <1>4 DEF AloneInv

\* What is read of a workspace is at least as new as what was announced of it.
LEMMA LatestIsTimely ==
  ASSUME RowsInv, AloneInv, wsRows # {}
  PROVE  Latest(wsRows).stamp \in Nat /\ (Solo => Latest(wsRows).stamp >= announced)
<1>1. IsFiniteSet(wsRows) /\ wsStamps \in Nat /\ (\A r \in wsRows : r.stamp \in 0..wsStamps) /\ announced \in 0..wsStamps
  BY DEF RowsInv, WsTyped, AloneInv
<1>2. (\A r \in wsRows : r.stamp \in Nat) /\ announced \in Nat
  BY <1>1, Within
<1>3. PICK x : x = Latest(wsRows)
  OBVIOUS
<1>4. x \in wsRows /\ \A o \in wsRows : o.stamp <= x.stamp
  BY <1>1, <1>2, <1>3, LatestIs
<1>5. ASSUME Solo PROVE x.stamp >= announced
  <2>1. PICK r \in wsRows : r.stamp >= announced
    BY <1>5 DEF Solo
  <2>2. r.stamp <= x.stamp /\ r.stamp \in Nat /\ x.stamp \in Nat
    BY <1>2, <1>4
  <2> QED BY <1>2, <2>1, <2>2
<1> QED BY <1>2, <1>3, <1>4, <1>5

\* Payloads and the clock leave the rows and the calls alone.
LEMMA AloneFrame ==
  ASSUME RowsInv, AloneInv, UNCHANGED <<wsRows, doomed, wsStamps, change, announced, wsLate, wsOverlapped>>,
         \A p \in Payloads : payload'[p].at = "read" => payload'[p].row.stamp \in Nat,
         Solo /\ Timely => Timely'
  PROVE  AloneInv'
<1>1. Solo => Solo'
  BY DEF Solo, UnderWay, Pending, Lasting
<1> QED BY <1>1 DEF AloneInv

\* A payload is judged by what is as new as what was announced before it came.
LEMMA AlonePayloads ==
  ASSUME RowsInv, SeenInv, AloneInv, NEW p \in Payloads, PayloadStep(p)
  PROVE  AloneInv'
<1>1. /\ UNCHANGED <<wsRows, doomed, wsStamps, change, announced, wsLate, wsOverlapped>>
      /\ WsTyped
  BY DEF PayloadStep, PayloadHits, PayloadMisses, PayloadFindsNothing, PayloadFills, Unseen, wsPast, RowsInv
<1>2. CASE PayloadHits(p)
  <2>1. PICK q : q = [at |-> "judged", row |-> Entry.row, since |-> wsClock, due |-> announced]
    OBVIOUS
  <2>2. q.at = "judged" /\ q.row = Entry.row /\ q.due = announced /\ payload' = [payload EXCEPT ![p] = q] /\ Entry \in wsCache
    BY <1>2, <2>1 DEF PayloadHits, Fresh, Entry
  <2>3. payload'[p] = q /\ (\A r \in Payloads : r # p => payload'[r] = payload[r])
    BY <1>1, <2>2, PayloadWent
  <2>4. \A r \in Payloads : payload'[r].at = "read" => payload'[r].row.stamp \in Nat
    BY <2>2, <2>3 DEF AloneInv
  <2>5. wsCache' = wsCache
    BY <1>2 DEF PayloadHits
  <2>6. Timely => Timely'
    BY <1>1, <2>2, <2>3, <2>5 DEF Timely
  <2> QED BY <1>1, <2>4, <2>6, AloneFrame
<1>3. CASE PayloadMisses(p)
  <2>1. PICK q : q = [at |-> "read", row |-> Latest(wsRows), since |-> wsClock, due |-> announced]
    OBVIOUS
  <2>2. q.at = "read" /\ q.row = Latest(wsRows) /\ q.due = announced /\ payload' = [payload EXCEPT ![p] = q] /\ wsRows # {} /\ wsCache' = wsCache
    BY <1>3, <2>1 DEF PayloadMisses
  <2>3. payload'[p] = q /\ (\A r \in Payloads : r # p => payload'[r] = payload[r])
    BY <1>1, <2>2, PayloadWent
  <2>4. q.row.stamp \in Nat /\ (Solo => q.row.stamp >= announced)
    BY <2>2, LatestIsTimely
  <2>5. \A r \in Payloads : payload'[r].at = "read" => payload'[r].row.stamp \in Nat
    BY <2>3, <2>4 DEF AloneInv
  <2>6. Solo /\ Timely => Timely'
    BY <1>1, <2>2, <2>3, <2>4 DEF Timely
  <2> QED BY <1>1, <2>5, <2>6, AloneFrame
<1>4. CASE PayloadFindsNothing(p)
  <2>1. PICK q : q = [at |-> "refused"]
    OBVIOUS
  <2>2. q.at = "refused" /\ payload' = [payload EXCEPT ![p] = q] /\ wsCache' = wsCache
    BY <1>4, <2>1 DEF PayloadFindsNothing
  <2>3. payload'[p] = q /\ (\A r \in Payloads : r # p => payload'[r] = payload[r])
    BY <1>1, <2>2, PayloadWent
  <2>4. \A r \in Payloads : payload'[r].at = "read" => payload'[r].row.stamp \in Nat
    BY <2>2, <2>3 DEF AloneInv
  <2>5. Timely => Timely'
    BY <1>1, <2>2, <2>3 DEF Timely
  <2> QED BY <1>1, <2>4, <2>5, AloneFrame
<1>5. CASE PayloadFills(p)
  <2>1. {"at", "row", "since", "due"} \subseteq DOMAIN payload[p] /\ payload[p].at = "read"
    BY <1>5 DEF PayloadFills, SeenInv, PaySeen
  <2>2. PICK q : q = [payload[p] EXCEPT !.at = "judged"]
    OBVIOUS
  <2>3. /\ q.at = "judged" /\ q.row = payload[p].row /\ q.due = payload[p].due
        /\ payload' = [payload EXCEPT ![p] = q]
    BY <1>5, <2>1, <2>2 DEF PayloadFills
  <2>4. payload'[p] = q /\ (\A r \in Payloads : r # p => payload'[r] = payload[r])
    BY <1>1, <2>3, PayloadWent
  <2>5. PICK e : e = [row |-> payload[p].row, expires |-> ExpiryOf(p)]
    OBVIOUS
  <2>6. wsCache' = {e} /\ e.row = payload[p].row
    BY <1>5, <2>5 DEF PayloadFills
  <2>7. \A r \in Payloads : payload'[r].at = "read" => payload'[r].row.stamp \in Nat
    BY <2>3, <2>4 DEF AloneInv
  <2>8. Timely => Timely'
    <3>1. SUFFICES ASSUME Timely PROVE Timely'
      OBVIOUS
    <3>2. payload[p].row.stamp >= announced /\ payload[p].row.stamp >= payload[p].due
      BY <2>1, <3>1 DEF Timely
    <3>3. \A r \in Payloads : payload'[r].at = "read" => payload'[r].row.stamp >= announced /\ payload'[r].row.stamp >= payload'[r].due
      BY <2>3, <2>4, <3>1 DEF Timely
    <3>4. \A r \in Payloads : payload'[r].at = "judged" => payload'[r].row.stamp >= payload'[r].due
      BY <2>3, <2>4, <3>1, <3>2 DEF Timely
    <3>5. \A e2 \in wsCache' : e2.row.stamp >= announced
      BY <2>6, <3>2
    <3> QED BY <1>1, <3>3, <3>4, <3>5 DEF Timely
  <2> QED BY <1>1, <2>7, <2>8, AloneFrame
<1> QED BY <1>2, <1>3, <1>4, <1>5 DEF PayloadStep

\* Time passes.
LEMMA AloneTick ==
  ASSUME RowsInv, AloneInv, Tick
  PROVE  AloneInv'
<1>1. UNCHANGED <<wsRows, doomed, wsStamps, change, announced, wsLate, wsOverlapped, payload, wsCache>>
  BY DEF Tick, wsPast
<1>2. Timely => Timely'
  BY <1>1 DEF Timely
<1>3. \A p \in Payloads : payload'[p].at = "read" => payload'[p].row.stamp \in Nat
  BY <1>1 DEF AloneInv
<1> QED BY <1>1, <1>2, <1>3, AloneFrame

\* It starts like this.
LEMMA AloneInit ==
  ASSUME WsInit
  PROVE  AloneInv
<1>1. /\ wsStamps = 0 /\ announced = 0 /\ wsCache = {} /\ doomed = {}
      /\ \A c \in WsCalls : change[c].at = "idle"
      /\ \A p \in Payloads : payload[p].at = "idle"
  BY FirstRowIs DEF WsInit
<1>2. announced \in 0..wsStamps
  BY <1>1
<1>3. Timely
  BY <1>1 DEF Timely
<1>4. wsRows # {} => \E r \in wsRows : r.stamp >= announced
  <2>1. FirstRow.stamp >= announced
    BY <1>1, FirstRowIs
  <2> QED BY <2>1, FirstRowIs
<1>5. Solo
  BY <1>1, <1>4 DEF Solo, UnderWay, Pending
<1> QED BY <1>1, <1>2, <1>3, <1>5 DEF AloneInv

\* And goes on like this.
LEMMA AloneNext ==
  ASSUME RowsInv, SeenInv, AloneInv, [WsNext]_wsVars
  PROVE  AloneInv'
<1>1. CASE UNCHANGED wsVars
  BY <1>1 DEF wsVars, served, wsPast, AloneInv, Solo, Timely, UnderWay, Pending, Lasting
<1>2. CASE WsNext
  <2>1. \A c \in WsCalls : QuietCall(c) => AloneInv'
    BY AloneCalls, AloneAnnounce
  <2>2. \A c \in WsCalls : DeleteOld(c) \/ DeleteRow(c) => AloneInv'
    BY AloneDooms
  <2>3. \A c \in WsCalls : CreateRow(c) \/ InsertNew(c) \/ UpdateReads(c) => AloneInv'
    BY AloneCreates, AloneInserts, AloneReads
  <2>4. (\E p \in Payloads : PayloadStep(p)) \/ WsMutate \/ Tick => AloneInv'
    BY AlonePayloads, AloneMutate, AloneTick
  <2> QED BY <1>2, <2>1, <2>2, <2>3, <2>4, WsSteps
<1> QED BY <1>1, <1>2

-----------------------------------------------------------------------------
\* Calls that take turns.

\* Settings fit those expected, except for some fields.
Fits(s, e, except) == \A f \in Fields : s[f] = e[f] \/ f \in except
SmtpIf(b) == {f \in {"smtp"} : b}
Removed == SmtpIf("smtp removed" \in ends)
AllThere == kept = IF Lasting # {} THEN Everything ELSE {}
Settled == AllThere /\ (Lasting # {} => Fits(Latest(Lasting).settings, expected, Removed))

\* What a call that is under way will have meant, and what it need not have done.
ToCome(c) == Meant(change[c].asked, c, expected)
Excused(c) == Removed \cup SmtpIf(change[c].asked.kind = "delete smtp")

ChangeTurn(c) ==
  /\ change[c].at = "update" =>
       /\ AllThere /\ (wsRows # {} => Lasting # {})
       /\ Lasting # {} => Fits(Merged(Latest(Lasting).settings, change[c].patch), ToCome(c), Excused(c))
  /\ Holding(c) => kept = Everything /\ Fits(change[c].row.settings, ToCome(c), Excused(c))
CreateTurn(c) ==
  /\ change[c].at \in {"create database", "create row", "create membership", "create task"} =>
       change[c].asked.kind = "create"
  /\ change[c].at \in {"create row", "create membership", "create task"} => "database" \in kept
  /\ change[c].at \in {"create membership", "create task"} =>
       Lasting # {} /\ Latest(Lasting).settings = DefaultSettings
  /\ change[c].at = "create task" => "memberships" \in kept
DeleteTurn(c) ==
  /\ change[c].at \in {"delete tasks", "drop database", "delete row"} => "memberships" \notin kept
  /\ change[c].at \in {"drop database", "delete row"} => "backfill tasks" \notin kept
  /\ change[c].at = "delete row" => kept = {}

\* Between two calls all is as the calls meant it; a call that is under way is on the way there.
TurnInv ==
  ~wsOverlapped /\ "failed" \notin ends =>
    /\ Calm => Settled
    /\ \A c \in WsCalls : ChangeTurn(c) /\ CreateTurn(c) /\ DeleteTurn(c)

\* The latest of rows that stamps tell apart.
LEMMA LatestIsThe ==
  ASSUME NEW S, IsFiniteSet(S), \A r \in S : r.stamp \in Nat, \A r, o \in S : r.stamp = o.stamp => r = o,
         NEW n \in S, \A r \in S : r.stamp <= n.stamp
  PROVE  Latest(S) = n
<1>1. PICK x : x = Latest(S)
  OBVIOUS
<1>2. x \in S /\ n.stamp <= x.stamp
  BY <1>1, LatestIs
<1>3. x.stamp <= n.stamp /\ x.stamp \in Nat /\ n.stamp \in Nat
  BY <1>2
<1>4. x.stamp = n.stamp
  BY <1>2, <1>3
<1> QED BY <1>1, <1>2, <1>4

\* What is read is what lasts.
LEMMA NewestLasts ==
  ASSUME RowsInv, Solo, Lasting # {}
  PROVE  Latest(wsRows) = Latest(Lasting)
<1>1. IsFiniteSet(wsRows) /\ wsStamps \in Nat /\ (\A r \in wsRows : r.stamp \in 0..wsStamps)
  BY DEF RowsInv, WsTyped
<1>2. (\A r \in wsRows : r.stamp \in Nat) /\ Lasting \subseteq wsRows
  BY <1>1, Within DEF Lasting
<1>3. IsFiniteSet(Lasting) /\ (\A r \in Lasting : r.stamp \in Nat)
  BY <1>1, <1>2, FS_Subset
<1>4. PICK y : y = Latest(Lasting)
  OBVIOUS
<1>5. y \in Lasting /\ \A o \in Lasting : o.stamp <= y.stamp
  BY <1>3, <1>4, LatestIs
<1>6. ASSUME NEW r \in wsRows PROVE r.stamp <= y.stamp
  <2>1. CASE r \in Lasting
    BY <1>5, <2>1
  <2>2. CASE r \notin Lasting
    <3>1. r.stamp < y.stamp
      BY <1>5, <2>2 DEF Solo, Lasting
    <3>2. r.stamp \in Nat /\ y.stamp \in Nat
      BY <1>2, <1>5
    <3> QED BY <3>1, <3>2
  <2> QED BY <2>1, <2>2
<1>7. \A r, o \in wsRows : r.stamp = o.stamp => r = o
  BY DEF RowsInv, StampsApart
<1>8. y \in wsRows
  BY <1>2, <1>5
<1> QED BY <1>1, <1>2, <1>4, <1>6, <1>7, <1>8, LatestIsThe

\* A row with the newest stamp is the latest.
LEMMA StampedLast ==
  ASSUME NEW S, NEW m \in Nat, IsFiniteSet(S), \A r \in S : r.stamp \in 0..m, \A r, o \in S : r.stamp = o.stamp => r = o,
         NEW n \in S, n.stamp = m
  PROVE  Latest(S) = n
<1>1. \A r \in S : r.stamp \in Nat /\ r.stamp <= m
  BY Within
<1> QED BY <1>1, LatestIsThe

\* The settings a call is to write are those it means.
LEMMA PatchMeant ==
  ASSUME NEW s, NEW e, NEW except \in SUBSET {"smtp"}, Fits(s, e, except), IsSettings(s), IsSettings(e), NEW c, NEW q,
         q.kind \in FilterKinds \cup SmtpKinds
  PROVE  Fits(Merged(s, Patch(q, c, s)), Meant(q, c, e), except \cup SmtpIf(q.kind = "delete smtp"))
<1>1. CASE q.kind \in FilterKinds
  <2>1. Patch(q, c, s) = [f \in {"filters"} |-> FilterEdit(q, c, s.filters)]
    BY <1>1 DEF Patch, FilterPatch
  <2>2. Meant(q, c, e) = [e EXCEPT !.filters = FilterEdit(q, c, e.filters)]
    BY <1>1 DEF Meant, FilterKinds
  <2>3. s.filters = e.filters
    BY DEF Fits, Fields
  <2>4. PICK x : x = FilterEdit(q, c, s.filters)
    OBVIOUS
  <2>5. Patch(q, c, s) = [f \in {"filters"} |-> x] /\ Meant(q, c, e) = [e EXCEPT !.filters = x]
    BY <2>1, <2>2, <2>3, <2>4
  <2> QED BY <2>5 DEF Fits, SmtpIf, Merged, Fields, IsSettings
<1>2. CASE q.kind = "set smtp"
  <2>1. Patch(q, c, s) = [s EXCEPT !.smtp = c]
    BY <1>2 DEF Patch, SmtpPatch, FilterKinds
  <2>2. Meant(q, c, e) = [e EXCEPT !.smtp = c]
    BY <1>2 DEF Meant, FilterKinds
  <2> QED BY <2>1, <2>2 DEF Fits, SmtpIf, Merged, Fields, IsSettings
<1>3. CASE q.kind = "delete smtp"
  <2>1. Patch(q, c, s) = [f \in Fields \ {"smtp"} |-> s[f]]
    BY <1>3 DEF Patch, SmtpPatch, FilterKinds
  <2>2. Meant(q, c, e) = [e EXCEPT !.smtp = Blank]
    BY <1>3 DEF Meant, FilterKinds
  <2> QED BY <1>3, <2>1, <2>2 DEF Fits, SmtpIf, Merged, Fields, IsSettings
<1> QED BY <1>1, <1>2, <1>3 DEF SmtpKinds

\* Settings the console sends are those it means.
LEMMA SettingsMeant ==
  ASSUME NEW s, NEW e, NEW except, Fits(s, e, except), IsSettings(s), IsSettings(e), NEW c, NEW q, q.kind = "settings"
  PROVE  Fits(Merged(s, [f \in {"domains"} |-> c]), Meant(q, c, e), except)
<1>1. Meant(q, c, e) = [e EXCEPT !.domains = c]
  BY DEF Meant, FilterKinds
<1> QED BY <1>1 DEF Fits, Merged, Fields, IsSettings

\* A call goes on by itself.
LEMMA TurnGoes ==
  ASSUME RowsInv, AloneInv, NEW c \in WsCalls, NEW q, Go(c, q),
         ~wsOverlapped' => ~wsOverlapped /\ (UnderWay(c) \/ Calm),
         ~wsOverlapped' /\ "failed" \notin ends' =>
           /\ ChangeTurn(c)' /\ CreateTurn(c)' /\ DeleteTurn(c)'
           /\ q.at \in {"idle", "done", "failed"} => Settled'
  PROVE  TurnInv'
<1>1. /\ change'[c] = q
      /\ \A d \in WsCalls : d # c => change'[d] = change[d]
  <2>1. WsTyped
    BY DEF RowsInv
  <2> QED BY <2>1, Went
<1>2. SUFFICES ASSUME ~wsOverlapped', "failed" \notin ends'
               PROVE  (Calm' => Settled') /\ \A d \in WsCalls : ChangeTurn(d)' /\ CreateTurn(d)' /\ DeleteTurn(d)'
  BY DEF TurnInv
<1>3. \A d \in WsCalls : d # c => ~UnderWay(d)
  BY <1>2 DEF AloneInv, Solo, Calm
<1>4. \A d \in WsCalls : d # c => change'[d].at \in {"idle", "done", "failed"}
  BY <1>1, <1>3 DEF UnderWay
<1>5. \A d \in WsCalls : d # c => ChangeTurn(d)' /\ CreateTurn(d)' /\ DeleteTurn(d)'
  BY <1>4 DEF ChangeTurn, CreateTurn, DeleteTurn, Holding, Pending
<1>6. Calm' => Settled'
  BY <1>1, <1>2 DEF Calm, UnderWay
<1> QED BY <1>2, <1>5, <1>6

\* What is there remains as it was when rows and settings do.
LEMMA LastingStays ==
  ASSUME UNCHANGED <<wsRows, doomed>>
  PROVE  Lasting' = Lasting /\ wsRows' = wsRows
BY DEF Lasting

\* What a call finds that begins when nothing goes on.
LEMMA BeginsSettled ==
  ASSUME RowsInv, AloneInv, TurnInv, NEW c \in WsCalls, NEW q, BeginChange(c, q), ~wsOverlapped', "failed" \notin ends
  PROVE  /\ Go(c, q) /\ ~wsOverlapped /\ Calm /\ Settled /\ (wsRows # {} => Lasting # {})
         /\ Lasting # {} => /\ Latest(wsRows) = Latest(Lasting)
                            /\ IsSettings(Latest(Lasting).settings)
         /\ IsSettings(expected) /\ change'[c] = q
<1>1. Go(c, q) /\ ~wsOverlapped /\ Calm /\ (wsRows # {} => wsRows # doomed)
  BY DEF BeginChange, Calm
<1>2. Settled
  BY <1>1 DEF TurnInv
<1>3. wsRows # {} => Lasting # {}
  BY <1>1 DEF RowsInv, WsTyped, Lasting
<1>4. ASSUME Lasting # {} PROVE Latest(wsRows) = Latest(Lasting) /\ IsSettings(Latest(Lasting).settings)
  <2>1. Latest(wsRows) = Latest(Lasting)
    BY <1>1, <1>4, NewestLasts DEF AloneInv
  <2>2. IsFiniteSet(wsRows) /\ wsStamps \in Nat /\ (\A r \in wsRows : r.stamp \in 0..wsStamps) /\ wsRows # {}
    BY <1>4 DEF RowsInv, WsTyped, Lasting
  <2>3. \A r \in wsRows : r.stamp \in Nat
    BY <2>2, Within
  <2>4. Latest(wsRows) \in wsRows
    BY <2>2, <2>3, LatestIs
  <2>5. IsSettings(Latest(wsRows).settings)
    BY <2>4 DEF RowsInv, WsTyped
  <2> QED BY <2>1, <2>5
<1>5. IsSettings(expected) /\ WsTyped
  BY DEF RowsInv, WsTyped
<1> QED BY <1>1, <1>2, <1>3, <1>4, <1>5, Went

\* A call begins with what it needs to keep its turn.
LEMMA TurnUpdate ==
  ASSUME RowsInv, AloneInv, TurnInv, NEW c \in WsCalls, StartUpdate(c)
  PROVE  TurnInv'
<1>1. PICK patch : patch = [f \in {"domains"} |-> c]
  OBVIOUS
<1>2. PICK asked : asked = [kind |-> "settings"]
  OBVIOUS
<1>3. PICK q : q = [at |-> "update", asked |-> asked, patch |-> patch]
  OBVIOUS
<1>4. q.at = "update" /\ q.asked = asked /\ q.patch = patch /\ asked.kind = "settings" /\ BeginChange(c, q)
  BY <1>1, <1>2, <1>3 DEF StartUpdate
<1>5. UNCHANGED <<wsRows, doomed, kept, expected, ends>>
  BY DEF StartUpdate
<1>6. ASSUME ~wsOverlapped', "failed" \notin ends'
      PROVE  ChangeTurn(c)' /\ CreateTurn(c)' /\ DeleteTurn(c)' /\ q.at \notin {"idle", "done", "failed"}
  <2>1. /\ Settled /\ (wsRows # {} => Lasting # {}) /\ IsSettings(expected) /\ change'[c] = q
        /\ Lasting # {} => IsSettings(Latest(Lasting).settings)
    BY <1>4, <1>5, <1>6, BeginsSettled
  <2>2. Lasting' = Lasting /\ wsRows' = wsRows /\ kept' = kept /\ expected' = expected /\ ends' = ends
    BY <1>5, LastingStays
  <2>3. ASSUME Lasting # {}
        PROVE  Fits(Merged(Latest(Lasting).settings, patch), Meant(asked, c, expected), Removed \cup SmtpIf(asked.kind = "delete smtp"))
    <3>1. PICK s : s = Latest(Lasting).settings
      OBVIOUS
    <3>2. Fits(s, expected, Removed) /\ IsSettings(s) /\ IsSettings(expected)
      BY <2>1, <2>3, <3>1 DEF Settled
    <3>3. Fits(Merged(s, patch), Meant(asked, c, expected), Removed)
      BY <1>1, <1>4, <3>2, SettingsMeant
    <3> QED BY <3>1, <3>3 DEF Fits
  <2>4. ChangeTurn(c)'
    BY <1>4, <2>1, <2>2, <2>3 DEF ChangeTurn, Holding, Pending, Settled, AllThere, ToCome, Excused, Removed
  <2> QED BY <1>4, <2>1, <2>4 DEF CreateTurn, DeleteTurn
<1>7. ~wsOverlapped' => ~wsOverlapped /\ Calm
  BY <1>4 DEF BeginChange, Calm
<1>8. Go(c, q)
  BY <1>4 DEF BeginChange
<1> QED BY <1>6, <1>7, <1>8, TurnGoes

\* A filter or SMTP call begins with what it has read.
LEMMA TurnEdit ==
  ASSUME RowsInv, AloneInv, TurnInv, NEW c \in WsCalls, StartEdit(c)
  PROVE  TurnInv'
<1>1. PICK s : s = Latest(wsRows).settings
  OBVIOUS
<1>2. PICK asked \in FilterRequests(c, s.filters) \cup [kind : SmtpKinds] :
        BeginChange(c, [at |-> "update", asked |-> asked, patch |-> Patch(asked, c, s)])
  BY <1>1 DEF StartEdit
<1>3. PICK patch : patch = Patch(asked, c, s)
  OBVIOUS
<1>4. PICK q : q = [at |-> "update", asked |-> asked, patch |-> patch]
  OBVIOUS
<1>5. q.at = "update" /\ q.asked = asked /\ q.patch = patch /\ BeginChange(c, q)
  BY <1>2, <1>3, <1>4
<1>6. asked.kind \in FilterKinds \cup SmtpKinds
  BY EditsAreRequests
<1>7. UNCHANGED <<wsRows, doomed, kept, expected, ends>> /\ wsRows # {}
  BY DEF StartEdit
<1>8. ASSUME ~wsOverlapped', "failed" \notin ends'
      PROVE  ChangeTurn(c)' /\ CreateTurn(c)' /\ DeleteTurn(c)' /\ q.at \notin {"idle", "done", "failed"}
  <2>1. /\ Settled /\ (wsRows # {} => Lasting # {}) /\ IsSettings(expected) /\ change'[c] = q
        /\ Lasting # {} => IsSettings(Latest(Lasting).settings) /\ Latest(wsRows) = Latest(Lasting)
    BY <1>5, <1>7, <1>8, BeginsSettled
  <2>2. Lasting' = Lasting /\ wsRows' = wsRows /\ kept' = kept /\ expected' = expected /\ ends' = ends
    BY <1>7, LastingStays
  <2>3. Fits(Merged(Latest(Lasting).settings, patch), Meant(asked, c, expected), Removed \cup SmtpIf(asked.kind = "delete smtp"))
    <3>1. s = Latest(Lasting).settings /\ Fits(s, expected, Removed) /\ IsSettings(s) /\ IsSettings(expected)
      BY <1>1, <1>7, <2>1 DEF Settled
    <3>2. Fits(Merged(s, Patch(asked, c, s)), Meant(asked, c, expected), Removed \cup SmtpIf(asked.kind = "delete smtp"))
      <4>1. Removed \in SUBSET {"smtp"}
        BY DEF Removed, SmtpIf
      <4> QED BY <1>6, <3>1, <4>1, PatchMeant
    <3> QED BY <1>3, <3>1, <3>2
  <2>4. ChangeTurn(c)'
    BY <1>5, <2>1, <2>2, <2>3 DEF ChangeTurn, Holding, Pending, Settled, AllThere, ToCome, Excused, Removed
  <2> QED BY <1>5, <2>1, <2>4 DEF CreateTurn, DeleteTurn
<1>9. ~wsOverlapped' => ~wsOverlapped /\ Calm
  BY <1>5 DEF BeginChange, Calm
<1>10. Go(c, q)
  BY <1>5 DEF BeginChange
<1> QED BY <1>8, <1>9, <1>10, TurnGoes

\* A creation or a deletion begins.
LEMMA TurnBegins ==
  ASSUME RowsInv, AloneInv, TurnInv, NEW c \in WsCalls, StartCreate(c) \/ StartDelete(c)
  PROVE  TurnInv'
<1>1. PICK asked : asked = [kind |-> IF StartCreate(c) THEN "create" ELSE "delete"]
  OBVIOUS
<1>2. PICK q : q = [at |-> IF StartCreate(c) THEN "create database" ELSE "delete memberships", asked |-> asked]
  OBVIOUS
<1>3. /\ BeginChange(c, q) /\ q.asked = asked
      /\ (q.at = "create database" /\ asked.kind = "create") \/ q.at = "delete memberships"
  <2>1. CASE StartCreate(c)
    BY <1>1, <1>2, <2>1 DEF StartCreate
  <2>2. CASE ~StartCreate(c)
    BY <1>1, <1>2, <2>2 DEF StartDelete
  <2> QED BY <2>1, <2>2
<1>4. Go(c, q) /\ WsTyped
  BY <1>3 DEF BeginChange, RowsInv
<1>5. change'[c] = q
  BY <1>4, Went
<1>6. ChangeTurn(c)' /\ CreateTurn(c)' /\ DeleteTurn(c)' /\ q.at \notin {"idle", "done", "failed"}
  BY <1>3, <1>5 DEF ChangeTurn, CreateTurn, DeleteTurn, Holding, Pending
<1>7. ~wsOverlapped' => ~wsOverlapped /\ Calm
  BY <1>3 DEF BeginChange, Calm
<1> QED BY <1>4, <1>6, <1>7, TurnGoes

\* A call fails.
LEMMA TurnFails ==
  ASSUME RowsInv, AloneInv, TurnInv, NEW c \in WsCalls, Fail(c)
  PROVE  TurnInv'
BY DEF Fail, TurnInv

\* A call that goes on is asked for what it was.
LEMMA GoesOn ==
  ASSUME WsTyped, NEW c \in WsCalls, UnderWay(c), NEW x, NEW q, q = [change[c] EXCEPT !.at = x], Go(c, q)
  PROVE  /\ change'[c] = q /\ q.at = x /\ q.asked = change[c].asked
         /\ Holding(c) => q.row = change[c].row
<1>1. {"at", "asked"} \subseteq DOMAIN change[c] /\ (Holding(c) => "row" \in DOMAIN change[c])
  BY DEF WsTyped, ChangeOK
<1>2. q.at = x /\ q.asked = change[c].asked /\ (Holding(c) => q.row = change[c].row)
  BY <1>1
<1> QED BY <1>2, Went

\* The steps of a creation that write elsewhere.
LEMMA TurnCreates ==
  ASSUME RowsInv, AloneInv, TurnInv, NEW c \in WsCalls, CreateDatabase(c) \/ CreateMembership(c)
  PROVE  TurnInv'
<1>1. PICK x : Go(c, [change[c] EXCEPT !.at = x]) /\ \/ CreateDatabase(c) /\ x = "create row"
                                                     \/ CreateMembership(c) /\ x = "create task"
  BY DEF CreateDatabase, CreateMembership
<1>2. WsTyped /\ UnderWay(c) /\ ~Holding(c)
  BY DEF RowsInv, UnderWay, CreateDatabase, CreateMembership, Holding, Pending
<1>3a. PICK q : q = [change[c] EXCEPT !.at = x]
  OBVIOUS
<1>3b. Go(c, q)
  BY <1>1, <1>2, <1>3a
<1>3. Go(c, q) /\ change'[c] = q /\ q.at = x /\ q.asked = change[c].asked
  BY <1>2, <1>3a, <1>3b, GoesOn
<1>4. UNCHANGED <<wsRows, doomed, expected, ends, wsOverlapped>>
  BY DEF CreateDatabase, CreateMembership, wsPast
<1>5. Lasting' = Lasting
  BY <1>4, LastingStays
<1>6. ASSUME ~wsOverlapped', "failed" \notin ends'
      PROVE  ChangeTurn(c)' /\ CreateTurn(c)' /\ DeleteTurn(c)' /\ q.at \notin {"idle", "done", "failed"}
  <2>1. CreateTurn(c)
    BY <1>4, <1>6 DEF TurnInv
  <2>2. CASE CreateDatabase(c) /\ x = "create row"
    <3>1. change[c].asked.kind = "create" /\ "database" \in kept'
      BY <2>1, <2>2 DEF CreateTurn, CreateDatabase
    <3> QED BY <1>3, <2>2, <3>1 DEF ChangeTurn, CreateTurn, DeleteTurn, Holding, Pending
  <2>3. CASE CreateMembership(c) /\ x = "create task"
    <3>1. change[c].asked.kind = "create" /\ "database" \in kept' /\ "memberships" \in kept'
      BY <2>1, <2>3 DEF CreateTurn, CreateMembership
    <3>2. Lasting # {} /\ Latest(Lasting).settings = DefaultSettings
      BY <2>1, <2>3 DEF CreateTurn, CreateMembership
    <3> QED BY <1>3, <1>5, <2>3, <3>1, <3>2 DEF ChangeTurn, CreateTurn, DeleteTurn, Holding, Pending
  <2> QED BY <1>1, <2>2, <2>3
<1> QED BY <1>2, <1>3, <1>4, <1>6, TurnGoes

\* A row that is written with the newest stamp is the one that is read.
LEMMA AddedIsLatest ==
  ASSUME RowsInv, NEW n, wsRows' = wsRows \cup {n}, doomed' = doomed, wsStamps' \in Nat, n.stamp = wsStamps',
         \A r \in wsRows : r.stamp < n.stamp
  PROVE  Lasting' # {} /\ Latest(Lasting') = n
<1>1. /\ IsFiniteSet(wsRows) /\ doomed \subseteq wsRows /\ wsStamps \in Nat /\ (\A r \in wsRows : r.stamp \in 0..wsStamps)
      /\ \A r, o \in wsRows : r.stamp = o.stamp => r = o
  BY DEF RowsInv, WsTyped, StampsApart
<1>2. n.stamp \in Nat /\ (\A r \in wsRows : r.stamp \in Nat)
  BY <1>1, Within
<1>3. \A r \in wsRows : r.stamp <= n.stamp /\ r.stamp # n.stamp
  BY <1>2
<1>4. n.stamp <= n.stamp
  BY <1>2
<1>5. PICK S : S = Lasting'
  OBVIOUS
<1>6. S \subseteq wsRows \cup {n} /\ n \in S
  BY <1>1, <1>3, <1>5 DEF Lasting
<1>7. IsFiniteSet(S)
  <2>1. IsFiniteSet(wsRows \cup {n})
    BY <1>1, FS_AddElement
  <2> QED BY <1>6, <2>1, FS_Subset
<1>8. (\A r \in S : r.stamp \in Nat /\ r.stamp <= n.stamp)
  BY <1>2, <1>3, <1>4, <1>6
<1>9. \A r, o \in S : r.stamp = o.stamp => r = o
  BY <1>1, <1>3, <1>6
<1>10. Latest(S) = n
  BY <1>6, <1>7, <1>8, <1>9, LatestIsThe
<1> QED BY <1>5, <1>6, <1>10

\* The row of a creation is written.
LEMMA TurnCreatesRow ==
  ASSUME RowsInv, AloneInv, TurnInv, NEW c \in WsCalls, CreateRow(c)
  PROVE  TurnInv'
<1>1. WsTyped /\ UnderWay(c) /\ ~Holding(c) /\ wsStamps \in Nat /\ wsStamps' = wsStamps + 1
  BY DEF RowsInv, WsTyped, UnderWay, CreateRow, Holding, Pending
<1>2. PICK x : x = "create membership"
  OBVIOUS
<1>3. Go(c, [change[c] EXCEPT !.at = x])
  BY <1>2 DEF CreateRow
<1>4a. PICK q : q = [change[c] EXCEPT !.at = x]
  OBVIOUS
<1>4b. Go(c, q)
  BY <1>1, <1>3, <1>4a
<1>4. Go(c, q) /\ change'[c] = q /\ q.at = x /\ q.asked = change[c].asked
  BY <1>1, <1>3, <1>4a, <1>4b, GoesOn
<1>5. UNCHANGED <<doomed, kept, expected, ends, wsOverlapped>>
  BY DEF CreateRow, wsPast
<1>6. PICK n : n = [stamp |-> wsStamps', settings |-> DefaultSettings]
  OBVIOUS
<1>7. n.stamp = wsStamps' /\ n.settings = DefaultSettings /\ wsRows' = wsRows \cup {n}
  BY <1>6 DEF CreateRow
<1>8. \A r \in wsRows : r.stamp < n.stamp
  BY <1>1, <1>7 DEF RowsInv, WsTyped
<1>9. wsStamps' \in Nat
  BY <1>1
<1>10. Lasting' # {} /\ Latest(Lasting') = n
  BY <1>5, <1>7, <1>8, <1>9, AddedIsLatest
<1>11. ASSUME ~wsOverlapped', "failed" \notin ends'
       PROVE  ChangeTurn(c)' /\ CreateTurn(c)' /\ DeleteTurn(c)' /\ q.at \notin {"idle", "done", "failed"}
  <2>1. CreateTurn(c) /\ change[c].at = "create row"
    BY <1>5, <1>11 DEF TurnInv, CreateRow
  <2>2. change[c].asked.kind = "create" /\ "database" \in kept'
    BY <1>5, <2>1 DEF CreateTurn
  <2>3. Lasting' # {} /\ Latest(Lasting').settings = DefaultSettings
    BY <1>7, <1>10
  <2> QED BY <1>2, <1>4, <2>2, <2>3 DEF ChangeTurn, CreateTurn, DeleteTurn, Holding, Pending
<1> QED BY <1>1, <1>4, <1>5, <1>11, TurnGoes

\* What is meant by a call that ends.
LEMMA EndFits ==
  ASSUME NEW c, End(c), NEW s, Fits(s, ToCome(c), Excused(c))
  PROVE  Fits(s, expected', Removed')
<1>1. expected' = ToCome(c)
  BY DEF End, ToCome
<1>2. Excused(c) \subseteq Removed'
  BY DEF End, Excused, Removed, SmtpIf
<1> QED BY <1>1, <1>2 DEF Fits

\* A creation is done.
LEMMA TurnCreated ==
  ASSUME RowsInv, AloneInv, TurnInv, NEW c \in WsCalls, CreateTask(c)
  PROVE  TurnInv'
<1>1. WsTyped /\ UnderWay(c) /\ End(c) /\ change[c].at = "create task"
  BY DEF RowsInv, UnderWay, CreateTask
<1>2. PICK q : q = Concluded
  OBVIOUS
<1>3. q.at = "done" /\ Go(c, q)
  BY <1>1, <1>2 DEF Concluded, End
<1>4. change'[c] = q
  BY <1>1, <1>3, Went
<1>5. Lasting' = Lasting /\ kept' = kept \cup {"backfill tasks"} /\ wsOverlapped' = wsOverlapped /\ ends \subseteq ends'
  BY <1>1 DEF CreateTask, Lasting, End
<1>6. ASSUME ~wsOverlapped', "failed" \notin ends' PROVE Settled'
  <2>1. CreateTurn(c)
    BY <1>5, <1>6 DEF TurnInv
  <2>2. /\ change[c].asked.kind = "create" /\ {"database", "memberships"} \subseteq kept
        /\ Lasting # {} /\ Latest(Lasting).settings = DefaultSettings
    BY <1>1, <2>1 DEF CreateTurn
  <2>3. kept' = Everything
    BY <1>5, <2>2 DEF RowsInv, WsTyped, Everything
  <2>4. ToCome(c) = DefaultSettings
    BY <2>2 DEF ToCome, Meant, FilterKinds
  <2>5. Fits(Latest(Lasting).settings, ToCome(c), Excused(c))
    BY <2>2, <2>4 DEF Fits
  <2>6. Fits(Latest(Lasting).settings, expected', Removed')
    BY <1>1, <2>5, EndFits
  <2> QED BY <1>5, <2>2, <2>3, <2>6 DEF Settled, AllThere
<1>7. ChangeTurn(c)' /\ CreateTurn(c)' /\ DeleteTurn(c)'
  BY <1>3, <1>4 DEF ChangeTurn, CreateTurn, DeleteTurn, Holding, Pending
<1> QED BY <1>1, <1>3, <1>5, <1>6, <1>7, TurnGoes

\* The steps of a deletion before its last.
LEMMA TurnDeletes ==
  ASSUME RowsInv, AloneInv, TurnInv, NEW c \in WsCalls, DeleteMemberships(c) \/ DeleteTasks(c) \/ DropDatabase(c)
  PROVE  TurnInv'
<1>1. PICK x : Go(c, [change[c] EXCEPT !.at = x]) /\ \/ DeleteMemberships(c) /\ x = "delete tasks"
                                                     \/ DeleteTasks(c) /\ x = "drop database"
                                                     \/ DropDatabase(c) /\ x = "delete row"
  BY DEF DeleteMemberships, DeleteTasks, DropDatabase, DeleteStep
<1>2. WsTyped /\ UnderWay(c) /\ ~Holding(c) /\ kept \subseteq Everything
  BY DEF RowsInv, WsTyped, UnderWay, DeleteMemberships, DeleteTasks, DropDatabase, DeleteStep, Holding, Pending
<1>3a. PICK q : q = [change[c] EXCEPT !.at = x]
  OBVIOUS
<1>3b. Go(c, q)
  BY <1>1, <1>2, <1>3a
<1>3. Go(c, q) /\ change'[c] = q /\ q.at = x
  BY <1>2, <1>3a, <1>3b, GoesOn
<1>4. UNCHANGED <<ends, wsOverlapped>>
  BY DEF DeleteMemberships, DeleteTasks, DropDatabase, DeleteStep, wsPast
<1>5. ASSUME ~wsOverlapped', "failed" \notin ends'
      PROVE  ChangeTurn(c)' /\ CreateTurn(c)' /\ DeleteTurn(c)' /\ q.at \notin {"idle", "done", "failed"}
  <2>1. DeleteTurn(c)
    BY <1>4, <1>5 DEF TurnInv
  <2>2. DeleteTurn(c)'
    <3>1. CASE DeleteMemberships(c) /\ x = "delete tasks"
      <4>1. "memberships" \notin kept'
        BY <3>1 DEF DeleteMemberships, DeleteStep
      <4> QED BY <1>3, <3>1, <4>1 DEF DeleteTurn
    <3>2. CASE DeleteTasks(c) /\ x = "drop database"
      <4>1. "memberships" \notin kept' /\ "backfill tasks" \notin kept'
        BY <2>1, <3>2 DEF DeleteTasks, DeleteStep, DeleteTurn
      <4> QED BY <1>3, <3>2, <4>1 DEF DeleteTurn
    <3>3. CASE DropDatabase(c) /\ x = "delete row"
      <4>1. "memberships" \notin kept' /\ "backfill tasks" \notin kept' /\ kept' = {}
        BY <1>2, <2>1, <3>3 DEF DropDatabase, DeleteStep, DeleteTurn, Everything
      <4> QED BY <1>3, <3>3, <4>1 DEF DeleteTurn
    <3> QED BY <1>1, <3>1, <3>2, <3>3
  <2> QED BY <1>1, <1>3, <2>2 DEF ChangeTurn, CreateTurn, Holding, Pending
<1> QED BY <1>2, <1>3, <1>4, <1>5, TurnGoes

\* A deletion is done.
LEMMA TurnDeleted ==
  ASSUME RowsInv, AloneInv, TurnInv, NEW c \in WsCalls, DeleteRow(c)
  PROVE  TurnInv'
<1>1. WsTyped /\ UnderWay(c) /\ End(c) /\ change[c].at = "delete row"
  BY DEF RowsInv, UnderWay, DeleteRow
<1>2. PICK q : q = Concluded
  OBVIOUS
<1>3. q.at = "done" /\ Go(c, q)
  BY <1>1, <1>2 DEF Concluded, End
<1>4. change'[c] = q
  BY <1>1, <1>3, Went
<1>5. Lasting' = {} /\ kept' = kept /\ wsOverlapped' = wsOverlapped /\ ends \subseteq ends'
  BY <1>1 DEF DeleteRow, Lasting, End
<1>6. ASSUME ~wsOverlapped', "failed" \notin ends' PROVE Settled'
  BY <1>1, <1>5, <1>6 DEF TurnInv, DeleteTurn, Settled, AllThere
<1>7. ChangeTurn(c)' /\ CreateTurn(c)' /\ DeleteTurn(c)'
  BY <1>3, <1>4 DEF ChangeTurn, CreateTurn, DeleteTurn, Holding, Pending
<1> QED BY <1>1, <1>3, <1>5, <1>6, <1>7, TurnGoes

\* An update reads the settings it merges its own into.
LEMMA TurnReads ==
  ASSUME RowsInv, AloneInv, TurnInv, NEW c \in WsCalls, UpdateReads(c)
  PROVE  TurnInv'
<1>1. WsTyped /\ UnderWay(c) /\ change[c].at = "update" /\ wsRows # {}
  BY DEF RowsInv, UnderWay, UpdateReads
<1>2. PICK s : s = Merged(Latest(wsRows).settings, change[c].patch)
  OBVIOUS
<1>3. PICK n : n = [stamp |-> wsStamps', settings |-> s]
  OBVIOUS
<1>4. PICK q : q = [at |-> "delete old", asked |-> change[c].asked, row |-> n]
  OBVIOUS
<1>5. q.at = "delete old" /\ q.asked = change[c].asked /\ q.row = n /\ n.settings = s /\ Go(c, q)
  BY <1>2, <1>3, <1>4 DEF UpdateReads
<1>6. change'[c] = q
  BY <1>1, <1>5, Went
<1>7. UNCHANGED <<kept, expected, ends, wsOverlapped>>
  BY DEF UpdateReads, wsPast
<1>8. ASSUME ~wsOverlapped', "failed" \notin ends'
      PROVE  ChangeTurn(c)' /\ CreateTurn(c)' /\ DeleteTurn(c)' /\ q.at \notin {"idle", "done", "failed"}
  <2>1. ChangeTurn(c) /\ Solo
    BY <1>7, <1>8 DEF TurnInv, AloneInv
  <2>2. Lasting # {} /\ kept = Everything /\ Fits(Merged(Latest(Lasting).settings, change[c].patch), ToCome(c), Excused(c))
    BY <1>1, <2>1 DEF ChangeTurn, AllThere
  <2>3. Fits(s, ToCome(c), Excused(c))
    BY <1>2, <2>1, <2>2, NewestLasts
  <2>4. ToCome(c)' = ToCome(c) /\ Excused(c)' = Excused(c)
    BY <1>5, <1>6, <1>7 DEF ToCome, Excused, Removed
  <2>5. kept' = Everything /\ Fits(n.settings, ToCome(c)', Excused(c)')
    BY <1>5, <1>7, <2>2, <2>3, <2>4
  <2>6. ChangeTurn(c)'
    BY <1>5, <1>6, <2>5 DEF ChangeTurn
  <2> QED BY <1>5, <1>6, <2>6 DEF CreateTurn, DeleteTurn
<1> QED BY <1>1, <1>5, <1>7, <1>8, TurnGoes

\* It finds nothing.
LEMMA TurnRefused ==
  ASSUME RowsInv, AloneInv, TurnInv, NEW c \in WsCalls, UpdateFindsNothing(c)
  PROVE  TurnInv'
<1>1. WsTyped /\ UnderWay(c) /\ change[c].at = "update" /\ wsRows = {}
  BY DEF RowsInv, UnderWay, UpdateFindsNothing
<1>2. PICK q : q = Concluded
  OBVIOUS
<1>3. q.at = "done" /\ Go(c, q)
  BY <1>1, <1>2 DEF Concluded, UpdateFindsNothing, Refused
<1>4. change'[c] = q
  BY <1>1, <1>3, Went
<1>5. Lasting' = Lasting /\ Lasting = {} /\ kept' = kept /\ wsOverlapped' = wsOverlapped /\ ends' = ends
  BY <1>1 DEF UpdateFindsNothing, Refused, wsPast, Lasting
<1>6. ASSUME ~wsOverlapped', "failed" \notin ends' PROVE Settled'
  <2>1. AllThere
    BY <1>1, <1>5, <1>6 DEF TurnInv, ChangeTurn
  <2> QED BY <1>5, <2>1 DEF AllThere, Settled
<1>7. ChangeTurn(c)' /\ CreateTurn(c)' /\ DeleteTurn(c)'
  BY <1>3, <1>4 DEF ChangeTurn, CreateTurn, DeleteTurn, Holding, Pending
<1> QED BY <1>1, <1>3, <1>5, <1>6, <1>7, TurnGoes

\* The row is about to be written, or is written.
LEMMA TurnWrites ==
  ASSUME RowsInv, AloneInv, TurnInv, NEW c \in WsCalls, DeleteOld(c) \/ InsertNew(c)
  PROVE  TurnInv'
<1>1. PICK x : Go(c, [change[c] EXCEPT !.at = x]) /\ (x = "insert" \/ x = "announce")
  BY DEF DeleteOld, InsertNew
<1>2. WsTyped /\ UnderWay(c) /\ Holding(c)
  BY DEF RowsInv, UnderWay, DeleteOld, InsertNew, Holding, Pending
<1>3a. PICK q : q = [change[c] EXCEPT !.at = x]
  OBVIOUS
<1>3b. Go(c, q)
  BY <1>1, <1>2, <1>3a
<1>3. Go(c, q) /\ change'[c] = q /\ q.at = x /\ q.asked = change[c].asked /\ q.row = change[c].row
  BY <1>2, <1>3a, <1>3b, GoesOn
<1>4. UNCHANGED <<kept, expected, ends, wsOverlapped>>
  BY DEF DeleteOld, InsertNew, wsPast
<1>5. ASSUME ~wsOverlapped', "failed" \notin ends'
      PROVE  ChangeTurn(c)' /\ CreateTurn(c)' /\ DeleteTurn(c)' /\ q.at \notin {"idle", "done", "failed"}
  <2>1. kept = Everything /\ Fits(change[c].row.settings, ToCome(c), Excused(c))
    BY <1>2, <1>4, <1>5 DEF TurnInv, ChangeTurn
  <2>2. ToCome(c)' = ToCome(c) /\ Excused(c)' = Excused(c)
    BY <1>3, <1>4 DEF ToCome, Excused, Removed
  <2>3. kept' = Everything /\ Fits(q.row.settings, ToCome(c)', Excused(c)')
    BY <1>3, <1>4, <2>1, <2>2
  <2>4. ChangeTurn(c)'
    BY <1>1, <1>3, <2>3 DEF ChangeTurn
  <2> QED BY <1>1, <1>3, <2>4 DEF CreateTurn, DeleteTurn
<1> QED BY <1>2, <1>3, <1>4, <1>5, TurnGoes

\* A change is done.
LEMMA TurnAnnounced ==
  ASSUME RowsInv, AloneInv, TurnInv, NEW c \in WsCalls, Announce(c)
  PROVE  TurnInv'
<1>1. WsTyped /\ UnderWay(c) /\ End(c) /\ change[c].at = "announce" /\ Holding(c)
  BY DEF RowsInv, UnderWay, Announce, Holding
<1>2. PICK q : q = Concluded
  OBVIOUS
<1>3. q.at = "done" /\ Go(c, q)
  BY <1>1, <1>2 DEF Concluded, End
<1>4. change'[c] = q
  BY <1>1, <1>3, Went
<1>5. Lasting' = Lasting /\ kept' = kept /\ wsOverlapped' = wsOverlapped /\ ends \subseteq ends'
  BY <1>1 DEF Announce, Lasting, End
<1>6. ASSUME ~wsOverlapped', "failed" \notin ends' PROVE Settled'
  <2>1. ChangeTurn(c) /\ Solo
    BY <1>5, <1>6 DEF TurnInv, AloneInv
  <2>2. PICK n : n = change[c].row
    OBVIOUS
  <2>3. kept = Everything /\ Fits(n.settings, ToCome(c), Excused(c))
    BY <1>1, <2>1, <2>2 DEF ChangeTurn
  <2>4. n \in Lasting /\ n.stamp = wsStamps
    BY <1>1, <2>1, <2>2 DEF Solo
  <2>5. /\ IsFiniteSet(wsRows) /\ wsStamps \in Nat /\ Lasting \subseteq wsRows /\ (\A r \in wsRows : r.stamp \in 0..wsStamps)
        /\ \A r, o \in wsRows : r.stamp = o.stamp => r = o
    BY DEF RowsInv, WsTyped, StampsApart, Lasting
  <2>6. IsFiniteSet(Lasting)
    BY <2>5, FS_Subset
  <2>7. (\A r \in Lasting : r.stamp \in 0..wsStamps) /\ \A r, o \in Lasting : r.stamp = o.stamp => r = o
    BY <2>5
  <2>8. Latest(Lasting) = n
    BY <2>4, <2>5, <2>6, <2>7, StampedLast
  <2>9. Fits(n.settings, expected', Removed')
    BY <1>1, <2>3, EndFits
  <2> QED BY <1>5, <2>3, <2>4, <2>8, <2>9 DEF Settled, AllThere
<1>7. ChangeTurn(c)' /\ CreateTurn(c)' /\ DeleteTurn(c)'
  BY <1>3, <1>4 DEF ChangeTurn, CreateTurn, DeleteTurn, Holding, Pending
<1> QED BY <1>1, <1>3, <1>5, <1>6, <1>7, TurnGoes

\* Steps of no call leave the turns alone.
LEMMA TurnFrame ==
  ASSUME RowsInv, TurnInv, UNCHANGED <<change, kept, expected, ends, wsOverlapped>>, Lasting' = Lasting,
         wsRows' \subseteq wsRows
  PROVE  TurnInv'
<1>1. Settled' <=> Settled
  BY DEF Settled, AllThere, Removed
<1>2. ASSUME NEW c \in WsCalls, ChangeTurn(c), CreateTurn(c), DeleteTurn(c)
      PROVE  ChangeTurn(c)' /\ CreateTurn(c)' /\ DeleteTurn(c)'
  <2>1. ToCome(c)' = ToCome(c) /\ Excused(c)' = Excused(c) /\ (AllThere' <=> AllThere) /\ (Holding(c)' <=> Holding(c))
    BY DEF ToCome, Excused, Removed, AllThere, Holding, Pending
  <2>2. ChangeTurn(c)'
    BY <1>2, <2>1 DEF ChangeTurn
  <2> QED BY <1>2, <2>2 DEF CreateTurn, DeleteTurn
<1> QED BY <1>1, <1>2 DEF TurnInv, Calm, UnderWay

\* The turns are kept.
LEMMA TurnNext ==
  ASSUME RowsInv, AloneInv, TurnInv, [WsNext]_wsVars
  PROVE  TurnInv'
<1>1. CASE UNCHANGED wsVars
  <2>1. UNCHANGED <<wsRows, doomed, change, kept, expected, ends, wsOverlapped>>
    BY <1>1 DEF wsVars, wsPast
  <2> QED BY <2>1, TurnFrame DEF Lasting
<1>2. CASE WsNext
  <2>1. ASSUME NEW c \in WsCalls, QuietCall(c) PROVE TurnInv'
    BY <2>1, TurnUpdate, TurnEdit, TurnBegins, TurnFails, TurnCreates, TurnCreated, TurnDeletes, TurnRefused,
       TurnAnnounced DEF QuietCall
  <2>2. ASSUME NEW c \in WsCalls, CreateRow(c) \/ DeleteRow(c) \/ UpdateReads(c) \/ DeleteOld(c) \/ InsertNew(c)
        PROVE  TurnInv'
    BY <2>2, TurnCreatesRow, TurnDeleted, TurnReads, TurnWrites
  <2>3. ASSUME NEW p \in Payloads, PayloadStep(p) PROVE TurnInv'
    <3>1. UNCHANGED <<wsRows, doomed, change, kept, expected, ends, wsOverlapped>>
      BY <2>3 DEF PayloadStep, PayloadHits, PayloadMisses, PayloadFindsNothing, PayloadFills, wsPast
    <3> QED BY <3>1, TurnFrame DEF Lasting
  <2>4. ASSUME Tick PROVE TurnInv'
    <3>1. UNCHANGED <<wsRows, doomed, change, kept, expected, ends, wsOverlapped>>
      BY <2>4 DEF Tick, wsPast
    <3> QED BY <3>1, TurnFrame DEF Lasting
  <2>5. ASSUME WsMutate PROVE TurnInv'
    <3>1. UNCHANGED <<change, kept, expected, ends, wsOverlapped>> /\ WsTyped
      BY <2>5 DEF WsMutate, wsPast, RowsInv
    <3>2. Lasting' = Lasting /\ wsRows' \subseteq wsRows
      BY <2>5, <3>1, MutateIs
    <3> QED BY <3>1, <3>2, TurnFrame
  <2> QED BY <1>2, <2>1, <2>2, <2>3, <2>4, <2>5, WsSteps
<1> QED BY <1>1, <1>2

\* A workspace that was there at first had the settings it is created with.
LEMMA TurnInit ==
  ASSUME WsInit
  PROVE  TurnInv
<1>1. \A c \in WsCalls : change[c].at = "idle"
  BY FirstRowIs
<1>2. \A c \in WsCalls : ChangeTurn(c) /\ CreateTurn(c) /\ DeleteTurn(c)
  BY <1>1 DEF ChangeTurn, CreateTurn, DeleteTurn, Holding, Pending
<1>3. expected = DefaultSettings /\ Lasting = wsRows /\ kept = IF wsRows # {} THEN Everything ELSE {}
  BY DEF WsInit, Lasting
<1>4. ASSUME wsRows # {} PROVE Latest(wsRows) = FirstRow
  <2>1. wsRows = {FirstRow}
    BY <1>4, FirstRowIs
  <2> QED BY <2>1 DEF Latest
<1>5. Lasting # {} => Fits(Latest(Lasting).settings, expected, Removed)
  BY <1>3, <1>4, FirstRowIs DEF Fits
<1> QED BY <1>2, <1>3, <1>5 DEF TurnInv, Settled, AllThere

\* Calls that change a workspace do what they say, and payloads are judged by the outcome: whatever
\* the calls, their failures, their overlaps and the time ClickHouse takes, the workspace does not
\* vanish (WorkspacesService.update), what calls one after the other meant is what there is
\* (create, delete, update; FiltersService; SmtpService), and a payload is judged by settings that
\* were in force CACHE_TTL_MS ago or later, and by a change that was announced before it came
\* (SessionPayloadHandler.getWorkspace).
THEOREM WorkspaceIsTrue == WsSpec => []SettingsTakeEffect
<1>1. WsInit => RowsInv /\ SeenInv /\ AloneInv /\ TurnInv
  BY RowsInit, SeenInit, AloneInit, TurnInit
<1>2. RowsInv /\ SeenInv /\ AloneInv /\ TurnInv /\ [WsNext]_wsVars => (RowsInv /\ SeenInv /\ AloneInv /\ TurnInv)'
  <2>1. RowsInv => WsTyped
    BY DEF RowsInv
  <2> QED BY <2>1, RowsNext, SeenNext, AloneNext, TurnNext
<1>3. RowsInv /\ SeenInv /\ AloneInv /\ TurnInv => SettingsTakeEffect
  <2> SUFFICES ASSUME RowsInv, SeenInv, AloneInv, TurnInv PROVE SettingsTakeEffect
    OBVIOUS
  <2>1. WorkspaceStays
    BY DEF RowsInv, Staying
  <2>2. TurnsAreKept
    BY DEF TurnsAreKept, TurnInv, Settled, Fits, Removed, SmtpIf
  <2>3. AllOrNothing
    BY DEF AllOrNothing, TurnInv, Settled, AllThere
  <2>4. JudgedInTime
    BY SeenJudges
  <2>5. ChangeIsSeen
    BY DEF ChangeIsSeen, AloneInv, Timely
  <2> QED BY <2>1, <2>2, <2>3, <2>4, <2>5 DEF SettingsTakeEffect
<1> QED BY <1>1, <1>2, <1>3, PTL DEF WsSpec

-----------------------------------------------------------------------------
(* Rules *)

\* What the filters of a workspace are.
FilterList == Seq(Filter)

\* A filter is made of what the DTOs let pass.
LEMMA FilterIs ==
  ASSUME FiltersAreValid, NEW fs \in FilterList
  PROVE  /\ Len(fs) \in Nat /\ DOMAIN fs = 1..Len(fs)
         /\ \A k \in DOMAIN fs :
              /\ fs[k].priority \in Nat /\ fs[k].enabled \in BOOLEAN
              /\ Len(fs[k].conditions) \in Nat /\ DOMAIN fs[k].conditions = 1..Len(fs[k].conditions)
              /\ \A j \in DOMAIN fs[k].conditions :
                   fs[k].conditions[j] \in [field : {Standard, Boolean}, operator : Operators, value : STRING]
              /\ Len(fs[k].operations) \in Nat /\ DOMAIN fs[k].operations = 1..Len(fs[k].operations)
              /\ \A j \in DOMAIN fs[k].operations :
                   fs[k].operations[j] \in [dimension : Dimensions, action : Actions, value : STRING \ {Null, "1"}]
<1>1. fs \in Seq(Filter) /\ Len(fs) \in Nat /\ DOMAIN fs = 1..Len(fs) /\ \A k \in DOMAIN fs : fs[k] \in Filter
  BY DEF FilterList
<1>2. ASSUME NEW k \in DOMAIN fs
      PROVE  /\ fs[k].conditions \in Seq([field : {Standard, Boolean}, operator : Operators, value : STRING])
             /\ fs[k].operations \in Seq([dimension : Dimensions, action : Actions, value : STRING \ {Null, "1"}])
             /\ fs[k].priority \in Nat /\ fs[k].enabled \in BOOLEAN
  <2>1. fs[k].conditions \in Conditions /\ fs[k].operations \in Operations
        /\ fs[k].priority \in 0..MaxPriority /\ fs[k].enabled \in BOOLEAN
    BY <1>1 DEF Filter
  <2>2. MaxPriority \in Nat
    BY DEF FiltersAreValid
  <2>3. fs[k].priority \in Nat
    BY <2>1, <2>2
  <2>4. fs[k].conditions \in Seq([field : {Standard, Boolean}, operator : Operators, value : STRING])
    BY <2>1, Zenon DEF FiltersAreValid
  <2>5. fs[k].operations \in Seq([dimension : Dimensions, action : Actions, value : STRING \ {Null, "1"}])
    BY <2>1, Zenon DEF FiltersAreValid
  <2> QED BY <2>1, <2>3, <2>4, <2>5
<1> DEFINE C == [field : {Standard, Boolean}, operator : Operators, value : STRING]
           O == [dimension : Dimensions, action : Actions, value : STRING \ {Null, "1"}]
<1>3. \A k \in DOMAIN fs : fs[k].conditions \in Seq(C) /\ fs[k].operations \in Seq(O)
  BY <1>2
<1> HIDE DEF C, O
<1>4. ASSUME NEW k \in DOMAIN fs
      PROVE  /\ Len(fs[k].conditions) \in Nat /\ DOMAIN fs[k].conditions = 1..Len(fs[k].conditions)
             /\ \A j \in DOMAIN fs[k].conditions : fs[k].conditions[j] \in C
             /\ Len(fs[k].operations) \in Nat /\ DOMAIN fs[k].operations = 1..Len(fs[k].operations)
             /\ \A j \in DOMAIN fs[k].operations : fs[k].operations[j] \in O
  BY <1>3
<1> QED BY <1>1, <1>2, <1>4 DEF C, O

\* Operations are told by two positions; there are finitely many.
LEMMA OpsOnIs ==
  ASSUME FiltersAreValid, NEW fs \in FilterList, NEW d
  PROVE  /\ \A o \in OpsOn(fs, d) :
              /\ o = <<o[1], o[2]>> /\ o[1] \in DOMAIN fs /\ o[1] \in Nat /\ o[2] \in Nat
              /\ fs[o[1]].enabled /\ fs[o[1]].priority \in Nat
              /\ OpOf(fs, o) \in [dimension : Dimensions, action : Actions, value : STRING \ {Null, "1"}]
              /\ OpOf(fs, o).dimension = d
         /\ IsFiniteSet(OpsOn(fs, d))
<1> DEFINE at(k) == {k} \X DOMAIN fs[k].operations
           Sets == {at(k) : k \in DOMAIN fs}
<1>1. DOMAIN fs = 1..Len(fs) /\ Len(fs) \in Nat
  BY FilterIs
<1>2. ASSUME NEW o \in OpsOn(fs, d)
      PROVE  /\ o = <<o[1], o[2]>> /\ o[1] \in DOMAIN fs /\ o[2] \in DOMAIN fs[o[1]].operations
             /\ fs[o[1]].enabled /\ fs[o[1]].operations[o[2]].dimension = d
  <2>1. o \in UNION Sets /\ fs[o[1]].enabled /\ fs[o[1]].operations[o[2]].dimension = d
    BY DEF OpsOn
  <2>2. PICK k \in DOMAIN fs : o \in at(k)
    BY <2>1
  <2> QED BY <2>1, <2>2
<1>3. \A k \in DOMAIN fs : /\ DOMAIN fs[k].operations = 1..Len(fs[k].operations)
                           /\ Len(fs[k].operations) \in Nat
  BY FilterIs
<1>4. IsFiniteSet(UNION Sets)
  <2>1. IsFiniteSet(Sets)
    <3>1. IsFiniteSet(DOMAIN fs)
      BY <1>1, FS_Interval
    <3>2. [k \in DOMAIN fs |-> at(k)] \in Surjection(DOMAIN fs, Sets)
      BY DEF Surjection
    <3> HIDE DEF Sets, at
    <3> QED BY <3>1, <3>2, FS_Surjection
  <2>2. ASSUME NEW k \in DOMAIN fs PROVE IsFiniteSet(at(k))
    <3>1. IsFiniteSet({k}) /\ IsFiniteSet(DOMAIN fs[k].operations)
      <4>1. IsFiniteSet(1..Len(fs[k].operations))
        BY <1>3, FS_Interval
      <4> QED BY <1>3, <4>1, FS_Singleton
    <3> DEFINE A == {k}
               B == DOMAIN fs[k].operations
    <3>2. IsFiniteSet(A \X B)
      <4> HIDE DEF A, B
      <4> QED BY <3>1, FS_Product DEF A, B
    <3> QED BY <3>2
  <2>3. \A T \in Sets : IsFiniteSet(T)
    <3> HIDE DEF at
    <3> QED BY <2>2
  <2> HIDE DEF Sets
  <2> QED BY <2>1, <2>3, FS_UNION
<1>5. OpsOn(fs, d) \subseteq UNION Sets
  BY DEF OpsOn
<1>6. IsFiniteSet(OpsOn(fs, d))
  <2> HIDE DEF Sets
  <2> QED BY <1>4, <1>5, FS_Subset
<1>7. ASSUME NEW o \in OpsOn(fs, d)
      PROVE  /\ o[1] \in Nat /\ o[2] \in Nat /\ fs[o[1]].priority \in Nat
             /\ OpOf(fs, o) \in [dimension : Dimensions, action : Actions, value : STRING \ {Null, "1"}]
             /\ OpOf(fs, o).dimension = d
  BY <1>1, <1>2, <1>3, FilterIs DEF OpOf
<1> QED BY <1>2, <1>6, <1>7

\* The operations are in one order.
LEMMA PrecedesOrders ==
  ASSUME FiltersAreValid, NEW fs \in FilterList, NEW d
  PROVE  /\ \A o \in OpsOn(fs, d) : ~Precedes(fs, o, o)
         /\ \A o, p, q \in OpsOn(fs, d) : Precedes(fs, o, p) /\ Precedes(fs, p, q) => Precedes(fs, o, q)
         /\ \A o, p \in OpsOn(fs, d) : o = p \/ Precedes(fs, o, p) \/ Precedes(fs, p, o)
<1>1. \A o \in OpsOn(fs, d) : o = <<o[1], o[2]>> /\ o[1] \in Nat /\ o[2] \in Nat /\ fs[o[1]].priority \in Nat
  BY OpsOnIs
<1>2. \A o \in OpsOn(fs, d) : ~Precedes(fs, o, o)
  BY <1>1 DEF Precedes
<1>3. ASSUME NEW o \in OpsOn(fs, d), NEW p \in OpsOn(fs, d), NEW q \in OpsOn(fs, d), Precedes(fs, o, p), Precedes(fs, p, q)
      PROVE  Precedes(fs, o, q)
  BY <1>1, <1>3 DEF Precedes
<1>4. ASSUME NEW o \in OpsOn(fs, d), NEW p \in OpsOn(fs, d), o # p PROVE Precedes(fs, o, p) \/ Precedes(fs, p, o)
  <2>1. o[1] # p[1] \/ o[2] # p[2]
    BY <1>1, <1>4
  <2> QED BY <1>1, <2>1 DEF Precedes
<1> QED BY <1>2, <1>3, <1>4

\* Among some operations there are a first and a last one.
LEMMA FirstAndLast ==
  ASSUME FiltersAreValid, NEW fs \in FilterList, NEW d, NEW S \in SUBSET OpsOn(fs, d), S # {}
  PROVE  /\ FirstOp(fs, S) \in S /\ \A p \in S : p = FirstOp(fs, S) \/ Precedes(fs, FirstOp(fs, S), p)
         /\ LastOp(fs, S) \in S /\ \A p \in S : p = LastOp(fs, S) \/ Precedes(fs, p, LastOp(fs, S))
<1>1. IsFiniteSet(S)
  BY OpsOnIs, FS_Subset
<1>2. \E o \in S : \A p \in S : p = o \/ Precedes(fs, o, p)
  <2> DEFINE R == {x \in S \X S : Precedes(fs, x[1], x[2])}
  <2>1. \A o, p \in S : <<o, p>> \in R <=> Precedes(fs, o, p)
    OBVIOUS
  <2> HIDE DEF R
  <2>2. PICK o \in S : \A p \in S : <<p, o>> \notin R
    <3>1. \A x \in S : <<x, x>> \notin R
      BY <2>1, PrecedesOrders
    <3>2. \A x, y, z \in S : <<x, y>> \in R /\ <<y, z>> \in R => <<x, z>> \in R
      BY <2>1, PrecedesOrders
    <3> QED BY <1>1, <3>1, <3>2, LeastExists
  <2> QED BY <2>1, <2>2, PrecedesOrders
<1>3. \E o \in S : \A p \in S : p = o \/ Precedes(fs, p, o)
  <2> DEFINE R == {x \in S \X S : Precedes(fs, x[2], x[1])}
  <2>1. \A o, p \in S : <<o, p>> \in R <=> Precedes(fs, p, o)
    OBVIOUS
  <2> HIDE DEF R
  <2>2. PICK o \in S : \A p \in S : <<p, o>> \notin R
    <3>1. \A x \in S : <<x, x>> \notin R
      BY <2>1, PrecedesOrders
    <3>2. \A x, y, z \in S : <<x, y>> \in R /\ <<y, z>> \in R => <<x, z>> \in R
      BY <2>1, PrecedesOrders
    <3> QED BY <1>1, <3>1, <3>2, LeastExists
  <2> QED BY <2>1, <2>2, PrecedesOrders
<1> QED BY <1>2, <1>3 DEF FirstOp, LastOp

\* The last of some is the last of fewer, if it is among them.
LEMMA LastOfFewer ==
  ASSUME FiltersAreValid, NEW fs \in FilterList, NEW d, NEW S \in SUBSET OpsOn(fs, d), NEW T \in SUBSET S,
         LastOp(fs, S) \in T
  PROVE  LastOp(fs, T) = LastOp(fs, S)
<1>1. S # {} /\ T # {} /\ T \in SUBSET OpsOn(fs, d)
  OBVIOUS
<1>2. \A p \in S : p = LastOp(fs, S) \/ Precedes(fs, p, LastOp(fs, S))
  BY <1>1, FirstAndLast
<1>3. LastOp(fs, T) \in T /\ \A p \in T : p = LastOp(fs, T) \/ Precedes(fs, p, LastOp(fs, T))
  BY <1>1, FirstAndLast
<1> DEFINE a == LastOp(fs, S)
           b == LastOp(fs, T)
<1>4. a \in OpsOn(fs, d) /\ b \in OpsOn(fs, d) /\ (b = a \/ Precedes(fs, b, a)) /\ (a = b \/ Precedes(fs, a, b))
  BY <1>1, <1>2, <1>3
<1> HIDE DEF a, b
<1>5. a = b
  BY <1>4, PrecedesOrders
<1> QED BY <1>5 DEF a, b

\* There is a least set among sets of operations.
LEMMA LeastSet ==
  ASSUME NEW O, IsFiniteSet(O), NEW F \in SUBSET SUBSET O, F # {}
  PROVE  \E T \in F : \A R \in F : ~(R \subseteq T /\ R # T)
<1>1. F \subseteq FiniteSubsetsOf(O)
  <2>1. \A T \in SUBSET O : IsFiniteSet(T)
    BY FS_Subset
  <2> QED BY <2>1 DEF FiniteSubsetsOf
<1>2. PICK T \in F : \A R \in F : ~(<<R, T>> \in StrictSubsetOrdering(O))
  BY <1>1, FS_StrictSubsetOrderingWellFounded, WFMin
<1>3. \A R \in F : R \subseteq T /\ R # T => <<R, T>> \in StrictSubsetOrdering(O)
  BY DEF StrictSubsetOrdering
<1>4. \A R \in F : ~(R \subseteq T /\ R # T)
  BY <1>2, <1>3
<1> QED BY <1>4

\* What Executed computes, as a step.
Stage(fs, sofar, T) ==
  IF T = {} THEN Unset
  ELSE Execute(sofar[T \ {LastOp(fs, T)}], OpOf(fs, LastOp(fs, T)), fs[LastOp(fs, T)[1]].priority)

\* There is a function of the sets of operations that Executed may choose.
LEMMA StagesExist ==
  ASSUME FiltersAreValid, NEW fs \in FilterList, NEW d, NEW S \in SUBSET OpsOn(fs, d)
  PROVE  \E g : g = [T \in SUBSET S |-> Stage(fs, g, T)]
<1> DEFINE Has(U) == \E g : g = [T \in SUBSET U |-> Stage(fs, g, T)]
           F == {U \in SUBSET S : ~Has(U)}
<1> SUFFICES ASSUME F # {} PROVE FALSE
  OBVIOUS
<1>1. IsFiniteSet(S)
  BY OpsOnIs, FS_Subset
<1>2. PICK U \in F : \A R \in F : ~(R \subseteq U /\ R # U)
  <2> HIDE DEF Has
  <2>1. F \in SUBSET SUBSET S
    OBVIOUS
  <2> HIDE DEF F
  <2> QED BY <1>1, <2>1, LeastSet
<1>3. U \in SUBSET S /\ ~Has(U)
  <2> HIDE DEF Has
  <2> QED OBVIOUS
<1>4. CASE U = {}
  <2>1. [T \in SUBSET {} |-> Unset] = [T \in SUBSET {} |-> Stage(fs, [V \in SUBSET {} |-> Unset], T)]
    BY DEF Stage
  <2> QED BY <1>3, <1>4, <2>1
<1>5. CASE U # {}
  <2> DEFINE o == LastOp(fs, U)
             R == U \ {o}
  <2>1. o \in U /\ U \in SUBSET OpsOn(fs, d)
    BY <1>3, <1>5, FirstAndLast
  <2>2. Has(R)
    <3>1. R \in SUBSET S /\ R \subseteq U /\ R # U
      BY <1>3, <2>1
    <3> HIDE DEF Has, R
    <3> QED BY <1>2, <3>1
  <2>3. PICK h : h = [T \in SUBSET R |-> Stage(fs, h, T)]
    BY <2>2
  <2> DEFINE g == [T \in SUBSET U |-> IF o \in T THEN Stage(fs, h, T) ELSE h[T]]
  <2>4. ASSUME NEW T \in SUBSET U PROVE g[T] = Stage(fs, g, T)
    <3>1. CASE o \in T
      <4>1. LastOp(fs, T) = o /\ T # {}
        BY <2>1, <3>1, LastOfFewer
      <4>2. T \ {o} \in SUBSET U /\ o \notin T \ {o}
        OBVIOUS
      <4>3. g[T \ {o}] = h[T \ {o}]
        BY <4>2
      <4>4. g[T] = Stage(fs, h, T)
        BY <3>1
      <4> HIDE DEF g, o
      <4> QED BY <4>1, <4>3, <4>4 DEF Stage
    <3>2. CASE o \notin T
      <4>1. T \in SUBSET R
        BY <3>2
      <4>2. g[T] = Stage(fs, h, T)
        <5>1. g[T] = h[T]
          BY <3>2
        <5> HIDE DEF g, o, R
        <5> QED BY <2>3, <4>1, <5>1
      <4>3. CASE T = {}
        BY <4>2, <4>3 DEF Stage
      <4>4. CASE T # {}
        <5>1. T \ {LastOp(fs, T)} \in SUBSET U /\ o \notin T \ {LastOp(fs, T)}
          BY <3>2
        <5>2. g[T \ {LastOp(fs, T)}] = h[T \ {LastOp(fs, T)}]
          BY <5>1
        <5> HIDE DEF g, o, R
        <5> QED BY <4>2, <5>2 DEF Stage
      <4> QED BY <4>3, <4>4
    <3> QED BY <3>1, <3>2
  <2>5. g = [T \in SUBSET U |-> Stage(fs, g, T)]
    <3>1. g = [T \in SUBSET U |-> g[T]]
      OBVIOUS
    <3> HIDE DEF g
    <3> QED BY <2>4, <3>1
  <2>6. Has(U)
    <3> HIDE DEF g
    <3> QED BY <2>5
  <2> HIDE DEF Has
  <2> QED BY <1>3, <2>6
<1> QED BY <1>4, <1>5

\* Where no two operations meet in one priority and none is a default, the first one decides.
LEMMA FirstDecides ==
  ASSUME FiltersAreValid, NEW fs \in FilterList, NEW d, NEW S \in SUBSET OpsOn(fs, d),
         \A o \in S : OpOf(fs, o).action # "set_default_value",
         \A o, p \in S : p # o => fs[p[1]].priority # fs[o[1]].priority
  PROVE  Executed(fs, S) = IF S = {} THEN Unset
                           ELSE LET o == FirstOp(fs, S)
                                IN  [set |-> TRUE, priority |-> fs[o[1]].priority,
                                     value |-> IF OpOf(fs, o).action = "unset_value" THEN Null ELSE OpOf(fs, o).value]
<1> DEFINE By(o) == [set |-> TRUE, priority |-> fs[o[1]].priority,
                     value |-> IF OpOf(fs, o).action = "unset_value" THEN Null ELSE OpOf(fs, o).value]
           g == CHOOSE g : g = [T \in SUBSET S |-> Stage(fs, g, T)]
<1>1. g = [T \in SUBSET S |-> Stage(fs, g, T)]
  BY StagesExist
<1>2. Executed(fs, S) = g[S]
  BY DEF Executed, Stage
<1> HIDE DEF g
<1>3. \A T \in SUBSET S : g[T] = Stage(fs, g, T)
  BY <1>1
<1> DEFINE Right(T) == g[T] = IF T = {} THEN Unset ELSE By(FirstOp(fs, T))
           F == {T \in SUBSET S : ~Right(T)}
<1>4. ASSUME NEW T \in SUBSET S, \A R \in SUBSET T : R # T => Right(R) PROVE Right(T)
  <2>1. CASE T = {}
    BY <1>3, <2>1 DEF Stage
  <2>2. CASE T # {}
    <3> DEFINE o == LastOp(fs, T)
               f == FirstOp(fs, T)
               R == T \ {o}
    <3>1. /\ o \in T /\ f \in T /\ T \in SUBSET OpsOn(fs, d)
          /\ \A p \in T : p = f \/ Precedes(fs, f, p)
      BY <2>2, FirstAndLast
    <3>2. g[T] = Execute(g[R], OpOf(fs, o), fs[o[1]].priority)
      BY <1>3, <2>2 DEF Stage
    <3>3. fs[o[1]].priority \in Nat /\ fs[f[1]].priority \in Nat
      BY <3>1, OpsOnIs
    <3>4. OpOf(fs, o).action # "set_default_value"
      BY <3>1
    <3>5. Right(R)
      <4>1. R \in SUBSET T /\ R # T
        BY <3>1
      <4> HIDE DEF Right, R
      <4> QED BY <1>4, <4>1
    <3>6. CASE R = {}
      <4>1. f = o
        BY <3>1, <3>6
      <4>2. g[R] = Unset
        BY <3>5, <3>6
      <4>3. Execute(Unset, OpOf(fs, o), fs[o[1]].priority) = By(o)
        BY <3>3, <3>4 DEF Execute, Unset
      <4>4. g[T] = By(f)
        <5> HIDE DEF f, o, R, By
        <5> QED BY <3>2, <4>1, <4>2, <4>3
      <4> HIDE DEF f, By
      <4> QED BY <2>2, <4>4 DEF f
    <3>7. CASE R # {}
      <4>1. FirstOp(fs, R) = f /\ o # f
        <5>1. FirstOp(fs, R) \in R /\ \A p \in R : p = FirstOp(fs, R) \/ Precedes(fs, FirstOp(fs, R), p)
          <6>1. R \in SUBSET OpsOn(fs, d)
            BY <3>1
          <6> HIDE DEF R
          <6> QED BY <3>7, <6>1, FirstAndLast
        <5>2. \A p \in T : p = o \/ Precedes(fs, p, o)
          BY <2>2, <3>1, FirstAndLast
        <5> DEFINE e == FirstOp(fs, R)
        <5>3. e \in T /\ e # o /\ e \in OpsOn(fs, d) /\ f \in OpsOn(fs, d) /\ o \in OpsOn(fs, d)
          BY <3>1, <5>1
        <5>4. Precedes(fs, e, o) /\ (e = f \/ Precedes(fs, f, e)) /\ (f # o => e = f \/ Precedes(fs, e, f))
          BY <3>1, <5>1, <5>2, <5>3
        <5> HIDE DEF e, f, o, R
        <5>5. f # o /\ e = f
          BY <5>3, <5>4, PrecedesOrders
        <5> QED BY <5>5 DEF e
      <4>2. fs[o[1]].priority < fs[f[1]].priority
        <5>1. Precedes(fs, f, o) /\ fs[o[1]].priority # fs[f[1]].priority
          BY <3>1, <4>1
        <5> HIDE DEF f, o
        <5> QED BY <3>3, <5>1 DEF Precedes
      <4>3. g[R] = By(f)
        BY <3>5, <3>7, <4>1
      <4>4. Execute(By(f), OpOf(fs, o), fs[o[1]].priority) = By(f)
        <5> DEFINE x == By(f)
        <5>1. x.priority = fs[f[1]].priority
          OBVIOUS
        <5> HIDE DEF x, f, o
        <5> QED BY <3>4, <4>2, <5>1 DEF Execute, x
      <4>5. g[T] = By(f)
        <5> HIDE DEF f, o, R, By
        <5> QED BY <3>2, <4>3, <4>4
      <4> HIDE DEF f, By
      <4> QED BY <2>2, <4>5 DEF f
    <3> HIDE DEF Right, R
    <3> QED BY <3>6, <3>7
  <2> HIDE DEF Right
  <2> QED BY <2>1, <2>2
<1>5. F = {}
  <2> SUFFICES ASSUME F # {} PROVE FALSE
    OBVIOUS
  <2>1. IsFiniteSet(S)
    BY OpsOnIs, FS_Subset
  <2>2. PICK T \in F : \A R \in F : ~(R \subseteq T /\ R # T)
    <3> HIDE DEF Right
    <3>1. F \in SUBSET SUBSET S
      OBVIOUS
    <3> HIDE DEF F
    <3> QED BY <2>1, <3>1, LeastSet
  <2> HIDE DEF Right
  <2>3. T \in SUBSET S /\ ~Right(T) /\ \A R \in SUBSET T : R # T => Right(R)
    BY <2>2
  <2> QED BY <1>4, <2>3
<1>6. Right(S)
  <2> HIDE DEF Right
  <2> QED BY <1>5
<1> QED BY <1>2, <1>6

\* A condition means the same to both readers, for a row with the field that the event has.
LEMMA ConditionsAgree ==
  ASSUME NEW c \in [field : {Standard, Boolean}, operator : Operators, value : STRING], given \in Event, NEW r,
         c.field = Boolean => c.operator \in {"equals", "not_equals"} /\ c.value \in {"true", "false"},
         r[c.field] = AsGiven(c.field)
  PROVE  EvaluateCondition(c, given) <=> CompiledCondition(c, r)
<1>1. given.utm_source \in {Null, "a", "ab"} /\ given.is_direct \in BOOLEAN
  BY DEF Event
<1>2. c.operator \in Operators /\ c.field \in {Standard, Boolean}
  OBVIOUS
<1>3. CASE c.field = Boolean
  <2>1. r[Boolean] = given.is_direct
    BY <1>3 DEF AsGiven, Boolean
  <2> QED BY <1>1, <1>3, <2>1 DEF EvaluateCondition, CompiledCondition, FieldValue, Boolean, Null
<1>4. CASE c.field = Standard
  <2>1. r[Standard] = Stored(given.utm_source)
    BY <1>4 DEF AsGiven, Boolean, Standard
  <2>2. CASE given.utm_source = Null
    <3>1. r[Standard] = ""
      BY <2>1, <2>2 DEF Stored
    <3> QED BY <1>2, <1>4, <2>2, <3>1 DEF EvaluateCondition, CompiledCondition, FieldValue, Operators, Standard,
               Boolean
  <2>3. CASE given.utm_source # Null
    <3>1. r[Standard] = given.utm_source /\ given.utm_source # ""
      BY <1>1, <2>1, <2>3 DEF Stored
    <3> QED BY <1>2, <1>4, <2>3, <3>1 DEF EvaluateCondition, CompiledCondition, FieldValue, Operators, Standard,
               Boolean
  <2> QED BY <2>2, <2>3
<1> QED BY <1>2, <1>3, <1>4

\* A rewritten row has what ingestion gives, where the readers are agreed and the row has what the
\* event said in the fields that count.
LEMMA RewritingIsIngesting ==
  ASSUME FiltersAreValid, rules \in FilterList, given \in Event, NEW r, NEW d \in Dimensions,
         OpsOn(rules, d) # {}, Agreed(d),
         \A field \in (Reads \cup {d}) \ {Custom} : r[field] = AsGiven(field)
  PROVE  Case(rules, d, r) = Ingested(rules, given)[d]
<1> DEFINE B == OpsOn(rules, d)
           M == {o \in B : EvaluateConditions(rules[o[1]].conditions, given)}
           taken == {o \in B : IsTaken(rules[o[1]].conditions, OpOf(rules, o), r)}
<1>1. ASSUME NEW o \in B
      PROVE  EvaluateConditions(rules[o[1]].conditions, given) <=> IsTaken(rules[o[1]].conditions, OpOf(rules, o), r)
  <2> DEFINE cs == rules[o[1]].conditions
  <2>1. o[1] \in DOMAIN rules /\ rules[o[1]].enabled /\ OpOf(rules, o).action # "set_default_value"
    BY OpsOnIs DEF Agreed
  <2>2. ASSUME NEW k \in DOMAIN cs PROVE EvaluateCondition(cs[k], given) <=> CompiledCondition(cs[k], r)
    <3>1. cs[k] \in [field : {Standard, Boolean}, operator : Operators, value : STRING]
      BY <2>1, FilterIs
    <3>2. cs[k] \in ToSet(cs)
      BY DEF ToSet
    <3>3. cs[k].field = Boolean => cs[k].operator \in {"equals", "not_equals"} /\ cs[k].value \in {"true", "false"}
      BY <3>2 DEF Agreed
    <3>4. cs[k].field \in Reads
      BY <2>1, <3>2 DEF Reads
    <3>5. cs[k].field # Custom
      BY <3>1 DEF Custom, Standard, Boolean
    <3>6. r[cs[k].field] = AsGiven(cs[k].field)
      BY <3>4, <3>5
    <3> HIDE DEF cs
    <3> QED BY <3>1, <3>3, <3>6, ConditionsAgree
  <2>3. EvaluateConditions(cs, given) <=> CompiledConditions(cs, r)
    <3> HIDE DEF cs
    <3> QED BY <2>2 DEF EvaluateConditions, CompiledConditions
  <2> QED BY <2>1, <2>3 DEF IsTaken
<1>2. taken = M
  BY <1>1
<1>3. M \in SUBSET B
  OBVIOUS
<1> DEFINE f == FirstOp(rules, M)
           result == Executed(rules, M)
<1>4. result = IF M = {} THEN Unset
               ELSE [set |-> TRUE, priority |-> rules[f[1]].priority,
                     value |-> IF OpOf(rules, f).action = "unset_value" THEN Null ELSE OpOf(rules, f).value]
  <2>1. \A o \in M : OpOf(rules, o).action # "set_default_value"
    BY DEF Agreed
  <2>2. \A o, p \in M : p # o => rules[p[1]].priority # rules[o[1]].priority
    BY DEF Agreed
  <2> HIDE DEF M
  <2> QED BY <1>3, <2>1, <2>2, FirstDecides
<1>5. EvaluateFilters(rules, given, d) = result
  BY DEF EvaluateFilters
<1>6. Case(rules, d, r) = IF M # {} THEN Then(OpOf(rules, f)) ELSE IF d = Custom THEN "" ELSE r[d]
  <2>1. Case(rules, d, r) = IF taken # {} THEN ThenOf(rules, taken) ELSE IF d = Custom /\ B # {} THEN "" ELSE r[d]
    BY DEF Case
  <2> HIDE DEF M, taken
  <2> QED BY <1>2, <2>1 DEF ThenOf
<1>7. given.utm_source \in {Null, "a", "ab"} /\ given.is_direct \in BOOLEAN
  BY DEF Event
<1>8. d # Custom => r[d] = AsGiven(d)
  OBVIOUS
<1>9. M # {} => /\ OpOf(rules, f) \in [dimension : Dimensions, action : Actions, value : STRING \ {Null, "1"}]
                /\ OpOf(rules, f).dimension = d
  <2>1. M # {} => f \in B
    <3> HIDE DEF M
    <3> QED BY <1>3, FirstAndLast
  <2> HIDE DEF M, f
  <2> QED BY <2>1, OpsOnIs
<1> HIDE DEF M, B, taken, f, result
<1>10. CASE d = Custom
  <2>1. Ingested(rules, given)[d] = Stored(result.value)
    BY <1>5, <1>10 DEF Ingested, Custom
  <2> QED BY <1>4, <1>6, <1>9, <1>10, <2>1 DEF Stored, Then, Unset, Custom, Boolean
<1>11. CASE d = Standard
  <2>1. Ingested(rules, given)[d] = IF result.set THEN Stored(result.value) ELSE Stored(given.utm_source)
    BY <1>5, <1>11 DEF Ingested, Standard
  <2>2. r[d] = Stored(given.utm_source)
    BY <1>8, <1>11 DEF AsGiven, Custom, Standard, Boolean
  <2>3. CASE M = {}
    BY <1>4, <1>6, <1>11, <2>1, <2>2, <2>3 DEF Unset, Custom, Standard
  <2>4. CASE M # {}
    BY <1>4, <1>6, <1>9, <1>11, <2>1, <2>4 DEF Stored, Then, Standard, Boolean
  <2> QED BY <2>3, <2>4
<1>12. CASE d = Boolean
  <2>1. Ingested(rules, given)[d] = IF result.set THEN result.value = "true" ELSE given.is_direct
    BY <1>5, <1>12 DEF Ingested, Boolean
  <2>2. r[d] = given.is_direct
    BY <1>8, <1>12 DEF AsGiven, Custom, Boolean
  <2>3. CASE M = {}
    BY <1>4, <1>6, <1>12, <2>1, <2>2, <2>3 DEF Unset, Custom, Boolean
  <2>4. CASE M # {}
    <3>1. result.set /\ result.value = IF OpOf(rules, f).action = "unset_value" THEN Null ELSE OpOf(rules, f).value
      BY <1>4, <2>4
    <3>2. (result.value = "true") <=> Then(OpOf(rules, f))
      BY <1>9, <1>12, <2>4, <3>1 DEF Then, Null
    <3>3. Then(OpOf(rules, f)) \in BOOLEAN
      BY <1>9, <1>12, <2>4 DEF Then
    <3> QED BY <1>6, <2>1, <2>4, <3>1, <3>2, <3>3
  <2> QED BY <2>3, <2>4
<1> QED BY <1>10, <1>11, <1>12 DEF Dimensions

\* Rewriting a row that was rewritten changes nothing, where no filter reads what one writes and no
\* default has company.
LEMMA RewritingTwice ==
  ASSUME FiltersAreValid, rules \in FilterList, NEW r,
         \A field \in Reads : OpsOn(rules, field) = {},
         \A d \in Dimensions : \A o, p \in OpsOn(rules, d) : OpOf(rules, o).action = "set_default_value" => p = o
  PROVE  Rewritten(rules, Rewritten(rules, r)) = Rewritten(rules, r)
<1> DEFINE s == Rewritten(rules, r)
<1>1. \A d \in Dimensions : s[d] = Case(rules, d, r)
  BY DEF Rewritten
<1> HIDE DEF s
<1>2. ASSUME NEW d \in Dimensions, OpsOn(rules, d) = {} PROVE s[d] = r[d]
  <2>1. Case(rules, d, r) = r[d]
    BY <1>2 DEF Case
  <2> QED BY <1>1, <2>1
<1>3. ASSUME NEW d \in Dimensions, NEW o \in OpsOn(rules, d)
      PROVE  CompiledConditions(rules[o[1]].conditions, s) <=> CompiledConditions(rules[o[1]].conditions, r)
  <2> DEFINE cs == rules[o[1]].conditions
  <2>1. o[1] \in DOMAIN rules /\ rules[o[1]].enabled
    BY OpsOnIs
  <2>2. ASSUME NEW k \in DOMAIN cs PROVE CompiledCondition(cs[k], s) <=> CompiledCondition(cs[k], r)
    <3>1. cs[k] \in [field : {Standard, Boolean}, operator : Operators, value : STRING]
      BY <2>1, FilterIs
    <3>2. cs[k].field \in Reads
      BY <2>1 DEF Reads, ToSet
    <3>3. s[cs[k].field] = r[cs[k].field]
      BY <1>2, <3>1, <3>2 DEF Dimensions
    <3> HIDE DEF cs
    <3> QED BY <3>3 DEF CompiledCondition
  <2> HIDE DEF cs
  <2>3. CompiledConditions(cs, s) <=> CompiledConditions(cs, r)
    BY <2>2 DEF CompiledConditions
  <2> QED BY <2>3 DEF cs
<1>4. ASSUME NEW d \in Dimensions PROVE Case(rules, d, s) = s[d]
  <2> DEFINE B == OpsOn(rules, d)
             T(x) == {o \in B : IsTaken(rules[o[1]].conditions, OpOf(rules, o), x)}
             Else(x) == IF d = Custom /\ B # {} THEN "" ELSE x[d]
  <2>1. /\ Case(rules, d, r) = IF T(r) # {} THEN ThenOf(rules, T(r)) ELSE Else(r)
        /\ Case(rules, d, s) = IF T(s) # {} THEN ThenOf(rules, T(s)) ELSE Else(s)
    BY DEF Case
  <2>2. ASSUME NEW o \in B PROVE OpOf(rules, o).dimension = d /\ OpOf(rules, o).action \in Actions
    BY OpsOnIs
  <2>3. CASE \A o \in B : OpOf(rules, o).action # "set_default_value"
    <3>1. \A o \in B : IsTaken(rules[o[1]].conditions, OpOf(rules, o), s)
                        <=> IsTaken(rules[o[1]].conditions, OpOf(rules, o), r)
      BY <1>3, <2>3 DEF IsTaken
    <3>2. T(s) = T(r)
      BY <3>1
    <3> HIDE DEF T, B
    <3>3. CASE T(r) # {}
      BY <1>1, <2>1, <3>2, <3>3
    <3>4. CASE T(r) = {}
      BY <1>1, <2>1, <3>2, <3>4
    <3> QED BY <3>3, <3>4
  <2>4. CASE \E o \in B : OpOf(rules, o).action = "set_default_value"
    <3>1. PICK o \in B : OpOf(rules, o).action = "set_default_value"
      BY <2>4
    <3>2. B = {o}
      BY <3>1
    <3> DEFINE op == OpOf(rules, o)
               cs == rules[o[1]].conditions
    <3>3. ASSUME NEW x, T(x) # {} PROVE ThenOf(rules, T(x)) = Then(op)
      <4>1. T(x) = {o}
        BY <3>2, <3>3
      <4>2. FirstOp(rules, {o}) = o
        BY DEF FirstOp
      <4> HIDE DEF T
      <4> QED BY <4>1, <4>2 DEF ThenOf
    <3>4. \A x : T(x) # {} <=> IsTaken(cs, op, x)
      BY <3>2
    <3>5. s[d] = IF IsTaken(cs, op, r) THEN Then(op) ELSE Else(r)
      <4> HIDE DEF T, cs, op, B
      <4> QED BY <1>1, <2>1, <3>3, <3>4
    <3>6. Case(rules, d, s) = IF IsTaken(cs, op, s) THEN Then(op) ELSE Else(s)
      <4> HIDE DEF T, cs, op, B
      <4> QED BY <2>1, <3>3, <3>4
    <3>7. op.dimension = d /\ op.action = "set_default_value" /\ B # {}
      BY <2>2, <3>1
    <3>8. CompiledConditions(cs, s) <=> CompiledConditions(cs, r)
      BY <1>3
    <3> HIDE DEF T, cs, op, B
    <3>9. CASE d = Custom
      <4>1. \A x : IsTaken(cs, op, x) <=> CompiledConditions(cs, x)
        BY <3>7, <3>9 DEF IsTaken, Custom, Standard, Boolean
      <4>2. Else(s) = Else(r)
        BY <3>7, <3>9
      <4> QED BY <3>5, <3>6, <3>8, <4>1, <4>2
    <3>10. CASE d = Standard
      <4>1. \A x : IsTaken(cs, op, x) <=> CompiledConditions(cs, x) /\ x[d] = ""
        BY <3>7, <3>10 DEF IsTaken, Custom, Standard
      <4> QED BY <3>5, <3>6, <3>8, <3>10, <4>1 DEF Custom, Standard
    <3>11. CASE d = Boolean
      <4>1. \A x : IsTaken(cs, op, x) <=> CompiledConditions(cs, x) /\ ~x[d]
        BY <3>7, <3>11 DEF IsTaken, Custom, Standard, Boolean
      <4>2. d # Custom
        BY <3>11 DEF Custom, Boolean
      <4> QED BY <3>5, <3>6, <3>8, <4>1, <4>2
    <3> QED BY <3>9, <3>10, <3>11 DEF Dimensions
  <2> QED BY <2>3, <2>4
<1>5. Rewritten(rules, s) = [d \in Dimensions |-> s[d]]
  BY <1>4 DEF Rewritten
<1>6. s = [d \in Dimensions |-> s[d]]
  BY DEF s, Rewritten
<1> QED BY <1>5, <1>6 DEF s

\* A row is what the filters there are made of the event, or of the row that a backfill found.
RulesInv ==
  /\ rules \in FilterList /\ given \in Event
  /\ filtered \in {"nothing", "ingest", "backfill", "an older version"}
  /\ filtered = "ingest" => ruleRow = Ingested(rules, given)
  /\ filtered = "backfill" => ruleRow = Rewritten(rules, before)

\* A change of the filters leaves a list of filters.
LEMMA EditedRules ==
  ASSUME FiltersAreValid, RulesInv, EditRules
  PROVE  rules' \in FilterList
<1>1. rules \in Seq(Filter) /\ DOMAIN rules = 1..Len(rules) /\ Len(rules) \in Nat
  <2>1. rules \in Seq(Filter)
    BY DEF RulesInv, FilterList
  <2> QED BY <2>1
<1>2. ASSUME NEW f \in Filter, rules' = Append(rules, f) PROVE rules' \in Seq(Filter)
  BY <1>1, <1>2
<1>3. ASSUME NEW k \in DOMAIN rules, rules' = [rules EXCEPT ![k].enabled = ~@] PROVE rules' \in Seq(Filter)
  <2>1. rules[k] \in Filter
    BY <1>1
  <2>2. [rules[k] EXCEPT !.enabled = ~@] \in Filter
    BY <2>1 DEF Filter
  <2>3. rules' = [rules EXCEPT ![k] = [rules[k] EXCEPT !.enabled = ~@]]
    BY <1>3
  <2> QED BY <1>1, <2>2, <2>3
<1>4. ASSUME NEW k \in DOMAIN rules, rules' = RemoveAt(rules, k) PROVE rules' \in Seq(Filter)
  <2>1. k \in 1..Len(rules)
    BY <1>1
  <2>2. SubSeq(rules, 1, k - 1) \in Seq(Filter) /\ SubSeq(rules, k + 1, Len(rules)) \in Seq(Filter)
    BY <1>1, <2>1
  <2>3. rules' = SubSeq(rules, 1, k - 1) \o SubSeq(rules, k + 1, Len(rules))
    BY <1>4 DEF RemoveAt
  <2> QED BY <2>2, <2>3
<1> QED BY <1>2, <1>3, <1>4 DEF EditRules, FilterList

\* What the two readers make of a row is what either says.
LEMMA RulesHold ==
  ASSUME FiltersAreValid, RulesInv
  PROVE  ReadersAgree
<1>1. BackfillIsIngest
  <2> SUFFICES ASSUME filtered \in {"ingest", "backfill"}, NEW d \in Dimensions, OpsOn(rules, d) # {}, Agreed(d),
                      filtered = "backfill" => \A field \in (Reads \cup {d}) \ {Custom} : before[field] = AsGiven(field)
               PROVE  ruleRow[d] = Ingested(rules, given)[d]
    BY DEF BackfillIsIngest
  <2>1. CASE filtered = "ingest"
    BY <2>1 DEF RulesInv
  <2>2. CASE filtered = "backfill"
    <3>1. ruleRow[d] = Case(rules, d, before)
      BY <2>2 DEF RulesInv, Rewritten
    <3>2. Case(rules, d, before) = Ingested(rules, given)[d]
      BY <2>2, RewritingIsIngesting DEF RulesInv
    <3> QED BY <3>1, <3>2
  <2> QED BY <2>1, <2>2
<1>2. SecondBackfillIsIdle
  BY RewritingTwice DEF SecondBackfillIsIdle, RulesInv
<1> QED BY <1>1, <1>2 DEF ReadersAgree

\* A row that a backfill has rewritten is as ingestion would have written it, in every dimension on
\* which evaluateFilters and compileFiltersToSQL are agreed, and a second backfill finds nothing to do:
\* for any lists of conditions and operations the DTOs let pass, and any number of filters and changes.
THEOREM ReadersOfFiltersAgree ==
  ASSUME FiltersAreValid
  PROVE  RulesSpec => []ReadersAgree
<1>1. RulesInit => RulesInv
  <2>1. RulesInit => rules \in Seq(Filter)
    BY DEF RulesInit
  <2> QED BY <2>1 DEF RulesInit, RulesInv, FilterList
<1>2. RulesInv /\ [RulesNext]_rulesVars => RulesInv'
  <2> SUFFICES ASSUME RulesInv, [RulesNext]_rulesVars PROVE RulesInv'
    OBVIOUS
  <2>1. CASE EditRules
    <3>1. rules' \in FilterList
      BY <2>1, EditedRules
    <3>2. filtered' \in {"nothing", "an older version"} /\ given' = given
      BY <2>1 DEF EditRules
    <3> QED BY <3>1, <3>2 DEF RulesInv
  <2>2. CASE Ingest
    BY <2>2 DEF Ingest, RulesInv
  <2>3. CASE RewriteRow
    BY <2>3 DEF RewriteRow, RulesInv
  <2>4. CASE UNCHANGED rulesVars
    BY <2>4 DEF rulesVars, RulesInv, Ingested, Rewritten
  <2> QED BY <2>1, <2>2, <2>3, <2>4 DEF RulesNext
<1>3. RulesInv => ReadersAgree
  BY RulesHold
<1> QED BY <1>1, <1>2, <1>3, PTL DEF RulesSpec
=============================================================================
