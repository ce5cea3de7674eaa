-------------------------- MODULE Browser_proofs ---------------------------
(***************************************************************************)
(* What is proved of the browser's side: of the sender of the SDK (Sender),  *)
(* of the console's settings pages (SettingsPage) and of its Explore page    *)
(* (Explore), one after the other.                                          *)
(***************************************************************************)
EXTENDS Sender, Explore, SettingsPage, FiniteSetTheorems, SequenceTheorems, TLAPS

-----------------------------------------------------------------------------
(* Queues. *)

El(q) == {q[k] : k \in DOMAIN q}
Identities(q) == {q[k].id : k \in DOMAIN q}
Distinct(q) == \A j, k \in DOMAIN q : q[j].id = q[k].id => j = k

\* What sequences of entries are.
LEMMA QueueIs ==
  ASSUME NEW q \in Seq(Entry)
  PROVE  /\ DOMAIN q = 1..Len(q) /\ Len(q) \in Nat
         /\ \A k \in 1..Len(q) : q[k] \in Entry
BY LenProperties, ElementOfSeq

\* An entry at the end.
LEMMA AppendHas ==
  ASSUME NEW q \in Seq(Entry), NEW e \in Entry
  PROVE  /\ Append(q, e) \in Seq(Entry)
         /\ El(Append(q, e)) = El(q) \cup {e} /\ Identities(Append(q, e)) = Identities(q) \cup {e.id}
         /\ Distinct(q) /\ e.id \notin Identities(q) => Distinct(Append(q, e))
<1>1. PICK a : a = Append(q, e)
  OBVIOUS
<1>2. /\ a \in Seq(Entry) /\ Len(a) = Len(q) + 1 /\ (\A i \in 1..Len(q) : a[i] = q[i]) /\ a[Len(q) + 1] = e
  BY <1>1, AppendProperties
<1>3. DOMAIN q = 1..Len(q) /\ DOMAIN a = 1..Len(q) + 1 /\ Len(q) \in Nat
  BY <1>2, QueueIs
<1>4. DOMAIN a = DOMAIN q \cup {Len(q) + 1} /\ Len(q) + 1 \notin DOMAIN q
  BY <1>3
<1>5. El(a) = El(q) \cup {e}
  BY <1>2, <1>3, <1>4 DEF El
<1>6. Identities(a) = Identities(q) \cup {e.id}
  BY <1>2, <1>3, <1>4 DEF Identities
<1>7. ASSUME Distinct(q), e.id \notin Identities(q) PROVE Distinct(a)
  BY <1>2, <1>3, <1>4, <1>7 DEF Distinct, Identities
<1> QED BY <1>1, <1>2, <1>5, <1>6, <1>7

\* All but the first entry.
LEMMA TailHas ==
  ASSUME NEW q \in Seq(Entry), q # <<>>
  PROVE  /\ Tail(q) \in Seq(Entry) /\ Head(q) \in Entry
         /\ El(q) = {Head(q)} \cup El(Tail(q)) /\ Identities(q) = {Head(q).id} \cup Identities(Tail(q))
         /\ Distinct(q) => Distinct(Tail(q)) /\ Head(q).id \notin Identities(Tail(q))
<1>1. PICK b, h : b = Tail(q) /\ h = Head(q)
  OBVIOUS
<1>2. /\ b \in Seq(Entry) /\ h \in Entry /\ Len(b) = Len(q) - 1 /\ \A i \in 1..Len(b) : b[i] = q[i + 1]
  BY <1>1, HeadTailProperties
<1>3. /\ DOMAIN q = 1..Len(q) /\ DOMAIN b = 1..Len(b) /\ Len(q) \in Nat /\ Len(q) # 0 /\ Len(b) \in Nat
  BY <1>2, QueueIs, EmptySeq
<1>4. h = q[1]
  BY <1>1
<1>5. /\ 1 \in DOMAIN q /\ \A i \in DOMAIN b : i + 1 \in DOMAIN q /\ b[i] = q[i + 1] /\ i + 1 # 1
      /\ \A k \in DOMAIN q \ {1} : k - 1 \in DOMAIN b /\ b[k - 1] = q[k]
  BY <1>2, <1>3
<1>6. El(q) = {h} \cup El(b)
  BY <1>4, <1>5 DEF El
<1>7. Identities(q) = {h.id} \cup Identities(b)
  BY <1>4, <1>5 DEF Identities
<1>8. ASSUME Distinct(q) PROVE Distinct(b) /\ h.id \notin Identities(b)
  <2>1. Distinct(b)
    BY <1>3, <1>5, <1>8 DEF Distinct
  <2>2. h.id \notin Identities(b)
    BY <1>4, <1>5, <1>8 DEF Distinct, Identities
  <2> QED BY <2>1, <2>2
<1> QED BY <1>1, <1>2, <1>6, <1>7, <1>8

\* One after the other.
LEMMA ConcatHas ==
  ASSUME NEW q \in Seq(Entry), NEW r \in Seq(Entry)
  PROVE  /\ q \o r \in Seq(Entry)
         /\ El(q \o r) = El(q) \cup El(r) /\ Identities(q \o r) = Identities(q) \cup Identities(r)
         /\ Distinct(q) /\ Distinct(r) /\ Identities(q) \cap Identities(r) = {} => Distinct(q \o r)
<1>1. PICK c : c = q \o r
  OBVIOUS
<1>2. /\ c \in Seq(Entry) /\ Len(c) = Len(q) + Len(r)
      /\ \A i \in 1..Len(q) + Len(r) : c[i] = IF i <= Len(q) THEN q[i] ELSE r[i - Len(q)]
  BY <1>1, ConcatProperties
<1>3. /\ DOMAIN q = 1..Len(q) /\ DOMAIN r = 1..Len(r) /\ DOMAIN c = 1..Len(q) + Len(r)
      /\ Len(q) \in Nat /\ Len(r) \in Nat
  BY <1>2, QueueIs
<1>4. \A i \in DOMAIN c : \/ i \in DOMAIN q /\ c[i] = q[i]
                          \/ i > Len(q) /\ i - Len(q) \in DOMAIN r /\ c[i] = r[i - Len(q)]
  <2> SUFFICES ASSUME NEW i \in DOMAIN c
               PROVE \/ i \in DOMAIN q /\ c[i] = q[i]
                     \/ i > Len(q) /\ i - Len(q) \in DOMAIN r /\ c[i] = r[i - Len(q)]
    OBVIOUS
  <2>1. i \in Int /\ i \in 1..Len(q) + Len(r) /\ c[i] = IF i <= Len(q) THEN q[i] ELSE r[i - Len(q)]
    BY <1>2, <1>3
  <2>2. CASE i <= Len(q)
    BY <1>3, <2>1, <2>2
  <2>3. CASE ~(i <= Len(q))
    BY <1>3, <2>1, <2>3
  <2> QED BY <2>2, <2>3
<1>8. \A i \in DOMAIN q : i \in DOMAIN c /\ c[i] = q[i]
  BY <1>2, <1>3
<1>9. \A i \in DOMAIN r : i + Len(q) \in DOMAIN c /\ c[i + Len(q)] = r[i]
  <2> SUFFICES ASSUME NEW i \in DOMAIN r PROVE i + Len(q) \in DOMAIN c /\ c[i + Len(q)] = r[i]
    OBVIOUS
  <2>1. i \in Nat /\ i + Len(q) \in DOMAIN c /\ ~(i + Len(q) <= Len(q)) /\ i + Len(q) - Len(q) = i
    BY <1>3
  <2>2. c[i + Len(q)] = r[i + Len(q) - Len(q)]
    BY <1>2, <1>3, <2>1
  <2> QED BY <2>1, <2>2
<1>5. El(c) = El(q) \cup El(r)
  BY <1>4, <1>8, <1>9 DEF El
<1>6. Identities(c) = Identities(q) \cup Identities(r)
  BY <1>4, <1>8, <1>9 DEF Identities
<1>7. ASSUME Distinct(q), Distinct(r), Identities(q) \cap Identities(r) = {} PROVE Distinct(c)
  <2> SUFFICES ASSUME NEW i \in DOMAIN c, NEW j \in DOMAIN c, c[i].id = c[j].id PROVE i = j
    BY DEF Distinct
  <2>1. CASE i \in DOMAIN q /\ j \in DOMAIN q
    BY <1>4, <1>7, <2>1 DEF Distinct
  <2>2. CASE i \notin DOMAIN q /\ j \notin DOMAIN q
    <3>1. i - Len(q) = j - Len(q)
      BY <1>4, <1>7, <2>2 DEF Distinct
    <3> QED BY <1>3, <3>1
  <2>3. CASE i \in DOMAIN q /\ j \notin DOMAIN q
    BY <1>4, <1>7, <2>3 DEF Identities
  <2>4. CASE i \notin DOMAIN q /\ j \in DOMAIN q
    <3>1. i - Len(q) \in DOMAIN r /\ r[i - Len(q)].id \in Identities(r) /\ c[i] = r[i - Len(q)]
      BY <1>4, <2>4 DEF Identities
    <3>2. q[j].id \in Identities(q) /\ c[j] = q[j]
      BY <1>4, <1>8, <2>4 DEF Identities
    <3> QED BY <1>7, <3>1, <3>2
  <2> QED BY <2>1, <2>2, <2>3, <2>4
<1> QED BY <1>1, <1>2, <1>5, <1>6, <1>7

\* saveQueue keeps the newest, and says of which tabs it drops some.
LEMMA TrimHas ==
  ASSUME NEW q \in Seq(Entry)
  PROVE  /\ Trim(q) \in Seq(Entry) /\ Len(Trim(q)) <= MaxQueue
         /\ El(Trim(q)) \subseteq El(q) /\ Identities(Trim(q)) \subseteq Identities(q)
         /\ Distinct(q) => Distinct(Trim(q))
         /\ \A e \in El(q) : e \in El(Trim(q)) \/ e.payload.tab \in Dropped(q)
         /\ Dropped(q) \subseteq Tabs
<1>1. /\ DOMAIN q = 1..Len(q) /\ Len(q) \in Nat /\ \A k \in 1..Len(q) : q[k] \in Entry
  BY QueueIs
<1>2. CASE Len(q) <= MaxQueue
  <2>1. Trim(q) = q
    BY <1>2 DEF Trim
  <2>2. SubSeq(q, 1, 0) \in Seq(Entry) /\ Len(SubSeq(q, 1, 0)) = 0
    BY SubSeqProperties
  <2>3. Len(q) - Len(Trim(q)) = 0
    BY <1>1, <2>1
  <2>4. Dropped(q) \subseteq Tabs
    BY <2>2, <2>3, QueueIs DEF Dropped, TabsOf
  <2> QED BY <1>2, <2>1, <2>4
<1>3. CASE ~(Len(q) <= MaxQueue)
  <2>1. PICK m \in Nat : m = Len(q) - MaxQueue /\ m > 0 /\ m <= Len(q)
    <3>1. Len(q) - MaxQueue \in Nat /\ Len(q) - MaxQueue > 0 /\ Len(q) - MaxQueue <= Len(q)
      BY <1>1, <1>3, SenderAssumption
    <3> QED BY <3>1
  <2>2. PICK s, d : s = SubSeq(q, m + 1, Len(q)) /\ d = SubSeq(q, 1, m)
    OBVIOUS
  <2>3. Trim(q) = s
    BY <1>1, <1>3, <2>1, <2>2, SenderAssumption DEF Trim
  <2>4. /\ s \in Seq(Entry) /\ Len(s) = MaxQueue /\ \A i \in 1..MaxQueue : s[i] = q[m + i]
    <3>1. \A i \in m + 1..Len(q) : q[i] \in Entry
      BY <1>1, <2>1
    <3>2. /\ s \in Seq(Entry) /\ Len(s) = (IF m + 1 <= Len(q) THEN Len(q) - (m + 1) + 1 ELSE 0)
          /\ \A i \in 1..Len(q) - (m + 1) + 1 : s[i] = q[m + 1 + i - 1]
      BY <1>1, <2>1, <2>2, <3>1, SubSeqProperties
    <3>3. MaxQueue \in Nat /\ m + MaxQueue = Len(q) /\ Len(q) \in Nat
      BY <1>1, <2>1, SenderAssumption
    <3>4. (m + 1 <= Len(q) => Len(q) - (m + 1) + 1 = MaxQueue) /\ (~(m + 1 <= Len(q)) => MaxQueue = 0)
      BY <2>1, <3>3
    <3>5. Len(s) = MaxQueue
      BY <3>2, <3>4
    <3>6. \A i \in 1..MaxQueue : i \in 1..Len(q) - (m + 1) + 1 /\ m + 1 + i - 1 = m + i
      BY <2>1, <3>3
    <3> QED BY <3>2, <3>5, <3>6
  <2>5. /\ d \in Seq(Entry) /\ Len(d) = m /\ \A i \in 1..m : d[i] = q[i]
    <3>1. \A i \in 1..m : q[i] \in Entry
      BY <1>1, <2>1
    <3>2. /\ d \in Seq(Entry) /\ Len(d) = (IF 1 <= m THEN m - 1 + 1 ELSE 0)
          /\ \A i \in 1..m - 1 + 1 : d[i] = q[1 + i - 1]
      BY <2>1, <2>2, <3>1, SubSeqProperties
    <3> QED BY <2>1, <3>2
  <2>6. Dropped(q) = TabsOf(d)
    <3>1. Len(q) - Len(Trim(q)) = m
      BY <1>1, <2>1, <2>3, <2>4, SenderAssumption
    <3> QED BY <2>2, <3>1 DEF Dropped
  <2>7. DOMAIN s = 1..MaxQueue /\ DOMAIN d = 1..m
    BY <2>4, <2>5, QueueIs
  <2>8. \A i \in DOMAIN s : m + i \in DOMAIN q /\ s[i] = q[m + i]
    BY <1>1, <2>1, <2>4, <2>7, SenderAssumption
  <2>9. \A k \in DOMAIN q : \/ k \in DOMAIN d /\ d[k] = q[k]
                            \/ k - m \in DOMAIN s /\ s[k - m] = q[k]
    <3> SUFFICES ASSUME NEW k \in DOMAIN q
                 PROVE \/ k \in DOMAIN d /\ d[k] = q[k]
                       \/ k - m \in DOMAIN s /\ s[k - m] = q[k]
      OBVIOUS
    <3>1. k \in Nat /\ 1 <= k /\ k <= Len(q)
      BY <1>1
    <3>2. CASE k <= m
      BY <2>1, <2>5, <2>7, <3>1, <3>2
    <3>3. CASE ~(k <= m)
      <4>1. k - m \in 1..MaxQueue /\ m + (k - m) = k
        BY <1>1, <2>1, <3>1, <3>3, SenderAssumption
      <4> QED BY <2>4, <2>7, <4>1
    <3> QED BY <3>2, <3>3
  <2>10. El(s) \subseteq El(q) /\ Identities(s) \subseteq Identities(q)
    BY <2>8 DEF El, Identities
  <2>11. Distinct(q) => Distinct(s)
    <3> SUFFICES ASSUME Distinct(q), NEW i \in DOMAIN s, NEW j \in DOMAIN s, s[i].id = s[j].id PROVE i = j
      BY DEF Distinct
    <3>1. m + i = m + j
      BY <2>8 DEF Distinct
    <3> QED BY <2>1, <2>7, <3>1, SenderAssumption
  <2>12. ASSUME NEW e \in El(q) PROVE e \in El(s) \/ e.payload.tab \in TabsOf(d)
    <3>1. PICK k \in DOMAIN q : e = q[k]
      BY DEF El
    <3> QED BY <2>9, <3>1 DEF El, TabsOf
  <2>13. Len(s) <= MaxQueue
    BY <2>4, SenderAssumption
  <2>14. TabsOf(d) \subseteq Tabs
    <3>1. \A i \in DOMAIN d : d[i] \in Entry
      BY <2>5, QueueIs
    <3>2. \A i \in DOMAIN d : d[i].payload.tab \in Tabs
      BY <3>1 DEF Entry, Payload
    <3> QED BY <3>2 DEF TabsOf
  <2> QED BY <2>3, <2>4, <2>6, <2>10, <2>11, <2>12, <2>13, <2>14
<1> QED BY <1>2, <1>3

\* What of a queue is chosen, and the positions of what is not.
Fresh(q, n, keep) == [k \in 1..n |-> q[keep[k]]]
Expired(q, n, keep) == DOMAIN q \ {keep[k] : k \in 1..n}

\* Every entry is fresh or has expired.
LEMMA ChosenHas ==
  ASSUME NEW q \in Seq(Entry), NEW n \in 0..Len(q), NEW keep \in Choices(n, Len(q)),
         NEW fresh, fresh = Fresh(q, n, keep)
  PROVE  /\ fresh \in Seq(Entry)
         /\ Identities(fresh) \subseteq Identities(q) /\ (Distinct(q) => Distinct(fresh))
         /\ \A e \in El(q) : e \in El(fresh) \/ \E k \in Expired(q, n, keep) : e = q[k]
<1>1. /\ DOMAIN q = 1..Len(q) /\ Len(q) \in Nat /\ \A k \in 1..Len(q) : q[k] \in Entry
  BY QueueIs
<1>2. /\ keep \in [1..n -> 1..Len(q)] /\ \A j, k \in 1..n : j < k => keep[j] < keep[k]
  BY DEF Choices
<1>4. n \in Nat /\ \A k \in 1..n : q[keep[k]] \in Entry /\ keep[k] \in DOMAIN q
  BY <1>1, <1>2
<1>5. fresh \in Seq(Entry) /\ DOMAIN fresh = 1..n /\ \A k \in 1..n : fresh[k] = q[keep[k]]
  BY <1>4, IsASeq DEF Fresh
<1>6. Identities(fresh) \subseteq Identities(q)
  BY <1>4, <1>5 DEF Identities
<1>7. ASSUME Distinct(q), NEW i \in 1..n, NEW j \in 1..n, fresh[i].id = fresh[j].id PROVE i = j
  <2>1. keep[i] = keep[j] /\ keep[i] \in Int
    BY <1>1, <1>4, <1>5, <1>7 DEF Distinct
  <2> QED BY <1>2, <1>4, <2>1
<1>8. ASSUME NEW e \in El(q) PROVE e \in El(fresh) \/ \E k \in Expired(q, n, keep) : e = q[k]
  <2>1. PICK k \in DOMAIN q : e = q[k]
    BY DEF El
  <2>2. CASE k \in {keep[j] : j \in 1..n}
    BY <1>5, <2>1, <2>2 DEF El
  <2> QED BY <2>1, <2>2 DEF Expired
<1> QED BY <1>5, <1>6, <1>7, <1>8 DEF Distinct

-----------------------------------------------------------------------------
(* The inductive invariant. *)

\* An entry is in one list only, once.
Numbered(q, n) == Distinct(q) /\ Identities(q) \subseteq 1..n
Taken(t) == Identities(todo[t]) \cup Identities(failed[t])
Apart ==
  /\ Numbered(queue, entries)
  /\ \A t \in Tabs : /\ Numbered(todo[t], entries) /\ Numbered(failed[t], entries)
                     /\ Identities(todo[t]) \cap Identities(failed[t]) = {}
                     /\ Taken(t) \cap Identities(queue) = {}
  /\ \A t, u \in Tabs : t # u => Taken(t) \cap Taken(u) = {}

\* isFlushing is up exactly while payloads are left to send.
FlushIdle == \A t \in Tabs : /\ flushing[t] <=> todo[t] # <<>>
                             /\ ~flushing[t] => failed[t] = <<>>

\* A flush waits for one request, which carries its first payload.
Awaited(r) == r.kind = "flush" /\ r.heard
LinkedTo(R, f) ==
  /\ \A r \in R : Awaited(r) => f[r.by] # <<>> /\ f[r.by][1].payload = r.payload
  /\ \A r, s \in R : Awaited(r) /\ Awaited(s) /\ r.by = s.by => r = s
Linked == LinkedTo(requests, todo)

\* What was served is known.
Acked == \A r \in requests : r.served => known[r.payload.tab] >= r.payload.upTo

\* Version v of tab t, or a later one, is stored or underway.
Fits(p, t, v) == p.tab = t /\ p.upTo >= v
Reach(t, v) ==
  \/ known[t] >= v
  \/ \E e \in El(queue) : Fits(e.payload, t, v)
  \/ \E u \in Tabs : \E e \in El(todo[u]) \cup El(failed[u]) : Fits(e.payload, t, v)
  \/ \E r \in requests : Fits(r.payload, t, v)
Lossless == \A t \in Tabs \ excused : \A v \in Version : v <= built[t] => Reach(t, v)

\* A closed tab has built all it recorded; one that is not can still record.
Finished ==
  \A t \in Tabs : /\ page[t] = "closed" /\ t \notin excused => built[t] = version[t]
                  /\ page[t] # "closed" => version[t] <= MaxVersion

IInv == TypeOK /\ Apart /\ FlushIdle /\ Linked /\ Acked /\ Lossless /\ Finished

-----------------------------------------------------------------------------
(* What the operations do to the lists. *)

\* The empty list.
LEMMA EmptyHas ==
  /\ <<>> \in Seq(Entry) /\ Len(<<>>) = 0 /\ El(<<>>) = {} /\ Identities(<<>>) = {} /\ Distinct(<<>>)
BY DEF El, Identities, Distinct

\* A payload put into the queue.
LEMMA Enqueued ==
  ASSUME TypeOK, Apart, NEW payload \in Payload,
         NEW q, q = Append(queue, [payload |-> payload, id |-> entries + 1])
  PROVE  /\ Trim(q) \in Seq(Entry) /\ Len(Trim(q)) <= MaxQueue /\ Dropped(q) \subseteq Tabs
         /\ Numbered(Trim(q), entries + 1) /\ Identities(Trim(q)) \subseteq Identities(queue) \cup {entries + 1}
         /\ \A e \in El(queue) : e \in El(Trim(q)) \/ e.payload.tab \in Dropped(q)
         /\ (\E e \in El(Trim(q)) : e.payload = payload) \/ payload.tab \in Dropped(q)
<1>1. PICK e : e = [payload |-> payload, id |-> entries + 1]
  OBVIOUS
<1>2. e \in Entry /\ e.payload = payload /\ e.id = entries + 1 /\ queue \in Seq(Entry) /\ entries \in Nat
  BY <1>1 DEF TypeOK, Entry
<1>3. Distinct(queue) /\ Identities(queue) \subseteq 1..entries
  BY DEF Apart, Numbered
<1>4. entries + 1 \notin Identities(queue)
  BY <1>2, <1>3
<1>5. /\ q \in Seq(Entry) /\ El(q) = El(queue) \cup {e}
      /\ Identities(q) = Identities(queue) \cup {entries + 1} /\ Distinct(q)
  BY <1>1, <1>2, <1>3, <1>4, AppendHas
<1>6. Identities(q) \subseteq 1..entries + 1
  BY <1>2, <1>3, <1>5
<1>7. /\ Trim(q) \in Seq(Entry) /\ Len(Trim(q)) <= MaxQueue
      /\ Identities(Trim(q)) \subseteq Identities(q) /\ Distinct(Trim(q))
      /\ \A x \in El(q) : x \in El(Trim(q)) \/ x.payload.tab \in Dropped(q)
      /\ Dropped(q) \subseteq Tabs
  BY <1>5, TrimHas
<1>8. Numbered(Trim(q), entries + 1)
  BY <1>6, <1>7 DEF Numbered
<1> QED BY <1>2, <1>5, <1>7, <1>8

\* An entry in the queue changes nothing of the other lists.
LEMMA ApartEnqueued ==
  ASSUME TypeOK, Apart, UNCHANGED <<todo, failed>>, entries' = entries + 1,
         Numbered(queue', entries + 1), Identities(queue') \subseteq Identities(queue) \cup {entries + 1}
  PROVE  Apart'
<1>1. entries \in Nat /\ entries + 1 \notin 1..entries /\ \A i \in 1..entries : i \in 1..entries + 1
  BY DEF TypeOK
<1>2. \A q : Numbered(q, entries) => Numbered(q, entries + 1)
  BY <1>1 DEF Numbered
<1>3. ASSUME NEW t \in Tabs PROVE Taken(t)' = Taken(t) /\ entries + 1 \notin Taken(t)
  BY <1>1 DEF Taken, Apart, Numbered
<1>4. \A t \in Tabs : Taken(t)' \cap Identities(queue') = {}
  BY <1>3 DEF Apart
<1> QED BY <1>2, <1>3, <1>4 DEF Apart

\* Nothing of the lists changes.
LEMMA ApartSame ==
  ASSUME Apart, UNCHANGED <<queue, todo, failed, entries>>
  PROVE  Apart'
BY DEF Apart, Numbered, Taken

\* What keeps every version within reach of the server, but for the tabs excused, loses nothing.
LEMMA LosslessKept ==
  ASSUME TypeOK, Lossless, UNCHANGED built, excused \subseteq excused',
         \A t \in Tabs : \A v \in Version : Reach(t, v) => Reach(t, v)' \/ t \in excused'
  PROVE  Lossless'
BY DEF Lossless

\* Two ways to keep a version within reach.
LEMMA ReachKept ==
  ASSUME UNCHANGED <<todo, failed>>,
         \A t \in Tabs : known'[t] >= known[t] /\ known[t] \in Int /\ known'[t] \in Int,
         \A e \in El(queue) : e \in El(queue') \/ e.payload.tab \in excused',
         \A r \in requests : \/ \E s \in requests' : s.payload.tab = r.payload.tab /\ s.payload.upTo = r.payload.upTo
                             \/ \E e \in El(queue') : e.payload.tab = r.payload.tab /\ e.payload.upTo = r.payload.upTo
                             \/ r.payload.tab \in excused'
                             \/ r.payload \in Payload /\ known'[r.payload.tab] >= r.payload.upTo,
         NEW t \in Tabs, NEW v \in Version, Reach(t, v)
  PROVE  Reach(t, v)' \/ t \in excused'
<1>1. CASE known[t] >= v
  BY <1>1 DEF Reach, Version
<1>2. CASE \E e \in El(queue) : Fits(e.payload, t, v)
  BY <1>2 DEF Reach, Fits
<1>3. CASE \E u \in Tabs : \E e \in El(todo[u]) \cup El(failed[u]) : Fits(e.payload, t, v)
  BY <1>3 DEF Reach
<1>4. CASE \E r \in requests : Fits(r.payload, t, v)
  <2>1. PICK r \in requests : r.payload.tab = t /\ r.payload.upTo >= v
    BY <1>4 DEF Fits
  <2>2. CASE \E s \in requests' : s.payload.tab = r.payload.tab /\ s.payload.upTo = r.payload.upTo
    BY <2>1, <2>2 DEF Reach, Fits
  <2>3. CASE \E e \in El(queue') : e.payload.tab = r.payload.tab /\ e.payload.upTo = r.payload.upTo
    BY <2>1, <2>3 DEF Reach, Fits
  <2>4. CASE r.payload \in Payload /\ known'[r.payload.tab] >= r.payload.upTo
    <3>1. known'[t] >= r.payload.upTo /\ r.payload.upTo \in Version
      BY <2>1, <2>4 DEF Payload
    <3> QED BY <2>1, <3>1 DEF Reach, Version
  <2> QED BY <2>1, <2>2, <2>3, <2>4
<1> QED BY <1>1, <1>2, <1>3, <1>4 DEF Reach

\* A payload that is sent or queued.
LEMMA Emitted ==
  ASSUME IInv, NEW t \in Tabs, NEW kind \in {"send", "beacon"}, NEW upTo \in Version,
         Emit(t, kind, upTo), UNCHANGED <<flushing, todo, failed, known>>
  PROVE  /\ built' = [built EXCEPT ![t] = upTo]
         /\ queue' \in Seq(Entry) /\ Len(queue') <= MaxQueue /\ entries' \in Nat /\ excused' \subseteq Tabs
         /\ requests' \subseteq Request /\ excused \subseteq excused'
         /\ Apart' /\ Linked' /\ Acked' /\ Lossless'
<1>1. PICK payload : payload = [tab |-> t, upTo |-> upTo, asOf |-> upTo]
  OBVIOUS
<1>2. /\ payload \in Payload /\ payload.tab = t /\ payload.upTo = upTo
      /\ \A u \in Tabs : known[u] \in Version
      /\ queue \in Seq(Entry) /\ Len(queue) <= MaxQueue /\ entries \in Nat /\ excused \subseteq Tabs
      /\ requests \subseteq Request /\ built \in [Tabs -> Version]
  BY <1>1 DEF Payload, IInv, TypeOK
<1>3. \A v \in Version : v \in Int
  BY SenderAssumption DEF Version
<1>4. built' = [built EXCEPT ![t] = upTo]
  BY DEF Emit
<1>5. CASE online
  <2>1. PICK x : x = [payload |-> payload, by |-> t, kind |-> kind, heard |-> kind = "send", served |-> FALSE]
    OBVIOUS
  <2>2. requests' = requests \cup {x} /\ UNCHANGED <<queue, entries, excused>>
    BY <1>1, <1>5, <2>1 DEF Emit
  <2>3. x \in Request /\ x.payload = payload /\ ~Awaited(x) /\ ~x.served
    BY <1>2, <2>1 DEF Request, Kind, Awaited
  <2>4. Apart'
    BY <2>2, ApartSame DEF IInv
  <2>5. Linked'
    BY <2>2, <2>3 DEF IInv, Linked, LinkedTo
  <2>6. Acked'
    BY <2>2, <2>3 DEF IInv, Acked
  <2>7. ASSUME NEW u \in Tabs, NEW v \in Version, Reach(u, v) PROVE Reach(u, v)' \/ u \in excused'
    <3> HIDE DEF Emit
    <3>1. \A r \in requests : r \in requests'
      BY <2>2
    <3> QED BY <2>2, <2>7, <3>1 DEF Reach
  <2>8. Lossless'
    <3> SUFFICES ASSUME NEW u \in Tabs, u \notin excused', NEW v \in Version, v <= built'[u] PROVE Reach(u, v)'
      BY DEF Lossless
    <3>1. CASE u # t
      BY <1>2, <1>4, <2>2, <2>7, <3>1 DEF IInv, Lossless
    <3>2. CASE u = t
      <4>1. upTo >= v /\ x \in requests'
        BY <1>2, <1>3, <1>4, <2>2, <3>2
      <4> QED BY <1>2, <2>3, <3>2, <4>1 DEF Reach, Fits
    <3> QED BY <3>1, <3>2
  <2> QED BY <1>2, <1>4, <2>2, <2>3, <2>4, <2>5, <2>6, <2>8
<1>6. CASE ~online
  <2>1. PICK q : q = Append(queue, [payload |-> payload, id |-> entries + 1])
    OBVIOUS
  <2>2. queue' = Trim(q) /\ entries' = entries + 1 /\ excused' = excused \cup Dropped(q) /\ UNCHANGED requests
    BY <1>1, <1>6, <2>1 DEF Emit, Enqueue
  <2>3. /\ Trim(q) \in Seq(Entry) /\ Len(Trim(q)) <= MaxQueue /\ Dropped(q) \subseteq Tabs
        /\ Numbered(Trim(q), entries + 1) /\ Identities(Trim(q)) \subseteq Identities(queue) \cup {entries + 1}
        /\ \A e \in El(queue) : e \in El(Trim(q)) \/ e.payload.tab \in Dropped(q)
        /\ (\E e \in El(Trim(q)) : e.payload = payload) \/ payload.tab \in Dropped(q)
    BY <1>2, <2>1, Enqueued DEF IInv
  <2>4. Apart'
    BY <2>2, <2>3, ApartEnqueued DEF IInv
  <2>5. Linked' /\ Acked'
    BY <2>2 DEF IInv, Linked, Acked
  <2>6. ASSUME NEW u \in Tabs, NEW v \in Version, Reach(u, v) PROVE Reach(u, v)' \/ u \in excused'
    <3>1. \A w \in Tabs : known'[w] >= known[w] /\ known[w] \in Int /\ known'[w] \in Int
      BY <1>2, <1>3
    <3> QED BY <2>2, <2>3, <2>6, <3>1, ReachKept
  <2>7. Lossless'
    <3> SUFFICES ASSUME NEW u \in Tabs, u \notin excused', NEW v \in Version, v <= built'[u] PROVE Reach(u, v)'
      BY DEF Lossless
    <3>1. CASE u # t
      BY <1>2, <1>4, <2>2, <2>6, <3>1 DEF IInv, Lossless
    <3>2. CASE u = t
      <4>1. upTo >= v
        BY <1>2, <1>3, <1>4, <3>2
      <4>2. \E e \in El(queue') : e.payload = payload
        BY <1>2, <2>2, <2>3, <3>2
      <4> QED BY <1>2, <3>2, <4>1, <4>2 DEF Reach, Fits
    <3> QED BY <3>1, <3>2
  <2> QED BY <1>2, <1>4, <2>2, <2>3, <2>4, <2>5, <2>7
<1> QED BY <1>5, <1>6

\* A flush by tab t takes these n payloads.
Takes(t, n, keep) ==
  LET fresh == Fresh(queue, n, keep)
      expired == Expired(queue, n, keep)
  IN /\ expired # {} => expiries < MaxExpiries
     /\ expiries' = IF expired = {} THEN expiries ELSE expiries + 1
     /\ excused' = excused \cup {queue[k].payload.tab : k \in expired}
     /\ todo' = [todo EXCEPT ![t] = fresh]
     /\ flushing' = [flushing EXCEPT ![t] = fresh # <<>>]
     /\ requests' = requests \cup FlushRequests(t, fresh)

\* A flush takes the queue: what is fresh becomes its own, what has expired is excused.
LEMMA Flushed ==
  ASSUME IInv, NEW t \in Tabs, HandleOnline(t)
  PROVE  /\ queue' \in Seq(Entry) /\ Len(queue') <= MaxQueue /\ excused' \subseteq Tabs /\ expiries' \in 0..MaxExpiries
         /\ todo' \in [Tabs -> Seq(Entry)] /\ failed' \in [Tabs -> Seq(Entry)] /\ flushing' \in [Tabs -> BOOLEAN]
         /\ requests' \subseteq Request /\ excused \subseteq excused'
         /\ Apart' /\ FlushIdle' /\ Linked' /\ Acked' /\ Lossless'
<1>1. /\ queue \in Seq(Entry) /\ Len(queue) <= MaxQueue /\ entries \in Nat /\ excused \subseteq Tabs
      /\ requests \subseteq Request /\ todo \in [Tabs -> Seq(Entry)] /\ failed \in [Tabs -> Seq(Entry)]
      /\ flushing \in [Tabs -> BOOLEAN] /\ expiries \in 0..MaxExpiries
      /\ \A r \in requests : r.by \in Tabs /\ r.payload \in Payload
  BY DEF IInv, TypeOK, Request
<1>2. UNCHANGED <<known, built, entries>>
  BY DEF HandleOnline, tabVars, serverVars
<1>3. CASE queue' = queue /\ todo' = todo /\ failed' = failed /\ flushing' = flushing /\ requests' = requests
           /\ excused' = excused /\ expiries' = expiries
  <2>1. Apart'
    BY <1>2, <1>3, ApartSame DEF IInv
  <2>2. FlushIdle' /\ Linked' /\ Acked'
    BY <1>2, <1>3 DEF IInv, FlushIdle, Linked, Acked
  <2>3. \A u \in Tabs, v \in Version : Reach(u, v)' <=> Reach(u, v)
    BY <1>2, <1>3 DEF Reach
  <2>4. Lossless'
    BY <1>2, <1>3, <2>3 DEF IInv, Lossless
  <2> QED BY <1>1, <1>3, <2>1, <2>2, <2>4
<1>4. CASE ~Busy(t) /\ queue # <<>>
  <2>21. PICK n \in 0..Len(queue) : \E keep \in Choices(n, Len(queue)) : Takes(t, n, keep)
    BY <1>4 DEF HandleOnline, Takes, Fresh, Expired
  <2>1. PICK keep \in Choices(n, Len(queue)) : Takes(t, n, keep)
    BY <2>21
  <2>2. PICK fresh, expired : fresh = Fresh(queue, n, keep) /\ expired = Expired(queue, n, keep)
    OBVIOUS
  <2>3. /\ expired # {} => expiries < MaxExpiries
        /\ expiries' = IF expired = {} THEN expiries ELSE expiries + 1
        /\ excused' = excused \cup {queue[k].payload.tab : k \in expired}
        /\ todo' = [todo EXCEPT ![t] = fresh]
        /\ flushing' = [flushing EXCEPT ![t] = fresh # <<>>]
        /\ requests' = requests \cup FlushRequests(t, fresh)
        /\ failed' = failed /\ queue' = <<>>
    BY <1>4, <2>1, <2>2 DEF HandleOnline, ClearQueue, Takes
  <2>4. /\ fresh \in Seq(Entry) /\ Identities(fresh) \subseteq Identities(queue) /\ (Distinct(queue) => Distinct(fresh))
        /\ \A e \in El(queue) : e \in El(fresh) \/ \E k \in expired : e = queue[k]
    BY <1>1, <2>2, ChosenHas
  <2>5. todo[t] = <<>> /\ failed[t] = <<>> /\ ~flushing[t]
    BY <1>1, <1>4 DEF IInv, FlushIdle, Busy
  <2>6. /\ todo'[t] = fresh /\ \A u \in Tabs : u # t => todo'[u] = todo[u] /\ flushing'[u] = flushing[u]
        /\ flushing'[t] = (fresh # <<>>)
    BY <1>1, <2>3
  <2>7. excused' \subseteq Tabs
    <3>1. \A k \in expired : queue[k] \in Entry
      BY <1>1, <2>2, QueueIs DEF Expired
    <3>2. \A k \in expired : queue[k].payload.tab \in Tabs
      BY <3>1 DEF Entry, Payload
    <3> QED BY <1>1, <2>3, <3>2
  <2>8. expiries' \in 0..MaxExpiries
    BY <1>1, <2>3, SenderAssumption
  <2>9. \A r \in FlushRequests(t, fresh) :
           /\ r \in Request /\ r.by = t /\ Awaited(r) /\ ~r.served /\ fresh # <<>> /\ fresh[1].payload = r.payload
    <3>1. fresh # <<>> => fresh[1] \in Entry
      BY <2>4, TailHas
    <3> SUFFICES ASSUME NEW r \in FlushRequests(t, fresh)
                 PROVE /\ r \in Request /\ r.by = t /\ Awaited(r) /\ ~r.served
                       /\ fresh # <<>> /\ fresh[1].payload = r.payload
      OBVIOUS
    <3>2. fresh # <<>>
      BY DEF FlushRequests
    <3>3. r = [payload |-> fresh[1].payload, by |-> t, kind |-> "flush", heard |-> TRUE, served |-> FALSE]
      BY <3>2 DEF FlushRequests
    <3>4. fresh[1].payload \in Payload
      BY <3>1, <3>2 DEF Entry
    <3> QED BY <3>2, <3>3, <3>4 DEF Request, Kind, Awaited
  <2>10. Apart'
    <3>1. Numbered(queue', entries')
      BY <2>3, EmptyHas DEF Numbered
    <3>2. Identities(queue') = {}
      BY <2>3, EmptyHas
    <3>3. Numbered(fresh, entries) /\ Identities(failed[t]) = {} /\ Numbered(failed[t], entries)
      BY <2>4, <2>5, EmptyHas DEF IInv, Apart, Numbered
    <3>4. Taken(t)' = Identities(fresh)
      BY <2>3, <2>6, <3>3 DEF Taken
    <3>5. ASSUME NEW u \in Tabs, u # t PROVE Taken(u)' = Taken(u) /\ Taken(u) \cap Identities(queue) = {}
      BY <2>3, <2>6, <3>5 DEF Taken, IInv, Apart
    <3>6. ASSUME NEW u \in Tabs
          PROVE /\ Numbered(todo'[u], entries') /\ Numbered(failed'[u], entries')
                /\ Identities(todo'[u]) \cap Identities(failed'[u]) = {}
                /\ Taken(u)' \cap Identities(queue') = {}
      <4>1. CASE u = t
        BY <1>2, <2>3, <2>6, <3>2, <3>3, <4>1
      <4>2. CASE u # t
        BY <1>2, <2>3, <2>6, <3>2, <4>2 DEF IInv, Apart
      <4> QED BY <4>1, <4>2
    <3>7. ASSUME NEW u \in Tabs, NEW w \in Tabs, u # w PROVE Taken(u)' \cap Taken(w)' = {}
      <4>1. CASE u # t /\ w # t
        BY <3>5, <3>7, <4>1 DEF IInv, Apart
      <4>2. CASE u = t
        BY <2>4, <3>4, <3>5, <3>7, <4>2
      <4>3. CASE w = t
        BY <2>4, <3>4, <3>5, <3>7, <4>3
      <4> QED BY <4>1, <4>2, <4>3
    <3> QED BY <3>1, <3>6, <3>7 DEF Apart
  <2>11. FlushIdle'
    BY <2>3, <2>5, <2>6 DEF IInv, FlushIdle
  <2>12. \A r \in requests : ~(Awaited(r) /\ r.by = t)
    BY <2>5 DEF IInv, Linked, LinkedTo
  <2>13. Linked'
    <3>1. ASSUME NEW r \in requests', Awaited(r) PROVE todo'[r.by] # <<>> /\ todo'[r.by][1].payload = r.payload
      <4>1. CASE r \in requests
        BY <1>1, <2>6, <2>12, <3>1, <4>1 DEF IInv, Linked, LinkedTo
      <4>2. CASE r \in FlushRequests(t, fresh)
        BY <2>6, <2>9, <4>2
      <4> QED BY <2>3, <4>1, <4>2
    <3>2. ASSUME NEW r \in requests', NEW s \in requests', Awaited(r), Awaited(s), r.by = s.by PROVE r = s
      <4>1. CASE r \in requests /\ s \in requests
        BY <3>2, <4>1 DEF IInv, Linked, LinkedTo
      <4>2. CASE r \in FlushRequests(t, fresh) /\ s \in FlushRequests(t, fresh)
        BY <4>2 DEF FlushRequests
      <4> QED BY <2>3, <2>9, <2>12, <3>2, <4>1, <4>2
    <3> QED BY <3>1, <3>2 DEF Linked, LinkedTo
  <2>14. Acked'
    BY <1>2, <2>3, <2>9 DEF IInv, Acked
  <2>15. ASSUME NEW u \in Tabs, NEW v \in Version, Reach(u, v) PROVE Reach(u, v)' \/ u \in excused'
    <3>1. CASE \E e \in El(queue) : Fits(e.payload, u, v)
      <4>1. PICK e \in El(queue) : Fits(e.payload, u, v)
        BY <3>1
      <4>2. CASE e \in El(fresh)
        <5>1. e \in El(todo'[t])
          BY <2>6, <4>2
        <5> QED BY <4>1, <5>1 DEF Reach
      <4>3. CASE \E k \in expired : e = queue[k]
        BY <2>3, <4>1, <4>3 DEF Fits
      <4> QED BY <2>4, <4>2, <4>3
    <3>2. CASE \E w \in Tabs : \E e \in El(todo[w]) \cup El(failed[w]) : Fits(e.payload, u, v)
      <4>1. PICK w \in Tabs : \E e \in El(todo[w]) \cup El(failed[w]) : Fits(e.payload, u, v)
        BY <3>2
      <4>2. w # t
        BY <2>5, <4>1, EmptyHas
      <4> QED BY <2>3, <2>6, <4>1, <4>2 DEF Reach
    <3>3. CASE known[u] >= v \/ \E r \in requests : Fits(r.payload, u, v)
      BY <1>2, <2>3, <3>3 DEF Reach
    <3> QED BY <2>15, <3>1, <3>2, <3>3 DEF Reach
  <2>16. Lossless'
    BY <1>2, <2>3, <2>15, LosslessKept DEF IInv
  <2>17. todo' \in [Tabs -> Seq(Entry)] /\ flushing' \in [Tabs -> BOOLEAN] /\ failed' \in [Tabs -> Seq(Entry)]
    BY <1>1, <2>3, <2>4
  <2>18. queue' \in Seq(Entry) /\ Len(queue') <= MaxQueue
    BY <2>3, EmptyHas, SenderAssumption
  <2>19. requests' \subseteq Request
    BY <1>1, <2>3, <2>9
  <2> QED BY <2>3, <2>7, <2>8, <2>10, <2>11, <2>13, <2>14, <2>16, <2>17, <2>18, <2>19
<1>5. CASE ~Busy(t) /\ queue = <<>> /\ flushing' = [flushing EXCEPT ![t] = GoDown]
           /\ UNCHANGED <<queue, todo, failed, requests, expiries, excused>>
  BY <1>1, <1>3, <1>5 DEF Busy, GoDown
<1> QED BY <1>3, <1>4, <1>5 DEF HandleOnline, flushVars

\* A flush goes on after its request r: the payload is delivered, or put aside.
LEMMA WentOn ==
  ASSUME IInv, NEW r \in requests, Awaited(r), NEW success \in BOOLEAN, success => r.served,
         FlushGoesOn(r.by, r, success), UNCHANGED <<known, built, entries>>
  PROVE  /\ queue' \in Seq(Entry) /\ Len(queue') <= MaxQueue /\ excused' \subseteq Tabs
         /\ todo' \in [Tabs -> Seq(Entry)] /\ failed' \in [Tabs -> Seq(Entry)] /\ flushing' \in [Tabs -> BOOLEAN]
         /\ requests' \subseteq Request /\ excused \subseteq excused'
         /\ Apart' /\ FlushIdle' /\ Linked' /\ Acked' /\ Lossless'
<1>1. /\ queue \in Seq(Entry) /\ Len(queue) <= MaxQueue /\ entries \in Nat /\ excused \subseteq Tabs
      /\ requests \subseteq Request /\ todo \in [Tabs -> Seq(Entry)] /\ failed \in [Tabs -> Seq(Entry)]
      /\ flushing \in [Tabs -> BOOLEAN] /\ \A x \in requests : x.by \in Tabs /\ x.payload \in Payload
      /\ known \in [Tabs -> Version]
  BY DEF IInv, TypeOK, Request
<1>2. PICK t \in Tabs : t = r.by
  BY <1>1
<1>3. PICK h, left, unsent : /\ h = Head(todo[t]) /\ left = Tail(todo[t])
                            /\ unsent = IF success THEN failed[t] ELSE Append(failed[t], Head(todo[t]))
  OBVIOUS
<1>4. PICK q : q = unsent \o queue
  OBVIOUS
<1>5. /\ requests' = (requests \ {r}) \cup FlushRequests(t, left)
      /\ todo' = [todo EXCEPT ![t] = left]
      /\ \/ /\ left # <<>> /\ failed' = [failed EXCEPT ![t] = unsent]
            /\ UNCHANGED <<flushing, queue, excused>>
         \/ /\ left = <<>> /\ failed' = [failed EXCEPT ![t] = <<>>]
            /\ flushing' = [flushing EXCEPT ![t] = FALSE]
            /\ queue' = Trim(q) /\ excused' = excused \cup Dropped(q)
  BY <1>2, <1>3, <1>4 DEF FlushGoesOn, DownAnyway, Merge
<1>6. todo[t] # <<>> /\ todo[t][1].payload = r.payload /\ flushing[t]
  BY <1>2 DEF IInv, Linked, LinkedTo, FlushIdle
<1>7. /\ left \in Seq(Entry) /\ h \in Entry /\ El(todo[t]) = {h} \cup El(left)
      /\ Identities(todo[t]) = {h.id} \cup Identities(left) /\ h.payload = r.payload
  <2>1. todo[t] \in Seq(Entry)
    BY <1>1
  <2> QED BY <1>3, <1>6, <2>1, TailHas
<1>8. /\ Distinct(todo[t]) /\ Distinct(failed[t]) /\ Identities(todo[t]) \subseteq 1..entries
      /\ Identities(failed[t]) \subseteq 1..entries /\ Identities(todo[t]) \cap Identities(failed[t]) = {}
      /\ Taken(t) \cap Identities(queue) = {} /\ Distinct(queue) /\ Identities(queue) \subseteq 1..entries
  BY DEF IInv, Apart, Numbered
<1>9. Distinct(left) /\ h.id \notin Identities(left)
  <2>1. todo[t] \in Seq(Entry)
    BY <1>1
  <2> QED BY <1>3, <1>6, <1>8, <2>1, TailHas
<1>10. /\ unsent \in Seq(Entry) /\ Distinct(unsent) /\ El(failed[t]) \subseteq El(unsent) /\ (~success => h \in El(unsent))
       /\ Identities(unsent) \subseteq Identities(failed[t]) \cup {h.id}
  <2>1. failed[t] \in Seq(Entry) /\ h.id \notin Identities(failed[t])
    BY <1>1, <1>7, <1>8
  <2>2. CASE success
    BY <1>3, <1>8, <2>1, <2>2
  <2>3. CASE ~success
    <3>1. unsent = Append(failed[t], h)
      BY <1>3, <2>3
    <3> QED BY <1>7, <1>8, <2>1, <3>1, AppendHas
  <2> QED BY <2>2, <2>3
<1>11. /\ Identities(unsent) \cap Identities(left) = {} /\ Identities(unsent) \cap Identities(queue) = {}
       /\ Identities(left) \cap Identities(queue) = {}
       /\ Identities(unsent) \subseteq Taken(t) /\ Identities(left) \subseteq Taken(t)
       /\ Identities(unsent) \subseteq 1..entries /\ Identities(left) \subseteq 1..entries
  <2>1. Taken(t) = {h.id} \cup Identities(left) \cup Identities(failed[t])
    BY <1>7 DEF Taken
  <2>2. Identities(unsent) \subseteq Taken(t) /\ Identities(left) \subseteq Taken(t)
    BY <1>10, <2>1
  <2>3. Identities(unsent) \cap Identities(left) = {}
    BY <1>7, <1>8, <1>9, <1>10
  <2>4. Identities(unsent) \cap Identities(queue) = {} /\ Identities(left) \cap Identities(queue) = {}
    BY <1>8, <2>2
  <2>5. Identities(unsent) \subseteq 1..entries /\ Identities(left) \subseteq 1..entries
    BY <1>7, <1>8, <1>10
  <2> QED BY <2>2, <2>3, <2>4, <2>5
<1>12. /\ q \in Seq(Entry) /\ El(q) = El(unsent) \cup El(queue) /\ Distinct(q)
       /\ Identities(q) = Identities(unsent) \cup Identities(queue)
  BY <1>1, <1>4, <1>8, <1>10, <1>11, ConcatHas
<1>13. /\ Trim(q) \in Seq(Entry) /\ Len(Trim(q)) <= MaxQueue /\ Identities(Trim(q)) \subseteq Identities(q)
       /\ Distinct(Trim(q)) /\ Dropped(q) \subseteq Tabs
       /\ \A e \in El(q) : e \in El(Trim(q)) \/ e.payload.tab \in Dropped(q)
  BY <1>12, TrimHas
<1>14. /\ todo'[t] = left /\ \A u \in Tabs : u # t => todo'[u] = todo[u] /\ failed'[u] = failed[u] /\ flushing'[u] = flushing[u]
  BY <1>1, <1>5
<1>15. todo' \in [Tabs -> Seq(Entry)]
  BY <1>1, <1>5, <1>7
<1>16. \A x \in FlushRequests(t, left) :
          /\ x \in Request /\ x.by = t /\ Awaited(x) /\ ~x.served /\ left # <<>> /\ left[1].payload = x.payload
  <2> SUFFICES ASSUME NEW x \in FlushRequests(t, left)
               PROVE /\ x \in Request /\ x.by = t /\ Awaited(x) /\ ~x.served
                     /\ left # <<>> /\ left[1].payload = x.payload
    OBVIOUS
  <2>1. left # <<>>
    BY DEF FlushRequests
  <2>2. x = [payload |-> left[1].payload, by |-> t, kind |-> "flush", heard |-> TRUE, served |-> FALSE]
    BY <2>1 DEF FlushRequests
  <2>3. left[1] \in Entry
    BY <1>7, <2>1, TailHas
  <2>4. left[1].payload \in Payload
    BY <2>3 DEF Entry
  <2> QED BY <2>1, <2>2, <2>4 DEF Request, Kind, Awaited
<1>17. requests' \subseteq Request
  BY <1>1, <1>5, <1>16
<1>18. \A x \in requests \ {r} : ~(Awaited(x) /\ x.by = t)
  BY <1>2 DEF IInv, Linked, LinkedTo
<1>19. Linked'
  <2>1. ASSUME NEW x \in requests', Awaited(x) PROVE todo'[x.by] # <<>> /\ todo'[x.by][1].payload = x.payload
    <3>1. CASE x \in requests \ {r}
      BY <1>1, <1>14, <1>18, <2>1, <3>1 DEF IInv, Linked, LinkedTo
    <3>2. CASE x \in FlushRequests(t, left)
      BY <1>14, <1>16, <3>2
    <3> QED BY <1>5, <3>1, <3>2
  <2>2. ASSUME NEW x \in requests', NEW y \in requests', Awaited(x), Awaited(y), x.by = y.by PROVE x = y
    <3>1. CASE x \in requests \ {r} /\ y \in requests \ {r}
      BY <2>2, <3>1 DEF IInv, Linked, LinkedTo
    <3>2. CASE x \in FlushRequests(t, left) /\ y \in FlushRequests(t, left)
      BY <3>2 DEF FlushRequests
    <3> QED BY <1>5, <1>16, <1>18, <2>2, <3>1, <3>2
  <2> QED BY <2>1, <2>2 DEF Linked, LinkedTo
<1>20. Acked'
  BY <1>5, <1>16 DEF IInv, Acked
<1>21. ASSUME NEW u \in Tabs, NEW v \in Version, Reach(u, v), h \in El(unsent) \/ success
       PROVE \/ known[u] >= v
             \/ \E e \in El(unsent) \cup El(left) \cup El(queue) : Fits(e.payload, u, v)
             \/ \E w \in Tabs \ {t} : \E e \in El(todo[w]) \cup El(failed[w]) : Fits(e.payload, u, v)
             \/ \E x \in requests \ {r} : Fits(x.payload, u, v)
  <2>1. Fits(r.payload, u, v) /\ success => known[u] >= v
    <3> SUFFICES ASSUME Fits(r.payload, u, v), success PROVE known[u] >= v
      OBVIOUS
    <3>1. r.payload.tab = u /\ r.payload.upTo >= v /\ known[u] >= r.payload.upTo
      BY DEF Fits, IInv, Acked
    <3>2. r.payload.upTo \in Int /\ known[u] \in Int /\ v \in Int
      BY <1>1, SenderAssumption DEF Payload, Version
    <3> QED BY <3>1, <3>2
  <2>2. Fits(r.payload, u, v) /\ ~success => h \in El(unsent) /\ Fits(h.payload, u, v)
    BY <1>7, <1>21
  <2>3. CASE \E w \in Tabs : \E e \in El(todo[w]) \cup El(failed[w]) : Fits(e.payload, u, v)
    <3>4. PICK w \in Tabs : \E e \in El(todo[w]) \cup El(failed[w]) : Fits(e.payload, u, v)
      BY <2>3
    <3>1. PICK e \in El(todo[w]) \cup El(failed[w]) : Fits(e.payload, u, v)
      BY <3>4
    <3>2. CASE w # t
      BY <3>1, <3>2
    <3>3. CASE w = t
      <4>1. e = h \/ e \in El(left) \/ e \in El(failed[t])
        BY <1>7, <3>1, <3>3
      <4>2. e = h => Fits(r.payload, u, v)
        BY <1>7, <3>1
      <4>3. e \in El(failed[t]) => e \in El(unsent)
        BY <1>10
      <4> QED BY <2>1, <2>2, <3>1, <4>1, <4>2, <4>3
    <3> QED BY <3>2, <3>3
  <2>4. CASE \E x \in requests : Fits(x.payload, u, v)
    BY <2>1, <2>2, <2>4
  <2>5. CASE known[u] >= v \/ \E e \in El(queue) : Fits(e.payload, u, v)
    BY <2>5
  <2> QED BY <1>21, <2>3, <2>4, <2>5 DEF Reach
<1>22. CASE left # <<>>
  <2>1. failed' = [failed EXCEPT ![t] = unsent] /\ UNCHANGED <<flushing, queue, excused>>
    BY <1>5, <1>22
  <2>2. failed'[t] = unsent /\ failed' \in [Tabs -> Seq(Entry)]
    BY <1>1, <1>10, <2>1
  <2>3. FlushIdle'
    BY <1>6, <1>14, <1>22, <2>1 DEF IInv, FlushIdle
  <2>4. Taken(t)' = Identities(left) \cup Identities(unsent)
    BY <1>14, <2>2 DEF Taken
  <2>5. \A u \in Tabs : u # t => Taken(u)' = Taken(u)
    BY <1>14 DEF Taken
  <2>6. ASSUME NEW u \in Tabs
        PROVE /\ Numbered(todo'[u], entries') /\ Numbered(failed'[u], entries')
              /\ Identities(todo'[u]) \cap Identities(failed'[u]) = {}
              /\ Taken(u)' \cap Identities(queue') = {}
    <3>1. CASE u = t
      BY <1>9, <1>10, <1>11, <1>14, <2>1, <2>2, <2>4, <3>1 DEF Numbered
    <3>2. CASE u # t
      BY <1>14, <2>1, <2>5, <3>2 DEF IInv, Apart
    <3> QED BY <3>1, <3>2
  <2>7. ASSUME NEW u \in Tabs, NEW w \in Tabs, u # w PROVE Taken(u)' \cap Taken(w)' = {}
    <3>1. \A x \in Tabs : Taken(x)' \subseteq Taken(x)
      BY <1>11, <2>4, <2>5
    <3> QED BY <2>7, <3>1 DEF IInv, Apart
  <2>8. Apart'
    BY <2>1, <2>6, <2>7 DEF Apart, IInv
  <2>9. ASSUME NEW u \in Tabs, NEW v \in Version, Reach(u, v) PROVE Reach(u, v)' \/ u \in excused'
    <3>1. \A e \in El(unsent) \cup El(left) : e \in El(todo'[t]) \cup El(failed'[t])
      BY <1>14, <2>2
    <3>2. \A x \in requests \ {r} : x \in requests'
      BY <1>5
    <3>3. CASE \E e \in El(unsent) \cup El(left) \cup El(queue) : Fits(e.payload, u, v)
      BY <2>1, <3>1, <3>3 DEF Reach
    <3>4. CASE \E w \in Tabs \ {t} : \E e \in El(todo[w]) \cup El(failed[w]) : Fits(e.payload, u, v)
      BY <1>14, <3>4 DEF Reach
    <3>5. CASE known[u] >= v \/ \E x \in requests \ {r} : Fits(x.payload, u, v)
      BY <3>2, <3>5 DEF Reach
    <3> QED BY <1>10, <1>21, <2>9, <3>3, <3>4, <3>5
  <2>10. Lossless'
    BY <2>1, <2>9, LosslessKept DEF IInv
  <2> QED BY <1>1, <1>15, <1>17, <1>19, <1>20, <2>1, <2>2, <2>3, <2>8, <2>10
<1>23. CASE left = <<>>
  <2>1. /\ failed' = [failed EXCEPT ![t] = <<>>] /\ flushing' = [flushing EXCEPT ![t] = FALSE]
        /\ queue' = Trim(q) /\ excused' = excused \cup Dropped(q)
    BY <1>5, <1>23
  <2>2. /\ failed'[t] = <<>> /\ failed' \in [Tabs -> Seq(Entry)]
        /\ ~flushing'[t] /\ flushing' \in [Tabs -> BOOLEAN]
    BY <1>1, <2>1, EmptyHas
  <2>3. FlushIdle'
    BY <1>14, <1>23, <2>1, <2>2 DEF IInv, FlushIdle
  <2>4. Taken(t)' = {}
    BY <1>14, <1>23, <2>2, EmptyHas DEF Taken
  <2>5. \A u \in Tabs : u # t => Taken(u)' = Taken(u)
    BY <1>14 DEF Taken
  <2>6. Identities(queue') \subseteq Identities(queue) \cup Taken(t)
    BY <1>11, <1>12, <1>13, <2>1
  <2>7. ASSUME NEW u \in Tabs
        PROVE /\ Numbered(todo'[u], entries') /\ Numbered(failed'[u], entries')
              /\ Identities(todo'[u]) \cap Identities(failed'[u]) = {}
              /\ Taken(u)' \cap Identities(queue') = {}
    <3>1. CASE u = t
      BY <1>14, <1>23, <2>2, <2>4, <3>1, EmptyHas DEF Numbered
    <3>2. CASE u # t
      <4>1. Taken(u) \cap Identities(queue) = {} /\ Taken(u) \cap Taken(t) = {}
        BY <3>2 DEF IInv, Apart
      <4>2. Taken(u)' \cap Identities(queue') = {}
        BY <2>5, <2>6, <3>2, <4>1
      <4> QED BY <1>14, <3>2, <4>2 DEF IInv, Apart
    <3> QED BY <3>1, <3>2
  <2>8. ASSUME NEW u \in Tabs, NEW w \in Tabs, u # w PROVE Taken(u)' \cap Taken(w)' = {}
    <3>1. \A x \in Tabs : Taken(x)' \subseteq Taken(x)
      BY <2>4, <2>5
    <3> QED BY <2>8, <3>1 DEF IInv, Apart
  <2>9. Numbered(queue', entries')
    BY <1>8, <1>11, <1>12, <1>13, <2>1 DEF Numbered
  <2>10. Apart'
    BY <2>7, <2>8, <2>9 DEF Apart
  <2>11. ASSUME NEW u \in Tabs, NEW v \in Version, Reach(u, v) PROVE Reach(u, v)' \/ u \in excused'
    <3>1. \A e \in El(unsent) \cup El(queue) : e \in El(queue') \/ e.payload.tab \in excused'
      BY <1>12, <1>13, <2>1
    <3>2. \A x \in requests \ {r} : x \in requests'
      BY <1>5
    <3>3. CASE \E e \in El(unsent) \cup El(left) \cup El(queue) : Fits(e.payload, u, v)
      BY <1>23, <3>1, <3>3, EmptyHas DEF Reach, Fits
    <3>4. CASE \E w \in Tabs \ {t} : \E e \in El(todo[w]) \cup El(failed[w]) : Fits(e.payload, u, v)
      BY <1>14, <3>4 DEF Reach
    <3>5. CASE known[u] >= v \/ \E x \in requests \ {r} : Fits(x.payload, u, v)
      BY <3>2, <3>5 DEF Reach
    <3> QED BY <1>10, <1>21, <2>11, <3>3, <3>4, <3>5
  <2>12. Lossless'
    BY <2>1, <2>11, LosslessKept DEF IInv
  <2> QED BY <1>1, <1>13, <1>15, <1>17, <1>19, <1>20, <2>1, <2>2, <2>3, <2>10, <2>12
<1> QED BY <1>22, <1>23

-----------------------------------------------------------------------------
(* The invariant holds. *)

\* What nothing but the state of the tabs changes, changes nothing of the payloads.
LEMMA PayloadsSame ==
  ASSUME IInv, UNCHANGED <<built, queue, flushing, todo, failed, requests, known, entries, excused>>
  PROVE  Apart' /\ FlushIdle' /\ Linked' /\ Acked' /\ Lossless'
<1>1. Apart'
  BY ApartSame DEF IInv
<1>2. FlushIdle' /\ Linked' /\ Acked'
  BY DEF IInv, FlushIdle, Linked, Acked
<1>3. \A u \in Tabs, v \in Version : Reach(u, v)' <=> Reach(u, v)
  BY DEF Reach
<1>4. Lossless'
  BY <1>3 DEF IInv, Lossless
<1> QED BY <1>1, <1>2, <1>4

\* What has changed of the requests only, with every payload that is neither known nor
\* excused kept.
LEMMA RequestsOnly ==
  ASSUME IInv, requests' \subseteq Request, known' \in [Tabs -> Version], excused \subseteq excused',
         UNCHANGED <<built, queue, flushing, todo, failed, entries>>,
         \A t \in Tabs : known'[t] >= known[t],
         \A r \in requests : \/ \E s \in requests' : s.payload = r.payload
                             \/ r.payload.tab \in excused'
                             \/ known'[r.payload.tab] >= r.payload.upTo
  PROVE  Apart' /\ FlushIdle' /\ Lossless'
<1>1. Apart'
  BY ApartSame DEF IInv
<1>2. FlushIdle'
  BY DEF IInv, FlushIdle
<1>3. /\ \A t \in Tabs : known'[t] >= known[t] /\ known[t] \in Int /\ known'[t] \in Int
      /\ \A r \in requests : r.payload \in Payload
  BY SenderAssumption DEF IInv, TypeOK, Version, Request
<1>4. \A e \in El(queue) : e \in El(queue')
  OBVIOUS
<1>5. ASSUME NEW t \in Tabs, NEW v \in Version, Reach(t, v) PROVE Reach(t, v)' \/ t \in excused'
  BY <1>3, <1>4, <1>5, ReachKept
<1>6. Lossless'
  BY <1>5, LosslessKept DEF IInv
<1> QED BY <1>1, <1>2, <1>6

\* A tab comes to the version after this one.
LEMMA NextVersion ==
  ASSUME TypeOK, Finished, NEW t \in Tabs, page[t] # "closed"
  PROVE  /\ version[t] \in Int /\ version[t] + 1 \in Version
         /\ version[t] < MaxVersion => version[t] + 1 <= MaxVersion
BY SenderAssumption DEF TypeOK, Finished, Version

\* Before anything happens.
LEMMA InvInit == Init => IInv
<1> SUFFICES ASSUME Init PROVE IInv
  OBVIOUS
<1>1. 0 \in Version /\ 0 <= MaxVersion /\ \A v \in Version : v \in Int
  BY SenderAssumption DEF Version
<1>2. TypeOK
  <2>1. /\ page \in [Tabs -> {"new", "open", "closed"}] /\ version \in [Tabs -> Version] /\ built \in [Tabs -> Version]
        /\ flushed \in [Tabs -> BOOLEAN] /\ flushing \in [Tabs -> BOOLEAN]
        /\ known \in [Tabs -> Version] /\ shown \in [Tabs -> Version]
    BY <1>1 DEF Init
  <2>2. queue \in Seq(Entry) /\ Len(queue) <= MaxQueue /\ todo \in [Tabs -> Seq(Entry)] /\ failed \in [Tabs -> Seq(Entry)]
    BY EmptyHas, SenderAssumption DEF Init
  <2> QED BY <2>1, <2>2, SenderAssumption DEF Init, TypeOK
<1>3. Apart
  <2>1. Numbered(queue, entries) /\ \A t \in Tabs : todo[t] = <<>> /\ failed[t] = <<>>
    BY EmptyHas DEF Init, Numbered
  <2>2. \A t \in Tabs : Taken(t) = {} /\ Numbered(todo[t], entries) /\ Numbered(failed[t], entries)
    BY <2>1, EmptyHas DEF Taken, Numbered
  <2> QED BY <2>1, <2>2, EmptyHas DEF Apart
<1>4. FlushIdle /\ Linked /\ Acked
  BY DEF Init, FlushIdle, Linked, LinkedTo, Acked
<1>5. Lossless
  BY <1>1 DEF Init, Lossless, Reach
<1>6. Finished
  BY <1>1 DEF Init, Finished
<1> QED BY <1>2, <1>3, <1>4, <1>5, <1>6 DEF IInv

\* A tab opens, records or is shown again.
LEMMA TabStep ==
  ASSUME IInv, NEW t \in Tabs, Open(t) \/ Track(t) \/ Show(t)
  PROVE  IInv'
<1>1. UNCHANGED <<built, online, told, queue, flushing, todo, failed, requests, known, shown, stored,
                  faults, outages, expiries, entries, excused>>
  BY DEF Open, Track, Show, tabVars, flushVars, serverVars, boundVars
<1>2. Apart' /\ FlushIdle' /\ Linked' /\ Acked' /\ Lossless'
  BY <1>1, PayloadsSame
<1>3. /\ page \in [Tabs -> {"new", "open", "closed"}] /\ version \in [Tabs -> Version] /\ flushed \in [Tabs -> BOOLEAN]
      /\ page[t] # "closed" /\ 1 \in Version /\ 1 <= MaxVersion
  BY SenderAssumption DEF IInv, TypeOK, Open, Track, Show, Version
<1>4. version[t] + 1 \in Version /\ (version[t] < MaxVersion => version[t] + 1 <= MaxVersion)
  BY <1>3, NextVersion DEF IInv
<1>5. /\ page' \in [Tabs -> {"new", "open", "closed"}] /\ version' \in [Tabs -> Version]
      /\ flushed' \in [Tabs -> BOOLEAN]
  BY <1>3, <1>4 DEF Open, Track, Show
<1>6. TypeOK'
  BY <1>1, <1>5 DEF IInv, TypeOK
<1>7. Finished'
  <2> SUFFICES ASSUME NEW u \in Tabs
               PROVE /\ page'[u] = "closed" /\ u \notin excused' => built'[u] = version'[u]
                     /\ page'[u] # "closed" => version'[u] <= MaxVersion
    BY DEF Finished
  <2>1. CASE u # t
    BY <1>1, <1>3, <2>1 DEF IInv, Finished, Open, Track, Show
  <2>2. CASE u = t
    BY <1>3, <1>4, <2>2 DEF IInv, Finished, Open, Track, Show
  <2> QED BY <2>1, <2>2
<1> QED BY <1>2, <1>6, <1>7 DEF IInv

\* A tab sends a payload, or sends a beacon and is hidden.
LEMMA SendStep ==
  ASSUME IInv, NEW t \in Tabs, SendPayload(t) \/ Hide(t)
  PROVE  IInv'
<1>1. /\ UNCHANGED <<page, online, told, flushing, todo, failed, known, shown, stored, faults, outages, expiries>>
      /\ page[t] = "open" /\ version[t] < MaxVersion /\ version' = [version EXCEPT ![t] = @ + 1]
      /\ flushed' = flushed \/ flushed' = [flushed EXCEPT ![t] = TRUE]
      /\ \E kind \in {"send", "beacon"} : Emit(t, kind, version[t] + 1)
  BY DEF SendPayload, Hide, flushVars, serverVars, boundVars
<1>2. /\ version[t] + 1 \in Version /\ version[t] + 1 <= MaxVersion
  BY <1>1, NextVersion DEF IInv
<1>3. PICK kind \in {"send", "beacon"} : Emit(t, kind, version[t] + 1)
  BY <1>1
<1>4. PICK upTo \in Version : upTo = version[t] + 1
  BY <1>2
<1>5. Emit(t, kind, upTo)
  BY <1>3, <1>4
<1>6. /\ built' = [built EXCEPT ![t] = upTo]
      /\ queue' \in Seq(Entry) /\ Len(queue') <= MaxQueue /\ entries' \in Nat /\ excused' \subseteq Tabs
      /\ requests' \subseteq Request /\ excused \subseteq excused'
      /\ Apart' /\ Linked' /\ Acked' /\ Lossless'
  BY <1>1, <1>5, Emitted
<1>7. FlushIdle'
  BY <1>1 DEF IInv, FlushIdle
<1>8. /\ version' \in [Tabs -> Version] /\ flushed' \in [Tabs -> BOOLEAN] /\ built' \in [Tabs -> Version]
  BY <1>1, <1>2, <1>4, <1>6 DEF IInv, TypeOK
<1>9. TypeOK'
  BY <1>1, <1>6, <1>8 DEF IInv, TypeOK
<1>10. Finished'
  <2> SUFFICES ASSUME NEW u \in Tabs
               PROVE /\ page'[u] = "closed" /\ u \notin excused' => built'[u] = version'[u]
                     /\ page'[u] # "closed" => version'[u] <= MaxVersion
    BY DEF Finished
  <2>1. built \in [Tabs -> Version] /\ version \in [Tabs -> Version]
    BY DEF IInv, TypeOK
  <2>2. CASE u # t
    BY <1>1, <1>6, <2>1, <2>2 DEF IInv, Finished
  <2>3. CASE u = t
    BY <1>1, <1>2, <2>1, <2>3
  <2> QED BY <2>2, <2>3
<1> QED BY <1>6, <1>7, <1>9, <1>10 DEF IInv

\* A flush begins.
LEMMA OnlineStep ==
  ASSUME IInv, NEW t \in Tabs, HandleOnline(t)
  PROVE  IInv'
<1>1. /\ UNCHANGED <<page, version, built, flushed, online, known, shown, stored, faults, outages, entries>>
      /\ told' = told \ {t}
  BY DEF HandleOnline, tabVars, serverVars
<1>2. /\ queue' \in Seq(Entry) /\ Len(queue') <= MaxQueue /\ excused' \subseteq Tabs /\ expiries' \in 0..MaxExpiries
      /\ todo' \in [Tabs -> Seq(Entry)] /\ failed' \in [Tabs -> Seq(Entry)] /\ flushing' \in [Tabs -> BOOLEAN]
      /\ requests' \subseteq Request /\ excused \subseteq excused'
      /\ Apart' /\ FlushIdle' /\ Linked' /\ Acked' /\ Lossless'
  BY Flushed
<1>3. TypeOK'
  <2>1. told' \subseteq Tabs
    BY <1>1 DEF IInv, TypeOK
  <2> QED BY <1>1, <1>2, <2>1 DEF IInv, TypeOK
<1>4. Finished'
  BY <1>1, <1>2 DEF IInv, Finished
<1> QED BY <1>2, <1>3, <1>4 DEF IInv

\* The connection goes and comes back.
LEMMA ConnectionStep ==
  ASSUME IInv, GoOffline \/ GoOnline
  PROVE  IInv'
<1>1. UNCHANGED <<page, version, built, flushed, queue, flushing, todo, failed, requests, known, shown, stored,
                  faults, expiries, entries, excused>>
  BY DEF GoOffline, GoOnline, tabVars, flushVars, serverVars, boundVars
<1>2. Apart' /\ FlushIdle' /\ Linked' /\ Acked' /\ Lossless'
  BY <1>1, PayloadsSame
<1>3. online' \in BOOLEAN /\ told' \subseteq Tabs
  BY DEF IInv, TypeOK, GoOffline, GoOnline
<1>4. outages' \in 0..MaxOffline
  BY SenderAssumption DEF IInv, TypeOK, GoOffline, GoOnline, boundVars
<1>5. TypeOK'
  BY <1>1, <1>3, <1>4 DEF IInv, TypeOK
<1>6. Finished'
  BY <1>1 DEF IInv, Finished
<1> QED BY <1>2, <1>5, <1>6 DEF IInv

\* The server stores a payload.
LEMMA ServeStep ==
  ASSUME IInv, NEW r \in requests, Serve(r)
  PROVE  IInv'
<1>1. PICK p : p = r.payload
  OBVIOUS
<1>2. /\ UNCHANGED <<page, version, built, flushed, online, told, queue, flushing, todo, failed, faults, outages,
                     expiries, entries, excused>>
      /\ known' = [known EXCEPT ![p.tab] = Larger(@, p.upTo)] /\ shown' = [shown EXCEPT ![p.tab] = p.asOf]
      /\ stored' = stored \cup {<<p.tab, p.upTo>>}
      /\ requests' = IF r.heard THEN (requests \ {r}) \cup {[r EXCEPT !.served = TRUE]} ELSE requests \ {r}
  BY <1>1 DEF Serve, tabVars, flushVars, boundVars
<1>3. /\ requests \subseteq Request /\ r \in Request /\ p \in Payload /\ p.tab \in Tabs /\ p.upTo \in Version /\ p.asOf \in Version
      /\ known \in [Tabs -> Version] /\ shown \in [Tabs -> Version] /\ stored \subseteq Tabs \X Version
      /\ \A v \in Version : v \in Int
  <2>1. requests \subseteq Request /\ known \in [Tabs -> Version] /\ shown \in [Tabs -> Version] /\ stored \subseteq Tabs \X Version
    BY DEF IInv, TypeOK
  <2>2. p \in Payload
    BY <1>1, <2>1 DEF Request
  <2>3. p.tab \in Tabs /\ p.upTo \in Version /\ p.asOf \in Version
    BY <2>2 DEF Payload
  <2>4. \A v \in Version : v \in Int
    BY SenderAssumption DEF Version
  <2> QED BY <2>1, <2>2, <2>3, <2>4
<1>4. PICK s : s = [r EXCEPT !.served = TRUE]
  OBVIOUS
<1>5. /\ s \in Request /\ s.payload = r.payload /\ s.by = r.by /\ s.kind = r.kind /\ s.heard = r.heard /\ s.served
  BY <1>3, <1>4 DEF Request
<1>6. requests' \subseteq (requests \ {r}) \cup {s} /\ requests \ {r} \subseteq requests' /\ (r.heard => s \in requests')
      /\ (s \in requests' => r.heard \/ s \in requests \ {r})
  BY <1>2, <1>4
<1>7. /\ known' \in [Tabs -> Version] /\ \A t \in Tabs : known'[t] >= known[t]
      /\ known'[p.tab] >= p.upTo
  <2>1. Larger(known[p.tab], p.upTo) \in Version /\ Larger(known[p.tab], p.upTo) >= known[p.tab]
        /\ Larger(known[p.tab], p.upTo) >= p.upTo
    BY <1>3 DEF Larger
  <2>2. \A t \in Tabs : known'[t] = IF t = p.tab THEN Larger(known[p.tab], p.upTo) ELSE known[t]
    BY <1>2, <1>3
  <2>3. known' \in [Tabs -> Version]
    BY <1>2, <1>3, <2>1
  <2> QED BY <1>3, <2>1, <2>2, <2>3
<1>8. requests' \subseteq Request
  BY <1>3, <1>5, <1>6
<1>9. Apart' /\ FlushIdle' /\ Lossless'
  <2>1. \A x \in requests : \/ \E y \in requests' : y.payload = x.payload
                            \/ known'[x.payload.tab] >= x.payload.upTo
    BY <1>1, <1>6, <1>7
  <2> QED BY <1>2, <1>7, <1>8, <2>1, RequestsOnly
<1>10. Linked'
  <2>1. ASSUME NEW x \in requests', Awaited(x)
        PROVE \E y \in requests : /\ Awaited(y) /\ y.by = x.by /\ y.payload = x.payload
                                  /\ x = IF y = r THEN s ELSE y
    BY <1>5, <1>6, <2>1 DEF Awaited
  <2>2. todo' = todo
    BY <1>2
  <2>3. ASSUME NEW x \in requests', Awaited(x) PROVE todo'[x.by] # <<>> /\ todo'[x.by][1].payload = x.payload
    BY <2>1, <2>2, <2>3 DEF IInv, Linked, LinkedTo
  <2>4. ASSUME NEW x \in requests', NEW y \in requests', Awaited(x), Awaited(y), x.by = y.by PROVE x = y
    <3>1. PICK a \in requests : Awaited(a) /\ a.by = x.by /\ x = IF a = r THEN s ELSE a
      BY <2>1, <2>4
    <3>2. PICK b \in requests : Awaited(b) /\ b.by = y.by /\ y = IF b = r THEN s ELSE b
      BY <2>1, <2>4
    <3>3. a = b
      BY <2>4, <3>1, <3>2 DEF IInv, Linked, LinkedTo
    <3> QED BY <3>1, <3>2, <3>3
  <2> QED BY <2>3, <2>4 DEF Linked, LinkedTo
<1>11. Acked'
  <2> SUFFICES ASSUME NEW x \in requests', x.served PROVE known'[x.payload.tab] >= x.payload.upTo
    BY DEF Acked
  <2>1. CASE x = s
    BY <1>1, <1>5, <1>7, <2>1
  <2>2. CASE x \in requests
    <3>1. x.payload \in Payload /\ x.payload.tab \in Tabs /\ x.payload.upTo \in Int
      BY <1>3, <2>2 DEF Request, Payload
    <3>2. known[x.payload.tab] >= x.payload.upTo
      BY <2>2 DEF IInv, Acked
    <3>3. known[x.payload.tab] \in Int /\ known'[x.payload.tab] \in Int /\ known'[x.payload.tab] >= known[x.payload.tab]
      BY <1>3, <1>7, <3>1
    <3> QED BY <3>1, <3>2, <3>3
  <2> QED BY <1>6, <2>1, <2>2
<1>12. TypeOK'
  <2>1. shown' \in [Tabs -> Version] /\ stored' \subseteq Tabs \X Version
    BY <1>2, <1>3
  <2> QED BY <1>2, <1>7, <1>8, <2>1 DEF IInv, TypeOK
<1>13. Finished'
  BY <1>2 DEF IInv, Finished
<1> QED BY <1>9, <1>10, <1>11, <1>12, <1>13 DEF IInv

\* A request or its answer is over, and its flush goes on.
LEMMA FlushStep ==
  ASSUME IInv, NEW r \in requests, Awaited(r), NEW success \in BOOLEAN, success => r.served,
         FlushGoesOn(r.by, r, success),
         UNCHANGED <<page, version, built, flushed, online, told, known, shown, stored, entries, outages, expiries>>,
         faults' \in 0..MaxFaults
  PROVE  IInv'
<1>1. /\ queue' \in Seq(Entry) /\ Len(queue') <= MaxQueue /\ excused' \subseteq Tabs
      /\ todo' \in [Tabs -> Seq(Entry)] /\ failed' \in [Tabs -> Seq(Entry)] /\ flushing' \in [Tabs -> BOOLEAN]
      /\ requests' \subseteq Request /\ excused \subseteq excused'
      /\ Apart' /\ FlushIdle' /\ Linked' /\ Acked' /\ Lossless'
  BY WentOn
<1>2. TypeOK'
  BY <1>1 DEF IInv, TypeOK
<1>3. Finished'
  BY <1>1 DEF IInv, Finished
<1> QED BY <1>1, <1>2, <1>3 DEF IInv

\* A request that no flush waits for is over.
LEMMA RequestGone ==
  ASSUME IInv, NEW r \in requests, r.served \/ r.payload.tab \in excused',
         requests' = requests \ {r}, excused \subseteq excused', excused' \subseteq Tabs,
         UNCHANGED <<page, version, built, flushed, online, told, queue, flushing, todo, failed, known, shown, stored,
                     entries, outages, expiries>>,
         faults' \in 0..MaxFaults
  PROVE  IInv'
<1>1. requests' \subseteq Request /\ known' \in [Tabs -> Version] /\ \A t \in Tabs : known'[t] >= known[t]
  BY SenderAssumption DEF IInv, TypeOK, Version
<1>2. \A x \in requests : \/ \E y \in requests' : y.payload = x.payload
                          \/ x.payload.tab \in excused'
                          \/ known'[x.payload.tab] >= x.payload.upTo
  BY DEF IInv, Acked
<1>3. Apart' /\ FlushIdle' /\ Lossless'
  BY <1>1, <1>2, RequestsOnly
<1>4. Linked' /\ Acked'
  BY DEF IInv, Linked, LinkedTo, Acked
<1>5. TypeOK'
  BY <1>1 DEF IInv, TypeOK
<1>6. Finished'
  BY DEF IInv, Finished
<1> QED BY <1>3, <1>4, <1>5, <1>6 DEF IInv

\* A tab gets an answer.
LEMMA AnswerStep ==
  ASSUME IInv, NEW r \in requests, Answer(r)
  PROVE  IInv'
<1>1. /\ UNCHANGED <<page, version, built, flushed, online, told, known, shown, stored, entries, faults, outages, expiries>>
      /\ r.served /\ r.heard /\ faults' \in 0..MaxFaults
  BY DEF Answer, tabVars, serverVars, boundVars, IInv, TypeOK
<1>2. CASE requests' = requests \ {r} /\ UNCHANGED <<queue, flushVars, excused>>
  <2>1. UNCHANGED <<flushing, todo, failed>> /\ excused' \subseteq Tabs /\ excused \subseteq excused'
    BY <1>2 DEF flushVars, IInv, TypeOK
  <2> QED BY <1>1, <1>2, <2>1, RequestGone
<1>3. CASE r.kind = "flush" /\ FlushGoesOn(r.by, r, TRUE)
  BY <1>1, <1>3, FlushStep DEF Awaited
<1> QED BY <1>2, <1>3 DEF Answer

\* A request or its answer is lost.
LEMMA LoseStep ==
  ASSUME IInv, NEW r \in requests, Lose(r)
  PROVE  IInv'
<1>1. UNCHANGED <<page, version, built, flushed, online, told, known, shown, stored, entries, outages, expiries>>
  BY DEF Lose, tabVars, serverVars
<1>2. faults' \in 0..MaxFaults
  BY SenderAssumption DEF Lose, IInv, TypeOK
<1>3. CASE r.kind = "flush" /\ r.heard /\ FlushGoesOn(r.by, r, FALSE)
  BY <1>1, <1>2, <1>3, FlushStep DEF Awaited
<1>4. CASE requests' = requests \ {r} /\ excused' = excused \cup GivenUp(r) /\ UNCHANGED <<queue, flushVars>>
  <2>1. r.payload.tab \in Tabs /\ excused \subseteq Tabs
    BY DEF IInv, TypeOK, Request, Payload
  <2>2. r.served \/ r.payload.tab \in excused'
    BY <1>4 DEF GivenUp
  <2>3. UNCHANGED <<flushing, todo, failed>> /\ excused' \subseteq Tabs /\ excused \subseteq excused'
    BY <1>4, <2>1 DEF flushVars, GivenUp
  <2> QED BY <1>1, <1>2, <1>4, <2>2, <2>3, RequestGone
<1> QED BY <1>3, <1>4 DEF Lose

\* sendSession gives up on a request after its timeout and queues the payload.
LEMMA TimeoutStep ==
  ASSUME IInv, NEW r \in requests, Timeout(r)
  PROVE  IInv'
<1>1. PICK payload : payload = [r.payload EXCEPT !.asOf = version[r.by]]
  OBVIOUS
<1>2. PICK q : q = Append(queue, [payload |-> payload, id |-> entries + 1])
  OBVIOUS
<1>3. PICK s : s = [r EXCEPT !.heard = FALSE]
  OBVIOUS
<1>4. /\ UNCHANGED <<page, version, built, flushed, online, told, flushing, todo, failed, known, shown, stored,
                     outages, expiries>>
      /\ r.kind = "send" /\ r.heard
      /\ queue' = Trim(q) /\ entries' = entries + 1 /\ excused' = excused \cup Dropped(q)
      /\ requests' = IF r.served THEN requests \ {r} ELSE (requests \ {r}) \cup {s}
  BY <1>1, <1>2, <1>3 DEF Timeout, Requeue, Enqueue, tabVars, flushVars, serverVars
<1>5. faults' \in 0..MaxFaults
  BY SenderAssumption DEF Timeout, IInv, TypeOK
<1>6. /\ requests \subseteq Request /\ r \in Request /\ known \in [Tabs -> Version] /\ entries \in Nat /\ excused \subseteq Tabs
      /\ \A x \in requests : x.payload \in Payload
  BY DEF IInv, TypeOK, Request
<1>7. payload \in Payload /\ payload.tab = r.payload.tab /\ payload.upTo = r.payload.upTo
  <2>1. r.payload \in Payload /\ version[r.by] \in Version
    BY <1>6 DEF Request, IInv, TypeOK
  <2> QED BY <1>1, <2>1 DEF Payload
<1>8. s \in Request /\ s.payload = r.payload /\ ~s.heard /\ s.served = r.served
  BY <1>3, <1>6 DEF Request
<1>9. /\ Trim(q) \in Seq(Entry) /\ Len(Trim(q)) <= MaxQueue /\ Dropped(q) \subseteq Tabs
      /\ Numbered(Trim(q), entries + 1) /\ Identities(Trim(q)) \subseteq Identities(queue) \cup {entries + 1}
      /\ \A e \in El(queue) : e \in El(Trim(q)) \/ e.payload.tab \in Dropped(q)
      /\ (\E e \in El(Trim(q)) : e.payload = payload) \/ payload.tab \in Dropped(q)
  BY <1>2, <1>7, Enqueued DEF IInv
<1>10. Apart'
  BY <1>4, <1>9, ApartEnqueued DEF IInv
<1>11. FlushIdle'
  BY <1>4 DEF IInv, FlushIdle
<1>12. \A x \in requests' : Awaited(x) => x \in requests
  BY <1>4, <1>8 DEF Awaited
<1>13. Linked'
  BY <1>4, <1>12 DEF IInv, Linked, LinkedTo
<1>14. Acked'
  <2>1. \A x \in requests' : x.served => x \in requests
    BY <1>4, <1>8
  <2> QED BY <1>4, <2>1 DEF IInv, Acked
<1>15. Lossless'
  <2>1. \A t \in Tabs : known'[t] >= known[t] /\ known[t] \in Int /\ known'[t] \in Int
    BY <1>4, <1>6, SenderAssumption DEF Version
  <2>2. \A e \in El(queue) : e \in El(queue') \/ e.payload.tab \in excused'
    BY <1>4, <1>9
  <2>3. \A x \in requests : \/ \E y \in requests' : y.payload.tab = x.payload.tab /\ y.payload.upTo = x.payload.upTo
                            \/ \E e \in El(queue') : e.payload.tab = x.payload.tab /\ e.payload.upTo = x.payload.upTo
                            \/ x.payload.tab \in excused'
    BY <1>4, <1>7, <1>9
  <2>4. ASSUME NEW t \in Tabs, NEW v \in Version, Reach(t, v) PROVE Reach(t, v)' \/ t \in excused'
    BY <1>4, <2>1, <2>2, <2>3, <2>4, ReachKept
  <2>5. excused \subseteq excused'
    BY <1>4
  <2> QED BY <1>4, <2>4, <2>5, LosslessKept DEF IInv
<1>16. TypeOK'
  <2>1. requests' \subseteq Request /\ excused' \subseteq Tabs /\ entries' \in Nat
    BY <1>4, <1>6, <1>8, <1>9
  <2> QED BY <1>4, <1>5, <1>9, <2>1 DEF IInv, TypeOK
<1>17. Finished'
  BY <1>4 DEF IInv, Finished
<1> QED BY <1>10, <1>11, <1>13, <1>14, <1>15, <1>16, <1>17 DEF IInv

\* The requests of a closed tab live on, unheard.
LEMMA OrphanedAre ==
  ASSUME IInv, NEW t \in Tabs
  PROVE  /\ Orphaned(t) \subseteq Request
         /\ \A r \in requests : \E s \in Orphaned(t) : s.payload = r.payload
         /\ \A s \in Orphaned(t) : \E r \in requests : s.payload = r.payload /\ s.served = r.served
         /\ \A s \in Orphaned(t) : Awaited(s) => s \in requests /\ s.by # t
<1>1. requests \subseteq Request
  BY DEF IInv, TypeOK
<1>2. ASSUME NEW r \in requests, NEW s, s = [r EXCEPT !.heard = FALSE]
      PROVE s \in Request /\ s.payload = r.payload /\ s.served = r.served /\ ~s.heard
  BY <1>1, <1>2 DEF Request
<1>3. \A s \in Orphaned(t) : \E r \in requests : s = IF r.by = t THEN [r EXCEPT !.heard = FALSE] ELSE r
  BY DEF Orphaned
<1>4. \A r \in requests : (IF r.by = t THEN [r EXCEPT !.heard = FALSE] ELSE r) \in Orphaned(t)
  BY DEF Orphaned
<1>5. ASSUME NEW s \in Orphaned(t)
      PROVE /\ s \in Request /\ \E r \in requests : s.payload = r.payload /\ s.served = r.served
            /\ Awaited(s) => s \in requests /\ s.by # t
  <2>1. PICK r \in requests : s = IF r.by = t THEN [r EXCEPT !.heard = FALSE] ELSE r
    BY <1>3
  <2>2. CASE r.by = t
    BY <1>2, <2>1, <2>2 DEF Awaited
  <2>3. CASE r.by # t
    BY <1>1, <2>1, <2>3
  <2> QED BY <2>2, <2>3
<1>6. ASSUME NEW r \in requests PROVE \E s \in Orphaned(t) : s.payload = r.payload
  <2>1. CASE r.by = t
    BY <1>2, <1>4, <2>1
  <2>2. CASE r.by # t
    BY <1>4, <2>2
  <2> QED BY <2>1, <2>2
<1> QED BY <1>5, <1>6

\* A tab goes away for good.
LEMMA CloseStep ==
  ASSUME IInv, NEW t \in Tabs, Close(t)
  PROVE  IInv'
<1>1. PICK payload : payload = [tab |-> t, upTo |-> version[t] + 1, asOf |-> version[t] + 1]
  OBVIOUS
<1>2. PICK q, beacon : /\ q = Append(queue, [payload |-> payload, id |-> entries + 1])
                      /\ beacon = [payload |-> payload, by |-> t, kind |-> "beacon", heard |-> FALSE, served |-> FALSE]
  OBVIOUS
<1>3. PICK unsent, stranded : /\ unsent = IF flushed[t] /\ version[t] # built[t] THEN {t} ELSE {}
                             /\ stranded = TabsOf(todo[t]) \cup TabsOf(failed[t])
  OBVIOUS
<1>4. /\ page[t] = "open" /\ page' = [page EXCEPT ![t] = "closed"]
      /\ flushed' = [flushed EXCEPT ![t] = TRUE] /\ told' = told \ {t} /\ flushing' = [flushing EXCEPT ![t] = FALSE]
      /\ todo' = [todo EXCEPT ![t] = <<>>] /\ failed' = [failed EXCEPT ![t] = <<>>]
      /\ UNCHANGED <<online, known, shown, stored, faults, outages, expiries>>
      /\ \/ /\ flushed[t] /\ requests' = Orphaned(t) /\ excused' = excused \cup unsent \cup stranded
            /\ UNCHANGED <<version, built, queue, entries>>
         \/ /\ ~flushed[t] /\ version' = [version EXCEPT ![t] = @ + 1] /\ built' = [built EXCEPT ![t] = version[t] + 1]
            /\ \/ /\ requests' = Orphaned(t) \cup {beacon} /\ excused' = excused \cup stranded
                  /\ UNCHANGED <<queue, entries>>
               \/ /\ requests' = Orphaned(t) /\ queue' = Trim(q) /\ entries' = entries + 1
                  /\ excused' = excused \cup stranded \cup Dropped(q)
  BY <1>1, <1>2, <1>3 DEF Close, serverVars, boundVars
<1>5. /\ version[t] \in Version /\ version[t] + 1 \in Version /\ \A v \in Version : v \in Int
      /\ built \in [Tabs -> Version] /\ version \in [Tabs -> Version] /\ excused \subseteq Tabs
      /\ queue \in Seq(Entry) /\ Len(queue) <= MaxQueue /\ entries \in Nat
      /\ todo \in [Tabs -> Seq(Entry)] /\ failed \in [Tabs -> Seq(Entry)] /\ flushing \in [Tabs -> BOOLEAN]
  <2>1. version[t] + 1 \in Version
    BY <1>4, NextVersion DEF IInv
  <2> QED BY <2>1, SenderAssumption DEF IInv, TypeOK, Version
<1>6. payload \in Payload /\ payload.tab = t /\ payload.upTo = version[t] + 1
  BY <1>1, <1>5 DEF Payload
<1>7. beacon \in Request /\ beacon.payload = payload /\ ~Awaited(beacon) /\ ~beacon.served
  BY <1>2, <1>6 DEF Request, Kind, Awaited
<1>8. /\ Trim(q) \in Seq(Entry) /\ Len(Trim(q)) <= MaxQueue /\ Dropped(q) \subseteq Tabs
      /\ Numbered(Trim(q), entries + 1) /\ Identities(Trim(q)) \subseteq Identities(queue) \cup {entries + 1}
      /\ \A e \in El(queue) : e \in El(Trim(q)) \/ e.payload.tab \in Dropped(q)
      /\ (\E e \in El(Trim(q)) : e.payload = payload) \/ payload.tab \in Dropped(q)
  BY <1>2, <1>6, Enqueued DEF IInv
<1>9. stranded \subseteq Tabs /\ \A e \in El(todo[t]) \cup El(failed[t]) : e.payload.tab \in stranded
  <2>1. ASSUME NEW s \in Seq(Entry) PROVE TabsOf(s) \subseteq Tabs /\ \A e \in El(s) : e.payload.tab \in TabsOf(s)
    <3>1. \A k \in DOMAIN s : s[k] \in Entry
      BY QueueIs
    <3>2. \A k \in DOMAIN s : s[k].payload.tab \in Tabs
      BY <3>1 DEF Entry, Payload
    <3> QED BY <3>2 DEF TabsOf, El
  <2>2. todo[t] \in Seq(Entry) /\ failed[t] \in Seq(Entry)
    BY <1>5
  <2> QED BY <1>3, <2>1, <2>2
<1>10. /\ Orphaned(t) \subseteq Request
       /\ \A r \in requests : \E s \in Orphaned(t) : s.payload = r.payload
       /\ \A s \in Orphaned(t) : \E r \in requests : s.payload = r.payload /\ s.served = r.served
       /\ \A s \in Orphaned(t) : Awaited(s) => s \in requests /\ s.by # t
  BY OrphanedAre
<1>11. /\ \A u \in Tabs : u # t => /\ page'[u] = page[u] /\ todo'[u] = todo[u] /\ failed'[u] = failed[u]
                                  /\ flushing'[u] = flushing[u] /\ version'[u] = version[u] /\ built'[u] = built[u]
       /\ page'[t] = "closed" /\ todo'[t] = <<>> /\ failed'[t] = <<>> /\ ~flushing'[t]
  <2>1. page \in [Tabs -> {"new", "open", "closed"}]
    BY DEF IInv, TypeOK
  <2> QED BY <1>4, <1>5, <2>1
<1>12. /\ excused \subseteq excused' /\ stranded \subseteq excused' /\ excused' \subseteq Tabs
       /\ requests' \subseteq Orphaned(t) \cup {beacon} /\ Orphaned(t) \subseteq requests'
  BY <1>3, <1>4, <1>5, <1>8, <1>9
<1>13. \/ queue' = queue /\ entries' = entries
       \/ queue' = Trim(q) /\ entries' = entries + 1 /\ Dropped(q) \subseteq excused'
  BY <1>4
<1>14. /\ queue' \in Seq(Entry) /\ Len(queue') <= MaxQueue /\ entries' \in Nat
       /\ Numbered(queue', entries') /\ \A i \in 1..entries : i \in 1..entries'
       /\ \A i \in Identities(queue') : i \in Identities(queue) \/ i \notin 1..entries
  BY <1>5, <1>8, <1>13 DEF IInv, Apart, Numbered
<1>15. Apart'
  <2>1. ASSUME NEW u \in Tabs
        PROVE /\ Numbered(todo'[u], entries') /\ Numbered(failed'[u], entries')
              /\ Identities(todo'[u]) \cap Identities(failed'[u]) = {}
              /\ Taken(u)' \cap Identities(queue') = {} /\ Taken(u)' \subseteq Taken(u)
    <3>1. CASE u = t
      BY <1>11, <3>1, EmptyHas DEF Numbered, Taken
    <3>2. CASE u # t
      <4>1. Taken(u)' = Taken(u) /\ Taken(u) \cap Identities(queue) = {} /\ Taken(u) \subseteq 1..entries
        BY <1>11, <3>2 DEF Taken, IInv, Apart, Numbered
      <4>2. Taken(u)' \cap Identities(queue') = {}
        BY <1>14, <4>1
      <4> QED BY <1>11, <1>14, <3>2, <4>1, <4>2 DEF IInv, Apart, Numbered
    <3> QED BY <3>1, <3>2
  <2>2. ASSUME NEW u \in Tabs, NEW w \in Tabs, u # w PROVE Taken(u)' \cap Taken(w)' = {}
    BY <2>1, <2>2 DEF IInv, Apart
  <2> QED BY <1>14, <2>1, <2>2 DEF Apart
<1>16. FlushIdle'
  <2> SUFFICES ASSUME NEW u \in Tabs PROVE (flushing'[u] <=> todo'[u] # <<>>) /\ (~flushing'[u] => failed'[u] = <<>>)
    BY DEF FlushIdle
  <2>1. CASE u = t
    BY <1>11, <2>1
  <2>2. CASE u # t
    BY <1>11, <2>2 DEF IInv, FlushIdle
  <2> QED BY <2>1, <2>2
<1>17. Linked'
  <2>1. \A x \in requests' : Awaited(x) => x \in requests /\ x.by # t /\ x.by \in Tabs
    BY <1>7, <1>10, <1>12 DEF Request
  <2>2. \A x \in requests' : Awaited(x) => todo'[x.by] = todo[x.by]
    BY <1>11, <2>1
  <2> QED BY <2>1, <2>2 DEF IInv, Linked, LinkedTo
<1>18. Acked'
  <2> SUFFICES ASSUME NEW x \in requests', x.served PROVE known'[x.payload.tab] >= x.payload.upTo
    BY DEF Acked
  <2>1. x \in Orphaned(t)
    BY <1>7, <1>12
  <2>2. PICK r \in requests : x.payload = r.payload /\ x.served = r.served
    BY <1>10, <2>1
  <2> QED BY <1>4, <2>2 DEF IInv, Acked
<1>19. ASSUME NEW u \in Tabs, NEW v \in Version, Reach(u, v) PROVE Reach(u, v)' \/ u \in excused'
  <2>1. CASE known[u] >= v
    BY <1>4, <2>1 DEF Reach
  <2>2. CASE \E e \in El(queue) : Fits(e.payload, u, v)
    BY <1>8, <1>13, <2>2 DEF Reach, Fits
  <2>3. CASE \E w \in Tabs : \E e \in El(todo[w]) \cup El(failed[w]) : Fits(e.payload, u, v)
    <3>1. PICK w \in Tabs : \E e \in El(todo[w]) \cup El(failed[w]) : Fits(e.payload, u, v)
      BY <2>3
    <3>2. CASE w = t
      BY <1>9, <1>12, <3>1, <3>2 DEF Fits
    <3>3. CASE w # t
      BY <1>11, <3>1, <3>3 DEF Reach
    <3> QED BY <3>2, <3>3
  <2>4. CASE \E r \in requests : Fits(r.payload, u, v)
    BY <1>10, <1>12, <2>4 DEF Reach
  <2> QED BY <1>19, <2>1, <2>2, <2>3, <2>4 DEF Reach
<1>20. ASSUME flushed[t] PROVE Lossless' /\ Finished'
  <2>1. /\ UNCHANGED <<version, built>> /\ excused' = excused \cup unsent \cup stranded
    BY <1>4, <1>20
  <2>2. Lossless'
    BY <1>12, <1>19, <2>1, LosslessKept DEF IInv
  <2>3. Finished'
    <3> SUFFICES ASSUME NEW u \in Tabs
                 PROVE /\ page'[u] = "closed" /\ u \notin excused' => built'[u] = version'[u]
                       /\ page'[u] # "closed" => version'[u] <= MaxVersion
      BY DEF Finished
    <3>1. CASE u = t
      BY <1>3, <1>11, <1>20, <2>1, <3>1
    <3>2. CASE u # t
      BY <1>11, <1>12, <3>2 DEF IInv, Finished
    <3> QED BY <3>1, <3>2
  <2> QED BY <2>2, <2>3
<1>21. ASSUME ~flushed[t] PROVE Lossless' /\ Finished'
  <2>1. version' = [version EXCEPT ![t] = @ + 1] /\ built' = [built EXCEPT ![t] = version[t] + 1]
    BY <1>4, <1>21
  <2>2. version'[t] = version[t] + 1 /\ built'[t] = version[t] + 1
    BY <1>5, <2>1
  <2>3. \/ \E r \in requests' : r.payload = payload
        \/ \E e \in El(queue') : e.payload = payload
        \/ t \in excused'
    BY <1>4, <1>6, <1>7, <1>8, <1>21
  <2>4. Lossless'
    <3> SUFFICES ASSUME NEW u \in Tabs, u \notin excused', NEW v \in Version, v <= built'[u] PROVE Reach(u, v)'
      BY DEF Lossless
    <3>1. CASE u # t
      BY <1>11, <1>12, <1>19, <3>1 DEF IInv, Lossless
    <3>2. CASE u = t
      <4>1. Fits(payload, u, v)
        BY <1>5, <1>6, <2>2, <3>2 DEF Fits
      <4> QED BY <2>3, <3>2, <4>1 DEF Reach
    <3> QED BY <3>1, <3>2
  <2>5. Finished'
    <3> SUFFICES ASSUME NEW u \in Tabs
                 PROVE /\ page'[u] = "closed" /\ u \notin excused' => built'[u] = version'[u]
                       /\ page'[u] # "closed" => version'[u] <= MaxVersion
      BY DEF Finished
    <3>1. CASE u = t
      BY <1>11, <2>2, <3>1
    <3>2. CASE u # t
      BY <1>11, <1>12, <3>2 DEF IInv, Finished
    <3> QED BY <3>1, <3>2
  <2> QED BY <2>4, <2>5
<1>22. TypeOK'
  <2>1. version' \in [Tabs -> Version] /\ built' \in [Tabs -> Version]
    BY <1>4, <1>5
  <2>2. /\ page' \in [Tabs -> {"new", "open", "closed"}] /\ flushed' \in [Tabs -> BOOLEAN] /\ told' \subseteq Tabs
    BY <1>4 DEF IInv, TypeOK
  <2>3. /\ todo' \in [Tabs -> Seq(Entry)] /\ failed' \in [Tabs -> Seq(Entry)] /\ flushing' \in [Tabs -> BOOLEAN]
    BY <1>4, <1>5, EmptyHas
  <2>4. requests' \subseteq Request
    BY <1>7, <1>10, <1>12
  <2> QED BY <1>4, <1>12, <1>14, <2>1, <2>2, <2>3, <2>4 DEF IInv, TypeOK
<1> QED BY <1>15, <1>16, <1>17, <1>18, <1>20, <1>21, <1>22 DEF IInv

\* Every step preserves the invariant.
LEMMA InvNext == IInv /\ [Next]_vars => IInv'
<1> SUFFICES ASSUME IInv, [Next]_vars PROVE IInv'
  OBVIOUS
<1>1. CASE \E t \in Tabs : Open(t) \/ Track(t) \/ SendPayload(t) \/ Hide(t) \/ Show(t) \/ Close(t) \/ HandleOnline(t)
  <2>1. PICK t \in Tabs : Open(t) \/ Track(t) \/ SendPayload(t) \/ Hide(t) \/ Show(t) \/ Close(t) \/ HandleOnline(t)
    BY <1>1
  <2> QED BY <2>1, TabStep, SendStep, CloseStep, OnlineStep
<1>2. CASE \E r \in requests : Serve(r) \/ Answer(r) \/ Lose(r) \/ Timeout(r)
  <2>1. PICK r \in requests : Serve(r) \/ Answer(r) \/ Lose(r) \/ Timeout(r)
    BY <1>2
  <2> QED BY <2>1, ServeStep, AnswerStep, LoseStep, TimeoutStep
<1>3. CASE GoOffline \/ GoOnline
  BY <1>3, ConnectionStep
<1>4. CASE UNCHANGED vars
  <2>1. UNCHANGED <<page, version, built, flushed, online, told, queue, flushing, todo, failed, requests, known, shown,
                    stored, faults, outages, expiries, entries, excused>>
    BY <1>4 DEF vars, tabVars, flushVars, serverVars, boundVars
  <2>2. Apart' /\ FlushIdle' /\ Linked' /\ Acked' /\ Lossless'
    BY <2>1, PayloadsSame
  <2>3. TypeOK'
    BY <2>1 DEF IInv, TypeOK
  <2>4. Finished'
    BY <2>1 DEF IInv, Finished
  <2> QED BY <2>2, <2>3, <2>4 DEF IInv
<1> QED BY <1>1, <1>2, <1>3, <1>4 DEF Next

\* The invariant says that a closed tab loses nothing.
LEMMA InvLosesNothing == IInv => OfflineLosesNothing
<1> SUFFICES ASSUME IInv, NEW t \in Tabs, t \notin excused, page[t] = "closed"
             PROVE known[t] >= version[t] \/ \E p \in Underway : p.tab = t /\ p.upTo >= version[t]
  BY DEF OfflineLosesNothing
<1>1. built[t] = version[t] /\ built[t] \in Version /\ built[t] <= built[t]
  BY SenderAssumption DEF IInv, Finished, TypeOK, Version
<1>2. PICK v \in Version : v = version[t]
  BY <1>1
<1>3. Reach(t, v)
  BY <1>1, <1>2 DEF IInv, Lossless
<1>4. /\ \A e \in El(queue) : e.payload \in Underway
      /\ \A u \in Tabs : \A e \in El(todo[u]) \cup El(failed[u]) : e.payload \in Underway
  <2>1. PICK S : S = {El(queue)} \cup {El(todo[u]) : u \in Tabs} \cup {El(failed[u]) : u \in Tabs}
    OBVIOUS
  <2>2. Underway = {e.payload : e \in UNION S} \cup {r.payload : r \in requests}
    BY <2>1 DEF Underway, El
  <2>3. \A e \in UNION S : e.payload \in Underway
    BY <2>2
  <2>4. El(queue) \in S /\ \A u \in Tabs : El(todo[u]) \in S /\ El(failed[u]) \in S
    BY <2>1
  <2> QED BY <2>3, <2>4
<1>5. \A r \in requests : r.payload \in Underway
  BY DEF Underway
<1> QED BY <1>2, <1>3, <1>4, <1>5 DEF Reach, Fits

\* The invariant says that an entry is in one place at most.
LEMMA InvOnePlace == IInv => NoEntryTwice
<1> SUFFICES ASSUME IInv, NEW id \in 1..entries PROVE Cardinality(Places(id)) <= 1
  BY DEF NoEntryTwice
<1>1. \A p \in Places(id) :
         \/ p[1] = "queue" /\ id \in Identities(queue)
            /\ \E k \in DOMAIN queue : p = <<"queue", k>> /\ queue[k].id = id
         \/ \E t \in Tabs : \E k \in DOMAIN todo[t] : p = <<"todo", t, k>> /\ todo[t][k].id = id
         \/ \E t \in Tabs : \E k \in DOMAIN failed[t] : p = <<"failed", t, k>> /\ failed[t][k].id = id
  BY DEF Places, Identities
<1>2. \A p, r \in Places(id) : p = r
  <2> SUFFICES ASSUME NEW p \in Places(id), NEW r \in Places(id) PROVE p = r
    OBVIOUS
  <2>1. CASE id \in Identities(queue)
    <3>1. \A t \in Tabs : id \notin Taken(t)
      BY <2>1 DEF IInv, Apart
    <3>2. \A x \in Places(id) : \E k \in DOMAIN queue : x = <<"queue", k>> /\ queue[k].id = id
      BY <1>1, <3>1 DEF Taken, Identities
    <3> QED BY <3>2 DEF IInv, Apart, Numbered, Distinct
  <2>2. CASE id \notin Identities(queue)
    <3>1. \A x \in Places(id) : \E t \in Tabs :
             \/ \E k \in DOMAIN todo[t] : x = <<"todo", t, k>> /\ todo[t][k].id = id
             \/ \E k \in DOMAIN failed[t] : x = <<"failed", t, k>> /\ failed[t][k].id = id
      BY <1>1, <2>2
    <3>2. PICK t \in Tabs : \/ \E k \in DOMAIN todo[t] : p = <<"todo", t, k>> /\ todo[t][k].id = id
                           \/ \E k \in DOMAIN failed[t] : p = <<"failed", t, k>> /\ failed[t][k].id = id
      BY <3>1
    <3>3. PICK u \in Tabs : \/ \E k \in DOMAIN todo[u] : r = <<"todo", u, k>> /\ todo[u][k].id = id
                           \/ \E k \in DOMAIN failed[u] : r = <<"failed", u, k>> /\ failed[u][k].id = id
      BY <3>1
    <3>4. id \in Taken(t) /\ id \in Taken(u)
      BY <3>2, <3>3 DEF Taken, Identities
    <3>5. t = u
      BY <3>4 DEF IInv, Apart
    <3>6. id \notin Identities(todo[t]) \/ id \notin Identities(failed[t])
      BY DEF IInv, Apart
    <3>7. Distinct(todo[t]) /\ Distinct(failed[t])
      BY DEF IInv, Apart, Numbered
    <3>8. CASE id \notin Identities(todo[t])
      BY <3>2, <3>3, <3>5, <3>7, <3>8 DEF Identities, Distinct
    <3>9. CASE id \notin Identities(failed[t])
      BY <3>2, <3>3, <3>5, <3>7, <3>9 DEF Identities, Distinct
    <3> QED BY <3>6, <3>8, <3>9
  <2> QED BY <2>1, <2>2
<1>3. CASE Places(id) = {}
  BY <1>3, FS_EmptySet
<1>4. CASE Places(id) # {}
  <2>1. PICK p : Places(id) = {p}
    BY <1>2, <1>4
  <2>2. Cardinality({p}) = 1
    BY FS_Singleton
  <2> QED BY <2>1, <2>2
<1> QED BY <1>3, <1>4

\* The type of the sender's state.
THEOREM SenderTypeCorrect == Spec => []TypeOK
<1>1. IInv => TypeOK
  BY DEF IInv
<1> QED BY <1>1, InvInit, InvNext, PTL DEF Spec

\* enqueue, handleOnline and saveQueue, in every tab at once: what a closed tab recorded
\* is stored or underway, or is excused, and no entry is in two places.
THEOREM QueueKeepsEntries == Spec => []EntriesAreKeptOnce
<1>1. IInv => EntriesAreKeptOnce
  BY InvLosesNothing, InvOnePlace DEF EntriesAreKeptOnce
<1> QED BY <1>1, InvInit, InvNext, PTL DEF Spec

-----------------------------------------------------------------------------
(* Settings pages: the inductive invariant. *)

Value == Nat \cup {New, Gone}
Copy == [of : [Part -> Nat], read : Nat]
Form == [of : [Part -> Value], read : Nat]
Save == [page : Pages, part : Edited, body : [Part -> Value], asOf : [Part -> Nat], served : Nat]

SettingsType ==
  /\ settings \in [Part -> Nat] /\ since \in [Part -> Nat] /\ changes \in Nat
  /\ copy \in [Pages -> Copy] /\ form \in [Pages -> Form]
  /\ fetching \in [Pages -> {NotAsked, Asked} \cup {Answered(c) : c \in Copy}]
  /\ saves \subseteq Save
  /\ wrote \in [Pages -> Nat]

\* A value of part f read at time t is the present one, or the part changed after it was read.
Holds(f, value, t) == t <= changes /\ (value \in Nat => value = settings[f] \/ since[f] > t)
CopyHolds(c) == \A f \in Part : Holds(f, c.of[f], c.read)
CopiesHold ==
  /\ \A p \in Pages : CopyHolds(copy[p]) /\ CopyHolds(form[p])
  /\ \A p \in Pages : fetching[p].state = "answered" => CopyHolds(fetching[p].copy)
  /\ \A s \in saves : \A f \in Part : Holds(f, s.body[f], s.asOf[f])

\* What a page knows to be stored is in its copy, or in the answer on its way, or will be.
OwnSaves ==
  /\ \A p \in Pages : /\ wrote[p] <= changes
                      /\ fetching[p].state = "none" => copy[p].read >= wrote[p]
                      /\ fetching[p].state = "answered" => fetching[p].copy.read >= wrote[p]
  /\ \A s \in saves : s.served <= changes

SettingsInv == SettingsType /\ CopiesHold /\ OwnSaves

-----------------------------------------------------------------------------
\* The states of a query differ.
LEMMA QueriesDiffer ==
  ASSUME SettingsType, NEW p \in Pages
  PROVE  \/ fetching[p] = NotAsked /\ fetching[p].state = "none"
         \/ fetching[p] = Asked /\ fetching[p].state = "asked"
         \/ \E c \in Copy : fetching[p] = Answered(c) /\ fetching[p].state = "answered" /\ fetching[p].copy = c
<1>1. NotAsked.state = "none" /\ Asked.state = "asked"
  BY DEF NotAsked, Asked
<1>2. \A c \in Copy : Answered(c).state = "answered" /\ Answered(c).copy = c
  BY DEF Answered
<1>3. fetching[p] \in {NotAsked, Asked} \cup {Answered(c) : c \in Copy}
  BY DEF SettingsType
<1> QED BY <1>1, <1>2, <1>3

\* Before anything happens.
LEMMA SettingsBegin == SettingsInit => SettingsInv
<1> SUFFICES ASSUME SettingsInit PROVE SettingsInv
  OBVIOUS
<1>1. PICK c : c = [of |-> settings, read |-> 0]
  OBVIOUS
<1>2. /\ \A p \in Pages : copy[p] = c /\ form[p] = c /\ fetching[p] = NotAsked /\ wrote[p] = 0
      /\ c \in Copy /\ c \in Form /\ c.of = settings /\ c.read = 0
      /\ settings = [f \in Part |-> 0] /\ since = [f \in Part |-> 0] /\ changes = 0 /\ saves = {}
  BY <1>1 DEF SettingsInit, Copy, Form, Value
<1>3. SettingsType
  BY <1>2 DEF SettingsInit, SettingsType
<1>4. \A p \in Pages : fetching[p].state = "none"
  BY <1>2 DEF NotAsked
<1>5. CopiesHold
  BY <1>2, <1>4 DEF CopiesHold, CopyHolds, Holds
<1>6. OwnSaves
  BY <1>2, <1>4 DEF OwnSaves
<1> QED BY <1>3, <1>5, <1>6 DEF SettingsInv

\* The settings do not change.
LEMMA HoldsSame ==
  ASSUME UNCHANGED <<settings, since, changes>>
  PROVE  /\ \A f, v, t : Holds(f, v, t)' <=> Holds(f, v, t)
         /\ \A c : CopyHolds(c)' <=> CopyHolds(c)
BY DEF CopyHolds, Holds

\* The settings change: what is new is stamped, so that what was read before is known to be old.
LEMMA HoldsOn ==
  ASSUME SettingsType, changes' = changes + 1, settings' \in [Part -> Nat],
         \A f \in Part : \/ settings'[f] = settings[f] /\ since'[f] = since[f]
                         \/ since'[f] = changes + 1
  PROVE  /\ \A f \in Part : \A t \in Nat : \A v : Holds(f, v, t) => Holds(f, v, t)'
         /\ \A c : c.read \in Nat /\ CopyHolds(c) => CopyHolds(c)'
<1>1. ASSUME NEW f \in Part, NEW t \in Nat, NEW v, Holds(f, v, t) PROVE Holds(f, v, t)'
  BY <1>1 DEF Holds, SettingsType
<1> QED BY <1>1 DEF CopyHolds

\* A page asks, reads or is opened.
LEMMA PageStep ==
  ASSUME SettingsInv, NEW p \in Pages, Refetch(p) \/ FetchServed(p) \/ FetchReturns(p) \/ FetchFails(p) \/ OpenPage(p)
  PROVE  SettingsInv'
<1>1. UNCHANGED <<settings, since, changes, saves>>
  BY DEF Refetch, FetchServed, FetchReturns, FetchFails, OpenPage
<1>2. /\ settings \in [Part -> Nat] /\ changes \in Nat /\ copy \in [Pages -> Copy] /\ form \in [Pages -> Form]
      /\ fetching \in [Pages -> {NotAsked, Asked} \cup {Answered(c) : c \in Copy}] /\ wrote \in [Pages -> Nat]
  BY DEF SettingsInv, SettingsType
<1>3. Copy \subseteq Form
  BY DEF Copy, Form, Value
<1>4. PICK now : now = [of |-> settings, read |-> changes]
  OBVIOUS
<1>5. now \in Copy /\ CopyHolds(now) /\ now.read = changes
  BY <1>2, <1>4 DEF Copy, CopyHolds, Holds
<1>6. /\ NotAsked.state = "none" /\ Asked.state = "asked"
      /\ \A c \in Copy : Answered(c).state = "answered" /\ Answered(c).copy = c
  BY DEF NotAsked, Asked, Answered
<1>7. \A c : CopyHolds(c)' <=> CopyHolds(c)
  BY <1>1, HoldsSame
<1>8. \A s \in saves' : \A f \in Part : Holds(f, s.body[f], s.asOf[f])'
  BY <1>1, HoldsSame DEF SettingsInv, CopiesHold
<1>9. ASSUME UNCHANGED <<copy, form, wrote>>,
             \/ fetching' = [fetching EXCEPT ![p] = Asked]
             \/ fetching' = [fetching EXCEPT ![p] = Answered(now)]
      PROVE SettingsInv'
  <2>1. fetching' \in [Pages -> {NotAsked, Asked} \cup {Answered(c) : c \in Copy}]
    BY <1>2, <1>5, <1>9
  <2>2. SettingsType'
    BY <1>1, <1>9, <2>1 DEF SettingsInv, SettingsType
  <2>3. \A u \in Pages : fetching'[u] = fetching[u] \/ fetching'[u] = Asked \/ fetching'[u] = Answered(now)
    BY <1>2, <1>9
  <2>4. CopiesHold'
    BY <1>5, <1>6, <1>7, <1>8, <1>9, <2>3 DEF SettingsInv, CopiesHold
  <2>5. OwnSaves'
    BY <1>1, <1>2, <1>5, <1>6, <1>9, <2>3 DEF SettingsInv, OwnSaves
  <2> QED BY <2>2, <2>4, <2>5 DEF SettingsInv
<1>10. CASE Refetch(p)
  BY <1>9, <1>10 DEF Refetch
<1>11. CASE FetchServed(p)
  BY <1>4, <1>9, <1>11 DEF FetchServed
<1>12. CASE FetchReturns(p)
  <2>1. PICK c \in Copy : fetching[p].copy = c /\ fetching[p].state = "answered"
    BY <1>6, <1>12, QueriesDiffer DEF FetchReturns, SettingsInv
  <2>2. /\ copy' = [copy EXCEPT ![p] = c] /\ fetching' = [fetching EXCEPT ![p] = NotAsked]
        /\ UNCHANGED <<form, wrote>>
    BY <1>12, <2>1 DEF FetchReturns
  <2>3. /\ \A u \in Pages : u # p => copy'[u] = copy[u] /\ fetching'[u] = fetching[u]
        /\ copy'[p] = c /\ fetching'[p] = NotAsked
    BY <1>2, <2>2
  <2>4. CopyHolds(c) /\ c.read >= wrote[p]
    BY <2>1 DEF SettingsInv, CopiesHold, OwnSaves
  <2>5. SettingsType'
    <3>1. copy' \in [Pages -> Copy] /\ fetching' \in [Pages -> {NotAsked, Asked} \cup {Answered(d) : d \in Copy}]
      BY <1>2, <2>2
    <3> QED BY <1>1, <2>2, <3>1 DEF SettingsInv, SettingsType
  <2>6. CopiesHold'
    BY <1>6, <1>7, <1>8, <2>2, <2>3, <2>4 DEF SettingsInv, CopiesHold
  <2>7. OwnSaves'
    BY <1>1, <1>6, <2>2, <2>3, <2>4 DEF SettingsInv, OwnSaves
  <2> QED BY <2>5, <2>6, <2>7 DEF SettingsInv
<1>13. CASE FetchFails(p)
  <2>1. /\ fetching' = [fetching EXCEPT ![p] = NotAsked] /\ wrote' = [wrote EXCEPT ![p] = 0]
        /\ UNCHANGED <<copy, form>>
    BY <1>13 DEF FetchFails
  <2>2. /\ \A u \in Pages : u # p => wrote'[u] = wrote[u] /\ fetching'[u] = fetching[u]
        /\ wrote'[p] = 0 /\ fetching'[p] = NotAsked
    BY <1>2, <2>1
  <2>3. SettingsType'
    <3>1. wrote' \in [Pages -> Nat] /\ fetching' \in [Pages -> {NotAsked, Asked} \cup {Answered(c) : c \in Copy}]
      BY <1>2, <2>1
    <3> QED BY <1>1, <2>1, <3>1 DEF SettingsInv, SettingsType
  <2>4. CopiesHold'
    BY <1>6, <1>7, <1>8, <2>1, <2>2 DEF SettingsInv, CopiesHold
  <2>5. OwnSaves'
    <3>1. copy[p].read \in Nat
      BY <1>2 DEF Copy
    <3> QED BY <1>1, <1>2, <1>6, <2>1, <2>2, <3>1 DEF SettingsInv, OwnSaves
  <2> QED BY <2>3, <2>4, <2>5 DEF SettingsInv
<1>14. CASE OpenPage(p)
  <2>1. form' = [form EXCEPT ![p] = copy[p]] /\ UNCHANGED <<copy, fetching, wrote>>
    BY <1>14 DEF OpenPage
  <2>2. /\ \A u \in Pages : u # p => form'[u] = form[u]
        /\ form'[p] = copy[p] /\ form' \in [Pages -> Form]
    BY <1>2, <1>3, <2>1
  <2>3. SettingsType'
    BY <1>1, <2>1, <2>2 DEF SettingsInv, SettingsType
  <2>4. CopiesHold'
    BY <1>7, <1>8, <2>1, <2>2 DEF SettingsInv, CopiesHold
  <2>5. OwnSaves'
    BY <1>1, <2>1 DEF SettingsInv, OwnSaves
  <2> QED BY <2>3, <2>4, <2>5 DEF SettingsInv
<1> QED BY <1>10, <1>11, <1>12, <1>13, <1>14

\* A save goes out, with what the page has of the other parts.
LEMMA SaveSendStep ==
  ASSUME SettingsInv, NEW p \in Pages, NEW f \in Edited, NEW value \in Value, Send(p, f, value),
         Holds(f, value, AsOf(p, f)[f]),
         form' = form \/ \E x \in {New, Gone} : form' = [form EXCEPT ![p].of[f] = x]
  PROVE  SettingsInv'
<1>1. UNCHANGED <<settings, since, changes, copy, fetching, wrote>>
  BY DEF Send
<1>2. /\ changes \in Nat /\ copy \in [Pages -> Copy] /\ form \in [Pages -> Form] /\ saves \subseteq Save /\ f \in Part
  BY DEF SettingsInv, SettingsType, Part
<1>3. /\ copy[p].of \in [Part -> Nat] /\ copy[p].read \in Nat /\ form[p].of \in [Part -> Value] /\ form[p].read \in Nat
      /\ form[p] = [of |-> form[p].of, read |-> form[p].read]
  BY <1>2 DEF Copy, Form
<1>4. PICK body, asOf : body = [copy[p].of EXCEPT ![f] = value] /\ asOf = AsOf(p, f)
  OBVIOUS
<1>5. PICK s : s = [page |-> p, part |-> f, body |-> body, asOf |-> asOf, served |-> 0]
  OBVIOUS
<1>6. saves' = saves \cup {s}
  BY <1>4, <1>5 DEF Send, Spread
<1>7. /\ body \in [Part -> Value] /\ \A g \in Part : body[g] = IF g = f THEN value ELSE copy[p].of[g]
  BY <1>3, <1>4 DEF Value
<1>8. asOf \in [Part -> Nat] /\ \A g \in Part : g # f => asOf[g] = copy[p].read
  BY <1>3, <1>4 DEF AsOf
<1>9. s \in Save /\ s.body = body /\ s.asOf = asOf /\ s.served = 0
  BY <1>5, <1>7, <1>8 DEF Save
<1>10. \A g \in Part : Holds(g, body[g], asOf[g])
  BY <1>4, <1>7, <1>8 DEF SettingsInv, CopiesHold, CopyHolds
<1>11. /\ form' \in [Pages -> Form]
       /\ \A u \in Pages : /\ form'[u].read = form[u].read
                           /\ \A g \in Part : form'[u].of[g] = form[u].of[g] \/ form'[u].of[g] \in {New, Gone}
  <2>1. CASE form' = form
    BY <1>2, <2>1
  <2>2. CASE form' # form
    <3>1. PICK x \in {New, Gone} : form' = [form EXCEPT ![p].of[f] = x]
      BY <2>2
    <3>2. PICK q : q = [of |-> [form[p].of EXCEPT ![f] = x], read |-> form[p].read]
      OBVIOUS
    <3>3. q \in Form /\ q.read = form[p].read /\ \A g \in Part : q.of[g] = IF g = f THEN x ELSE form[p].of[g]
      BY <1>2, <1>3, <3>2 DEF Form, Value
    <3>4. form' = [form EXCEPT ![p] = q]
      BY <1>2, <1>3, <3>1, <3>2
    <3> QED BY <1>2, <3>3, <3>4
  <2> QED BY <2>1, <2>2
<1>12. \A u \in Pages : CopyHolds(form[u]) => CopyHolds(form'[u])
  BY <1>2, <1>11, SettingsAssumption DEF CopyHolds, Holds
<1>13. SettingsType'
  BY <1>1, <1>6, <1>9, <1>11 DEF SettingsInv, SettingsType
<1>14. CopiesHold'
  <2>1. \A t \in saves' : \A g \in Part : Holds(g, t.body[g], t.asOf[g])
    BY <1>6, <1>9, <1>10 DEF SettingsInv, CopiesHold
  <2> QED BY <1>1, <1>12, <2>1, HoldsSame DEF SettingsInv, CopiesHold
<1>15. OwnSaves'
  BY <1>1, <1>2, <1>6, <1>9 DEF SettingsInv, OwnSaves
<1> QED BY <1>13, <1>14, <1>15 DEF SettingsInv

\* The user saves a part, or the form as it is.
LEMMA UserStep ==
  ASSUME SettingsInv, NEW p \in Pages, SaveUnchanged(p) \/ \E f \in Edited : SaveChanged(p, f)
  PROVE  SettingsInv'
<1>1. /\ changes \in Nat /\ \A f \in Part : AsOf(p, f)[f] \in Nat /\ AsOf(p, f)[f] <= changes
      /\ AsOf(p, "domains")["domains"] = form[p].read
  <2>1. copy[p].read \in Nat /\ form[p].read \in Nat /\ changes \in Nat /\ "domains" \in Part /\ "domains" \in InForm
    BY DEF SettingsInv, SettingsType, Copy, Form, Part, Edited, InForm
  <2>2. copy[p].read <= changes /\ form[p].read <= changes
    BY <2>1 DEF SettingsInv, CopiesHold, CopyHolds, Holds
  <2> QED BY <2>1, <2>2 DEF AsOf
<1>2. \A f \in Part : \A x \in {New, Gone} : x \in Value /\ Holds(f, x, AsOf(p, f)[f])
  BY <1>1, SettingsAssumption DEF Holds, Value
<1>3. "domains" \in Edited /\ Edited \subseteq Part
  BY DEF Edited, Part, InForm
<1>4. CASE SaveUnchanged(p)
  <2>1. form[p].of["domains"] \in Value
    BY <1>3 DEF SettingsInv, SettingsType, Form
  <2>2. Holds("domains", form[p].of["domains"], AsOf(p, "domains")["domains"])
    BY <1>1, <1>3 DEF SettingsInv, CopiesHold, CopyHolds
  <2> QED BY <1>3, <1>4, <2>1, <2>2, SaveSendStep DEF SaveUnchanged
<1>5. ASSUME NEW f \in Edited, SaveChanged(p, f) PROVE SettingsInv'
  <2>1. PICK x \in {New, Gone} : Send(p, f, x) /\ (form' = form \/ form' = [form EXCEPT ![p].of[f] = x])
    BY <1>5 DEF SaveChanged
  <2>2. x \in Value /\ Holds(f, x, AsOf(p, f)[f])
    BY <1>2, <1>3
  <2> QED BY <2>1, <2>2, SaveSendStep
<1> QED BY <1>4, <1>5

\* What the server makes of a save: a part changes to what is new, or to what the save had read.
LEMMA SavedAre ==
  ASSUME SettingsInv, NEW s \in saves
  PROVE  /\ Merged(s.body) \in [Part -> Nat]
         /\ \A f \in Changed(s) : f \in Part /\ (s.body[f] # New => since[f] > s.asOf[f])
<1>1. /\ s.body \in [Part -> Value] /\ changes \in Nat /\ settings \in [Part -> Nat]
  BY DEF SettingsInv, SettingsType, Save
<1>2. \A f \in Part : Merged(s.body)[f] = CASE s.body[f] = Gone -> settings[f]
                                           [] s.body[f] = New -> changes + 1
                                           [] OTHER -> s.body[f]
  BY DEF Merged
<1>3. ASSUME NEW f \in Part
      PROVE  /\ Merged(s.body)[f] \in Nat
             /\ Merged(s.body)[f] # settings[f] /\ s.body[f] # New => s.body[f] \in Nat /\ s.body[f] # settings[f]
  <2>1. CASE s.body[f] = Gone
    BY <1>1, <1>2, <2>1
  <2>2. CASE s.body[f] # Gone /\ s.body[f] = New
    BY <1>1, <1>2, <2>2
  <2>3. CASE s.body[f] # Gone /\ s.body[f] # New
    BY <1>1, <1>2, <2>3 DEF Value
  <2> QED BY <2>1, <2>2, <2>3
<1>4. Merged(s.body) \in [Part -> Nat]
  <2>1. PICK m : m = Merged(s.body)
    OBVIOUS
  <2>2. m = [f \in Part |-> m[f]] /\ \A f \in Part : m[f] \in Nat
    BY <1>3, <2>1 DEF Merged
  <2> QED BY <2>1, <2>2
<1>5. \A f \in Changed(s) : f \in Part /\ Merged(s.body)[f] # settings[f]
  BY DEF Changed
<1> QED BY <1>3, <1>4, <1>5 DEF SettingsInv, CopiesHold, Holds

\* How the settings change: with a stamp on all that is new, and with no save made up.
SettingsMove ==
  /\ settings' \in [Part -> Nat] /\ since' \in [Part -> Nat]
  /\ \A f \in Part : \/ settings'[f] = settings[f] /\ since'[f] = since[f]
                     \/ since'[f] = changes + 1
  /\ saves' \subseteq Save
  /\ \A t \in saves' : \/ t \in saves
                       \/ \E s \in saves : t.body = s.body /\ t.asOf = s.asOf /\ t.served = changes + 1

\* The settings change on the server.
LEMMA ServedStep ==
  ASSUME SettingsInv, \/ \E s \in saves : ServeSave(s)
                      \/ \E f \in Part : SaveElsewhere(f)
  PROVE  SettingsInv'
<1>1. /\ changes' = changes + 1 /\ UNCHANGED <<copy, form, fetching, wrote>> /\ changes \in Nat
      /\ settings \in [Part -> Nat] /\ since \in [Part -> Nat] /\ saves \subseteq Save
  BY DEF ServeSave, SaveElsewhere, SettingsInv, SettingsType
<1>2. SettingsMove
  <2>1. ASSUME NEW s \in saves, ServeSave(s)
        PROVE SettingsMove
    <3>1. /\ settings' = Merged(s.body) /\ since' = [f \in Part |-> IF f \in Changed(s) THEN changes + 1 ELSE since[f]]
          /\ saves' = (saves \ {s}) \cup {[s EXCEPT !.served = changes + 1]}
      BY <2>1 DEF ServeSave
    <3>2. Merged(s.body) \in [Part -> Nat]
      BY SavedAre
    <3>3. \A f \in Part : f \notin Changed(s) => settings'[f] = settings[f]
      BY <3>1 DEF Changed
    <3>4. PICK t : t = [s EXCEPT !.served = changes + 1]
      OBVIOUS
    <3>5. t \in Save /\ t.body = s.body /\ t.asOf = s.asOf /\ t.served = changes + 1
      BY <1>1, <3>4 DEF Save
    <3>6. since' \in [Part -> Nat]
      BY <1>1, <3>1
    <3>7. \A f \in Part : \/ settings'[f] = settings[f] /\ since'[f] = since[f]
                          \/ since'[f] = changes + 1
      BY <3>1, <3>3
    <3>8. saves' \subseteq Save
      BY <1>1, <3>1, <3>4, <3>5
    <3>9. \A x \in saves' : \/ x \in saves
                            \/ \E y \in saves : x.body = y.body /\ x.asOf = y.asOf /\ x.served = changes + 1
      BY <3>1, <3>4, <3>5
    <3> QED BY <3>1, <3>2, <3>6, <3>7, <3>8, <3>9 DEF SettingsMove
  <2>2. ASSUME NEW f \in Part, SaveElsewhere(f)
        PROVE SettingsMove
    <3>1. /\ settings' = [settings EXCEPT ![f] = changes + 1] /\ since' = [since EXCEPT ![f] = changes + 1]
          /\ saves' = saves
      BY <2>2 DEF SaveElsewhere
    <3> QED BY <1>1, <3>1 DEF SettingsMove
  <2> QED BY <1>1, <2>1, <2>2
<1>3. /\ \A f \in Part : \A t \in Nat : \A v : Holds(f, v, t) => Holds(f, v, t)'
      /\ \A c : c.read \in Nat /\ CopyHolds(c) => CopyHolds(c)'
  BY <1>1, <1>2, HoldsOn DEF SettingsInv, SettingsMove
<1>4. SettingsType'
  BY <1>1, <1>2 DEF SettingsInv, SettingsType, SettingsMove
<1>5. CopiesHold'
  <2>1. \A p \in Pages : copy[p].read \in Nat /\ form[p].read \in Nat
    BY DEF SettingsInv, SettingsType, Copy, Form
  <2>2. \A p \in Pages : fetching[p].state = "answered" => fetching[p].copy.read \in Nat
    BY QueriesDiffer DEF SettingsInv, Copy
  <2>3. \A p \in Pages : CopyHolds(copy[p])' /\ CopyHolds(form[p])'
    BY <1>1, <1>3, <2>1 DEF SettingsInv, CopiesHold
  <2>4. \A p \in Pages : fetching'[p].state = "answered" => CopyHolds(fetching[p].copy)'
    BY <1>1, <1>3, <2>2 DEF SettingsInv, CopiesHold
  <2>5. \A s \in saves : \A f \in Part : s.asOf[f] \in Nat
    BY <1>1 DEF Save
  <2>6. \A t \in saves' : \A f \in Part : Holds(f, t.body[f], t.asOf[f])'
    BY <1>2, <1>3, <2>5 DEF SettingsInv, CopiesHold, SettingsMove
  <2> QED BY <1>1, <2>3, <2>4, <2>6 DEF CopiesHold
<1>6. OwnSaves'
  <2>1. \A p \in Pages : wrote[p] \in Nat
    BY DEF SettingsInv, SettingsType
  <2>2. \A s \in saves : s.served \in Nat
    BY <1>1 DEF Save
  <2> QED BY <1>1, <1>2, <2>1, <2>2 DEF SettingsInv, OwnSaves, SettingsMove
<1> QED BY <1>4, <1>5, <1>6 DEF SettingsInv

\* A page hears of its save, or of an error.
LEMMA ReturnStep ==
  ASSUME SettingsInv, NEW s \in saves, SaveReturns(s) \/ SaveFails(s)
  PROVE  SettingsInv'
<1>1. /\ UNCHANGED <<settings, since, changes, copy, form>> /\ saves' = saves \ {s}
      /\ \/ UNCHANGED <<wrote, fetching>>
         \/ /\ wrote' = [wrote EXCEPT ![s.page] = IF s.served > @ THEN s.served ELSE @]
            /\ fetching' = [fetching EXCEPT ![s.page] = Asked]
  BY DEF SaveReturns, SaveFails, Invalidated
<1>2. /\ wrote \in [Pages -> Nat] /\ changes \in Nat /\ s.page \in Pages /\ s.served \in Nat /\ s.served <= changes
      /\ fetching \in [Pages -> {NotAsked, Asked} \cup {Answered(c) : c \in Copy}]
  BY DEF SettingsInv, SettingsType, OwnSaves, Save
<1>3. /\ wrote' \in [Pages -> Nat]
      /\ fetching' \in [Pages -> {NotAsked, Asked} \cup {Answered(c) : c \in Copy}]
  BY <1>1, <1>2
<1>4. \A p \in Pages : \/ wrote'[p] = wrote[p] /\ fetching'[p] = fetching[p]
                       \/ wrote'[p] \in {wrote[p], s.served} /\ fetching'[p] = Asked
  BY <1>1, <1>2
<1>5. Asked.state = "asked"
  BY DEF Asked
<1>6. SettingsType'
  BY <1>1, <1>3 DEF SettingsInv, SettingsType
<1>7. CopiesHold'
  BY <1>1, <1>4, <1>5, HoldsSame DEF SettingsInv, CopiesHold
<1>8. OwnSaves'
  BY <1>1, <1>2, <1>4, <1>5 DEF SettingsInv, OwnSaves
<1> QED BY <1>6, <1>7, <1>8 DEF SettingsInv

\* Every step preserves the invariant.
LEMMA SettingsStep == SettingsInv /\ [SettingsNext]_settingsVars => SettingsInv'
<1> SUFFICES ASSUME SettingsInv, [SettingsNext]_settingsVars PROVE SettingsInv'
  OBVIOUS
<1>1. CASE SettingsNext
  <2>1. ASSUME NEW p \in Pages, Refetch(p) \/ FetchServed(p) \/ FetchReturns(p) \/ FetchFails(p) \/ OpenPage(p)
        PROVE SettingsInv'
    BY <2>1, PageStep
  <2>2. ASSUME NEW p \in Pages, SaveUnchanged(p) \/ \E f \in Edited : SaveChanged(p, f) PROVE SettingsInv'
    BY <2>2, UserStep
  <2>3. ASSUME NEW s \in saves, ServeSave(s) \/ SaveReturns(s) \/ SaveFails(s) PROVE SettingsInv'
    BY <2>3, ServedStep, ReturnStep
  <2>4. ASSUME NEW f \in Part, SaveElsewhere(f) PROVE SettingsInv'
    BY <2>4, ServedStep
  <2> QED BY <1>1, <2>1, <2>2, <2>3, <2>4 DEF SettingsNext
<1>2. CASE UNCHANGED settingsVars
  <2>1. UNCHANGED <<settings, since, changes, copy, form, fetching, saves, wrote>>
    BY <1>2 DEF settingsVars
  <2>2. SettingsType'
    BY <2>1 DEF SettingsInv, SettingsType
  <2>3. CopiesHold'
    BY <2>1, HoldsSame DEF SettingsInv, CopiesHold
  <2>4. OwnSaves'
    BY <2>1 DEF SettingsInv, OwnSaves
  <2> QED BY <2>2, <2>3, <2>4 DEF SettingsInv
<1> QED BY <1>1, <1>2

\* onFinish, the labels and the query of the workspace, on any number of pages: a save reverts only what
\* changed after the page had read it, and a page comes to know its own saves.
THEOREM SavesRevertNothingKnown == SettingsSpec => SavesStay
<1>1. SettingsInv => SavesKeepOthers
  <2> SUFFICES ASSUME SettingsInv, NEW s \in saves, ServeSave(s), NEW f \in Changed(s), s.body[f] # New
               PROVE since[f] > s.asOf[f]
    BY DEF SavesKeepOthers
  <2> QED BY SavedAre
<1>2. SettingsInv => KnowsItsSaves
  <2> SUFFICES ASSUME SettingsInv, NEW p \in Pages, fetching[p] = NotAsked PROVE copy[p].read >= wrote[p]
    BY DEF KnowsItsSaves
  <2>1. fetching[p].state = "none"
    BY DEF NotAsked
  <2> QED BY <2>1 DEF SettingsInv, OwnSaves
<1>3. SettingsInv /\ SettingsInv' => [SavesKeepOthers /\ KnowsItsSaves']_settingsVars
  <2>1. SettingsInv' => KnowsItsSaves'
    BY <1>2, PTL
  <2> QED BY <1>1, <2>1
<1> QED BY <1>3, SettingsBegin, SettingsStep, PTL DEF SettingsSpec, SavesStay

-----------------------------------------------------------------------------
(* The Explore page: the inductive invariant. *)

Query == {InitialQuery(p) : p \in Params}
Keyed(c) == c.params \in Params /\ c.key = ChildKey(c.key.row, c.params)

IsRow(r) == r = [of |-> r.of, children |-> r.children, loading |-> r.loading]

ExploreType ==
  /\ search \in Params /\ chosen \in Params
  /\ pending \in {None} \cup DimensionLists
  /\ \A c \in childCache \cup fetches : Keyed(c)
  /\ \A w \in waiting : w.params \in Params /\ w.key = ChildKey(w.row, w.params)
  /\ measured \in BOOLEAN
  /\ \A v \in DOMAIN table : IsRow(table[v])

\* The address has the parameters chosen last, but for dimensions that wait or were overruled.
AddressAgrees ==
  /\ chosen.scope = search.scope /\ chosen.metric = search.metric
  /\ ~overruled => chosen.dims = Now.dims

\* The answer that is shown is that of the parameters, once there is one.
AnswerIsShown ==
  /\ InitialQuery(Now) \in asked \cup refused \cup cached
  /\ InitialQuery(Now) \in cached => response = InitialQuery(Now)

\* The rows are those of the answer, children those of its parameters where nothing was mixed up.
Shown == Data(response, Now, refused)
RowsAreShown ==
  /\ Shown = None => DOMAIN table = {}
  /\ \A v \in DOMAIN table : table[v].of = Shown
  /\ \A v \in DOMAIN table \ mixed :
       \/ table[v].children = None
       \/ /\ table[v].children \in Params /\ table[v].children.dims = Now.dims
          /\ InitialQuery(table[v].children) = Shown

\* Somebody waits for every fetch of children, and no two fetch the same.
FetchesAreAwaited ==
  /\ \A f \in fetches : \E w \in waiting : w.key = f.key
  /\ \A f, g \in fetches : f.key = g.key => f = g

ExploreInv == ExploreType /\ AddressAgrees /\ AnswerIsShown /\ RowsAreShown /\ FetchesAreAwaited /\ LoadingAwaits

-----------------------------------------------------------------------------
\* The parameters in force.
LEMMA NowIs ==
  ASSUME NEW s \in Params, NEW p \in {None} \cup DimensionLists
  PROVE  /\ Showing(s, p) \in Params
         /\ Showing(s, p).scope = s.scope /\ Showing(s, p).metric = s.metric
         /\ Showing(s, p).dims = IF p = None THEN s.dims ELSE p
BY DEF Showing, Params

\* Parameters are told apart by their parts.
LEMMA ParamsAre ==
  ASSUME NEW p \in Params
  PROVE  /\ p = [dims |-> p.dims, scope |-> p.scope, metric |-> p.metric]
         /\ p.dims \in DimensionLists /\ p.scope \in Scopes /\ p.metric \in MetricFilters
         /\ \A d \in DimensionLists : [p EXCEPT !.dims = d] \in Params
         /\ \A d \in Scopes : [p EXCEPT !.scope = d] \in Params
         /\ \A d \in MetricFilters : [p EXCEPT !.metric = d] \in Params
BY DEF Params

\* A first query tells scope and metric filters.
LEMMA QueryTells ==
  ASSUME NEW p, NEW q, InitialQuery(p) = InitialQuery(q)
  PROVE  p.dims[1] = q.dims[1] /\ p.scope = q.scope /\ p.metric = q.metric
<1>1. PICK a, b : a = InitialQuery(p) /\ b = InitialQuery(q)
  OBVIOUS
<1>2. a.dim = p.dims[1] /\ a.scope = p.scope /\ a.metric = p.metric
  BY <1>1 DEF InitialQuery
<1>3. b.dim = q.dims[1] /\ b.scope = q.scope /\ b.metric = q.metric
  BY <1>1 DEF InitialQuery
<1> QED BY <1>1, <1>2, <1>3

\* So does the key of children, without the metric filters.
LEMMA KeyTells ==
  ASSUME NEW p \in Params, NEW q \in Params, NEW v, NEW w, ChildKey(v, p) = ChildKey(w, q), p.metric = q.metric
  PROVE  p = q /\ v = w
<1>1. PICK a, b : a = ChildKey(v, p) /\ b = ChildKey(w, q)
  OBVIOUS
<1>2. a.row = v /\ a.dims = p.dims /\ a.scope = p.scope
  BY <1>1 DEF ChildKey
<1>3. b.row = w /\ b.dims = q.dims /\ b.scope = q.scope
  BY <1>1 DEF ChildKey
<1> QED BY <1>1, <1>2, <1>3, ParamsAre

\* A table built anew.
LEMMA RowsAre ==
  ASSUME NEW q, NEW p
  PROVE  /\ q = None => DOMAIN Rows(q, p) = {}
         /\ \A v \in DOMAIN Rows(q, p) : Rows(q, p)[v] = [of |-> q, children |-> None, loading |-> FALSE]
<1>1. CASE q = None
  BY <1>1 DEF Rows
<1>2. CASE q # None
  <2>1. PICK S : S = IF q.dim = p.dims[1] THEN Values ELSE {"empty"}
    OBVIOUS
  <2>2. Rows(q, p) = [v \in S |-> [of |-> q, children |-> None, loading |-> FALSE]]
    BY <1>2, <2>1 DEF Rows
  <2> QED BY <1>2, <2>2
<1> QED BY <1>1, <1>2

\* The effect that builds the table keeps it true, whatever made the page render.
LEMMA Built ==
  ASSUME ExploreInv, NEW anew, NEW p, NEW q, NEW failing, Build(anew, p, q, failing),
         p = Now', q = response', failing = refused', UNCHANGED waiting,
         ~anew => Now'.dims = Now.dims
  PROVE  RowsAreShown' /\ LoadingAwaits' /\ \A v \in DOMAIN table' : IsRow(table'[v])
<1>1. Shown' = Data(q, p, failing) /\ Shown = Data(response, Now, refused)
  BY DEF Shown
<1>2. CASE table' = Rows(Data(q, p, failing), p) /\ mixed' = {}
  <2>1. PICK d, t : d = Data(q, p, failing) /\ t = table'
    OBVIOUS
  <2>2. t = Rows(d, p)
    BY <1>2, <2>1
  <2>3. /\ d = None => DOMAIN t = {}
        /\ \A v \in DOMAIN t : t[v] = [of |-> d, children |-> None, loading |-> FALSE]
    <3>1. DOMAIN t = DOMAIN Rows(d, p) /\ \A v : t[v] = Rows(d, p)[v]
      BY <2>2
    <3> QED BY <3>1, RowsAre
  <2>4. RowsAreShown'
    BY <1>1, <2>1, <2>3 DEF RowsAreShown
  <2>5. LoadingAwaits'
    BY <2>1, <2>3 DEF LoadingAwaits
  <2>6. \A v \in DOMAIN t : IsRow(t[v])
    BY <2>3 DEF IsRow
  <2> QED BY <2>1, <2>4, <2>5, <2>6
<1>3. CASE ~anew /\ Data(q, p, failing) = Data(response, Now, refused) /\ UNCHANGED <<table, mixed>>
  <2>1. Shown' = Shown /\ Now'.dims = Now.dims
    BY <1>1, <1>3
  <2>2. RowsAreShown'
    BY <1>3, <2>1 DEF ExploreInv, RowsAreShown
  <2>3. LoadingAwaits'
    BY <1>3 DEF ExploreInv, LoadingAwaits
  <2> QED BY <1>3, <2>2, <2>3 DEF ExploreInv, ExploreType
<1> QED BY <1>2, <1>3 DEF Build

\* So does a render with other parameters, and the page then shows their answer or awaits it.
LEMMA Rendered ==
  ASSUME ExploreInv, NEW s \in Params, NEW pend \in {None} \cup DimensionLists, NEW dimsAnew,
         Render(s, pend, dimsAnew), ~dimsAnew => Showing(s, pend).dims = Now.dims
  PROVE  /\ search' = s /\ pending' = pend /\ Now' = Showing(s, pend)
         /\ AnswerIsShown' /\ RowsAreShown' /\ FetchesAreAwaited' /\ LoadingAwaits'
         /\ measured' \in BOOLEAN /\ \A v \in DOMAIN table' : IsRow(table'[v])
         /\ UNCHANGED <<childCache, fetches, waiting>>
<1>1. PICK p, ask : p = Showing(s, pend) /\ ask = (InitialQuery(Showing(s, pend)) \notin cached)
  OBVIOUS
<1>2. PICK failing, q : /\ failing = IF ask THEN refused \ {InitialQuery(p)} ELSE refused
                       /\ q = IF ~ask THEN InitialQuery(p) ELSE response
  OBVIOUS
<1>3. /\ search' = s /\ pending' = pend
      /\ asked' = IF ask THEN asked \cup {InitialQuery(p)} ELSE asked
      /\ refused' = failing /\ response' = q
      /\ Build(dimsAnew \/ (measured /\ p # Now), p, q, failing)
      /\ measured' = (measured /\ p = Now)
      /\ UNCHANGED <<cached, childCache, fetches, waiting>>
  BY <1>1, <1>2 DEF Render
<1>4. Now' = p
  BY <1>1, <1>3 DEF Now
<1>5. RowsAreShown' /\ LoadingAwaits' /\ \A v \in DOMAIN table' : IsRow(table'[v])
  BY <1>1, <1>3, <1>4, Built
<1>6. AnswerIsShown'
  BY <1>1, <1>2, <1>3, <1>4 DEF AnswerIsShown
<1>7. FetchesAreAwaited'
  BY <1>3 DEF ExploreInv, FetchesAreAwaited
<1>8. measured' \in BOOLEAN
  BY <1>3 DEF ExploreInv, ExploreType
<1> QED BY <1>1, <1>3, <1>4, <1>5, <1>6, <1>7, <1>8

\* Such a render keeps the invariant when the parameters are those chosen last.
LEMMA Chosen ==
  ASSUME ExploreInv, NEW s \in Params, NEW pend \in {None} \cup DimensionLists, NEW dimsAnew,
         Render(s, pend, dimsAnew), ~dimsAnew => Showing(s, pend).dims = Now.dims,
         NEW c \in Params, chosen' = c, c.scope = s.scope, c.metric = s.metric,
         ~overruled' => c.dims = Showing(s, pend).dims
  PROVE  ExploreInv'
<1>1. /\ search' = s /\ pending' = pend /\ Now' = Showing(s, pend)
      /\ AnswerIsShown' /\ RowsAreShown' /\ FetchesAreAwaited' /\ LoadingAwaits'
      /\ measured' \in BOOLEAN /\ \A v \in DOMAIN table' : IsRow(table'[v])
      /\ UNCHANGED <<childCache, fetches, waiting>>
  BY Rendered
<1>2. AddressAgrees'
  BY <1>1 DEF AddressAgrees
<1>3. ExploreType'
  BY <1>1 DEF ExploreInv, ExploreType
<1> QED BY <1>1, <1>2, <1>3 DEF ExploreInv

\* Another scope.
LEMMA SetScopeStep ==
  ASSUME ExploreInv, NEW d \in Scopes, SetScope(d)
  PROVE  ExploreInv'
<1>1. PICK s, c : s = [search EXCEPT !.scope = d] /\ c = [chosen EXCEPT !.scope = d]
  OBVIOUS
<1>2. /\ search \in Params /\ chosen \in Params /\ pending \in {None} \cup DimensionLists
      /\ chosen.metric = search.metric /\ (~overruled => chosen.dims = Now.dims)
  BY DEF ExploreInv, ExploreType, AddressAgrees
<1>3. /\ s \in Params /\ c \in Params /\ s.scope = d /\ c.scope = d
      /\ s.metric = search.metric /\ c.metric = chosen.metric
      /\ s.dims = search.dims /\ c.dims = chosen.dims
  BY <1>1, <1>2 DEF Params
<1>4. Showing(s, pending).dims = Now.dims
  BY <1>2, <1>3, NowIs DEF Now
<1>5. Render(s, pending, FALSE) /\ chosen' = c /\ overruled' = overruled
  BY <1>1 DEF SetScope, Choose
<1>6. PICK anew \in BOOLEAN : anew = FALSE
  OBVIOUS
<1>7. Render(s, pending, anew)
  BY <1>5, <1>6
<1>8. ~overruled' => c.dims = Showing(s, pending).dims
  BY <1>2, <1>3, <1>4, <1>5
<1>9. c.scope = s.scope /\ c.metric = s.metric
  BY <1>2, <1>3
<1> QED BY <1>2, <1>3, <1>4, <1>5, <1>7, <1>8, <1>9, Chosen

\* Other metric filters.
LEMMA SetMetricFiltersStep ==
  ASSUME ExploreInv, NEW d \in MetricFilters, SetMetricFilters(d)
  PROVE  ExploreInv'
<1>1. PICK s, c : s = [search EXCEPT !.metric = d] /\ c = [chosen EXCEPT !.metric = d]
  OBVIOUS
<1>2. /\ search \in Params /\ chosen \in Params /\ pending \in {None} \cup DimensionLists
      /\ chosen.scope = search.scope /\ (~overruled => chosen.dims = Now.dims)
  BY DEF ExploreInv, ExploreType, AddressAgrees
<1>3. /\ s \in Params /\ c \in Params /\ s.metric = d /\ c.metric = d
      /\ s.scope = search.scope /\ c.scope = chosen.scope
      /\ s.dims = search.dims /\ c.dims = chosen.dims
  BY <1>1, <1>2 DEF Params
<1>4. Showing(s, pending).dims = Now.dims
  BY <1>2, <1>3, NowIs DEF Now
<1>5. Render(s, pending, FALSE) /\ chosen' = c /\ overruled' = overruled
  BY <1>1 DEF SetMetricFilters, Choose
<1>6. PICK anew \in BOOLEAN : anew = FALSE
  OBVIOUS
<1>7. Render(s, pending, anew)
  BY <1>5, <1>6
<1>8. ~overruled' => c.dims = Showing(s, pending).dims
  BY <1>2, <1>3, <1>4, <1>5
<1>9. c.scope = s.scope /\ c.metric = s.metric
  BY <1>2, <1>3
<1> QED BY <1>2, <1>3, <1>4, <1>5, <1>7, <1>8, <1>9, Chosen

\* Other dimensions, shown at once.
LEMMA SetDimensionsStep ==
  ASSUME ExploreInv, NEW d \in DimensionLists, SetDimensions(d)
  PROVE  ExploreInv'
<1>1. PICK c : c = [chosen EXCEPT !.dims = d]
  OBVIOUS
<1>2. /\ search \in Params /\ chosen \in Params
      /\ chosen.scope = search.scope /\ chosen.metric = search.metric
  BY DEF ExploreInv, ExploreType, AddressAgrees
<1>3. c \in Params /\ c.scope = search.scope /\ c.metric = search.metric /\ c.dims = d
  BY <1>1, <1>2 DEF Params
<1>4. d # None /\ Showing(search, d).dims = d
  BY <1>2, NowIs, ExploreAssumption
<1>5. Render(search, d, TRUE) /\ chosen' = c
  BY <1>1 DEF SetDimensions, Choose
<1> QED BY <1>2, <1>3, <1>4, <1>5, Chosen

\* The dimensions get into the address.
LEMMA DebounceStep ==
  ASSUME ExploreInv, DebounceFires
  PROVE  ExploreInv'
<1>1. PICK s : s = [search EXCEPT !.dims = pending]
  OBVIOUS
<1>2. /\ search \in Params /\ chosen \in Params /\ pending \in {None} \cup DimensionLists
      /\ chosen.scope = search.scope /\ chosen.metric = search.metric
      /\ (~overruled => chosen.dims = Now.dims)
  BY DEF ExploreInv, ExploreType, AddressAgrees
<1>3. pending \in DimensionLists
  BY <1>2 DEF DebounceFires
<1>4. s \in Params /\ s.scope = search.scope /\ s.metric = search.metric /\ s.dims = pending
  BY <1>1, <1>2, <1>3 DEF Params
<1>5. Now.dims = pending /\ Showing(s, None).dims = pending
  BY <1>2, <1>3, <1>4, NowIs, ExploreAssumption DEF Now
<1>6. Render(s, None, TRUE) /\ chosen' = chosen /\ overruled' = overruled
  BY <1>1 DEF DebounceFires
<1> QED BY <1>2, <1>4, <1>5, <1>6, Chosen

\* A whole report, which leaves pending dimensions in force.
LEMMA SetAllStep ==
  ASSUME ExploreInv, NEW p \in Reports, SetAll(p)
  PROVE  ExploreInv'
<1>1. search \in Params /\ pending \in {None} \cup DimensionLists
  BY DEF ExploreInv, ExploreType
<1>2. p \in Params
  BY ExploreAssumption DEF Params
<1>3. /\ Showing(p, pending).dims = IF pending = None THEN p.dims ELSE pending
      /\ Now.dims = IF pending = None THEN search.dims ELSE pending
  BY <1>1, <1>2, NowIs DEF Now
<1>4. PICK anew \in BOOLEAN : anew <=> (p.dims # search.dims /\ pending = None)
  OBVIOUS
<1>5. Render(p, pending, anew) /\ chosen' = p /\ overruled' = (pending # None)
  BY <1>4 DEF SetAll, Choose
<1>6. ~anew => Showing(p, pending).dims = Now.dims
  BY <1>3, <1>4
<1>7. ~overruled' => p.dims = Showing(p, pending).dims
  BY <1>3, <1>5
<1> QED BY <1>1, <1>2, <1>5, <1>6, <1>7, Chosen

\* An answer of the first query: shown if it is that of the parameters.
LEMMA InitialAnswerStep ==
  ASSUME ExploreInv, NEW a, InitialAnswer(a)
  PROVE  ExploreInv'
<1>1. PICK q : q = IF InitialQuery(Now) = a THEN a ELSE response
  OBVIOUS
<1>2. /\ asked' = asked \ {a} /\ cached' = cached \cup {a} /\ response' = q
      /\ Build(FALSE, Now, q, refused)
      /\ UNCHANGED <<search, pending, refused, measured, childCache, fetches, waiting, chosen, overruled>>
  BY <1>1 DEF InitialAnswer
<1>3. Now' = Now
  BY <1>2 DEF Now
<1>4. PICK anew, p : anew = FALSE /\ p = Now
  OBVIOUS
<1>5. Build(anew, p, q, refused) /\ p = Now' /\ refused = refused'
  BY <1>2, <1>3, <1>4
<1>6. RowsAreShown' /\ LoadingAwaits' /\ \A v \in DOMAIN table' : IsRow(table'[v])
  BY <1>2, <1>3, <1>5, Built
<1>7. AnswerIsShown'
  BY <1>1, <1>2, <1>3 DEF ExploreInv, AnswerIsShown
<1>8. AddressAgrees' /\ FetchesAreAwaited'
  BY <1>2, <1>3 DEF ExploreInv, AddressAgrees, FetchesAreAwaited
<1>9. ExploreType'
  BY <1>2, <1>6 DEF ExploreInv, ExploreType
<1> QED BY <1>6, <1>7, <1>8, <1>9 DEF ExploreInv

\* A first query that fails.
LEMMA InitialFailsStep ==
  ASSUME ExploreInv, NEW a, InitialFails(a)
  PROVE  ExploreInv'
<1>1. PICK q, failing : q = response /\ failing = refused \cup {a}
  OBVIOUS
<1>2. /\ asked' = asked \ {a} /\ refused' = failing /\ response' = q
      /\ Build(FALSE, Now, q, failing)
      /\ UNCHANGED <<search, pending, cached, measured, childCache, fetches, waiting, chosen, overruled>>
  BY <1>1 DEF InitialFails
<1>3. Now' = Now
  BY <1>2 DEF Now
<1>4. PICK anew, p : anew = FALSE /\ p = Now
  OBVIOUS
<1>5. Build(anew, p, q, failing) /\ p = Now'
  BY <1>2, <1>3, <1>4
<1>6. RowsAreShown' /\ LoadingAwaits' /\ \A v \in DOMAIN table' : IsRow(table'[v])
  BY <1>2, <1>3, <1>5, Built
<1>7. AnswerIsShown'
  BY <1>1, <1>2, <1>3 DEF ExploreInv, AnswerIsShown
<1>8. AddressAgrees' /\ FetchesAreAwaited'
  BY <1>2, <1>3 DEF ExploreInv, AddressAgrees, FetchesAreAwaited
<1>9. ExploreType'
  BY <1>2, <1>6 DEF ExploreInv, ExploreType
<1> QED BY <1>6, <1>7, <1>8, <1>9 DEF ExploreInv

\* The extremes arrive, and the table is built again.
LEMMA ExtremesStep ==
  ASSUME ExploreInv, ExtremesArrive
  PROVE  ExploreInv'
<1>2. /\ measured' = TRUE /\ Build(TRUE, Now, response, refused)
      /\ UNCHANGED <<search, pending, cached, asked, refused, response, childCache, fetches, waiting,
                     chosen, overruled>>
  BY DEF ExtremesArrive
<1>3. Now' = Now
  BY <1>2 DEF Now
<1>4. PICK anew, p, q : anew = TRUE /\ p = Now /\ q = response
  OBVIOUS
<1>5. Build(anew, p, q, refused) /\ p = Now' /\ q = response' /\ refused = refused'
  BY <1>2, <1>3, <1>4
<1>6. RowsAreShown' /\ LoadingAwaits' /\ \A v \in DOMAIN table' : IsRow(table'[v])
  BY <1>2, <1>3, <1>5, Built
<1>7. AnswerIsShown'
  BY <1>2, <1>3 DEF ExploreInv, AnswerIsShown
<1>8. AddressAgrees' /\ FetchesAreAwaited'
  BY <1>2, <1>3 DEF ExploreInv, AddressAgrees, FetchesAreAwaited
<1>9. ExploreType'
  BY <1>2, <1>6 DEF ExploreInv, ExploreType
<1> QED BY <1>6, <1>7, <1>8, <1>9 DEF ExploreInv

\* What changes when children are put under a row.
TableWith(t, v, p) ==
  /\ DOMAIN t = DOMAIN table
  /\ \A u \in DOMAIN t : IsRow(t[u]) /\ t[u].of = table[u].of
  /\ \A u \in DOMAIN t : u # v => t[u] = table[u]
  /\ v \in DOMAIN t => t[v].children = p /\ t[v].loading = FALSE

\* The table with children is of that kind.
LEMMA WithChildrenIs ==
  ASSUME ExploreInv, NEW v, NEW p, NEW t, WithChildren(v, p) = t
  PROVE  TableWith(t, v, p)
<1> USE DEF TableWith
<1>1. CASE v \notin DOMAIN table
  BY <1>1 DEF WithChildren, ExploreInv, ExploreType
<1>2. CASE v \in DOMAIN table
  <2>1. PICK r : r = table[v]
    OBVIOUS
  <2>2. r = [of |-> r.of, children |-> r.children, loading |-> r.loading]
    BY <1>2, <2>1 DEF ExploreInv, ExploreType, IsRow
  <2>3. t = [table EXCEPT ![v] = [of |-> r.of, children |-> p, loading |-> FALSE]]
    <3>1. t = [table EXCEPT ![v].children = p, ![v].loading = FALSE]
      BY <1>2 DEF WithChildren
    <3>2. t = [[table EXCEPT ![v] = [@ EXCEPT !.children = p]] EXCEPT ![v] = [@ EXCEPT !.loading = FALSE]]
      BY <3>1
    <3>3. PICK m : m = [table EXCEPT ![v] = [@ EXCEPT !.children = p]]
      OBVIOUS
    <3>4. m[v] = [of |-> r.of, children |-> p, loading |-> r.loading]
      BY <1>2, <2>1, <2>2, <3>3
    <3> QED BY <1>2, <2>1, <2>2, <3>2, <3>3, <3>4
  <2>4. /\ DOMAIN t = DOMAIN table /\ t[v] = [of |-> r.of, children |-> p, loading |-> FALSE]
        /\ \A u \in DOMAIN t : u # v => t[u] = table[u]
    BY <1>2, <2>3
  <2>5. t[v].of = r.of /\ t[v].children = p /\ t[v].loading = FALSE /\ IsRow(t[v])
    BY <2>4 DEF IsRow
  <2> QED BY <2>1, <2>4, <2>5 DEF ExploreInv, ExploreType
<1> QED BY <1>1, <1>2

\* A key names its row.
LEMMA KeyNames ==
  ASSUME NEW v, NEW p
  PROVE  ChildKey(v, p).row = v
BY DEF ChildKey

\* What changes when a row is marked as loading, or as not loading any more.
LEMMA MarkedIs ==
  ASSUME ExploreInv, NEW v \in DOMAIN table, NEW b, NEW t, t = [table EXCEPT ![v].loading = b]
  PROVE  /\ DOMAIN t = DOMAIN table
         /\ \A u \in DOMAIN t : /\ IsRow(t[u])
                                /\ t[u].of = table[u].of /\ t[u].children = table[u].children
         /\ \A u \in DOMAIN t : u # v => t[u] = table[u]
         /\ t[v].loading = b
<1>1. PICK r : r = table[v]
  OBVIOUS
<1>2. r = [of |-> r.of, children |-> r.children, loading |-> r.loading]
  BY <1>1 DEF ExploreInv, ExploreType, IsRow
<1>3. t = [table EXCEPT ![v] = [of |-> r.of, children |-> r.children, loading |-> b]]
  <2>1. t = [table EXCEPT ![v] = [@ EXCEPT !.loading = b]]
    OBVIOUS
  <2> QED BY <1>1, <1>2, <2>1
<1>4. /\ DOMAIN t = DOMAIN table /\ t[v] = [of |-> r.of, children |-> r.children, loading |-> b]
      /\ \A u \in DOMAIN t : u # v => t[u] = table[u]
  BY <1>3
<1>5. t[v].of = r.of /\ t[v].children = r.children /\ t[v].loading = b /\ IsRow(t[v])
  BY <1>4 DEF IsRow
<1> QED BY <1>1, <1>4, <1>5 DEF ExploreInv, ExploreType

\* Children of the parameters in force belong under a row of the answer to their first query.
LEMMA Belongs ==
  ASSUME ExploreInv, NEW v \in DOMAIN table, NEW p \in Params, p = Now, table[v].of = InitialQuery(Now)
  PROVE  p \in Params /\ p.dims = Now.dims /\ InitialQuery(p) = Shown
BY DEF ExploreInv, RowsAreShown

\* Children of a row from the cache.
LEMMA ExpandHits ==
  ASSUME ExploreInv, NEW v, v \in DOMAIN table, NEW c \in childCache, c.key = ChildKey(v, Now),
         table' = WithChildren(v, c.params),
         mixed' = IF MayDiffer(v, Now, c.params) THEN mixed \cup {v} ELSE mixed,
         UNCHANGED <<search, pending, cached, asked, refused, response, measured, childCache, chosen,
                     overruled, fetches, waiting>>
  PROVE  ExploreInv'
<1>1. Now' = Now /\ Shown' = Shown
  BY DEF Now, Shown
<1>2. PICK t, p : t = table' /\ p = c.params
  OBVIOUS
<1>3. /\ DOMAIN t = DOMAIN table
      /\ \A u \in DOMAIN t : IsRow(t[u]) /\ t[u].of = table[u].of
      /\ \A u \in DOMAIN t : u # v => t[u] = table[u]
      /\ t[v].children = c.params /\ t[v].loading = FALSE
  <2>1. t = WithChildren(v, p)
    BY <1>2
  <2>2. TableWith(t, v, p)
    BY <2>1, WithChildrenIs
  <2> QED BY <1>2, <2>2 DEF TableWith
<1>4. Now \in Params /\ c.params \in Params /\ c.key = ChildKey(c.key.row, c.params)
  BY NowIs DEF ExploreInv, ExploreType, Keyed, Now
<1>5. ~MayDiffer(v, Now, c.params) =>
        c.params \in Params /\ c.params.dims = Now.dims /\ InitialQuery(c.params) = Shown
  <2>1. SUFFICES ASSUME ~MayDiffer(v, Now, c.params)
                 PROVE  c.params = Now /\ table[v].of = InitialQuery(Now)
    BY <1>4, Belongs
  <2>2. c.params.metric = Now.metric /\ table[v].of = InitialQuery(Now)
    BY <2>1 DEF MayDiffer
  <2> QED BY <1>4, <2>2, KeyTells
<1>6. RowsAreShown'
  <2>1. Shown' = None => DOMAIN t = {}
    BY <1>1, <1>3 DEF ExploreInv, RowsAreShown
  <2>2. \A u \in DOMAIN t : t[u].of = Shown'
    BY <1>1, <1>3 DEF ExploreInv, RowsAreShown
  <2>3. ASSUME NEW u \in DOMAIN t \ mixed'
        PROVE  \/ t[u].children = None
               \/ /\ t[u].children \in Params /\ t[u].children.dims = Now.dims
                  /\ InitialQuery(t[u].children) = Shown
    <3>1. CASE u = v
      BY <1>3, <1>5, <2>3, <3>1
    <3>2. CASE u # v
      BY <1>3, <2>3, <3>2 DEF ExploreInv, RowsAreShown
    <3> QED BY <3>1, <3>2
  <2> QED BY <1>1, <1>2, <2>1, <2>2, <2>3 DEF RowsAreShown
<1>7. LoadingAwaits'
  BY <1>2, <1>3 DEF ExploreInv, LoadingAwaits
<1>8. AnswerIsShown' /\ AddressAgrees' /\ FetchesAreAwaited'
  BY <1>1 DEF ExploreInv, AnswerIsShown, AddressAgrees, FetchesAreAwaited
<1>9. ExploreType'
  BY <1>2, <1>3 DEF ExploreInv, ExploreType
<1> QED BY <1>6, <1>7, <1>8, <1>9 DEF ExploreInv

\* Children of a row that are asked for.
LEMMA ExpandAsks ==
  ASSUME ExploreInv, NEW v, v \in DOMAIN table, NEW k, k = ChildKey(v, Now),
         fetches' = IF \E f \in fetches : f.key = k THEN fetches
                    ELSE fetches \cup {[key |-> k, params |-> Now]},
         waiting' = waiting \cup {[key |-> k, row |-> v, params |-> Now]},
         table' = [table EXCEPT ![v].loading = TRUE],
         UNCHANGED <<search, pending, cached, asked, refused, response, measured, childCache, chosen,
                     overruled, mixed>>
  PROVE  ExploreInv'
<1>1. Now' = Now /\ Shown' = Shown
  BY DEF Now, Shown
<1>2. PICK t, w, g : /\ t = table' /\ w = [key |-> k, row |-> v, params |-> Now]
                     /\ g = [key |-> k, params |-> Now]
  OBVIOUS
<1>3. /\ DOMAIN t = DOMAIN table
      /\ \A u \in DOMAIN t : /\ IsRow(t[u])
                             /\ t[u].of = table[u].of /\ t[u].children = table[u].children
      /\ \A u \in DOMAIN t : u # v => t[u] = table[u]
  <2>1. PICK b \in BOOLEAN : b = TRUE
    OBVIOUS
  <2>2. t = [table EXCEPT ![v].loading = b]
    BY <1>2, <2>1
  <2> QED BY <2>2, MarkedIs
<1>4. /\ w.key = k /\ w.row = v /\ w.params = Now /\ g.key = k /\ g.params = Now
      /\ w \in waiting' /\ waiting' = waiting \cup {w}
      /\ fetches' = IF \E f \in fetches : f.key = k THEN fetches ELSE fetches \cup {g}
  BY <1>2
<1>5. Now \in Params /\ k.row = v
  BY NowIs, KeyNames DEF ExploreInv, ExploreType, Now
<1>6. RowsAreShown'
  <2>1. (Shown' = None => DOMAIN t = {}) /\ \A u \in DOMAIN t : t[u].of = Shown'
    BY <1>1, <1>3 DEF ExploreInv, RowsAreShown
  <2>2. \A u \in DOMAIN t \ mixed :
          \/ t[u].children = None
          \/ /\ t[u].children \in Params /\ t[u].children.dims = Now.dims
             /\ InitialQuery(t[u].children) = Shown
    BY <1>3 DEF ExploreInv, RowsAreShown
  <2> QED BY <1>1, <1>2, <2>1, <2>2 DEF RowsAreShown
<1>7. LoadingAwaits'
  BY <1>2, <1>3, <1>4 DEF ExploreInv, LoadingAwaits
<1>8. AnswerIsShown' /\ AddressAgrees'
  BY <1>1 DEF ExploreInv, AnswerIsShown, AddressAgrees
<1>9. FetchesAreAwaited'
  <2>1. \A f \in fetches' : \E x \in waiting' : x.key = f.key
    BY <1>4 DEF ExploreInv, FetchesAreAwaited
  <2>2. \A f, h \in fetches' : f.key = h.key => f = h
    BY <1>4 DEF ExploreInv, FetchesAreAwaited
  <2> QED BY <2>1, <2>2 DEF FetchesAreAwaited
<1>10. ExploreType'
  <2>1. Keyed(g)
    BY <1>4, <1>5 DEF Keyed
  <2>2. \A c \in childCache' \cup fetches' : Keyed(c)
    BY <1>4, <2>1 DEF ExploreInv, ExploreType
  <2>3. \A x \in waiting' : x.params \in Params /\ x.key = ChildKey(x.row, x.params)
    BY <1>4, <1>5 DEF ExploreInv, ExploreType
  <2> QED BY <1>2, <1>3, <2>2, <2>3 DEF ExploreInv, ExploreType
<1> QED BY <1>6, <1>7, <1>8, <1>9, <1>10 DEF ExploreInv

\* A row is expanded.
LEMMA ExpandStep ==
  ASSUME ExploreInv, NEW v, Expand(v)
  PROVE  ExploreInv'
<1>1. /\ v \in DOMAIN table
      /\ UNCHANGED <<search, pending, cached, asked, refused, response, measured, childCache, chosen, overruled>>
  BY DEF Expand
<1>2. PICK k : k = ChildKey(v, Now)
  OBVIOUS
<1>3. \/ \E c \in childCache :
           /\ c.key = k
           /\ table' = WithChildren(v, c.params)
           /\ mixed' = IF MayDiffer(v, Now, c.params) THEN mixed \cup {v} ELSE mixed
           /\ UNCHANGED <<fetches, waiting>>
      \/ /\ fetches' = IF \E f \in fetches : f.key = k THEN fetches
                       ELSE fetches \cup {[key |-> k, params |-> Now]}
         /\ waiting' = waiting \cup {[key |-> k, row |-> v, params |-> Now]}
         /\ table' = [table EXCEPT ![v].loading = TRUE]
         /\ UNCHANGED mixed
  BY <1>2 DEF Expand
<1> QED BY <1>1, <1>2, <1>3, ExpandHits, ExpandAsks

\* Children arrive for whoever waits for them.
LEMMA ChildrenArriveStep ==
  ASSUME ExploreInv, NEW f, ChildrenArrive(f)
  PROVE  ExploreInv'
<1>1. PICK v, p, gone : v = f.key.row /\ p = f.params /\ gone = WaitersOf(f)
  OBVIOUS
<1>2. /\ f \in fetches /\ fetches' = fetches \ {f}
      /\ childCache' = {c \in childCache : c.key # f.key} \cup {f}
      /\ waiting' = waiting \ gone
      /\ table' = WithChildren(v, p)
      /\ mixed' = IF \E w \in gone : MayDiffer(v, w.params, p) THEN mixed \cup {v} ELSE mixed
      /\ UNCHANGED <<search, pending, cached, asked, refused, response, measured, chosen, overruled>>
  BY <1>1 DEF ChildrenArrive
<1>3. Now' = Now /\ Shown' = Shown
  BY <1>2 DEF Now, Shown
<1>4. PICK t : t = table'
  OBVIOUS
<1>5. TableWith(t, v, p)
  <2>1. WithChildren(v, p) = t
    BY <1>2, <1>4
  <2> QED BY <2>1, WithChildrenIs
<1>6. p \in Params /\ f.key = ChildKey(v, p)
  BY <1>1, <1>2 DEF ExploreInv, ExploreType, Keyed
<1>7. \A w \in gone : w \in waiting /\ w.key = f.key /\ w.params \in Params /\ w.row = v
  <2>1. ASSUME NEW w \in gone
        PROVE  w \in waiting /\ w.key = f.key /\ w.params \in Params /\ w.row = v
    <3>1. w \in waiting /\ w.key = f.key
      BY <1>1 DEF WaitersOf
    <3>2. w.params \in Params /\ w.key = ChildKey(w.row, w.params)
      BY <3>1 DEF ExploreInv, ExploreType
    <3> QED BY <3>1, <3>2, <1>1, KeyNames
  <2> QED BY <2>1
<1>8. PICK z \in gone : TRUE
  BY <1>1, <1>2 DEF ExploreInv, FetchesAreAwaited, WaitersOf
<1>9. ASSUME v \notin mixed', v \in DOMAIN t
      PROVE  p \in Params /\ p.dims = Now.dims /\ InitialQuery(p) = Shown
  <2>1. ~MayDiffer(v, z.params, p)
    BY <1>2, <1>8, <1>9
  <2>2. z.params = Now /\ p.metric = z.params.metric /\ table[v].of = InitialQuery(Now)
    BY <1>5, <1>9, <2>1 DEF MayDiffer, TableWith
  <2>3. z.params \in Params /\ ChildKey(v, p) = ChildKey(v, z.params)
    BY <1>6, <1>7, <1>8 DEF ExploreInv, ExploreType
  <2>4. p = Now
    BY <1>6, <2>2, <2>3, KeyTells
  <2> QED BY <1>5, <1>6, <1>9, <2>2, <2>4, Belongs DEF TableWith
<1>10. RowsAreShown'
  <2>1. (Shown' = None => DOMAIN t = {}) /\ \A u \in DOMAIN t : t[u].of = Shown'
    BY <1>3, <1>5 DEF ExploreInv, RowsAreShown, TableWith
  <2>2. ASSUME NEW u \in DOMAIN t \ mixed'
        PROVE  \/ t[u].children = None
               \/ /\ t[u].children \in Params /\ t[u].children.dims = Now.dims
                  /\ InitialQuery(t[u].children) = Shown
    <3>1. CASE u = v
      BY <1>5, <1>9, <2>2, <3>1 DEF TableWith
    <3>2. CASE u # v
      BY <1>2, <1>5, <2>2, <3>2 DEF ExploreInv, RowsAreShown, TableWith
    <3> QED BY <3>1, <3>2
  <2> QED BY <1>3, <1>4, <2>1, <2>2 DEF RowsAreShown
<1>11. LoadingAwaits'
  <2>1. ASSUME NEW u \in DOMAIN t, t[u].loading
        PROVE  \E w \in waiting' : w.row = u
    <3>1. u # v
      BY <1>5, <2>1 DEF TableWith
    <3>2. PICK w \in waiting : w.row = u
      BY <1>5, <2>1, <3>1 DEF ExploreInv, LoadingAwaits, TableWith
    <3> QED BY <1>2, <1>7, <3>1, <3>2
  <2> QED BY <1>4, <2>1 DEF LoadingAwaits
<1>12. AnswerIsShown' /\ AddressAgrees'
  BY <1>2, <1>3 DEF ExploreInv, AnswerIsShown, AddressAgrees
<1>13. FetchesAreAwaited'
  <2>1. \A g \in fetches' : \E w \in waiting' : w.key = g.key
    <3>1. ASSUME NEW g \in fetches'
          PROVE  \E w \in waiting' : w.key = g.key
      <4>1. g \in fetches /\ g.key # f.key
        BY <1>2, <3>1 DEF ExploreInv, FetchesAreAwaited
      <4>2. PICK w \in waiting : w.key = g.key
        BY <4>1 DEF ExploreInv, FetchesAreAwaited
      <4> QED BY <1>2, <1>7, <4>1, <4>2
    <3> QED BY <3>1
  <2>2. \A g, h \in fetches' : g.key = h.key => g = h
    BY <1>2 DEF ExploreInv, FetchesAreAwaited
  <2> QED BY <2>1, <2>2 DEF FetchesAreAwaited
<1>14. ExploreType'
  BY <1>2, <1>4, <1>5 DEF ExploreInv, ExploreType, TableWith
<1> QED BY <1>10, <1>11, <1>12, <1>13, <1>14 DEF ExploreInv

\* Or they fail, and the row is not loading any more.
LEMMA ChildrenFailStep ==
  ASSUME ExploreInv, NEW f, ChildrenFail(f)
  PROVE  ExploreInv'
<1>1. PICK v, gone : v = f.key.row /\ gone = WaitersOf(f)
  OBVIOUS
<1>2. /\ f \in fetches /\ fetches' = fetches \ {f} /\ waiting' = waiting \ gone
      /\ table' = NotLoading(v)
      /\ UNCHANGED <<search, pending, cached, asked, refused, response, measured, childCache, chosen,
                     overruled, mixed>>
  BY <1>1 DEF ChildrenFail
<1>3. Now' = Now /\ Shown' = Shown
  BY <1>2 DEF Now, Shown
<1>4. PICK t : t = table'
  OBVIOUS
<1>5. /\ DOMAIN t = DOMAIN table
      /\ \A u \in DOMAIN t : /\ IsRow(t[u])
                             /\ t[u].of = table[u].of /\ t[u].children = table[u].children
      /\ \A u \in DOMAIN t : u # v => t[u] = table[u]
      /\ v \in DOMAIN t => t[v].loading = FALSE
  <2>1. CASE v \notin DOMAIN table
    BY <1>2, <1>4, <2>1 DEF NotLoading, ExploreInv, ExploreType
  <2>2. CASE v \in DOMAIN table
    <3>1. PICK b \in BOOLEAN : b = FALSE
      OBVIOUS
    <3>2. t = [table EXCEPT ![v].loading = b]
      BY <1>2, <1>4, <2>2, <3>1 DEF NotLoading
    <3> QED BY <2>2, <3>1, <3>2, MarkedIs
  <2> QED BY <2>1, <2>2
<1>6. \A w \in gone : w \in waiting /\ w.key = f.key /\ w.row = v
  <2>1. ASSUME NEW w \in gone
        PROVE  w \in waiting /\ w.key = f.key /\ w.row = v
    <3>1. w \in waiting /\ w.key = f.key
      BY <1>1 DEF WaitersOf
    <3>2. w.params \in Params /\ w.key = ChildKey(w.row, w.params)
      BY <3>1 DEF ExploreInv, ExploreType
    <3> QED BY <3>1, <3>2, <1>1, KeyNames
  <2> QED BY <2>1
<1>7. \A w \in waiting : w.key = f.key => w \in gone
  BY <1>1 DEF WaitersOf
<1>8. RowsAreShown'
  <2>1. (Shown' = None => DOMAIN t = {}) /\ \A u \in DOMAIN t : t[u].of = Shown'
    BY <1>3, <1>5 DEF ExploreInv, RowsAreShown
  <2>2. \A u \in DOMAIN t \ mixed :
          \/ t[u].children = None
          \/ /\ t[u].children \in Params /\ t[u].children.dims = Now.dims
             /\ InitialQuery(t[u].children) = Shown
    BY <1>5 DEF ExploreInv, RowsAreShown
  <2> QED BY <1>2, <1>3, <1>4, <2>1, <2>2 DEF RowsAreShown
<1>9. LoadingAwaits'
  <2>1. ASSUME NEW u \in DOMAIN t, t[u].loading
        PROVE  \E w \in waiting' : w.row = u
    <3>1. u # v
      BY <1>5, <2>1
    <3>2. PICK w \in waiting : w.row = u
      BY <1>5, <2>1, <3>1 DEF ExploreInv, LoadingAwaits
    <3> QED BY <1>2, <1>6, <3>1, <3>2
  <2> QED BY <1>4, <2>1 DEF LoadingAwaits
<1>10. AnswerIsShown' /\ AddressAgrees'
  BY <1>2, <1>3 DEF ExploreInv, AnswerIsShown, AddressAgrees
<1>11. FetchesAreAwaited'
  <2>1. \A g \in fetches' : \E w \in waiting' : w.key = g.key
    <3>1. ASSUME NEW g \in fetches'
          PROVE  \E w \in waiting' : w.key = g.key
      <4>1. g \in fetches /\ g.key # f.key
        BY <1>2, <3>1 DEF ExploreInv, FetchesAreAwaited
      <4>2. PICK w \in waiting : w.key = g.key
        BY <4>1 DEF ExploreInv, FetchesAreAwaited
      <4> QED BY <1>2, <1>6, <4>1, <4>2
    <3> QED BY <3>1
  <2>2. \A g, h \in fetches' : g.key = h.key => g = h
    BY <1>2 DEF ExploreInv, FetchesAreAwaited
  <2> QED BY <2>1, <2>2 DEF FetchesAreAwaited
<1>12. ExploreType'
  BY <1>2, <1>4, <1>5 DEF ExploreInv, ExploreType
<1> QED BY <1>8, <1>9, <1>10, <1>11, <1>12 DEF ExploreInv

\* Every step of the page keeps the invariant.
LEMMA ExploreSteps ==
  ASSUME ExploreInv, [ExploreNext]_exploreVars
  PROVE  ExploreInv'
<1>1. CASE ExploreNext
  BY <1>1, SetScopeStep, SetMetricFiltersStep, SetDimensionsStep, SetAllStep, DebounceStep,
     InitialAnswerStep, InitialFailsStep, ExtremesStep, ExpandStep, ChildrenArriveStep, ChildrenFailStep
     DEF ExploreNext
<1>2. CASE UNCHANGED exploreVars
  BY <1>2 DEF exploreVars, ExploreInv, ExploreType, AddressAgrees, AnswerIsShown, RowsAreShown,
     FetchesAreAwaited, LoadingAwaits, Shown, Data, Now
<1> QED BY <1>1, <1>2

\* An open page has asked its first query and shows nothing yet.
LEMMA ExploreStarts ==
  ASSUME ExploreInit
  PROVE  ExploreInv
<1>1. Now = search /\ search \in Params /\ chosen = search
  BY DEF ExploreInit, Now, Showing
<1>2. DOMAIN table = {}
  BY DEF ExploreInit
<1>3. ExploreType
  BY <1>1, <1>2 DEF ExploreInit, ExploreType
<1>4. AddressAgrees /\ AnswerIsShown
  BY <1>1 DEF ExploreInit, AddressAgrees, AnswerIsShown
<1>5. RowsAreShown /\ FetchesAreAwaited /\ LoadingAwaits
  BY <1>2 DEF ExploreInit, RowsAreShown, FetchesAreAwaited, LoadingAwaits
<1> QED BY <1>3, <1>4, <1>5 DEF ExploreInv

\* The invariant says that the table is true: a query neither on its way nor failing has an answer, that
\* answer is the one shown, and children whose first query and dimensions are those of the parameters in
\* force are theirs.
LEMMA TableFollows ==
  ASSUME ExploreInv
  PROVE  TableIsTrue
<1>1. search \in Params /\ chosen \in Params /\ pending \in {None} \cup DimensionLists
  BY DEF ExploreInv, ExploreType
<1>2. /\ Now \in Params /\ Now.scope = search.scope /\ Now.metric = search.metric
  BY <1>1, NowIs DEF Now
<1>3. ChoicesStay
  <2>1. SUFFICES ASSUME ~overruled
                 PROVE  Now = chosen
    BY DEF ChoicesStay
  <2>2. chosen.scope = Now.scope /\ chosen.metric = Now.metric /\ chosen.dims = Now.dims
    BY <1>2, <2>1 DEF ExploreInv, AddressAgrees
  <2> QED BY <1>1, <1>2, <2>2, ParamsAre
<1>4. ASSUME InitialQuery(Now) \notin asked \cup refused
      PROVE  Shown = InitialQuery(Now)
  BY <1>4 DEF ExploreInv, AnswerIsShown, Shown, Data
<1>5. RowsAreAsked
  BY <1>4 DEF RowsAreAsked, ExploreInv, RowsAreShown
<1>6. ChildrenAreAsked
  <2>1. SUFFICES ASSUME InitialQuery(Now) \notin asked \cup refused, NEW v \in DOMAIN table \ mixed,
                        table[v].children # None
                 PROVE  table[v].children = Now
    BY DEF ChildrenAreAsked
  <2>2. PICK c : c = table[v].children
    OBVIOUS
  <2>3. c \in Params /\ c.dims = Now.dims /\ InitialQuery(c) = InitialQuery(Now)
    BY <1>4, <2>1, <2>2 DEF ExploreInv, RowsAreShown
  <2>4. c.scope = Now.scope /\ c.metric = Now.metric
    BY <2>3, QueryTells
  <2> QED BY <1>2, <2>2, <2>3, <2>4, ParamsAre
<1> QED BY <1>3, <1>5, <1>6 DEF TableIsTrue, ExploreInv

\* The table of the Explore page shows what was asked for: the parameters in force are those chosen last
\* (useExploreParams.ts), with no first query on its way the rows and their children are of those
\* parameters, and a row that is loading awaits an answer (explore.tsx).
THEOREM TableShowsWhatWasAsked ==
  ExploreSpec => []TableIsTrue
<1>1. ExploreInit => ExploreInv
  BY ExploreStarts
<1>2. ExploreInv /\ [ExploreNext]_exploreVars => ExploreInv'
  BY ExploreSteps
<1>3. ExploreInv => TableIsTrue
  BY TableFollows
<1> QED BY <1>1, <1>2, <1>3, PTL DEF ExploreSpec
=============================================================================
