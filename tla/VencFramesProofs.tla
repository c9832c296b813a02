-------------------------- MODULE VencFramesProofs --------------------------
(***************************************************************************)
(* Proofs about VencFrames, for any number of channels and slots, any      *)
(* depths of the queues and any set of frames: the types, the agreement of *)
(* table and slots, one frame in flight, and that the channel the table    *)
(* puts first is taken first.                                              *)
(*                                                                         *)
(* The invariant IInv is in parts.  TableOK and SlotsOK hold each other:   *)
(* a start finds a free entry because no slot stands in the table twice,   *)
(* and a free slot because no channel has two; so the counting arguments   *)
(* (FreeSlot, FreeEntry) come first.  Sorting and rotating only move       *)
(* entries about (Moved), which keeps Once and Absent of every slot.       *)
(* EncoderOK says who has the frame in flight: the task between its query  *)
(* and its start, then the encoder; the queries find nobody waiting, hence *)
(* at most one channel waits after them (QueryFacts).                      *)
(***************************************************************************)
EXTENDS VencFrames, FiniteSetTheorems, SequenceTheorems, TLAPS

Pos == 1..Slots
Table == [Pos -> Entry]

Sorted(t) == \A p, q \in Pos : p < q => t[p].pri >= t[q].pri

(* Slot i stands at one place of the table, or at none. *)
Once(t, i) ==
  \E p \in Pos : t[p].slot = i /\ \A q \in Pos : t[q].slot = i => q = p
Absent(t, i) == \A p \in Pos : t[p].slot # i

(* The table has the slots in use, each once, in order. *)
TableOK ==
  /\ Sorted(table)
  /\ \A i \in Pos : IF slot[i] = 0 THEN Absent(table, i) ELSE Once(table, i)

(* A channel has a slot, one, while it is started; a channel that is being *)
(* stopped has lost it.                                                    *)
SlotsOK ==
  /\ \A i, j \in Pos : slot[i] = slot[j] /\ slot[i] # 0 => i = j
  /\ \A i \in Pos : slot[i] # 0 => enabled[slot[i]]
  /\ \A i \in Pos : stopping.chn # 0 => slot[i] # stopping.chn

(* The encoder, the task and the interrupt handler hand the one frame that *)
(* is in flight to each other.                                             *)
EncoderOK ==
  /\ ipFree <=> ~hw /\ ~isr
  /\ ~(hw /\ isr)
  /\ hw \/ isr => curr \in Chn /\ task.at = "idle"
  /\ hw => waiting[curr]
  /\ task.at = "start" => task.chn \in Chn /\ waiting[task.chn]
  /\ \A c \in Chn : waiting[c] => \/ hw /\ curr = c
                                  \/ task.at = "start" /\ task.chn = c

(* A channel waits for the encoder exactly while it has a frame in it.      *)
ImagesOK == \A c \in Chn : waiting[c] <=> image[c] # NoFrame

(* The types, and that no queue is stopped.                                 *)
QueueOK(q, n) == q \in QueueOf(Frame, n) /\ WellFormed(q, n) /\ q.stop = FALSE

FrameTypes ==
  /\ source \in [Chn -> SUBSET Frame] /\ lost \in [Chn -> SUBSET Frame]
  /\ fq \in [Chn -> QueueOf(Frame, QDepth)] /\ \A c \in Chn : QueueOK(fq[c], QDepth)
  /\ image \in [Chn -> Frame \union {NoFrame}] /\ waiting \in [Chn -> BOOLEAN]

ControlTypes ==
  /\ slot \in [Pos -> Chn \union {0}] /\ table \in Table
  /\ setPri \in [Chn -> 0..MaxPri]
  /\ enabled \in [Chn -> BOOLEAN] /\ live \in [Chn -> BOOLEAN]
  /\ stopping \in [chn: Chn \union {0}, slot: 0..Slots]

EncoderTypes ==
  /\ ipFree \in BOOLEAN /\ curr \in Chn \union {0} /\ hw \in BOOLEAN
  /\ task \in [at: {"idle", "query", "start"}, chn: Chn \union {0}]
  /\ isr \in BOOLEAN

IInv ==
  /\ FrameTypes /\ ControlTypes /\ EncoderTypes
  /\ TableOK /\ SlotsOK /\ EncoderOK /\ ImagesOK

(* u has the entries of t in another order. *)
Moved(t, u) == \E f \in Bijection(Pos, Pos) : u = [k \in Pos |-> t[f[k]]]

-----------------------------------------------------------------------------
(* The places of the table. *)

LEMMA PosFacts ==
  /\ Slots \in Nat \ {0} /\ IsFiniteSet(Pos) /\ Cardinality(Pos) = Slots
  /\ \A S \in SUBSET Pos : IsFiniteSet(S) /\ Cardinality(S) \in Nat
<1>1. Slots \in Nat \ {0}
  BY VencFramesAssumption
<1>2. IsFiniteSet(Pos) /\ Cardinality(Pos) = Slots
  BY <1>1, FS_Interval DEF Pos
<1>3. QED BY <1>1, <1>2, FS_Subset, FS_CardinalityType

(* A set of places that is not empty has a first one. *)
LEMMA MinFacts ==
  ASSUME NEW S \in SUBSET Pos, S # {}
  PROVE  Min(S) \in S /\ \A x \in S : Min(S) <= x
<1>1. S \subseteq Nat
  BY PosFacts DEF Pos
<1>2. PICK x \in S : \A y \in S : ~ (<<y, x>> \in OpToRel(<, Nat))
  BY <1>1, NatLessThanWellFounded, WFMin
<1>3. \A y \in S : x <= y
  <2>1. \A y \in S : ~ (y < x)
    BY <1>1, <1>2 DEF OpToRel
  <2>2. QED BY <1>1, <2>1
<1>4. QED BY <1>3 DEF Min

-----------------------------------------------------------------------------
(* The sort moves the entries about and puts them in order. *)

LEMMA RankLess ==
  ASSUME NEW t \in Table, NEW q \in Pos, NEW r \in Pos, q # r, Goes(t, q, r)
  PROVE  Rank(t, q) < Rank(t, r)
<1> DEFINE S(x) == {y \in Pos : Goes(t, y, x)}
<1>1. \A x \in Pos : S(x) \subseteq Pos /\ IsFiniteSet(S(x)) /\ Cardinality(S(x)) = Rank(t, x)
  BY PosFacts DEF Rank, Pos
<1>2. \A x \in Pos : t[x].pri \in Int /\ x \in Int
  BY PosFacts DEF Table, Entry, Pos
<1>3. S(q) \subseteq S(r) /\ r \in S(r) /\ r \notin S(q)
  BY <1>2 DEF Goes
<1>4. Cardinality(S(q)) <= Cardinality(S(r)) /\ Cardinality(S(q)) # Cardinality(S(r))
  BY <1>1, <1>3, FS_Subset
<1>5. Cardinality(S(q)) \in Nat /\ Cardinality(S(r)) \in Nat
  BY <1>1, FS_CardinalityType
<1>6. Cardinality(S(q)) < Cardinality(S(r))
  BY <1>4, <1>5
<1>7. QED BY <1>1, <1>6

LEMMA RankOnto ==
  ASSUME NEW t \in Table, NEW k \in Pos
  PROVE  \E r \in Pos : Rank(t, r) = k
<1> DEFINE S(x) == {y \in Pos : Goes(t, y, x)}
           f == [r \in Pos |-> Rank(t, r)]
<1>1. \A x \in Pos : t[x].pri \in Int /\ x \in Int
  BY PosFacts DEF Table, Entry, Pos
<1>2. ASSUME NEW r \in Pos PROVE Rank(t, r) \in Pos
  <2>1. /\ S(r) \subseteq Pos /\ IsFiniteSet(S(r)) /\ Cardinality(S(r)) = Rank(t, r)
        /\ Cardinality(S(r)) \in Nat
    BY PosFacts DEF Rank, Pos
  <2>2. r \in S(r)
    BY <1>1 DEF Goes
  <2>3. Cardinality(S(r)) # 0
    BY <2>1, <2>2, FS_EmptySet
  <2>4. Cardinality(S(r)) <= Slots
    BY <2>1, PosFacts, FS_Subset
  <2>5. QED BY <2>1, <2>3, <2>4, PosFacts DEF Pos
<1>3. \A q, r \in Pos : q # r => Goes(t, q, r) \/ Goes(t, r, q)
  BY <1>1 DEF Goes
<1>4. \A q, r \in Pos : q # r => Rank(t, q) # Rank(t, r)
  BY <1>2, <1>3, RankLess, PosFacts DEF Pos
<1>5. f \in [Pos -> Pos]
  BY <1>2
<1>6. f \in Injection(Pos, Pos)
  BY <1>4, <1>5 DEF Injection, IsInjective
<1>7. f \in Surjection(Pos, Pos)
  BY <1>6, PosFacts, FS_Injection
<1>8. QED BY <1>7 DEF Surjection

LEMMA MovedFacts ==
  ASSUME NEW t \in Table, NEW u, Moved(t, u), NEW i
  PROVE  /\ u \in Table
         /\ Once(t, i) => Once(u, i)
         /\ Absent(t, i) => Absent(u, i)
<1>1. PICK f \in Bijection(Pos, Pos) : u = [k \in Pos |-> t[f[k]]]
  BY DEF Moved
<1>2. /\ f \in [Pos -> Pos] /\ \A k \in Pos : u[k] = t[f[k]]
      /\ \A p \in Pos : \E k \in Pos : f[k] = p
      /\ \A j, k \in Pos : f[j] = f[k] => j = k
  BY <1>1 DEF Bijection, Injection, Surjection, IsInjective
<1>3. u \in Table
  BY <1>1, <1>2 DEF Table
<1>4. ASSUME Once(t, i) PROVE Once(u, i)
  <2>1. PICK p \in Pos : t[p].slot = i /\ \A q \in Pos : t[q].slot = i => q = p
    BY <1>4 DEF Once
  <2>2. PICK k \in Pos : f[k] = p
    BY <1>2
  <2>3. QED BY <1>2, <2>1, <2>2 DEF Once
<1>5. Absent(t, i) => Absent(u, i)
  BY <1>2 DEF Absent
<1>6. QED BY <1>3, <1>4, <1>5

LEMMA SortFacts ==
  ASSUME NEW t \in Table
  PROVE  Moved(t, SortPriority(t)) /\ Sorted(SortPriority(t))
<1> DEFINE f == [k \in Pos |-> CHOOSE r \in Pos : Rank(t, r) = k]
<1>1. \A k \in Pos : f[k] \in Pos /\ Rank(t, f[k]) = k
  BY RankOnto
<1>2. SortPriority(t) = [k \in Pos |-> t[f[k]]]
  BY DEF SortPriority, Pos
<1>3. f \in [Pos -> Pos] /\ \A j, k \in Pos : f[j] = f[k] => j = k
  BY <1>1
<1>4. f \in Injection(Pos, Pos)
  BY <1>3 DEF Injection, IsInjective
<1>5. f \in Bijection(Pos, Pos)
  BY <1>4, PosFacts, FS_Injection DEF Bijection
<1>6. ASSUME NEW p \in Pos, NEW q \in Pos, p < q
      PROVE  SortPriority(t)[p].pri >= SortPriority(t)[q].pri
  <2> HIDE DEF f
  <2>0. p \in Int /\ q \in Int
    BY PosFacts DEF Pos
  <2>1. Rank(t, f[p]) < Rank(t, f[q]) /\ f[p] # f[q] /\ f[p] \in Pos /\ f[q] \in Pos
    BY <1>1, <1>6, <2>0
  <2>2. ~Goes(t, f[q], f[p])
    <3>1. Rank(t, f[p]) \in Int /\ Rank(t, f[q]) \in Int
      BY <1>1, PosFacts DEF Pos
    <3>2. QED BY <2>1, <3>1, RankLess
  <2>3. \A x \in Pos : t[x].pri \in Int /\ x \in Int
    BY PosFacts DEF Table, Entry, Pos
  <2>4. t[f[p]].pri >= t[f[q]].pri
    BY <2>1, <2>2, <2>3 DEF Goes
  <2>5. QED BY <1>2, <2>4
<1>7. Moved(t, SortPriority(t))
  BY <1>2, <1>5 DEF Moved
<1>8. QED BY <1>6, <1>7 DEF Sorted

LEMMA RotateFacts ==
  ASSUME NEW t \in Table, Sorted(t), NEW p \in Pos, t[p].slot # 0
  PROVE  Moved(t, RotatePriority(t, p)) /\ Sorted(RotatePriority(t, p))
<1> DEFINE group == {q \in Pos : t[q].pri = t[p].pri /\ t[q].slot # 0}
           id == Min(group)
           last == id + Cardinality(group) - 1
           f == [q \in Pos |-> IF q \in id..(last - 1) THEN q + 1
                               ELSE IF q = last THEN id ELSE q]
           g == [q \in Pos |-> IF q \in (id + 1)..last THEN q - 1
                               ELSE IF q = id THEN last ELSE q]
<1>1. /\ group \subseteq Pos /\ p \in group
      /\ IsFiniteSet(group) /\ Cardinality(group) \in Nat \ {0}
  BY PosFacts, FS_EmptySet
<1>2. id \in group /\ \A x \in group : id <= x
  BY <1>1, MinFacts
<1>3. \A x \in Pos : t[x].pri \in Int /\ x \in Int /\ 1 <= x /\ x <= Slots
  BY PosFacts DEF Table, Entry, Pos
<1>4. Slots \in Nat
  BY PosFacts
<1>5. \A m \in Int : group \subseteq id..m => Cardinality(group) <= m - id + 1 \/ id > m
  <2> TAKE m \in Int
  <2> HAVE group \subseteq id..m
  <2>1. id \in Int
    BY <1>1, <1>2, <1>3
  <2>2. IsFiniteSet(id..m) /\ Cardinality(id..m) = IF id > m THEN 0 ELSE m - id + 1
    BY <2>1, FS_Interval
  <2>3. Cardinality(group) <= Cardinality(id..m)
    BY <2>2, FS_Subset
  <2>4. QED BY <1>1, <2>1, <2>2, <2>3
<1>6. id \in Pos /\ last \in Pos /\ id <= last
  <2>1. group \subseteq id..Slots /\ id <= Slots /\ id \in Int
    BY <1>1, <1>2, <1>3, <1>4
  <2>2. Cardinality(group) <= Slots - id + 1
    BY <1>4, <1>5, <2>1
  <2>3. QED BY <1>1, <1>2, <1>4, <2>1, <2>2, <1>3 DEF Pos
<1>7. \A q \in Pos : id <= q /\ q <= last => t[q].pri = t[p].pri
  <2>1. t[last].pri = t[p].pri
    <3>1. SUFFICES ASSUME t[last].pri # t[p].pri PROVE FALSE
      OBVIOUS
    <3>2. t[id].pri = t[p].pri /\ id < last
      BY <1>2, <1>3, <1>6, <3>1
    <3>3. t[last].pri < t[p].pri
      BY <1>3, <1>6, <3>1, <3>2 DEF Sorted
    <3>4. \A x \in group : x < last
      BY <1>1, <1>3, <1>6, <3>3 DEF Sorted
    <3> HIDE DEF group, id, last
    <3>5. group \subseteq id..(last - 1) /\ last - 1 \in Int /\ id <= last - 1
      BY <1>1, <1>2, <1>3, <1>6, <3>2, <3>4
    <3>6. Cardinality(group) <= last - 1 - id + 1
      BY <1>3, <1>5, <1>6, <3>5
    <3>7. QED BY <1>1, <1>3, <1>6, <3>6 DEF last
  <2>2. QED BY <1>2, <1>3, <1>6, <2>1 DEF Sorted
<1>8. RotatePriority(t, p) = [q \in Pos |-> t[f[q]]]
  BY DEF RotatePriority, Pos
<1> HIDE DEF group, id, last
<1>a. \A q \in Int : q \in Pos <=> 1 <= q /\ q <= Slots
  BY <1>4 DEF Pos
<1>b. \A q \in Pos : /\ f[q] = IF id <= q /\ q < last THEN q + 1 ELSE IF q = last THEN id ELSE q
                    /\ g[q] = IF id < q /\ q <= last THEN q - 1 ELSE IF q = id THEN last ELSE q
  BY <1>3, <1>6
<1>c. f \in [Pos -> Pos] /\ g \in [Pos -> Pos]
  BY <1>3, <1>4, <1>6, <1>a
<1> HIDE DEF f, g
<1>9. \A q \in Pos : f[g[q]] = q /\ g[f[q]] = q
  BY <1>3, <1>6, <1>b, <1>c
<1>10. f \in Bijection(Pos, Pos)
  BY <1>9, <1>c DEF Bijection, Injection, Surjection, IsInjective
<1>11. \A q \in Pos : t[f[q]].pri = t[q].pri
  BY <1>3, <1>6, <1>7, <1>b, <1>c
<1>12. Sorted(RotatePriority(t, p))
  BY <1>8, <1>11 DEF Sorted
<1>13. QED BY <1>8, <1>10, <1>12 DEF Moved

-----------------------------------------------------------------------------
(* The queues. *)

LEMMA QueueMade ==
  ASSUME NEW n \in Nat, NEW h \in Seq(Frame), NEW m \in 0..n, Len(h) + m = n
  PROVE  QueueOK([head |-> h, free |-> m, stop |-> FALSE], n)
BY DEF QueueOK, QueueOf, WellFormed

LEMMA QueueFacts ==
  ASSUME NEW n \in Nat, NEW q, QueueOK(q, n)
  PROVE  /\ q.head \in Seq(Frame) /\ Len(q.head) \in Nat
         /\ q.free \in Nat /\ Len(q.head) + q.free = n /\ q.stop = FALSE
<1>1. q.head \in Seq(Frame) /\ q.free \in 0..n /\ Len(q.head) + q.free = n /\ q.stop = FALSE
  BY DEF QueueOK, QueueOf, WellFormed
<1>2. Len(q.head) \in Nat
  BY <1>1, LenProperties
<1>3. q.free \in Nat
  BY <1>1
<1>4. QED BY <1>1, <1>2, <1>3

LEMMA NewQueueOK ==
  ASSUME NEW n \in Nat
  PROVE  QueueOK(NewQueue(n), n)
<1>1. <<>> \in Seq(Frame) /\ n \in 0..n /\ Len(<<>>) + n = n
  BY EmptySeq
<1>2. QED BY <1>1, QueueMade DEF NewQueue

LEMMA EnqueueOK ==
  ASSUME NEW n \in Nat, NEW q, QueueOK(q, n), CanQueue(q), NEW f \in Frame
  PROVE  QueueOK(Enqueue(q, f), n)
<1>1. /\ q.head \in Seq(Frame) /\ Len(q.head) \in Nat
      /\ q.free \in Nat /\ Len(q.head) + q.free = n /\ q.stop = FALSE /\ q.free > 0
  BY QueueFacts DEF CanQueue
<1>2. Append(q.head, f) \in Seq(Frame) /\ Len(Append(q.head, f)) = Len(q.head) + 1
  BY <1>1, AppendProperties
<1>3. q.free - 1 \in 0..n /\ Len(Append(q.head, f)) + (q.free - 1) = n
  BY <1>1, <1>2
<1>4. QueueOK([head |-> Append(q.head, f), free |-> q.free - 1, stop |-> FALSE], n)
  BY <1>2, <1>3, QueueMade, Zenon
<1>5. QED BY <1>1, <1>4 DEF Enqueue

LEMMA DequeueOK ==
  ASSUME NEW n \in Nat, NEW q, QueueOK(q, n), CanDequeue(q)
  PROVE  QueueOK(Dequeue(q), n) /\ Head(q.head) \in Frame /\ Dequeue(q) # q
<1>1. /\ q.head \in Seq(Frame) /\ q.head # <<>> /\ Len(q.head) \in Nat
      /\ q.free \in Nat /\ Len(q.head) + q.free = n /\ q.stop = FALSE
  BY QueueFacts DEF CanDequeue
<1>2. Head(q.head) \in Frame /\ Tail(q.head) \in Seq(Frame) /\ Len(Tail(q.head)) = Len(q.head) - 1
  BY <1>1, HeadTailProperties
<1>a. q.free + 1 \in 0..n /\ Len(Tail(q.head)) + (q.free + 1) = n
  <2>1. Len(q.head) # 0
    BY <1>1, EmptySeq
  <2>2. ASSUME NEW k \in Nat, NEW l \in Nat, k + l = n, k # 0
        PROVE  l + 1 \in 0..n /\ (k - 1) + (l + 1) = n
    BY <2>2
  <2>3. q.free + 1 \in 0..n /\ (Len(q.head) - 1) + (q.free + 1) = n
    BY <1>1, <2>1, <2>2
  <2>4. QED BY <1>2, <2>3
<1>3. QueueOK([head |-> Tail(q.head), free |-> q.free + 1, stop |-> FALSE], n)
  BY <1>2, <1>a, QueueMade, Zenon
<1>4. Dequeue(q).free = q.free + 1
  BY DEF Dequeue
<1>5. Dequeue(q) # q
  BY <1>1, <1>4
<1>6. QED BY <1>1, <1>2, <1>3, <1>5 DEF Dequeue

LEMMA DequeueAllOK ==
  ASSUME NEW n \in Nat, NEW q, QueueOK(q, n)
  PROVE  QueueOK(DequeueAll(q), n)
<1>1. /\ Len(q.head) \in Nat /\ q.free \in Nat /\ Len(q.head) + q.free = n /\ q.stop = FALSE
  BY QueueFacts
<1>2. <<>> \in Seq(Frame) /\ q.free + Len(q.head) \in 0..n /\ Len(<<>>) + (q.free + Len(q.head)) = n
  BY <1>1, EmptySeq
<1>3. QueueOK([head |-> <<>>, free |-> q.free + Len(q.head), stop |-> FALSE], n)
  BY <1>2, QueueMade, Zenon
<1>4. QED BY <1>1, <1>3 DEF DequeueAll

LEMMA ToSetType ==
  ASSUME NEW s \in Seq(Frame)
  PROVE  ToSet(s) \subseteq Frame
BY DEF ToSet

LEMMA LastFacts ==
  ASSUME NEW s \in Seq(Frame), s # <<>>
  PROVE  /\ Last(s) \in Frame /\ Front(s) \in Seq(Frame)
         /\ Len(s) \in Nat \ {0} /\ Len(Front(s)) = Len(s) - 1
<1>1. Len(s) \in Nat /\ Len(s) # 0
  BY EmptySeq, LenProperties
<1>2. Len(s) \in 1..Len(s)
  BY <1>1
<1>3. Last(s) \in Frame
  BY <1>2, ElementOfSeq DEF Last
<1>4. \A i \in 1..(Len(s) - 1) : s[i] \in Frame
  BY <1>1, ElementOfSeq
<1>5. Front(s) \in Seq(Frame) /\ Len(Front(s)) = Len(s) - 1
  <2> DEFINE m == Len(s) - 1
  <2>1. m \in Nat /\ \A i \in 1..m : s[i] \in Frame
    BY <1>1, <1>4
  <2> HIDE DEF m
  <2>2. SubSeq(s, 1, m) \in Seq(Frame) /\ Len(SubSeq(s, 1, m)) = m
    BY <2>1, SubSeqProperties
  <2>3. QED BY <2>2 DEF Front, m
<1>6. QED BY <1>1, <1>3, <1>5

(* What one query gets, with and without QuickEncode. *)
LEMMA GotFacts ==
  ASSUME FrameTypes, NEW c \in Chn, CanDequeue(fq[c])
  PROVE  /\ QueueOK(Rest(c), QDepth) /\ Rest(c) # fq[c]
         /\ Got(c).keep \in Frame /\ ToSet(Got(c).back) \subseteq Frame
<1>1. QueueOK(fq[c], QDepth) /\ QDepth \in Nat
  BY VencFramesAssumption DEF FrameTypes
<1>2. fq[c].head \in Seq(Frame) /\ fq[c].head # <<>>
  BY <1>1, QueueFacts DEF CanDequeue
<1>3. CASE c \in Quick
  <2>1. QueueOK(Rest(c), QDepth)
    BY <1>1, <1>3, DequeueAllOK DEF Rest
  <2>2. Rest(c).head = <<>>
    BY <1>3 DEF Rest, DequeueAll
  <2>3. Last(fq[c].head) \in Frame /\ Front(fq[c].head) \in Seq(Frame)
    BY <1>2, LastFacts
  <2>4. Got(c) = [back |-> Front(fq[c].head), keep |-> Last(fq[c].head)]
    BY <1>3 DEF Got, KeepsNewest
  <2>5. ToSet(Got(c).back) \subseteq Frame
    BY <2>3, <2>4, ToSetType
  <2>6. QED BY <1>2, <2>1, <2>2, <2>3, <2>4, <2>5
<1>4. CASE c \notin Quick
  <2>1. QueueOK(Dequeue(fq[c]), QDepth) /\ Head(fq[c].head) \in Frame /\ Dequeue(fq[c]) # fq[c]
    BY <1>1, DequeueOK
  <2>2. Rest(c) = Dequeue(fq[c]) /\ Got(c) = [back |-> <<>>, keep |-> Head(fq[c].head)]
    BY <1>4 DEF Rest, Got
  <2>3. ToSet(<<>>) \subseteq Frame
    BY DEF ToSet
  <2>4. QED BY <2>1, <2>2, <2>3
<1>5. QED BY <1>3, <1>4

LEMMA ChnFacts ==
  /\ 0 \notin Chn /\ \A c \in Chn : c \in Pos
  /\ QDepth \in Nat
BY VencFramesAssumption DEF Pos

-----------------------------------------------------------------------------
(* The query. *)

LEMMA ReadyFacts ==
  ASSUME IInv, NEW p \in Pos, Ready(p)
  PROVE  /\ ChnAt(p) \in Chn /\ CanDequeue(fq[ChnAt(p)]) /\ table[p].slot \in Pos
         /\ slot[table[p].slot] = ChnAt(p)
<1>1. table[p].slot \in 0..Slots
  BY DEF IInv, ControlTypes, Table, Entry
<1>2. table[p].slot # 0 /\ slot[table[p].slot] = ChnAt(p) /\ ChnAt(p) # 0
  BY DEF Ready, ChnAt
<1>3. table[p].slot \in Pos
  BY <1>1, <1>2, PosFacts DEF Pos
<1>4. QED BY <1>2, <1>3 DEF IInv, ControlTypes, Ready

(* At most the channel that was found has a frame in flight afterwards.    *)
LEMMA QueryFacts ==
  ASSUME IInv, NEW p \in 1..(Slots + 1), p \in Pos => Ready(p), QueryChn(p),
         \A c \in Chn : ~waiting[c]
  PROVE  /\ FrameTypes' /\ ImagesOK'
         /\ table' \in Table /\ Sorted(table')
         /\ \A i \in Pos : /\ Once(table, i) => Once(table', i)
                           /\ Absent(table, i) => Absent(table', i)
         /\ \A c \in Chn : waiting'[c] <=> p \in Pos /\ c = ChnAt(p)
<1> DEFINE skip == SkippedBefore(p)
           found == IF p <= Slots THEN {ChnAt(p)} ELSE {}
           back(c) == ToSet(Got(c).back) \union (IF c \in skip THEN {Got(c).keep} ELSE {})
<1>1. p \in Int /\ Slots \in Nat /\ (p <= Slots <=> p \in Pos)
  BY PosFacts DEF Pos
<1>2. ASSUME NEW c \in skip PROVE c \in Chn /\ CanDequeue(fq[c])
  <2>1. PICK q \in {r \in 1..(p - 1) : Ready(r)} : c = ChnAt(q)
    BY DEF SkippedBefore
  <2>2. q \in Pos /\ Ready(q)
    BY <1>1, <2>1 DEF Pos
  <2>3. QED BY <2>1, <2>2, ReadyFacts
<1>3. ASSUME NEW c \in found PROVE c \in Chn /\ CanDequeue(fq[c]) /\ p \in Pos /\ c = ChnAt(p)
  BY <1>1, <1>3, ReadyFacts
<1>4. p \in Pos => ChnAt(p) \in found
  BY <1>1
<1>5. /\ fq' = [c \in Chn |-> IF c \in skip \union found THEN Rest(c) ELSE fq[c]]
      /\ source' = [c \in Chn |-> IF c \in skip \union found THEN source[c] \union back(c)
                                 ELSE source[c]]
      /\ image' = [c \in Chn |-> IF c \in found THEN Got(c).keep ELSE image[c]]
      /\ waiting' = [c \in Chn |-> waiting[c] \/ c \in found]
      /\ table' = IF p <= Slots THEN RotatePriority(table, p) ELSE table
      /\ lost' = lost
  BY DEF QueryChn
<1>a. ASSUME NEW c \in skip \union found
      PROVE  /\ c \in Chn /\ QueueOK(Rest(c), QDepth)
             /\ Got(c).keep \in Frame /\ back(c) \subseteq Frame
  <2>1. c \in Chn /\ CanDequeue(fq[c])
    BY <1>2, <1>3
  <2>2. QED BY <2>1, GotFacts DEF IInv
<1> HIDE DEF skip, found, back
<1>7. \A c \in Chn : QueueOK(fq'[c], QDepth)
  BY <1>5, <1>a DEF IInv, FrameTypes
<1>8. source' \in [Chn -> SUBSET Frame] /\ lost' \in [Chn -> SUBSET Frame]
  BY <1>5, <1>a DEF IInv, FrameTypes
<1>9. image' \in [Chn -> Frame \union {NoFrame}] /\ waiting' \in [Chn -> BOOLEAN]
  BY <1>5, <1>a DEF IInv, FrameTypes
<1>10. FrameTypes'
  BY <1>5, <1>7, <1>8, <1>9 DEF FrameTypes, QueueOK
<1>11. \A c \in Chn : waiting'[c] <=> p \in Pos /\ c = ChnAt(p)
  BY <1>3, <1>4, <1>5
<1>12. ImagesOK'
  <2>1. \A c \in Chn : c \in found => image'[c] # NoFrame
    BY <1>5, <1>a, VencFramesAssumption
  <2>2. QED BY <1>5, <2>1 DEF IInv, ImagesOK
<1>13. table \in Table /\ Sorted(table)
  BY DEF IInv, ControlTypes, TableOK
<1>14. CASE p \in Pos
  <2>1. table[p].slot # 0
    BY <1>14, ReadyFacts, PosFacts DEF Pos
  <2>2. Moved(table, table') /\ Sorted(table')
    BY <1>1, <1>5, <1>13, <1>14, <2>1, RotateFacts
  <2>3. QED BY <1>10, <1>11, <1>12, <1>13, <2>2, MovedFacts
<1>15. CASE p \notin Pos
  BY <1>1, <1>5, <1>10, <1>11, <1>12, <1>13, <1>15
<1>16. QED BY <1>14, <1>15

-----------------------------------------------------------------------------
(* What a step leaves alone stays as it was. *)

LEMMA TableStays ==
  ASSUME IInv, UNCHANGED <<slot, table>>
  PROVE  TableOK'
BY DEF IInv, TableOK, Sorted, Once, Absent

LEMMA SlotsStay ==
  ASSUME IInv, UNCHANGED <<slot, enabled, stopping>>
  PROVE  SlotsOK'
BY DEF IInv, SlotsOK

LEMMA EncoderStays ==
  ASSUME IInv, UNCHANGED <<encoder, waiting>>
  PROVE  EncoderOK' /\ EncoderTypes'
BY DEF IInv, EncoderOK, EncoderTypes, encoder

LEMMA ImagesStay ==
  ASSUME IInv, UNCHANGED <<image, waiting>>
  PROVE  ImagesOK'
BY DEF IInv, ImagesOK

LEMMA FramesStay ==
  ASSUME IInv, UNCHANGED frames
  PROVE  FrameTypes'
BY DEF IInv, FrameTypes, frames, QueueOK

LEMMA ControlStays ==
  ASSUME IInv, UNCHANGED <<slot, table, setPri, enabled, live, stopping>>
  PROVE  ControlTypes'
BY DEF IInv, ControlTypes

-----------------------------------------------------------------------------
(* One lemma for each action. *)

LEMMA InitIInv == Init => IInv
<1> SUFFICES ASSUME Init PROVE IInv
  OBVIOUS
<1> USE DEF Init
<1>1. FrameTypes
  <2>1. QueueOK(NewQueue(QDepth), QDepth)
    BY NewQueueOK, ChnFacts
  <2>2. QED BY <2>1 DEF FrameTypes, QueueOK
<1>2. ControlTypes
  BY VencFramesAssumption DEF ControlTypes, Table, Entry, NoEntry, Pos
<1>3. EncoderTypes
  BY DEF EncoderTypes
<1>4. TableOK
  BY PosFacts DEF TableOK, Sorted, Absent, NoEntry, Pos
<1>5. SlotsOK /\ EncoderOK /\ ImagesOK
  BY DEF SlotsOK, EncoderOK, ImagesOK, Pos
<1>6. QED BY <1>1, <1>2, <1>3, <1>4, <1>5 DEF IInv

LEMMA QFrameByAttachStep ==
  ASSUME IInv, NEW c \in Chn, NEW f \in Frame, QFrameByAttach(c, f)
  PROVE  IInv'
<1>1. /\ UNCHANGED <<image, waiting, lost, slot, table, setPri, encoder, enabled, live, stopping>>
      /\ fq' = [fq EXCEPT ![c] = Enqueue(fq[c], f)]
      /\ source' = [source EXCEPT ![c] = source[c] \ {f}] /\ CanQueue(fq[c])
  BY DEF QFrameByAttach
<1>2. FrameTypes'
  <2>1. QueueOK(Enqueue(fq[c], f), QDepth)
    BY <1>1, EnqueueOK, ChnFacts DEF IInv, FrameTypes
  <2>2. QED BY <1>1, <2>1 DEF IInv, FrameTypes, QueueOK
<1>3. QED BY <1>1, <1>2, TableStays, SlotsStay, EncoderStays, ImagesStay, ControlStays DEF IInv

LEMMA DestroyChnStep ==
  ASSUME IInv, NEW c \in Chn, DestroyChn(c)
  PROVE  IInv'
<1>1. /\ UNCHANGED <<source, image, waiting, slot, table, setPri, encoder, enabled, stopping>>
      /\ fq' = [fq EXCEPT ![c] = NewQueue(QDepth)] /\ live' = [live EXCEPT ![c] = FALSE]
      /\ lost' = [lost EXCEPT ![c] = lost[c] \union ToSet(fq[c].head)]
  BY DEF DestroyChn
<1>2. FrameTypes'
  <2>1. QueueOK(NewQueue(QDepth), QDepth)
    BY NewQueueOK, ChnFacts
  <2>2. ToSet(fq[c].head) \subseteq Frame
    BY QueueFacts, ToSetType, ChnFacts DEF IInv, FrameTypes
  <2>3. QED BY <1>1, <2>1, <2>2 DEF IInv, FrameTypes, QueueOK
<1>3. ControlTypes'
  BY <1>1 DEF IInv, ControlTypes
<1>4. QED BY <1>1, <1>2, <1>3, TableStays, SlotsStay, EncoderStays, ImagesStay DEF IInv

LEMMA CreateChnStep ==
  ASSUME IInv, NEW c \in Chn, CreateChn(c)
  PROVE  IInv'
<1>1. /\ UNCHANGED <<frames, slot, table, encoder, enabled, stopping>>
      /\ live' = [live EXCEPT ![c] = TRUE] /\ setPri' = [setPri EXCEPT ![c] = Priority[c]]
  BY DEF CreateChn
<1>2. ControlTypes'
  BY <1>1, VencFramesAssumption DEF IInv, ControlTypes
<1>3. UNCHANGED <<image, waiting>>
  BY <1>1 DEF frames
<1>4. QED
  BY <1>1, <1>2, <1>3, FramesStay, TableStays, SlotsStay, EncoderStays, ImagesStay DEF IInv

LEMMA TaskCheckStep ==
  ASSUME IInv, TaskCheck
  PROVE  IInv'
<1>1. /\ UNCHANGED <<frames, slot, table, setPri, ipFree, curr, hw, isr, enabled, live, stopping>>
      /\ task.at = "idle" /\ ipFree /\ task' = [at |-> "query", chn |-> 0]
  BY DEF TaskCheck
<1>2. UNCHANGED <<image, waiting>>
  BY <1>1 DEF frames
<1>3. EncoderTypes'
  BY <1>1 DEF IInv, EncoderTypes
<1>4. EncoderOK'
  BY <1>1, <1>2 DEF IInv, EncoderOK
<1>5. QED
  BY <1>1, <1>2, <1>3, <1>4, FramesStay, TableStays, SlotsStay, ImagesStay, ControlStays DEF IInv

LEMMA TaskStartStep ==
  ASSUME IInv, TaskStart
  PROVE  IInv'
<1>1. /\ UNCHANGED <<frames, slot, table, setPri, isr, enabled, live, stopping>>
      /\ task.at = "start" /\ ipFree' = FALSE /\ curr' = task.chn /\ hw' = TRUE
      /\ task' = [at |-> "idle", chn |-> 0]
  BY DEF TaskStart
<1>2. UNCHANGED <<image, waiting>>
  BY <1>1 DEF frames
<1>3. EncoderTypes'
  BY <1>1 DEF IInv, EncoderTypes, EncoderOK
<1>4. EncoderOK'
  BY <1>1, <1>2 DEF IInv, EncoderOK
<1>5. QED
  BY <1>1, <1>2, <1>3, <1>4, FramesStay, TableStays, SlotsStay, ImagesStay, ControlStays DEF IInv

LEMMA IsrEndOfPicStep ==
  ASSUME IInv, IsrEndOfPic
  PROVE  IInv'
<1>1. /\ UNCHANGED <<fq, lost, slot, table, setPri, ipFree, curr, task, enabled, live, stopping>>
      /\ hw /\ ~isr /\ hw' = FALSE /\ isr' = TRUE
      /\ source' = [source EXCEPT ![curr] = source[curr] \union {image[curr]}]
      /\ image' = [image EXCEPT ![curr] = NoFrame]
      /\ waiting' = [waiting EXCEPT ![curr] = FALSE]
  BY DEF IsrEndOfPic, ClearWaitingIsr
<1>2. curr \in Chn /\ image[curr] \in Frame
  BY <1>1 DEF IInv, EncoderOK, ImagesOK, FrameTypes
<1>3. FrameTypes'
  BY <1>1, <1>2 DEF IInv, FrameTypes, QueueOK
<1>4. EncoderTypes'
  BY <1>1 DEF IInv, EncoderTypes
<1>5. EncoderOK' /\ ImagesOK'
  BY <1>1, <1>2 DEF IInv, FrameTypes, EncoderOK, ImagesOK
<1>6. QED BY <1>1, <1>3, <1>4, <1>5, TableStays, SlotsStay, ControlStays DEF IInv

(* After a query the table still has what it had. *)
LEMMA QueriedTableOK ==
  ASSUME IInv, UNCHANGED slot, Sorted(table'),
         \A i \in Pos : /\ Once(table, i) => Once(table', i)
                        /\ Absent(table, i) => Absent(table', i)
  PROVE  TableOK'
<1>1. \A i \in Pos : IF slot[i] = 0 THEN Absent(table', i) ELSE Once(table', i)
  BY DEF IInv, TableOK
<1>2. QED BY <1>1 DEF TableOK, Sorted, Once, Absent

LEMMA TaskQueryStep ==
  ASSUME IInv, TaskQuery
  PROVE  IInv'
<1>1. /\ UNCHANGED <<slot, setPri, ipFree, curr, hw, isr, enabled, live, stopping>>
      /\ task.at = "query"
  BY DEF TaskQuery
<1>2. PICK p \in 1..(Slots + 1) :
        /\ p \in Pos => Ready(p)
        /\ QueryChn(p)
        /\ task' = IF p \in Pos THEN [at |-> "start", chn |-> ChnAt(p)]
                                 ELSE [at |-> "idle", chn |-> 0]
  <2>1. Slots \in Nat \ {0}
    BY PosFacts
  <2>2. CASE \E p \in 1..Slots : /\ Found(p) /\ QueryChn(p)
                                 /\ task' = [at |-> "start", chn |-> ChnAt(p)]
    BY <2>1, <2>2 DEF Found, Pos
  <2>3. CASE QueryChn(Slots + 1) /\ task' = [at |-> "idle", chn |-> 0]
    BY <2>1, <2>3 DEF Pos
  <2>4. QED BY <2>2, <2>3 DEF TaskQuery
<1>3. ~hw /\ ~isr /\ \A c \in Chn : ~waiting[c]
  BY <1>1 DEF IInv, EncoderOK
<1>4. /\ FrameTypes' /\ ImagesOK' /\ table' \in Table /\ Sorted(table')
      /\ \A i \in Pos : /\ Once(table, i) => Once(table', i)
                        /\ Absent(table, i) => Absent(table', i)
      /\ \A c \in Chn : waiting'[c] <=> p \in Pos /\ c = ChnAt(p)
  BY <1>2, <1>3, QueryFacts
<1>5. p \in Pos => ChnAt(p) \in Chn
  BY <1>2, ReadyFacts
<1>6. EncoderTypes'
  BY <1>1, <1>2, <1>5 DEF IInv, EncoderTypes
<1>7. EncoderOK'
  BY <1>1, <1>2, <1>3, <1>4, <1>5 DEF IInv, EncoderOK
<1>8. ControlTypes'
  BY <1>1, <1>4 DEF IInv, ControlTypes
<1>9. TableOK'
  BY <1>1, <1>4, QueriedTableOK
<1>10. QED BY <1>1, <1>4, <1>6, <1>7, <1>8, <1>9, SlotsStay DEF IInv

LEMMA IsrNextStep ==
  ASSUME IInv, IsrNext
  PROVE  IInv'
<1>1. UNCHANGED <<slot, setPri, task, enabled, live, stopping>> /\ isr /\ isr' = FALSE
  BY DEF IsrNext
<1>2. /\ ~hw /\ ~ipFree /\ curr \in Chn /\ task.at = "idle"
      /\ \A c \in Chn : ~waiting[c]
  BY <1>1 DEF IInv, EncoderOK
<1>3. ASSUME NEW p \in 1..(Slots + 1), p \in Pos => Ready(p), QueryChn(p),
             IF p \in Pos THEN ipFree' = FALSE /\ curr' = ChnAt(p) /\ hw' = TRUE
             ELSE ipFree' = TRUE /\ UNCHANGED <<curr, hw>>
      PROVE  IInv'
  <2>1. /\ FrameTypes' /\ ImagesOK' /\ table' \in Table /\ Sorted(table')
        /\ \A i \in Pos : /\ Once(table, i) => Once(table', i)
                          /\ Absent(table, i) => Absent(table', i)
        /\ \A c \in Chn : waiting'[c] <=> p \in Pos /\ c = ChnAt(p)
    BY <1>2, <1>3, QueryFacts
  <2>2. p \in Pos => ChnAt(p) \in Chn
    BY <1>3, ReadyFacts
  <2>3. EncoderTypes'
    BY <1>1, <1>3, <2>2 DEF IInv, EncoderTypes
  <2>4. EncoderOK'
    BY <1>1, <1>2, <1>3, <2>1, <2>2 DEF IInv, EncoderOK
  <2>5. ControlTypes'
    BY <1>1, <2>1 DEF IInv, ControlTypes
  <2>6. TableOK'
    BY <1>1, <2>1, QueriedTableOK
  <2>7. QED BY <1>1, <2>1, <2>3, <2>4, <2>5, <2>6, SlotsStay DEF IInv
<1>4. Slots \in Nat \ {0}
  BY PosFacts
<1>5. CASE \E p \in 1..Slots : Found(p) /\ QueryChn(p) /\ StartNext(ChnAt(p))
  <2>1. PICK p \in 1..Slots : Found(p) /\ QueryChn(p) /\ StartNext(ChnAt(p))
    BY <1>5
  <2>2. p \in 1..(Slots + 1) /\ p \in Pos /\ Ready(p)
    BY <1>4, <2>1 DEF Found, Pos
  <2>3. ipFree' = FALSE /\ curr' = ChnAt(p) /\ hw' = TRUE
    BY <2>1 DEF StartNext
  <2>4. QED BY <1>3, <2>1, <2>2, <2>3
<1>6. CASE QueryChn(Slots + 1) /\ ipFree' = TRUE /\ UNCHANGED <<curr, hw>>
  BY <1>3, <1>4, <1>6 DEF Pos
<1>7. CASE ipFree' = TRUE /\ UNCHANGED <<frames, table, curr, hw>>
  <2>1. UNCHANGED <<image, waiting>>
    BY <1>7 DEF frames
  <2>2. EncoderTypes'
    BY <1>1, <1>7 DEF IInv, EncoderTypes
  <2>3. EncoderOK'
    BY <1>1, <1>2, <1>7, <2>1 DEF IInv, EncoderOK
  <2>4. QED
    BY <1>1, <1>7, <2>1, <2>2, <2>3, FramesStay, TableStays, SlotsStay, ImagesStay, ControlStays
    DEF IInv
<1>8. QED BY <1>5, <1>6, <1>7 DEF IsrNext

LEMMA StopFlushStep ==
  ASSUME IInv, StopFlush
  PROVE  IInv'
<1> DEFINE c == stopping.chn
<1>1. /\ UNCHANGED <<image, waiting, slot, table, setPri, encoder, live>> /\ c # 0
      /\ enabled' = [enabled EXCEPT ![c] = FALSE]
      /\ stopping' = [chn |-> 0, slot |-> 0]
      /\ RlsAllFrame(c) \/ RefreshQueue(c)
  BY DEF StopFlush
<1>2. c \in Chn
  BY <1>1 DEF IInv, ControlTypes
<1> HIDE DEF c
<1>3. QueueOK(DequeueAll(fq[c]), QDepth) /\ ToSet(fq[c].head) \subseteq Frame
  BY <1>2, DequeueAllOK, QueueFacts, ToSetType, ChnFacts DEF IInv, FrameTypes
<1>4. /\ fq' = [fq EXCEPT ![c] = DequeueAll(fq[c])]
      /\ source' \in [Chn -> SUBSET Frame] /\ lost' \in [Chn -> SUBSET Frame]
  <2>1. source \in [Chn -> SUBSET Frame] /\ lost \in [Chn -> SUBSET Frame]
    BY DEF IInv, FrameTypes
  <2>2. CASE RefreshQueue(c)
    BY <1>3, <2>1, <2>2 DEF RefreshQueue, Refresh
  <2>3. CASE RlsAllFrame(c)
    BY <1>3, <2>1, <2>3 DEF RlsAllFrame
  <2>4. QED BY <1>1, <2>2, <2>3
<1>8. FrameTypes'
  BY <1>1, <1>2, <1>3, <1>4 DEF IInv, FrameTypes, QueueOK
<1>9. ControlTypes'
  BY <1>1, <1>2, PosFacts DEF IInv, ControlTypes
<1>10. SlotsOK'
  BY <1>1, <1>2 DEF IInv, SlotsOK, ControlTypes, c
<1>11. QED BY <1>1, <1>8, <1>9, <1>10, TableStays, EncoderStays, ImagesStay DEF IInv

LEMMA StopVencStep ==
  ASSUME IInv, NEW c \in Chn, StopVenc(c)
  PROVE  IInv'
<1> DEFINE i == SlotOf(c)
           t == [j \in Pos |-> IF table[j].slot = i THEN NoEntry ELSE table[j]]
<1>1. /\ UNCHANGED <<frames, setPri, encoder, enabled, live>> /\ c \in Started
      /\ enabled[c] /\ stopping' = [chn |-> c, slot |-> i]
      /\ slot' = [slot EXCEPT ![i] = 0] /\ table' = SortPriority(t)
  BY DEF StopVenc, Pos
<1>2. i \in Pos /\ slot[i] = c
  BY <1>1 DEF Started, SlotOf, Pos
<1> HIDE DEF i
<1>3. t \in Table
  BY VencFramesAssumption DEF IInv, ControlTypes, Table, Entry, NoEntry
<1>4. \A j \in Pos : IF slot'[j] = 0 THEN Absent(t, j) ELSE Once(t, j)
  <2>1. \A p \in Pos : t[p].slot = IF table[p].slot = i THEN 0 ELSE table[p].slot
    BY DEF NoEntry
  <2>2. SUFFICES ASSUME NEW j \in Pos
                 PROVE  IF slot'[j] = 0 THEN Absent(t, j) ELSE Once(t, j)
    OBVIOUS
  <2>3. j # 0
    BY DEF Pos
  <2>4. CASE j = i
    BY <1>1, <1>2, <2>1, <2>3, <2>4 DEF Absent, IInv, ControlTypes
  <2>5. CASE j # i
    BY <1>1, <1>2, <2>1, <2>3, <2>5 DEF Absent, Once, IInv, ControlTypes, TableOK
  <2>6. QED BY <2>4, <2>5
<1> HIDE DEF t
<1>5. Moved(t, table') /\ Sorted(table')
  BY <1>1, <1>3, SortFacts
<1>6. table' \in Table /\ \A j \in Pos : IF slot'[j] = 0 THEN Absent(table', j) ELSE Once(table', j)
  BY <1>3, <1>4, <1>5, MovedFacts
<1>7. TableOK'
  BY <1>5, <1>6 DEF TableOK, Sorted, Once, Absent
<1>8. ControlTypes'
  BY <1>1, <1>2, <1>6 DEF IInv, ControlTypes, Pos
<1>9. SlotsOK'
  BY <1>1, <1>2, ChnFacts DEF IInv, SlotsOK, ControlTypes
<1>10. UNCHANGED <<image, waiting>>
  BY <1>1 DEF frames
<1>11. QED
  BY <1>1, <1>7, <1>8, <1>9, <1>10, FramesStay, EncoderStays, ImagesStay DEF IInv

(* A channel that is not enabled leaves a slot for itself. *)
LEMMA FreeSlot ==
  ASSUME IInv, NEW c \in Chn, ~enabled[c]
  PROVE  \E i \in Pos : slot[i] = 0
<1> SUFFICES ASSUME \A i \in Pos : slot[i] # 0 PROVE FALSE
  OBVIOUS
<1> DEFINE T == Pos \ {c}
<1>1. slot \in [Pos -> T]
  BY ChnFacts DEF IInv, ControlTypes, SlotsOK
<1>2. slot \in Injection(Pos, T)
  BY <1>1 DEF IInv, SlotsOK, Injection, IsInjective
<1>3. IsFiniteSet(T) /\ Cardinality(T) = Slots - 1
  BY PosFacts, ChnFacts, FS_RemoveElement
<1> HIDE DEF T
<1>4. Cardinality(Pos) <= Cardinality(T)
  BY <1>2, <1>3, FS_Injection
<1>5. QED BY <1>3, <1>4, PosFacts

(* A free slot leaves a free entry. *)
LEMMA FreeEntry ==
  ASSUME IInv, NEW i \in Pos, slot[i] = 0
  PROVE  \E p \in Pos : table[p].slot = 0
<1> SUFFICES ASSUME \A p \in Pos : table[p].slot # 0 PROVE FALSE
  OBVIOUS
<1> DEFINE T == Pos \ {i}
           f == [p \in Pos |-> table[p].slot]
<1>1. \A p \in Pos : table[p].slot \in T
  <2> TAKE p \in Pos
  <2>1. table[p].slot \in 0..Slots /\ table[p].slot # 0 /\ table[p].slot # i
    BY DEF IInv, ControlTypes, Table, Entry, TableOK, Absent
  <2>2. QED BY <2>1, PosFacts DEF Pos
<1>2. \A p, q \in Pos : table[p].slot = table[q].slot => p = q
  BY <1>1 DEF IInv, TableOK, Once, Absent
<1>3. f \in Injection(Pos, T)
  BY <1>1, <1>2 DEF Injection, IsInjective
<1>4. IsFiniteSet(T) /\ Cardinality(T) = Slots - 1
  BY PosFacts, FS_RemoveElement
<1> HIDE DEF T, f
<1>5. Cardinality(Pos) <= Cardinality(T)
  BY <1>3, <1>4, FS_Injection
<1>6. QED BY <1>4, <1>5, PosFacts

LEMMA StartVencStep ==
  ASSUME IInv, NEW c \in Chn, StartVenc(c)
  PROVE  IInv'
<1> DEFINE i == Min({j \in Pos : slot[j] = 0})
           p == Min({j \in Pos : table[j].slot = 0})
           e == [slot |-> i, pri |-> Priority[c]]
           t == [table EXCEPT ![p] = e]
<1>1. /\ UNCHANGED <<frames, setPri, encoder, live, stopping>>
      /\ ~enabled[c] /\ stopping.chn = 0
      /\ slot' = [slot EXCEPT ![i] = c] /\ table' = SortPriority(t)
      /\ enabled' = [enabled EXCEPT ![c] = TRUE]
  BY DEF StartVenc, MutexFree, EnterTable, FirstFree, Pos
<1>2. i \in Pos /\ slot[i] = 0
  BY <1>1, FreeSlot, MinFacts
<1>3. p \in Pos /\ table[p].slot = 0
  BY <1>2, FreeEntry, MinFacts
<1> HIDE DEF i, p
<1>4. e \in Entry /\ e.slot = i
  BY <1>2, VencFramesAssumption DEF Entry, Pos
<1> HIDE DEF e
<1>5. t \in Table
  BY <1>4 DEF IInv, ControlTypes, Table
<1>6. \A j \in Pos : IF slot'[j] = 0 THEN Absent(t, j) ELSE Once(t, j)
  <2>1. \A q \in Pos : t[q].slot = IF q = p THEN i ELSE table[q].slot
    BY <1>4 DEF IInv, ControlTypes, Table
  <2>2. SUFFICES ASSUME NEW j \in Pos
                 PROVE  IF slot'[j] = 0 THEN Absent(t, j) ELSE Once(t, j)
    OBVIOUS
  <2>3. j # 0 /\ c # 0
    BY ChnFacts DEF Pos
  <2>4. CASE j = i
    <3>1. slot'[j] # 0 /\ Absent(table, j)
      BY <1>1, <1>2, <2>3, <2>4 DEF IInv, ControlTypes, TableOK
    <3>2. QED BY <1>3, <2>1, <2>4, <3>1 DEF Absent, Once
  <2>5. CASE j # i
    <3>1. slot'[j] = slot[j]
      BY <1>1, <1>2, <2>5 DEF IInv, ControlTypes
    <3>2. QED BY <1>3, <2>1, <2>3, <2>5, <3>1 DEF Absent, Once, IInv, TableOK
  <2>6. QED BY <2>4, <2>5
<1> HIDE DEF t
<1>7. Moved(t, table') /\ Sorted(table')
  BY <1>1, <1>5, SortFacts
<1>8. table' \in Table /\ \A j \in Pos : IF slot'[j] = 0 THEN Absent(table', j) ELSE Once(table', j)
  BY <1>5, <1>6, <1>7, MovedFacts
<1>9. TableOK'
  BY <1>7, <1>8 DEF TableOK, Sorted, Once, Absent
<1>10. ControlTypes'
  BY <1>1, <1>8 DEF IInv, ControlTypes
<1>11. SlotsOK'
  BY <1>1, <1>2, ChnFacts DEF IInv, SlotsOK, ControlTypes
<1>12. UNCHANGED <<image, waiting>>
  BY <1>1 DEF frames
<1>13. QED
  BY <1>1, <1>9, <1>10, <1>11, <1>12, FramesStay, EncoderStays, ImagesStay DEF IInv

LEMMA SetPriorityStep ==
  ASSUME IInv, NEW c \in Chn, NEW pri \in NewPri, SetPriority(c, pri)
  PROVE  IInv'
<1>1. /\ UNCHANGED <<frames, slot, encoder, enabled, live, stopping>>
      /\ setPri' = [setPri EXCEPT ![c] = pri]
  BY DEF SetPriority
<1>2. PICK p \in Pos : table' = SortPriority([table EXCEPT ![p].pri = pri])
  BY DEF SetPriority, Pos
<1>3. pri \in 0..MaxPri
  BY VencFramesAssumption
<1> DEFINE e == [table[p] EXCEPT !.pri = pri]
           t == [table EXCEPT ![p] = e]
<1>4. table' = SortPriority(t)
  BY <1>2, Zenon
<1>5. table \in [Pos -> [slot: 0..Slots, pri: 0..MaxPri]] /\ table[p] \in [slot: 0..Slots, pri: 0..MaxPri]
  BY DEF IInv, ControlTypes, Table, Entry
<1>6. e \in [slot: 0..Slots, pri: 0..MaxPri] /\ e.slot = table[p].slot
  BY <1>3, <1>5
<1> HIDE DEF e
<1>7. t \in Table /\ \A q \in Pos : t[q].slot = table[q].slot
  BY <1>5, <1>6 DEF Table, Entry
<1> HIDE DEF t
<1>8. \A j \in Pos : IF slot[j] = 0 THEN Absent(t, j) ELSE Once(t, j)
  BY <1>7 DEF IInv, TableOK, Absent, Once
<1>9. Moved(t, table') /\ Sorted(table')
  BY <1>4, <1>7, SortFacts
<1>10. table' \in Table /\ \A j \in Pos : IF slot[j] = 0 THEN Absent(table', j) ELSE Once(table', j)
  BY <1>7, <1>8, <1>9, MovedFacts
<1>11. TableOK'
  BY <1>1, <1>9, <1>10 DEF TableOK, Sorted, Once, Absent
<1>12. ControlTypes'
  BY <1>1, <1>3, <1>10 DEF IInv, ControlTypes
<1>13. UNCHANGED <<image, waiting>>
  BY <1>1 DEF frames
<1>14. QED
  BY <1>1, <1>11, <1>12, <1>13, FramesStay, SlotsStay, EncoderStays, ImagesStay DEF IInv

LEMMA StepIInv ==
  ASSUME IInv, [Next]_vars
  PROVE  IInv'
<1>1. CASE UNCHANGED vars
  <2>1. UNCHANGED frames /\ UNCHANGED <<encoder, waiting, image>>
        /\ UNCHANGED <<slot, table, setPri, enabled, live, stopping>>
    BY <1>1 DEF vars, frames, encoder
  <2>2. QED
    BY <2>1, FramesStay, TableStays, SlotsStay, EncoderStays, ImagesStay, ControlStays DEF IInv
<1>2. CASE Next
  BY <1>2, QFrameByAttachStep, StartVencStep, StopVencStep, DestroyChnStep,
     CreateChnStep, SetPriorityStep, StopFlushStep, TaskCheckStep, TaskQueryStep,
     TaskStartStep, IsrEndOfPicStep, IsrNextStep DEF Next
<1>3. QED BY <1>1, <1>2

LEMMA AlwaysIInv == Spec => []IInv
BY InitIInv, StepIInv, PTL DEF Spec

-----------------------------------------------------------------------------
(* Who is taken. *)

(* The priority of a channel is that of its entry. *)
LEMMA PriorityFacts ==
  ASSUME IInv, NEW p \in Pos, ChnAt(p) # 0
  PROVE  PriorityOf(ChnAt(p)) = table[p].pri
<1> DEFINE i == table[p].slot
<1>1. i \in Pos /\ slot[i] = ChnAt(p)
  <2>1. i \in 0..Slots /\ i # 0 /\ slot[i] = ChnAt(p)
    BY DEF ChnAt, IInv, ControlTypes, Table, Entry
  <2>2. QED BY <2>1, PosFacts DEF Pos
<1>2. \A j \in Pos : slot[j] = ChnAt(p) => j = i
  BY <1>1 DEF IInv, SlotsOK
<1>3. SlotOf(ChnAt(p)) = i
  BY <1>1, <1>2 DEF SlotOf, Pos
<1>4. \A q \in Pos : table[q].slot = i => q = p
  BY <1>1 DEF IInv, TableOK, Once
<1>5. (CHOOSE q \in Pos : table[q].slot = i) = p
  BY <1>4
<1>6. QED BY <1>3, <1>5 DEF PriorityOf, Pos

LEMMA StartedFacts ==
  ASSUME IInv, NEW d \in Started
  PROVE  d \in Chn /\ \E q \in Pos : ChnAt(q) = d
<1>1. PICK i \in Pos : slot[i] = d /\ d # 0
  BY DEF Started, Pos
<1>2. d \in Chn /\ i # 0
  BY <1>1 DEF IInv, ControlTypes, Pos
<1>3. PICK q \in Pos : table[q].slot = i
  BY <1>1 DEF IInv, TableOK, Once
<1>4. QED BY <1>1, <1>2, <1>3 DEF ChnAt

(* Only a query makes a channel wait. *)
LEMMA TakenByQuery ==
  ASSUME IInv, [Next]_vars, NEW c \in Chn, ~waiting[c], waiting'[c]
  PROVE  \E p \in Pos : Ready(p) /\ QueryChn(p) /\ c = ChnAt(p)
<1>1. waiting \in [Chn -> BOOLEAN]
  BY DEF IInv, FrameTypes
<1>2. ~UNCHANGED waiting
  OBVIOUS
<1>3. ASSUME NEW p \in Pos, Found(p), QueryChn(p)
      PROVE  Ready(p) /\ c = ChnAt(p)
  BY <1>3, PosFacts DEF Found, QueryChn, Pos
<1>4. ~QueryChn(Slots + 1)
  <2>1. Slots \in Nat
    BY PosFacts
  <2>2. ~(Slots + 1 <= Slots)
    BY <2>1
  <2>3. QueryChn(Slots + 1) => waiting' = [d \in Chn |-> waiting[d] \/ d \in {}]
    BY <2>2, Zenon DEF QueryChn
  <2>4. QED BY <2>3, Zenon
<1>5. ~IsrEndOfPic
  BY <1>1 DEF IsrEndOfPic, ClearWaitingIsr
<1>6. TaskQuery \/ IsrNext
  BY <1>2, <1>5 DEF Next, vars, frames, QFrameByAttach, StartVenc, StopVenc, DestroyChn,
     CreateChn, SetPriority, StopFlush, TaskCheck, TaskStart
<1>7. \E p \in Pos : Found(p) /\ QueryChn(p)
  BY <1>2, <1>4, <1>6 DEF TaskQuery, IsrNext, frames, Pos
<1>8. QED BY <1>3, <1>7

-----------------------------------------------------------------------------
(* The theorems. *)

(* Every variable keeps its type and no queue of the driver ever has more  *)
(* or fewer elements than VENC_DRV_MngQueueInit made, whatever sources,    *)
(* control calls, task and interrupt handler do.                           *)
THEOREM TypeCorrect == Spec => []TypeOK
<1>1. IInv => TypeOK
  BY DEF IInv, FrameTypes, ControlTypes, EncoderTypes, QueueOK, TypeOK, Table, Pos
<1>2. QED BY <1>1, AlwaysIInv, PTL

(* PriorityTab and VeduChnCtx agree: through every start, stop, change of  *)
(* priority (VENC_DRV_EflSortPriority) and rotation                        *)
(* (VENC_DRV_EflSortPriority_2) each channel that is started stands in the *)
(* table once, one that is not nowhere, and the table is sorted.           *)
THEOREM TableAgrees == Spec => []TableMatches
<1>1. ASSUME IInv PROVE TableMatches
  <2>1. \A i \in Pos : Once(table, i) <=> Cardinality({p \in Pos : table[p].slot = i}) = 1
    <3> TAKE i \in Pos
    <3> DEFINE S == {p \in Pos : table[p].slot = i}
    <3>1. IsFiniteSet(S)
      BY PosFacts
    <3>2. Cardinality(S) = 1 <=> \E p : S = {p}
      BY <3>1, FS_Singleton
    <3>3. ASSUME Once(table, i) PROVE \E p : S = {p}
      <4>1. PICK p \in Pos : table[p].slot = i /\ \A q \in Pos : table[q].slot = i => q = p
        BY <3>3 DEF Once
      <4>2. S = {p}
        BY <4>1
      <4>3. QED BY <4>2
    <3>4. ASSUME NEW p, S = {p} PROVE Once(table, i)
      BY <3>4 DEF Once
    <3>5. QED BY <3>2, <3>3, <3>4
  <2>2. \A i \in Pos : ~(Once(table, i) /\ Absent(table, i))
    BY DEF Once, Absent
  <2>3. \A i \in Pos : /\ slot[i] # 0 <=> Once(table, i)
                       /\ slot[i] = 0 <=> Absent(table, i)
    BY <1>1, <2>2 DEF IInv, TableOK
  <2>4. Sorted(table)
    BY <1>1 DEF IInv, TableOK
  <2>5. \A i \in Pos : slot[i] # 0 <=> Cardinality({p \in Pos : table[p].slot = i}) = 1
    BY <2>1, <2>3
  <2>6. \A i \in Pos : slot[i] = 0 <=> \A p \in Pos : table[p].slot # i
    BY <2>3 DEF Absent
  <2>7. QED BY <2>4, <2>5, <2>6, Zenon DEF TableMatches, Sorted, Pos
<1>2. QED BY <1>1, AlwaysIInv, PTL

(* There is one encoder, and two contexts, VENC_DRV_EflTask and Venc_ISR,  *)
(* that take a frame and start it: at most one frame is on its way, and it *)
(* is the one that the encoder or the task has.                            *)
THEOREM OneAtATime == Spec => []OneInFlight
<1>1. IInv => OneInFlight
  BY DEF IInv, EncoderOK, OneInFlight
<1>2. QED BY <1>1, AlwaysIInv, PTL

(* VENC_DRV_EflQueryChn takes a channel only when every started channel    *)
(* that PriorityTab puts before it had no frame or had its frame skipped,  *)
(* in the task and in the interrupt handler alike.                         *)
THEOREM PriorityKept == Spec => HighestFirst
<1> DEFINE A == \A c, d \in Started :
                  (~waiting[c] /\ waiting'[c] /\ PriorityOf(d) > PriorityOf(c)) =>
                     fq[d].head = <<>> \/ fq'[d] # fq[d]
<1>1. ASSUME IInv, [Next]_vars PROVE A
  <2>1. SUFFICES ASSUME NEW c \in Started, NEW d \in Started, ~waiting[c], waiting'[c],
                        PriorityOf(d) > PriorityOf(c), fq[d].head # <<>>
                 PROVE  fq'[d] # fq[d]
    OBVIOUS
  <2>2. c \in Chn /\ d \in Chn
    BY <1>1, StartedFacts
  <2>3. PICK p \in Pos : Ready(p) /\ QueryChn(p) /\ c = ChnAt(p)
    BY <1>1, <2>1, <2>2, TakenByQuery
  <2>4. PICK q \in Pos : ChnAt(q) = d
    BY <1>1, StartedFacts
  <2>5. table[q].pri > table[p].pri
    <3>1. c # 0 /\ d # 0
      BY <2>2, ChnFacts
    <3>2. PriorityOf(c) = table[p].pri /\ PriorityOf(d) = table[q].pri
      BY <1>1, <2>3, <2>4, <3>1, PriorityFacts
    <3>3. QED BY <2>1, <3>2
  <2>6. q \in 1..(p - 1)
    <3>1. \A x \in Pos : table[x].pri \in Int /\ x \in Int /\ 1 <= x
      BY <1>1, PosFacts DEF IInv, ControlTypes, Table, Entry, Pos
    <3>2. \A x, y \in Pos : x < y => table[x].pri >= table[y].pri
      BY <1>1 DEF IInv, TableOK, Sorted
    <3>3. q < p
      BY <2>5, <3>1, <3>2
    <3>4. QED BY <3>1, <3>3
  <2>7. QueueOK(fq[d], QDepth) /\ CanDequeue(fq[d])
    BY <1>1, <2>1, <2>2 DEF IInv, FrameTypes, QueueOK, CanDequeue
  <2>8. Ready(q)
    BY <2>2, <2>4, <2>7, ChnFacts DEF Ready
  <2>9. d \in SkippedBefore(p)
    BY <2>4, <2>6, <2>8 DEF SkippedBefore
  <2>10. fq'[d] = Rest(d)
    BY <2>2, <2>3, <2>9 DEF QueryChn
  <2>11. QED BY <1>1, <2>2, <2>7, <2>10, GotFacts DEF IInv
<1>2. IInv /\ [Next]_vars => [A]_vars
  BY <1>1
<1>3. QED BY <1>2, AlwaysIInv, PTL DEF Spec, HighestFirst
=============================================================================
