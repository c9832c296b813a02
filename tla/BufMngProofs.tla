--------------------------- MODULE BufMngProofs ---------------------------
(***************************************************************************)
(* Proofs about the stream buffer manager, for every buffer size: as long  *)
(* as the decoder releases its packets in order and no reset comes while   *)
(* it holds one, no two blocks overlap, whatever the writer drops and      *)
(* whenever a descriptor allocation fails.                                 *)
(*                                                                         *)
(* The invariant is geometric.  The list is either one run of adjacent     *)
(* blocks (Linear) or two of them, the second starting at offset 0 and     *)
(* ending before the first (Wrapped); used is then a difference of two     *)
(* addresses, and the frozen area is exactly what lies behind the first    *)
(* run.  From that the free counter bounds the gap that is handed out.     *)
(*                                                                         *)
(* While nothing is dropped and no allocation fails the free counter is    *)
(* exact (Whole), and the writer is refused only for want of room.         *)
(***************************************************************************)
EXTENDS BufMng, SequenceTheorems, TLAPS

(* Adjacent blocks from index p to index q. *)
Chain(b, p, q) ==
  /\ \A i \in p..(q-1) : End(b[i]) = b[i+1].addr
  /\ \A i, j \in p..q : i < j => End(b[i]) <= b[j].addr

(* Where the next committed unit goes: behind the committed data. *)
WEnd(b) == IF Committed(b[Len(b)]) THEN End(b[Len(b)]) ELSE b[Len(b)].addr

Linear(b, u) ==
  /\ b # <<>>
  /\ Chain(b, 1, Len(b))
  /\ u = WEnd(b) - b[1].addr

Wrapped(b, u, z) ==
  \E k \in 1..(Len(b) - 1) :
    /\ Chain(b, 1, k) /\ Chain(b, k+1, Len(b))
    /\ b[k+1].addr = 0 /\ End(b[Len(b)]) <= b[1].addr
    /\ u = End(b[k]) - b[1].addr + WEnd(b)
    /\ z = Size - End(b[k])

WellFormed(b) ==
  \A i \in 1..Len(b) :
    /\ End(b[i]) <= Size
    /\ Committed(b[i]) => b[i].size >= 1
    /\ ~Committed(b[i]) => i = Len(b)

Owned(b, z) == z # 0 => \E i \in 1..Len(b) : Committed(b[i]) /\ End(b[i]) = Size - z

(* The geometry of a list b with u units used, f free and z frozen. *)
Geom(b, u, f, z) ==
  /\ b \in Seq(Block)
  /\ u \in Int /\ f \in Nat /\ z \in Nat
  /\ WellFormed(b)
  /\ Owned(b, z)
  /\ (b = <<>> /\ u = 0) \/ Linear(b, u) \/ Wrapped(b, u, z)
  /\ u + f + z <= Size

-----------------------------------------------------------------------------
(* Facts about the sequence operators. *)

LEMMA RemoveAtFacts ==
  ASSUME NEW S, NEW s \in Seq(S), NEW n \in 1..Len(s)
  PROVE  /\ RemoveAt(s, n) \in Seq(S)
         /\ Len(RemoveAt(s, n)) = Len(s) - 1
         /\ \A i \in 1..(n-1) : RemoveAt(s, n)[i] = s[i]
         /\ \A i \in n..(Len(s)-1) : RemoveAt(s, n)[i] = s[i+1]
<1> DEFINE p == SubSeq(s, 1, n-1)
           q == SubSeq(s, n+1, Len(s))
<1> Len(s) \in Nat /\ \A i \in 1..Len(s) : s[i] \in S
  BY LenProperties, ElementOfSeq
<1>1. /\ p \in Seq(S) /\ Len(p) = n-1
      /\ \A i \in 1..(n-1) : p[i] = s[i]
  <2>1. \A i \in 1..(n-1) : s[i] \in S OBVIOUS
  <2>2. /\ p \in Seq(S) /\ Len(p) = IF 1 <= n-1 THEN (n-1)-1+1 ELSE 0
        /\ \A i \in 1..((n-1)-1+1) : p[i] = s[1+i-1]
    BY <2>1, SubSeqProperties
  <2> HIDE DEF p
  <2>3. QED BY <2>2
<1>2. /\ q \in Seq(S) /\ Len(q) = Len(s) - n
      /\ \A i \in 1..(Len(s)-n) : q[i] = s[n+i]
  <2>1. \A i \in (n+1)..Len(s) : s[i] \in S OBVIOUS
  <2>2. /\ q \in Seq(S) /\ Len(q) = IF n+1 <= Len(s) THEN Len(s)-(n+1)+1 ELSE 0
        /\ \A i \in 1..(Len(s)-(n+1)+1) : q[i] = s[(n+1)+i-1]
    BY <2>1, SubSeqProperties
  <2> HIDE DEF q
  <2>3. QED BY <2>2
<1>3. RemoveAt(s, n) = p \o q
  BY DEF RemoveAt
<1> HIDE DEF p, q
<1>4. /\ p \o q \in Seq(S)
      /\ Len(p \o q) = Len(p) + Len(q)
      /\ \A i \in 1 .. Len(p) + Len(q) : (p \o q)[i] =
                     IF i <= Len(p) THEN p[i] ELSE q[i - Len(p)]
  BY <1>1, <1>2, ConcatProperties
<1> DEFINE r == p \o q
<1> HIDE DEF r
<1>5. /\ Len(r) = Len(s) - 1
      /\ \A i \in 1..(n-1) : r[i] = s[i]
  BY <1>1, <1>2, <1>4 DEF r
<1>6. \A i \in n..(Len(s)-1) : r[i] = s[i+1]
  <2> TAKE i \in n..(Len(s)-1)
  <2>1. r[i] = q[i-(n-1)] BY <1>1, <1>2, <1>4 DEF r
  <2>2. i-(n-1) \in 1..(Len(s)-n) OBVIOUS
  <2>3. q[i-(n-1)] = s[n + (i-(n-1))] BY <1>2, <2>2
  <2>4. n + (i-(n-1)) = i+1 OBVIOUS
  <2>5. QED BY <2>1, <2>3, <2>4
<1>7. QED BY <1>3, <1>4, <1>5, <1>6 DEF r

LEMMA FrontFacts ==
  ASSUME NEW S, NEW s \in Seq(S), s # <<>>
  PROVE  /\ Front(s) \in Seq(S)
         /\ Len(Front(s)) = Len(s) - 1
         /\ \A i \in 1..(Len(s)-1) : Front(s)[i] = s[i]
<1> DEFINE p == SubSeq(s, 1, Len(s)-1)
<1>1. Len(s) \in Nat \ {0} /\ \A i \in 1..(Len(s)-1) : s[i] \in S
  BY EmptySeq, ElementOfSeq
<1>2. /\ p \in Seq(S) /\ Len(p) = IF 1 <= Len(s)-1 THEN (Len(s)-1)-1+1 ELSE 0
      /\ \A i \in 1..((Len(s)-1)-1+1) : p[i] = s[1+i-1]
  BY <1>1, SubSeqProperties
<1>3. Front(s) = p BY DEF Front
<1> HIDE DEF p
<1>4. QED BY <1>1, <1>2, <1>3

-----------------------------------------------------------------------------
(* Facts about the geometry. *)

LEMMA BlockFacts ==
  ASSUME NEW b \in Seq(Block), NEW i \in 1..Len(b)
  PROVE  /\ b[i] \in Block
         /\ b[i].addr \in Nat /\ b[i].size \in Nat
         /\ b[i].status \in {"FREE", "READING", "WRITING"} /\ b[i].eof \in BOOLEAN
         /\ End(b[i]) = b[i].addr + b[i].size /\ End(b[i]) \in Nat
<1>1. b[i] \in Block BY ElementOfSeq
<1>2. QED BY <1>1, BufMngAssumption DEF Block, End

(* Addresses grow along a chain. *)
LEMMA ChainOrder ==
  ASSUME NEW b \in Seq(Block), NEW p \in 1..Len(b), NEW q \in 1..Len(b), Chain(b, p, q),
         NEW i \in p..q, NEW j \in p..q, i <= j
  PROVE  /\ b[i].addr <= b[j].addr /\ End(b[i]) <= End(b[j])
         /\ i < j => End(b[i]) <= b[j].addr
<1>1. i \in 1..Len(b) /\ j \in 1..Len(b)
  BY LenProperties
<1>2. /\ b[i].addr \in Nat /\ b[i].size \in Nat /\ End(b[i]) = b[i].addr + b[i].size
      /\ b[j].addr \in Nat /\ b[j].size \in Nat /\ End(b[j]) = b[j].addr + b[j].size
  BY <1>1, BlockFacts
<1>3. i < j => End(b[i]) <= b[j].addr
  BY DEF Chain
<1>4. CASE i = j BY <1>2, <1>4
<1>5. CASE i < j
  <2>1. End(b[i]) <= b[j].addr BY <1>3, <1>5
  <2>2. QED BY <1>2, <2>1, <1>3, SMTT(60)
<1>6. QED BY <1>4, <1>5, LenProperties

LEMMA ChainSame ==
  ASSUME NEW b, NEW c, NEW p \in Int, NEW q \in Int, Chain(b, p, q),
         \A i \in p..q : c[i] = b[i]
  PROVE  Chain(c, p, q)
<1>1. ASSUME NEW i \in p..(q-1) PROVE End(c[i]) = c[i+1].addr
  <2>1. i \in p..q /\ i+1 \in p..q OBVIOUS
  <2>2. c[i] = b[i] /\ c[i+1] = b[i+1] BY <2>1
  <2>3. QED BY <2>2 DEF Chain
<1>2. ASSUME NEW i \in p..q, NEW j \in p..q, i < j PROVE End(c[i]) <= c[j].addr
  <2>1. c[i] = b[i] /\ c[j] = b[j] OBVIOUS
  <2>2. QED BY <2>1, <1>2 DEF Chain
<1>3. QED BY <1>1, <1>2 DEF Chain

(* A chain grows by a block that starts where it ends. *)
LEMMA ChainExtend ==
  ASSUME NEW c \in Seq(Block), NEW p \in 1..Len(c), NEW q \in 1..Len(c),
         p <= q, q + 1 <= Len(c), Chain(c, p, q), End(c[q]) = c[q+1].addr
  PROVE  Chain(c, p, q+1)
<1>1. ASSUME NEW i \in p..((q+1)-1) PROVE End(c[i]) = c[i+1].addr
  <2>1. CASE i = q BY <2>1
  <2>2. CASE i # q BY <2>2 DEF Chain
  <2>3. QED BY <2>1, <2>2
<1>2. ASSUME NEW i \in p..(q+1), NEW j \in p..(q+1), i < j PROVE End(c[i]) <= c[j].addr
  <2>1. CASE j = q+1
    <3>1. i \in p..q /\ q \in p..q BY <1>2, <2>1
    <3>2. End(c[i]) <= End(c[q]) BY <3>1, ChainOrder
    <3>3. QED BY <3>2, <2>1
  <2>2. CASE j # q+1
    <3>1. i \in p..q /\ j \in p..q BY <1>2, <2>2
    <3>2. QED BY <3>1, <1>2 DEF Chain
  <2>3. QED BY <2>1, <2>2
<1>3. QED BY <1>1, <1>2 DEF Chain

LEMMA ChainSub ==
  ASSUME NEW b, NEW p \in Int, NEW q \in Int, NEW r \in Int, NEW t \in Int,
         Chain(b, p, q), p <= r, t <= q
  PROVE  Chain(b, r, t)
<1>1. r..t \subseteq p..q /\ r..(t-1) \subseteq p..(q-1) OBVIOUS
<1>2. QED BY <1>1 DEF Chain

(* A chain moved one place to the front. *)
LEMMA ChainShift ==
  ASSUME NEW b, NEW c, NEW p \in Int, NEW q \in Int, Chain(b, p+1, q+1),
         \A i \in p..q : c[i] = b[i+1]
  PROVE  Chain(c, p, q)
<1>1. ASSUME NEW i \in p..(q-1) PROVE End(c[i]) = c[i+1].addr
  <2>1. i \in p..q /\ i+1 \in p..q /\ i+1 \in (p+1)..((q+1)-1) OBVIOUS
  <2>2. c[i] = b[i+1] /\ c[i+1] = b[(i+1)+1] BY <2>1
  <2>3. QED BY <2>1, <2>2 DEF Chain
<1>2. ASSUME NEW i \in p..q, NEW j \in p..q, i < j PROVE End(c[i]) <= c[j].addr
  <2>1. c[i] = b[i+1] /\ c[j] = b[j+1] OBVIOUS
  <2>2. i+1 \in (p+1)..(q+1) /\ j+1 \in (p+1)..(q+1) /\ i+1 < j+1 BY <1>2
  <2>3. QED BY <2>1, <2>2 DEF Chain
<1>3. QED BY <1>1, <1>2 DEF Chain

(* Blocks laid out by Geom do not overlap. *)
LEMMA GeomDisjoint ==
  ASSUME NEW b, NEW u, NEW f, NEW z, Geom(b, u, f, z),
         NEW i \in 1..Len(b), NEW j \in 1..Len(b), i # j
  PROVE  Disjoint(b[i], b[j])
<1> b \in Seq(Block) BY DEF Geom
<1> Len(b) \in Nat BY LenProperties
<1>1. \A x \in 1..Len(b) : b[x].addr \in Nat /\ b[x].size \in Nat
                           /\ End(b[x]) = b[x].addr + b[x].size
  BY BlockFacts
<1>2. CASE Linear(b, u)
  BY <1>1, <1>2 DEF Linear, Chain, Disjoint
<1>3. CASE Wrapped(b, u, z)
  <2> PICK k \in 1..(Len(b) - 1) :
        /\ Chain(b, 1, k) /\ Chain(b, k+1, Len(b)) /\ End(b[Len(b)]) <= b[1].addr
    BY <1>3 DEF Wrapped
  <2>1. \A x \in 1..k, y \in (k+1)..Len(b) : End(b[y]) <= b[x].addr
    <3> TAKE x \in 1..k, y \in (k+1)..Len(b)
    <3>1. b[1].addr <= b[x].addr BY ChainOrder
    <3>2. End(b[y]) <= End(b[Len(b)]) BY ChainOrder
    <3>3. /\ x \in 1..Len(b) /\ y \in 1..Len(b) OBVIOUS
    <3>4. /\ b[1].addr \in Nat /\ b[x].addr \in Nat
          /\ End(b[y]) \in Nat /\ End(b[Len(b)]) \in Nat
      BY <3>3, BlockFacts, SMTT(60)
    <3>5. End(b[Len(b)]) <= b[x].addr BY <3>1, <3>4
    <3>6. QED BY <3>2, <3>4, <3>5
  <2>2. CASE i \in 1..k /\ j \in 1..k BY <1>1, <2>2 DEF Chain, Disjoint
  <2>3. CASE i \in (k+1)..Len(b) /\ j \in (k+1)..Len(b) BY <1>1, <2>3 DEF Chain, Disjoint
  <2>4. QED BY <2>1, <2>2, <2>3 DEF Disjoint
<1>4. b # <<>> BY EmptySeq
<1>5. QED BY <1>2, <1>3, <1>4 DEF Geom

(* The committed data of a list that is not being written has an extent. *)
LEMMA LinearExtent ==
  ASSUME NEW b, NEW u, NEW f, NEW z, Geom(b, u, f, z), Linear(b, u), Committed(b[Len(b)])
  PROVE  /\ u = End(b[Len(b)]) - b[1].addr
         /\ b[1].addr < End(b[Len(b)])
<1> b \in Seq(Block) /\ b # <<>> BY DEF Geom, Linear
<1> Len(b) \in Nat \ {0} BY LenProperties, EmptySeq
<1>1. \A x \in 1..Len(b) : b[x].addr \in Nat /\ b[x].size \in Nat
                           /\ End(b[x]) = b[x].addr + b[x].size
  BY BlockFacts
<1>2. b[Len(b)].size >= 1 BY DEF Geom, WellFormed
<1>3. b[1].addr <= b[Len(b)].addr BY <1>1 DEF Linear, Chain
<1>4. QED BY <1>1, <1>2, <1>3 DEF Linear, WEnd

-----------------------------------------------------------------------------
(* What each operation does to the geometry. *)

(* A region behind the newest block. *)
LEMMA PlaceBehind ==
  ASSUME NEW b, NEW u, NEW f, NEW z, Geom(b, u, f, z),
         b # <<>>, Committed(b[Len(b)]),
         NEW e \in Block, ~Committed(e), e.addr = End(b[Len(b)]), End(e) <= Size,
         Wrapped(b, u, z) => End(e) <= b[1].addr
  PROVE  Geom(Append(b, e), u, f, z)
<1> DEFINE c == Append(b, e)  n == Len(b)
<1> b \in Seq(Block) BY DEF Geom
<1> n \in Nat \ {0} BY LenProperties, EmptySeq
<1>1. c \in Seq(Block) /\ Len(c) = n+1 /\ c # <<>> /\ c[n+1] = e
      /\ \A i \in 1..n : c[i] = b[i]
  BY AppendProperties
<1>2. \A x \in 1..n : b[x].addr \in Nat /\ b[x].size \in Nat
                      /\ End(b[x]) = b[x].addr + b[x].size
  BY BlockFacts
<1>3. e.addr \in Nat /\ e.size \in Nat /\ End(e) = e.addr + e.size
  BY BufMngAssumption DEF Block, End
<1> HIDE DEF c
<1>4. WellFormed(c)
  BY <1>1 DEF Geom, WellFormed
<1>5. Owned(c, z)
  BY <1>1 DEF Geom, Owned
<1>6. \A p \in 1..n : Chain(b, p, n) => Chain(c, p, n+1)
  <2> SUFFICES ASSUME NEW p \in 1..n, Chain(b, p, n) PROVE Chain(c, p, n+1)
    OBVIOUS
  <2>1. Chain(c, p, n) BY <1>1, ChainSame
  <2>2. End(c[n]) = c[n+1].addr BY <1>1
  <2>3. QED BY <1>1, <2>1, <2>2, ChainExtend, SMTT(60)
<1>7. WEnd(c) = WEnd(b)
  BY <1>1 DEF WEnd
<1>8. ASSUME Linear(b, u) PROVE Linear(c, u)
  BY <1>1, <1>6, <1>7, <1>8 DEF Linear
<1>9. ASSUME Wrapped(b, u, z) PROVE Wrapped(c, u, z)
  <2> PICK k \in 1..(n - 1) :
        /\ Chain(b, 1, k) /\ Chain(b, k+1, n)
        /\ b[k+1].addr = 0 /\ End(b[n]) <= b[1].addr
        /\ u = End(b[k]) - b[1].addr + WEnd(b)
        /\ z = Size - End(b[k])
    BY <1>9 DEF Wrapped
  <2>1. Chain(c, 1, k) BY <1>1, ChainSame
  <2>2. Chain(c, k+1, n+1) BY <1>6
  <2>3. End(c[n+1]) <= c[1].addr BY <1>1, <1>9
  <2>4. QED BY <1>1, <1>7, <2>1, <2>2, <2>3 DEF Wrapped
<1>10. QED BY <1>1, <1>4, <1>5, <1>8, <1>9 DEF Geom, c

(* A region at the start: the tail area is frozen. *)
LEMMA PlaceAtStart ==
  ASSUME NEW b, NEW u, NEW f, NEW z, Geom(b, u, f, z),
         Linear(b, u), Committed(b[Len(b)]),
         NEW t, t = Size - End(b[Len(b)]), t <= f,
         NEW e \in Block, ~Committed(e), e.addr = 0, End(e) <= b[1].addr
  PROVE  Geom(Append(b, e), u, f - t, t)
<1> DEFINE c == Append(b, e)  n == Len(b)
<1> b \in Seq(Block) /\ b # <<>> BY DEF Geom, Linear
<1> n \in Nat \ {0} BY LenProperties, EmptySeq
<1>1. c \in Seq(Block) /\ Len(c) = n+1 /\ c # <<>> /\ c[n+1] = e
      /\ \A i \in 1..n : c[i] = b[i]
  BY AppendProperties
<1>2. \A x \in 1..n : b[x].addr \in Nat /\ b[x].size \in Nat
                      /\ End(b[x]) = b[x].addr + b[x].size
  BY BlockFacts
<1>3. e.addr \in Nat /\ e.size \in Nat /\ End(e) = e.addr + e.size
  BY BufMngAssumption DEF Block, End
<1> HIDE DEF c
<1>4. WellFormed(c)
  <2>1. 1 \in 1..n /\ End(b[1]) <= Size BY DEF Geom, WellFormed
  <2>2. End(e) <= Size BY <1>2, <1>3, <2>1, BufMngAssumption
  <2>3. \A i \in 1..n : End(c[i]) <= Size /\ (Committed(c[i]) => c[i].size >= 1)
                        /\ Committed(c[i])
    BY <1>1 DEF Geom, WellFormed
  <2>4. QED BY <1>1, <2>2, <2>3 DEF WellFormed
<1>5. End(b[n]) = Size - t /\ End(b[n]) <= Size /\ t \in Nat
  BY <1>2, BufMngAssumption, SMTT(60) DEF Geom, WellFormed
<1>6. Owned(c, t)
  <2>1. n \in 1..Len(c) /\ c[n] = b[n] BY <1>1
  <2>2. Committed(c[n]) /\ End(c[n]) = Size - t BY <1>5, <2>1
  <2>3. QED BY <2>1, <2>2 DEF Owned
<1>7. Chain(c, 1, n)
  <2>1. Chain(b, 1, n) BY DEF Linear
  <2>2. \A i \in 1..n : c[i] = b[i] BY <1>1
  <2>3. n \in Int /\ 1 \in Int OBVIOUS
  <2> HIDE DEF n
  <2>4. QED BY <2>1, <2>2, <2>3, ChainSame
<1>8. Chain(c, n+1, n+1)
  BY DEF Chain
<1>9. WEnd(c) = 0
  BY <1>1 DEF WEnd
<1>10. u = End(b[n]) - b[1].addr
  BY LinearExtent
<1>11. Wrapped(c, u, t)
  <2>1. n \in 1..(Len(c) - 1) /\ c[n] = b[n] /\ c[1] = b[1] /\ c[n+1] = e /\ Len(c) = n+1
    BY <1>1
  <2>2. u = End(b[n]) - b[1].addr + 0
    BY <1>2, <1>10, BlockFacts
  <2>3. t = Size - End(b[n])
    OBVIOUS
  <2> HIDE DEF n
  <2>4. QED BY <1>7, <1>8, <1>9, <2>1, <2>2, <2>3 DEF Wrapped
<1>12. u + (f - t) + t <= Size /\ f - t \in Nat
  BY <1>5, BufMngAssumption DEF Geom
<1>13. QED BY <1>1, <1>4, <1>5, <1>6, <1>11, <1>12 DEF Geom, c

(* The descriptor allocation failed after the tail area was frozen. *)
LEMMA FreezeOnly ==
  ASSUME NEW b, NEW u, NEW f, NEW z, Geom(b, u, f, z),
         Linear(b, u), Committed(b[Len(b)]),
         NEW t, t = Size - End(b[Len(b)]), t <= f
  PROVE  Geom(b, u, f - t, t)
<1> b \in Seq(Block) /\ b # <<>> BY DEF Geom, Linear
<1> Len(b) \in Nat \ {0} BY LenProperties, EmptySeq
<1>1. End(b[Len(b)]) = Size - t /\ End(b[Len(b)]) <= Size /\ t \in Nat
  BY BlockFacts, BufMngAssumption DEF Geom, WellFormed
<1>2. Owned(b, t)
  <2>1. Len(b) \in 1..Len(b) /\ Committed(b[Len(b)]) BY BufMngAssumption
  <2>2. QED BY <1>1, <2>1 DEF Owned
<1>3. f - t \in Nat /\ u + (f - t) + t <= Size
  BY <1>1, BufMngAssumption DEF Geom
<1>4. QED BY <1>2, <1>3, <1>1 DEF Geom

(* The newest block is committed with n units. *)
LEMMA Commit ==
  ASSUME NEW b, NEW u, NEW f, NEW z, Geom(b, u, f, z),
         b # <<>>, ~Committed(b[Len(b)]), b[Len(b)].size <= f,
         NEW n \in 1..b[Len(b)].size,
         NEW e \in Block, Committed(e), e.addr = b[Len(b)].addr, e.size = n
  PROVE  Geom([b EXCEPT ![Len(b)] = e], u + n, f - n, z)
<1> DEFINE m == Len(b)  c == [b EXCEPT ![m] = e]
<1> b \in Seq(Block) BY DEF Geom
<1> m \in Nat \ {0} BY LenProperties, EmptySeq
<1>1. c \in Seq(Block) /\ Len(c) = m /\ c[m] = e /\ \A i \in 1..(m-1) : c[i] = b[i]
  BY ExceptSeq
<1>2. \A x \in 1..m : b[x].addr \in Nat /\ b[x].size \in Nat
                      /\ End(b[x]) = b[x].addr + b[x].size
  BY BlockFacts
<1>3. End(e) = e.addr + n /\ End(e) <= End(b[m]) /\ n \in Nat \ {0}
  BY <1>2 DEF End
<1> HIDE DEF c
<1>4. WellFormed(c)
  <2>1. End(b[m]) <= Size BY DEF Geom, WellFormed
  <2>2. End(e) <= Size
    <3>1. End(e) \in Nat /\ End(b[m]) \in Nat BY <1>2, <1>3
    <3>2. QED BY <1>3, <2>1, <3>1, BufMngAssumption
  <2>3. e.size >= 1 BY <1>3
  <2>4. QED BY <1>1, <2>2, <2>3 DEF Geom, WellFormed
<1>5. Owned(c, z)
  BY <1>1 DEF Geom, Owned
<1>6. \A p \in 1..m : Chain(b, p, m) => Chain(c, p, m)
  <2> SUFFICES ASSUME NEW p \in 1..m, Chain(b, p, m) PROVE Chain(c, p, m)
    OBVIOUS
  <2>1. ASSUME NEW i \in p..(m-1) PROVE End(c[i]) = c[i+1].addr
    <3>1. c[i] = b[i] BY <1>1
    <3>2. c[i+1].addr = b[i+1].addr
      <4>1. CASE i+1 = m BY <1>1, <4>1
      <4>2. CASE i+1 # m BY <1>1, <4>2
      <4>3. QED BY <4>1, <4>2
    <3>3. QED BY <3>1, <3>2 DEF Chain
  <2>2. ASSUME NEW i \in p..m, NEW j \in p..m, i < j PROVE End(c[i]) <= c[j].addr
    <3>1. c[i] = b[i] /\ c[j].addr = b[j].addr BY <1>1, <2>2
    <3>2. QED BY <3>1, <2>2 DEF Chain
  <2>3. QED BY <2>1, <2>2 DEF Chain
<1>7. WEnd(c) = WEnd(b) + n
  BY <1>1, <1>3 DEF WEnd
<1>8. c[1].addr = b[1].addr
  BY <1>1
<1>9. ASSUME Linear(b, u) PROVE Linear(c, u + n)
  <2>1. Chain(c, 1, m) BY <1>6, <1>9 DEF Linear
  <2>2. c # <<>> BY <1>1, EmptySeq
  <2>3. u + n = WEnd(c) - c[1].addr
    BY <1>1, <1>2, <1>3, <1>7, <1>8, <1>9 DEF Linear, WEnd
  <2>4. QED BY <1>1, <2>1, <2>2, <2>3 DEF Linear
<1>10. ASSUME Wrapped(b, u, z) PROVE Wrapped(c, u + n, z)
  <2> PICK k \in 1..(m - 1) :
        /\ Chain(b, 1, k) /\ Chain(b, k+1, m)
        /\ b[k+1].addr = 0 /\ End(b[m]) <= b[1].addr
        /\ u = End(b[k]) - b[1].addr + WEnd(b)
        /\ z = Size - End(b[k])
    BY <1>10 DEF Wrapped
  <2>1. Chain(c, 1, k) BY <1>1, ChainSame
  <2>2. Chain(c, k+1, m) BY <1>6
  <2>3. End(c[m]) <= c[1].addr BY <1>1, <1>2, <1>3, <1>8
  <2>4. c[k+1].addr = 0 /\ c[k] = b[k] BY <1>1
  <2>5. u + n = End(c[k]) - c[1].addr + WEnd(c)
    <3>1. WEnd(b) \in Nat /\ End(b[k]) \in Nat /\ b[1].addr \in Nat
      BY <1>2, SMTT(60) DEF WEnd
    <3>2. QED BY <1>3, <1>7, <1>8, <2>4, <3>1
  <2>6. QED BY <1>1, <2>1, <2>2, <2>3, <2>4, <2>5 DEF Wrapped
<1>11. u + n \in Int /\ f - n \in Nat /\ (u + n) + (f - n) + z <= Size
  BY <1>2, <1>3, BufMngAssumption DEF Geom
<1>12. b # <<>> /\ (Linear(b, u) \/ Wrapped(b, u, z)) /\ z \in Nat BY DEF Geom
<1>13. QED BY <1>1, <1>4, <1>5, <1>9, <1>10, <1>11, <1>12 DEF Geom, c
(* The newest block is dropped. *)
LEMMA DropLast ==
  ASSUME NEW b, NEW u, NEW f, NEW z, Geom(b, u, f, z),
         b # <<>>, ~Committed(b[Len(b)])
  PROVE  Geom(Front(b), u, f, z)
<1> DEFINE m == Len(b)  c == Front(b)
<1> b \in Seq(Block) BY DEF Geom
<1> m \in Nat \ {0} BY LenProperties, EmptySeq
<1>1. c \in Seq(Block) /\ Len(c) = m-1 /\ \A i \in 1..(m-1) : c[i] = b[i]
  BY FrontFacts
<1>2. \A x \in 1..m : b[x].addr \in Nat /\ b[x].size \in Nat
                      /\ End(b[x]) = b[x].addr + b[x].size
  BY BlockFacts
<1> HIDE DEF c, m
<1>3. \A i \in 1..(m-1) : Committed(c[i])
  BY <1>1 DEF Geom, WellFormed, m
<1>4. WellFormed(c)
  BY <1>1, <1>3 DEF Geom, WellFormed, m
<1>5. Owned(c, z)
  <2> SUFFICES ASSUME z # 0 PROVE \E i \in 1..(m-1) : Committed(c[i]) /\ End(c[i]) = Size - z
    BY <1>1 DEF Owned
  <2> PICK i \in 1..m : Committed(b[i]) /\ End(b[i]) = Size - z
    BY DEF Geom, Owned, m
  <2>1. i # m BY DEF m
  <2>2. QED BY <1>1, <2>1
<1>6. WEnd(b) = b[m].addr
  BY DEF WEnd, m
<1>7. m > 1 => WEnd(c) = End(b[m-1])
  BY <1>1, <1>3 DEF WEnd
<1>8. ASSUME Linear(b, u) PROVE (c = <<>> /\ u = 0) \/ Linear(c, u)
  <2>1. CASE m = 1
    <3>1. c = <<>> BY <1>1, <2>1, EmptySeq
    <3>2. u = 0 BY <1>2, <1>6, <1>8, <2>1 DEF Linear, m
    <3>3. QED BY <3>1, <3>2
  <2>2. CASE m > 1
    <3>1. End(b[m-1]) = b[m].addr BY <1>8, <2>2 DEF Linear, Chain, m
    <3>2. Chain(b, 1, m-1) BY <1>8, ChainSub DEF Linear, m
    <3>3. Chain(c, 1, m-1) BY <1>1, <3>2, ChainSame
    <3>4. u = WEnd(c) - c[1].addr BY <1>1, <1>6, <1>7, <1>8, <2>2, <3>1 DEF Linear, m
    <3>5. c # <<>> BY <1>1, <2>2, EmptySeq
    <3>6. QED BY <1>1, <3>3, <3>4, <3>5 DEF Linear
  <2>3. m = 1 \/ m > 1 OBVIOUS
  <2>4. QED BY <2>1, <2>2, <2>3
<1>9. ASSUME Wrapped(b, u, z) PROVE Linear(c, u) \/ Wrapped(c, u, z)
  <2> PICK k \in 1..(m - 1) :
        /\ Chain(b, 1, k) /\ Chain(b, k+1, m)
        /\ b[k+1].addr = 0 /\ End(b[m]) <= b[1].addr
        /\ u = End(b[k]) - b[1].addr + WEnd(b)
        /\ z = Size - End(b[k])
    BY <1>9 DEF Wrapped, m
  <2>1. Chain(c, 1, k) BY <1>1, ChainSame
  <2>2. c # <<>> BY <1>1, EmptySeq
  <2>3. c[1] = b[1] /\ c[k] = b[k] BY <1>1
  <2>4. /\ End(b[k]) \in Nat /\ b[1].addr \in Nat /\ b[m].addr \in Nat
        /\ End(b[m-1]) \in Nat /\ End(b[m]) \in Nat
    <3>1. 1 \in 1..m /\ k \in 1..m /\ m-1 \in 1..m /\ m \in 1..m OBVIOUS
    <3>2. End(b[k]) \in Nat BY <3>1, BlockFacts DEF m
    <3>3. b[1].addr \in Nat BY <3>1, BlockFacts DEF m
    <3>4. b[m].addr \in Nat /\ End(b[m]) \in Nat BY <3>1, BlockFacts DEF m
    <3>5. End(b[m-1]) \in Nat BY <3>1, BlockFacts DEF m
    <3>6. QED BY <3>2, <3>3, <3>4, <3>5
  <2>5. CASE k = m-1
    <3>1. u = WEnd(c) - c[1].addr
      BY <1>1, <1>6, <1>7, <2>3, <2>4, <2>5
    <3>2. QED BY <1>1, <2>1, <2>2, <2>5, <3>1 DEF Linear
  <2>6. CASE k < m-1
    <3>1. End(b[m-1]) = b[m].addr
      <4>1. m-1 \in (k+1)..(m-1) /\ (m-1)+1 = m BY <2>6
      <4>2. QED BY <4>1 DEF Chain
    <3>2. Chain(b, k+1, m-1) BY <2>6, ChainSub
    <3>3. Chain(c, k+1, m-1)
      <4>1. (k+1)..(m-1) \subseteq 1..(m-1) OBVIOUS
      <4>2. \A i \in (k+1)..(m-1) : c[i] = b[i] BY <1>1, <4>1
      <4>3. QED BY <3>2, <4>2, ChainSame
    <3>4. u = End(c[k]) - c[1].addr + WEnd(c) BY <1>6, <1>7, <2>3, <2>6, <3>1
    <3>5. End(c[m-1]) <= c[1].addr
      <4>1. b[m].addr <= End(b[m]) BY <1>2
      <4>2. c[m-1] = b[m-1] BY <1>1, <2>6
      <4>3. QED BY <2>3, <2>4, <3>1, <4>1, <4>2, SMTT(60)
    <3>6. c[k+1].addr = 0 BY <1>1, <2>6
    <3>7. QED BY <1>1, <2>1, <2>3, <2>6, <3>3, <3>4, <3>5, <3>6 DEF Wrapped
  <2>7. QED BY <2>5, <2>6
<1>10. QED BY <1>1, <1>4, <1>5, <1>8, <1>9 DEF Geom, c

(* The status of a committed block changes. *)
LEMMA Restatus ==
  ASSUME NEW b, NEW u, NEW f, NEW z, Geom(b, u, f, z),
         NEW i \in 1..Len(b), Committed(b[i])
  PROVE  Geom([b EXCEPT ![i].status = "READING"], u, f, z)
<1> DEFINE m == Len(b)
           e == [b[i] EXCEPT !.status = "READING"]
           c == [b EXCEPT ![i] = e]
<1> b \in Seq(Block) BY DEF Geom
<1> m \in Nat \ {0} BY LenProperties, EmptySeq
<1>0. b[i] \in Block BY BlockFacts
<1>1. e \in Block /\ e.addr = b[i].addr /\ End(e) = End(b[i]) /\ e.size = b[i].size
      /\ e.status = "READING"
  BY <1>0 DEF Block, End
<1> HIDE DEF e
<1>2. c \in Seq(Block) /\ Len(c) = m /\ \A j \in 1..m : c[j] = IF j = i THEN e ELSE b[j]
  BY <1>1, ExceptSeq
<1>3. c = [b EXCEPT ![i].status = "READING"]
  BY DEF e
<1> HIDE DEF c
<1>4. \A j \in 1..m : /\ c[j].addr = b[j].addr /\ End(c[j]) = End(b[j])
                      /\ c[j].size = b[j].size
                      /\ Committed(c[j]) <=> Committed(b[j])
  BY <1>1, <1>2 DEF Committed
<1>5. WellFormed(c) BY <1>2, <1>4 DEF Geom, WellFormed
<1>6. Owned(c, z) BY <1>2, <1>4 DEF Geom, Owned
<1>7. \A p, q \in 1..m : Chain(b, p, q) => Chain(c, p, q)
  <2> SUFFICES ASSUME NEW p \in 1..m, NEW q \in 1..m, Chain(b, p, q)
               PROVE  Chain(c, p, q)
    OBVIOUS
  <2>1. ASSUME NEW j \in p..(q-1) PROVE End(c[j]) = c[j+1].addr
    <3>1. j \in 1..m /\ j+1 \in 1..m OBVIOUS
    <3>2. End(b[j]) = b[j+1].addr BY DEF Chain
    <3>3. QED BY <1>4, <3>1, <3>2
  <2>2. ASSUME NEW j \in p..q, NEW l \in p..q, j < l PROVE End(c[j]) <= c[l].addr
    <3>1. j \in 1..m /\ l \in 1..m OBVIOUS
    <3>2. End(b[j]) <= b[l].addr BY <2>2 DEF Chain
    <3>3. QED BY <1>4, <3>1, <3>2
  <2>3. QED BY <2>1, <2>2 DEF Chain
<1>8. WEnd(c) = WEnd(b) BY <1>2, <1>4 DEF WEnd
<1>9. c # <<>> BY <1>2, EmptySeq
<1>10. Linear(b, u) => Linear(c, u)
  BY <1>2, <1>4, <1>7, <1>8, <1>9 DEF Linear
<1>11. Wrapped(b, u, z) => Wrapped(c, u, z)
  <2> SUFFICES ASSUME Wrapped(b, u, z) PROVE Wrapped(c, u, z) OBVIOUS
  <2> PICK k \in 1..(m - 1) :
        /\ Chain(b, 1, k) /\ Chain(b, k+1, m)
        /\ b[k+1].addr = 0 /\ End(b[m]) <= b[1].addr
        /\ u = End(b[k]) - b[1].addr + WEnd(b)
        /\ z = Size - End(b[k])
    BY DEF Wrapped
  <2>1. Chain(c, 1, k) /\ Chain(c, k+1, m) BY <1>7
  <2>2. QED BY <1>2, <1>4, <1>8, <2>1 DEF Wrapped
<1>12. b # <<>> BY EmptySeq
<1>13. QED BY <1>2, <1>3, <1>5, <1>6, <1>10, <1>11, <1>12 DEF Geom

(* The oldest block is released; it may give the frozen area back. *)
LEMMA ReleaseFirst ==
  ASSUME NEW b, NEW u, NEW f, NEW z, Geom(b, u, f, z),
         b # <<>>, Committed(b[1]),
         NEW r, r = IF z # 0 /\ End(b[1]) = Size - z THEN z ELSE 0
  PROVE  Geom(RemoveAt(b, 1), u - b[1].size, f + r + b[1].size, z - r)
<1> DEFINE m == Len(b)  c == RemoveAt(b, 1)
<1> b \in Seq(Block) BY DEF Geom
<1> m \in Nat \ {0} BY LenProperties, EmptySeq
<1>1. c \in Seq(Block) /\ Len(c) = m-1 /\ \A i \in 1..(m-1) : c[i] = b[i+1]
  BY RemoveAtFacts
<1>2. \A x \in 1..m : b[x].addr \in Nat /\ b[x].size \in Nat
                      /\ End(b[x]) = b[x].addr + b[x].size
  BY BlockFacts
<1> HIDE DEF c, m
<1>3. u \in Int /\ f \in Nat /\ z \in Nat /\ WellFormed(b) /\ Owned(b, z)
      /\ u + f + z <= Size
      /\ (Linear(b, u) \/ Wrapped(b, u, z))
  BY DEF Geom
<1>4. b[1].size \in Nat /\ b[1].size >= 1 /\ b[1].addr \in Nat /\ End(b[1]) = b[1].addr + b[1].size
  BY <1>2, <1>3 DEF WellFormed, m
<1>5. r \in Nat /\ z - r \in Nat /\ u - b[1].size \in Int /\ f + r + b[1].size \in Nat
      /\ (u - b[1].size) + (f + r + b[1].size) + (z - r) <= Size
  <2>1. r = 0 \/ r = z OBVIOUS
  <2>2. r \in Nat /\ z - r \in Nat BY <1>3, <2>1
  <2>3. Size \in Nat BY BufMngAssumption
  <2>4. u - b[1].size \in Int /\ f + r + b[1].size \in Nat BY <1>3, <1>4, <2>2
  <2>5. (u - b[1].size) + (f + r + b[1].size) + (z - r) = u + f + z
    BY <1>3, <1>4, <2>2
  <2>6. QED BY <1>3, <2>2, <2>3, <2>4, <2>5
<1>6. WellFormed(c)
  <2> SUFFICES ASSUME NEW i \in 1..(m-1)
               PROVE  /\ End(c[i]) <= Size
                      /\ Committed(c[i]) => c[i].size >= 1
                      /\ ~Committed(c[i]) => i = m-1
    BY <1>1 DEF WellFormed
  <2>1. i+1 \in 1..m /\ c[i] = b[i+1] BY <1>1
  <2>2. /\ End(b[i+1]) <= Size
        /\ Committed(b[i+1]) => b[i+1].size >= 1
        /\ ~Committed(b[i+1]) => i+1 = m
    BY <1>3, <2>1 DEF WellFormed, m
  <2>3. QED BY <2>1, <2>2
<1>7. Owned(c, z - r)
  <2>1. CASE r = z BY <1>3, <2>1 DEF Owned
  <2>2. CASE r # z
    <3>1. r = 0 /\ z # 0 /\ End(b[1]) # Size - z BY <1>3, <2>2
    <3> PICK i \in 1..m : Committed(b[i]) /\ End(b[i]) = Size - z
      BY <1>3, <3>1 DEF Owned, m
    <3>2. i-1 \in 1..(m-1) /\ (i-1)+1 = i BY <3>1
    <3>3. c[i-1] = b[i] BY <1>1, <3>2
    <3>4. z - r = z BY <1>3, <3>1
    <3>5. QED BY <1>1, <3>2, <3>3, <3>4 DEF Owned
  <2>3. QED BY <2>1, <2>2
<1>8. m > 1 => WEnd(c) = WEnd(b)
  <2>1. m > 1 => c[m-1] = b[(m-1)+1] BY <1>1
  <2>2. QED BY <1>1, <2>1 DEF WEnd, m
<1>9. ASSUME Linear(b, u)
      PROVE (c = <<>> /\ u - b[1].size = 0) \/ Linear(c, u - b[1].size)
  <2>0. Chain(b, 1, m) /\ u = WEnd(b) - b[1].addr BY <1>9 DEF Linear, m
  <2>1. CASE m = 1
    <3>1. c = <<>> BY <1>1, <2>1, EmptySeq
    <3>2. WEnd(b) = End(b[1]) BY <2>1 DEF WEnd, m
    <3>3. QED BY <1>4, <2>0, <3>1, <3>2
  <2>2. CASE m > 1
    <3>1. End(b[1]) = b[2].addr BY <2>0, <2>2 DEF Chain
    <3>2. Chain(b, 1+1, (m-1)+1) BY <2>0, ChainSub
    <3>3. Chain(c, 1, m-1) BY <1>1, <3>2, ChainShift
    <3>4. c[1] = b[2] BY <1>1, <2>2
    <3>5. WEnd(b) \in Nat
      <4>1. b[m].addr \in Nat /\ End(b[m]) \in Nat BY <1>2
      <4>2. QED BY <4>1 DEF WEnd, m
    <3>6. u - b[1].size = WEnd(c) - c[1].addr BY <1>4, <1>8, <2>0, <2>2, <3>1, <3>4, <3>5
    <3>7. c # <<>> BY <1>1, <2>2, EmptySeq
    <3>8. QED BY <1>1, <3>3, <3>6, <3>7 DEF Linear
  <2>3. m = 1 \/ m > 1 OBVIOUS
  <2>4. QED BY <2>1, <2>2, <2>3
<1>10. ASSUME Wrapped(b, u, z)
       PROVE Linear(c, u - b[1].size) \/ Wrapped(c, u - b[1].size, z - r)
  <2> PICK k \in 1..(m - 1) :
        /\ Chain(b, 1, k) /\ Chain(b, k+1, m)
        /\ b[k+1].addr = 0 /\ End(b[m]) <= b[1].addr
        /\ u = End(b[k]) - b[1].addr + WEnd(b)
        /\ z = Size - End(b[k])
    BY <1>10 DEF Wrapped, m
  <2>1. m > 1 /\ k \in 1..m /\ k+1 \in 1..m /\ m \in 1..m OBVIOUS
  <2>2. /\ WEnd(b) \in Nat /\ End(b[k]) \in Nat /\ b[k].addr \in Nat
        /\ b[k].size \in Nat /\ End(b[k]) = b[k].addr + b[k].size /\ End(b[m]) \in Nat
    <3>1. b[m].addr \in Nat /\ End(b[m]) \in Nat BY <1>2, SMTT(60)
    <3>2. QED BY <1>2, <2>1, <3>1, SMTT(60) DEF WEnd, m
  <2>3. Chain(b, (k-1)+1+1, (m-1)+1) BY ChainSub
  <2>4. \A i \in ((k-1)+1)..(m-1) : c[i] = b[i+1]
    <3>1. ((k-1)+1)..(m-1) \subseteq 1..(m-1) OBVIOUS
    <3>2. QED BY <1>1, <3>1
  <2>5. Chain(c, (k-1)+1, m-1) BY <2>3, <2>4, ChainShift
  <2>6. c # <<>> BY <1>1, <2>1, EmptySeq
  <2>7. CASE k = 1
    <3>1. c[1].addr = 0 BY <1>1, <2>1, <2>7
    <3>2. Chain(c, 1, m-1) BY <2>5, <2>7
    <3>3. u - b[1].size = WEnd(c) - c[1].addr
      BY <1>4, <1>8, <2>1, <2>2, <2>7, <3>1, SMTT(60)
    <3>4. QED BY <1>1, <2>6, <3>2, <3>3 DEF Linear
  <2>8. CASE k > 1
    <3>1. End(b[1]) = b[2].addr /\ End(b[1]) <= b[k].addr
      <4>1. 1 \in 1..(k-1) /\ 1 \in 1..k /\ k \in 1..k /\ 1 < k /\ 1+1 = 2 BY <2>8
      <4>2. QED BY <4>1 DEF Chain
    <3>2. b[k].size >= 1
      <4>1. Committed(b[k]) BY <1>3, <2>1 DEF WellFormed, m
      <4>2. QED BY <1>3, <2>1, <4>1 DEF WellFormed, m
    <3>3. r = 0
      <4>0. End(b[1]) \in Nat BY <1>4
      <4>1. End(b[1]) # End(b[k]) BY <2>2, <3>1, <3>2, <4>0, SMTT(60)
      <4>2. Size - z = End(b[k]) BY <1>3, <2>2, BufMngAssumption, SMTT(60)
      <4>3. QED BY <4>1, <4>2
    <3>4. Chain(b, 1+1, (k-1)+1) BY ChainSub
    <3>5. \A i \in 1..(k-1) : c[i] = b[i+1]
      <4>1. 1..(k-1) \subseteq 1..(m-1) OBVIOUS
      <4>2. QED BY <1>1, <4>1
    <3>6. Chain(c, 1, k-1) BY <3>4, <3>5, ChainShift
    <3>7. /\ c[1] = b[2] /\ c[k-1] = b[k] /\ c[k] = b[k+1] /\ c[m-1] = b[m]
      <4>1. 1+1 = 2 /\ (k-1)+1 = k /\ (m-1)+1 = m OBVIOUS
      <4>2. 1 \in 1..(m-1) /\ k-1 \in 1..(m-1) /\ k \in 1..(m-1) /\ m-1 \in 1..(m-1)
        BY <2>8
      <4>3. QED BY <1>1, <4>1, <4>2
    <3>8. Chain(c, (k-1)+1, Len(c)) BY <1>1, <2>5
    <3>9. c[(k-1)+1].addr = 0 /\ End(c[Len(c)]) <= c[1].addr
      <4>1. b[1].addr <= End(b[1]) BY <1>4
      <4>2. End(b[m]) <= End(b[1]) BY <1>4, <2>2, <4>1, SMTT(60)
      <4>3. (k-1)+1 = k OBVIOUS
      <4>4. QED BY <1>1, <3>1, <3>7, <4>2, <4>3
    <3>10. u - b[1].size = End(c[k-1]) - c[1].addr + WEnd(c)
      <4>1. u - b[1].size = End(b[k]) - End(b[1]) + WEnd(b) BY <1>4, <2>2, SMTT(60)
      <4>2. WEnd(c) = WEnd(b) BY <1>8, <2>1
      <4>3. QED BY <3>1, <3>7, <4>1, <4>2
    <3>11. z - r = Size - End(c[k-1])
      BY <1>3, <3>3, <3>7, SMTT(60)
    <3>12. k-1 \in 1..(Len(c) - 1) BY <1>1, <2>8
    <3>13. QED BY <3>6, <3>8, <3>9, <3>10, <3>11, <3>12 DEF Wrapped
  <2>9. k = 1 \/ k > 1 OBVIOUS
  <2>10. QED BY <2>7, <2>8, <2>9
<1>11. QED BY <1>1, <1>3, <1>5, <1>6, <1>7, <1>9, <1>10 DEF Geom, c

(* The first region of an empty buffer. *)
LEMMA PlaceFirst ==
  ASSUME NEW u, NEW f, NEW z, Geom(<<>>, u, f, z),
         NEW e \in Block, ~Committed(e), e.addr = 0, End(e) <= f
  PROVE  /\ Geom(Append(<<>>, e), u, f, z)
         /\ f <= Size
<1> DEFINE c == Append(<<>>, e)
<1>1. c \in Seq(Block) /\ Len(c) = 1 /\ c # <<>> /\ c[1] = e
  <2>1. <<>> \in Seq(Block) /\ Len(<<>>) = 0 BY EmptySeq
  <2>2. QED BY <2>1, AppendProperties
<1>2. e.size \in Nat /\ End(e) = e.size /\ Size \in Nat
  BY BufMngAssumption DEF Block, End
<1>3. u = 0 /\ f \in Nat /\ z \in Nat /\ u + f + z <= Size /\ ~\E i \in 1..0 : TRUE
  <2>1. Len(<<>>) = 0 BY EmptySeq
  <2>2. ~Linear(<<>>, u) BY DEF Linear
  <2>3. ~Wrapped(<<>>, u, z) BY <2>1 DEF Wrapped
  <2>4. QED BY <2>1, <2>2, <2>3 DEF Geom
<1>4. z = 0
  <2>1. Len(<<>>) = 0 BY EmptySeq
  <2>2. Owned(<<>>, z) BY DEF Geom
  <2>3. QED BY <2>1, <2>2 DEF Owned
<1> HIDE DEF c
<1>5. f <= Size BY <1>2, <1>3
<1>6. WellFormed(c) BY <1>1, <1>2, <1>3, <1>5 DEF WellFormed
<1>7. Owned(c, z) BY <1>4 DEF Owned
<1>8. Chain(c, 1, 1) BY DEF Chain
<1>9. Linear(c, u) BY <1>1, <1>3, <1>8 DEF Linear, WEnd
<1>10. QED BY <1>1, <1>3, <1>5, <1>6, <1>7, <1>9 DEF Geom, c

(* The used count of a geometry is the extent of committed data. *)
LEMMA GeomCounts ==
  ASSUME NEW b, NEW u, NEW f, NEW z, Geom(b, u, f, z)
  PROVE  u \in 0..Size /\ f \in 0..Size /\ z \in 0..Size
<1> DEFINE n == Len(b)
<1> b \in Seq(Block) BY DEF Geom
<1>1. n \in Nat /\ (b # <<>> => n \in Nat \ {0}) BY LenProperties, EmptySeq
<1>2. \A x \in 1..n : b[x].addr \in Nat /\ End(b[x]) \in Nat /\ b[x].addr <= End(b[x])
  <2> TAKE x \in 1..n
  <2>1. b[x].addr \in Nat /\ b[x].size \in Nat /\ End(b[x]) = b[x].addr + b[x].size
    BY BlockFacts
  <2>2. QED BY <2>1
<1> HIDE DEF n
<1>3. \A x \in 1..n : WEnd(b) \in Nat /\ (x = n => b[x].addr <= WEnd(b))
  BY <1>1, <1>2 DEF WEnd, n
<1>4. u >= 0
  <2>1. CASE Linear(b, u)
    <3>1. 1 \in 1..n /\ n \in 1..n BY <1>1, <2>1 DEF Linear
    <3>2. b[1].addr <= b[n].addr BY <2>1, <3>1, ChainOrder DEF Linear, n
    <3>3. b[n].addr <= WEnd(b) /\ WEnd(b) \in Nat BY <1>3, <3>1
    <3>4. b[1].addr \in Nat /\ b[n].addr \in Nat BY <1>2, <3>1
    <3>5. QED BY <2>1, <3>2, <3>3, <3>4 DEF Linear
  <2>2. CASE Wrapped(b, u, z)
    <3> PICK k \in 1..(n - 1) :
          Chain(b, 1, k) /\ u = End(b[k]) - b[1].addr + WEnd(b)
      BY <2>2 DEF Wrapped, n
    <3>1. 1 \in 1..n /\ n \in 1..n /\ k \in 1..n BY <1>1
    <3>2. b[1].addr <= b[k].addr BY <3>1, ChainOrder DEF n
    <3>3. b[k].addr <= End(b[k]) /\ WEnd(b) \in Nat BY <1>2, <1>3, <3>1
    <3>4. b[1].addr \in Nat /\ b[k].addr \in Nat /\ End(b[k]) \in Nat BY <1>2, <3>1
    <3>5. QED BY <3>2, <3>3, <3>4
  <2>3. QED BY <2>1, <2>2 DEF Geom
<1>5. QED BY <1>4, BufMngAssumption DEF Geom

-----------------------------------------------------------------------------
(* The invariant. *)

(* The writer has a region exactly when the newest block is being written,  *)
(* and committing all of it does not take free below zero.                  *)
WriterOwns ==
  /\ Busy <=> writer.state = "got"
  /\ Busy => Tail1.addr = writer.addr /\ Tail1.size <= free

(* The packets the decoder holds are the oldest blocks, in order. *)
HeldFirst ==
  /\ Len(held) <= Len(blocks)
  /\ \A i \in 1..Len(held) : blocks[i].status = "READING" /\ blocks[i].addr = held[i]
  /\ \A i \in (Len(held)+1)..Len(blocks) : blocks[i].status # "READING"

Layout == Geom(blocks, used, free, freeze)

Plain == dataNum \in Nat /\ writer \in Writer /\ held \in Seq(0..Size)

IInv == Layout /\ Plain /\ WriterOwns /\ HeldFirst

LEMMA TailCommitted ==
  ASSUME Layout, blocks # <<>>, ~Busy
  PROVE  Committed(blocks[Len(blocks)])
BY DEF Busy, Tail1, Committed

(* Where a new region goes, and what the freeze does to the counters. *)
LEMMA Placement ==
  ASSUME Layout, NEW s \in 0..Size, CanPlace(s), FreezeTail(s),
         NEW e, e = [addr |-> IF AtStart(s) THEN 0 ELSE WriteOff, size |-> s,
                     status |-> "WRITING", eof |-> TRUE]
  PROVE  /\ e \in Block
         /\ Geom(Append(blocks, e), used, free', freeze')
         /\ Geom(blocks, used, free', freeze')
         /\ s <= free'
<1> DEFINE n == Len(blocks)
<1> USE DEF Layout
<1>1. blocks \in Seq(Block) /\ n \in Nat /\ Size \in Nat /\ Size # 0
  BY LenProperties, BufMngAssumption DEF Geom
<1>2. free \in Nat /\ free >= s /\ ~Busy /\ used \in Int /\ freeze \in Nat
      /\ used + free + freeze <= Size
  BY DEF CanPlace, Geom
<1>3. CASE blocks = <<>>
  <2>1. WriteOff = 0 /\ ReadOff = 0 /\ ~AtStart(s)
    BY <1>3 DEF WriteOff, ReadOff, AtStart, AtWriteOff, Reversed
  <2>2. e \in Block /\ ~Committed(e) /\ e.addr = 0 /\ End(e) = s
    BY <1>1, <2>1 DEF Block, Committed, End
  <2>3. free' = free /\ freeze' = freeze
    BY <2>1 DEF FreezeTail
  <2>4. QED BY <1>2, <1>3, <2>2, <2>3, PlaceFirst
<1>4. CASE blocks # <<>>
  <2>1. n \in Nat \ {0} /\ 1 \in 1..n /\ n \in 1..n BY <1>1, <1>4, EmptySeq
  <2>2. Committed(blocks[n]) BY <1>2, <1>4, TailCommitted
  <2>3. /\ blocks[1].addr \in Nat /\ blocks[1].addr <= Size
        /\ End(blocks[n]) \in Nat /\ End(blocks[n]) <= Size
    <3>1. blocks[1].addr \in Nat /\ blocks[1].size \in Nat
          /\ End(blocks[1]) = blocks[1].addr + blocks[1].size /\ End(blocks[n]) \in Nat
      BY <1>1, <2>1, BlockFacts
    <3>2. End(blocks[1]) <= Size /\ End(blocks[n]) <= Size
      BY <2>1 DEF Geom, WellFormed
    <3>3. QED BY <1>1, <3>1, <3>2
  <2>4. WriteOff = End(blocks[n]) /\ ReadOff = blocks[1].addr
    BY <1>4 DEF WriteOff, ReadOff, Tail1
  <2>5. TailFree = Size - End(blocks[n])
    BY <1>1, <2>3, <2>4 DEF TailFree, Sub
  <2>6. Linear(blocks, used) \/ Wrapped(blocks, used, freeze)
    BY <1>4 DEF Geom
  <2>7. ASSUME Linear(blocks, used)
        PROVE  used = End(blocks[n]) - blocks[1].addr /\ blocks[1].addr < End(blocks[n])
    BY <2>2, <2>7, LinearExtent
  <2>8. CASE AtStart(s)
    <3>1. ~Reversed /\ ~(TailFree >= s) /\ HeadFree >= s
      BY <2>8 DEF AtStart, AtWriteOff
    <3>2. TailFree \in Nat /\ TailFree < s /\ TailFree <= free
      BY <1>1, <1>2, <2>3, <2>5, <3>1
    <3>3. HeadFree = free - TailFree
      BY <1>2, <3>2 DEF HeadFree, Sub
    <3>4. ASSUME Wrapped(blocks, used, freeze) PROVE FALSE
      <4>1. End(blocks[n]) <= blocks[1].addr BY <3>4 DEF Wrapped
      <4>2. QED BY <2>4, <3>1, <4>1 DEF Reversed
    <3>5. Linear(blocks, used) BY <2>6, <3>4
    <3>6. used = End(blocks[n]) - blocks[1].addr BY <2>7, <3>5
    <3>7. s <= blocks[1].addr
      <4>1. s <= free - TailFree BY <3>1, <3>3
      <4>2. used + free <= Size BY <1>1, <1>2
      <4>3. free <= Size - (End(blocks[n]) - blocks[1].addr)
        BY <1>1, <1>2, <2>3, <3>6, <4>2
      <4>4. free - (Size - End(blocks[n])) <= blocks[1].addr
        BY <1>1, <1>2, <2>3, <4>3
      <4>5. QED BY <1>1, <1>2, <2>3, <2>5, <4>1, <4>4
    <3>8. e \in Block /\ ~Committed(e) /\ e.addr = 0 /\ End(e) = s
      BY <1>1, <2>8 DEF Block, Committed, End
    <3>9. free' = free - TailFree /\ freeze' = TailFree
      BY <2>8 DEF FreezeTail
    <3>10. Geom(Append(blocks, e), used, free - TailFree, TailFree)
      BY <2>2, <2>5, <3>2, <3>5, <3>7, <3>8, PlaceAtStart
    <3>11. Geom(blocks, used, free - TailFree, TailFree)
      BY <2>2, <2>5, <3>2, <3>5, FreezeOnly
    <3>12. s <= free - TailFree BY <3>1, <3>3
    <3>13. QED BY <3>8, <3>9, <3>10, <3>11, <3>12
  <2>9. CASE ~AtStart(s)
    <3>1. Reversed \/ TailFree >= s
      BY <2>9 DEF CanPlace, AtWriteOff
    <3>2. ASSUME Linear(blocks, used) PROVE End(blocks[n]) + s <= Size
      <4>1. ~Reversed BY <2>3, <2>4, <2>7, <3>2 DEF Reversed
      <4>2. Size - End(blocks[n]) >= s BY <2>5, <3>1, <4>1
      <4>3. QED BY <1>1, <2>3, <4>2
    <3>3. ASSUME Wrapped(blocks, used, freeze) PROVE End(blocks[n]) + s <= blocks[1].addr
      <4> PICK k \in 1..(n - 1) :
            /\ used = End(blocks[k]) - blocks[1].addr + WEnd(blocks)
            /\ freeze = Size - End(blocks[k])
        BY <3>3 DEF Wrapped
      <4>1. WEnd(blocks) = End(blocks[n]) BY <2>2 DEF WEnd
      <4>2. End(blocks[k]) \in Nat BY <1>1, BlockFacts
      <4>3. free <= blocks[1].addr - End(blocks[n])
        <5>1. used + freeze = Size - blocks[1].addr + End(blocks[n])
          BY <1>1, <2>3, <4>1, <4>2, SMTT(60)
        <5>2. free <= Size - (used + freeze)
          BY <1>1, <1>2, SMTT(60)
        <5>3. free <= Size - (Size - blocks[1].addr + End(blocks[n])) BY <5>1, <5>2
        <5>4. Size - (Size - blocks[1].addr + End(blocks[n]))
                = blocks[1].addr - End(blocks[n])
          BY <1>1, <2>3
        <5>5. QED BY <5>3, <5>4
      <4>4. QED BY <1>2, <2>3, <4>3, SMTT(60)
    <3>4. e.addr = End(blocks[n]) /\ e.size = s /\ ~Committed(e) /\ End(e) = End(blocks[n]) + s
      BY <2>4, <2>9 DEF Committed, End
    <3>5. End(e) <= Size
      <4>1. s \in Nat BY <1>1
      <4>2. QED BY <1>1, <2>3, <2>6, <3>2, <3>3, <3>4, <4>1
    <3>6. e \in Block
      BY <1>1, <2>3, <2>4, <2>9 DEF Block
    <3>7. free' = free /\ freeze' = freeze
      BY <2>9 DEF FreezeTail
    <3>8. Wrapped(blocks, used, freeze) => End(e) <= blocks[1].addr
      BY <3>3, <3>4
    <3>9. Geom(Append(blocks, e), used, free, freeze)
      BY <1>4, <2>2, <3>4, <3>5, <3>6, <3>8, PlaceBehind
    <3>10. QED BY <1>2, <3>6, <3>7, <3>9
  <2>10. QED BY <2>8, <2>9
<1>5. QED BY <1>3, <1>4
-----------------------------------------------------------------------------
(* The invariant is inductive. *)

LEMMA ListFacts ==
  ASSUME IInv
  PROVE  /\ blocks \in Seq(Block) /\ Len(blocks) \in Nat /\ DOMAIN blocks = 1..Len(blocks)
         /\ used \in Nat /\ free \in Nat /\ freeze \in Nat /\ Size \in Nat \ {0}
         /\ blocks # <<>> => /\ Len(blocks) \in Nat \ {0}
                             /\ WriteOff = End(blocks[Len(blocks)]) /\ WriteOff \in Nat
                             /\ ReadOff = blocks[1].addr /\ ReadOff \in Nat
                             /\ WriteOff <= Size
                             /\ TailFree = Size - WriteOff
         /\ held \in Seq(0..Size) /\ Len(held) \in Nat /\ DOMAIN held = 1..Len(held)
<1>1. blocks \in Seq(Block) /\ held \in Seq(0..Size) /\ Size \in Nat \ {0}
  BY BufMngAssumption DEF IInv, Layout, Geom, Plain
<1>2. /\ Len(blocks) \in Nat /\ DOMAIN blocks = 1..Len(blocks)
      /\ Len(held) \in Nat /\ DOMAIN held = 1..Len(held)
  BY <1>1, LenProperties
<1>3. used \in Nat /\ free \in Nat /\ freeze \in Nat
  BY GeomCounts, <1>1 DEF IInv, Layout
<1>4. ASSUME blocks # <<>>
      PROVE  /\ Len(blocks) \in Nat \ {0}
             /\ WriteOff = End(blocks[Len(blocks)]) /\ WriteOff \in Nat
             /\ ReadOff = blocks[1].addr /\ ReadOff \in Nat
             /\ WriteOff <= Size
             /\ TailFree = Size - WriteOff
  <2>1. Len(blocks) \in Nat \ {0} BY <1>1, <1>4, EmptySeq
  <2>2. WriteOff = End(blocks[Len(blocks)]) /\ ReadOff = blocks[1].addr
    BY <1>4 DEF WriteOff, ReadOff, Tail1
  <2>3. WriteOff \in Nat /\ ReadOff \in Nat
    <3>1. 1 \in 1..Len(blocks) /\ Len(blocks) \in 1..Len(blocks) BY <2>1
    <3>2. QED BY <1>1, <2>2, <3>1, BlockFacts
  <2>4. WriteOff <= Size
    BY <2>1, <2>2 DEF IInv, Layout, Geom, WellFormed
  <2>5. QED BY <1>1, <2>1, <2>2, <2>3, <2>4 DEF TailFree, Sub
<1>5. QED BY <1>1, <1>2, <1>3, <1>4

LEMMA InitIInv == Init => IInv
<1> SUFFICES ASSUME Init PROVE IInv OBVIOUS
<1> USE DEF Init
<1>1. <<>> \in Seq(Block) /\ Len(<<>>) = 0 BY EmptySeq
<1>2. Size \in Nat /\ 0 \in 0..Size BY BufMngAssumption
<1>3. Layout
  BY <1>1, <1>2 DEF Layout, Geom, WellFormed, Owned
<1>4. Plain
  <2>1. held \in Seq(0..Size) BY EmptySeq
  <2>2. writer \in Writer BY <1>2 DEF Idle, Writer
  <2>3. QED BY <2>1, <2>2 DEF Plain
<1>5. WriterOwns /\ HeldFirst
  BY <1>1 DEF WriterOwns, HeldFirst, Busy, Idle
<1>6. QED BY <1>3, <1>4, <1>5 DEF IInv

LEMMA RequestStep ==
  ASSUME IInv, NEW s \in 0..Size, Request(s)
  PROVE  IInv'
<1> USE DEF IInv, Request
<1>1. Layout' BY DEF Layout
<1>2. Plain'
  <2>1. writer' \in Writer BY BufMngAssumption DEF Writer
  <2>2. QED BY <2>1 DEF Plain
<1>3. WriterOwns' BY DEF WriterOwns, Busy, Tail1
<1>4. HeldFirst' BY DEF HeldFirst
<1>5. QED BY <1>1, <1>2, <1>3, <1>4

LEMMA GetStep ==
  ASSUME IInv, GetWriteBuffer
  PROVE  IInv'
<1> DEFINE s == writer.size
           e == [addr |-> IF AtStart(s) THEN 0 ELSE WriteOff, size |-> s,
                 status |-> "WRITING", eof |-> TRUE]
           n == Len(blocks)
<1>1. s \in 0..Size BY DEF IInv, Plain, Writer
<1>2. CanPlace(s) /\ FreezeTail(s) /\ blocks' = Append(blocks, e) /\ ~Busy
      /\ writer' = [state |-> "got", addr |-> e.addr, size |-> s]
      /\ UNCHANGED <<used, dataNum, held>>
  BY DEF GetWriteBuffer, CanPlace
<1>3. /\ e \in Block
      /\ Geom(blocks', used, free', freeze')
      /\ s <= free'
  <2> HIDE DEF s
  <2>1. QED BY <1>1, <1>2, Placement DEF IInv
<1>4. e.size = s /\ e.status = "WRITING" OBVIOUS
<1> HIDE DEF e, s
<1>5. /\ blocks \in Seq(Block) /\ n \in Nat
      /\ blocks' # <<>> /\ Len(blocks') = n+1 /\ blocks'[n+1] = e
      /\ \A i \in 1..n : blocks'[i] = blocks[i]
  <2>1. blocks \in Seq(Block) /\ n \in Nat BY LenProperties DEF IInv, Layout, Geom
  <2> HIDE DEF n
  <2>2. QED BY <1>2, <1>3, <2>1, AppendProperties DEF n
<1>6. Layout' BY <1>2, <1>3 DEF Layout
<1>7. Plain'
  <2>1. e.addr \in 0..Size BY <1>3 DEF Block
  <2>2. writer' \in Writer BY <1>1, <1>2, <2>1 DEF Writer
  <2>3. QED BY <1>2, <2>2 DEF IInv, Plain
<1>8. WriterOwns'
  BY <1>2, <1>3, <1>4, <1>5 DEF WriterOwns, Busy, Tail1
<1>9. HeldFirst'
  <2>1. held' = held BY <1>2
  <2>2. Len(held) \in Nat BY LenProperties DEF IInv, Plain
  <2>3. QED BY <1>4, <1>5, <2>1, <2>2, SMTT(60) DEF IInv, HeldFirst
<1>10. QED BY <1>6, <1>7, <1>8, <1>9 DEF IInv

LEMMA NoMemoryStep ==
  ASSUME IInv, GetNoMemory
  PROVE  IInv'
<1> DEFINE s == writer.size
           e == [addr |-> IF AtStart(s) THEN 0 ELSE WriteOff, size |-> s,
                 status |-> "WRITING", eof |-> TRUE]
<1>1. s \in 0..Size BY DEF IInv, Plain, Writer
<1>2. CanPlace(s) /\ FreezeTail(s) /\ ~Busy
      /\ UNCHANGED <<blocks, used, dataNum, writer, held>>
  BY DEF GetNoMemory, CanPlace
<1>3. Geom(blocks, used, free', freeze')
  <2> HIDE DEF s
  <2>1. QED BY <1>1, <1>2, Placement DEF IInv
<1>4. QED
  BY <1>2, <1>3 DEF IInv, Layout, Plain, WriterOwns, HeldFirst, Busy, Tail1

LEMMA PutStep ==
  ASSUME IInv, NEW n \in 1..Size, NEW eof \in BOOLEAN, PutWriteBuffer(n, eof)
  PROVE  IInv'
<1> DEFINE m == Len(blocks)
           e == [addr |-> Tail1.addr, size |-> n, status |-> "FREE", eof |-> eof]
<1>1. /\ Busy /\ n \in 1..blocks[m].size
      /\ blocks' = [blocks EXCEPT ![m] = e]
      /\ used' = used + n /\ free' = free - n /\ dataNum' = FrameAdded(eof)
      /\ writer' = Idle
      /\ UNCHANGED <<freeze, held>>
  BY DEF PutWriteBuffer, PutAccepted, Tail1
<1>2. blocks \in Seq(Block) /\ blocks # <<>> /\ m \in Nat \ {0}
      /\ ~Committed(blocks[m]) /\ blocks[m].size <= free
  <2>1. blocks \in Seq(Block) /\ blocks # <<>> BY <1>1 DEF IInv, Layout, Geom, Busy
  <2>2. QED BY <1>1, <2>1, EmptySeq DEF IInv, WriterOwns, Busy, Tail1, Committed
<1>3. e \in Block /\ Committed(e) /\ e.addr = blocks[m].addr /\ e.size = n
      /\ e.status = "FREE"
  <2>1. blocks[m] \in Block BY <1>2, BlockFacts
  <2>2. QED BY <2>1, BufMngAssumption DEF Block, Committed, Tail1
<1> HIDE DEF e
<1>4. Len(blocks') = m /\ \A i \in 1..m : blocks'[i] = IF i = m THEN e ELSE blocks[i]
  <2>1. m \in 1..m BY <1>2
  <2>2. QED BY <1>1, <1>2, <1>3, <2>1, ExceptSeq
<1>5. Layout'
  BY <1>1, <1>2, <1>3, Commit DEF IInv, Layout
<1>6. Plain'
  <2>1. writer' \in Writer BY <1>1, BufMngAssumption DEF Idle, Writer
  <2>2. dataNum' \in Nat BY <1>1 DEF IInv, Plain, FrameAdded
  <2>3. QED BY <1>1, <2>1, <2>2 DEF IInv, Plain
<1>7. WriterOwns'
  <2>1. blocks'[Len(blocks')].status = "FREE" BY <1>2, <1>3, <1>4
  <2>2. writer'.state = "idle" BY <1>1 DEF Idle
  <2>3. QED BY <2>1, <2>2 DEF WriterOwns, Busy, Tail1
<1>8. HeldFirst'
  <2>1. held' = held /\ Len(held) \in Nat BY <1>1, LenProperties DEF IInv, Plain
  <2>2. blocks[m].status = "WRITING" BY <1>2 DEF Committed
  <2>3. Len(held) # m
    <3>1. Len(held) = m => m \in 1..Len(held) BY <1>2
    <3>2. QED BY <2>2, <3>1 DEF IInv, HeldFirst
  <2>4. Len(held) < m BY <1>2, <2>1, <2>3 DEF IInv, HeldFirst
  <2>5. QED BY <1>2, <1>3, <1>4, <2>1, <2>4 DEF IInv, HeldFirst
<1>9. QED BY <1>5, <1>6, <1>7, <1>8 DEF IInv

LEMMA PutNothingStep ==
  ASSUME IInv, PutNothing
  PROVE  IInv'
<1> DEFINE m == Len(blocks)
<1>1. /\ Busy /\ blocks' = Front(blocks) /\ writer' = Idle
      /\ UNCHANGED <<used, free, freeze, dataNum, held>>
  BY DEF PutNothing, PutAccepted
<1>2. blocks \in Seq(Block) /\ blocks # <<>> /\ m \in Nat \ {0} /\ ~Committed(blocks[m])
  <2>1. blocks \in Seq(Block) /\ blocks # <<>> BY <1>1 DEF IInv, Layout, Geom, Busy
  <2>2. QED BY <1>1, <2>1, EmptySeq DEF Busy, Tail1, Committed
<1>3. /\ blocks' \in Seq(Block) /\ Len(blocks') = m-1
      /\ \A i \in 1..(m-1) : blocks'[i] = blocks[i]
  BY <1>1, <1>2, FrontFacts
<1>4. Layout'
  BY <1>1, <1>2, DropLast DEF IInv, Layout
<1>5. Plain'
  <2>1. writer' \in Writer BY <1>1, BufMngAssumption DEF Idle, Writer
  <2>2. QED BY <1>1, <2>1 DEF IInv, Plain
<1>6. WriterOwns'
  <2>1. ASSUME Busy' PROVE FALSE
    <3>1. blocks' # <<>> /\ ~Committed(blocks'[Len(blocks')])
      BY <2>1 DEF Busy, Tail1, Committed
    <3>2. m-1 \in 1..(m-1) BY <1>2, <1>3, <3>1, EmptySeq
    <3>3. ~Committed(blocks[m-1]) /\ m-1 \in 1..m /\ m-1 # m BY <1>2, <1>3, <3>1, <3>2
    <3>4. QED BY <3>3 DEF IInv, Layout, Geom, WellFormed
  <2>2. writer'.state = "idle" BY <1>1 DEF Idle
  <2>3. QED BY <2>1, <2>2 DEF WriterOwns
<1>7. HeldFirst'
  <2>1. held' = held /\ Len(held) \in Nat BY <1>1, LenProperties DEF IInv, Plain
  <2>2. blocks[m].status = "WRITING" BY <1>2 DEF Committed
  <2>3. Len(held) # m
    <3>1. Len(held) = m => m \in 1..Len(held) BY <1>2
    <3>2. QED BY <2>2, <3>1 DEF IInv, HeldFirst
  <2>4. Len(held) <= m-1 BY <1>2, <2>1, <2>3 DEF IInv, HeldFirst
  <2>5. \A i \in 1..Len(held) : i \in 1..(m-1) /\ blocks'[i] = blocks[i]
    BY <1>2, <1>3, <2>1, <2>4
  <2>6. \A i \in (Len(held)+1)..(m-1) : i \in 1..(m-1) /\ blocks'[i] = blocks[i]
                                         /\ i \in (Len(held)+1)..m
    BY <1>2, <1>3, <2>1
  <2>7. QED BY <1>3, <2>1, <2>4, <2>5, <2>6 DEF IInv, HeldFirst
<1>8. QED BY <1>4, <1>5, <1>6, <1>7 DEF IInv

LEMMA AcqStep ==
  ASSUME IInv, AcqReadBuffer
  PROVE  IInv'
<1> DEFINE m == Len(blocks)  h == Len(held)
<1>1. blocks \in Seq(Block) /\ m \in Nat /\ held \in Seq(0..Size) /\ h \in Nat
      /\ DOMAIN blocks = 1..m
  BY LenProperties DEF IInv, Layout, Geom, Plain
<1>2. PICK i \in 1..m :
        /\ blocks[i].status = "FREE"
        /\ \A j \in 1..(i-1) : blocks[j].status # "FREE"
        /\ blocks' = [blocks EXCEPT ![i].status = "READING"]
        /\ held' = Append(held, blocks[i].addr)
  BY <1>1 DEF AcqReadBuffer
<1>3. UNCHANGED <<used, free, freeze, dataNum, writer>>
  BY DEF AcqReadBuffer
<1>4. i \in 1..Len(blocks) /\ Committed(blocks[i])
  BY <1>2 DEF Committed
<1>5. Layout'
  BY <1>2, <1>3, <1>4, Restatus DEF IInv, Layout
<1>6. i = h + 1
  <2>1. h <= m BY DEF IInv, HeldFirst
  <2>2. ~(i <= h)
    <3>1. i <= h => i \in 1..h BY <1>1
    <3>2. QED BY <1>2, <3>1 DEF IInv, HeldFirst
  <2>3. ASSUME i > h + 1 PROVE FALSE
    <3>1. h+1 \in 1..m /\ h+1 \in (h+1)..m /\ h+1 \in 1..(i-1) /\ h+1 # m
      <4>1. \A x, y \in Nat : \A w \in 1..y : w > x + 1 =>
              x+1 \in 1..y /\ x+1 \in (x+1)..y /\ x+1 \in 1..(w-1) /\ x+1 # y
        OBVIOUS
      <4> HIDE DEF h, m
      <4>2. QED BY <1>1, <2>3, <4>1
    <3>2. blocks[h+1].status \in {"FREE", "READING", "WRITING"} BY <1>1, <3>1, BlockFacts
    <3>3. blocks[h+1].status # "FREE" BY <1>2, <3>1
    <3>4. blocks[h+1].status # "READING" BY <3>1 DEF IInv, HeldFirst
    <3>5. ~Committed(blocks[h+1]) BY <3>2, <3>3, <3>4 DEF Committed
    <3>6. QED BY <3>1, <3>5 DEF IInv, Layout, Geom, WellFormed
  <2>4. QED BY <1>1, <2>2, <2>3
<1>7. blocks[i].addr \in 0..Size
  <2>1. blocks[i] \in Block BY <1>1, BlockFacts
  <2>2. QED BY <2>1 DEF Block
<1>8. /\ held' \in Seq(0..Size) /\ Len(held') = h+1 /\ held'[h+1] = blocks[i].addr
      /\ \A j \in 1..h : held'[j] = held[j]
  BY <1>1, <1>2, <1>7, AppendProperties
<1>9. Plain'
  BY <1>3, <1>8 DEF IInv, Plain
<1>10. /\ Len(blocks') = m
       /\ \A j \in 1..m : /\ blocks'[j].addr = blocks[j].addr
                          /\ blocks'[j].size = blocks[j].size
                          /\ blocks'[j].status = IF j = i THEN "READING" ELSE blocks[j].status
  <2> DEFINE e == [blocks[i] EXCEPT !.status = "READING"]
  <2>1. blocks[i] \in Block BY <1>1, BlockFacts
  <2>2. e \in Block /\ e.addr = blocks[i].addr /\ e.size = blocks[i].size
        /\ e.status = "READING"
    BY <2>1 DEF Block
  <2>3. blocks' = [blocks EXCEPT ![i] = e] BY <1>2
  <2> HIDE DEF e
  <2>4. Len(blocks') = m /\ \A j \in 1..m : blocks'[j] = IF j = i THEN e ELSE blocks[j]
    BY <1>1, <2>2, <2>3, ExceptSeq
  <2>5. QED BY <2>2, <2>4
<1>11. WriterOwns'
  <2>1. blocks # <<>> /\ blocks' # <<>> /\ m \in 1..m
    <3>1. m # 0 BY <1>1
    <3>2. blocks' \in Seq(Block) BY <1>5 DEF Layout, Geom
    <3>3. QED BY <1>1, <1>10, <3>1, <3>2, EmptySeq
  <2>2. Busy' <=> Busy
    BY <1>2, <1>10, <2>1 DEF Busy, Tail1
  <2>3. Tail1'.addr = Tail1.addr /\ Tail1'.size = Tail1.size
    BY <1>10, <2>1 DEF Tail1
  <2>4. QED BY <1>3, <2>2, <2>3 DEF IInv, WriterOwns
<1>12. HeldFirst'
  <2>1. h + 1 <= m BY <1>6
  <2>2. \A j \in 1..(h+1) : blocks'[j].status = "READING" /\ blocks'[j].addr = held'[j]
    <3> TAKE j \in 1..(h+1)
    <3>1. CASE j = h+1 BY <1>6, <1>8, <1>10, <3>1
    <3>2. CASE j # h+1
      <4>1. j \in 1..h /\ j \in 1..m BY <1>1, <2>1, <3>2
      <4>2. blocks[j].status = "READING" /\ blocks[j].addr = held[j]
        BY <4>1 DEF IInv, HeldFirst
      <4>3. QED BY <1>8, <1>10, <4>1, <4>2
    <3>3. QED BY <3>1, <3>2
  <2>3. \A j \in ((h+1)+1)..m : blocks'[j].status # "READING"
    <3> TAKE j \in ((h+1)+1)..m
    <3>1. j \in 1..m /\ j \in (h+1)..m /\ j # i BY <1>1, <1>6
    <3>2. blocks[j].status # "READING" BY <3>1 DEF IInv, HeldFirst
    <3>3. QED BY <1>10, <3>1, <3>2
  <2>4. QED BY <1>8, <1>10, <2>1, <2>2, <2>3 DEF HeldFirst
<1>13. QED BY <1>5, <1>9, <1>11, <1>12 DEF IInv

(* What the release of the oldest packet does.                              *)
LEMMA RlsFacts ==
  ASSUME IInv, InOrder, NEW k \in DOMAIN held, RlsReadBuffer(k)
  PROVE  /\ Len(blocks) \in Nat \ {0} /\ Len(held) \in 1..Len(blocks)
         /\ blocks[1].status = "READING" /\ blocks[1].addr = held[1]
         /\ held' \in Seq(0..Size) /\ Len(held') = Len(held) - 1
         /\ \A j \in 1..(Len(held) - 1) : held'[j] = held[j + 1]
         /\ blocks' \in Seq(Block) /\ Len(blocks') = Len(blocks) - 1
         /\ \A j \in 1..(Len(blocks) - 1) : blocks'[j] = blocks[j + 1]
         /\ blocks' = RemoveAt(blocks, 1) /\ writer' = writer
         /\ dataNum' = FrameRemoved(blocks[1])
         /\ \E r \in Nat : /\ r = IF Unfreezes(blocks[1]) THEN freeze ELSE 0
                           /\ freeze' = freeze - r
                           /\ used' = used - blocks[1].size
                           /\ free' = free + r + blocks[1].size
<1> DEFINE m == Len(blocks)  h == Len(held)
<1>1. blocks \in Seq(Block) /\ m \in Nat /\ held \in Seq(0..Size) /\ h \in Nat
      /\ DOMAIN blocks = 1..m /\ DOMAIN held = 1..h /\ freeze \in Nat
  BY ListFacts
<1>2. k = 1 /\ h >= 1 /\ held' = RemoveAt(held, 1) /\ writer' = writer
      /\ \/ ReleaseBlock(held[1])
         \/ NoBlockAt(held[1])
  BY <1>1 DEF RlsReadBuffer
<1>3. h <= m /\ 1 \in 1..h /\ 1 \in 1..m /\ blocks[1].addr = held[1]
      /\ blocks[1].status = "READING"
  BY <1>1, <1>2 DEF IInv, HeldFirst
<1>4. ReleaseBlock(held[1])
  BY <1>1, <1>2, <1>3 DEF NoBlockAt
<1> DEFINE r == IF Unfreezes(blocks[1]) THEN freeze ELSE 0
<1>5. /\ freeze' = freeze - r
      /\ blocks' = RemoveAt(blocks, 1)
      /\ used' = used - blocks[1].size
      /\ free' = free + r + blocks[1].size
      /\ dataNum' = FrameRemoved(blocks[1])
  <2> PICK i \in 1..m :
        LET b == blocks[i]
            back == IF Unfreezes(b) THEN freeze ELSE 0
        IN
        /\ b.addr = held[1]
        /\ \A j \in 1..(i-1) : blocks[j].addr # held[1]
        /\ freeze' = freeze - back
        /\ IF b.status = "READING"
             THEN /\ blocks' = RemoveAt(blocks, i)
                  /\ used' = used - b.size
                  /\ free' = free + back + b.size
                  /\ dataNum' = FrameRemoved(b)
             ELSE /\ free' = free + back
                  /\ UNCHANGED <<blocks, used, dataNum>>
    BY <1>1, <1>4 DEF ReleaseBlock
  <2>1. i = 1
    <3>1. i # 1 => 1 \in 1..(i-1) BY <1>1
    <3>2. QED BY <1>3, <3>1
  <2>2. QED BY <1>3, <2>1
<1>6. r \in Nat BY <1>1
<1> HIDE DEF r
<1>7. /\ held' \in Seq(0..Size) /\ Len(held') = h-1
      /\ \A j \in 1..(h-1) : held'[j] = held[j+1]
  BY <1>1, <1>2, <1>3, RemoveAtFacts
<1>8. /\ blocks' \in Seq(Block) /\ Len(blocks') = m-1
      /\ \A j \in 1..(m-1) : blocks'[j] = blocks[j+1]
  BY <1>1, <1>3, <1>5, RemoveAtFacts
<1>9. \E x \in Nat : /\ x = IF Unfreezes(blocks[1]) THEN freeze ELSE 0
                     /\ freeze' = freeze - x
                     /\ used' = used - blocks[1].size
                     /\ free' = free + x + blocks[1].size
  <2>1. r = IF Unfreezes(blocks[1]) THEN freeze ELSE 0 BY DEF r
  <2>2. QED BY <1>5, <1>6, <2>1
<1>10. m \in Nat \ {0} /\ h \in 1..m BY <1>1, <1>2, <1>3
<1>11. QED BY <1>2, <1>3, <1>5, <1>7, <1>8, <1>9, <1>10

LEMMA RlsStep ==
  ASSUME IInv, InOrder, NEW k \in DOMAIN held, RlsReadBuffer(k)
  PROVE  IInv'
<1> DEFINE m == Len(blocks)  h == Len(held)
<1>1. blocks \in Seq(Block) /\ m \in Nat /\ held \in Seq(0..Size) /\ h \in Nat
  BY ListFacts
<1>2. PICK r \in Nat : /\ r = IF Unfreezes(blocks[1]) THEN freeze ELSE 0
                       /\ freeze' = freeze - r
                       /\ used' = used - blocks[1].size
                       /\ free' = free + r + blocks[1].size
  BY RlsFacts
<1>3. h <= m /\ 1 \in 1..h /\ 1 \in 1..m /\ blocks[1].status = "READING" /\ (m = 1 \/ m > 1)
  <2>1. m \in Nat \ {0} /\ h \in 1..m /\ blocks[1].status = "READING"
    BY RlsFacts
  <2> HIDE DEF m, h
  <2>2. QED BY <2>1
<1>4. blocks' = RemoveAt(blocks, 1) /\ writer' = writer /\ dataNum' = FrameRemoved(blocks[1])
  BY RlsFacts
<1>6. blocks # <<>> /\ Committed(blocks[1])
      /\ r = IF freeze # 0 /\ End(blocks[1]) = Size - freeze THEN freeze ELSE 0
  <2>1. blocks # <<>> BY <1>1, <1>3, EmptySeq
  <2>2. QED BY <1>2, <1>3, <2>1 DEF Committed, Unfreezes
<1>8. Layout'
  BY <1>2, <1>4, <1>6, ReleaseFirst DEF IInv, Layout
<1>9. /\ held' \in Seq(0..Size) /\ Len(held') = h-1
      /\ \A j \in 1..(h-1) : held'[j] = held[j+1]
  BY RlsFacts
<1>10. /\ blocks' \in Seq(Block) /\ Len(blocks') = m-1
       /\ \A j \in 1..(m-1) : blocks'[j] = blocks[j+1]
  BY RlsFacts
<1>11. Plain'
  <2>1. dataNum' \in Nat BY <1>4 DEF FrameRemoved, IInv, Plain
  <2>2. QED BY <1>4, <1>9, <2>1 DEF IInv, Plain
<1>12. WriterOwns'
  <2>1. CASE m = 1
    <3>1. blocks' = <<>> BY <1>10, <2>1, EmptySeq
    <3>2. ~Busy BY <1>3, <2>1 DEF Busy, Tail1
    <3>3. ~Busy' BY <3>1 DEF Busy
    <3>4. QED BY <1>4, <3>2, <3>3 DEF IInv, WriterOwns
  <2>2. CASE m > 1
    <3>1. blocks'[Len(blocks')] = blocks[m]
      <4>1. m-1 \in 1..(m-1) /\ (m-1)+1 = m BY <1>1, <2>2
      <4>2. QED BY <1>10, <4>1
    <3>2. blocks' # <<>> BY <1>1, <1>10, <2>2, EmptySeq
    <3>3. (Busy' <=> Busy) /\ Tail1' = Tail1 BY <1>6, <3>1, <3>2 DEF Busy, Tail1
    <3>4. free <= free'
      <4>1. blocks[1].size \in Nat /\ free \in Nat
        BY <1>1, <1>3, BlockFacts DEF IInv, Layout, Geom
      <4>2. QED BY <1>2, <4>1
    <3>5. Busy => Tail1.size <= free'
      <4>1. Busy => Tail1.size \in Nat
        BY <1>1, <2>2, BlockFacts DEF Tail1
      <4>2. free \in Nat /\ free' \in Nat
        BY <1>8 DEF IInv, Layout, Geom
      <4>3. QED BY <3>4, <4>1, <4>2 DEF IInv, WriterOwns
    <3>6. QED BY <1>4, <3>3, <3>5 DEF IInv, WriterOwns
  <2>3. QED BY <1>3, <2>1, <2>2
<1>13. HeldFirst'
  <2>1. \A j \in 1..(h-1) : blocks'[j].status = "READING" /\ blocks'[j].addr = held'[j]
    <3> TAKE j \in 1..(h-1)
    <3>1. j+1 \in 1..h /\ j \in 1..(m-1) BY <1>1, <1>3
    <3>2. QED BY <1>9, <1>10, <3>1 DEF IInv, HeldFirst
  <2>2. \A j \in ((h-1)+1)..(m-1) : blocks'[j].status # "READING"
    <3> TAKE j \in ((h-1)+1)..(m-1)
    <3>1. j+1 \in (h+1)..m /\ j \in 1..(m-1) BY <1>1, <1>3
    <3>2. QED BY <1>10, <3>1 DEF IInv, HeldFirst
  <2>3. h-1 <= m-1 BY <1>1, <1>3
  <2>4. QED BY <1>9, <1>10, <2>1, <2>2, <2>3 DEF HeldFirst
<1>14. QED BY <1>8, <1>11, <1>12, <1>13 DEF IInv

LEMMA ResetStep ==
  ASSUME IInv, ~ResetHeld, Reset
  PROVE  IInv'
<1> USE DEF Reset
<1>1. <<>> \in Seq(Block) /\ Len(<<>>) = 0 BY EmptySeq
<1>2. Size \in Nat /\ 0 \in 0..Size BY BufMngAssumption
<1>3. Layout'
  BY <1>1, <1>2 DEF Layout, Geom, WellFormed, Owned
<1>4. Plain'
  <2>1. writer' \in Writer BY <1>2 DEF Idle, Writer
  <2>2. QED BY <2>1 DEF IInv, Plain
<1>5. WriterOwns' /\ HeldFirst'
  <2>1. blocks' = <<>> /\ held' = <<>> /\ writer'.state = "idle" BY DEF Idle
  <2>2. QED BY <1>1, <2>1 DEF WriterOwns, HeldFirst, Busy
<1>6. QED BY <1>3, <1>4, <1>5 DEF IInv

LEMMA StepIInv ==
  ASSUME InOrder, ~ResetHeld
  PROVE  IInv /\ [Next]_vars => IInv'
<1> SUFFICES ASSUME IInv, [Next]_vars PROVE IInv' OBVIOUS
<1>1. ASSUME NEW s \in 0..Size, Request(s) PROVE IInv' BY <1>1, RequestStep
<1>2. CASE GetWriteBuffer BY <1>2, GetStep
<1>3. CASE GetNoMemory BY <1>3, NoMemoryStep
<1>4. ASSUME NEW n \in 1..Size, NEW eof \in BOOLEAN, PutWriteBuffer(n, eof) PROVE IInv'
  BY <1>4, PutStep
<1>5. CASE PutNothing BY <1>5, PutNothingStep
<1>6. CASE AcqReadBuffer BY <1>6, AcqStep
<1>7. ASSUME NEW k \in DOMAIN held, RlsReadBuffer(k) PROVE IInv' BY <1>7, RlsStep
<1>8. CASE Reset BY <1>8, ResetStep
<1>9. CASE UNCHANGED vars
  BY <1>9 DEF vars, IInv, Layout, Plain, WriterOwns, HeldFirst, Busy, Tail1
<1>10. QED BY <1>1, <1>2, <1>3, <1>4, <1>5, <1>6, <1>7, <1>8, <1>9 DEF Next

-----------------------------------------------------------------------------
(* No unit is lost, as long as the writer commits what it takes and no     *)
(* descriptor allocation fails: then the tail is frozen only while the list *)
(* really is wrapped.                                                       *)

Whole == Conserved /\ (freeze # 0 => Reversed)

(* A list with a frozen tail is wrapped when its newest end lies before its *)
(* oldest block.                                                            *)
LEMMA FrozenWrapped ==
  ASSUME IInv, freeze # 0, Reversed
  PROVE  blocks # <<>> /\ Wrapped(blocks, used, freeze)
<1> DEFINE n == Len(blocks)
<1>1. PICK i \in 1..n : Committed(blocks[i]) /\ End(blocks[i]) = Size - freeze
  BY DEF IInv, Layout, Geom, Owned
<1>2. blocks \in Seq(Block) /\ n \in Nat \ {0} /\ blocks # <<>>
  BY <1>1, ListFacts, EmptySeq
<1>3. blocks[i].size >= 1 BY <1>1 DEF IInv, Layout, Geom, WellFormed
<1>4. ASSUME Linear(blocks, used) PROVE FALSE
  <2>1. Chain(blocks, 1, n) BY <1>4 DEF Linear
  <2>2. 1 \in 1..n /\ n \in 1..n BY <1>2
  <2>3. blocks[1].addr <= blocks[i].addr /\ End(blocks[i]) <= End(blocks[n])
    BY <1>2, <2>1, <2>2, ChainOrder
  <2>4. /\ blocks[1].addr \in Nat /\ blocks[i].addr \in Nat /\ blocks[i].size \in Nat
        /\ End(blocks[i]) = blocks[i].addr + blocks[i].size /\ End(blocks[n]) \in Nat
    BY <1>2, <2>2, BlockFacts
  <2>5. End(blocks[n]) > blocks[1].addr BY <1>3, <2>3, <2>4
  <2>6. QED BY <1>2, <2>4, <2>5, ListFacts DEF Reversed
<1>5. QED BY <1>2, <1>4 DEF IInv, Layout, Geom

LEMMA WholeGet ==
  ASSUME IInv, Whole, GetWriteBuffer
  PROVE  Whole'
<1> DEFINE s == writer.size
           e == [addr |-> IF AtStart(s) THEN 0 ELSE WriteOff, size |-> s,
                 status |-> "WRITING", eof |-> TRUE]
           n == Len(blocks)
<1>1. s \in Nat BY BufMngAssumption DEF IInv, Plain, Writer
<1>2. CanPlace(s) /\ FreezeTail(s) /\ blocks' = Append(blocks, e) /\ used' = used
  BY DEF GetWriteBuffer
<1>3. e \in Block /\ End(e) = e.addr + s /\ e.addr = IF AtStart(s) THEN 0 ELSE WriteOff
  <2>1. s \in 0..Size BY DEF IInv, Plain, Writer
  <2> HIDE DEF s
  <2>2. e \in Block BY <1>2, <2>1, Placement DEF IInv
  <2>3. QED BY <2>2 DEF End
<1> HIDE DEF e, s
<1>4. /\ blocks' # <<>> /\ Len(blocks') = n+1 /\ blocks'[n+1] = e
      /\ \A i \in 1..n : blocks'[i] = blocks[i]
  <2>1. blocks \in Seq(Block) /\ n \in Nat BY ListFacts
  <2> HIDE DEF n
  <2>2. QED BY <1>2, <1>3, <2>1, AppendProperties DEF n
<1>5. WriteOff' = End(e) /\ ReadOff' = IF blocks = <<>> THEN e.addr ELSE ReadOff
  <2>1. n \in Nat /\ (blocks = <<>> <=> n = 0) BY ListFacts, EmptySeq
  <2>2. WriteOff' = End(e) BY <1>4 DEF WriteOff, Tail1
  <2>3. ReadOff' = blocks'[1] .addr BY <1>4 DEF ReadOff
  <2>4. n = 0 => blocks'[1] = e BY <1>4
  <2>5. n # 0 => 1 \in 1..n BY <2>1
  <2>6. QED BY <1>4, <2>1, <2>2, <2>3, <2>4, <2>5 DEF ReadOff
<1>6. CASE AtStart(s)
  <2>1. ~Reversed /\ ~(TailFree >= s) /\ HeadFree >= s
    BY <1>6 DEF AtStart, AtWriteOff
  <2>2. freeze = 0 BY <2>1 DEF Whole
  <2>3. blocks # <<>> BY <2>1 DEF Reversed, WriteOff, ReadOff
  <2>4. free' = free - TailFree /\ freeze' = TailFree /\ TailFree \in Nat
    BY <1>2, <1>6, <2>3, ListFacts DEF FreezeTail
  <2>5. Conserved'
    <3>1. used + free + freeze = Size BY DEF Whole, Conserved
    <3>2. used' + free' + freeze' = Size BY <1>2, <2>2, <2>4, <3>1, ListFacts
    <3>3. QED BY <3>2 DEF Conserved
  <2>6. s <= ReadOff
    <3>1. Linear(blocks, used)
      <4>1. ~Wrapped(blocks, used, freeze)
        BY <2>1, <2>3, ListFacts DEF Wrapped, Reversed
      <4>2. QED BY <2>3, <4>1 DEF IInv, Layout, Geom
    <3>2. Committed(blocks[n])
      BY <1>2, <2>3, TailCommitted DEF IInv, CanPlace
    <3>3. used = WriteOff - ReadOff
      BY <2>3, <3>1, <3>2, LinearExtent, ListFacts DEF IInv, Layout
    <3>4. TailFree < s /\ s <= free BY <1>1, <1>2, <2>1, <2>4 DEF CanPlace
    <3>5. HeadFree = free - TailFree BY <1>1, <2>4, <3>4, ListFacts DEF HeadFree, Sub
    <3>6. used + free = Size BY <2>2, ListFacts DEF Whole, Conserved
    <3>7. /\ used \in Nat /\ free \in Nat /\ Size \in Nat /\ ReadOff \in Nat /\ WriteOff \in Nat
          /\ TailFree = Size - WriteOff
      BY <2>3, ListFacts
    <3>8. s <= free - TailFree BY <2>1, <3>5
    <3>9. free - TailFree = ReadOff BY <3>3, <3>6, <3>7
    <3>10. QED BY <3>8, <3>9
  <2>7. Reversed'
    BY <1>1, <1>3, <1>5, <1>6, <2>3, <2>6 DEF Reversed
  <2>8. QED BY <2>5, <2>7 DEF Whole
<1>7. CASE ~AtStart(s)
  <2>1. free' = free /\ freeze' = freeze /\ e.addr = WriteOff
    BY <1>2, <1>3, <1>7 DEF FreezeTail
  <2>2. Conserved' BY <1>2, <2>1 DEF Whole, Conserved
  <2>3. ASSUME freeze # 0 PROVE Reversed'
    <3>1. Reversed /\ blocks # <<>> /\ Wrapped(blocks, used, freeze)
      BY <2>3, FrozenWrapped DEF Whole
    <3>2. Committed(blocks[n])
      BY <1>2, <3>1, TailCommitted DEF IInv, CanPlace
    <3>3. PICK k \in 1..(n - 1) :
            /\ used = End(blocks[k]) - blocks[1].addr + WEnd(blocks)
            /\ freeze = Size - End(blocks[k])
      BY <3>1 DEF Wrapped
    <3>4. WEnd(blocks) = WriteOff BY <3>1, <3>2, ListFacts DEF WEnd
    <3>5. End(blocks[k]) \in Nat
      <4>1. k \in 1..n BY <3>1, ListFacts
      <4>2. QED BY <4>1, ListFacts, BlockFacts
    <3>6. free = ReadOff - WriteOff
      <4>1. used + free + freeze = Size BY DEF Whole, Conserved
      <4>2. PICK x \in Nat : used = x - ReadOff + WriteOff /\ freeze = Size - x
        BY <3>1, <3>3, <3>4, <3>5, ListFacts
      <4>3. /\ used \in Nat /\ free \in Nat /\ freeze \in Nat /\ Size \in Nat
            /\ ReadOff \in Nat /\ WriteOff \in Nat
        BY <3>1, ListFacts
      <4>4. (x - ReadOff + WriteOff) + free + (Size - x) = Size
        BY <4>1, <4>2
      <4>5. QED BY <4>3, <4>4
    <3>7. s <= free BY <1>2 DEF CanPlace
    <3>8. WriteOff + s <= ReadOff BY <1>1, <3>1, <3>6, <3>7, ListFacts
    <3>9. QED BY <1>3, <1>5, <2>1, <3>1, <3>8 DEF Reversed
  <2>4. QED BY <2>1, <2>2, <2>3 DEF Whole
<1>8. QED BY <1>6, <1>7

LEMMA WholePut ==
  ASSUME IInv, Whole, NEW n \in 1..Size, NEW eof \in BOOLEAN, PutWriteBuffer(n, eof)
  PROVE  Whole'
<1> DEFINE m == Len(blocks)
           e == [addr |-> Tail1.addr, size |-> n, status |-> "FREE", eof |-> eof]
<1>1. /\ Busy /\ n \in 1..blocks[m].size
      /\ blocks' = [blocks EXCEPT ![m] = e]
      /\ used' = used + n /\ free' = free - n /\ freeze' = freeze
  BY DEF PutWriteBuffer, PutAccepted, Tail1
<1>2. blocks # <<>> /\ m \in Nat \ {0} /\ blocks \in Seq(Block)
  BY <1>1, ListFacts DEF Busy
<1>3. Conserved' BY <1>1, ListFacts DEF Whole, Conserved
<1>4. /\ blocks[m].addr \in Nat /\ blocks[m].size \in Nat
      /\ WriteOff = blocks[m].addr + blocks[m].size
  <2>1. m \in 1..m BY <1>2
  <2>2. QED BY <1>2, <2>1, BlockFacts, ListFacts
<1>5. e.addr = blocks[m].addr /\ e.size = n /\ e \in Block
  <2>1. m \in 1..m BY <1>2
  <2>2. blocks[m] \in Block BY <1>2, <2>1, BlockFacts
  <2>3. QED BY <2>2, BufMngAssumption DEF Block, Tail1
<1> HIDE DEF e
<1>6. Len(blocks') = m /\ \A i \in 1..m : blocks'[i] = IF i = m THEN e ELSE blocks[i]
  <2>1. m \in 1..m BY <1>2
  <2>2. QED BY <1>1, <1>2, <1>5, <2>1, ExceptSeq
<1>7. blocks' # <<>> /\ WriteOff' <= WriteOff /\ ReadOff' = ReadOff
  <2>1. blocks' # <<>> BY <1>2, <1>6, EmptySeq
  <2>2. WriteOff' = blocks[m].addr + n
    <3>1. m \in 1..m BY <1>2
    <3>2. QED BY <1>5, <1>6, <2>1, <3>1 DEF WriteOff, Tail1, End
  <2>3. blocks'[1].addr = blocks[1].addr
    <3>1. 1 \in 1..m BY <1>2
    <3>2. QED BY <1>5, <1>6, <3>1
  <2>4. QED BY <1>1, <1>2, <1>4, <2>1, <2>2, <2>3 DEF ReadOff
<1>8. Reversed => Reversed'
  <2>1. WriteOff' \in Nat
    <3>1. m \in 1..m BY <1>2
    <3>2. WriteOff' = blocks[m].addr + n BY <1>5, <1>6, <1>7, <3>1 DEF WriteOff, Tail1, End
    <3>3. QED BY <1>4, <3>2
  <2>2. QED BY <1>2, <1>7, <2>1, ListFacts DEF Reversed
<1>9. QED BY <1>1, <1>3, <1>8 DEF Whole

LEMMA AcqFacts ==
  ASSUME IInv, AcqReadBuffer
  PROVE  /\ Len(blocks') = Len(blocks) /\ DOMAIN blocks' = 1..Len(blocks)
         /\ blocks # <<>> /\ blocks' # <<>>
         /\ \E i \in 1..Len(blocks) :
              /\ blocks[i].status = "FREE"
              /\ held' = Append(held, blocks[i].addr)
              /\ \A j \in 1..Len(blocks) :
                   /\ blocks'[j].addr = blocks[j].addr /\ blocks'[j].size = blocks[j].size
                   /\ j # i => blocks'[j] = blocks[j]
<1> DEFINE m == Len(blocks)
<1>1. blocks \in Seq(Block) /\ m \in Nat /\ DOMAIN blocks = 1..m
  BY ListFacts
<1>2. PICK i \in 1..m :
        /\ blocks[i].status = "FREE"
        /\ blocks' = [blocks EXCEPT ![i].status = "READING"]
        /\ held' = Append(held, blocks[i].addr)
  BY <1>1 DEF AcqReadBuffer
<1> DEFINE e == [blocks[i] EXCEPT !.status = "READING"]
<1>3. blocks[i] \in Block BY <1>1, BlockFacts
<1>4. e \in Block /\ e.addr = blocks[i].addr /\ e.size = blocks[i].size
  BY <1>3 DEF Block
<1>5. blocks' = [blocks EXCEPT ![i] = e] BY <1>2
<1> HIDE DEF e
<1>6. blocks' \in Seq(Block) /\ Len(blocks') = m
      /\ \A j \in 1..m : blocks'[j] = IF j = i THEN e ELSE blocks[j]
  BY <1>1, <1>4, <1>5, ExceptSeq
<1>7. DOMAIN blocks' = 1..m BY <1>6, LenProperties
<1>8. blocks # <<>> /\ blocks' # <<>> BY <1>1, <1>2, <1>6, EmptySeq
<1>9. \A j \in 1..m : /\ blocks'[j].addr = blocks[j].addr /\ blocks'[j].size = blocks[j].size
                      /\ j # i => blocks'[j] = blocks[j]
  BY <1>4, <1>6
<1>10. QED BY <1>2, <1>6, <1>7, <1>8, <1>9

LEMMA WholeAcq ==
  ASSUME IInv, Whole, AcqReadBuffer
  PROVE  Whole'
<1> DEFINE m == Len(blocks)
<1>1. UNCHANGED <<used, free, freeze>> BY DEF AcqReadBuffer
<1>2. 1 \in 1..m /\ m \in 1..m BY AcqFacts, ListFacts
<1>3. WriteOff' = WriteOff /\ ReadOff' = ReadOff
  BY <1>2, AcqFacts DEF WriteOff, ReadOff, Tail1, End
<1>4. QED BY <1>1, <1>3 DEF Whole, Conserved, Reversed

LEMMA WholeRls ==
  ASSUME IInv, Whole, InOrder, NEW k \in DOMAIN held, RlsReadBuffer(k)
  PROVE  Whole'
<1> DEFINE m == Len(blocks)
<1>1. PICK r \in Nat : /\ r = IF Unfreezes(blocks[1]) THEN freeze ELSE 0
                       /\ freeze' = freeze - r
                       /\ used' = used - blocks[1].size
                       /\ free' = free + r + blocks[1].size
  BY RlsFacts
<1>2. /\ blocks \in Seq(Block) /\ m \in Nat \ {0} /\ Len(blocks') = m - 1
      /\ \A j \in 1..(m-1) : blocks'[j] = blocks[j+1]
  BY RlsFacts, ListFacts
<1>3. blocks[1].size \in Nat
  <2>1. 1 \in 1..m BY <1>2
  <2>2. QED BY <1>2, <2>1, BlockFacts
<1>4. Conserved'
  <2>1. used + free + freeze = Size BY DEF Whole, Conserved
  <2>2. used \in Nat /\ free \in Nat /\ freeze \in Nat /\ Size \in Nat
    BY ListFacts
  <2> DEFINE z == blocks[1].size
  <2>3. z \in Nat /\ freeze' = freeze - r /\ used' = used - z /\ free' = free + r + z
    BY <1>1, <1>3
  <2> HIDE DEF z
  <2>4. (used - z) + (free + r + z) + (freeze - r) = Size
    BY <2>1, <2>2, <2>3
  <2>5. QED BY <2>3, <2>4 DEF Conserved
<1>5. ASSUME freeze' # 0 PROVE Reversed'
  <2>1. r = 0 /\ freeze # 0 BY <1>1, <1>5, ListFacts
  <2>2. blocks # <<>> /\ Wrapped(blocks, used, freeze)
    BY <2>1, FrozenWrapped DEF Whole
  <2>3. PICK j \in 1..(m - 1) :
          /\ Chain(blocks, 1, j)
          /\ End(blocks[m]) <= blocks[1].addr
          /\ freeze = Size - End(blocks[j])
    BY <2>2 DEF Wrapped
  <2>4. j # 1
    <3>1. ~Unfreezes(blocks[1]) BY <1>1, <2>1, ListFacts
    <3>2. End(blocks[1]) \in Nat
      <4>1. 1 \in 1..m BY <1>2
      <4>2. QED BY <1>2, <4>1, BlockFacts
    <3>3. QED BY <2>1, <2>3, <3>1, <3>2, ListFacts DEF Unfreezes
  <2>5. /\ 1 \in 1..j /\ 2 \in 1..j /\ 1 \in 1..(m-1) /\ m-1 \in 1..(m-1) /\ m > 1
        /\ 1 \in 1..m /\ j \in 1..m /\ 2 \in 1..m /\ m \in 1..m /\ 1 + 1 = 2 /\ (m-1) + 1 = m
    BY <1>2, <2>4
  <2>6. blocks[1].addr <= blocks[2].addr
    <3> HIDE DEF m
    <3>1. Chain(blocks, 1, j) /\ j \in 1..Len(blocks) /\ 1 \in 1..Len(blocks)
      BY <2>3, <2>5 DEF m
    <3>2. QED BY <1>2, <2>5, <3>1, ChainOrder
  <2>7. blocks'[1] = blocks[2] /\ blocks'[Len(blocks')] = blocks[m]
    BY <1>2, <2>5
  <2>8. blocks' # <<>>
    <3>1. Len(blocks') # 0 BY <1>2, <2>5
    <3>2. QED BY <3>1, EmptySeq
  <2>9. WriteOff' = End(blocks[m]) /\ ReadOff' = blocks[2].addr
    BY <2>7, <2>8 DEF WriteOff, ReadOff, Tail1, End
  <2>10. End(blocks[m]) \in Nat /\ blocks[1].addr \in Nat /\ blocks[2].addr \in Nat
    BY <1>2, <2>5, BlockFacts
  <2>11. QED BY <2>3, <2>6, <2>9, <2>10 DEF Reversed
<1>6. QED BY <1>4, <1>5 DEF Whole

LEMMA StepWhole ==
  ASSUME InOrder, ~ResetHeld, ~MayDrop, ~MayFail
  PROVE  IInv /\ Whole /\ [Next]_vars => Whole'
<1> SUFFICES ASSUME IInv, Whole, [Next]_vars PROVE Whole' OBVIOUS
<1>1. ASSUME NEW s \in 0..Size, Request(s) PROVE Whole'
  BY <1>1 DEF Request, Whole, Conserved, Reversed, WriteOff, ReadOff, Tail1
<1>2. CASE GetWriteBuffer BY <1>2, WholeGet
<1>3. ASSUME NEW n \in 1..Size, NEW eof \in BOOLEAN, PutWriteBuffer(n, eof) PROVE Whole'
  BY <1>3, WholePut
<1>4. CASE AcqReadBuffer BY <1>4, WholeAcq
<1>5. ASSUME NEW k \in DOMAIN held, RlsReadBuffer(k) PROVE Whole' BY <1>5, WholeRls
<1>6. CASE Reset
  BY <1>6, BufMngAssumption DEF Reset, Whole, Conserved
<1>7. CASE UNCHANGED vars
  BY <1>7 DEF vars, Whole, Conserved, Reversed, WriteOff, ReadOff, Tail1
<1>8. QED BY <1>1, <1>2, <1>3, <1>4, <1>5, <1>6, <1>7 DEF Next, GetNoMemory, PutNothing

(* Where there is room the tests of BUFMNG_GetWriteBuffer find it.          *)
LEMMA RoomFound ==
  ASSUME IInv, Whole, ~Busy, NEW s \in 1..Size, s <= RoomBehind \/ s <= RoomAtStart
  PROVE  CanPlace(s)
<1> DEFINE n == Len(blocks)
<1>1. s \in Nat /\ s >= 1 /\ s <= Size
  BY ListFacts
<1>2. used + free + freeze = Size
  BY DEF Whole, Conserved
<1>3. used \in Nat /\ free \in Nat /\ freeze \in Nat /\ Size \in Nat
  BY ListFacts
<1>4. CASE blocks = <<>>
  <2>1. freeze = 0
    <3>1. Len(blocks) = 0 BY <1>4, EmptySeq
    <3>2. QED BY <3>1 DEF IInv, Layout, Geom, Owned
  <2>2. used = 0
    <3>1. ~Wrapped(blocks, used, freeze)
      <4>1. Len(blocks) = 0 BY <1>4, EmptySeq
      <4>2. QED BY <4>1 DEF Wrapped
    <3>2. QED BY <1>4, <3>1 DEF IInv, Layout, Geom, Linear
  <2>3. free = Size BY <1>2, <1>3, <2>1, <2>2
  <2>4. AtWriteOff(s) BY <1>4 DEF AtWriteOff, Reversed, WriteOff, ReadOff
  <2>5. QED BY <1>1, <2>3, <2>4 DEF CanPlace
<1>5. CASE blocks # <<>> /\ Reversed
  <2>1. Committed(blocks[n]) BY <1>5, TailCommitted DEF IInv
  <2>2. Wrapped(blocks, used, freeze)
    <3>1. ~Linear(blocks, used)
      <4>1. Linear(blocks, used) => blocks[1].addr < End(blocks[n])
        BY <2>1, LinearExtent DEF IInv, Layout
      <4>2. QED BY <1>5, <4>1, ListFacts DEF Reversed
    <3>2. QED BY <1>5, <3>1 DEF IInv, Layout, Geom
  <2>3. PICK k \in 1..(n - 1) :
          /\ used = End(blocks[k]) - blocks[1].addr + WEnd(blocks)
          /\ freeze = Size - End(blocks[k])
    BY <2>2 DEF Wrapped
  <2>4. PICK x \in Nat : used = x - ReadOff + WriteOff /\ freeze = Size - x
    <3>1. k \in 1..n BY <1>5, ListFacts
    <3>2. End(blocks[k]) \in Nat BY <3>1, ListFacts, BlockFacts
    <3>3. WEnd(blocks) = WriteOff BY <1>5, <2>1, ListFacts DEF WEnd
    <3>4. QED BY <1>5, <2>3, <3>2, <3>3, ListFacts
  <2>5. ReadOff \in Nat /\ WriteOff \in Nat BY <1>5, ListFacts
  <2>6. (x - ReadOff + WriteOff) + free + (Size - x) = Size BY <1>2, <2>4
  <2>7. free = ReadOff - WriteOff BY <1>3, <2>5, <2>6
  <2>8. s <= free
    <3>1. RoomBehind = ReadOff - WriteOff /\ RoomAtStart = 0
      BY <1>5 DEF RoomBehind, RoomAtStart, Reversed
    <3>2. QED BY <1>1, <2>7, <3>1
  <2>9. QED BY <1>1, <1>3, <1>5, <2>8 DEF CanPlace, AtWriteOff
<1>6. CASE blocks # <<>> /\ ~Reversed
  <2>1. Committed(blocks[n]) BY <1>6, TailCommitted DEF IInv
  <2>2. freeze = 0 BY <1>6 DEF Whole
  <2>3. Linear(blocks, used)
    <3>1. ~Wrapped(blocks, used, freeze)
      BY <1>6, ListFacts DEF Wrapped, Reversed
    <3>2. QED BY <1>6, <3>1 DEF IInv, Layout, Geom
  <2>4. used = WriteOff - ReadOff
    BY <1>6, <2>1, <2>3, LinearExtent, ListFacts DEF IInv, Layout
  <2>5. ReadOff \in Nat /\ WriteOff \in Nat /\ WriteOff <= Size /\ TailFree = Size - WriteOff
        /\ WriteOff > ReadOff
    BY <1>6, ListFacts DEF Reversed
  <2>6. free = TailFree + ReadOff BY <1>2, <1>3, <2>2, <2>4, <2>5
  <2>7. s <= TailFree \/ s <= ReadOff
    BY <1>6, <2>5 DEF RoomBehind, RoomAtStart
  <2>8. free >= s BY <1>1, <1>3, <2>5, <2>6, <2>7
  <2>9. CASE TailFree >= s
    BY <2>8, <2>9 DEF CanPlace, AtWriteOff
  <2>10. CASE ~(TailFree >= s)
    <3>1. s <= ReadOff BY <1>1, <1>3, <2>5, <2>7, <2>10
    <3>2. HeadFree = ReadOff BY <1>3, <2>5, <2>6 DEF HeadFree, Sub
    <3>3. AtStart(s)
      BY <1>1, <1>6, <2>5, <2>10, <3>1, <3>2 DEF AtStart, AtWriteOff
    <3>4. QED BY <2>8, <3>3 DEF CanPlace
  <2>11. QED BY <2>9, <2>10
<1>7. QED BY <1>4, <1>5, <1>6

-----------------------------------------------------------------------------
(* A packet the decoder holds stays where it is. *)

Same(b, c, j) == \E i \in DOMAIN c : c[i] = b[j]

LEMMA StaysGet ==
  ASSUME IInv, GetWriteBuffer, NEW i \in DOMAIN blocks
  PROVE  Same(blocks, blocks', i)
<1> DEFINE s == writer.size
           e == [addr |-> IF AtStart(s) THEN 0 ELSE WriteOff, size |-> s,
                 status |-> "WRITING", eof |-> TRUE]
<1>1. s \in 0..Size BY DEF IInv, Plain, Writer
<1>2. CanPlace(s) /\ FreezeTail(s) /\ blocks' = Append(blocks, e)
  BY DEF GetWriteBuffer
<1>3. e \in Block
  <2> HIDE DEF s
  <2>1. QED BY <1>1, <1>2, Placement DEF IInv
<1> HIDE DEF e, s
<1>4. blocks' \in Seq(Block) /\ Len(blocks') = Len(blocks) + 1
      /\ \A j \in 1..Len(blocks) : blocks'[j] = blocks[j]
  BY <1>2, <1>3, ListFacts, AppendProperties
<1>5. i \in 1..Len(blocks) /\ i \in 1..Len(blocks') /\ DOMAIN blocks' = 1..Len(blocks')
  BY <1>4, ListFacts, LenProperties
<1>6. QED BY <1>4, <1>5 DEF Same

LEMMA StaysPut ==
  ASSUME IInv, NEW n \in 1..Size, NEW eof \in BOOLEAN, PutWriteBuffer(n, eof),
         NEW i \in DOMAIN blocks, blocks[i].status = "READING"
  PROVE  Same(blocks, blocks', i)
<1> DEFINE m == Len(blocks)
           e == [addr |-> Tail1.addr, size |-> n, status |-> "FREE", eof |-> eof]
<1>1. Busy /\ blocks' = [blocks EXCEPT ![m] = e]
  BY DEF PutWriteBuffer, PutAccepted
<1>2. blocks[m].status = "WRITING" /\ blocks \in Seq(Block) /\ i \in DOMAIN blocks'
  BY <1>1, ListFacts DEF Busy, Tail1
<1>3. blocks'[i] = blocks[i]
  BY <1>1, <1>2
<1>4. QED BY <1>2, <1>3 DEF Same

LEMMA StaysDrop ==
  ASSUME IInv, PutNothing, NEW i \in DOMAIN blocks, blocks[i].status = "READING"
  PROVE  Same(blocks, blocks', i)
<1> DEFINE m == Len(blocks)
<1>1. Busy /\ blocks' = Front(blocks) /\ blocks # <<>>
  BY DEF PutNothing, PutAccepted, Busy
<1>2. blocks' \in Seq(Block) /\ Len(blocks') = m - 1 /\ \A j \in 1..(m - 1) : blocks'[j] = blocks[j]
  BY <1>1, ListFacts, FrontFacts
<1>3. i # m BY <1>1 DEF Busy, Tail1
<1>4. i \in 1..(m - 1) BY <1>1, <1>3, ListFacts
<1>5. DOMAIN blocks' = 1..(m - 1) BY <1>2, LenProperties
<1>6. QED BY <1>2, <1>4, <1>5 DEF Same

LEMMA StaysRls ==
  ASSUME IInv, InOrder, NEW k \in DOMAIN held, RlsReadBuffer(k),
         NEW i \in DOMAIN blocks, blocks[i].status = "READING", blocks[i].addr \in ToSet(held')
  PROVE  Same(blocks, blocks', i)
<1> DEFINE m == Len(blocks)  h == Len(held)
<1>1. /\ m \in Nat \ {0} /\ h \in 1..m /\ blocks[1].addr = held[1]
      /\ held' \in Seq(0..Size) /\ Len(held') = h - 1
      /\ \A j \in 1..(h - 1) : held'[j] = held[j + 1]
      /\ blocks' \in Seq(Block) /\ Len(blocks') = m - 1
      /\ \A j \in 1..(m - 1) : blocks'[j] = blocks[j + 1]
  BY RlsFacts
<1>2. i # 1
  <2>1. SUFFICES ASSUME i = 1 PROVE FALSE
    OBVIOUS
  <2>2. PICK j \in 1..(h - 1) : held'[j] = blocks[1].addr
    <3>1. DOMAIN held' = 1..(h - 1) BY <1>1, LenProperties
    <3>2. QED BY <2>1, <3>1 DEF ToSet
  <2>3. j + 1 \in 2..h /\ j + 1 \in 1..h /\ 1 \in 1..h /\ 1 \in 1..m /\ j + 1 \in 1..m /\ j + 1 # 1
    BY <1>1
  <2>4. blocks[j + 1].addr = blocks[1].addr
    BY <1>1, <2>2, <2>3 DEF IInv, HeldFirst
  <2>5. /\ blocks[1].status = "READING" /\ blocks[j + 1].status = "READING"
    BY <2>3 DEF IInv, HeldFirst
  <2>6. blocks[1].size >= 1 /\ blocks[j + 1].size >= 1
    BY <2>3, <2>5 DEF IInv, Layout, Geom, WellFormed, Committed
  <2>7. Disjoint(blocks[1], blocks[j + 1])
    BY <2>3, GeomDisjoint DEF IInv, Layout
  <2>8. /\ blocks[1].addr \in Nat /\ blocks[1].size \in Nat
        /\ blocks[j + 1].addr \in Nat /\ blocks[j + 1].size \in Nat
    BY <2>3, BlockFacts, ListFacts
  <2> DEFINE b == blocks[1]  c == blocks[j + 1]
  <2>9. /\ b.addr \in Nat /\ b.size \in Nat /\ c.size \in Nat
        /\ c.addr = b.addr /\ b.size >= 1 /\ c.size >= 1 /\ Disjoint(b, c)
    BY <2>4, <2>6, <2>7, <2>8
  <2> HIDE DEF b, c
  <2>10. QED BY <2>9 DEF Disjoint, End
<1>3. i - 1 \in 1..(m - 1) /\ (i - 1) + 1 = i BY <1>2, ListFacts
<1>4. DOMAIN blocks' = 1..(m - 1) BY <1>1, LenProperties
<1>5. blocks'[i - 1] = blocks[i] BY <1>1, <1>3
<1>6. QED BY <1>3, <1>4, <1>5 DEF Same

LEMMA StepStays ==
  ASSUME InOrder, ~ResetHeld
  PROVE  IInv /\ [Next]_vars =>
           \A i \in DOMAIN blocks :
             blocks[i].status = "READING" /\ blocks[i].addr \in ToSet(held')
               => Same(blocks, blocks', i)
<1> SUFFICES ASSUME IInv, [Next]_vars, NEW i \in DOMAIN blocks,
                    blocks[i].status = "READING", blocks[i].addr \in ToSet(held')
             PROVE  Same(blocks, blocks', i)
  OBVIOUS
<1>1. CASE UNCHANGED blocks
  BY <1>1 DEF Same
<1>2. CASE (\E s \in 0..Size : Request(s)) \/ GetNoMemory \/ UNCHANGED vars
  <2>1. UNCHANGED blocks BY <1>2 DEF Request, GetNoMemory, vars
  <2>2. QED BY <1>1, <2>1
<1>3. CASE GetWriteBuffer BY <1>3, StaysGet
<1>4. ASSUME NEW n \in 1..Size, NEW eof \in BOOLEAN, PutWriteBuffer(n, eof)
      PROVE  Same(blocks, blocks', i)
  BY <1>4, StaysPut
<1>5. CASE PutNothing BY <1>5, StaysDrop
<1>6. CASE AcqReadBuffer
  <2>1. PICK j \in 1..Len(blocks) :
          /\ blocks[j].status = "FREE"
          /\ \A x \in 1..Len(blocks) : x # j => blocks'[x] = blocks[x]
    BY <1>6, AcqFacts
  <2>2. i \in 1..Len(blocks) /\ i # j /\ DOMAIN blocks' = 1..Len(blocks)
    BY <1>6, <2>1, AcqFacts, ListFacts
  <2>3. QED BY <2>1, <2>2 DEF Same
<1>7. ASSUME NEW k \in DOMAIN held, RlsReadBuffer(k) PROVE Same(blocks, blocks', i)
  BY <1>7, StaysRls
<1>8. CASE Reset
  <2>1. held' = <<>> BY <1>8 DEF Reset
  <2>2. ToSet(held') = {}
    <3>1. Len(held') = 0 /\ held' \in Seq(0..Size) BY <2>1, EmptySeq
    <3>2. DOMAIN held' = 1..0 BY <3>1, LenProperties
    <3>3. QED BY <3>2 DEF ToSet
  <2>3. QED BY <2>2
<1>9. QED BY <1>2, <1>3, <1>4, <1>5, <1>6, <1>7, <1>8 DEF Next

-----------------------------------------------------------------------------
(* The theorems. *)

(* The invariant holds of every state the manager reaches while the decoder *)
(* releases in order and is not reset under its packets.                    *)
THEOREM Invariant ==
  ASSUME InOrder, ~ResetHeld
  PROVE  Spec => []IInv
<1>1. Init => IInv BY InitIInv
<1>2. IInv /\ [Next]_vars => IInv' BY StepIInv
<1>3. QED BY <1>1, <1>2, PTL DEF Spec

(* Type correctness: in particular none of the 32-bit counters wraps.       *)
THEOREM TypeCorrect ==
  ASSUME InOrder, ~ResetHeld
  PROVE  Spec => []TypeOK
<1>1. IInv => TypeOK
  <2> SUFFICES ASSUME IInv PROVE TypeOK OBVIOUS
  <2>1. used \in 0..Size /\ free \in 0..Size /\ freeze \in 0..Size
    BY GeomCounts DEF IInv, Layout
  <2>2. QED BY <2>1 DEF IInv, Layout, Geom, Plain, TypeOK
<1>2. QED BY <1>1, Invariant, PTL

(* BUFMNG_GetWriteBuffer never hands out memory that a block of the list    *)
(* still covers.                                                            *)
THEOREM NeverOverlaps ==
  ASSUME InOrder, ~ResetHeld
  PROVE  Spec => []NoOverlap
<1>1. IInv => NoOverlap
  <2> SUFFICES ASSUME IInv PROVE NoOverlap OBVIOUS
  <2>1. blocks \in Seq(Block) /\ DOMAIN blocks = 1..Len(blocks)
    BY LenProperties DEF IInv, Layout, Geom
  <2>2. \A i \in 1..Len(blocks) : End(blocks[i]) <= Size
    BY DEF IInv, Layout, Geom, WellFormed
  <2>3. \A i, j \in 1..Len(blocks) : i # j => Disjoint(blocks[i], blocks[j])
    BY GeomDisjoint DEF IInv, Layout
  <2>4. QED BY <2>1, <2>2, <2>3 DEF NoOverlap
<1>2. QED BY <1>1, Invariant, PTL

(* A frozen area can always be given back: the committed block that ends    *)
(* where it starts is still in the list.                                    *)
THEOREM FreezeOwned ==
  ASSUME InOrder, ~ResetHeld
  PROVE  Spec => []FreezeHasOwner
<1>1. IInv => FreezeHasOwner
  <2> SUFFICES ASSUME IInv PROVE FreezeHasOwner OBVIOUS
  <2>1. DOMAIN blocks = 1..Len(blocks)
    BY LenProperties DEF IInv, Layout, Geom
  <2>2. QED BY <2>1 DEF IInv, Layout, Geom, Owned, FreezeHasOwner
<1>2. QED BY <1>1, Invariant, PTL

(* While the writer commits what it takes and no allocation fails, no unit  *)
(* is lost, and a tail is frozen only in a list that is wrapped.            *)
THEOREM NothingLost ==
  ASSUME InOrder, ~ResetHeld, ~MayDrop, ~MayFail
  PROVE  Spec => []Whole
<1>1. Init => Whole
  BY BufMngAssumption DEF Init, Whole, Conserved
<1>2. IInv /\ Whole /\ [Next]_vars => Whole'
  BY StepWhole
<1>3. QED BY <1>1, <1>2, Invariant, PTL DEF Spec

(* Every unit of the buffer is used, free or frozen: the check "UNmatch     *)
(* when write" of the debug build never fires.                              *)
THEOREM RoomConserved ==
  ASSUME InOrder, ~ResetHeld, ~MayDrop, ~MayFail
  PROVE  Spec => []Conserved
<1>1. Whole => Conserved
  BY DEF Whole
<1>2. QED BY <1>1, NothingLost, PTL

(* BUFMNG_GetWriteBuffer answers HI_ERR_BM_BUFFER_FULL only when there is    *)
(* no room in one piece.                                                    *)
THEOREM FullOnlyWhenFull ==
  ASSUME InOrder, ~ResetHeld, ~MayDrop, ~MayFail
  PROVE  Spec => []RefusedOnlyWhenFull
<1>1. IInv /\ Whole => RefusedOnlyWhenFull
  BY RoomFound DEF RefusedOnlyWhenFull
<1>2. QED BY <1>1, Invariant, NothingLost, PTL

(* The block of a packet that the decoder holds and keeps is untouched by   *)
(* every call: its place, its length and its mark.                          *)
THEOREM NeverTaken ==
  ASSUME InOrder, ~ResetHeld
  PROVE  Spec => HeldStays
<1>1. IInv /\ [Next]_vars =>
        [\A i \in DOMAIN blocks :
           (blocks[i].status = "READING" /\ blocks[i].addr \in ToSet(held')) =>
              \E j \in DOMAIN blocks' : blocks'[j] = blocks[i]]_vars
  BY StepStays DEF Same
<1>2. QED BY <1>1, Invariant, PTL DEF Spec, HeldStays
=============================================================================
