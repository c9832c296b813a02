------------------------- MODULE VencPacketsProofs -------------------------
(***************************************************************************)
(* Proofs that the stream buffer of an encoder channel is a queue of whole *)
(* packets, for every length, reserve and set of packet lengths, as long   *)
(* as the headers of an intra frame are not cut.                           *)
(*                                                                         *)
(* Packets reads the memory packet by packet.  What it reads is found by   *)
(* the form of the memory (Chain): from the read tail to where the writers *)
(* are, each header is followed by data of its length and then by the next *)
(* header.  The order of the pointers is VencStreamProofs'.                *)
(***************************************************************************)
EXTENDS VencStreamProofs, WellFoundedInduction

(* From a up to b memory m holds whole packets: a header says how far the   *)
(* next one is, and what lies between is data.                              *)
Chain(m, a, b) ==
  /\ a # b => m[a] # 0
  /\ \A u \in Between(a, b) : m[u] # 0 =>
       /\ m[u] <= Dist(u, b)
       /\ \A v \in Offset : Dist(u, v) \in 1..(m[u] - 1) => m[v] = 0
       /\ Turn(u + m[u]) # b => m[Turn(u + m[u])] # 0

(* Two memories hold the same from a up to b.                               *)
Same(m, w, a, b) == \A u \in Between(a, b) : w[u] = m[u]

(* The headers of the frame being started, as far as they are written: they *)
(* are not handed over yet, and there is room for the rest.  A frame that   *)
(* is not intra has none.                                                   *)
Started ==
  \/ step = Headers /\ wrHead = wrTail
  \/ /\ Dist(wrTail, wrHead) = step
     /\ \A v \in Between(wrTail, wrHead) : mem[v] = HeaderUnit(Dist(wrTail, v))
     /\ Dist(rdTail, wrHead) + (Headers - step) + Rsv <= BufLen

(* The packets the user holds lie one behind the other in what it has read. *)
HeldChain ==
  /\ \A i \in DOMAIN held :
       /\ held[i].len # 0 /\ mem[held[i].at] = held[i].len
       /\ Dist(rdTail, held[i].at) + held[i].len <= Dist(rdTail, rdHead)
  /\ \A i, j \in DOMAIN held :
       i < j => Dist(rdTail, held[i].at) + held[i].len <= Dist(rdTail, held[j].at)

PInv ==
  /\ Chain(mem, rdTail, rdHead)
  /\ Chain(mem, rdHead, wrTail)
  /\ busy => Chain(mem, wrHead, hwWp)
  /\ IF step = -1 THEN wrHead = wrTail ELSE Started
  /\ HeldChain

(* A frame that is started has room for its headers, and they are whole     *)
(* packets of two units.                                                    *)
HeadersFit == ~MayCut /\ Headers <= TooFew /\ Headers % 2 = 0

-----------------------------------------------------------------------------
(* Induction over sets of numbers. *)

LEMMA LeastNat ==
  ASSUME NEW T, T \subseteq Nat, T # {}
  PROVE  \E x \in T : \A y \in T : x <= y
<1>1. PICK x \in T : \A y \in T : ~(<<y, x>> \in OpToRel(<, Nat))
  BY NatLessThanWellFounded, WFMin
<1>2. ASSUME NEW y \in T PROVE x <= y
  <2>1. x \in Nat /\ y \in Nat
    OBVIOUS
  <2>2. ~(y < x)
    BY <1>1, <2>1 DEF OpToRel
  <2>3. QED BY <2>1, <2>2
<1>3. QED BY <1>2

LEMMA InductNat ==
  ASSUME NEW T, 0 \in T, \A n \in Nat : n \in T => n + 1 \in T
  PROVE  Nat \subseteq T
<1> SUFFICES ASSUME NEW k \in Nat, k \notin T PROVE FALSE
  OBVIOUS
<1>1. PICK m \in Nat \ T : \A j \in Nat \ T : m <= j
  BY LeastNat
<1>2. m # 0 BY <1>1
<1>3. m - 1 \in Nat BY <1>2
<1>4. m - 1 \in T BY <1>1, <1>3
<1>5. QED BY <1>1, <1>3, <1>4

(* Every number is in T if it is whenever all smaller ones are.             *)
LEMMA InductBelow ==
  ASSUME NEW T, \A n \in Nat : (\A j \in Nat : j < n => j \in T) => n \in T
  PROVE  Nat \subseteq T
<1> SUFFICES ASSUME NEW k \in Nat, k \notin T PROVE FALSE
  OBVIOUS
<1>1. PICK m \in Nat \ T : \A j \in Nat \ T : m <= j
  BY LeastNat
<1>2. \A j \in Nat : j < m => j \in T BY <1>1
<1>3. QED BY <1>1, <1>2

-----------------------------------------------------------------------------
(* What Packets computes. *)

(* One step of the recursion: the packets of the last n units before b,     *)
(* given those of fewer.                                                    *)
More(m, b, f, n) ==
  LET u == Turn(b + BufLen - n) IN
  IF n = 0 THEN <<>> ELSE IF m[u] \in 1..n THEN <<m[u]>> \o f[n - m[u]] ELSE <<0>>

Row(m, b) == CHOOSE f : f = [n \in 0..BufLen |-> More(m, b, f, n)]

LEMMA RowExists ==
  ASSUME NEW m, NEW b, BufLen \in Nat
  PROVE  \E f : f = [n \in 0..BufLen |-> More(m, b, f, n)]
<1> DEFINE Upto(g, k) == \A n \in 0..BufLen : n <= k => g[n] = More(m, b, g, n)
           T == {k \in Nat : \E g : Upto(g, k)}
<1>1. 0 \in T
  <2>1. Upto([n \in 0..BufLen |-> <<>>], 0)
    BY DEF More
  <2>2. QED BY <2>1
<1>2. ASSUME NEW k \in Nat, k \in T PROVE k + 1 \in T
  <2>1. PICK g : Upto(g, k)
    BY <1>2
  <2> DEFINE h == [n \in 0..BufLen |-> IF n = k + 1 THEN More(m, b, g, k + 1) ELSE g[n]]
  <2>2. ASSUME NEW n \in 0..BufLen, n <= k + 1
        PROVE  More(m, b, h, n) = More(m, b, g, n)
    BY <2>2 DEF More
  <2>3. ASSUME NEW n \in 0..BufLen, n <= k + 1
        PROVE  h[n] = More(m, b, g, n)
    BY <2>1, <2>3
  <2>4. Upto(h, k + 1)
    BY <2>2, <2>3
  <2>5. \E gg : Upto(gg, k + 1)
    <3> HIDE DEF h, Upto
    <3>1. QED BY <2>4
  <2>6. QED BY <2>5
<1>3. BufLen \in T
  <2> HIDE DEF T
  <2>1. QED BY <1>1, <1>2, InductNat
<1>4. PICK g : Upto(g, BufLen)
  BY <1>3
<1> DEFINE f == [n \in 0..BufLen |-> g[n]]
<1>5. \A n \in 0..BufLen : More(m, b, f, n) = More(m, b, g, n)
  BY DEF More
<1>6. \A n \in 0..BufLen : f[n] = More(m, b, f, n)
  BY <1>4, <1>5
<1>7. f = [n \in 0..BufLen |-> More(m, b, f, n)]
  BY <1>6
<1>8. QED BY <1>7

LEMMA RowIs ==
  ASSUME NEW m, NEW b, BufLen \in Nat, NEW n \in 0..BufLen
  PROVE  Row(m, b)[n] = More(m, b, Row(m, b), n)
<1>1. Row(m, b) = [k \in 0..BufLen |-> More(m, b, Row(m, b), k)]
  BY RowExists DEF Row
<1>2. QED BY <1>1

PacketsOf(m, a, b) == Row(m, b)[Dist(a, b)]

LEMMA PacketsIs ==
  ASSUME NEW a, NEW b
  PROVE  Packets(a, b) = PacketsOf(mem, a, b)
BY DEF Packets, PacketsOf, Row, More

-----------------------------------------------------------------------------
(* Going round the buffer by packets. *)

LEMMA Behind ==
  ASSUME NEW a \in Offset, NEW b \in Offset
  PROVE  Turn(b + BufLen - Dist(a, b)) = a
BY VencStreamAssumption DEF Dist, Offset, Turn

LEMMA Onward ==
  ASSUME NEW a \in Offset, NEW b \in Offset, NEW n \in 0..Dist(a, b)
  PROVE  /\ Turn(a + n) \in Offset
         /\ Dist(a, Turn(a + n)) = n
         /\ Dist(Turn(a + n), b) = Dist(a, b) - n
BY VencStreamAssumption DEF Dist, Offset, Turn

LEMMA SameOffset ==
  ASSUME NEW a \in Offset, NEW b \in Offset
  PROVE  Dist(a, b) = 0 <=> a = b
BY VencStreamAssumption DEF Dist, Offset

LEMMA SameDist ==
  ASSUME NEW a \in Offset, NEW u \in Offset, NEW v \in Offset, Dist(a, u) = Dist(a, v)
  PROVE  u = v
BY VencStreamAssumption DEF Dist, Offset

(* An offset before b is before c, or from b on before c. *)
LEMMA BetweenSplit ==
  ASSUME NEW a \in Offset, NEW b \in Offset, NEW c \in Offset,
         Dist(a, b) + Dist(b, c) < BufLen
  PROVE  /\ Dist(a, c) = Dist(a, b) + Dist(b, c)
         /\ Between(a, c) = Between(a, b) \cup Between(b, c)
         /\ \A u \in Between(a, b) : Dist(u, c) = Dist(u, b) + Dist(b, c)
<1>1. Dist(a, c) = Dist(a, b) + Dist(b, c)
  BY DistAdd
<1>2. ASSUME NEW u \in Offset, Dist(a, u) < Dist(a, b)
      PROVE  Dist(a, u) < Dist(a, c) /\ Dist(u, c) = Dist(u, b) + Dist(b, c)
  BY <1>1, <1>2, VencStreamAssumption DEF Dist, Offset
<1>3. ASSUME NEW u \in Offset, Dist(b, u) < Dist(b, c)
      PROVE  Dist(a, u) < Dist(a, c)
  BY <1>1, <1>3, VencStreamAssumption DEF Dist, Offset
<1>4. ASSUME NEW u \in Offset, Dist(a, u) < Dist(a, c), ~(Dist(a, u) < Dist(a, b))
      PROVE  Dist(b, u) < Dist(b, c)
  BY <1>1, <1>4, VencStreamAssumption DEF Dist, Offset
<1>5. QED BY <1>1, <1>2, <1>3, <1>4 DEF Between

-----------------------------------------------------------------------------
(* Chains. *)

LEMMA ChainEmpty ==
  ASSUME NEW m, NEW a \in Offset
  PROVE  Chain(m, a, a) /\ Between(a, a) = {}
BY DistType DEF Chain, Between

LEMMA ChainFrame ==
  ASSUME NEW m, NEW w, NEW a \in Offset, NEW b \in Offset,
         m \in [Offset -> Nat], Chain(m, a, b), Same(m, w, a, b)
  PROVE  Chain(w, a, b)
<1>1. a # b => a \in Between(a, b)
  BY SameOffset, DistType DEF Between
<1>2. ASSUME NEW u \in Between(a, b), w[u] # 0
      PROVE  /\ w[u] <= Dist(u, b)
             /\ \A v \in Offset : Dist(u, v) \in 1..(w[u] - 1) => w[v] = 0
             /\ Turn(u + w[u]) # b => w[Turn(u + w[u])] # 0
  <2>1. /\ u \in Offset /\ w[u] = m[u] /\ m[u] \in Nat /\ m[u] <= Dist(u, b)
        /\ \A v \in Offset : Dist(u, v) \in 1..(m[u] - 1) => m[v] = 0
        /\ Turn(u + m[u]) # b => m[Turn(u + m[u])] # 0
    BY <1>2 DEF Chain, Between, Same
  <2>2. ASSUME NEW v \in Offset, Dist(u, v) < Dist(u, b)
        PROVE  v \in Between(a, b)
    BY <2>1, <2>2, <1>2, VencStreamAssumption DEF Between, Dist, Offset
  <2>3. ASSUME NEW v \in Offset, Dist(u, v) \in 1..(w[u] - 1)
        PROVE  w[v] = 0
    <3>1. Dist(u, v) < Dist(u, b)
      BY <2>1, <2>3, DistType
    <3>2. w[v] = m[v]
      BY <3>1, <2>2 DEF Same
    <3>3. QED BY <2>1, <2>3, <3>2
  <2>4. ASSUME Turn(u + w[u]) # b
        PROVE  w[Turn(u + w[u])] # 0
    <3> DEFINE v == Turn(u + w[u])
    <3>1. v \in Offset /\ Dist(v, b) = Dist(u, b) - w[u] /\ Dist(u, v) = w[u]
      BY <2>1, Onward
    <3>2. Dist(u, v) < Dist(u, b)
      BY <3>1, <2>1, <2>4, SameOffset, DistType
    <3>3. v \in Between(a, b)
      BY <3>1, <3>2, <2>2
    <3>4. QED BY <2>1, <2>4, <3>3 DEF Same
  <2>5. QED BY <2>1, <2>3, <2>4
<1>3. QED BY <1>1, <1>2 DEF Chain, Same

(* One packet is a chain. *)
LEMMA ChainOne ==
  ASSUME NEW m, NEW a \in Offset, NEW n \in Nat \ {0}, n < BufLen, m[a] = n,
         \A v \in Offset : Dist(a, v) \in 1..(n - 1) => m[v] = 0
  PROVE  Chain(m, a, Turn(a + n))
<1> DEFINE b == Turn(a + n)
<1>1. b \in Offset /\ Dist(a, b) = n
  BY DistTurn, DistType
<1>2. ASSUME NEW u \in Between(a, b), m[u] # 0
      PROVE  u = a
  <2>1. u \in Offset /\ Dist(a, u) \in Nat /\ Dist(a, u) < n
    BY <1>1, DistType DEF Between
  <2>2. Dist(a, u) = 0
    BY <2>1, <1>2
  <2>3. QED BY <2>1, <2>2, SameOffset
<1>3. QED BY <1>1, <1>2, SameOffset DEF Chain

LEMMA ChainJoin ==
  ASSUME NEW m, m \in [Offset -> Nat], NEW a \in Offset, NEW b \in Offset, NEW c \in Offset,
         Chain(m, a, b), Chain(m, b, c), Dist(a, b) + Dist(b, c) < BufLen
  PROVE  Chain(m, a, c)
<1>1. /\ Between(a, c) = Between(a, b) \cup Between(b, c)
      /\ \A u \in Between(a, b) : Dist(u, c) = Dist(u, b) + Dist(b, c)
  BY BetweenSplit
<1>2. a # c => m[a] # 0
  BY DEF Chain
<1>3. ASSUME NEW u \in Between(a, c), m[u] # 0
      PROVE  /\ m[u] <= Dist(u, c)
             /\ \A v \in Offset : Dist(u, v) \in 1..(m[u] - 1) => m[v] = 0
             /\ Turn(u + m[u]) # c => m[Turn(u + m[u])] # 0
  <2>1. CASE u \in Between(b, c)
    BY <2>1, <1>3 DEF Chain
  <2>2. CASE u \in Between(a, b)
    <3>1. /\ m[u] <= Dist(u, b)
          /\ \A v \in Offset : Dist(u, v) \in 1..(m[u] - 1) => m[v] = 0
          /\ Turn(u + m[u]) # b => m[Turn(u + m[u])] # 0
      BY <2>2, <1>3 DEF Chain
    <3>2. Dist(u, b) <= Dist(u, c)
      <4>1. u \in Offset
        BY DEF Between
      <4>2. Dist(u, b) \in Nat /\ Dist(b, c) \in Nat
        BY <4>1, DistType
      <4>3. QED BY <1>1, <2>2, <4>2
    <3>3. m[u] <= Dist(u, c)
      <4>1. u \in Offset
        BY DEF Between
      <4>2. Dist(u, b) \in Nat /\ Dist(u, c) \in Nat /\ m[u] \in Nat
        BY <4>1, DistType
      <4>3. QED BY <3>1, <3>2, <4>2
    <3>4. Turn(u + m[u]) # c => m[Turn(u + m[u])] # 0
      BY <3>1 DEF Chain
    <3>5. QED BY <3>1, <3>3, <3>4
  <2>3. QED BY <2>1, <2>2, <1>1
<1>4. QED BY <1>2, <1>3 DEF Chain

(* A chain is its first packet and a chain. *)
LEMMA ChainFirst ==
  ASSUME NEW m, m \in [Offset -> Nat], NEW a \in Offset, NEW b \in Offset,
         Chain(m, a, b), a # b
  PROVE  /\ m[a] \in 1..Dist(a, b)
         /\ Turn(a + m[a]) \in Offset
         /\ Dist(a, Turn(a + m[a])) = m[a]
         /\ Dist(Turn(a + m[a]), b) = Dist(a, b) - m[a]
         /\ Chain(m, a, Turn(a + m[a]))
         /\ Chain(m, Turn(a + m[a]), b)
<1> DEFINE c == Turn(a + m[a])
<1>1. a \in Between(a, b) /\ m[a] # 0 /\ m[a] \in Nat
  BY SameOffset, DistType DEF Between, Chain
<1>2. m[a] \in 1..Dist(a, b) /\ Dist(a, b) \in Nat /\ Dist(a, b) < BufLen /\ BufLen \in Nat
  BY <1>1, DistType DEF Chain
<1>3. c \in Offset /\ Dist(a, c) = m[a] /\ Dist(c, b) = Dist(a, b) - m[a]
  BY <1>2, Onward
<1>4. Chain(m, a, c)
  <2>1. \A v \in Offset : Dist(a, v) \in 1..(m[a] - 1) => m[v] = 0
    BY <1>1 DEF Chain
  <2>2. QED BY <2>1, <1>1, <1>2, ChainOne
<1>5. Chain(m, c, b)
  <2>1. Between(c, b) \subseteq Between(a, b)
    <3>1. Dist(a, c) + Dist(c, b) < BufLen
      BY <1>2, <1>3
    <3>2. QED BY <3>1, <1>3, BetweenSplit
  <2>2. c # b => m[c] # 0
    BY <1>1 DEF Chain
  <2>3. QED BY <2>1, <2>2 DEF Chain
<1>6. QED BY <1>2, <1>3, <1>4, <1>5

-----------------------------------------------------------------------------
(* The packets of a chain. *)

LEMMA PacketsEmpty ==
  ASSUME NEW m, NEW b \in Offset
  PROVE  PacketsOf(m, b, b) = <<>>
<1>1. Dist(b, b) = 0 /\ BufLen \in Nat
  BY DistType
<1>2. Row(m, b)[0] = More(m, b, Row(m, b), 0)
  BY <1>1, RowIs
<1>3. More(m, b, Row(m, b), 0) = <<>>
  BY DEF More
<1>4. QED BY <1>1, <1>2, <1>3 DEF PacketsOf

LEMMA PacketsFirst ==
  ASSUME NEW m, m \in [Offset -> Nat], NEW a \in Offset, NEW b \in Offset,
         m[a] \in 1..Dist(a, b)
  PROVE  PacketsOf(m, a, b) = <<m[a]>> \o PacketsOf(m, Turn(a + m[a]), b)
<1> DEFINE n == Dist(a, b)
<1>1. n \in 0..BufLen /\ n # 0 /\ Turn(b + BufLen - n) = a /\ BufLen \in Nat
  BY DistType, Behind
<1>2. Row(m, b)[n] = More(m, b, Row(m, b), n)
  BY <1>1, RowIs
<1>3. More(m, b, Row(m, b), n) = <<m[a]>> \o Row(m, b)[n - m[a]]
  BY <1>1 DEF More
<1>4. Dist(Turn(a + m[a]), b) = n - m[a]
  BY <1>1, Onward
<1>5. QED BY <1>2, <1>3, <1>4 DEF PacketsOf

(* A chain is read as packets, none of which is empty.                      *)
LEMMA PacketsType ==
  ASSUME NEW m, m \in [Offset -> Nat], NEW a \in Offset, NEW b \in Offset, Chain(m, a, b)
  PROVE  PacketsOf(m, a, b) \in Seq(Nat \ {0})
<1> DEFINE P(x) == Chain(m, x, b) => PacketsOf(m, x, b) \in Seq(Nat \ {0})
           T == {k \in Nat : \A x \in Offset : Dist(x, b) = k => P(x)}
<1>1. ASSUME NEW k \in Nat, \A j \in Nat : j < k => j \in T, NEW x \in Offset, Dist(x, b) = k,
             Chain(m, x, b)
      PROVE  PacketsOf(m, x, b) \in Seq(Nat \ {0})
  <2>1. CASE x = b
    <3>1. PacketsOf(m, x, b) = <<>>
      BY <2>1, PacketsEmpty
    <3>2. QED BY <3>1
  <2>2. CASE x # b
    <3> DEFINE y == Turn(x + m[x])
    <3>1. /\ m[x] \in 1..Dist(x, b) /\ y \in Offset
          /\ Dist(y, b) = Dist(x, b) - m[x] /\ Chain(m, y, b)
      BY <2>2, <1>1, ChainFirst
    <3>2. Dist(y, b) \in Nat /\ Dist(y, b) < k
      BY <3>1, <1>1
    <3>3. PacketsOf(m, y, b) \in Seq(Nat \ {0})
      BY <3>1, <3>2, <1>1
    <3>4. PacketsOf(m, x, b) = <<m[x]>> \o PacketsOf(m, y, b)
      BY <3>1, PacketsFirst
    <3>5. m[x] \in Nat \ {0}
      BY <3>1
    <3>6. <<m[x]>> \in Seq(Nat \ {0})
      BY <3>5
    <3>7. QED BY <3>3, <3>4, <3>6, ConcatProperties
  <2>3. QED BY <2>1, <2>2
<1>2. \A k \in Nat : (\A j \in Nat : j < k => j \in T) => k \in T
  BY <1>1
<1>3. Nat \subseteq T
  <2> HIDE DEF T
  <2>1. QED BY <1>2, InductBelow
<1>4. Dist(a, b) \in T
  <2>1. Dist(a, b) \in Nat
    BY DistType
  <2> HIDE DEF T
  <2>2. QED BY <2>1, <1>3
<1>5. QED BY <1>4

LEMMA ConcatThree ==
  \A f, g, h \in Seq(Nat) : (f \o g) \o h = f \o (g \o h)
<1> DEFINE S == Nat
<1>1. \A s, t, u \in Seq(S) : (s \o t) \o u = s \o (t \o u)
  <2> HIDE DEF S
  <2>1. QED BY ConcatAssociative
<1>2. QED BY <1>1

(* The packets of two chains one behind the other, the first of which may   *)
(* have been there in an earlier memory.                                    *)
LEMMA PacketsJoin ==
  ASSUME NEW m, m \in [Offset -> Nat], NEW w, w \in [Offset -> Nat],
         NEW a \in Offset, NEW b \in Offset, NEW c \in Offset,
         Chain(m, a, b), Chain(w, b, c), Same(m, w, a, b),
         Dist(a, b) + Dist(b, c) < BufLen
  PROVE  PacketsOf(w, a, c) = PacketsOf(m, a, b) \o PacketsOf(w, b, c)
<1> DEFINE Given(x) == /\ Chain(m, x, b)
                       /\ Same(m, w, x, b)
                       /\ Dist(x, b) + Dist(b, c) < BufLen
           Joined(x) == PacketsOf(w, x, c) = PacketsOf(m, x, b) \o PacketsOf(w, b, c)
           T == {k \in Nat : \A x \in Offset : Dist(x, b) = k /\ Given(x) => Joined(x)}
<1>0. PacketsOf(w, b, c) \in Seq(Nat \ {0})
  BY PacketsType
<1>1. ASSUME NEW k \in Nat, \A j \in Nat : j < k => j \in T, NEW x \in Offset, Dist(x, b) = k,
             Given(x)
      PROVE  Joined(x)
  <2>1. CASE x = b
    <3>1. PacketsOf(m, x, b) = <<>>
      BY <2>1, PacketsEmpty
    <3>2. QED BY <2>1, <3>1, <1>0, ConcatEmptySeq
  <2>2. CASE x # b
    <3> DEFINE y == Turn(x + m[x])
    <3>1. /\ m[x] \in 1..Dist(x, b) /\ y \in Offset /\ Dist(x, y) = m[x]
          /\ Dist(y, b) = Dist(x, b) - m[x] /\ Chain(m, y, b)
      BY <2>2, <1>1, ChainFirst
    <3>2. /\ Dist(y, b) \in Nat /\ Dist(y, b) < k /\ Dist(b, c) \in Nat /\ BufLen \in Nat
      BY <3>1, <1>1, DistType
    <3>3. Dist(x, y) + Dist(y, b) < BufLen /\ Dist(y, b) + Dist(b, c) < BufLen
      <4>1. /\ Dist(x, b) = k /\ Dist(x, b) + Dist(b, c) < BufLen /\ m[x] \in Nat
            /\ Dist(x, b) = m[x] + Dist(y, b)
        BY <3>1, <3>2, <1>1
      <4> HIDE DEF y
      <4>2. QED BY <3>1, <3>2, <4>1
    <3>4. Between(y, b) \subseteq Between(x, b)
      BY <3>1, <3>3, BetweenSplit
    <3>5. Joined(y)
      <4>1. Same(m, w, y, b)
        BY <3>4, <1>1 DEF Same
      <4>2. QED BY <3>1, <3>2, <3>3, <4>1, <1>1
    <3>6. x \in Between(x, b) /\ w[x] = m[x]
      <4>1. x \in Between(x, b)
        BY <2>2, SameOffset, DistType DEF Between
      <4>2. QED BY <4>1, <1>1 DEF Same
    <3>7. Dist(x, c) = Dist(x, b) + Dist(b, c)
      BY <1>1, BetweenSplit
    <3>8. w[x] \in 1..Dist(x, c)
      BY <3>1, <3>2, <3>6, <3>7, <1>1
    <3>9. /\ PacketsOf(w, x, c) = <<m[x]>> \o PacketsOf(w, y, c)
          /\ PacketsOf(m, x, b) = <<m[x]>> \o PacketsOf(m, y, b)
      <4>1. PacketsOf(m, x, b) = <<m[x]>> \o PacketsOf(m, y, b)
        BY <3>1, PacketsFirst
      <4>2. PacketsOf(w, x, c) = <<w[x]>> \o PacketsOf(w, Turn(x + w[x]), c)
        BY <3>8, PacketsFirst
      <4>3. QED BY <3>6, <4>1, <4>2
    <3>10. /\ <<m[x]>> \in Seq(Nat) /\ PacketsOf(m, y, b) \in Seq(Nat)
           /\ PacketsOf(w, b, c) \in Seq(Nat)
      <4>1. m[x] \in Nat
        BY <3>1
      <4>2. <<m[x]>> \in Seq(Nat)
        BY <4>1
      <4>3. PacketsOf(m, y, b) \in Seq(Nat \ {0})
        BY <3>1, PacketsType
      <4>4. Seq(Nat \ {0}) \subseteq Seq(Nat)
        OBVIOUS
      <4>5. QED BY <1>0, <4>2, <4>3, <4>4
    <3>11. (<<m[x]>> \o PacketsOf(m, y, b)) \o PacketsOf(w, b, c)
             = <<m[x]>> \o (PacketsOf(m, y, b) \o PacketsOf(w, b, c))
      <4> DEFINE f == <<m[x]>>
                 g == PacketsOf(m, y, b)
                 h == PacketsOf(w, b, c)
      <4>1. f \in Seq(Nat) /\ g \in Seq(Nat) /\ h \in Seq(Nat)
        BY <3>10
      <4> HIDE DEF f, g, h
      <4>2. (f \o g) \o h = f \o (g \o h)
        BY <4>1, ConcatThree
      <4>3. QED BY <4>2 DEF f, g, h
    <3>12. QED BY <3>5, <3>9, <3>11
  <2>3. QED BY <2>1, <2>2
<1>2. \A k \in Nat : (\A j \in Nat : j < k => j \in T) => k \in T
  BY <1>1
<1>3. Nat \subseteq T
  <2> HIDE DEF T
  <2>1. QED BY <1>2, InductBelow
<1>4. Dist(a, b) \in T
  <2>1. Dist(a, b) \in Nat
    BY DistType
  <2> HIDE DEF T
  <2>2. QED BY <2>1, <1>3
<1>5. QED BY <1>4

LEMMA PacketsSplit ==
  ASSUME NEW m, m \in [Offset -> Nat],
         NEW a \in Offset, NEW b \in Offset, NEW c \in Offset,
         Chain(m, a, b), Chain(m, b, c), Dist(a, b) + Dist(b, c) < BufLen
  PROVE  PacketsOf(m, a, c) = PacketsOf(m, a, b) \o PacketsOf(m, b, c)
<1>1. Same(m, m, a, b)
  BY DEF Same
<1>2. \A w \in [Offset -> Nat] : Same(w, m, a, b) /\ Chain(w, a, b)
        => PacketsOf(m, a, c) = PacketsOf(w, a, b) \o PacketsOf(m, b, c)
  BY PacketsJoin
<1>3. QED BY <1>1, <1>2

(* Packets depend on the memory of their chain only.                        *)
LEMMA PacketsFrame ==
  ASSUME NEW m, m \in [Offset -> Nat], NEW w, w \in [Offset -> Nat],
         NEW a \in Offset, NEW b \in Offset,
         Chain(m, a, b), Same(m, w, a, b)
  PROVE  PacketsOf(w, a, b) = PacketsOf(m, a, b)
<1>1. PacketsOf(w, b, b) = <<>>
  BY PacketsEmpty
<1>2. PacketsOf(w, a, b) = PacketsOf(m, a, b) \o PacketsOf(w, b, b)
  <2>1. Chain(w, b, b)
    BY ChainEmpty
  <2>2. Dist(a, b) + Dist(b, b) < BufLen
    BY DistType
  <2>3. \A c \in Offset : Chain(w, b, c) /\ Dist(a, b) + Dist(b, c) < BufLen
                           => PacketsOf(w, a, c) = PacketsOf(m, a, b) \o PacketsOf(w, b, c)
    BY PacketsJoin
  <2>4. QED BY <2>1, <2>2, <2>3
<1>3. PacketsOf(m, a, b) \in Seq(Nat \ {0})
  BY PacketsType
<1>4. QED BY <1>1, <1>2, <1>3, ConcatEmptySeq

-----------------------------------------------------------------------------
(* The pointers from the read tail on, and the memory between them. *)

LEMMA Line ==
  ASSUME IInv
  PROVE  /\ {rdHead, rdTail, wrHead, wrTail, hwRp, hwWp, Top} \subseteq Offset
         /\ mem \in [Offset -> Nat]
         /\ Dist(rdTail, rdHead) \in Nat /\ Dist(rdHead, wrTail) \in Nat
         /\ Dist(wrTail, wrHead) \in Nat /\ Dist(wrHead, Top) \in Nat
         /\ Dist(rdTail, rdHead) + Dist(rdHead, wrTail) + Dist(wrTail, wrHead)
              + Dist(wrHead, Top) + Rsv <= BufLen
         /\ Dist(rdTail, wrTail) = Dist(rdTail, rdHead) + Dist(rdHead, wrTail)
         /\ Dist(rdTail, wrHead) = Dist(rdTail, wrTail) + Dist(wrTail, wrHead)
         /\ BufLen \in Nat /\ Rsv \in Nat \ {0} /\ Headers \in Nat
<1>1. /\ {rdHead, rdTail, wrHead, wrTail, hwRp, hwWp, Top} \subseteq Offset
      /\ mem \in [Offset -> Nat]
  BY VencStreamAssumption DEF IInv, TypeOK, Top
<1>2. /\ Dist(rdTail, rdHead) \in Nat /\ Dist(rdHead, wrTail) \in Nat
      /\ Dist(wrTail, wrHead) \in Nat /\ Dist(wrHead, Top) \in Nat
  BY <1>1, DistType
<1> DEFINE d(x) == Dist(Base, x)
<1>3. /\ d(rdTail) \in Nat /\ d(rdHead) \in Nat /\ d(wrTail) \in Nat /\ d(wrHead) \in Nat
      /\ d(Top) \in Nat /\ d(Top) + Rsv <= BufLen
      /\ Dist(rdTail, rdHead) = d(rdHead) - d(rdTail)
      /\ Dist(rdTail, wrTail) = d(wrTail) - d(rdTail)
      /\ Dist(rdTail, wrHead) = d(wrHead) - d(rdTail)
      /\ Dist(rdHead, wrTail) = d(wrTail) - d(rdHead)
      /\ Dist(wrTail, wrHead) = d(wrHead) - d(wrTail)
      /\ Dist(wrHead, Top) = d(Top) - d(wrHead)
  BY Rebased DEF IInv, Ordered
<1>4. BufLen \in Nat /\ Rsv \in Nat \ {0} /\ Headers \in Nat
  BY VencStreamAssumption
<1> HIDE DEF d
<1>5. /\ Dist(rdTail, rdHead) + Dist(rdHead, wrTail) + Dist(wrTail, wrHead)
           + Dist(wrHead, Top) + Rsv <= BufLen
      /\ Dist(rdTail, wrTail) = Dist(rdTail, rdHead) + Dist(rdHead, wrTail)
      /\ Dist(rdTail, wrHead) = Dist(rdTail, wrTail) + Dist(wrTail, wrHead)
  BY <1>3, <1>4
<1>6. QED BY <1>1, <1>2, <1>4, <1>5

LEMMA LineTop ==
  ASSUME IInv, wrHead = wrTail
  PROVE  Top \in Offset /\ Dist(rdTail, wrTail) + Dist(wrTail, Top) < BufLen
<1>1. /\ Dist(rdTail, rdHead) \in Nat /\ Dist(rdHead, wrTail) \in Nat
      /\ Dist(wrTail, wrHead) \in Nat /\ Dist(wrHead, Top) \in Nat
      /\ Dist(rdTail, rdHead) + Dist(rdHead, wrTail) + Dist(wrTail, wrHead)
           + Dist(wrHead, Top) + Rsv <= BufLen
      /\ Dist(rdTail, wrTail) = Dist(rdTail, rdHead) + Dist(rdHead, wrTail)
      /\ BufLen \in Nat /\ Rsv \in Nat \ {0} /\ Top \in Offset
  BY Line
<1>2. Dist(rdTail, wrTail) + Dist(wrHead, Top) < BufLen
  BY <1>1
<1>3. QED BY <1>1, <1>2

(* A step of the writers leaves what is between the read tail and the write *)
(* tail, so the packets there and those the user holds stay.                *)
LEMMA ReadersKeep ==
  ASSUME IInv, PInv, mem' \in [Offset -> Nat], Same(mem, mem', rdTail, wrTail),
         UNCHANGED <<rdHead, rdTail, held>>
  PROVE  /\ Chain(mem', rdTail, rdHead) /\ Chain(mem', rdHead, wrTail)
         /\ PacketsOf(mem', rdHead, wrTail) = PacketsOf(mem, rdHead, wrTail)
         /\ HeldChain'
<1>1. /\ {rdHead, rdTail, wrTail} \subseteq Offset /\ mem \in [Offset -> Nat]
      /\ Dist(rdTail, rdHead) + Dist(rdHead, wrTail) < BufLen
  BY Line
<1>2. Same(mem, mem', rdTail, rdHead) /\ Same(mem, mem', rdHead, wrTail)
  <2>1. Between(rdTail, wrTail) = Between(rdTail, rdHead) \cup Between(rdHead, wrTail)
    BY <1>1, BetweenSplit
  <2>2. QED BY <2>1 DEF Same
<1>3. Chain(mem', rdTail, rdHead) /\ Chain(mem', rdHead, wrTail)
  BY <1>1, <1>2, ChainFrame DEF PInv
<1>4. PacketsOf(mem', rdHead, wrTail) = PacketsOf(mem, rdHead, wrTail)
  BY <1>1, <1>2, PacketsFrame DEF PInv
<1>5. ASSUME NEW i \in DOMAIN held
      PROVE  mem'[held[i].at] = held[i].len
  <2>1. held[i].at \in Offset /\ held[i].len \in Nat
    <3>1. held \in Seq(Packet) /\ i \in 1..Len(held)
      BY DEF IInv, TypeOK
    <3>2. held[i] \in Packet
      BY <3>1, ElementOfSeq
    <3>3. QED BY <3>2, VencStreamAssumption DEF Packet
  <2>2. /\ held[i].len # 0 /\ mem[held[i].at] = held[i].len
        /\ Dist(rdTail, held[i].at) + held[i].len <= Dist(rdTail, rdHead)
    BY DEF PInv, HeldChain
  <2>3. held[i].at \in Between(rdTail, rdHead)
    BY <1>1, <2>1, <2>2, DistType DEF Between
  <2>4. QED BY <1>2, <2>2, <2>3 DEF Same
<1>6. HeldChain'
  BY <1>5 DEF PInv, HeldChain, Dist
<1>7. QED BY <1>3, <1>4, <1>6

-----------------------------------------------------------------------------
(* What a step does to the queue of packets. *)

LEMMA ReadyIs ==
  /\ Packets(rdHead, wrTail) = PacketsOf(mem, rdHead, wrTail)
  /\ Packets(rdHead, wrTail)' = PacketsOf(mem', rdHead', wrTail')
BY DEF Packets, PacketsOf, Row, More, Between, Dist

QueueStep == [Fifo!Next]_(Fifo!pvars)

LEMMA QueueStutters ==
  ASSUME PacketsOf(mem', rdHead', wrTail') = PacketsOf(mem, rdHead, wrTail), held' = held
  PROVE  QueueStep
BY ReadyIs DEF QueueStep, Fifo!pvars, Lens

(* Whole packets are added behind the write tail, or nothing is.            *)
LEMMA QueueGrows ==
  ASSUME NEW more \in Seq(Nat), held' = held, PacketsOf(mem, rdHead, wrTail) \in Seq(Nat),
         PacketsOf(mem', rdHead', wrTail') = PacketsOf(mem, rdHead, wrTail) \o more
  PROVE  QueueStep
<1> DEFINE r == PacketsOf(mem, rdHead, wrTail)
           rr == PacketsOf(mem', rdHead', wrTail')
<1>1. CASE more = <<>>
  <2>1. rr = r
    BY <1>1, ConcatEmptySeq
  <2>2. QED BY <2>1, QueueStutters
<1>2. CASE more # <<>>
  <2>1. r \in Seq(Nat) /\ rr = r \o more /\ Len(more) \in Nat \ {0} /\ Len(r) \in Nat
    BY <1>2, EmptySeq, LenProperties
  <2> HIDE DEF r, rr
  <2>2. rr \in Seq(Nat) /\ Len(rr) = Len(r) + Len(more)
        /\ \A i \in 1..Len(r) : rr[i] = r[i]
    BY <2>1, ConcatProperties
  <2>3. SubSeq(r, 1, Len(r)) = SubSeq(rr, 1, Len(r))
    BY <2>1, <2>2
  <2>4. Fifo!IsStrictPrefix(r, rr)
    BY <2>1, <2>2, <2>3 DEF Fifo!IsStrictPrefix, Fifo!IsPrefix
  <2>5. Fifo!HandOver
    <3>1. Packets(rdHead, wrTail) = r /\ Packets(rdHead, wrTail)' = rr
      BY ReadyIs DEF r, rr
    <3>2. Fifo!IsStrictPrefix(Packets(rdHead, wrTail), Packets(rdHead, wrTail)')
      BY <2>4, <3>1
    <3>3. Lens(held)' = Lens(held)
      BY DEF Lens
    <3>4. QED BY <3>2, <3>3 DEF Fifo!HandOver
  <2>6. QED BY <2>5 DEF QueueStep, Fifo!Next
<1>3. QED BY <1>1, <1>2

-----------------------------------------------------------------------------
(* The steps of the writers. *)

LEMMA WritersKeep ==
  ASSUME IInv, PInv, Next, UNCHANGED <<rdHead, rdTail, held>>
  PROVE  /\ mem' \in [Offset -> Nat] /\ Same(mem, mem', rdTail, wrHead)
         /\ Chain(mem', rdTail, rdHead) /\ Chain(mem', rdHead, wrTail)
         /\ PacketsOf(mem', rdHead, wrTail) = PacketsOf(mem, rdHead, wrTail)
         /\ HeldChain'
<1>1. mem' \in [Offset -> Nat]
  <2>1. mem' \in [Offset -> 0..BufLen]
    BY Inductive DEF IInv, TypeOK
  <2>2. QED BY <2>1, VencStreamAssumption
<1>2. Same(mem, mem', rdTail, wrHead)
  <2>1. Between(rdTail, rdTail') = {}
    BY Line, ChainEmpty
  <2>2. QED BY <2>1, Untouched DEF Same
<1>3. Between(rdTail, wrTail) \subseteq Between(rdTail, wrHead)
  <2>1. /\ Dist(rdTail, wrTail) \in Nat /\ Dist(rdTail, wrTail) <= Dist(rdTail, wrHead)
        /\ Dist(rdTail, wrHead) \in Nat /\ rdTail \in Offset
    BY Line
  <2>2. \A u \in Offset : Dist(rdTail, u) \in Nat
    BY <2>1, DistType
  <2>3. QED BY <2>1, <2>2 DEF Between
<1>4. Same(mem, mem', rdTail, wrTail)
  BY <1>2, <1>3 DEF Same
<1>5. QED BY <1>1, <1>2, <1>4, ReadersKeep

(* The queue grows by the packets from the write tail up to offset c, where *)
(* the write tail is put.                                                   *)
LEMMA HandsOver ==
  ASSUME IInv, PInv, Next, UNCHANGED <<rdHead, rdTail, held>>,
         NEW c \in Offset, wrTail' = c,
         Chain(mem', wrTail, c), Dist(rdTail, wrTail) + Dist(wrTail, c) < BufLen
  PROVE  /\ Chain(mem', rdTail', rdHead') /\ Chain(mem', rdHead', wrTail') /\ HeldChain'
         /\ QueueStep
<1>1. /\ mem' \in [Offset -> Nat] /\ mem \in [Offset -> Nat]
      /\ rdHead \in Offset /\ wrTail \in Offset /\ rdTail \in Offset
      /\ Chain(mem', rdTail, rdHead) /\ Chain(mem', rdHead, wrTail) /\ HeldChain'
      /\ PacketsOf(mem', rdHead, wrTail) = PacketsOf(mem, rdHead, wrTail)
  BY WritersKeep, Line
<1>2. Dist(rdHead, wrTail) + Dist(wrTail, c) < BufLen
  <2>1. Dist(rdTail, rdHead) \in Nat /\ Dist(rdHead, wrTail) \in Nat /\ BufLen \in Nat
        /\ Dist(rdTail, wrTail) = Dist(rdTail, rdHead) + Dist(rdHead, wrTail)
    BY Line
  <2>2. Dist(wrTail, c) \in Nat
    BY <1>1, DistType
  <2>3. QED BY <2>1, <2>2
<1>3. Chain(mem', rdHead, c)
  BY <1>1, <1>2, ChainJoin
<1>4. /\ PacketsOf(mem', rdHead, wrTail) \in Seq(Nat \ {0})
      /\ PacketsOf(mem', wrTail, c) \in Seq(Nat \ {0})
  BY <1>1, PacketsType
<1>5. PacketsOf(mem', rdHead, c) = PacketsOf(mem', rdHead, wrTail) \o PacketsOf(mem', wrTail, c)
  BY <1>1, <1>2, PacketsSplit
<1>6. QueueStep
  <2>1. PacketsOf(mem', rdHead', wrTail') = PacketsOf(mem, rdHead, wrTail) \o PacketsOf(mem', wrTail, c)
    BY <1>1, <1>5
  <2>2. PacketsOf(mem', wrTail, c) \in Seq(Nat) /\ PacketsOf(mem, rdHead, wrTail) \in Seq(Nat)
    <3>1. Seq(Nat \ {0}) \subseteq Seq(Nat)
      OBVIOUS
    <3>2. QED BY <1>1, <1>4, <3>1
  <2>3. QED BY <2>1, <2>2, QueueGrows
<1>7. QED BY <1>1, <1>3, <1>6

LEMMA OthersQueue ==
  ASSUME HeadersFit, IInv, PInv, (\E i \in BOOLEAN : RcFrmRateCtrl(i)) \/ UNCHANGED vars
  PROVE  PInv' /\ QueueStep
<1>1. /\ UNCHANGED <<rdHead, rdTail, wrHead, wrTail, mem, busy, hwWp, held>>
      /\ (step' = step \/ (step = -1 /\ step' \in {0, Headers} /\ (step' = 0 => FreeLen >= Headers)))
  <2>1. CASE UNCHANGED vars
    BY <2>1 DEF vars, pointers, encoder
  <2>2. ASSUME NEW i \in BOOLEAN, RcFrmRateCtrl(i)
        PROVE  /\ UNCHANGED <<rdHead, rdTail, wrHead, wrTail, mem, busy, hwWp, held>>
               /\ step = -1 /\ step' \in {0, Headers} /\ (step' = 0 => FreeLen >= Headers)
    <3>1. /\ UNCHANGED <<rdHead, rdTail, wrHead, wrTail, mem, busy, hwWp, held>>
          /\ step = -1 /\ step' \in {0, Headers}
      BY <2>2 DEF RcFrmRateCtrl, pointers, encoder
    <3>2. FreeLen \in Int
      <4>1. rdTail \in Offset /\ wrHead \in Offset
        BY Line
      <4>2. QED BY <4>1, VencStreamAssumption DEF FreeLen, Sub, Offset
    <3>3. FreeLen >= Headers
      BY <2>2, <3>2, VencStreamAssumption DEF RcFrmRateCtrl, HeadersFit
    <3>4. QED BY <3>1, <3>3
  <2>3. QED BY <2>1, <2>2
<1>2. Chain(mem', rdTail', rdHead') /\ Chain(mem', rdHead', wrTail') /\ HeldChain'
      /\ (busy' => Chain(mem', wrHead', hwWp'))
  BY <1>1 DEF PInv, HeldChain, Dist
<1>3. CASE step' = step
  <2>1. Started' = Started
    BY <1>1, <1>3 DEF Started, Between, Dist, Offset
  <2>2. QED BY <1>1, <1>2, <1>3, <2>1, QueueStutters DEF PInv
<1>4. CASE step = -1 /\ step' \in {0, Headers} /\ (step' = 0 => FreeLen >= Headers)
  <2>1. wrHead = wrTail /\ step' # -1
    BY <1>4, Line DEF PInv
  <2>2. CASE step' = Headers
    BY <1>1, <1>2, <2>1, <2>2, QueueStutters DEF PInv, Started
  <2>3. CASE step' = 0
    <3>1. Dist(rdTail, wrHead) + Headers + Rsv <= BufLen
      <4>1. Dist(rdTail, wrHead) + Rsv <= BufLen /\ Dist(rdTail, wrHead) \in Nat
        BY Line
      <4>2. FreeLen = BufLen - Rsv - Dist(rdTail, wrHead)
        BY <4>1, Line, FreeLenExact
      <4>3. QED BY <1>4, <2>3, <4>1, <4>2, Line
    <3>2. Dist(wrTail, wrHead) = 0 /\ Between(wrTail, wrHead) = {}
      BY <2>1, Line, ChainEmpty, DistType
    <3>3. Started'
      <4>1. Dist(wrTail, wrHead)' = 0 /\ Between(wrTail, wrHead)' = {}
            /\ Dist(rdTail, wrHead)' + (Headers - 0) + Rsv <= BufLen
        BY <1>1, <3>1, <3>2, Line DEF Between, Dist
      <4>2. QED BY <2>3, <4>1 DEF Started
    <3>4. QED BY <1>1, <1>2, <2>1, <3>3, QueueStutters DEF PInv
  <2>4. QED BY <1>4, <2>2, <2>3
<1>5. QED BY <1>1, <1>3, <1>4

LEMMA WriteHeaderQueue ==
  ASSUME HeadersFit, IInv, PInv, WriteHeader
  PROVE  PInv' /\ QueueStep
<1>1. /\ Next /\ UNCHANGED <<rdHead, rdTail, wrTail, held, busy>> /\ step' = step + 1
      /\ step \in 0..(Headers - 1)
  BY DEF Next, WriteHeader, encoder
<1>2. /\ Chain(mem', rdTail, rdHead) /\ Chain(mem', rdHead, wrTail) /\ HeldChain'
      /\ PacketsOf(mem', rdHead, wrTail) = PacketsOf(mem, rdHead, wrTail)
  BY <1>1, WritersKeep
<1>3. /\ rdTail \in Offset /\ wrTail \in Offset /\ wrHead \in Offset /\ mem \in [Offset -> Nat]
      /\ BufLen \in Nat /\ Headers \in Nat /\ Rsv \in Nat \ {0}
      /\ Dist(rdTail, wrHead) \in Nat /\ Dist(wrTail, wrHead) \in Nat
      /\ Dist(wrTail, wrHead) <= Dist(rdTail, wrHead)
  BY Line
<1>4. /\ Dist(wrTail, wrHead) = step
      /\ \A v \in Between(wrTail, wrHead) : mem[v] = HeaderUnit(Dist(wrTail, v))
      /\ Dist(rdTail, wrHead) + (Headers - step) + Rsv <= BufLen
  <2>1. Started /\ step # Headers /\ step # -1
    BY <1>1, <1>3 DEF PInv
  <2>2. QED BY <2>1 DEF Started
<1>5. FreeLen >= 1
  <2>1. Dist(rdTail, wrHead) + Rsv <= BufLen
    BY <1>1, <1>3, <1>4
  <2>2. FreeLen = BufLen - Rsv - Dist(rdTail, wrHead)
    BY <1>3, <2>1, FreeLenExact
  <2>3. QED BY <1>1, <1>3, <1>4, <2>2
<1>6. wrHead' = Turn(wrHead + 1) /\ mem' = [mem EXCEPT ![wrHead] = HeaderUnit(step)]
  BY <1>5 DEF WriteHeader
<1>7. /\ Dist(wrTail, wrHead) + 1 < BufLen /\ Dist(rdTail, wrHead) + 1 < BufLen
  BY <1>1, <1>3, <1>4
<1>8. /\ wrHead' \in Offset
      /\ Dist(wrTail, wrHead') = step + 1 /\ Dist(rdTail, wrHead') = Dist(rdTail, wrHead) + 1
  BY <1>3, <1>4, <1>6, <1>7, DistTurn
<1>9. ASSUME NEW v \in Between(wrTail, wrHead')
      PROVE  mem'[v] = HeaderUnit(Dist(wrTail, v))
  <2>1. v \in Offset /\ Dist(wrTail, v) \in Nat /\ Dist(wrTail, v) < step + 1
    BY <1>3, <1>8, DistType DEF Between
  <2>2. CASE v = wrHead
    BY <1>3, <1>4, <1>6, <2>2
  <2>3. CASE v # wrHead
    <3>1. Dist(wrTail, v) # step
      BY <1>3, <1>4, <2>1, <2>3, SameDist
    <3>2. v \in Between(wrTail, wrHead)
      BY <1>1, <1>4, <2>1, <3>1 DEF Between
    <3>3. QED BY <1>3, <1>4, <1>6, <2>1, <2>3, <3>2
  <2>4. QED BY <2>2, <2>3
<1>10. Started'
  <2>1. Dist(wrTail, wrHead)' = step' /\ Dist(rdTail, wrHead)' + (Headers - step') + Rsv <= BufLen
    BY <1>1, <1>3, <1>4, <1>8 DEF Dist
  <2>2. \A v \in Between(wrTail, wrHead)' : mem'[v] = HeaderUnit(Dist(wrTail, v)')
    BY <1>1, <1>9 DEF Dist, Between
  <2>3. QED BY <2>1, <2>2 DEF Started
<1>11. ~busy' /\ step' # -1
  BY <1>1, <1>3 DEF IInv
<1>12. QueueStep
  BY <1>1, <1>2, QueueStutters
<1>13. QED BY <1>1, <1>2, <1>10, <1>11, <1>12 DEF PInv

(* The headers of a frame that has all of them are whole packets.           *)
LEMMA HeadersChain ==
  ASSUME HeadersFit, IInv, Started, step = Headers
  PROVE  Chain(mem, wrTail, wrHead)
<1>1. wrTail \in Offset /\ wrHead \in Offset /\ mem \in [Offset -> Nat]
      /\ BufLen \in Nat /\ Headers \in Nat
  BY Line
<1>2. CASE wrHead = wrTail
  BY <1>1, <1>2, ChainEmpty
<1>3. CASE wrHead # wrTail
  <2>1. /\ Dist(wrTail, wrHead) = Headers /\ Headers # 0 /\ Headers < BufLen
        /\ \A v \in Between(wrTail, wrHead) : mem[v] = HeaderUnit(Dist(wrTail, v))
    BY <1>1, <1>3, SameOffset, DistType DEF Started
  <2>2. ASSUME NEW v \in Offset, Dist(wrTail, v) < Headers
        PROVE  mem[v] = HeaderUnit(Dist(wrTail, v))
    BY <2>1, <2>2 DEF Between
  <2>3. mem[wrTail] # 0
    <3>1. Dist(wrTail, wrTail) = 0
      BY <1>1, DistType
    <3>2. QED BY <1>1, <2>1, <2>2, <3>1 DEF HeaderUnit
  <2>4. ASSUME NEW u \in Between(wrTail, wrHead), mem[u] # 0
        PROVE  /\ mem[u] <= Dist(u, wrHead)
               /\ \A v \in Offset : Dist(u, v) \in 1..(mem[u] - 1) => mem[v] = 0
               /\ Turn(u + mem[u]) # wrHead => mem[Turn(u + mem[u])] # 0
    <3> DEFINE k == Dist(wrTail, u)
    <3>1. u \in Offset /\ k \in Nat /\ k < Headers /\ mem[u] = HeaderUnit(k)
      BY <1>1, <2>1, DistType DEF Between
    <3>2. mem[u] = 2 /\ k % 2 = 0
      BY <3>1, <2>4 DEF HeaderUnit
    <3>3. k + 2 <= Headers
      <4> HIDE DEF k
      <4>1. QED BY <1>1, <3>1, <3>2 DEF HeadersFit
    <3>4. Dist(u, wrHead) = Headers - k
      <4>1. Dist(wrTail, u) <= Dist(wrTail, wrHead)
        BY <1>1, <2>1, <3>1
      <4>2. QED BY <1>1, <2>1, <3>1, <4>1, DistBetween
    <3>5. ASSUME NEW v \in Offset, Dist(u, v) \in 1..(mem[u] - 1)
          PROVE  mem[v] = 0
      <4>1. Dist(u, v) = 1
        BY <3>2, <3>5
      <4>2. Dist(wrTail, v) = k + 1
        <5>1. Dist(wrTail, u) + Dist(u, v) < BufLen
          BY <1>1, <2>1, <3>1, <3>3, <4>1
        <5>2. QED BY <1>1, <3>1, <4>1, <5>1, DistAdd
      <4>3. (k + 1) % 2 # 0
        <5> HIDE DEF k
        <5>1. QED BY <3>1, <3>2
      <4>4. mem[v] = HeaderUnit(k + 1)
        BY <1>1, <2>2, <3>1, <3>3, <4>2
      <4>5. QED BY <4>3, <4>4 DEF HeaderUnit
    <3>6. ASSUME Turn(u + 2) # wrHead
          PROVE  mem[Turn(u + 2)] # 0
      <4> DEFINE v == Turn(u + 2)
      <4>1. v \in Offset /\ Dist(u, v) = 2 /\ Dist(v, wrHead) = Headers - k - 2
        <5>1. 2 \in 0..Dist(u, wrHead)
          BY <1>1, <3>1, <3>3, <3>4
        <5>2. QED BY <1>1, <3>1, <3>4, <5>1, Onward
      <4>2. k + 2 # Headers
        BY <1>1, <3>1, <3>6, <4>1, SameOffset
      <4>3. Dist(wrTail, v) = k + 2
        <5>1. Dist(wrTail, u) + Dist(u, v) < BufLen
          BY <1>1, <2>1, <3>1, <3>3, <4>1
        <5>2. QED BY <1>1, <3>1, <4>1, <5>1, DistAdd
      <4>4. (k + 2) % 2 = 0
        <5> HIDE DEF k
        <5>1. QED BY <3>1, <3>2
      <4>5. mem[v] = HeaderUnit(k + 2)
        BY <1>1, <2>2, <3>1, <3>3, <4>1, <4>2, <4>3
      <4>6. QED BY <4>4, <4>5 DEF HeaderUnit
    <3>7. QED BY <1>1, <3>1, <3>2, <3>3, <3>4, <3>5, <3>6
  <2>5. QED BY <2>3, <2>4 DEF Chain
<1>4. QED BY <1>2, <1>3

LEMMA StartQueue ==
  ASSUME HeadersFit, IInv, PInv, StartOneFrame
  PROVE  PInv' /\ QueueStep
<1>1. /\ Next /\ UNCHANGED <<rdHead, rdTail, wrHead, mem, held>>
      /\ wrTail' = wrHead /\ hwWp' = wrHead /\ busy' /\ step' = -1 /\ step = Headers
  BY DEF Next, StartOneFrame, Kick
<1>2. /\ wrHead \in Offset /\ Headers \in Nat
      /\ Dist(rdTail, wrTail) + Dist(wrTail, wrHead) < BufLen
  BY Line
<1>3. Chain(mem', wrTail, wrHead)
  BY <1>1, <1>2, HeadersChain DEF PInv
<1>4. /\ Chain(mem', rdTail', rdHead') /\ Chain(mem', rdHead', wrTail') /\ HeldChain'
      /\ QueueStep
  BY <1>1, <1>2, <1>3, HandsOver
<1>5. Chain(mem', wrHead', hwWp')
  BY <1>1, <1>2, ChainEmpty
<1>6. QED BY <1>1, <1>4, <1>5 DEF PInv

LEMMA HwWriteQueue ==
  ASSUME IInv, PInv, NEW n \in PacketLen, HwWrite(n)
  PROVE  PInv' /\ QueueStep
<1>1. /\ Next /\ UNCHANGED <<rdHead, rdTail, wrHead, wrTail, step, held>>
      /\ busy /\ busy' /\ step = -1
  BY DEF Next, HwWrite, pointers, IInv
<1>2. /\ Chain(mem', rdTail, rdHead) /\ Chain(mem', rdHead, wrTail) /\ HeldChain'
      /\ PacketsOf(mem', rdHead, wrTail) = PacketsOf(mem, rdHead, wrTail)
      /\ mem' \in [Offset -> Nat] /\ mem \in [Offset -> Nat]
  BY <1>1, WritersKeep, Line
<1>3. /\ wrHead \in Offset /\ hwWp \in Offset /\ BufLen \in Nat /\ Rsv \in Nat \ {0}
      /\ n \in Nat \ {0} /\ n < BufLen
      /\ Dist(wrHead, hwWp) \in Nat /\ Dist(wrHead, hwWp) + n < BufLen
  <2>1. wrHead \in Offset /\ hwWp \in Offset /\ BufLen \in Nat /\ Rsv \in Nat \ {0}
    BY Line
  <2>2. n \in Nat \ {0} /\ Dist(hwRp, hwWp) + n + Rsv <= BufLen
    BY HwWriteFits, VencStreamAssumption
  <2>3. /\ Dist(wrHead, hwWp) = Dist(hwRp, hwWp) - Dist(hwRp, wrHead)
        /\ Dist(hwRp, hwWp) \in Nat /\ Dist(hwRp, wrHead) \in Nat
    BY <1>1, Rebased DEF Base, Top
  <2>4. Dist(wrHead, hwWp) \in Nat
    BY <2>1, DistType
  <2>5. QED BY <2>1, <2>2, <2>3, <2>4
<1>4. /\ mem'[hwWp] = n
      /\ \A v \in Offset : Dist(hwWp, v) \in 1..(n - 1) => mem'[v] = 0
      /\ \A v \in Offset : ~(Dist(hwWp, v) < n) => mem'[v] = mem[v]
  <2>1. mem' = [u \in Offset |-> IF u = hwWp THEN n
                                 ELSE IF Dist(hwWp, u) < n THEN 0 ELSE mem[u]]
    BY DEF HwWrite
  <2>2. Dist(hwWp, hwWp) = 0 /\ \A v \in Offset : Dist(hwWp, v) \in Nat
    BY <1>3, DistType
  <2>3. QED BY <1>3, <2>1, <2>2
<1>5. Same(mem, mem', wrHead, hwWp)
  <2>1. ASSUME NEW u \in Offset, Dist(wrHead, u) < Dist(wrHead, hwWp)
        PROVE  ~(Dist(hwWp, u) < n)
    <3>1. Dist(hwWp, u) = BufLen - (Dist(wrHead, hwWp) - Dist(wrHead, u))
      BY <1>3, <2>1, DistBack
    <3>2. Dist(wrHead, u) \in Nat
      BY <1>3, DistType
    <3>3. QED BY <1>3, <2>1, <3>1, <3>2
  <2>2. QED BY <1>4, <2>1 DEF Same, Between
<1>6. Chain(mem', wrHead, hwWp)
  BY <1>1, <1>2, <1>3, <1>5, ChainFrame DEF PInv
<1>7. Chain(mem', hwWp, Turn(hwWp + n))
  BY <1>3, <1>4, ChainOne
<1>8. Turn(hwWp + n) \in Offset /\ Dist(hwWp, Turn(hwWp + n)) = n
  <2>1. Dist(hwWp, hwWp) = 0 /\ Dist(hwWp, hwWp) + n < BufLen /\ n \in Nat
    BY <1>3, DistType
  <2>2. QED BY <1>3, <2>1, DistTurn
<1>9. Chain(mem', wrHead, Turn(hwWp + n))
  BY <1>2, <1>3, <1>6, <1>7, <1>8, ChainJoin
<1>10. Chain(mem', wrHead', hwWp')
  BY <1>1, <1>9 DEF HwWrite
<1>11. QueueStep
  BY <1>1, <1>2, QueueStutters
<1>12. wrHead' = wrTail' /\ step' = -1
  BY <1>1 DEF PInv
<1>13. QED BY <1>1, <1>2, <1>10, <1>11, <1>12 DEF PInv

(* The end of a slice hands over all the encoder has written.               *)
LEMMA SliceQueue ==
  ASSUME IInv, PInv, EndOneSlice
  PROVE  PInv' /\ QueueStep
<1>1. /\ Next /\ UNCHANGED <<rdHead, rdTail, mem, held, busy, hwWp, step>>
      /\ wrTail' = hwWp /\ wrHead' = hwWp /\ busy /\ step = -1 /\ wrHead = wrTail
  BY DEF Next, EndOneSlice, encoder, IInv, PInv
<1>2. /\ hwWp \in Offset /\ Dist(rdTail, wrTail) + Dist(wrTail, hwWp) < BufLen
  <2>1. Top = hwWp
    BY <1>1 DEF Top
  <2>2. QED BY <1>1, <2>1, LineTop
<1>3. Chain(mem', wrTail, hwWp)
  BY <1>1 DEF PInv
<1>4. /\ Chain(mem', rdTail', rdHead') /\ Chain(mem', rdHead', wrTail') /\ HeldChain'
      /\ QueueStep
  BY <1>1, <1>2, <1>3, HandsOver
<1>5. Chain(mem', wrHead', hwWp')
  BY <1>1, <1>2, ChainEmpty
<1>6. QED BY <1>1, <1>4, <1>5 DEF PInv

(* The end of a frame hands over what is left of it, or takes it back.      *)
LEMMA FrameQueue ==
  ASSUME IInv, PInv, NEW full \in BOOLEAN, NEW over \in BOOLEAN, NEW wp \in Offset,
         EndOneFrame(full, over, wp)
  PROVE  PInv' /\ QueueStep
<1>1. /\ Next /\ UNCHANGED <<rdHead, rdTail, held, step>>
      /\ busy /\ ~busy' /\ step = -1 /\ wrHead = wrTail
  BY DEF Next, EndOneFrame, IInv, PInv
<1>2. /\ wrHead' \in {wrHead, hwWp} /\ wrTail' = wrHead'
      /\ mem' = Forget(Between(wrHead', hwWp))
  BY <1>1 DEF EndOneFrame
<1>3. /\ hwWp \in Offset /\ wrHead \in Offset /\ mem \in [Offset -> Nat]
      /\ Dist(rdTail, wrTail) + Dist(wrTail, hwWp) < BufLen
      /\ Dist(rdTail, wrTail) \in Nat /\ BufLen \in Nat
  <2>1. Top = hwWp
    BY <1>1 DEF Top
  <2>2. /\ hwWp \in Offset /\ wrHead \in Offset /\ mem \in [Offset -> Nat]
        /\ rdTail \in Offset /\ wrTail \in Offset /\ BufLen \in Nat
    BY Line
  <2>3. QED BY <1>1, <2>1, <2>2, LineTop, DistType
<1>4. CASE wrHead' = hwWp
  <2>1. mem' = mem
    <3>1. Between(hwWp, hwWp) = {}
      BY <1>3, ChainEmpty
    <3>2. QED BY <1>2, <1>3, <1>4, <3>1 DEF Forget
  <2>2. Chain(mem', wrTail, hwWp)
    BY <1>1, <2>1 DEF PInv
  <2>3. /\ Chain(mem', rdTail', rdHead') /\ Chain(mem', rdHead', wrTail') /\ HeldChain'
        /\ QueueStep
    BY <1>1, <1>2, <1>3, <1>4, <2>2, HandsOver
  <2>4. QED BY <1>1, <1>2, <2>3 DEF PInv
<1>5. CASE wrHead' = wrHead
  <2>1. Chain(mem', wrTail, wrTail) /\ Dist(wrTail, wrTail) = 0
    BY <1>1, <1>3, ChainEmpty, DistType
  <2>2. wrTail' = wrTail /\ Dist(rdTail, wrTail) + Dist(wrTail, wrTail) < BufLen
    <3>1. Dist(wrTail, hwWp) \in Nat
      BY <1>1, <1>3, DistType
    <3>2. QED BY <1>1, <1>2, <1>3, <1>5, <2>1, <3>1
  <2>3. /\ Chain(mem', rdTail', rdHead') /\ Chain(mem', rdHead', wrTail') /\ HeldChain'
        /\ QueueStep
    BY <1>1, <1>3, <2>1, <2>2, HandsOver
  <2>4. QED BY <1>1, <1>2, <2>3 DEF PInv
<1>6. QED BY <1>2, <1>4, <1>5

-----------------------------------------------------------------------------
(* The steps of the user. *)

(* What the user finds at the read head is a packet.                        *)
LEMMA HeadPacket ==
  ASSUME IInv, PInv, NEW n \in 0..BufLen, GetBitStream(n)
  PROVE  /\ n = mem[rdHead] /\ rdHead # wrTail
<1>1. rdHead \in Offset /\ wrTail \in Offset
  BY Line
<1>2. rdHead # wrTail
  BY <1>1, VencStreamAssumption DEF GetBitStream, DataLen, Offset
<1>3. mem[rdHead] # 0
  BY <1>2 DEF PInv, Chain
<1>4. QED BY <1>2, <1>3 DEF GetBitStream

LEMMA FirstOf ==
  ASSUME NEW n \in Nat, NEW s \in Seq(Nat)
  PROVE  /\ <<n>> \o s # <<>>
         /\ Head(<<n>> \o s) = n /\ Tail(<<n>> \o s) = s
<1> DEFINE r == <<n>> \o s
<1>1. <<n>> \in Seq(Nat) /\ Len(<<n>>) = 1 /\ <<n>>[1] = n /\ Len(s) \in Nat
  OBVIOUS
<1>2. /\ r \in Seq(Nat) /\ Len(r) = 1 + Len(s)
      /\ \A i \in 1..(1 + Len(s)) : r[i] = IF i <= 1 THEN <<n>>[i] ELSE s[i - 1]
  BY <1>1, ConcatProperties
<1> HIDE DEF r
<1>3. r # <<>>
  BY <1>1, <1>2
<1>4. Head(r) = n
  BY <1>1, <1>2
<1>5. Tail(r) = s
  <2>1. /\ Tail(r) \in Seq(Nat) /\ Len(Tail(r)) = Len(r) - 1
        /\ \A i \in 1..Len(Tail(r)) : Tail(r)[i] = r[i + 1]
    BY <1>2, <1>3, HeadTailProperties
  <2>2. \A i \in 1..Len(s) : r[i + 1] = s[i]
    BY <1>1, <1>2
  <2>3. Len(Tail(r)) = Len(s)
    BY <1>1, <1>2, <2>1
  <2>4. QED BY <2>1, <2>2, <2>3, SeqEqual
<1>6. QED BY <1>3, <1>4, <1>5 DEF r

LEMMA GetQueue ==
  ASSUME IInv, PInv, NEW n \in 0..BufLen, GetBitStream(n)
  PROVE  PInv' /\ QueueStep
<1> DEFINE p == [at |-> rdHead, len |-> n]
<1>1. /\ UNCHANGED <<rdTail, wrHead, wrTail, mem, step, busy, hwWp>>
      /\ held' = Append(held, p) /\ rdHead' = Turn(rdHead + n)
  BY DEF GetBitStream, encoder
<1>2. /\ rdHead \in Offset /\ wrTail \in Offset /\ rdTail \in Offset /\ mem \in [Offset -> Nat]
      /\ Dist(rdTail, rdHead) \in Nat /\ Dist(rdHead, wrTail) \in Nat /\ BufLen \in Nat
      /\ Dist(rdTail, rdHead) + Dist(rdHead, wrTail) < BufLen
      /\ n = mem[rdHead] /\ rdHead # wrTail
  <2>1. n = mem[rdHead] /\ rdHead # wrTail
    BY HeadPacket
  <2>2. QED BY <2>1, Line
<1>3. /\ n \in 1..Dist(rdHead, wrTail) /\ rdHead' \in Offset /\ Dist(rdHead, rdHead') = n
      /\ Chain(mem, rdHead, rdHead') /\ Chain(mem, rdHead', wrTail)
  BY <1>1, <1>2, ChainFirst DEF PInv
<1>4. Dist(rdTail, rdHead') = Dist(rdTail, rdHead) + n /\ Chain(mem, rdTail, rdHead')
  <2>1. Dist(rdTail, rdHead) + Dist(rdHead, rdHead') < BufLen
    BY <1>2, <1>3
  <2>2. QED BY <1>2, <1>3, <2>1, DistAdd, ChainJoin DEF PInv
<1>5. held \in Seq(Packet) /\ Len(held) \in Nat /\ n # 0
  BY <1>3 DEF IInv, TypeOK
<1>6. /\ DOMAIN held' = 1..(Len(held) + 1) /\ DOMAIN held = 1..Len(held)
      /\ \A i \in 1..Len(held) : held'[i] = held[i]
      /\ held'[Len(held) + 1] = p
  BY <1>1, <1>5
<1>7. \A i \in 1..Len(held) :
        /\ held[i].at \in Offset /\ held[i].len \in Nat
        /\ held[i].len # 0 /\ mem[held[i].at] = held[i].len
        /\ Dist(rdTail, held[i].at) \in Nat
        /\ Dist(rdTail, held[i].at) + held[i].len <= Dist(rdTail, rdHead)
  <2>1. ASSUME NEW i \in 1..Len(held)
        PROVE  held[i].at \in Offset /\ held[i].len \in Nat /\ Dist(rdTail, held[i].at) \in Nat
    <3>1. held[i] \in Packet
      BY <1>5, ElementOfSeq
    <3>2. held[i].at \in Offset /\ held[i].len \in Nat
      BY <3>1, VencStreamAssumption DEF Packet
    <3>3. QED BY <1>2, <3>2, DistType
  <2>2. QED BY <1>6, <2>1 DEF PInv, HeldChain
<1>8. HeldChain'
  <2>1. ASSUME NEW i \in DOMAIN held'
        PROVE  /\ held'[i].len # 0 /\ mem'[held'[i].at] = held'[i].len
               /\ Dist(rdTail', held'[i].at) + held'[i].len <= Dist(rdTail', rdHead')
    <3>1. CASE i \in 1..Len(held)
      <4>1. /\ held'[i] = held[i] /\ held[i].at \in Offset /\ held[i].len \in Nat
            /\ held[i].len # 0 /\ mem[held[i].at] = held[i].len
            /\ Dist(rdTail, held[i].at) \in Nat
            /\ Dist(rdTail, held[i].at) + held[i].len <= Dist(rdTail, rdHead)
        BY <3>1, <1>6, <1>7
      <4>2. Dist(rdTail, rdHead) <= Dist(rdTail, rdHead') /\ Dist(rdTail, rdHead') \in Nat
        BY <1>2, <1>3, <1>4
      <4>3. Dist(rdTail, held[i].at) + held[i].len <= Dist(rdTail, rdHead')
        BY <1>2, <4>1, <4>2
      <4>4. QED BY <1>1, <4>1, <4>3
    <3>2. CASE i = Len(held) + 1
      BY <3>2, <1>1, <1>2, <1>4, <1>5, <1>6
    <3>3. QED BY <3>1, <3>2, <1>5, <1>6
  <2>2. ASSUME NEW i \in DOMAIN held', NEW j \in DOMAIN held', i < j
        PROVE  Dist(rdTail', held'[i].at) + held'[i].len <= Dist(rdTail', held'[j].at)
    <3>1. i \in 1..Len(held)
      BY <2>2, <1>5, <1>6
    <3>2. CASE j \in 1..Len(held)
      BY <3>1, <3>2, <2>2, <1>1, <1>6 DEF PInv, HeldChain
    <3>3. CASE j = Len(held) + 1
      BY <3>1, <3>3, <1>1, <1>6, <1>7
    <3>4. QED BY <3>2, <3>3, <1>5, <1>6
  <2>3. QED BY <2>1, <2>2 DEF HeldChain, Dist
<1>9. Started' = Started
  BY <1>1 DEF Started, Between, Dist
<1>10. PInv'
  BY <1>1, <1>3, <1>4, <1>8, <1>9 DEF PInv
<1>11. QueueStep
  <2> DEFINE r == PacketsOf(mem, rdHead, wrTail)
             rr == PacketsOf(mem, rdHead', wrTail)
  <2>1. r = <<n>> \o rr
    BY <1>1, <1>2, <1>3, PacketsFirst
  <2>2. rr \in Seq(Nat)
    <3>1. rr \in Seq(Nat \ {0})
      BY <1>2, <1>3, PacketsType
    <3>2. QED BY <3>1
  <2>3. Packets(rdHead, wrTail) = r /\ Packets(rdHead, wrTail)' = rr
    BY <1>1, ReadyIs
  <2> HIDE DEF r, rr
  <2>4. r # <<>> /\ Head(r) = n /\ Tail(r) = rr
    <3>1. n \in Nat
      BY <1>3
    <3>2. QED BY <2>1, <2>2, <3>1, FirstOf
  <2>5. Lens(held') = Append(Lens(held), n)
    BY <1>5, <1>6 DEF Lens
  <2>6. Fifo!Take
    BY <2>3, <2>4, <2>5 DEF Fifo!Take, Lens
  <2>7. QED BY <2>6 DEF QueueStep, Fifo!Next
<1>12. QED BY <1>10, <1>11

(* What the user releases is the first packet it holds.                     *)
LEMMA OldestFirst ==
  ASSUME IInv, PInv, NEW k \in DOMAIN held, SkpBitStream(k)
  PROVE  /\ k = 1 /\ held[1].at = rdTail /\ held[1].len = mem[rdTail] /\ mem[rdTail] # 0
         /\ rdTail # rdHead
<1>1. /\ held \in Seq(Packet) /\ Len(held) \in Nat /\ DOMAIN held = 1..Len(held)
      /\ k \in 1..Len(held) /\ 1 \in 1..Len(held)
  BY DEF IInv, TypeOK
<1>2. held[k].at = rdTail
  BY DEF SkpBitStream, OldestPacket
<1>3. rdTail \in Offset /\ rdHead \in Offset /\ Dist(rdTail, rdTail) = 0
  BY Line, DistType
<1>4. \A i \in 1..Len(held) :
        /\ held[i].at \in Offset /\ held[i].len \in Nat \ {0}
        /\ mem[held[i].at] = held[i].len
        /\ Dist(rdTail, held[i].at) \in Nat
        /\ Dist(rdTail, held[i].at) + held[i].len <= Dist(rdTail, rdHead)
  <2>1. ASSUME NEW i \in 1..Len(held)
        PROVE  held[i].at \in Offset /\ held[i].len \in Nat /\ Dist(rdTail, held[i].at) \in Nat
    <3>1. held[i] \in Packet
      BY <1>1, ElementOfSeq
    <3>2. held[i].at \in Offset /\ held[i].len \in Nat
      BY <3>1, VencStreamAssumption DEF Packet
    <3>3. QED BY <1>3, <3>2, DistType
  <2>2. QED BY <1>1, <2>1 DEF PInv, HeldChain
<1>5. k = 1
  <2>1. 1 < k => Dist(rdTail, held[1].at) + held[1].len <= Dist(rdTail, held[k].at)
    BY <1>1 DEF PInv, HeldChain
  <2>2. ~(1 < k)
    BY <1>1, <1>2, <1>3, <1>4, <2>1
  <2>3. QED BY <1>1, <2>2
<1>6. rdTail # rdHead
  BY <1>1, <1>2, <1>3, <1>4
<1>7. QED BY <1>1, <1>2, <1>4, <1>5, <1>6

LEMMA FirstRemoved ==
  ASSUME NEW S, NEW s \in Seq(S), Len(s) # 0
  PROVE  /\ RemoveAt(s, 1) \in Seq(S) /\ Len(RemoveAt(s, 1)) = Len(s) - 1
         /\ \A i \in 1..(Len(s) - 1) : RemoveAt(s, 1)[i] = s[i + 1]
<1> DEFINE t == SubSeq(s, 2, Len(s))
<1>1. Len(s) \in Nat \ {0} /\ 2 \in Int /\ Len(s) \in Int /\ \A i \in 2..Len(s) : s[i] \in S
  OBVIOUS
<1>2. SubSeq(s, 1, 0) = <<>>
  BY <1>1
<1>3. /\ t \in Seq(S) /\ Len(t) = (IF 2 <= Len(s) THEN Len(s) - 2 + 1 ELSE 0)
      /\ \A i \in 1..(Len(s) - 2 + 1) : t[i] = s[2 + i - 1]
  BY <1>1, SubSeqProperties
<1>4. RemoveAt(s, 1) = t
  BY <1>2, <1>3, ConcatEmptySeq DEF RemoveAt
<1> HIDE DEF t
<1>5. Len(t) = Len(s) - 1
  <2> DEFINE a == Len(s)
             b == Len(t)
  <2>1. a \in Nat \ {0} /\ b = (IF 2 <= a THEN a - 2 + 1 ELSE 0)
    BY <1>1, <1>3
  <2> HIDE DEF a, b
  <2>2. b = a - 1
    BY <2>1
  <2>3. QED BY <2>2 DEF a, b
<1>6. ASSUME NEW i \in 1..(Len(s) - 1) PROVE t[i] = s[i + 1]
  <2>1. i \in 1..(Len(s) - 2 + 1) /\ 2 + i - 1 = i + 1
    BY <1>1
  <2>2. QED BY <1>3, <2>1
<1>7. QED BY <1>3, <1>4, <1>5, <1>6

LEMMA SkpQueue ==
  ASSUME IInv, PInv, NEW k \in DOMAIN held, SkpBitStream(k)
  PROVE  PInv' /\ QueueStep
<1> DEFINE n == mem[rdTail]
           d(x) == Dist(rdTail, x)
<1>1. /\ UNCHANGED <<rdHead, wrHead, wrTail, step, busy, hwWp>>
      /\ rdTail' = Turn(rdTail + n) /\ mem' = Forget(Between(rdTail, rdTail'))
      /\ held' = RemoveAt(held, 1)
      /\ held[1].at = rdTail /\ held[1].len = n /\ rdTail # rdHead
  <2>1. /\ k = 1 /\ held[1].at = rdTail /\ held[1].len = n /\ rdTail # rdHead
    BY OldestFirst
  <2>2. QED BY <2>1 DEF SkpBitStream, SkipLen, encoder
<1>2. /\ {rdHead, rdTail, wrTail, wrHead, Top} \subseteq Offset /\ mem \in [Offset -> Nat]
      /\ d(rdHead) \in Nat /\ Dist(rdHead, wrTail) \in Nat /\ Dist(wrTail, wrHead) \in Nat
      /\ Dist(wrHead, Top) \in Nat /\ BufLen \in Nat
      /\ d(rdHead) + Dist(rdHead, wrTail) + Dist(wrTail, wrHead) + Dist(wrHead, Top) < BufLen
      /\ d(wrTail) = d(rdHead) + Dist(rdHead, wrTail)
      /\ d(wrHead) = d(wrTail) + Dist(wrTail, wrHead)
  BY Line
<1>3. /\ n \in 1..d(rdHead) /\ rdTail' \in Offset /\ d(rdTail') = n
      /\ Dist(rdTail', rdHead) = d(rdHead) - n
      /\ Chain(mem, rdTail', rdHead)
  BY <1>1, <1>2, ChainFirst DEF PInv
<1>4. mem' \in [Offset -> Nat] /\ \A u \in Offset : n <= d(u) => mem'[u] = mem[u]
  <2>1. mem' = [u \in Offset |-> IF u \in Between(rdTail, rdTail') THEN 0 ELSE mem[u]]
    BY <1>1 DEF Forget
  <2>2. \A u \in Offset : d(u) \in Nat
    BY <1>2, DistType
  <2>3. \A u \in Offset : n <= d(u) => u \notin Between(rdTail, rdTail')
    BY <1>3, <2>2 DEF Between
  <2>4. QED BY <1>2, <2>1, <2>3
<1>5. ASSUME NEW u \in Offset, n <= d(u)
      PROVE  Dist(rdTail', u) = d(u) - n /\ mem'[u] = mem[u]
  <2>1. d(rdTail') <= d(u)
    BY <1>3, <1>5
  <2>2. Dist(rdTail', u) = d(u) - d(rdTail')
    BY <1>2, <1>3, <2>1, DistBetween
  <2>3. QED BY <1>3, <1>4, <1>5, <2>2
<1>6. ASSUME NEW x \in Offset, NEW y \in Offset, n <= d(x), d(x) + Dist(x, y) < BufLen
      PROVE  Same(mem, mem', x, y)
  <2>1. ASSUME NEW u \in Offset, Dist(x, u) < Dist(x, y)
        PROVE  n <= d(u)
    <3>1. /\ d(x) \in Nat /\ Dist(x, u) \in Nat /\ Dist(x, y) \in Nat /\ n \in Nat
      BY <1>2, <1>3, DistType
    <3>2. d(x) + Dist(x, u) < BufLen
      BY <1>2, <1>6, <2>1, <3>1
    <3>3. d(u) = d(x) + Dist(x, u)
      BY <1>2, <3>2, DistAdd
    <3>4. QED BY <1>6, <3>1, <3>3
  <2>2. QED BY <1>4, <2>1 DEF Same, Between
<1>7. /\ Same(mem, mem', rdTail', rdHead) /\ Same(mem, mem', rdHead, wrTail)
      /\ Same(mem, mem', wrTail, wrHead) /\ Same(mem, mem', wrHead, Top)
  <2>1. /\ n \in Nat /\ n <= d(rdTail') /\ n <= d(rdHead) /\ n <= d(wrTail) /\ n <= d(wrHead)
        /\ d(rdTail') + Dist(rdTail', rdHead) < BufLen /\ d(rdHead) + Dist(rdHead, wrTail) < BufLen
        /\ d(wrTail) + Dist(wrTail, wrHead) < BufLen /\ d(wrHead) + Dist(wrHead, Top) < BufLen
    <3> HIDE DEF n, d
    <3>1. QED BY <1>2, <1>3
  <2>2. QED BY <1>2, <1>3, <1>6, <2>1
<1>8. Chain(mem', rdTail', rdHead') /\ Chain(mem', rdHead', wrTail')
  BY <1>1, <1>2, <1>3, <1>7, ChainFrame DEF PInv
<1>9. busy' => Chain(mem', wrHead', hwWp')
  <2>1. ASSUME busy PROVE Chain(mem', wrHead, hwWp)
    <3>1. Top = hwWp
      BY <2>1 DEF Top
    <3>2. QED BY <1>2, <1>7, <2>1, <3>1, ChainFrame DEF PInv
  <2>2. QED BY <1>1, <2>1
<1>10. Started => Started'
  <2>1. Dist(rdTail', wrHead) <= d(wrHead)
    <3>1. n <= d(wrHead) /\ n \in Nat /\ d(wrHead) \in Nat
      BY <1>2, <1>3
    <3>2. QED BY <1>2, <1>5, <3>1
  <2>2. ASSUME NEW v \in Between(wrTail, wrHead), mem[v] = HeaderUnit(Dist(wrTail, v))
        PROVE  mem'[v] = HeaderUnit(Dist(wrTail, v))
    BY <1>7, <2>2 DEF Same
  <2>3. ASSUME d(wrHead) + (Headers - step) + Rsv <= BufLen, step \in Int
        PROVE  Dist(rdTail', wrHead) + (Headers - step) + Rsv <= BufLen
    <3>1. Dist(rdTail', wrHead) \in Nat /\ d(wrHead) \in Nat /\ Rsv \in Nat /\ Headers \in Nat
      BY <1>2, <1>3, DistType, VencStreamAssumption
    <3>2. QED BY <1>2, <2>1, <2>3, <3>1
  <2>4. step \in Int
    BY VencStreamAssumption DEF IInv, TypeOK
  <2>5. CASE step = Headers /\ wrHead = wrTail
    BY <1>1, <2>5 DEF Started
  <2>6. ASSUME /\ Dist(wrTail, wrHead) = step
               /\ \A v \in Between(wrTail, wrHead) : mem[v] = HeaderUnit(Dist(wrTail, v))
               /\ d(wrHead) + (Headers - step) + Rsv <= BufLen
        PROVE  Started'
    <3>1. /\ \A v \in Between(wrTail, wrHead) : mem'[v] = HeaderUnit(Dist(wrTail, v))
          /\ Dist(rdTail', wrHead) + (Headers - step) + Rsv <= BufLen
      BY <2>2, <2>3, <2>4, <2>6
    <3>2. /\ Dist(wrTail, wrHead)' = step' /\ Dist(rdTail, wrHead)' = Dist(rdTail', wrHead)
          /\ Between(wrTail, wrHead)' = Between(wrTail, wrHead)
      BY <1>1, <2>6 DEF Dist, Between
    <3>3. \A v \in Between(wrTail, wrHead)' : mem'[v] = HeaderUnit(Dist(wrTail, v)')
      BY <1>1, <3>1, <3>2 DEF Dist
    <3>4. QED BY <1>1, <3>1, <3>2, <3>3 DEF Started
  <2>7. QED BY <2>5, <2>6 DEF Started
<1>11. /\ held \in Seq(Packet) /\ Len(held) \in Nat \ {0} /\ DOMAIN held = 1..Len(held)
       /\ held' \in Seq(Packet) /\ Len(held') = Len(held) - 1
       /\ \A i \in 1..(Len(held) - 1) : held'[i] = held[i + 1]
  <2>1. held \in Seq(Packet) /\ Len(held) \in Nat \ {0}
    <3>1. held \in Seq(Packet) /\ k \in 1..Len(held) /\ Len(held) \in Nat
      BY DEF IInv, TypeOK
    <3>2. QED BY <3>1
  <2>2. /\ held' \in Seq(Packet) /\ Len(held') = Len(held) - 1
        /\ \A i \in 1..(Len(held) - 1) : held'[i] = held[i + 1]
    <3>1. held \in Seq(Packet) /\ Len(held) # 0
      BY <2>1
    <3>2. QED BY <1>1, <3>1, FirstRemoved
  <2>3. QED BY <2>1, <2>2
<1>12. \A i \in 1..Len(held) :
         /\ held[i].at \in Offset /\ held[i].len \in Nat
         /\ held[i].len # 0 /\ mem[held[i].at] = held[i].len /\ d(held[i].at) \in Nat
         /\ d(held[i].at) + held[i].len <= d(rdHead)
         /\ 1 < i => n <= d(held[i].at)
  <2>1. ASSUME NEW i \in 1..Len(held)
        PROVE  held[i].at \in Offset /\ held[i].len \in Nat /\ d(held[i].at) \in Nat
    <3>1. held[i] \in Packet
      BY <1>11, ElementOfSeq
    <3>2. held[i].at \in Offset /\ held[i].len \in Nat
      BY <3>1, VencStreamAssumption DEF Packet
    <3>3. QED BY <1>2, <3>2, DistType
  <2>2. ASSUME NEW i \in 1..Len(held), 1 < i
        PROVE  n <= d(held[i].at)
    <3>1. d(held[1].at) + held[1].len <= d(held[i].at)
      <4>1. 1 \in DOMAIN held /\ i \in DOMAIN held
        BY <1>11
      <4>2. \A x, y \in DOMAIN held : x < y => d(held[x].at) + held[x].len <= d(held[y].at)
        BY DEF PInv, HeldChain
      <4>3. QED BY <2>2, <4>1, <4>2
    <3>2. d(rdTail) = 0 /\ n \in Nat
      BY <1>2, <1>3, DistType
    <3>3. QED BY <1>1, <2>1, <3>1, <3>2
  <2>3. \A i \in 1..Len(held) :
          /\ held[i].len # 0 /\ mem[held[i].at] = held[i].len
          /\ d(held[i].at) + held[i].len <= d(rdHead)
    BY <1>11 DEF PInv, HeldChain
  <2>4. QED BY <2>1, <2>2, <2>3
<1>13. ASSUME NEW i \in 1..(Len(held) - 1)
       PROVE  /\ i + 1 \in 1..Len(held) /\ held'[i] = held[i + 1]
              /\ Dist(rdTail', held'[i].at) = d(held[i + 1].at) - n
              /\ mem'[held'[i].at] = mem[held[i + 1].at]
  <2>1. i + 1 \in 1..Len(held) /\ 1 < i + 1 /\ held'[i] = held[i + 1]
    BY <1>11
  <2>2. held[i + 1].at \in Offset /\ n <= d(held[i + 1].at)
    BY <1>12, <2>1
  <2>3. QED BY <1>5, <2>1, <2>2
<1>14. HeldChain'
  <2> USE <1>11
  <2>1. ASSUME NEW i \in DOMAIN held'
        PROVE  /\ held'[i].len # 0 /\ mem'[held'[i].at] = held'[i].len
               /\ Dist(rdTail', held'[i].at) + held'[i].len <= Dist(rdTail', rdHead')
    <3>1. i \in 1..(Len(held) - 1)
      OBVIOUS
    <3>2. /\ held[i + 1].len # 0 /\ mem[held[i + 1].at] = held[i + 1].len
          /\ d(held[i + 1].at) + held[i + 1].len <= d(rdHead)
          /\ d(held[i + 1].at) \in Nat /\ held[i + 1].len \in Nat
      BY <1>12, <1>13, <3>1
    <3>3. /\ held'[i] = held[i + 1] /\ Dist(rdTail', held'[i].at) = d(held[i + 1].at) - n
          /\ mem'[held'[i].at] = mem[held[i + 1].at]
      BY <1>13, <3>1
    <3>4. Dist(rdTail', held'[i].at) + held'[i].len <= d(rdHead) - n
      <4>1. n \in Nat /\ d(rdHead) \in Nat
        BY <1>2, <1>3
      <4> HIDE DEF d, n
      <4>2. QED BY <3>2, <3>3, <4>1
    <3>5. Dist(rdTail', rdHead') = d(rdHead) - n
      BY <1>1, <1>3
    <3>6. QED BY <3>2, <3>3, <3>4, <3>5
  <2>2. ASSUME NEW i \in DOMAIN held', NEW j \in DOMAIN held', i < j
        PROVE  Dist(rdTail', held'[i].at) + held'[i].len <= Dist(rdTail', held'[j].at)
    <3>1. i \in 1..(Len(held) - 1) /\ j \in 1..(Len(held) - 1) /\ i + 1 < j + 1
      BY <2>2
    <3>2. d(held[i + 1].at) + held[i + 1].len <= d(held[j + 1].at)
      BY <1>13, <3>1 DEF PInv, HeldChain
    <3>3. /\ d(held[i + 1].at) \in Nat /\ held[i + 1].len \in Nat /\ d(held[j + 1].at) \in Nat
          /\ n \in Nat
      <4>1. i + 1 \in 1..Len(held) /\ j + 1 \in 1..Len(held)
        BY <1>13, <3>1
      <4>2. d(held[i + 1].at) \in Nat /\ held[i + 1].len \in Nat
        BY <1>12, <4>1
      <4>3. d(held[j + 1].at) \in Nat
        BY <1>12, <4>1
      <4>4. n \in Nat
        BY <1>3
      <4>5. QED BY <4>2, <4>3, <4>4
    <3>4. /\ Dist(rdTail', held'[i].at) = d(held[i + 1].at) - n /\ held'[i] = held[i + 1]
          /\ Dist(rdTail', held'[j].at) = d(held[j + 1].at) - n
      BY <1>13, <3>1
    <3>5. d(held[i + 1].at) - n + held[i + 1].len <= d(held[j + 1].at) - n
      <4> DEFINE a == d(held[i + 1].at)
                 b == held[i + 1].len
                 c == d(held[j + 1].at)
      <4>1. a \in Nat /\ b \in Nat /\ c \in Nat /\ n \in Nat /\ a + b <= c
        BY <3>2, <3>3
      <4> HIDE DEF a, b, c, n
      <4>2. a - n + b <= c - n
        BY <4>1
      <4>3. QED BY <4>2 DEF a, b, c
    <3>6. QED BY <3>4, <3>5
  <2>3. QED BY <2>1, <2>2 DEF HeldChain, Dist
<1>15. PInv'
  BY <1>1, <1>8, <1>9, <1>10, <1>14 DEF PInv
<1>16. QueueStep
  <2>1. PacketsOf(mem', rdHead', wrTail') = PacketsOf(mem, rdHead, wrTail)
    BY <1>1, <1>2, <1>4, <1>7, PacketsFrame DEF PInv
  <2>2. Lens(held) # <<>> /\ Lens(held') = Tail(Lens(held))
    BY <1>11 DEF Lens
  <2>3. Fifo!GiveBack
    BY <2>1, <2>2, ReadyIs DEF Fifo!GiveBack, Lens
  <2>4. QED BY <2>3 DEF QueueStep, Fifo!Next
<1>17. QED BY <1>15, <1>16

-----------------------------------------------------------------------------
(* The theorems. *)

LEMMA StartPInv == Init => PInv /\ Fifo!Init
<1> SUFFICES ASSUME Init PROVE PInv /\ Fifo!Init
  OBVIOUS
<1>1. 0 \in Offset
  BY VencStreamAssumption DEF Offset
<1>2. /\ rdHead = 0 /\ rdTail = 0 /\ wrHead = 0 /\ wrTail = 0
      /\ step = -1 /\ ~busy /\ held = <<>>
  BY DEF Init
<1>3. Chain(mem, 0, 0)
  BY <1>1, ChainEmpty
<1>4. HeldChain
  BY <1>2 DEF HeldChain
<1>5. PInv
  BY <1>2, <1>3, <1>4 DEF PInv
<1>6. Packets(rdHead, wrTail) = <<>>
  BY <1>1, <1>2, ReadyIs, PacketsEmpty
<1>7. Lens(held) = <<>>
  BY <1>2 DEF Lens
<1>8. QED BY <1>5, <1>6, <1>7 DEF Fifo!Init

LEMMA EachStep ==
  ASSUME HeadersFit, IInv, PInv, [Next]_vars
  PROVE  PInv' /\ QueueStep
<1>1. CASE WriteHeader BY <1>1, WriteHeaderQueue
<1>2. CASE StartOneFrame BY <1>2, StartQueue
<1>3. CASE \E n \in PacketLen : HwWrite(n) BY <1>3, HwWriteQueue
<1>4. CASE EndOneSlice BY <1>4, SliceQueue
<1>5. CASE \E full, over \in BOOLEAN, wp \in Offset : EndOneFrame(full, over, wp)
  BY <1>5, FrameQueue
<1>6. CASE \E n \in 0..BufLen : GetBitStream(n) BY <1>6, GetQueue
<1>7. CASE \E k \in DOMAIN held : SkpBitStream(k) BY <1>7, SkpQueue
<1>8. CASE (\E i \in BOOLEAN : RcFrmRateCtrl(i)) \/ UNCHANGED vars
  BY <1>8, OthersQueue
<1>9. QED BY <1>1, <1>2, <1>3, <1>4, <1>5, <1>6, <1>7, <1>8 DEF Next

LEMMA PInvariant ==
  ASSUME HeadersFit
  PROVE  Spec => []PInv
<1>1. Init => PInv
  BY StartPInv
<1>2. IInv /\ PInv /\ [Next]_vars => PInv'
  BY EachStep
<1>3. QED BY <1>1, <1>2, Invariant, PTL DEF Spec

(* What the user gets begins with a header and is as long as it says: from  *)
(* the read tail to the write tail the buffer holds whole packets and       *)
(* nothing else, and the header of a packet the user holds is still there.  *)
THEOREM EachIsOneNalu ==
  ASSUME HeadersFit
  PROVE  Spec => []OneNalu
<1>1. ASSUME IInv, PInv PROVE OneNalu
  <2>1. /\ rdTail \in Offset /\ rdHead \in Offset /\ wrTail \in Offset
        /\ mem \in [Offset -> Nat]
        /\ Dist(rdTail, rdHead) + Dist(rdHead, wrTail) < BufLen
    BY <1>1, Line
  <2>2. Chain(mem, rdTail, wrTail)
    BY <1>1, <2>1, ChainJoin DEF PInv
  <2>3. Packets(rdTail, wrTail) \in Seq(Nat \ {0})
    BY <2>1, <2>2, PacketsType, PacketsIs
  <2>4. 0 \notin ToSet(Packets(rdTail, wrTail))
    BY <2>3 DEF ToSet
  <2>5. \A i \in DOMAIN held : mem[held[i].at] = held[i].len
    BY <1>1 DEF PInv, HeldChain
  <2>6. QED BY <2>4, <2>5 DEF OneNalu
<1>2. QED BY <1>1, Invariant, PInvariant, PTL

(* The ring implements the packet queue: packets come out whole, once and   *)
(* in order, however often it wraps and whatever frames were lost.          *)
THEOREM ImplementsPackets ==
  ASSUME HeadersFit
  PROVE  Spec => IsPacketQueue
<1>1. Init => Fifo!Init
  BY StartPInv
<1>2. IInv /\ PInv /\ [Next]_vars => [Fifo!Next]_(Fifo!pvars)
  BY EachStep DEF QueueStep
<1>3. QED BY <1>1, <1>2, Invariant, PInvariant, PTL DEF Spec, IsPacketQueue
=============================================================================
