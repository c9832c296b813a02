-------------------------- MODULE VencStreamProofs --------------------------
(***************************************************************************)
(* Proofs about the stream buffer of an encoder channel, for every length, *)
(* reserve and set of packet lengths, whether or not header packets are    *)
(* cut: the pointers keep their order, the free length never wraps, and no *)
(* write touches what the user has not released.                           *)
(*                                                                         *)
(* The encoder works with the read tail of the start of its frame.  So the *)
(* order is told from that offset (Base) while it works: from there one    *)
(* meets the read tail of now, then the other pointers, last the encoder's *)
(* own (Top).                                                              *)
(***************************************************************************)
EXTENDS VencStream, SequenceTheorems, TLAPS

Base == IF busy THEN hwRp ELSE rdTail
Top  == IF busy THEN hwWp ELSE wrHead

(* The pointers by their distance from Base. *)
Ordered ==
  /\ Dist(Base, rdTail) <= Dist(Base, rdHead)
  /\ Dist(Base, rdHead) <= Dist(Base, wrTail)
  /\ Dist(Base, wrTail) <= Dist(Base, wrHead)
  /\ Dist(Base, wrHead) <= Dist(Base, Top)
  /\ Dist(Base, Top) + Rsv <= BufLen

IInv ==
  /\ TypeOK
  /\ Ordered
  /\ step # -1 => ~busy

-----------------------------------------------------------------------------
(* Going round the buffer. *)

LEMMA DistType ==
  ASSUME NEW a \in Offset, NEW b \in Offset
  PROVE  /\ Dist(a, b) \in Nat /\ Dist(a, b) < BufLen /\ Dist(a, a) = 0
         /\ BufLen \in Nat /\ Rsv \in Nat \ {0}
BY VencStreamAssumption DEF Dist, Offset

(* Seen from c, b comes not before a: the way from a to b is the rest. *)
LEMMA DistBetween ==
  ASSUME NEW c \in Offset, NEW a \in Offset, NEW b \in Offset,
         Dist(c, a) <= Dist(c, b)
  PROVE  Dist(a, b) = Dist(c, b) - Dist(c, a)
BY VencStreamAssumption DEF Dist, Offset

(* n units further on, short of a whole turn. *)
LEMMA DistTurn ==
  ASSUME NEW c \in Offset, NEW a \in Offset, NEW n \in Nat,
         Dist(c, a) + n < BufLen
  PROVE  Turn(a + n) \in Offset /\ Dist(c, Turn(a + n)) = Dist(c, a) + n
BY VencStreamAssumption DEF Dist, Offset, Turn

(* Seen from c, b comes before a: from a one turns past c. *)
LEMMA DistBack ==
  ASSUME NEW c \in Offset, NEW a \in Offset, NEW b \in Offset,
         Dist(c, b) < Dist(c, a)
  PROVE  Dist(a, b) = BufLen - (Dist(c, a) - Dist(c, b))
BY VencStreamAssumption DEF Dist, Offset

LEMMA DistAdd ==
  ASSUME NEW c \in Offset, NEW a \in Offset, NEW b \in Offset,
         Dist(c, a) + Dist(a, b) < BufLen
  PROVE  Dist(c, b) = Dist(c, a) + Dist(a, b)
BY VencStreamAssumption DEF Dist, Offset

(* The tests of VENC_DRV_BufRead and VENC_DRV_BufUpdateRp say that n units  *)
(* lie before the pointer that must not be crossed. *)
LEMMA CanReadBound ==
  ASSUME rdHead \in Offset, wrTail \in Offset, NEW n \in Nat, CanRead(n)
  PROVE  n <= Dist(rdHead, wrTail)
BY VencStreamAssumption DEF CanRead, Dist, Offset

LEMMA CanReleaseBound ==
  ASSUME rdHead \in Offset, rdTail \in Offset, NEW n \in Nat, CanRelease(n)
  PROVE  n <= Dist(rdTail, rdHead)
BY VencStreamAssumption DEF CanRelease, Dist, Offset

LEMMA FreeLenExact ==
  ASSUME rdTail \in Offset, wrHead \in Offset, Dist(rdTail, wrHead) + Rsv <= BufLen
  PROVE  FreeLen = BufLen - Rsv - Dist(rdTail, wrHead)
BY VencStreamAssumption DEF FreeLen, Dist, Offset, Sub

LEMMA HwRoomExact ==
  ASSUME hwRp \in Offset, hwWp \in Offset
  PROVE  HwRoom = BufLen - Dist(hwRp, hwWp)
BY VencStreamAssumption DEF HwRoom, Dist, Offset

LEMMA RemoveAtType ==
  ASSUME NEW S, NEW s \in Seq(S), NEW k \in 1..Len(s)
  PROVE  RemoveAt(s, k) \in Seq(S)
<1>1. SubSeq(s, 1, k-1) \in Seq(S) /\ SubSeq(s, k+1, Len(s)) \in Seq(S)
  BY SMT
<1>2. QED BY <1>1, ConcatProperties DEF RemoveAt

(* Seen from the read tail of now the pointers have the same order. *)
LEMMA Rebased ==
  ASSUME IInv
  PROVE  /\ Dist(rdTail, rdHead) = Dist(Base, rdHead) - Dist(Base, rdTail)
         /\ Dist(rdTail, wrTail) = Dist(Base, wrTail) - Dist(Base, rdTail)
         /\ Dist(rdTail, wrHead) = Dist(Base, wrHead) - Dist(Base, rdTail)
         /\ Dist(rdTail, Top) = Dist(Base, Top) - Dist(Base, rdTail)
         /\ Dist(rdHead, wrTail) = Dist(Base, wrTail) - Dist(Base, rdHead)
         /\ Dist(wrTail, wrHead) = Dist(Base, wrHead) - Dist(Base, wrTail)
         /\ Dist(wrHead, Top) = Dist(Base, Top) - Dist(Base, wrHead)
         /\ Base \in Offset /\ Top \in Offset /\ rdHead \in Offset /\ rdTail \in Offset
         /\ wrHead \in Offset /\ wrTail \in Offset
         /\ Dist(Base, rdTail) \in Nat /\ Dist(Base, rdHead) \in Nat /\ Dist(Base, wrTail) \in Nat
         /\ Dist(Base, wrHead) \in Nat /\ Dist(Base, Top) \in Nat
         /\ Dist(rdTail, rdTail) = 0
         /\ BufLen \in Nat /\ Rsv \in Nat \ {0}
<1>1. /\ Base \in Offset /\ Top \in Offset /\ rdHead \in Offset /\ rdTail \in Offset
      /\ wrHead \in Offset /\ wrTail \in Offset
  BY DEF IInv, TypeOK, Base, Top
<1>2. /\ Dist(Base, rdTail) \in Nat /\ Dist(Base, rdHead) \in Nat /\ Dist(Base, wrTail) \in Nat
      /\ Dist(Base, wrHead) \in Nat /\ Dist(Base, Top) \in Nat
  <2>1. \A x \in Offset : Dist(Base, x) \in Nat
    BY <1>1, DistType
  <2>2. QED BY <2>1, <1>1
<1>3. /\ Dist(Base, rdTail) <= Dist(Base, rdHead) /\ Dist(Base, rdTail) <= Dist(Base, wrTail)
      /\ Dist(Base, rdTail) <= Dist(Base, wrHead) /\ Dist(Base, rdTail) <= Dist(Base, Top)
  BY <1>2 DEF IInv, Ordered
<1>4. /\ Dist(Base, rdHead) <= Dist(Base, wrTail) /\ Dist(Base, wrTail) <= Dist(Base, wrHead)
      /\ Dist(Base, wrHead) <= Dist(Base, Top)
  BY DEF IInv, Ordered
<1>5. Dist(rdTail, rdTail) = 0 /\ BufLen \in Nat /\ Rsv \in Nat \ {0}
  BY <1>1, DistType, VencStreamAssumption
<1>6. QED BY <1>1, <1>2, <1>3, <1>4, <1>5, DistBetween

-----------------------------------------------------------------------------
(* The pointers keep their order. *)

LEMMA Initially == Init => IInv
<1> SUFFICES ASSUME Init PROVE IInv
  OBVIOUS
<1>1. 0 \in Offset /\ Dist(0, 0) = 0
  BY VencStreamAssumption DEF Offset, Dist
<1>2. TypeOK
  <2>1. mem \in [Offset -> 0..BufLen]
    BY VencStreamAssumption DEF Init
  <2>2. step \in -1..Headers
    BY VencStreamAssumption DEF Init
  <2>3. held \in Seq(Packet)
    BY DEF Init
  <2>4. QED BY <1>1, <2>1, <2>2, <2>3 DEF Init, TypeOK
<1>3. Base = 0 /\ Top = 0
  BY DEF Init, Base, Top
<1>4. Ordered
  BY <1>1, <1>3, VencStreamAssumption DEF Init, Ordered
<1>5. QED BY <1>2, <1>4 DEF IInv, Init

LEMMA WriteHeaderKeeps ==
  ASSUME IInv, WriteHeader
  PROVE  IInv'
<1> USE DEF WriteHeader, encoder
<1>1. ~busy /\ Base = rdTail /\ Top = wrHead /\ Base' = rdTail /\ Top' = wrHead'
  BY VencStreamAssumption DEF IInv, Base, Top, TypeOK
<1>2. {rdHead, rdTail, wrHead, wrTail} \subseteq Offset /\ Dist(rdTail, wrHead) + Rsv <= BufLen
  BY <1>1 DEF IInv, TypeOK, Ordered
<1>3. FreeLen = BufLen - Rsv - Dist(rdTail, wrHead)
  BY <1>2, FreeLenExact
<1>4. wrHead' \in Offset /\ Dist(rdTail, wrHead) <= Dist(rdTail, wrHead')
                         /\ Dist(rdTail, wrHead') + Rsv <= BufLen
  <2>1. CASE FreeLen >= 1
    <3>1. Dist(rdTail, wrHead) + 1 < BufLen
      BY <2>1, <1>3, <1>2, DistType
    <3>2. Turn(wrHead + 1) \in Offset /\ Dist(rdTail, Turn(wrHead + 1)) = Dist(rdTail, wrHead) + 1
      BY <3>1, <1>2, DistTurn
    <3>3. QED BY <2>1, <3>2, <1>2, <1>3, DistType
  <2>2. CASE ~(FreeLen >= 1)
    BY <2>2, <1>2, DistType
  <2>3. QED BY <2>1, <2>2
<1>5. Ordered'
  BY <1>1, <1>2, <1>4, DistType, VencStreamAssumption DEF IInv, Ordered, Dist, Offset
<1>6. mem' \in [Offset -> 0..BufLen]
  BY <1>2, VencStreamAssumption DEF IInv, TypeOK, HeaderUnit
<1>7. QED BY <1>1, <1>4, <1>5, <1>6, VencStreamAssumption DEF IInv, TypeOK

LEMMA StartKeeps ==
  ASSUME IInv, StartOneFrame
  PROVE  IInv'
<1> USE DEF StartOneFrame, Kick
<1>1. /\ {rdHead, rdTail, wrHead, wrTail} \subseteq Offset /\ ~busy
      /\ Base = rdTail /\ Top = wrHead /\ Base' = rdTail /\ Top' = wrHead
  BY VencStreamAssumption DEF IInv, Base, Top, TypeOK
<1>2. Ordered'
  BY <1>1, DistType, VencStreamAssumption DEF IInv, Ordered, Dist, Offset
<1>3. TypeOK'
  BY <1>1 DEF IInv, TypeOK
<1>4. QED BY <1>2, <1>3 DEF IInv

(* What the encoder may write lies between its pointer and what was unread *)
(* when it started. *)
LEMMA HwWriteFits ==
  ASSUME IInv, NEW n \in PacketLen, HwWrite(n)
  PROVE  /\ busy /\ n \in Nat /\ Dist(hwRp, hwWp) + n + Rsv <= BufLen
         /\ hwWp' \in Offset /\ Dist(hwRp, hwWp') = Dist(hwRp, hwWp) + n
<1>1. busy /\ n \in Nat /\ hwRp \in Offset /\ hwWp \in Offset
  BY VencStreamAssumption DEF HwWrite, IInv, TypeOK
<1>2. Dist(hwRp, hwWp) + n + Rsv <= BufLen
  BY <1>1, HwRoomExact, DistType DEF HwWrite
<1>3. Dist(hwRp, hwWp) + n < BufLen
  BY <1>1, <1>2, DistType
<1>4. QED BY <1>1, <1>2, <1>3, DistTurn DEF HwWrite

LEMMA HwWriteKeeps ==
  ASSUME IInv, NEW n \in PacketLen, HwWrite(n)
  PROVE  IInv'
<1>1. /\ {rdHead, rdTail, wrHead, wrTail, hwRp, hwWp} \subseteq Offset
      /\ busy /\ busy' /\ hwRp' = hwRp /\ pointers' = pointers /\ step' = step
      /\ rcStart' = rcStart /\ lowDlyMod' = lowDlyMod /\ held' = held
      /\ n \in 0..BufLen
  BY VencStreamAssumption DEF HwWrite, IInv, TypeOK, pointers
<1>2. /\ hwWp' \in Offset /\ Dist(hwRp, hwWp') + Rsv <= BufLen
      /\ Dist(hwRp, hwWp) <= Dist(hwRp, hwWp')
  BY <1>1, HwWriteFits, DistType
<1>3. Ordered'
  BY <1>1, <1>2, DistType, VencStreamAssumption DEF IInv, Ordered, Base, Top, pointers, Dist, Offset
<1>4. mem' \in [Offset -> 0..BufLen]
  BY <1>1, VencStreamAssumption DEF HwWrite, IInv, TypeOK
<1>5. QED BY <1>1, <1>2, <1>3, <1>4 DEF IInv, TypeOK, pointers

LEMMA EndOneSliceKeeps ==
  ASSUME IInv, EndOneSlice
  PROVE  IInv'
<1> USE DEF EndOneSlice, encoder
<1>1. /\ {rdHead, rdTail, wrHead, wrTail, hwRp, hwWp} \subseteq Offset
      /\ busy /\ Base = hwRp /\ Top = hwWp /\ Base' = hwRp /\ Top' = hwWp
  BY DEF IInv, TypeOK, Base, Top
<1>2. Ordered'
  BY <1>1, DistType, VencStreamAssumption DEF IInv, Ordered, Dist, Offset
<1>3. TypeOK' BY <1>1 DEF IInv, TypeOK
<1>4. QED BY <1>1, <1>2, <1>3 DEF IInv

LEMMA EndOneFrameKeeps ==
  ASSUME IInv, NEW full \in BOOLEAN, NEW over \in BOOLEAN, NEW wp \in Offset,
         EndOneFrame(full, over, wp)
  PROVE  IInv'
<1> USE DEF EndOneFrame
<1>1. /\ {rdHead, rdTail, wrHead, wrTail, hwRp, hwWp} \subseteq Offset
      /\ busy /\ Base = hwRp /\ Top = hwWp /\ ~busy' /\ Base' = rdTail /\ Top' = wrHead'
  BY VencStreamAssumption DEF IInv, TypeOK, Base, Top
<1>2. /\ wrHead' \in {wrHead, hwWp}
      /\ wrTail' = wrHead' \/ (wrTail' = wrTail /\ wrHead' = wrHead)
  OBVIOUS
<1>3. /\ Dist(rdTail, rdHead) <= Dist(rdTail, wrTail)
      /\ Dist(rdTail, wrTail) <= Dist(rdTail, wrHead)
      /\ Dist(rdTail, wrHead) <= Dist(rdTail, hwWp)
      /\ Dist(rdTail, hwWp) + Rsv <= BufLen
      /\ Dist(rdTail, rdTail) = 0 /\ Dist(rdTail, rdHead) \in Nat
      /\ Dist(rdTail, wrTail) \in Nat /\ Dist(rdTail, wrHead) \in Nat /\ Dist(rdTail, hwWp) \in Nat
  BY <1>1, Rebased DEF IInv, Ordered
<1>4. Ordered'
  <2>1. rdTail' = rdTail /\ rdHead' = rdHead
    OBVIOUS
  <2>2. QED BY <1>1, <1>2, <1>3, <2>1, VencStreamAssumption DEF Ordered, Dist
<1>5. mem' \in [Offset -> 0..BufLen]
  BY VencStreamAssumption DEF IInv, TypeOK, Forget
<1>6. wrHead' \in Offset /\ wrTail' \in Offset /\ 0 \in Offset
  <2>1. wrHead' \in Offset
    BY <1>1, <1>2
  <2>2. wrTail' \in Offset
    BY <1>1, <1>2, <2>1
  <2>3. 0 \in Offset
    BY VencStreamAssumption DEF Offset
  <2>4. QED BY <2>1, <2>2, <2>3
<1>7. rcStart' \in BOOLEAN /\ busy' \in BOOLEAN
  BY DEF IInv, TypeOK
<1>8. TypeOK'
  BY <1>1, <1>5, <1>6, <1>7 DEF IInv, TypeOK
<1>9. QED BY <1>1, <1>4, <1>8 DEF IInv

LEMMA GetBitStreamKeeps ==
  ASSUME IInv, NEW n \in 0..BufLen, GetBitStream(n)
  PROVE  IInv'
<1>1. /\ n \in Nat /\ CanRead(n) /\ rdHead' = Turn(rdHead + n)
      /\ rdTail' = rdTail /\ wrTail' = wrTail /\ wrHead' = wrHead
      /\ Base' = Base /\ Top' = Top
  BY VencStreamAssumption DEF GetBitStream, encoder, Base, Top
<1>2. n <= Dist(rdHead, wrTail)
  BY <1>1, CanReadBound DEF IInv, TypeOK
<1> DEFINE dh == Dist(Base, rdHead)
           dt == Dist(Base, wrTail)
<1>3. /\ dh \in Nat /\ dt \in Nat /\ dt < BufLen /\ BufLen \in Nat
      /\ Dist(rdHead, wrTail) = dt - dh /\ Dist(Base, rdTail) <= dh
      /\ Base \in Offset /\ rdHead \in Offset /\ Dist(Base, rdTail) \in Nat
  BY Rebased, DistType DEF IInv, Ordered
<1>4. dh + n <= dt /\ dh + n < BufLen
  <2> HIDE DEF dh, dt
  <2>1. QED BY <1>1, <1>2, <1>3
<1>5. rdHead' \in Offset /\ Dist(Base, rdHead') = dh + n
  BY <1>1, <1>3, <1>4, DistTurn
<1>6. Ordered'
  <2>1. Dist(Base, rdTail) <= Dist(Base, rdHead') /\ Dist(Base, rdHead') <= dt
    <3> HIDE DEF dh, dt
    <3>1. QED BY <1>1, <1>3, <1>4, <1>5
  <2>2. QED BY <1>1, <2>1 DEF IInv, Ordered, Dist
<1>7. held' \in Seq(Packet)
  BY VencStreamAssumption DEF GetBitStream, IInv, TypeOK, Packet
<1>8. TypeOK'
  BY <1>5, <1>7 DEF GetBitStream, encoder, IInv, TypeOK
<1>9. step' = step /\ busy' = busy
  BY DEF GetBitStream, encoder
<1>10. QED BY <1>6, <1>8, <1>9 DEF IInv

LEMMA SkpBitStreamKeeps ==
  ASSUME IInv, NEW k \in DOMAIN held, SkpBitStream(k)
  PROVE  /\ IInv'
         /\ held[k].len \in Nat /\ held[k].len <= Dist(rdTail, rdHead)
         /\ Dist(Base, rdTail) + held[k].len < BufLen
<1> DEFINE n == held[k].len
           dr == Dist(Base, rdTail)
           dh == Dist(Base, rdHead)
<1>1. /\ {rdHead, rdTail, wrHead, wrTail, hwRp, hwWp} \subseteq Offset /\ n \in Nat
      /\ held \in Seq(Packet) /\ k \in 1..Len(held)
  <2>1. held \in Seq(Packet) /\ k \in 1..Len(held)
    BY DEF IInv, TypeOK
  <2>2. held[k] \in Packet
    BY <2>1, ElementOfSeq
  <2>3. n \in Nat
    BY <2>2, VencStreamAssumption DEF Packet
  <2>4. QED BY <2>1, <2>3 DEF IInv, TypeOK
<1>2. n <= Dist(rdTail, rdHead)
  BY <1>1, CanReleaseBound DEF SkpBitStream, SkipLen
<1>3. /\ dr \in Nat /\ dh \in Nat /\ dh < BufLen /\ BufLen \in Nat
      /\ Dist(rdTail, rdHead) = dh - dr /\ Base \in Offset
  BY Rebased, DistType
<1>4. dr + n <= dh /\ dr + n < BufLen
  <2> HIDE DEF n, dr, dh
  <2>1. QED BY <1>1, <1>2, <1>3
<1>5. rdTail' \in Offset /\ Dist(Base, rdTail') = dr + n
  <2>1. rdTail' = Turn(rdTail + n)
    BY DEF SkpBitStream, SkipLen
  <2>2. QED BY <1>1, <1>3, <1>4, <2>1, DistTurn
<1>6. /\ Dist(Base, rdTail') <= Dist(Base, rdHead)
      /\ rdHead' = rdHead /\ wrTail' = wrTail /\ wrHead' = wrHead /\ Top' = Top
  BY <1>4, <1>5 DEF SkpBitStream, encoder, Top
<1>7. Ordered'
  <2>1. CASE busy
    BY <2>1, <1>6 DEF SkpBitStream, encoder, IInv, Ordered, Base, Dist
  <2>2. CASE ~busy
    <3>1. Base = rdTail /\ Base' = rdTail' /\ Dist(Base, rdTail) = 0
      BY <2>2, <1>1, DistType DEF SkpBitStream, encoder, Base
    <3>2. /\ Dist(Base, rdHead) \in Nat /\ Dist(Base, wrTail) \in Nat
          /\ Dist(Base, wrHead) \in Nat /\ Dist(Base, Top) \in Nat /\ Dist(Base, rdTail') = n
      BY <1>1, <1>5, <3>1, Rebased DEF IInv, Ordered
    <3>3. /\ Dist(rdTail', rdHead) = Dist(Base, rdHead) - n
          /\ Dist(rdTail', wrTail) = Dist(Base, wrTail) - n
          /\ Dist(rdTail', wrHead) = Dist(Base, wrHead) - n
          /\ Dist(rdTail', Top) = Dist(Base, Top) - n
      <4>1. /\ n <= Dist(Base, rdHead) /\ n <= Dist(Base, wrTail)
            /\ n <= Dist(Base, wrHead) /\ n <= Dist(Base, Top)
        BY <1>6, <3>2, <1>1 DEF IInv, Ordered
      <4>2. QED BY <4>1, <3>2, <1>5, Rebased, DistBetween
    <3>4. Dist(rdTail', rdTail') = 0
      BY <1>5, DistType
    <3>5. /\ 0 <= Dist(rdTail', rdHead) /\ Dist(rdTail', rdHead) <= Dist(rdTail', wrTail)
          /\ Dist(rdTail', wrTail) <= Dist(rdTail', wrHead)
          /\ Dist(rdTail', wrHead) <= Dist(rdTail', Top)
          /\ Dist(rdTail', Top) + Rsv <= BufLen
      <4>1. /\ n <= Dist(Base, rdHead) /\ Dist(Base, rdHead) <= Dist(Base, wrTail)
            /\ Dist(Base, wrTail) <= Dist(Base, wrHead) /\ Dist(Base, wrHead) <= Dist(Base, Top)
            /\ Dist(Base, Top) + Rsv <= BufLen
        BY <1>5, <1>6, <3>2 DEF IInv, Ordered
      <4> HIDE DEF n
      <4>2. QED BY <4>1, <3>2, <3>3, <1>1, VencStreamAssumption
    <3>6. QED BY <3>1, <3>4, <3>5, <1>6 DEF Ordered, Dist
  <2>3. QED BY <2>1, <2>2
<1>8. mem' \in [Offset -> 0..BufLen]
  BY VencStreamAssumption DEF SkpBitStream, IInv, TypeOK, Forget
<1>9. held' \in Seq(Packet)
  BY <1>1, RemoveAtType DEF SkpBitStream
<1>10. IInv'
  BY <1>1, <1>5, <1>7, <1>8, <1>9 DEF SkpBitStream, encoder, IInv, TypeOK
<1>11. QED BY <1>1, <1>2, <1>4, <1>10

LEMMA OthersKeep ==
  ASSUME IInv, (\E i \in BOOLEAN : RcFrmRateCtrl(i)) \/ UNCHANGED vars
  PROVE  IInv'
<1> DEFINE Same ==
      /\ UNCHANGED <<rdHead, rdTail, wrHead, wrTail, mem, busy, hwRp, hwWp, lowDlyMod, held>>
      /\ rcStart' \in BOOLEAN /\ step' \in -1..Headers
      /\ step' # -1 => ~busy
<1>1. ASSUME NEW i \in BOOLEAN, RcFrmRateCtrl(i)
      PROVE  IInv'
  <2>1. step' \in {0, Headers} /\ ~busy /\ rcStart' = rcStart
    BY <1>1 DEF RcFrmRateCtrl
  <2>2. step' \in -1..Headers
    BY <2>1, VencStreamAssumption
  <2>3. Same
    BY <1>1, <2>1, <2>2 DEF IInv, TypeOK, RcFrmRateCtrl, pointers, encoder
  <2>4. QED BY <2>3 DEF IInv, TypeOK, Ordered, Base, Top, Dist
<1>2. CASE UNCHANGED vars
  <2>1. Same
    BY <1>2 DEF IInv, TypeOK, vars, pointers, encoder
  <2>2. QED BY <2>1 DEF IInv, TypeOK, Ordered, Base, Top, Dist
<1>3. QED BY <1>1, <1>2

LEMMA Inductive == IInv /\ [Next]_vars => IInv'
<1> SUFFICES ASSUME IInv, [Next]_vars PROVE IInv'
  OBVIOUS
<1>1. CASE WriteHeader BY <1>1, WriteHeaderKeeps
<1>2. CASE StartOneFrame BY <1>2, StartKeeps
<1>3. CASE \E n \in PacketLen : HwWrite(n) BY <1>3, HwWriteKeeps
<1>4. CASE EndOneSlice BY <1>4, EndOneSliceKeeps
<1>5. CASE \E full, over \in BOOLEAN, wp \in Offset : EndOneFrame(full, over, wp)
  BY <1>5, EndOneFrameKeeps
<1>6. CASE \E n \in 0..BufLen : GetBitStream(n) BY <1>6, GetBitStreamKeeps
<1>7. CASE \E k \in DOMAIN held : SkpBitStream(k) BY <1>7, SkpBitStreamKeeps
<1>8. CASE (\E i \in BOOLEAN : RcFrmRateCtrl(i)) \/ UNCHANGED vars
  BY <1>8, OthersKeep
<1>9. QED BY <1>1, <1>2, <1>3, <1>4, <1>5, <1>6, <1>7, <1>8 DEF Next

(* No step changes a unit that is neither free nor released in that step. *)
LEMMA Untouched ==
  ASSUME IInv, Next, NEW u \in Between(rdTail, wrHead)
  PROVE  mem'[u] = mem[u] \/ u \in Between(rdTail, rdTail')
<1>1. /\ u \in Offset /\ {rdTail, wrHead, rdHead, Base, Top} \subseteq Offset
      /\ Dist(rdTail, u) < Dist(rdTail, wrHead)
      /\ mem \in [Offset -> 0..BufLen]
  BY Rebased DEF Between, IInv, TypeOK
<1>2. CASE WriteHeader
  <2>1. u # wrHead
    BY <1>1, DistType
  <2>2. QED BY <1>1, <1>2, <2>1 DEF WriteHeader
<1>3. CASE \E n \in PacketLen : HwWrite(n)
  <2>1. PICK n \in PacketLen : HwWrite(n)
    BY <1>3
  <2>2. /\ busy /\ n \in Nat /\ Dist(hwRp, hwWp) + n + Rsv <= BufLen
        /\ Base = hwRp /\ Top = hwWp /\ n # 0
    BY <2>1, HwWriteFits, VencStreamAssumption DEF Base, Top
  <2>3. /\ Dist(hwRp, rdTail) + Dist(rdTail, wrHead) = Dist(hwRp, wrHead)
        /\ Dist(hwRp, wrHead) <= Dist(hwRp, hwWp)
    BY <2>2, <1>1, Rebased DEF IInv, Ordered
  <2>4. ~(Dist(hwWp, u) < n)
    <3>1. /\ hwRp \in Offset /\ hwWp \in Offset /\ Dist(rdTail, u) \in Nat
          /\ Dist(hwRp, rdTail) \in Nat /\ Dist(hwRp, hwWp) \in Nat /\ Dist(hwRp, hwWp) < BufLen
          /\ Dist(rdTail, wrHead) \in Nat /\ Dist(hwRp, wrHead) \in Nat /\ BufLen \in Nat
      BY <2>2, <1>1, DistType
    <3>2. Dist(hwRp, u) = Dist(hwRp, rdTail) + Dist(rdTail, u)
      BY <3>1, <2>3, <1>1, DistAdd
    <3>3. Dist(hwWp, u) = BufLen - (Dist(hwRp, hwWp) - Dist(hwRp, u))
      BY <3>1, <3>2, <2>3, <1>1, DistBack
    <3>4. QED BY <3>1, <3>2, <3>3, <2>2, VencStreamAssumption
  <2>5. u # hwWp
    BY <2>2, <2>4, <1>1, DistType
  <2>6. QED BY <2>1, <2>4, <2>5, <1>1 DEF HwWrite
<1>4. CASE \E full, over \in BOOLEAN, wp \in Offset : EndOneFrame(full, over, wp)
  <2>1. PICK full \in BOOLEAN, over \in BOOLEAN, wp \in Offset : EndOneFrame(full, over, wp)
    BY <1>4
  <2>2. busy /\ Top = hwWp /\ wrHead' \in {wrHead, hwWp} /\ mem' = Forget(Between(wrHead', hwWp))
    BY <2>1 DEF EndOneFrame, Top
  <2>3. u \notin Between(wrHead', hwWp)
    <3>1. Dist(rdTail, wrHead) <= Dist(rdTail, hwWp)
      BY <2>2, <1>1, Rebased DEF IInv, Ordered
    <3>2. /\ Dist(rdTail, u) \in Nat /\ Dist(rdTail, wrHead) \in Nat /\ Dist(rdTail, hwWp) \in Nat
          /\ Dist(rdTail, hwWp) < BufLen /\ BufLen \in Nat /\ hwWp \in Offset
          /\ Dist(hwWp, u) \in Nat /\ Dist(hwWp, hwWp) = 0
      BY <1>1, <2>2, DistType
    <3>3. Dist(wrHead, u) = BufLen - (Dist(rdTail, wrHead) - Dist(rdTail, u))
      BY <1>1, DistBack
    <3>4. Dist(wrHead, hwWp) = Dist(rdTail, hwWp) - Dist(rdTail, wrHead)
      BY <1>1, <3>1, <3>2, DistBetween
    <3>5. ~(Dist(wrHead, u) < Dist(wrHead, hwWp)) /\ ~(Dist(hwWp, u) < Dist(hwWp, hwWp))
      BY <3>2, <3>3, <3>4
    <3>6. QED BY <3>5, <2>2 DEF Between
  <2>4. QED BY <2>2, <2>3, <1>1 DEF Forget
<1>5. CASE \E k \in DOMAIN held : SkpBitStream(k)
  <2>1. mem' = Forget(Between(rdTail, rdTail'))
    BY <1>5 DEF SkpBitStream
  <2>2. QED BY <2>1, <1>1 DEF Forget
<1>6. CASE \/ StartOneFrame \/ EndOneSlice
           \/ \E i \in BOOLEAN : RcFrmRateCtrl(i)
           \/ \E n \in 0..BufLen : GetBitStream(n)
  BY <1>6 DEF StartOneFrame, EndOneSlice, RcFrmRateCtrl, GetBitStream
<1>7. QED BY <1>2, <1>3, <1>4, <1>5, <1>6 DEF Next

LEMMA Invariant == Spec => []IInv
BY Initially, Inductive, PTL DEF Spec

-----------------------------------------------------------------------------
(* The theorems. *)

(* Type correctness: every pointer stays an offset of the buffer.           *)
THEOREM TypeCorrect == Spec => []TypeOK
<1>1. IInv => TypeOK
  BY DEF IInv
<1>2. QED BY Invariant, <1>1, PTL

(* A writer never catches up with unreleased data, and BufIsVaild never     *)
(* fails: for every length, reserve and behaviour of encoder and user. *)
THEOREM NeverCatchesUp == Spec => []NoCatchUp
<1>1. IInv => NoCatchUp
  <2> SUFFICES ASSUME IInv PROVE NoCatchUp
    OBVIOUS
  <2>1. /\ Dist(rdTail, rdHead) \in Nat /\ Dist(rdHead, wrTail) \in Nat
        /\ Dist(wrTail, wrHead) \in Nat /\ Dist(wrHead, Top) \in Nat
        /\ Dist(Base, rdTail) \in Nat /\ Dist(Base, rdHead) \in Nat /\ Dist(Base, wrTail) \in Nat
        /\ Dist(Base, wrHead) \in Nat /\ Dist(Base, Top) \in Nat
    BY Rebased DEF IInv, Ordered
  <2>2. Dist(rdTail, rdHead) + Dist(rdHead, wrTail) + Dist(wrTail, wrHead)
          + Dist(wrHead, Top) + Rsv <= BufLen
    BY <2>1, Rebased, VencStreamAssumption DEF IInv, Ordered
  <2>3. Dist(rdTail, rdHead) + Dist(rdHead, wrTail) + Dist(wrTail, wrHead)
          + (IF busy THEN Dist(wrHead, hwWp) ELSE 0) + Rsv <= BufLen
    BY <2>1, <2>2, VencStreamAssumption DEF Top
  <2>4. BufIsVaild
    BY <2>1, <2>2, Rebased, VencStreamAssumption DEF BufIsVaild, Dist, Offset
  <2>5. QED BY <2>3, <2>4 DEF NoCatchUp
<1>2. QED BY Invariant, <1>1, PTL

(* The unsigned subtraction of VENC_DRV_BufGetFreeLen never wraps. *)
THEOREM FreeLenNeverWraps == Spec => []FreeIsFree
<1>1. IInv => FreeIsFree
  <2> SUFFICES ASSUME IInv PROVE FreeIsFree
    OBVIOUS
  <2>1. Dist(rdTail, wrHead) + Rsv <= BufLen
    BY Rebased DEF IInv, Ordered
  <2>2. QED BY <2>1, Rebased, FreeLenExact DEF FreeIsFree
<1>2. QED BY Invariant, <1>1, PTL

(* No step changes a unit that is neither free nor released in that step. *)
THEOREM UnreadNeverOverwritten == Spec => UnreadStays
<1> DEFINE Step == \A u \in Between(rdTail, wrHead) :
                     mem'[u] = mem[u] \/ u \in Between(rdTail, rdTail')
<1>1. IInv /\ [Next]_vars => [Step]_vars
  BY Untouched
<1>2. QED BY Invariant, <1>1, PTL DEF Spec, UnreadStays
=============================================================================
