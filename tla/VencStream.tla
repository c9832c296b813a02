----------------------------- MODULE VencStream -----------------------------
(***************************************************************************)
(* The stream buffer of one encoder channel (drv_venc_buf_mng.h and its    *)
(* callers in drv_venc_efl.c): the driver writes the SPS and PPS packets of *)
(* an intra frame, the encoder writes the packets of the frame, the driver *)
(* makes them readable at the end of the frame (or slice), the user takes  *)
(* packets and releases them.                                              *)
(*                                                                         *)
(* A unit is 64 bytes: a packet is one unit of header, which holds the     *)
(* packet's length, and the units of its data.  Offsets are units from the *)
(* start of the buffer.  The lock of the buffer is held by the end of a    *)
(* frame, by a read and by a release; the start of a frame writes its      *)
(* headers without it, so each of these writes is a step.                  *)
(***************************************************************************)
EXTENDS Integers, Sequences, SequencesExt

CONSTANTS
  BufLen,     \* u32BufLen
  Rsv,        \* u32RsvByte
  Word,       \* the modulus of the 32-bit unsigned arithmetic
  TooFew,     \* fewer free units than this and a frame is skipped
  Headers,    \* header units of an intra frame: 4 for H.264, 2 for MPEG-4
  PacketLen,  \* the lengths of the packets the encoder writes
  MaxHeld,    \* how many packets the user holds at once
  MayCut      \* may lost frames leave a first frame no room for its headers?

ASSUME VencStreamAssumption ==
  /\ Rsv \in Nat \ {0} /\ BufLen \in Nat /\ BufLen > Rsv
  /\ Word \in Nat /\ Word > 2 * BufLen
  /\ TooFew \in Nat /\ Headers \in Nat
  /\ PacketLen \subseteq 2..BufLen
  /\ MaxHeld \in Nat \ {0} /\ MayCut \in BOOLEAN

VARIABLES
  rdHead, rdTail, wrHead, wrTail,   \* u32RdHead ... u32WrTail
  mem,        \* a header's unit holds the packet's length, any other unit 0
  rcStart,    \* RcStart: no frame yet; the next one is taken whatever the room
  step,       \* header units done of the frame being started; -1 if none
  busy,       \* the encoder works on a frame
  hwRp, hwWp, \* the words at StrmBufRpAddr and StrmBufWpAddr
  lowDlyMod,  \* LowDlyMod: slices are handed over one by one
  held        \* the packets the user has taken, oldest first

pointers == <<rdHead, rdTail, wrHead, wrTail>>
encoder == <<busy, hwRp, hwWp, lowDlyMod>>
vars == <<pointers, mem, rcStart, step, encoder, held>>

Offset == 0..(BufLen - 1)
Packet == [at: Offset, len: 0..BufLen]

(* Unsigned 32-bit subtraction, and an offset n units further on.           *)
Sub(a, b) == IF a >= b THEN a - b ELSE a - b + Word
(* Mutant: the end of the buffer is not the start. *)
TurnLate(a) == IF a > BufLen THEN a - BufLen ELSE a
Turn(a) == IF a >= BufLen THEN a - BufLen ELSE a
Dist(a, b) == IF b >= a THEN b - a ELSE BufLen - a + b
Between(a, b) == {u \in Offset : Dist(a, u) < Dist(a, b)}

Init ==
  /\ rdHead = 0 /\ rdTail = 0 /\ wrHead = 0 /\ wrTail = 0
  /\ mem = [u \in Offset |-> 0]
  /\ rcStart = TRUE
  /\ step = -1
  /\ busy = FALSE /\ hwRp = 0 /\ hwWp = 0 /\ lowDlyMod \in BOOLEAN
  /\ held = <<>>

-----------------------------------------------------------------------------
(* The lengths and tests of drv_venc_buf_mng.h.                             *)

BufIsVaild ==
  \/ rdTail <= rdHead /\ rdHead <= wrTail /\ wrTail <= wrHead
  \/ wrHead <= rdTail /\ rdTail <= rdHead /\ rdHead <= wrTail
  \/ wrTail <= wrHead /\ wrHead <= rdTail /\ rdTail <= rdHead
  \/ rdHead <= wrTail /\ wrTail <= wrHead /\ wrHead <= rdTail

DataLen == IF wrTail >= rdHead THEN wrTail - rdHead ELSE BufLen - (rdHead - wrTail)

(* Mutant: the reserve is not taken off. *)
FreeLenNoReserve == IF wrHead >= rdTail THEN BufLen - (wrHead - rdTail) ELSE rdTail - wrHead

(* Mutant: an empty buffer is taken for a full one. *)
FreeLenStrict == IF wrHead > rdTail THEN Sub(BufLen - (wrHead - rdTail), Rsv)
                                    ELSE Sub(rdTail - wrHead, Rsv)

FreeLen == IF wrHead >= rdTail THEN Sub(BufLen - (wrHead - rdTail), Rsv)
                               ELSE Sub(rdTail - wrHead, Rsv)

(* Mutant: a packet up to the end of the data is refused. *)
CanReadShort(n) ==
  IF rdHead <= wrTail THEN rdHead + n < wrTail
  ELSE rdHead + n >= BufLen => rdHead + n - BufLen <= wrTail

(* VENC_DRV_BufRead: the read head does not cross the write tail.           *)
CanRead(n) ==
  IF rdHead <= wrTail THEN rdHead + n <= wrTail
  ELSE rdHead + n >= BufLen => rdHead + n - BufLen <= wrTail

(* VENC_DRV_BufUpdateRp: the read tail does not cross the read head.        *)
CanRelease(n) ==
  IF rdHead >= rdTail THEN rdTail + n <= rdHead
  ELSE rdTail + n >= BufLen => rdTail + n - BufLen <= rdHead

-----------------------------------------------------------------------------
(* The start of a frame.                                                    *)

(* VENC_DRV_EflRcFrmRateCtrl lets the frame through: until one has fitted   *)
(* always, as an intra frame, afterwards when there is room.  Which frames  *)
(* are intra then is left open: the place in the group of pictures says so, *)
(* which a request of an intra frame sets to the last.  A frame that is not *)
(* intra has no headers.                                                    *)
RcFrmRateCtrl(intra) ==
  /\ step = -1 /\ ~busy
  /\ IF rcStart THEN intra /\ (MayCut \/ FreeLen >= Headers) ELSE FreeLen >= TooFew
  /\ step' = IF intra THEN 0 ELSE Headers
  /\ UNCHANGED <<pointers, mem, rcStart, encoder, held>>

(* What the k-th header unit holds: a packet's header, or its data.         *)
HeaderUnit(k) == IF k % 2 = 0 THEN 2 ELSE 0

(* VENC_DRV_BufWrite of one unit, its result ignored by the caller.         *)
WriteHeader ==
  LET ok == FreeLen >= 1 IN
  /\ step \in 0..(Headers - 1)
  /\ wrHead' = IF ok THEN Turn(wrHead + 1) ELSE wrHead
  /\ mem' = IF ok THEN [mem EXCEPT ![wrHead] = HeaderUnit(step)] ELSE mem
  /\ step' = step + 1
  /\ UNCHANGED <<rdHead, rdTail, wrTail, rcStart, encoder, held>>

(* Mutant: the encoder is told the read head. *)
KickReadHead == hwRp' = rdHead /\ hwWp' = wrHead

Kick == hwRp' = rdTail /\ hwWp' = wrHead

(* The end of VENC_DRV_EflStartOneFrameVenc.  (The code moves the write     *)
(* tail of an intra frame only; without headers it is there already.)       *)
StartOneFrame ==
  /\ step = Headers
  /\ wrTail' = wrHead
  /\ Kick
  /\ busy' = TRUE /\ step' = -1
  /\ UNCHANGED <<rdHead, rdTail, wrHead, mem, rcStart, lowDlyMod, held>>

-----------------------------------------------------------------------------
(* The encoder (external): it writes whole packets behind its write         *)
(* pointer and stays short of the read pointer it was given.                *)

HwRoom == IF hwWp >= hwRp THEN BufLen - (hwWp - hwRp) ELSE hwRp - hwWp

HwWrite(n) ==
  /\ busy /\ n + Rsv <= HwRoom
  /\ mem' = [u \in Offset |-> IF u = hwWp THEN n
                              ELSE IF Dist(hwWp, u) < n THEN 0 ELSE mem[u]]
  /\ hwWp' = Turn(hwWp + n)
  /\ UNCHANGED <<pointers, rcStart, step, busy, hwRp, lowDlyMod, held>>

(* VENC_DRV_EflEndOneSliceVenc *)
EndOneSlice ==
  /\ lowDlyMod /\ busy /\ hwWp # wrHead
  /\ wrHead' = hwWp /\ wrTail' = hwWp
  /\ UNCHANGED <<rdHead, rdTail, mem, rcStart, step, encoder, held>>

Forget(set) == [u \in Offset |-> IF u \in set THEN 0 ELSE mem[u]]

Taken(full, over) == lowDlyMod \/ ~full \/ ~over

(* VENC_DRV_EflEndOneFrameVenc and VENC_DRV_EflRcCloseOneFrm.  A frame that *)
(* did not fit is lost; the encoder keeps its last packets or takes them    *)
(* back (wp).  The two words are written again before it reads them.        *)
EndOneFrame(full, over, wp) ==
  LET last == IF Taken(full, over) THEN wp ELSE wrHead IN
  /\ busy /\ busy' = FALSE
  /\ wp = hwWp \/ ((full \/ over) /\ wp = wrHead)
  /\ wrHead' = last
  /\ wrTail' = IF Taken(full, over) THEN last ELSE wrTail
  /\ mem' = Forget(Between(last, hwWp))
  /\ rcStart' = (rcStart /\ (full \/ over))
  /\ hwRp' = 0 /\ hwWp' = 0
  /\ UNCHANGED <<rdHead, rdTail, step, lowDlyMod, held>>

-----------------------------------------------------------------------------
(* The user.                                                                *)

(* VENC_DRV_EflGetBitStream: the length is read from the header at the read *)
(* head.  Data that is taken for a header gives any length.                 *)
GetBitStream(n) ==
  /\ Len(held) < MaxHeld
  /\ BufIsVaild /\ DataLen # 0
  /\ mem[rdHead] \in {0, n} /\ CanRead(n)
  /\ held' = Append(held, [at |-> rdHead, len |-> n])
  /\ rdHead' = Turn(rdHead + n)
  /\ UNCHANGED <<rdTail, wrHead, wrTail, mem, rcStart, step, encoder>>

(* Mutant: the header's unit is not counted. *)
SkipDataOnly(p) == p.len - 1

SkipLen(p) == p.len

(* Mutant: the address is not compared with the read tail. *)
AnyPacket(p) == TRUE

OldestPacket(p) == p.at = rdTail

(* VENC_DRV_EflSkpBitStream: refused unless the packet is the oldest one.   *)
SkpBitStream(k) ==
  LET p == held[k] IN
  /\ BufIsVaild /\ OldestPacket(p) /\ CanRelease(SkipLen(p))
  /\ rdTail' = Turn(rdTail + SkipLen(p))
  /\ mem' = Forget(Between(rdTail, rdTail'))
  /\ held' = RemoveAt(held, k)
  /\ UNCHANGED <<rdHead, wrHead, wrTail, rcStart, step, encoder>>

Next ==
  \/ \E intra \in BOOLEAN : RcFrmRateCtrl(intra)
  \/ WriteHeader
  \/ StartOneFrame
  \/ \E n \in PacketLen : HwWrite(n)
  \/ EndOneSlice
  \/ \E full, over \in BOOLEAN, wp \in Offset : EndOneFrame(full, over, wp)
  \/ \E n \in 0..BufLen : GetBitStream(n)
  \/ \E k \in DOMAIN held : SkpBitStream(k)

Spec == Init /\ [][Next]_vars

(* The user takes what there is and releases it.                            *)
Fairness ==
  /\ WF_vars(\E n \in 0..BufLen : GetBitStream(n))
  /\ WF_vars(\E k \in DOMAIN held : SkpBitStream(k))

FairSpec == Spec /\ Fairness

-----------------------------------------------------------------------------
(* Properties.                                                              *)

TypeOK ==
  /\ {rdHead, rdTail, wrHead, wrTail, hwRp, hwWp} \subseteq Offset
  /\ mem \in [Offset -> 0..BufLen]
  /\ {rcStart, busy, lowDlyMod} \subseteq BOOLEAN
  /\ step \in -1..Headers
  /\ held \in Seq(Packet)

(* Going round the buffer from the read tail one meets the read head, the   *)
(* write tail, the write head and the encoder's pointer, then at least the  *)
(* reserve: a writer never catches up with what the user has not released,  *)
(* a full buffer never looks empty, and BufIsVaild never fails.             *)
NoCatchUp ==
  /\ Dist(rdTail, rdHead) + Dist(rdHead, wrTail) + Dist(wrTail, wrHead)
       + (IF busy THEN Dist(wrHead, hwWp) ELSE 0) + Rsv <= BufLen
  /\ BufIsVaild

(* VENC_DRV_BufGetFreeLen does not wrap: what it says is free is free.      *)
FreeIsFree == FreeLen = BufLen - Rsv - Dist(rdTail, wrHead)

(* No unit between the read tail and the write head changes until the user  *)
(* releases it: neither the encoder, which has the read tail of the start   *)
(* of its frame, nor a header write touches it.                             *)
UnreadStays ==
  [][\A u \in Between(rdTail, wrHead) :
       mem'[u] = mem[u] \/ u \in Between(rdTail, rdTail')]_vars

(* The packets that lie from offset a up to b, by their lengths; junk is    *)
(* a packet of length 0.                                                    *)
Packets(a, b) ==
  LET f[n \in 0..BufLen] ==    \* the packets of the last n units before b
        LET u == Turn(b + BufLen - n) IN
        IF n = 0 THEN <<>>
        ELSE IF mem[u] \in 1..n THEN <<mem[u]>> \o f[n - mem[u]] ELSE <<0>>
  IN f[Dist(a, b)]

(* "Get One Nalu address & length(include 64-byte packet header)": what the *)
(* user gets begins with a header and is as long as it says.                *)
OneNalu ==
  /\ 0 \notin ToSet(Packets(rdTail, wrTail))
  /\ \A i \in DOMAIN held : mem[held[i].at] = held[i].len

Lens(s) == [i \in DOMAIN s |-> s[i].len]
Fifo == INSTANCE VencPackets WITH ready <- Packets(rdHead, wrTail), taken <- Lens(held)

(* The ring implements the packet queue: packets come out whole, once and   *)
(* in order, however often it wraps and whatever frames were lost.          *)
IsPacketQueue == Fifo!Init /\ [][Fifo!Next]_(Fifo!pvars)

(* A user that asks is served and a packet it holds can be released:        *)
(* VENC_DRV_BufRead and VENC_DRV_BufUpdateRp never refuse what is right.    *)
ReaderServed ==
  /\ (DataLen # 0 /\ held = <<>>) ~> (held # <<>>)
  /\ (Len(held) = MaxHeld) ~> (Len(held) < MaxHeld)
=============================================================================
