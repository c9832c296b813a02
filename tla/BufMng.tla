------------------------------ MODULE BufMng ------------------------------
(***************************************************************************)
(* The elementary-stream buffer manager of the video decoder driver        *)
(* (source/msp/drv/vdec/drv_vdec_buf_mng.c), one buffer instance.          *)
(*                                                                         *)
(* A writer (the ES injection path of the user library) takes a region of  *)
(* a ring of Size units, fills it and commits it; a reader (the decoder)   *)
(* acquires committed regions and releases them.  Every entry point runs   *)
(* under the instance's spin lock, so each is one action.  Addresses are   *)
(* offsets from the start of the buffer.                                   *)
(*                                                                         *)
(* The build that is modelled: BUFMNG_MARKER_SUPPORT, PARTED_FRAME and     *)
(* MULTI_READ_SUPPORT on; GET_SMSP, INDEX and 64BITS_PTS off.              *)
(***************************************************************************)
EXTENDS Integers, Sequences, SequencesExt

CONSTANTS
  Size,       \* u32Size: units in the buffer
  Word,       \* the modulus of the 32-bit unsigned arithmetic
  MaxHeld,    \* how many packets the decoder holds at once
  InOrder,    \* the decoder releases its packets in the order it got them
  MayDrop,    \* the writer may give a region back unused (put of size 0)
  MayFail,    \* HI_KMALLOC(GFP_ATOMIC) of a block descriptor may fail
  ResetHeld   \* a reset may come while the decoder still holds packets

ASSUME BufMngAssumption ==
  /\ Size \in Nat \ {0}
  /\ Word \in Nat /\ Word > 2 * Size
  /\ MaxHeld \in Nat \ {0}
  /\ {InOrder, MayDrop, MayFail, ResetHeld} \subseteq BOOLEAN

VARIABLES
  blocks,     \* stBlockHead: the block list, oldest first
  used,       \* u32Used
  free,       \* u32Free
  freeze,     \* u32Freeze: the area given up at the end when writing wraps
  dataNum,    \* u32DataNum: committed blocks that end a frame
  writer,     \* what the writer is doing (bGetPutFlag and stLastGet)
  held        \* addresses of the packets the decoder holds

vars == <<blocks, used, free, freeze, dataNum, writer, held>>

Block == [addr: 0..Size, size: 0..Size,
          status: {"FREE", "READING", "WRITING"}, eof: BOOLEAN]

Idle == [state |-> "idle", addr |-> 0, size |-> 0]
Writer == [state: {"idle", "want", "got"}, addr: 0..Size, size: 0..Size]

(* Unsigned 32-bit subtraction. *)
Sub(a, b) == IF a >= b THEN a - b ELSE a - b + Word

End(b) == b.addr + b.size
Committed(b) == b.status # "WRITING"
Tail1 == blocks[Len(blocks)]    \* BUFMNG_FIND_TAIL_BLOCK
Busy == blocks # <<>> /\ Tail1.status = "WRITING"

Init ==
  /\ blocks = <<>>
  /\ used = 0 /\ free = Size /\ freeze = 0 /\ dataNum = 0
  /\ writer = Idle
  /\ held = <<>>

-----------------------------------------------------------------------------
(* BUFMNG_GetWriteBuffer: where a region of s units goes.                   *)

WriteOff == IF blocks = <<>> THEN 0 ELSE End(Tail1)
ReadOff  == IF blocks = <<>> THEN 0 ELSE blocks[1].addr
TailFree == Sub(Size, WriteOff)
HeadFree == Sub(free, TailFree)

(* Mutant: the room at the start is taken to be one unit short. *)
AtStartShort(s) == ~(WriteOff <= ReadOff \/ TailFree >= s) /\ HeadFree > s
(* Mutant: the room at the start is not checked. *)
AtStartUnchecked(s) == ~(WriteOff <= ReadOff \/ TailFree >= s)

Reversed == WriteOff <= ReadOff
AtWriteOff(s) == Reversed \/ TailFree >= s
AtStart(s) == ~AtWriteOff(s) /\ HeadFree >= s
CanPlace(s) == free >= s /\ ~Busy /\ (AtWriteOff(s) \/ AtStart(s))

(* Mutant: the frozen area is still counted as free. *)
FreezeTailStillFree(s) ==
  /\ freeze' = IF AtStart(s) THEN TailFree ELSE freeze
  /\ free' = free

(* Writing wraps to the start: the rest of the tail is frozen.  The code    *)
(* does this before it allocates the block descriptor.                      *)
FreezeTail(s) ==
  /\ freeze' = IF AtStart(s) THEN TailFree ELSE freeze
  /\ free' = IF AtStart(s) THEN free - TailFree ELSE free

-----------------------------------------------------------------------------
(* The operations.                                                          *)

(* The injection path wants s units; it retries until it is served.         *)
Request(s) ==
  /\ writer.state = "idle"
  /\ writer' = [state |-> "want", addr |-> 0, size |-> s]
  /\ UNCHANGED <<blocks, used, free, freeze, dataNum, held>>

(* HI_ERR_BM_BUFFER_FULL and HI_ERR_BM_BUSY change nothing: no action.      *)
GetWriteBuffer ==
  LET s == writer.size
      a == IF AtStart(s) THEN 0 ELSE WriteOff IN
  /\ writer.state = "want"
  /\ CanPlace(s)
  /\ FreezeTail(s)
  /\ blocks' = Append(blocks, [addr |-> a, size |-> s,
                               status |-> "WRITING", eof |-> TRUE])
  /\ writer' = [state |-> "got", addr |-> a, size |-> s]
  /\ UNCHANGED <<used, dataNum, held>>

(* The same call when the descriptor cannot be allocated: the area is       *)
(* already frozen.                                                          *)
GetNoMemory ==
  /\ MayFail
  /\ writer.state = "want"
  /\ CanPlace(writer.size)
  /\ FreezeTail(writer.size)
  /\ UNCHANGED <<blocks, used, dataNum, writer, held>>

(* The writer's region is the tail block and is still being written.        *)
PutAccepted == Busy /\ writer.state = "got" /\ writer.addr = Tail1.addr

FrameAdded(eof) == IF eof THEN dataNum + 1 ELSE dataNum

(* BUFMNG_PutWriteBuffer of n > 0 units.  eof: the packet ends a frame.     *)
PutWriteBuffer(n, eof) ==
  /\ PutAccepted
  /\ n \in 1..Tail1.size
  /\ blocks' = [blocks EXCEPT ![Len(blocks)] =
                  [addr |-> Tail1.addr, size |-> n, status |-> "FREE", eof |-> eof]]
  /\ used' = used + n
  /\ free' = free - n
  /\ dataNum' = FrameAdded(eof)
  /\ writer' = Idle
  /\ UNCHANGED <<freeze, held>>

(* Mutant: the head of the list is dropped, not the tail. *)
PutNothingHead ==
  /\ MayDrop
  /\ PutAccepted
  /\ blocks' = Tail(blocks)
  /\ writer' = Idle
  /\ UNCHANGED <<used, free, freeze, dataNum, held>>

(* BUFMNG_PutWriteBuffer of 0 units drops the block; freeze and free stay.  *)
PutNothing ==
  /\ MayDrop
  /\ PutAccepted
  /\ blocks' = Front(blocks)
  /\ writer' = Idle
  /\ UNCHANGED <<used, free, freeze, dataNum, held>>

(* BUFMNG_AcqReadBuffer: the oldest block nobody reads yet.                 *)
AcqReadBuffer ==
  /\ Len(held) < MaxHeld
  /\ used # 0
  /\ \E i \in DOMAIN blocks :
       /\ blocks[i].status = "FREE"
       /\ \A j \in 1..(i-1) : blocks[j].status # "FREE"
       /\ blocks' = [blocks EXCEPT ![i].status = "READING"]
       /\ held' = Append(held, blocks[i].addr)
  /\ UNCHANGED <<used, free, freeze, dataNum, writer>>

(* Mutant: the frozen area is looked for at the end of the buffer. *)
UnfreezesAtEnd(b) == freeze # 0 /\ End(b) = Size

Unfreezes(b) == freeze # 0 /\ End(b) = Size - freeze

FrameRemoved(b) == IF b.eof /\ dataNum > 0 THEN dataNum - 1 ELSE dataNum

(* BUFMNG_RlsReadBuffer of the packet at address a: the first block there.  *)
(* The unfreeze comes before the status check.                              *)
ReleaseBlock(a) ==
  \E i \in DOMAIN blocks :
    LET b == blocks[i]
        back == IF Unfreezes(b) THEN freeze ELSE 0
    IN
    /\ b.addr = a
    /\ \A j \in 1..(i-1) : blocks[j].addr # a
    /\ freeze' = freeze - back
    /\ IF b.status = "READING"
         THEN /\ blocks' = RemoveAt(blocks, i)
              /\ used' = used - b.size
              /\ free' = free + back + b.size
              /\ dataNum' = FrameRemoved(b)
         ELSE /\ free' = free + back
              /\ UNCHANGED <<blocks, used, dataNum>>

NoBlockAt(a) == \A i \in DOMAIN blocks : blocks[i].addr # a

(* The decoder lets go of the k-th packet it holds.                         *)
RlsReadBuffer(k) ==
  /\ InOrder => k = 1
  /\ held' = RemoveAt(held, k)
  /\ UNCHANGED writer
  /\ \/ ReleaseBlock(held[k])
     \/ NoBlockAt(held[k]) /\ UNCHANGED <<blocks, used, free, freeze, dataNum>>

(* VDEC_ResetStreamBuf: the library forgets its region, then BUFMNG_Reset.  *)
Reset ==
  /\ ResetHeld \/ held = <<>>
  /\ blocks' = <<>>
  /\ used' = 0 /\ free' = Size /\ freeze' = 0 /\ dataNum' = 0
  /\ writer' = Idle
  /\ UNCHANGED held

Next ==
  \/ \E s \in 0..Size : Request(s)
  \/ GetWriteBuffer
  \/ GetNoMemory
  \/ \E n \in 1..Size, eof \in BOOLEAN : PutWriteBuffer(n, eof)
  \/ PutNothing
  \/ AcqReadBuffer
  \/ \E k \in DOMAIN held : RlsReadBuffer(k)
  \/ Reset

Spec == Init /\ [][Next]_vars

(* A kernel call that is possible is made: the writer retries on FULL and   *)
(* commits what it took, the decoder keeps asking for packets and letting   *)
(* go of the ones it has decoded.                                           *)
Fairness ==
  /\ WF_vars(GetWriteBuffer)
  /\ WF_vars(\E n \in 1..Size, eof \in BOOLEAN : PutWriteBuffer(n, eof))
  /\ WF_vars(AcqReadBuffer)
  /\ WF_vars(\E k \in DOMAIN held : RlsReadBuffer(k))

FairSpec == Spec /\ Fairness

-----------------------------------------------------------------------------
(* Properties.                                                              *)

(* Type invariant.  The ranges also say that none of the 32-bit counters    *)
(* wraps: only HeadFree may.                                                *)
TypeOK ==
  /\ blocks \in Seq(Block)
  /\ used \in 0..Size /\ free \in 0..Size /\ freeze \in 0..Size
  /\ dataNum \in Nat
  /\ writer \in Writer
  /\ held \in Seq(0..Size)

(* Two blocks of the list, committed or being written, share no unit of the *)
(* buffer, and none runs past its end: BUFMNG_GetWriteBuffer never hands    *)
(* out memory that holds packets the decoder has not released.              *)
Disjoint(b, c) == End(b) <= c.addr \/ End(c) <= b.addr \/ b.size = 0 \/ c.size = 0

NoOverlap ==
  /\ \A i \in DOMAIN blocks : End(blocks[i]) <= Size
  /\ \A i, j \in DOMAIN blocks : i # j => Disjoint(blocks[i], blocks[j])

(* The BUFMNG_DEBUG check at the end of Put and Rls ("UNmatch when write"   *)
(* and "UNmatch when read"): every unit of the buffer is used, free or      *)
(* frozen.                                                                  *)
Conserved == used + free + freeze = Size

(* A frozen area can be given back: the block whose release unfreezes it is *)
(* still in the list.  So an empty list has no frozen area.                 *)
FreezeHasOwner ==
  freeze # 0 => \E i \in DOMAIN blocks :
                  Committed(blocks[i]) /\ End(blocks[i]) = Size - freeze

(* The writer is refused only for want of room: if s contiguous units lie   *)
(* free behind the newest block, or at the start before the oldest one, the *)
(* call succeeds.                                                           *)
RoomBehind == IF blocks = <<>> THEN Size
              ELSE IF WriteOff <= ReadOff THEN ReadOff - WriteOff ELSE Size - WriteOff
RoomAtStart == IF blocks = <<>> \/ WriteOff <= ReadOff THEN 0 ELSE ReadOff
RefusedOnlyWhenFull ==
  ~Busy => \A s \in 1..Size : s <= RoomBehind \/ s <= RoomAtStart => CanPlace(s)

(* A packet the decoder holds is not taken from it: its block stays where   *)
(* it is, READING, until the decoder releases it.                           *)
HeldStays ==
  [][\A i \in DOMAIN blocks :
       (blocks[i].status = "READING" /\ blocks[i].addr \in ToSet(held')) =>
          \E j \in DOMAIN blocks' : blocks'[j] = blocks[i]]_vars

(* A writer that waits for room is served in the end.                       *)
WriterServed == writer.state = "want" ~> writer.state # "want"
=============================================================================
