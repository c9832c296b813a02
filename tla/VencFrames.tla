----------------------------- MODULE VencFrames -----------------------------
(***************************************************************************)
(* The way of a picture through the video encoder driver (drv_venc_efl.c,  *)
(* drv_venc.c): a source that was attached to a channel (display, video    *)
(* input, window) queues its frames; the frame task, or the interrupt      *)
(* handler when it ends a picture, picks a channel under the channel lock  *)
(* and starts the one encoder; the interrupt handler gives the frame back  *)
(* to the source.  Control calls (start, stop, destroy) hold the driver    *)
(* mutex; sources, the task and the interrupt handler do not.              *)
(*                                                                         *)
(* A channel is its index in g_stVencChn; a slot is an index in VeduChnCtx,*)
(* taken when the channel starts.  All channels here have a source.  Those *)
(* the user feeds get their pictures from a port of VPSS                   *)
(* (VENC_DRV_EflJudgeVPSS), OMX channels from queues of their own.         *)
(***************************************************************************)
EXTENDS Integers, Sequences, SequencesExt, FiniteSetsExt, VencQueue

CONSTANTS
  Chn,        \* the channels, a subset of 1..Slots
  Slots,      \* MAX_VEDU_CHN
  Frame,      \* the frames the source of a channel has
  NoFrame,    \* no frame
  QDepth,     \* depth of FrameQueue
  Attached,   \* the indices of g_stVencChn with enSrcModId < HI_ID_BUTT
  Quick,      \* the channels with QuickEncode
  Priority,   \* the priority each channel is created with
  MaxPri,     \* bound of the priorities
  NewPri      \* the priorities VENC_DRV_SetAttr may be called with

ASSUME VencFramesAssumption ==
  /\ Slots \in Nat \ {0}
  /\ Chn \subseteq Attached /\ Attached \subseteq 1..Slots
  /\ NoFrame \notin Frame
  /\ QDepth \in Nat \ {0}
  /\ Quick \subseteq Chn
  /\ MaxPri \in Nat /\ Priority \in [Chn -> 0..MaxPri] /\ NewPri \subseteq 0..MaxPri

VARIABLES
  source,     \* the frames the source of each channel has
  fq,         \* FrameQueue of each channel
  image,      \* stImage: the frame being encoded
  waiting,    \* WaitingIsr of each channel
  slot,       \* VeduChnCtx: the channel in each slot, 0 for none
  table,      \* PriorityTab: slots by priority, 0 for INVAILD_CHN_FLAG
  setPri,     \* stChnUserCfg.u8Priority of each channel
  ipFree,     \* VeduIpCtx.IpFree
  curr,       \* VeduIpCtx.CurrHandle, 0 for none
  hw,         \* the encoder is working on a picture
  task,       \* where VENC_DRV_EflTask is, and the channel it found
  isr,        \* Venc_ISR is in the part after WaitingIsr = 0
  enabled,    \* bEnable of each channel
  live,       \* the channel exists
  stopping,   \* the channel VENC_DRV_EflStopVenc waits for, and its slot
  lost        \* history: the frames that were freed with FrameQueue

vars == <<source, fq, image, waiting, slot, table, setPri, ipFree, curr, hw,
          task, isr, enabled, live, stopping, lost>>
frames == <<source, fq, image, waiting, lost>>
encoder == <<ipFree, curr, hw, task, isr>>

Entry == [slot: 0..Slots, pri: 0..MaxPri]
NoEntry == [slot |-> 0, pri |-> 0]
Started == {slot[i] : i \in 1..Slots} \ {0}
SlotOf(c) == CHOOSE i \in 1..Slots : slot[i] = c
MutexFree == stopping.chn = 0

Init ==
  /\ source = [c \in Chn |-> Frame]
  /\ fq = [c \in Chn |-> NewQueue(QDepth)]
  /\ image = [c \in Chn |-> NoFrame]
  /\ waiting = [c \in Chn |-> FALSE]
  /\ slot = [i \in 1..Slots |-> 0]
  /\ table = [i \in 1..Slots |-> NoEntry]
  /\ setPri = Priority
  /\ ipFree = TRUE /\ curr = 0 /\ hw = FALSE
  /\ task = [at |-> "idle", chn |-> 0]
  /\ isr = FALSE
  /\ enabled = [c \in Chn |-> FALSE]
  /\ live = [c \in Chn |-> TRUE]
  /\ stopping = [chn |-> 0, slot |-> 0]
  /\ lost = [c \in Chn |-> {}]

-----------------------------------------------------------------------------
(* The priority table.                                                      *)

(* VENC_DRV_EflSortPriority: a bubble sort, highest first, that keeps the   *)
(* order of equals: each entry goes to the place that has as many places    *)
(* before it as there are entries that go first.                            *)
Goes(t, q, r) == t[q].pri > t[r].pri \/ (t[q].pri = t[r].pri /\ q <= r)
Rank(t, r) == Cardinality({q \in 1..Slots : Goes(t, q, r)})
SortPriority(t) ==
  [k \in 1..Slots |-> t[CHOOSE r \in 1..Slots : Rank(t, r) = k]]

(* Mutant: the channel at the head of its group stays there. *)
KeepsFirst(t, p) == t

(* VENC_DRV_EflSortPriority_2: the first channel of the priority of         *)
(* position p goes behind the others of that priority.                      *)
RotatePriority(t, p) ==
  LET group == {q \in 1..Slots : t[q].pri = t[p].pri /\ t[q].slot # 0}
      id == Min(group)
      last == id + Cardinality(group) - 1
  IN [q \in 1..Slots |-> IF q \in id..(last - 1) THEN t[q + 1]
                         ELSE IF q = last THEN t[id] ELSE t[q]]

FirstFree(t) == Min({j \in 1..Slots : t[j].slot = 0})

-----------------------------------------------------------------------------
(* VENC_DRV_EflQueryChn, under the channel lock: the channels are asked in  *)
(* the order of the table.  A frame that is got may be skipped (same time   *)
(* stamp, wrong size or format, frame-rate control): it goes back to the    *)
(* source (pfPutImage) and the next channel is asked.                       *)

ChnAt(p) == IF table[p].slot = 0 THEN 0 ELSE slot[table[p].slot]
Ready(p) == ChnAt(p) # 0 /\ CanDequeue(fq[ChnAt(p)])

(* Every channel that has a frame and stands before p is skipped.           *)
SkippedBefore(p) == {ChnAt(q) : q \in {r \in 1..(p - 1) : Ready(r)}}

(* Mutant: the frame got first is kept, those got after it are put back.    *)
KeepsOldest(s) == [back |-> Tail(s), keep |-> Head(s)]

(* QuickEncode_Process: as long as another frame is got the one before it   *)
(* is put back.                                                             *)
KeepsNewest(s) == [back |-> Front(s), keep |-> Last(s)]

(* What one query gets of channel c, and what it leaves in FrameQueue.      *)
Got(c) == IF c \in Quick THEN KeepsNewest(fq[c].head)
          ELSE [back |-> <<>>, keep |-> Head(fq[c].head)]
Rest(c) == IF c \in Quick THEN DequeueAll(fq[c]) ELSE Dequeue(fq[c])

(* p is the position of the channel to encode; Slots + 1 if there is none.  *)
QueryChn(p) ==
  LET skip == SkippedBefore(p)
      found == IF p <= Slots THEN {ChnAt(p)} ELSE {}
      back(c) == ToSet(Got(c).back) \union (IF c \in skip THEN {Got(c).keep} ELSE {})
  IN
  /\ fq' = [c \in Chn |-> IF c \in skip \union found THEN Rest(c) ELSE fq[c]]
  /\ source' = [c \in Chn |-> IF c \in skip \union found THEN source[c] \union back(c)
                              ELSE source[c]]
  /\ image' = [c \in Chn |-> IF c \in found THEN Got(c).keep ELSE image[c]]
  /\ waiting' = [c \in Chn |-> waiting[c] \/ c \in found]
  /\ table' = IF p <= Slots THEN RotatePriority(table, p) ELSE table
  /\ UNCHANGED lost

Found(p) == p <= Slots /\ Ready(p)

-----------------------------------------------------------------------------
(* The sources.                                                             *)

(* VENC_DRV_EflQFrameByAttach, in the source's thread: whether the channel  *)
(* is started is not asked.                                                 *)
QFrameByAttach(c, f) ==
  /\ live[c] /\ f \in source[c]
  /\ CanQueue(fq[c])
  /\ fq' = [fq EXCEPT ![c] = Enqueue(@, f)]
  /\ source' = [source EXCEPT ![c] = @ \ {f}]
  /\ UNCHANGED <<image, waiting, lost, slot, table, setPri, encoder, enabled, live, stopping>>

-----------------------------------------------------------------------------
(* The control calls.                                                       *)

(* Mutant: the table is not sorted again. *)
EnterUnsorted(t, e) == [t EXCEPT ![FirstFree(t)] = e]

EnterTable(t, e) == SortPriority([t EXCEPT ![FirstFree(t)] = e])

(* VENC_DRV_StartReceivePic, VENC_DRV_EflStartVenc *)
StartVenc(c) ==
  /\ live[c] /\ ~enabled[c] /\ MutexFree
  /\ LET i == Min({j \in 1..Slots : slot[j] = 0}) IN
       /\ slot' = [slot EXCEPT ![i] = c]
       /\ table' = EnterTable(table, [slot |-> i, pri |-> Priority[c]])
  /\ enabled' = [enabled EXCEPT ![c] = TRUE]
  /\ UNCHANGED <<frames, setPri, encoder, live, stopping>>

(* VENC_DRV_StopReceivePic, first the part under the channel lock.          *)
StopVenc(c) ==
  /\ enabled[c] /\ MutexFree /\ c \in Started
  /\ LET i == SlotOf(c) IN
       /\ slot' = [slot EXCEPT ![i] = 0]
       /\ table' = SortPriority([j \in 1..Slots |->
                      IF table[j].slot = i THEN NoEntry ELSE table[j]])
       /\ stopping' = [chn |-> c, slot |-> i]
  /\ UNCHANGED <<frames, setPri, encoder, enabled, live>>

(* Mutant: it does not wait for the last frame. *)
NoWait(c) == TRUE

LastFrameDone(c) == ~waiting[c]

(* VENC_DRV_MngQueueRefresh: the frames are dropped.                        *)
RefreshQueue(c) ==
  /\ fq' = [fq EXCEPT ![c] = Refresh(@)]
  /\ lost' = [lost EXCEPT ![c] = @ \union ToSet(fq[c].head)]
  /\ UNCHANGED source

(* VENC_DRV_EflRlsAllFrame: every queued frame is put back.                 *)
RlsAllFrame(c) ==
  /\ fq' = [fq EXCEPT ![c] = DequeueAll(@)]
  /\ source' = [source EXCEPT ![c] = @ \union ToSet(fq[c].head)]
  /\ UNCHANGED lost

(* Then, the mutex held, it waits for the last frame and empties the        *)
(* queue.  Which way is decided by g_stVencChn[i] where i is the SLOT.     *)
StopFlush ==
  LET c == stopping.chn IN
  /\ c # 0 /\ LastFrameDone(c)
  /\ IF stopping.slot \in Attached THEN RlsAllFrame(c) ELSE RefreshQueue(c)
  /\ enabled' = [enabled EXCEPT ![c] = FALSE]
  /\ stopping' = [chn |-> 0, slot |-> 0]
  /\ UNCHANGED <<image, waiting, slot, table, setPri, encoder, live>>

(* VENC_DRV_DestroyChn of a stopped channel (of a running one: it is        *)
(* stopped first).  VENC_DRV_EflDestroyVenc frees FrameQueue with what is   *)
(* in it, and the source never gets that back.                              *)
DestroyChn(c) ==
  /\ live[c] /\ ~enabled[c] /\ MutexFree
  /\ live' = [live EXCEPT ![c] = FALSE]
  /\ fq' = [fq EXCEPT ![c] = NewQueue(QDepth)]
  /\ lost' = [lost EXCEPT ![c] = @ \union ToSet(fq[c].head)]
  /\ UNCHANGED <<source, image, waiting, slot, table, setPri, encoder, enabled, stopping>>

(* VENC_DRV_CreateChn, and the same source is attached again.               *)
CreateChn(c) ==
  /\ ~live[c] /\ MutexFree
  /\ live' = [live EXCEPT ![c] = TRUE]
  /\ setPri' = [setPri EXCEPT ![c] = Priority[c]]
  /\ UNCHANGED <<frames, slot, table, encoder, enabled, stopping>>

(* VENC_DRV_SetAttr, the priority: the table is searched for the CHANNEL    *)
(* index, though it holds SLOTS: the call changes the priority of whatever  *)
(* channel is in that slot, and fails when no channel is.                   *)
SetPriority(c, pri) ==
  /\ live[c] /\ MutexFree /\ setPri[c] # pri
  /\ \E p \in 1..Slots :
       /\ table[p].slot = c /\ \A q \in 1..(p - 1) : table[q].slot # c
       /\ table' = SortPriority([table EXCEPT ![p].pri = pri])
  /\ setPri' = [setPri EXCEPT ![c] = pri]
  /\ UNCHANGED <<frames, slot, encoder, enabled, live, stopping>>

-----------------------------------------------------------------------------
(* The frame task, VENC_DRV_EflTask.                                        *)

TaskCheck ==
  /\ task.at = "idle" /\ ipFree
  /\ task' = [at |-> "query", chn |-> 0]
  /\ UNCHANGED <<frames, slot, table, setPri, ipFree, curr, hw, isr, enabled, live, stopping>>

TaskQuery ==
  /\ task.at = "query"
  /\ \/ \E p \in 1..Slots :
          /\ Found(p) /\ QueryChn(p)
          /\ task' = [at |-> "start", chn |-> ChnAt(p)]
     \/ /\ QueryChn(Slots + 1)
        /\ task' = [at |-> "idle", chn |-> 0]
  /\ UNCHANGED <<slot, setPri, ipFree, curr, hw, isr, enabled, live, stopping>>

TaskStart ==
  /\ task.at = "start"
  /\ ipFree' = FALSE /\ curr' = task.chn /\ hw' = TRUE
  /\ task' = [at |-> "idle", chn |-> 0]
  /\ UNCHANGED <<frames, slot, table, setPri, isr, enabled, live, stopping>>

-----------------------------------------------------------------------------
(* The interrupt handler, Venc_ISR, at the end of a picture.                *)

(* Mutant: the flag is cleared only while the channel is in the table. *)
ClearIfStarted(c) == IF c \in Started THEN [waiting EXCEPT ![c] = FALSE] ELSE waiting

ClearWaitingIsr(c) == [waiting EXCEPT ![c] = FALSE]

IsrEndOfPic ==
  /\ hw /\ ~isr
  /\ hw' = FALSE /\ isr' = TRUE
  /\ source' = [source EXCEPT ![curr] = @ \union {image[curr]}]
  /\ image' = [image EXCEPT ![curr] = NoFrame]
  /\ waiting' = ClearWaitingIsr(curr)
  /\ UNCHANGED <<fq, lost, slot, table, setPri, ipFree, curr, task, enabled, live, stopping>>

(* Mutant: the encoder is declared free although the next frame started. *)
IpFreeAfterStart(c) == ipFree' = TRUE /\ curr' = c /\ hw' = TRUE

StartNext(c) == ipFree' = FALSE /\ curr' = c /\ hw' = TRUE

(* After WaitingIsr = 0 it still works on CurrHandle, then it starts the    *)
(* next frame itself, unless the frames of the channel are being saved      *)
(* (bSaveYUVFileRun, set through the proc file at any time).                *)
IsrNext ==
  /\ isr /\ isr' = FALSE
  /\ \/ \E p \in 1..Slots : Found(p) /\ QueryChn(p) /\ StartNext(ChnAt(p))
     \/ /\ QueryChn(Slots + 1)
        /\ ipFree' = TRUE
        /\ UNCHANGED <<curr, hw>>
     \/ /\ ipFree' = TRUE
        /\ UNCHANGED <<frames, table, curr, hw>>
  /\ UNCHANGED <<slot, setPri, task, enabled, live, stopping>>

-----------------------------------------------------------------------------
Next ==
  \/ \E c \in Chn :
       \/ \E f \in Frame : QFrameByAttach(c, f)
       \/ StartVenc(c)
       \/ StopVenc(c)
       \/ DestroyChn(c)
       \/ CreateChn(c)
       \/ \E pri \in NewPri : SetPriority(c, pri)
  \/ StopFlush
  \/ TaskCheck \/ TaskQuery \/ TaskStart
  \/ IsrEndOfPic \/ IsrNext

Spec == Init /\ [][Next]_vars

(* The task and a caller that waits run again, and the encoder finishes     *)
(* every picture; nothing is assumed of the sources.                        *)
Fairness ==
  /\ WF_vars(TaskCheck) /\ WF_vars(TaskQuery) /\ WF_vars(TaskStart)
  /\ WF_vars(IsrEndOfPic) /\ WF_vars(IsrNext)
  /\ WF_vars(StopFlush)

FairSpec == Spec /\ Fairness

-----------------------------------------------------------------------------
(* Properties.                                                              *)

(* Every variable stays in its set; above all the two lists of a queue      *)
(* always hold the elements VENC_DRV_MngQueueInit made, no more, no fewer.  *)
TypeOK ==
  /\ source \in [Chn -> SUBSET Frame]
  /\ lost \in [Chn -> SUBSET Frame]
  /\ fq \in [Chn -> QueueOf(Frame, QDepth)]
  /\ \A c \in Chn : WellFormed(fq[c], QDepth)
  /\ image \in [Chn -> Frame \union {NoFrame}]
  /\ waiting \in [Chn -> BOOLEAN]
  /\ slot \in [1..Slots -> Chn \union {0}]
  /\ table \in [1..Slots -> Entry]
  /\ setPri \in [Chn -> 0..MaxPri]
  /\ ipFree \in BOOLEAN /\ curr \in Chn \union {0} /\ hw \in BOOLEAN
  /\ task \in [at: {"idle", "query", "start"}, chn: Chn \union {0}]
  /\ isr \in BOOLEAN
  /\ enabled \in [Chn -> BOOLEAN] /\ live \in [Chn -> BOOLEAN]
  /\ stopping \in [chn: Chn \union {0}, slot: 0..Slots]

(* How many times frame f of channel c is somewhere.                        *)
Occurrences(s, f) == Cardinality({i \in DOMAIN s : s[i] = f})
Places(c, f) ==
  (IF f \in source[c] THEN 1 ELSE 0) + (IF image[c] = f THEN 1 ELSE 0)
  + Occurrences(fq[c].head, f) + (IF f \in lost[c] THEN 1 ELSE 0)

(* No frame is doubled or lost on its way through queue, task, interrupt    *)
(* handler and stop: each is with its source, queued, being encoded or was  *)
(* freed with the queue, and in one of these places only.                   *)
FramesKept == \A c \in Chn, f \in Frame : Places(c, f) = 1

(* There is one encoder and two contexts that start it: at most one channel *)
(* has a frame in it, and a frame that is in it is the one the encoder, or  *)
(* the task that is about to start it, works on.                            *)
OneInFlight ==
  \A c \in Chn : waiting[c] =>
     \/ hw /\ ~isr /\ curr = c /\ ~ipFree /\ task.at = "idle"
     \/ task.at = "start" /\ task.chn = c /\ ~hw /\ ~isr /\ ipFree

(* The table and VeduChnCtx agree: each started channel is in the table     *)
(* exactly once, and the table is sorted.                                   *)
TableMatches ==
  /\ \A i \in 1..Slots :
       slot[i] # 0 <=> Cardinality({p \in 1..Slots : table[p].slot = i}) = 1
  /\ \A i \in 1..Slots :
       slot[i] = 0 <=> \A p \in 1..Slots : table[p].slot # i
  /\ \A p, q \in 1..Slots : p < q => table[p].pri >= table[q].pri

(* A channel is taken only when every started channel that the table gives  *)
(* a higher priority had no frame, or had its frame skipped.                *)
PriorityOf(c) == table[CHOOSE p \in 1..Slots : table[p].slot = SlotOf(c)].pri

HighestFirst ==
  [][\A c, d \in Started :
       (~waiting[c] /\ waiting'[c] /\ PriorityOf(d) > PriorityOf(c)) =>
          fq[d].head = <<>> \/ fq'[d] # fq[d]]_vars

(* "wait finish last frame" (VENC_DRV_EflStopVenc), "to block STOP channel" *)
(* (WaitingIsr): when a channel has been stopped and destroyed, the         *)
(* interrupt handler does not work on it any more.                          *)
NoUseAfterDestroy == (isr \/ hw) => live[curr]

(* Round robin among channels of equal priority: a frame queued on a        *)
(* started channel is taken, however busy the other channels are.  A stop   *)
(* starts the wait anew: a channel that is started again and again may go   *)
(* to a place before the others each time.                                  *)
FrameTaken ==
  \A c \in Chn, f \in Frame :
    (c \in Started /\ f \in ToSet(fq[c].head)) ~>
       (f \notin ToSet(fq[c].head) \/ ~MutexFree)

(* The frames the driver has of a channel, oldest first.                    *)
Pipe(c) == (IF image[c] = NoFrame THEN <<>> ELSE <<image[c]>>) \o fq[c].head
Fifo(c) == INSTANCE VencFifo WITH given <- source[c], pipe <- Pipe(c), on <- enabled[c]

(* Each channel is the FIFO of VencFifo: its source gets its frames back in *)
(* the order it queued them, whatever the task, the interrupt handler and   *)
(* the other channels do, and though QuickEncode gives several back at      *)
(* once; when a stop ends it has all of them, and what is freed with the    *)
(* queue is only what it queued after that.                                 *)
InOrder ==
  /\ \A c \in Chn : Fifo(c)!Init
  /\ [][\A c \in Chn : Fifo(c)!Next \/ UNCHANGED Fifo(c)!fvars]_vars

(* Stopping a channel comes to an end.                                      *)
StopEnds == (stopping.chn # 0) ~> (stopping.chn = 0)
=============================================================================
