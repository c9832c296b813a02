----------------------------- MODULE VencQueue -----------------------------
(***************************************************************************)
(* The bounded queue of the video encoder driver                           *)
(* (source/msp/drv/venc/drv_venc_queue_mng.c): a fixed set of elements,    *)
(* those in use on the list "head" in FIFO order, the others on the list   *)
(* "free".  Every operation runs under the queue's spin lock.  What the    *)
(* free elements are is immaterial: only their number is kept.             *)
(***************************************************************************)
EXTENDS Integers, Sequences

QueueOf(S, depth) == [head: Seq(S), free: 0..depth, stop: BOOLEAN]

(* VENC_DRV_MngQueueInit *)
NewQueue(depth) == [head |-> <<>>, free |-> depth, stop |-> FALSE]

(* Mutant: the free list is not looked at. *)
CanQueueUnchecked(q) == ~q.stop

(* VENC_DRV_MngQueue: refused when the queue is stopped or no element is    *)
(* free.  Its parameter errors cannot happen: every caller passes data of   *)
(* the kind the queue was made for.                                         *)
CanQueue(q) == ~q.stop /\ q.free > 0
Enqueue(q, x) == [head |-> Append(q.head, x), free |-> q.free - 1, stop |-> q.stop]

(* VENC_DRV_MngDequeue: refused when the queue is stopped or empty.         *)
CanDequeue(q) == ~q.stop /\ q.head # <<>>
Dequeue(q) == [head |-> Tail(q.head), free |-> q.free + 1, stop |-> q.stop]

(* It is called until it is refused.                                        *)
DequeueAll(q) == [head |-> <<>>, free |-> q.free + Len(q.head), stop |-> q.stop]

(* VENC_DRV_MngQueueRefresh leaves the same lists, whoever wanted the data. *)
Refresh(q) == DequeueAll(q)

(* No element is lost or made up: the lists "head" and "free" always hold   *)
(* what VENC_DRV_MngQueueInit allocated.                                    *)
WellFormed(q, depth) == Len(q.head) + q.free = depth
=============================================================================
