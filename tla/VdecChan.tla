------------------------------ MODULE VdecChan ------------------------------
(***************************************************************************)
(* The life of one decoder channel of source/msp/drv/vdec/                 *)
(* drv_vdec_intf_k.c, and the rundown protection that guards it.           *)
(*                                                                         *)
(* Every entry point of the driver raises the entity's use count, tests    *)
(* the release flag, takes the channel pointer, works on the channel and   *)
(* lowers the count; VDEC_Chan_Free raises the release flag and waits for  *)
(* the count to reach zero before it frees the structure.  The count and   *)
(* the flag are atomic variables and nothing else orders the threads, so   *)
(* every access to shared state is a step of its own.                      *)
(*                                                                         *)
(* One entity of astChanEntity is modelled; u32ChanNum, which counts the   *)
(* entities in use, is left out.  A channel structure is a member of Mem,  *)
(* so that a stale pointer can be told from the current one.               *)
(***************************************************************************)
EXTENDS Integers, FiniteSets

CONSTANTS
  Thread,       \* threads in the driver: callers, decoder callbacks, timer
  Control,      \* the threads that start, stop, reset, allocate and free
  Mem,          \* memory that HI_VMALLOC_VDEC may return
  NoChan,       \* HI_NULL
  Op,           \* the entry points that are called
  MaySignal,    \* a signal may reach a thread in wait_event_interruptible
  FwMayFail,    \* pfnVfmwControl may fail
  VpssMayFail,  \* pfnVpssGetVpssCfg or pfnVpssSetVpssCfg may fail
  ReuseBusy,    \* the handle may be given out again while calls are in flight
  MaxUse        \* bound on useCnt: the VPSS no longer fails when it is reached

Operations == {"use", "demux", "trick", "start", "stop", "reset", "iframe", "free"}

(* A DecodeIFrame whose start the firmware refused. *)
Calls == Operations \cup {"failed"}

ASSUME VdecChanAssumption ==
  /\ IsFiniteSet(Thread)
  /\ Control \subseteq Thread
  /\ NoChan \notin Mem
  /\ Op \subseteq Operations
  /\ {MaySignal, FwMayFail, VpssMayFail, ReuseBusy} \subseteq BOOLEAN
  /\ MaxUse \in Nat

VARIABLES
  bUsed,        \* the entity is given out
  useCnt,       \* atmUseCnt
  rlsFlag,      \* atmRlsFlag
  pstChan,      \* the entity's channel structure
  live,         \* structures allocated and not yet freed
  state,        \* enCurState of the channel structure
  dec,          \* the firmware channel hChan: none, stopped or running
  pc, op, ptr   \* each thread's place, entry point and local pstChan

entity == <<bUsed, useCnt, rlsFlag, pstChan>>
chan == <<state, dec>>
vars == <<bUsed, useCnt, rlsFlag, pstChan, live, state, dec, pc, op, ptr>>

(* A thread holds a use count while it is at one of Counted, and has       *)
(* passed the test of the flag at one of Passed.                           *)
Passed == {"look", "body", "fw", "save", "up"}
Counted == Passed \cup {"try", "back"}
(* A thread has raised the release flag at one of Raised; the one that     *)
(* found it lowered is at one of Releasing.                                *)
Killing == {"kill", "clear", "vfree", "rlsup"}
Releasing == {"rlsread", "sleep", "asleep"} \cup Killing
Raised == Releasing \cup {"rlsfail"}
(* A thread reads or writes the structure its pointer names.               *)
Touching == {"body", "fw", "save", "late", "clear", "vfree"}
Places == Counted \cup Raised \cup {"idle", "late", "rls"}

Init ==
  /\ bUsed = FALSE
  /\ useCnt = 0 /\ rlsFlag = 0
  /\ pstChan = NoChan /\ live = {}
  /\ state = "STOP" /\ dec = "none"
  /\ pc = [t \in Thread |-> "idle"]
  /\ op = [t \in Thread |-> "use"]
  /\ ptr = [t \in Thread |-> NoChan]

Goto(t, place) == pc' = [pc EXCEPT ![t] = place]
Quiet == \A t \in Thread : pc[t] = "idle"

-----------------------------------------------------------------------------
(* Giving the handle out and taking it back, under stSem.                  *)

AllocHandle(t) ==
  /\ pc[t] = "idle" /\ (Quiet \/ ReuseBusy)
  /\ ~bUsed
  /\ bUsed' = TRUE /\ pstChan' = NoChan
  /\ useCnt' = 0 /\ rlsFlag' = 0
  /\ UNCHANGED <<live, chan, pc, op, ptr>>

FreeHandle(t) ==
  /\ pc[t] = "idle"
  /\ bUsed /\ pstChan = NoChan
  /\ bUsed' = FALSE
  /\ UNCHANGED <<useCnt, rlsFlag, pstChan, live, chan, pc, op, ptr>>

(* Memory that some thread still points to is not handed out again, so     *)
(* that a use of freed memory is never taken for a use of the new channel. *)
Alloc(t) ==
  /\ pc[t] = "idle"
  /\ bUsed /\ pstChan = NoChan
  /\ \E c \in Mem \ live :
       /\ \A u \in Thread : ptr[u] # c
       /\ pstChan' = c
       /\ live' = live \cup {c}
  /\ state' = "STOP" /\ dec' = "STOP"
  /\ UNCHANGED <<bUsed, useCnt, rlsFlag, pc, op, ptr>>

-----------------------------------------------------------------------------
(* VDEC_CHAN_TRY_USE_DOWN, the look at pstChan and VDEC_CHAN_USE_UP.  A    *)
(* "free" starts as HI_DRV_VDEC_ChanStop, whose result it ignores.         *)

MayCall(t, o) == t \in Control \/ o \in {"use", "demux", "trick"}

Enter(t, o) ==
  /\ pc[t] = "idle" /\ MayCall(t, o)
  /\ op' = [op EXCEPT ![t] = o]
  /\ useCnt' = useCnt + 1
  /\ Goto(t, "try")
  /\ UNCHANGED <<bUsed, rlsFlag, pstChan, live, chan, ptr>>

(* Mutant: the flag is not tested once the count has been raised. *)
TryUseUntested(t) ==
  /\ pc[t] = "try"
  /\ Goto(t, "look")
  /\ UNCHANGED <<entity, live, chan, op, ptr>>

TryUse(t) ==
  /\ pc[t] = "try"
  /\ Goto(t, IF rlsFlag # 0 THEN "back" ELSE "look")
  /\ UNCHANGED <<entity, live, chan, op, ptr>>

(* Where a thread goes on after the call, or after the stop inside a free. *)
Return(o) == IF o = "free" THEN "rls" ELSE "idle"

(* Mutant: the failed attempt gives its count back twice. *)
TryBackTwice(t) ==
  /\ pc[t] = "back"
  /\ useCnt' = useCnt - 2
  /\ Goto(t, Return(op[t]))
  /\ UNCHANGED <<bUsed, rlsFlag, pstChan, live, chan, op, ptr>>

(* Mutant: the failed attempt keeps its count. *)
TryBackKeeps(t) ==
  /\ pc[t] = "back"
  /\ Goto(t, Return(op[t]))
  /\ UNCHANGED <<entity, live, chan, op, ptr>>

TryBack(t) ==
  /\ pc[t] = "back"
  /\ useCnt' = useCnt - 1
  /\ Goto(t, Return(op[t]))
  /\ UNCHANGED <<bUsed, rlsFlag, pstChan, live, chan, op, ptr>>

Look(t) ==
  /\ pc[t] = "look"
  /\ IF pstChan = NoChan
     THEN Goto(t, "up") /\ UNCHANGED ptr
     ELSE Goto(t, "body") /\ ptr' = [ptr EXCEPT ![t] = pstChan]
  /\ UNCHANGED <<entity, live, chan, op>>

(* RlsStrmBuf on a demux channel and DecodeIFrame go on with the pointer   *)
(* they took after they have given the use count back.                     *)
UsesLate(t) == op[t] \in {"demux", "iframe", "failed"} /\ ptr[t] # NoChan

UseUp(t) ==
  /\ pc[t] = "up"
  /\ useCnt' = useCnt - 1
  /\ IF UsesLate(t)
     THEN Goto(t, "late") /\ UNCHANGED ptr
     ELSE Goto(t, Return(op[t])) /\ ptr' = [ptr EXCEPT ![t] = NoChan]
  /\ UNCHANGED <<bUsed, rlsFlag, pstChan, live, chan, op>>

-----------------------------------------------------------------------------
(* What the entry points do between the two.                               *)

(* Mutant: a free that does not stop the channel first. *)
ProceedsFreeNoStop(o) ==
  \/ o = "start" /\ state # "RUN"
  \/ o = "stop" /\ state # "STOP"
  \/ o \in {"reset", "iframe"} /\ state = "STOP"
  \/ o = "trick" /\ state = "RUN"

(* The test of enCurState each entry point starts with.                    *)
Proceeds(o) ==
  \/ o = "start" /\ state # "RUN"
  \/ o \in {"stop", "free"} /\ state # "STOP"
  \/ o \in {"reset", "iframe"} /\ state = "STOP"
  \/ o = "trick" /\ state = "RUN"

(* A call that the state refuses has no more use for its pointer.          *)
Body(t) ==
  /\ pc[t] = "body"
  /\ Goto(t, IF Proceeds(op[t]) THEN "fw" ELSE "up")
  /\ ptr' = IF Proceeds(op[t]) \/ op[t] \in {"use", "demux"} THEN ptr
            ELSE [ptr EXCEPT ![t] = NoChan]
  /\ UNCHANGED <<entity, live, chan, op>>

(* What the entry point leaves in dec and in enCurState.                   *)
Target(o) == IF o \in {"start", "iframe"} THEN "RUN" ELSE "STOP"
Drives(o) == o \in {"start", "stop", "free", "iframe"}

Firmware(t) ==
  /\ pc[t] = "fw" /\ op[t] # "trick"
  /\ \/ /\ dec' = IF Drives(op[t]) /\ dec # "none" THEN Target(op[t]) ELSE dec
        /\ Goto(t, IF Drives(op[t]) THEN "save" ELSE "up")
        /\ UNCHANGED op
     \/ /\ FwMayFail
        /\ Goto(t, IF op[t] \in {"stop", "free"} THEN "save" ELSE "up")
        /\ op' = IF op[t] = "iframe" THEN [op EXCEPT ![t] = "failed"] ELSE op
        /\ UNCHANGED dec
  /\ UNCHANGED <<entity, live, state, ptr>>

(* Mutant: a stop that does not record that the channel is stopped. *)
SaveOnlyStart(t) ==
  /\ pc[t] = "save"
  /\ state' = IF Target(op[t]) = "RUN" THEN "RUN" ELSE state
  /\ Goto(t, "up")
  /\ UNCHANGED <<entity, live, dec, op, ptr>>

Save(t) ==
  /\ pc[t] = "save"
  /\ state' = IF ptr[t] = pstChan THEN Target(op[t]) ELSE state
  /\ Goto(t, "up")
  /\ UNCHANGED <<entity, live, dec, op, ptr>>

(* SetTrickMode returns without USE_UP when the video post-processor       *)
(* cannot be reconfigured.                                                 *)
SetTrickMode(t) ==
  /\ pc[t] = "fw" /\ op[t] = "trick"
  /\ \/ Goto(t, "up") /\ UNCHANGED ptr
     \/ /\ VpssMayFail /\ useCnt < MaxUse
        /\ Goto(t, "idle") /\ ptr' = [ptr EXCEPT ![t] = NoChan]
  /\ UNCHANGED <<entity, live, chan, op>>

(* DecodeIFrame stops the channel again; RlsStrmBuf gives the packet back  *)
(* to the demux and counts it.                                             *)
Late(t) ==
  /\ pc[t] = "late"
  /\ IF op[t] = "iframe" /\ ptr[t] = pstChan
     THEN /\ state' = "STOP"
          /\ \/ dec' = IF dec = "none" THEN dec ELSE "STOP"
             \/ FwMayFail /\ UNCHANGED dec
     ELSE UNCHANGED chan
  /\ Goto(t, "idle") /\ ptr' = [ptr EXCEPT ![t] = NoChan]
  /\ UNCHANGED <<entity, live, op>>

-----------------------------------------------------------------------------
(* The rest of VDEC_Chan_Free.                                             *)

(* Mutant: the release does not look at what the flag was. *)
RlsDownUntested(t) ==
  /\ pc[t] = "rls"
  /\ rlsFlag' = rlsFlag + 1
  /\ Goto(t, "rlsread")
  /\ UNCHANGED <<bUsed, useCnt, pstChan, live, chan, op, ptr>>

RlsDown(t) ==
  /\ pc[t] = "rls"
  /\ rlsFlag' = rlsFlag + 1
  /\ Goto(t, IF rlsFlag = 0 THEN "rlsread" ELSE "rlsfail")
  /\ UNCHANGED <<bUsed, useCnt, pstChan, live, chan, op, ptr>>

RlsFail(t) ==
  /\ pc[t] = "rlsfail"
  /\ rlsFlag' = rlsFlag - 1
  /\ Goto(t, "idle")
  /\ UNCHANGED <<bUsed, useCnt, pstChan, live, chan, op, ptr>>

RlsRead(t) ==
  /\ pc[t] = "rlsread"
  /\ Goto(t, IF useCnt = 0 THEN "kill" ELSE "sleep")
  /\ UNCHANGED <<entity, live, chan, op, ptr>>

(* wait_event_interruptible tests the condition once more before it        *)
(* sleeps; nothing in the driver wakes stRlsQue.                           *)
RlsSleep(t) ==
  /\ pc[t] = "sleep"
  /\ Goto(t, IF useCnt = 0 THEN "kill" ELSE "asleep")
  /\ UNCHANGED <<entity, live, chan, op, ptr>>

(* Interrupted, the wait returns a negative value, which RLS_DOWN takes    *)
(* for success.                                                            *)
Signal(t) ==
  /\ MaySignal /\ pc[t] = "asleep"
  /\ Goto(t, "kill")
  /\ UNCHANGED <<entity, live, chan, op, ptr>>

Kill(t) ==
  /\ pc[t] = "kill"
  /\ IF pstChan = NoChan
     THEN Goto(t, "rlsup") /\ UNCHANGED <<ptr, dec>>
     ELSE /\ ptr' = [ptr EXCEPT ![t] = pstChan]
          /\ dec' = "none"
          /\ Goto(t, "clear")
  /\ UNCHANGED <<entity, live, state, op>>

Clear(t) ==
  /\ pc[t] = "clear"
  /\ pstChan' = NoChan
  /\ Goto(t, "vfree")
  /\ UNCHANGED <<bUsed, useCnt, rlsFlag, live, chan, op, ptr>>

VFree(t) ==
  /\ pc[t] = "vfree"
  /\ live' = live \ {ptr[t]}
  /\ ptr' = [ptr EXCEPT ![t] = NoChan]
  /\ Goto(t, "rlsup")
  /\ UNCHANGED <<entity, chan, op>>

RlsUp(t) ==
  /\ pc[t] = "rlsup"
  /\ rlsFlag' = rlsFlag - 1
  /\ Goto(t, "idle")
  /\ UNCHANGED <<bUsed, useCnt, pstChan, live, chan, op, ptr>>

-----------------------------------------------------------------------------
Manage(t) == AllocHandle(t) \/ FreeHandle(t) \/ Alloc(t)

Use(t) ==
  \/ TryUse(t) \/ TryBack(t) \/ Look(t) \/ UseUp(t)
  \/ Body(t) \/ Firmware(t) \/ Save(t) \/ SetTrickMode(t) \/ Late(t)

Free(t) ==
  \/ RlsDown(t) \/ RlsFail(t) \/ RlsRead(t) \/ RlsSleep(t) \/ Signal(t)
  \/ Kill(t) \/ Clear(t) \/ VFree(t) \/ RlsUp(t)

Next ==
  \/ \E t \in Control : Manage(t)
  \/ \E t \in Thread, o \in Op : Enter(t, o)
  \/ \E t \in Thread : Use(t) \/ Free(t)

Spec == Init /\ [][Next]_vars

(* A thread inside a call goes on with it; it need not make another one.   *)
FairSpec == Spec /\ \A t \in Thread : WF_vars(Use(t) \/ Free(t))

-----------------------------------------------------------------------------
(* The two counters never go below zero, and every other variable stays in *)
(* its set.                                                                *)
TypeOK ==
  /\ bUsed \in BOOLEAN
  /\ useCnt \in Nat /\ rlsFlag \in Nat
  /\ pstChan \in Mem \cup {NoChan} /\ live \subseteq Mem
  /\ state \in {"STOP", "RUN"} /\ dec \in {"none", "STOP", "RUN"}
  /\ pc \in [Thread -> Places]
  /\ op \in [Thread -> Calls]
  /\ ptr \in [Thread -> Mem \cup {NoChan}]

(* No thread reads or writes a channel structure that has been freed.      *)
NoUseAfterFree == \A t \in Thread : pc[t] \in Touching => ptr[t] \in live

At(places) == {t \in Thread : pc[t] \in places}

(* The use count is the number of calls that are inside, so that a free    *)
(* neither passes one nor waits for one that has returned.                 *)
CountExact == useCnt = Cardinality(At(Counted))

(* At most one thread at a time destroys the channel, however many call    *)
(* VDEC_Chan_Free together: no structure is freed twice, even when a       *)
(* signal cuts a wait short or a count has leaked.                         *)
OneFreer == \A t, u \in At(Killing) : t = u

(* Between calls the driver's idea of the channel (enCurState) is the      *)
(* firmware's: a channel believed stopped is stopped.                      *)
StateAgrees == pstChan # NoChan /\ At({"save", "clear"}) = {} => state = dec

(* The firmware channel is never destroyed while it is decoding.           *)
DestroyedStopped == [][dec = "RUN" => dec' # "none"]_vars

(* VDEC_Chan_Free ends once it has raised the flag.                        *)
FreeEnds == \A t \in Thread : pc[t] = "rls" ~> pc[t] = "idle"
=============================================================================
