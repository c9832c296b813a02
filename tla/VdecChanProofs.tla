--------------------------- MODULE VdecChanProofs ---------------------------
(***************************************************************************)
(* Proofs about the rundown protection of a decoder channel, for any       *)
(* finite set of threads: as long as no signal cuts the wait of            *)
(* VDEC_Chan_Free short, no count leaks, no entry point works on after     *)
(* USE_UP, and the handle is only given out again when every call is over, *)
(* the use count is exact and no thread touches a freed structure.         *)
(*                                                                         *)
(* The argument: the two counters count the threads at two sets of places. *)
(* A thread that finds the release flag lowered is the only one that ever  *)
(* gets to free (OneReleasing).  When it finds the use count zero no       *)
(* thread is inside, and whoever enters later sees the flag up, so no      *)
(* thread is past the test while the structure is destroyed (Alone).       *)
(*                                                                         *)
(* Less is needed for the counters not to wrap and for one thread at a     *)
(* time to destroy the channel: a signal may come and counts may leak      *)
(* (FInv).  More is needed for the driver and the firmware to agree on     *)
(* what the channel does: one thread that controls it (SInv).              *)
(***************************************************************************)
EXTENDS VdecChan, FiniteSetTheorems, TLAPS

FlagExact == rlsFlag = Cardinality(At(Raised))

OneReleasing == \A t, u \in At(Releasing) : t = u

Alone == \A t, u \in Thread : pc[t] \in Killing => pc[u] \notin Passed

(* What the pointers of the threads and of the entity name. *)
Pointers ==
  /\ pstChan # NoChan => pstChan \in live
  /\ \A t \in Thread :
       /\ pc[t] \in {"body", "fw", "save", "clear"} => pstChan # NoChan /\ ptr[t] = pstChan
       /\ pc[t] = "vfree" => ptr[t] \in live /\ ptr[t] # pstChan
       /\ pc[t] # "late"
       /\ pc[t] # "idle" => op[t] \in Op

(* No call inside is without its count, though a count may have leaked.    *)
CountCovers == useCnt >= Cardinality(At(Counted))

FInv == TypeOK /\ CountCovers /\ FlagExact /\ OneReleasing

IInv ==
  /\ TypeOK
  /\ CountExact /\ FlagExact
  /\ OneReleasing /\ Alone
  /\ Pointers

(* What the theorems assume of the callers and of the kernel. *)
Disciplined ==
  /\ ~MaySignal /\ ~VpssMayFail /\ ~ReuseBusy
  /\ Op \cap {"demux", "iframe"} = {}

-----------------------------------------------------------------------------
(* Counting the threads at a set of places. *)

LEMMA AtFinite ==
  ASSUME NEW P
  PROVE  /\ IsFiniteSet(At(P))
         /\ Cardinality(At(P)) \in Nat
         /\ Cardinality(At(P)) = 0 <=> At(P) = {}
<1>1. IsFiniteSet(At(P))
  BY FS_Subset, VdecChanAssumption DEF At
<1>2. QED BY <1>1, FS_CardinalityType, FS_EmptySet

(* A thread that is at one of the places makes the count positive. *)
LEMMA AtPositive ==
  ASSUME NEW P, NEW t \in Thread, pc[t] \in P
  PROVE  Cardinality(At(P)) \in Nat \ {0}
<1>1. t \in At(P) BY DEF At
<1>2. QED BY <1>1, AtFinite

(* What the move of one thread does to the count. *)
LEMMA AtMoves ==
  ASSUME NEW P, NEW t \in Thread, NEW q,
         pc \in [Thread -> Places], Goto(t, q)
  PROVE  Cardinality(At(P)') =
           Cardinality(At(P)) + (IF q \in P THEN 1 ELSE 0)
                              - (IF pc[t] \in P THEN 1 ELSE 0)
<1>0. Cardinality(At(P)) \in Nat /\ IsFiniteSet(At(P)) BY AtFinite
<1>1. CASE q \in P
  <2>1. At(P)' = At(P) \cup {t} BY <1>1 DEF At, Goto
  <2>2. t \in At(P) <=> pc[t] \in P BY DEF At
  <2>3. Cardinality(At(P) \cup {t}) =
          IF t \in At(P) THEN Cardinality(At(P)) ELSE Cardinality(At(P)) + 1
    BY <1>0, FS_AddElement
  <2>4. Cardinality(At(P)') = Cardinality(At(P) \cup {t}) BY <2>1
  <2>5. QED BY <1>0, <1>1, <2>2, <2>3, <2>4
<1>2. CASE q \notin P
  <2>1. At(P)' = At(P) \ {t} BY <1>2 DEF At, Goto
  <2>2. t \in At(P) <=> pc[t] \in P BY DEF At
  <2>3. Cardinality(At(P) \ {t}) =
          IF t \in At(P) THEN Cardinality(At(P)) - 1 ELSE Cardinality(At(P))
    BY <1>0, FS_RemoveElement
  <2>4. Cardinality(At(P)') = Cardinality(At(P) \ {t}) BY <2>1
  <2>5. QED BY <1>0, <1>2, <2>2, <2>3, <2>4
<1>3. QED BY <1>1, <1>2

(* A thread that gives a count back holds one. *)
LEMMA CountsPositive ==
  ASSUME FInv, NEW t \in Thread
  PROVE  /\ pc[t] \in Counted => useCnt # 0
         /\ pc[t] \in Raised => rlsFlag # 0
BY AtPositive DEF FInv, TypeOK, CountCovers, FlagExact

LEMMA Weaker == IInv => FInv
BY AtFinite DEF IInv, FInv, CountExact, CountCovers

-----------------------------------------------------------------------------
(* Each part of the invariant is preserved. *)

LEMMA InitIInv == Init => IInv
<1> SUFFICES ASSUME Init PROVE IInv OBVIOUS
<1>1. At(Counted) = {} /\ At(Raised) = {} /\ At(Releasing) = {}
  BY DEF Init, At, Counted, Raised, Releasing, Killing, Passed
<1>2. Cardinality({}) = 0 BY FS_EmptySet
<1>3. TypeOK
  BY DEF Init, TypeOK, Places, Calls, Operations
<1>4. QED
  BY <1>1, <1>2, <1>3 DEF Init, IInv, CountExact, FlagExact, OneReleasing, Alone, Pointers, Killing

(* Every step either moves no thread or moves one along. *)
LEMMA TypeStep ==
  ASSUME FInv, Next
  PROVE  TypeOK'
<1> USE VdecChanAssumption
<1>0. TypeOK BY DEF FInv
<1>1. ASSUME NEW t \in Control, Manage(t) PROVE TypeOK'
  <2>1. CASE AllocHandle(t) BY <1>0, <2>1 DEF AllocHandle, TypeOK, chan
  <2>2. CASE FreeHandle(t) BY <1>0, <2>2 DEF FreeHandle, TypeOK, chan
  <2>3. CASE Alloc(t) BY <1>0, <2>3 DEF Alloc, TypeOK
  <2>4. QED BY <1>1, <2>1, <2>2, <2>3 DEF Manage
<1>2. ASSUME NEW t \in Thread, NEW o \in Op, Enter(t, o) PROVE TypeOK'
  BY <1>0, <1>2 DEF Enter, TypeOK, Goto, chan, Places, Counted, Calls
<1>3. ASSUME NEW t \in Thread, Use(t) PROVE TypeOK'
  <2> USE DEF Goto, entity, chan, Places, Counted, Passed
  <2>1. CASE TryUse(t) BY <1>0, <2>1 DEF TryUse, TypeOK
  <2>2. CASE TryBack(t)
    <3>1. useCnt - 1 \in Nat BY <1>0, <2>2, CountsPositive DEF TryBack, TypeOK
    <3>2. QED BY <1>0, <2>2, <3>1 DEF TryBack, TypeOK, Return
  <2>3. CASE Look(t) BY <1>0, <2>3 DEF Look, TypeOK
  <2>4. CASE UseUp(t)
    <3>1. useCnt - 1 \in Nat BY <1>0, <2>4, CountsPositive DEF UseUp, TypeOK
    <3>2. QED BY <1>0, <2>4, <3>1 DEF UseUp, TypeOK, Return
  <2>5. CASE Body(t) BY <1>0, <2>5 DEF Body, TypeOK
  <2>6. CASE Firmware(t) BY <1>0, <2>6 DEF Firmware, TypeOK, Target, Calls
  <2>7. CASE Save(t) BY <1>0, <2>7 DEF Save, TypeOK, Target
  <2>8. CASE SetTrickMode(t) BY <1>0, <2>8 DEF SetTrickMode, TypeOK
  <2>9. CASE Late(t) BY <1>0, <2>9 DEF Late, TypeOK
  <2>10. QED BY <1>3, <2>1, <2>2, <2>3, <2>4, <2>5, <2>6, <2>7, <2>8, <2>9 DEF Use
<1>4. ASSUME NEW t \in Thread, Free(t) PROVE TypeOK'
  <2> USE DEF Goto, entity, chan, Places, Raised, Releasing, Killing
  <2>1. CASE RlsDown(t) BY <1>0, <2>1 DEF RlsDown, TypeOK
  <2>2. CASE RlsFail(t)
    <3>1. rlsFlag - 1 \in Nat BY <1>0, <2>2, CountsPositive DEF RlsFail, TypeOK
    <3>2. QED BY <1>0, <2>2, <3>1 DEF RlsFail, TypeOK
  <2>3. CASE RlsRead(t) BY <1>0, <2>3 DEF RlsRead, TypeOK
  <2>4. CASE RlsSleep(t) BY <1>0, <2>4 DEF RlsSleep, TypeOK
  <2>5. CASE Signal(t) BY <1>0, <2>5 DEF Signal, TypeOK
  <2>6. CASE Kill(t) BY <1>0, <2>6 DEF Kill, TypeOK
  <2>7. CASE Clear(t) BY <1>0, <2>7 DEF Clear, TypeOK
  <2>8. CASE VFree(t) BY <1>0, <2>8 DEF VFree, TypeOK
  <2>9. CASE RlsUp(t)
    <3>1. rlsFlag - 1 \in Nat BY <1>0, <2>9, CountsPositive DEF RlsUp, TypeOK
    <3>2. QED BY <1>0, <2>9, <3>1 DEF RlsUp, TypeOK
  <2>10. QED BY <1>4, <2>1, <2>2, <2>3, <2>4, <2>5, <2>6, <2>7, <2>8, <2>9 DEF Free
<1>5. QED BY <1>1, <1>2, <1>3, <1>4 DEF Next

(* What one step does to the two counters and to the places of the threads: *)
(* a thread that comes to be counted, or stops being, moves the counter by  *)
(* the same amount.                                                         *)
LEMMA CountStep ==
  ASSUME FInv, ~ReuseBusy, Next
  PROVE  /\ (CountCovers /\ FlagExact)'
         /\ CountExact /\ ~VpssMayFail => CountExact'
<1> DEFINE C == Cardinality(At(Counted))
           R == Cardinality(At(Raised))
<1> DEFINE Good == /\ (CountCovers /\ FlagExact)'
                   /\ CountExact /\ ~VpssMayFail => CountExact'
<1>0. /\ pc \in [Thread -> Places] /\ useCnt >= C /\ rlsFlag = R
      /\ C \in Nat /\ R \in Nat /\ useCnt \in Nat
  BY AtFinite DEF FInv, TypeOK, CountCovers, FlagExact
<1>1. ASSUME UNCHANGED <<pc, useCnt, rlsFlag>> PROVE Good
  BY <1>0, <1>1 DEF CountExact, CountCovers, FlagExact, At
<1>2. ASSUME NEW t \in Thread, NEW q \in Places, Goto(t, q),
             useCnt' = useCnt + (IF q \in Counted THEN 1 ELSE 0)
                              - (IF pc[t] \in Counted THEN 1 ELSE 0),
             rlsFlag' = rlsFlag + (IF q \in Raised THEN 1 ELSE 0)
                                - (IF pc[t] \in Raised THEN 1 ELSE 0)
      PROVE  Good
  <2>1. /\ Cardinality(At(Counted)') = C + (IF q \in Counted THEN 1 ELSE 0) - (IF pc[t] \in Counted THEN 1 ELSE 0)
        /\ Cardinality(At(Raised)') = R + (IF q \in Raised THEN 1 ELSE 0) - (IF pc[t] \in Raised THEN 1 ELSE 0)
    BY <1>0, <1>2, AtMoves
  <2> HIDE DEF C, R
  <2>2. QED BY <1>0, <1>2, <2>1 DEF CountExact, CountCovers, FlagExact, C, R
<1>3. ASSUME NEW t \in Control, Manage(t) PROVE Good
  <2>1. CASE AllocHandle(t)
    <3>1. At(Counted)' = {} /\ At(Raised)' = {} /\ useCnt' = 0 /\ rlsFlag' = 0
      BY <2>1 DEF AllocHandle, Quiet, At, Counted, Passed, Raised, Releasing, Killing
    <3>2. QED BY <3>1, FS_EmptySet DEF CountExact, CountCovers, FlagExact
  <2>2. CASE FreeHandle(t) \/ Alloc(t) BY <1>1, <2>2 DEF FreeHandle, Alloc
  <2>3. QED BY <1>3, <2>1, <2>2 DEF Manage
<1> USE DEF entity, Places, Counted, Passed, Raised, Releasing, Killing
<1>4. ASSUME NEW t \in Thread, NEW o \in Op, Enter(t, o) PROVE Good
  BY <1>0, <1>2, <1>4 DEF Enter
<1>5. ASSUME NEW t \in Thread, Use(t) PROVE Good
  <2>1. CASE TryUse(t) BY <1>0, <1>2, <2>1 DEF TryUse
  <2>2. CASE TryBack(t) BY <1>0, <1>2, <2>2 DEF TryBack, Return
  <2>3. CASE Look(t) BY <1>0, <1>2, <2>3 DEF Look
  <2>4. CASE UseUp(t) BY <1>0, <1>2, <2>4 DEF UseUp, Return
  <2>5. CASE Body(t) BY <1>0, <1>2, <2>5 DEF Body
  <2>6. CASE Firmware(t) BY <1>0, <1>2, <2>6 DEF Firmware
  <2>7. CASE Save(t) BY <1>0, <1>2, <2>7 DEF Save
  <2>8. CASE SetTrickMode(t)
    <3>1. CASE Goto(t, "up") BY <1>0, <1>2, <2>8, <3>1 DEF SetTrickMode
    <3>2. CASE VpssMayFail /\ Goto(t, "idle")
      <4>1. /\ Cardinality(At(Counted)') = C + 0 - 1 /\ Cardinality(At(Raised)') = R + 0 - 0
        <5>1. /\ pc[t] \in Counted /\ "idle" \notin Counted
              /\ pc[t] \notin Raised /\ "idle" \notin Raised
          BY <2>8 DEF SetTrickMode
        <5>2. \A P : Cardinality(At(P)') = Cardinality(At(P)) + (IF "idle" \in P THEN 1 ELSE 0)
                                                            - (IF pc[t] \in P THEN 1 ELSE 0)
          BY <1>0, <3>2, AtMoves
        <5>3. QED BY <5>1, <5>2
      <4>2. useCnt' = useCnt /\ rlsFlag' = rlsFlag
        BY <2>8 DEF SetTrickMode
      <4> HIDE DEF C, R
      <4>3. QED BY <1>0, <3>2, <4>1, <4>2 DEF CountCovers, FlagExact, C, R
    <3>3. QED BY <2>8, <3>1, <3>2 DEF SetTrickMode
  <2>9. CASE Late(t) BY <1>0, <1>2, <2>9 DEF Late
  <2>10. QED BY <1>5, <2>1, <2>2, <2>3, <2>4, <2>5, <2>6, <2>7, <2>8, <2>9 DEF Use
<1>6. ASSUME NEW t \in Thread, Free(t) PROVE Good
  <2>1. CASE RlsDown(t) BY <1>0, <1>2, <2>1 DEF RlsDown
  <2>2. CASE RlsFail(t) BY <1>0, <1>2, <2>2 DEF RlsFail
  <2>3. CASE RlsRead(t) BY <1>0, <1>2, <2>3 DEF RlsRead
  <2>4. CASE RlsSleep(t) BY <1>0, <1>2, <2>4 DEF RlsSleep
  <2>5. CASE Signal(t) BY <1>0, <1>2, <2>5 DEF Signal
  <2>6. CASE Kill(t) BY <1>0, <1>2, <2>6 DEF Kill
  <2>7. CASE Clear(t) BY <1>0, <1>2, <2>7 DEF Clear
  <2>8. CASE VFree(t) BY <1>0, <1>2, <2>8 DEF VFree
  <2>9. CASE RlsUp(t) BY <1>0, <1>2, <2>9 DEF RlsUp
  <2>10. QED BY <1>6, <2>1, <2>2, <2>3, <2>4, <2>5, <2>6, <2>7, <2>8, <2>9 DEF Free
<1>7. QED BY <1>3, <1>4, <1>5, <1>6 DEF Next

(* Nobody else is releasing when a thread finds the flag lowered. *)
LEMMA ReleasingStep ==
  ASSUME FInv, Next
  PROVE  OneReleasing'
<1>0. pc \in [Thread -> Places] /\ OneReleasing BY DEF FInv, TypeOK
<1>1. ASSUME NEW t \in Thread, NEW q, Goto(t, q), q \in Releasing => pc[t] \in Releasing
      PROVE  OneReleasing'
  BY <1>0, <1>1 DEF OneReleasing, At, Goto
<1>2. ASSUME NEW t \in Control, Manage(t) PROVE OneReleasing'
  BY <1>0, <1>2 DEF Manage, AllocHandle, FreeHandle, Alloc, OneReleasing, At
<1>3. ASSUME NEW t \in Thread, RlsDown(t) PROVE OneReleasing'
  <2>1. CASE rlsFlag = 0
    <3>1. At(Raised) = {} BY <2>1, AtFinite DEF FInv, FlagExact
    <3>2. \A u \in Thread : pc[u] \notin Releasing BY <3>1 DEF At, Raised
    <3>3. QED BY <1>0, <1>3, <3>2 DEF RlsDown, Goto, OneReleasing, At
  <2>2. CASE rlsFlag # 0
    <3>1. "rlsfail" \notin Releasing BY DEF Releasing, Killing
    <3>2. QED BY <1>1, <1>3, <2>2, <3>1 DEF RlsDown
  <2>3. QED BY <2>1, <2>2
<1> USE DEF Releasing, Killing
<1>4. ASSUME NEW t \in Thread, NEW o \in Op, Enter(t, o) PROVE OneReleasing'
  BY <1>1, <1>4 DEF Enter
<1>5. ASSUME NEW t \in Thread, Use(t) PROVE OneReleasing'
  <2>1. CASE TryUse(t) BY <1>1, <2>1 DEF TryUse
  <2>2. CASE TryBack(t)
    BY <1>1, <2>2 DEF TryBack, Return
  <2>3. CASE Look(t) BY <1>1, <2>3 DEF Look
  <2>4. CASE UseUp(t)
    BY <1>1, <2>4 DEF UseUp, Return
  <2>5. CASE Body(t) BY <1>1, <2>5 DEF Body
  <2>6. CASE Firmware(t) BY <1>1, <2>6 DEF Firmware
  <2>7. CASE Save(t) BY <1>1, <2>7 DEF Save
  <2>8. CASE SetTrickMode(t) BY <1>1, <2>8 DEF SetTrickMode
  <2>9. CASE Late(t) BY <1>1, <2>9 DEF Late
  <2>10. QED BY <1>5, <2>1, <2>2, <2>3, <2>4, <2>5, <2>6, <2>7, <2>8, <2>9 DEF Use
<1>6. ASSUME NEW t \in Thread, Free(t) PROVE OneReleasing'
  <2>1. CASE RlsDown(t) BY <1>3, <2>1
  <2>2. CASE RlsFail(t) BY <1>1, <2>2 DEF RlsFail
  <2>3. CASE RlsRead(t) BY <1>1, <2>3 DEF RlsRead
  <2>4. CASE RlsSleep(t) BY <1>1, <2>4 DEF RlsSleep
  <2>5. CASE Signal(t) BY <1>1, <2>5 DEF Signal
  <2>6. CASE Kill(t) BY <1>1, <2>6 DEF Kill
  <2>7. CASE Clear(t) BY <1>1, <2>7 DEF Clear
  <2>8. CASE VFree(t) BY <1>1, <2>8 DEF VFree
  <2>9. CASE RlsUp(t) BY <1>1, <2>9 DEF RlsUp
  <2>10. QED BY <1>6, <2>1, <2>2, <2>3, <2>4, <2>5, <2>6, <2>7, <2>8, <2>9 DEF Free
<1>7. QED BY <1>2, <1>4, <1>5, <1>6 DEF Next

(* Nobody is past the test of the flag once a thread has found the use     *)
(* count zero.                                                             *)
LEMMA AloneStep ==
  ASSUME IInv, Disciplined, Next
  PROVE  Alone'
<1>0. pc \in [Thread -> Places] /\ Alone BY DEF IInv, TypeOK
<1>1. ASSUME NEW t \in Thread, NEW q, Goto(t, q),
             q \in Killing => pc[t] \in Killing,
             q \in Passed => pc[t] \in Passed
      PROVE  Alone'
  BY <1>0, <1>1 DEF Alone, Goto
<1>2. ASSUME NEW t \in Control, Manage(t) PROVE Alone'
  BY <1>0, <1>2 DEF Manage, AllocHandle, FreeHandle, Alloc, Alone
<1>3. ASSUME NEW t \in Thread, TryUse(t) PROVE Alone'
  <2>1. CASE rlsFlag = 0
    <3>1. At(Raised) = {} BY <2>1, AtFinite DEF IInv, FlagExact
    <3>2. \A u \in Thread : pc[u] \notin Killing BY <3>1 DEF At, Raised, Releasing
    <3>3. pc'[t] \notin Killing BY <1>0, <1>3, <2>1 DEF TryUse, Goto, Killing
    <3>4. QED BY <1>0, <1>3, <3>2, <3>3 DEF TryUse, Goto, Alone
  <2>2. CASE rlsFlag # 0
    <3>1. "back" \notin Killing \cup Passed BY DEF Killing, Passed
    <3>2. QED BY <1>1, <1>3, <2>2, <3>1 DEF TryUse
  <2>3. QED BY <2>1, <2>2
<1>4. ASSUME NEW t \in Thread, RlsRead(t) \/ RlsSleep(t) PROVE Alone'
  <2>1. CASE useCnt = 0
    <3>1. At(Counted) = {} BY <2>1, AtFinite DEF IInv, CountExact
    <3>2. \A u \in Thread : pc[u] \notin Passed BY <3>1 DEF At, Counted
    <3>3. pc'[t] \notin Passed BY <1>0, <1>4, <2>1 DEF RlsRead, RlsSleep, Goto, Passed
    <3>4. QED BY <1>0, <1>4, <3>2, <3>3 DEF RlsRead, RlsSleep, Goto, Alone
  <2>2. CASE useCnt # 0
    <3>1. {"sleep", "asleep"} \cap (Killing \cup Passed) = {} BY DEF Killing, Passed
    <3>2. QED BY <1>1, <1>4, <2>2, <3>1 DEF RlsRead, RlsSleep
  <2>3. QED BY <2>1, <2>2
<1> USE DEF Passed, Killing
<1>5. ASSUME NEW t \in Thread, NEW o \in Op, Enter(t, o) PROVE Alone'
  BY <1>1, <1>5 DEF Enter
<1>6. ASSUME NEW t \in Thread, Use(t) PROVE Alone'
  <2>1. CASE TryUse(t) BY <1>3, <2>1
  <2>2. CASE TryBack(t)
    BY <1>1, <2>2 DEF TryBack, Return
  <2>3. CASE Look(t) BY <1>1, <2>3 DEF Look
  <2>4. CASE UseUp(t)
    BY <1>1, <2>4 DEF UseUp, Return
  <2>5. CASE Body(t) BY <1>1, <2>5 DEF Body
  <2>6. CASE Firmware(t) BY <1>1, <2>6 DEF Firmware
  <2>7. CASE Save(t) BY <1>1, <2>7 DEF Save
  <2>8. CASE SetTrickMode(t) BY <1>1, <2>8 DEF SetTrickMode
  <2>9. CASE Late(t) BY <1>1, <2>9 DEF Late
  <2>10. QED BY <1>6, <2>1, <2>2, <2>3, <2>4, <2>5, <2>6, <2>7, <2>8, <2>9 DEF Use
<1>7. ASSUME NEW t \in Thread, Free(t) PROVE Alone'
  <2>1. CASE RlsDown(t) BY <1>1, <2>1 DEF RlsDown
  <2>2. CASE RlsFail(t) BY <1>1, <2>2 DEF RlsFail
  <2>3. CASE RlsRead(t) BY <1>4, <2>3
  <2>4. CASE RlsSleep(t) BY <1>4, <2>4
  <2>5. CASE Signal(t) BY <2>5 DEF Signal, Disciplined
  <2>6. CASE Kill(t) BY <1>1, <2>6 DEF Kill
  <2>7. CASE Clear(t) BY <1>1, <2>7 DEF Clear
  <2>8. CASE VFree(t) BY <1>1, <2>8 DEF VFree
  <2>9. CASE RlsUp(t) BY <1>1, <2>9 DEF RlsUp
  <2>10. QED BY <1>7, <2>1, <2>2, <2>3, <2>4, <2>5, <2>6, <2>7, <2>8, <2>9 DEF Free
<1>8. QED BY <1>2, <1>5, <1>6, <1>7 DEF Next

(* The pointer of a thread at work is the entity's, and the memory of one  *)
(* that frees is nobody else's.                                            *)
LEMMA PointersStep ==
  ASSUME IInv, Disciplined, Next
  PROVE  Pointers'
<1>0. /\ TypeOK /\ Pointers /\ OneReleasing /\ Alone
      /\ NoChan \notin Mem /\ Op \cap {"demux", "iframe"} = {}
  BY VdecChanAssumption DEF IInv, Disciplined
<1>1. ASSUME NEW t \in Control, Manage(t) PROVE Pointers'
  <2>0. t \in Thread BY VdecChanAssumption
  <2>1. CASE AllocHandle(t)
    BY <1>0, <2>1 DEF AllocHandle, Disciplined, Quiet, Pointers, TypeOK
  <2>2. CASE FreeHandle(t) BY <1>0, <2>2 DEF FreeHandle, Pointers
  <2>3. CASE Alloc(t)
    <3>1. PICK c \in Mem \ live :
            /\ \A u \in Thread : ptr[u] # c
            /\ pstChan' = c /\ live' = live \cup {c}
      BY <2>3 DEF Alloc
    <3>2. pstChan = NoChan /\ UNCHANGED <<pc, op, ptr>> BY <2>3 DEF Alloc
    <3>3. QED BY <1>0, <3>1, <3>2 DEF Pointers, TypeOK
  <2>4. QED BY <1>1, <2>1, <2>2, <2>3 DEF Manage
<1>2. ASSUME NEW t \in Thread, NEW o \in Op, Enter(t, o) PROVE Pointers'
  BY <1>0, <1>2 DEF Enter, Goto, Pointers, TypeOK, chan
<1>3. ASSUME NEW t \in Thread, Use(t) PROVE Pointers'
  <2> USE DEF Goto, entity, Pointers, TypeOK
  <2>1. CASE TryUse(t) BY <1>0, <2>1 DEF TryUse
  <2>2. CASE TryBack(t) BY <1>0, <2>2 DEF TryBack, Return
  <2>3. CASE Look(t) BY <1>0, <2>3 DEF Look
  <2>4. CASE UseUp(t)
    BY <1>0, <2>4, VdecChanAssumption DEF UseUp, UsesLate, Return, Operations
  <2>5. CASE Body(t) BY <1>0, <2>5 DEF Body
  <2>6. CASE Firmware(t) BY <1>0, <2>6 DEF Firmware
  <2>7. CASE Save(t) BY <1>0, <2>7 DEF Save
  <2>8. CASE SetTrickMode(t) BY <1>0, <2>8 DEF SetTrickMode
  <2>9. CASE Late(t) BY <1>0, <2>9 DEF Late
  <2>10. QED BY <1>3, <2>1, <2>2, <2>3, <2>4, <2>5, <2>6, <2>7, <2>8, <2>9 DEF Use
<1>4. ASSUME NEW t \in Thread, Free(t) PROVE Pointers'
  <2>0. \A u \in Thread :
          /\ pc[t] \in Releasing /\ pc[u] \in Releasing => u = t
          /\ pc[t] \in Killing => pc[u] \notin Passed
    BY <1>0 DEF OneReleasing, Alone, At
  <2> USE DEF Goto, entity, Pointers, TypeOK
  <2>1. CASE RlsDown(t) BY <1>0, <2>1 DEF RlsDown
  <2>2. CASE RlsFail(t) BY <1>0, <2>2 DEF RlsFail
  <2>3. CASE RlsRead(t) BY <1>0, <2>3 DEF RlsRead
  <2>4. CASE RlsSleep(t) BY <1>0, <2>4 DEF RlsSleep
  <2>5. CASE Signal(t) BY <1>0, <2>5 DEF Signal
  <2>6. CASE Kill(t) BY <1>0, <2>6 DEF Kill
  <2>7. CASE Clear(t)
    BY <1>0, <2>0, <2>7 DEF Clear, Releasing, Killing, Passed
  <2>8. CASE VFree(t)
    BY <1>0, <2>0, <2>8 DEF VFree, Releasing, Killing, Passed
  <2>9. CASE RlsUp(t) BY <1>0, <2>9 DEF RlsUp
  <2>10. QED BY <1>4, <2>1, <2>2, <2>3, <2>4, <2>5, <2>6, <2>7, <2>8, <2>9 DEF Free
<1>5. QED BY <1>1, <1>2, <1>3, <1>4 DEF Next

LEMMA StepFInv ==
  ASSUME FInv, ~ReuseBusy, [Next]_vars
  PROVE  FInv'
<1>1. CASE Next
  BY <1>1, TypeStep, CountStep, ReleasingStep DEF FInv
<1>2. CASE UNCHANGED vars
  BY <1>2 DEF vars, FInv, TypeOK, CountCovers, FlagExact, OneReleasing, At
<1>3. QED BY <1>1, <1>2

LEMMA StepIInv ==
  ASSUME IInv, Disciplined, [Next]_vars
  PROVE  IInv'
<1>1. CASE Next
  <2>1. FInv /\ ~ReuseBusy /\ ~VpssMayFail BY Weaker DEF Disciplined
  <2>2. TypeOK' /\ CountExact' /\ FlagExact' /\ OneReleasing'
    BY <1>1, <2>1, TypeStep, CountStep, ReleasingStep DEF IInv
  <2>3. QED BY <1>1, <2>2, AloneStep, PointersStep DEF IInv
<1>2. CASE UNCHANGED vars
  BY <1>2 DEF vars, IInv, TypeOK, CountExact, FlagExact, OneReleasing, Alone, Pointers, At
<1>3. QED BY <1>1, <1>2

-----------------------------------------------------------------------------
(* What the driver takes the firmware channel to do. *)

(* One thread starts, stops, resets and frees; the firmware does as told.   *)
Solo == (\A t, u \in Control : t = u) /\ ~FwMayFail

(* A thread whose call has found, or made, the channel stopped in a free.   *)
Stopped(t) ==
  \/ pc[t] = "up" /\ op[t] = "free"
  \/ pc[t] \in {"rls", "rlsread", "sleep", "asleep", "kill"}

SInv ==
  /\ \A t \in Thread :
       /\ pc[t] # "idle" => t \in Control \/ op[t] \in {"use", "trick"}
       /\ pc[t] \in Raised \cup {"rls"} => op[t] = "free"
       /\ pc[t] = "back" => op[t] # "free"
       /\ pc[t] = "save" => Drives(op[t]) /\ dec = Target(op[t])
       /\ Stopped(t) /\ pstChan # NoChan => state = "STOP"
  /\ pstChan # NoChan /\ At({"clear"}) = {} => dec # "none"
  /\ StateAgrees

LEMMA InitSInv == Init => SInv
BY DEF Init, SInv, StateAgrees, Stopped, Raised, Releasing, Killing

(* Of the threads inside, one at most is in more than a look or a trick.    *)
LEMMA OneControls ==
  ASSUME SInv, Solo, NEW t \in Thread, NEW u \in Thread, pc[t] # "idle", pc[u] # "idle",
         op[t] \notin {"use", "trick"}, op[u] \notin {"use", "trick"}
  PROVE  t = u
BY DEF SInv, Solo

(* In a free the stop is never refused: nobody else has raised the flag.    *)
LEMMA NotRefused ==
  ASSUME IInv, SInv, Solo, NEW t \in Thread, pc[t] = "try", op[t] = "free"
  PROVE  rlsFlag = 0
<1>1. ASSUME NEW u \in Thread, pc[u] \in Raised PROVE FALSE
  <2>1. op[u] = "free" /\ pc[u] # "idle" /\ u # t
    BY <1>1 DEF SInv, Raised, Releasing, Killing
  <2>2. QED BY <2>1, OneControls
<1>2. At(Raised) = {} BY <1>1 DEF At
<1>3. QED BY <1>2, AtFinite DEF IInv, FlagExact

(* A step that leaves the channel alone and moves one thread.               *)
LEMMA SInvMoves ==
  ASSUME SInv, NEW t \in Thread, NEW q, Goto(t, q), pc \in [Thread -> Places],
         UNCHANGED <<pstChan, state, dec, op>>,
         pc[t] \notin {"idle", "save", "clear"}, q \notin {"save", "clear"},
         q \in Raised \cup {"rls"} => op[t] = "free",
         q = "back" => op[t] # "free",
         Stopped(t)' /\ pstChan # NoChan => state = "STOP"
  PROVE  SInv'
<1>1. /\ At({"clear"})' = At({"clear"}) /\ At({"save", "clear"})' = At({"save", "clear"})
  BY DEF At, Goto
<1>2. \A u \in Thread : u # t => pc'[u] = pc[u]
  BY DEF Goto
<1>3. pc'[t] = q
  BY DEF Goto
<1>4. StateAgrees'
  BY <1>1 DEF SInv, StateAgrees
<1>5. \A u \in Thread : u # t => (Stopped(u)' <=> Stopped(u))
  BY <1>2 DEF Stopped
<1>6. QED BY <1>1, <1>2, <1>3, <1>4, <1>5 DEF SInv

LEMMA SInvManage ==
  ASSUME IInv, SInv, Disciplined, NEW t \in Control, Manage(t)
  PROVE  SInv'
<1>1. t \in Thread /\ NoChan \notin Mem /\ ~ReuseBusy
  BY VdecChanAssumption DEF Disciplined
<1>2. CASE AllocHandle(t)
  BY <1>1, <1>2 DEF AllocHandle, chan, SInv, StateAgrees, Stopped, Quiet, Raised, Releasing, Killing
<1>3. CASE FreeHandle(t)
  BY <1>3 DEF FreeHandle, chan, SInv, StateAgrees, Stopped, At
<1>4. CASE Alloc(t)
  <2>1. \A u \in Thread : pc[u] # "save" /\ pc[u] # "clear"
    BY <1>4 DEF Alloc, IInv, Pointers
  <2>2. UNCHANGED <<pc, op>> /\ state' = "STOP" /\ dec' = "STOP"
    BY <1>4 DEF Alloc
  <2>3. QED BY <2>1, <2>2 DEF SInv, StateAgrees, Stopped
<1>5. QED BY <1>2, <1>3, <1>4 DEF Manage

LEMMA SInvEnter ==
  ASSUME IInv, SInv, Disciplined, NEW t \in Thread, NEW o \in Op, Enter(t, o)
  PROVE  SInv'
<1>1. /\ pc[t] = "idle" /\ pc' = [pc EXCEPT ![t] = "try"] /\ op' = [op EXCEPT ![t] = o]
      /\ UNCHANGED <<pstChan, state, dec>>
      /\ t \in Control \/ o \in {"use", "trick"}
  BY DEF Enter, Goto, chan, MayCall, Disciplined
<1>2. pc \in [Thread -> Places] /\ op \in [Thread -> Calls]
  BY DEF IInv, TypeOK
<1>3. At({"clear"})' = At({"clear"}) /\ At({"save", "clear"})' = At({"save", "clear"})
  BY <1>1, <1>2 DEF At
<1>4. \A u \in Thread : u # t => pc'[u] = pc[u] /\ op'[u] = op[u]
  BY <1>1, <1>2
<1>5. pc'[t] = "try" /\ op'[t] = o
  BY <1>1, <1>2
<1>6. StateAgrees'
  BY <1>1, <1>3 DEF SInv, StateAgrees
<1>7. "try" \notin Raised \cup {"rls", "back", "save"} /\ ~Stopped(t)'
  BY <1>5 DEF Stopped, Raised, Releasing, Killing
<1>8. \A u \in Thread : u # t => (Stopped(u)' <=> Stopped(u))
  BY <1>4 DEF Stopped
<1>9. QED BY <1>1, <1>3, <1>4, <1>5, <1>6, <1>7, <1>8 DEF SInv

(* The firmware and the state are driven by the one thread that controls.   *)
LEMMA SInvFirmware ==
  ASSUME IInv, SInv, Disciplined, Solo, NEW t \in Thread, Firmware(t)
  PROVE  SInv'
<1>1. pc \in [Thread -> Places] /\ op \in [Thread -> Calls]
  BY DEF IInv, TypeOK
<1>2. /\ pc[t] = "fw" /\ UNCHANGED <<pstChan, state, op>>
      /\ dec' = IF Drives(op[t]) /\ dec # "none" THEN Target(op[t]) ELSE dec
      /\ Goto(t, IF Drives(op[t]) THEN "save" ELSE "up")
  BY DEF Firmware, Solo, entity
<1>3. CASE ~Drives(op[t])
  <2>1. dec' = dec /\ Goto(t, "up") BY <1>2, <1>3
  <2>2. op[t] # "free" BY <1>3 DEF Drives
  <2>3. ~Stopped(t)'
    BY <1>1, <1>2, <2>1, <2>2 DEF Stopped, Goto
  <2>4. "up" \notin Raised \cup {"rls"} BY DEF Raised, Releasing, Killing
  <2>5. QED BY <1>1, <1>2, <2>1, <2>3, <2>4, SInvMoves
<1>4. CASE Drives(op[t])
  <2>1. pstChan # NoChan /\ \A u \in Thread : pc[u] \notin {"clear"}
    BY <1>1, <1>2 DEF IInv, Pointers, Alone, Killing, Passed
  <2>2. dec # "none" BY <2>1 DEF SInv, At
  <2>3. dec' = Target(op[t]) /\ pc' = [pc EXCEPT ![t] = "save"]
    BY <1>2, <1>4, <2>2 DEF Goto
  <2>4. dec' # "none" BY <2>3 DEF Target
  <2>5. \A u \in Thread : u # t => pc[u] # "save"
    <3>1. SUFFICES ASSUME NEW u \in Thread, u # t, pc[u] = "save" PROVE FALSE
      OBVIOUS
    <3>2. Drives(op[u]) BY <3>1 DEF SInv
    <3>3. op[t] \notin {"use", "trick"} /\ op[u] \notin {"use", "trick"}
      BY <1>4, <3>2 DEF Drives
    <3>4. QED BY <1>2, <3>1, <3>3, OneControls
  <2>6. \A u \in Thread : u # t => pc'[u] = pc[u]
    BY <1>1, <2>3
  <2>7. pc'[t] = "save" /\ t \in At({"save", "clear"})'
    BY <1>1, <2>3 DEF At
  <2>8. StateAgrees' BY <2>7 DEF StateAgrees
  <2>9. \A u \in Thread : u # t => (Stopped(u)' <=> Stopped(u))
    BY <1>2, <2>6 DEF Stopped
  <2>10. ~Stopped(t)' /\ "save" \notin Raised \cup {"rls", "back", "idle"}
    BY <2>7 DEF Stopped, Raised, Releasing, Killing
  <2>11. QED BY <1>2, <1>4, <2>3, <2>4, <2>5, <2>6, <2>7, <2>8, <2>9, <2>10 DEF SInv
<1>5. QED BY <1>3, <1>4

LEMMA SInvSave ==
  ASSUME IInv, SInv, Disciplined, Solo, NEW t \in Thread, Save(t)
  PROVE  SInv'
<1>1. pc \in [Thread -> Places] /\ op \in [Thread -> Calls]
  BY DEF IInv, TypeOK
<1>2. /\ pc[t] = "save" /\ pc' = [pc EXCEPT ![t] = "up"]
      /\ UNCHANGED <<pstChan, dec, op>> /\ state' = Target(op[t])
  BY DEF Save, Goto, entity, IInv, Pointers
<1>3. Drives(op[t]) /\ dec = Target(op[t]) /\ op[t] \notin {"use", "trick"}
  BY <1>2 DEF SInv, Drives
<1>4. \A u \in Thread : u # t /\ pc[u] # "idle" => op[u] \in {"use", "trick"}
  BY <1>2, <1>3, OneControls
<1>5. \A u \in Thread : u # t => pc'[u] = pc[u]
  BY <1>1, <1>2
<1>6. pc'[t] = "up"
  BY <1>1, <1>2
<1>7. \A u \in Thread : u # t => ~Stopped(u)'
  <2>1. SUFFICES ASSUME NEW u \in Thread, u # t, Stopped(u)' PROVE FALSE
    OBVIOUS
  <2>2. Stopped(u) BY <1>2, <1>5, <2>1 DEF Stopped
  <2>3. pc[u] # "idle" /\ op[u] = "free"
    BY <2>2 DEF Stopped, SInv, Raised, Releasing, Killing
  <2>4. QED BY <1>4, <2>1, <2>3
<1>8. Stopped(t)' => state' = "STOP"
  BY <1>2, <1>6 DEF Stopped, Target
<1>9. StateAgrees'
  BY <1>2, <1>3 DEF StateAgrees
<1>10. At({"clear"})' = At({"clear"}) BY <1>2, <1>5, <1>6 DEF At
<1>11. "up" \notin Raised \cup {"rls"} BY DEF Raised, Releasing, Killing
<1>12. QED BY <1>2, <1>3, <1>5, <1>6, <1>7, <1>8, <1>9, <1>10, <1>11 DEF SInv

LEMMA SInvUse ==
  ASSUME IInv, SInv, Disciplined, Solo, NEW t \in Thread, Use(t)
  PROVE  SInv'
<1>1. pc \in [Thread -> Places] /\ op \in [Thread -> Calls] /\ state \in {"STOP", "RUN"}
  BY DEF IInv, TypeOK
<1> USE DEF Raised, Releasing, Killing
<1>2. CASE TryUse(t)
  <2>1. rlsFlag # 0 => op[t] # "free"
    BY <1>2, NotRefused DEF TryUse
  <2>2. CASE rlsFlag # 0
    <3>1. Goto(t, "back") /\ UNCHANGED <<pstChan, state, dec, op>> /\ pc[t] = "try"
      BY <1>2, <2>2 DEF TryUse, entity, chan
    <3>2. ~Stopped(t)' BY <1>1, <3>1 DEF Goto, Stopped
    <3>3. QED BY <1>1, <2>1, <2>2, <3>1, <3>2, SInvMoves
  <2>3. CASE rlsFlag = 0
    <3>1. Goto(t, "look") /\ UNCHANGED <<pstChan, state, dec, op>> /\ pc[t] = "try"
      BY <1>2, <2>3 DEF TryUse, entity, chan
    <3>2. ~Stopped(t)' BY <1>1, <3>1 DEF Goto, Stopped
    <3>3. QED BY <1>1, <3>1, <3>2, SInvMoves
  <2>4. QED BY <2>2, <2>3
<1>3. CASE TryBack(t)
  <2>1. pc[t] = "back" /\ op[t] # "free"
    BY <1>3 DEF TryBack, SInv
  <2>2. Goto(t, "idle") /\ UNCHANGED <<pstChan, state, dec, op>>
    BY <1>3, <2>1 DEF TryBack, Return, chan
  <2>3. ~Stopped(t)' BY <1>1, <2>2 DEF Goto, Stopped
  <2>4. QED BY <1>1, <2>1, <2>2, <2>3, SInvMoves
<1>4. CASE Look(t)
  <2>1. /\ pc[t] = "look" /\ UNCHANGED <<pstChan, state, dec, op>>
        /\ Goto(t, IF pstChan = NoChan THEN "up" ELSE "body")
    BY <1>4 DEF Look, entity, chan
  <2>2. Stopped(t)' => pstChan = NoChan BY <1>1, <2>1 DEF Goto, Stopped
  <2>3. QED BY <1>1, <2>1, <2>2, SInvMoves
<1>5. CASE UseUp(t)
  <2>1. pc[t] = "up" /\ UNCHANGED <<pstChan, state, dec, op>>
    BY <1>5 DEF UseUp, chan
  <2>2. op[t] \in Op /\ op[t] \notin {"demux", "iframe", "failed"}
    BY <2>1, VdecChanAssumption DEF IInv, Pointers, Disciplined, Operations
  <2>3. Goto(t, Return(op[t]))
    BY <1>5, <2>2 DEF UseUp, UsesLate
  <2>4. Stopped(t)' => Stopped(t)
    BY <1>1, <2>1, <2>3 DEF Goto, Stopped, Return
  <2>5. Stopped(t)' /\ pstChan # NoChan => state = "STOP"
    BY <2>4 DEF SInv
  <2>6. Return(op[t]) \in {"rls", "idle"} /\ (Return(op[t]) = "rls" => op[t] = "free")
    BY DEF Return
  <2>7. QED BY <1>1, <2>1, <2>3, <2>5, <2>6, SInvMoves
<1>6. CASE Body(t)
  <2>1. /\ pc[t] = "body" /\ UNCHANGED <<pstChan, state, dec, op>>
        /\ Goto(t, IF Proceeds(op[t]) THEN "fw" ELSE "up")
    BY <1>6 DEF Body, entity, chan
  <2>2. Stopped(t)' => state = "STOP"
    BY <1>1, <2>1 DEF Goto, Stopped, Proceeds
  <2>3. QED BY <1>1, <2>1, <2>2, SInvMoves
<1>7. CASE Firmware(t) BY <1>7, SInvFirmware
<1>8. CASE Save(t) BY <1>8, SInvSave
<1>9. CASE SetTrickMode(t)
  <2>1. /\ pc[t] = "fw" /\ op[t] = "trick" /\ UNCHANGED <<pstChan, state, dec, op>>
        /\ Goto(t, "up")
    BY <1>9 DEF SetTrickMode, entity, chan, Disciplined
  <2>2. ~Stopped(t)' BY <1>1, <2>1 DEF Goto, Stopped
  <2>3. QED BY <1>1, <2>1, <2>2, SInvMoves
<1>10. CASE Late(t)
  BY <1>10 DEF Late, IInv, Pointers
<1>11. QED
  BY <1>2, <1>3, <1>4, <1>5, <1>6, <1>7, <1>8, <1>9, <1>10 DEF Use

(* The thread that is about to destroy the channel has stopped it.          *)
LEMMA KillStopped ==
  ASSUME IInv, SInv, Solo, NEW t \in Thread, pc[t] = "kill", pstChan # NoChan
  PROVE  state = "STOP" /\ dec = "STOP"
<1>1. state = "STOP" BY DEF SInv, Stopped
<1>2. ASSUME NEW u \in Thread, pc[u] \in {"save", "clear"} PROVE FALSE
  <2>1. pc[t] \in Killing /\ pc[t] \in Releasing BY DEF Killing, Releasing
  <2>2. pc[u] # "save" BY <2>1 DEF IInv, Alone, Passed
  <2>3. pc[u] = "clear" => u = t
    BY <2>1 DEF IInv, OneReleasing, At, Releasing, Killing
  <2>4. QED BY <1>2, <2>2, <2>3
<1>3. QED BY <1>1, <1>2 DEF SInv, StateAgrees, At

(* A step of the destruction: kill lets the channel stand until it is       *)
(* cleared, and whoever comes after clear has made it NoChan.               *)
LEMMA SInvDestroys ==
  ASSUME IInv, SInv, NEW t \in Thread, pc[t] \in {"kill", "clear"},
         NEW q \in {"clear", "vfree"}, Goto(t, q), op[t] = "free",
         UNCHANGED <<op, state>>,
         q = "clear" => pstChan' = pstChan,
         q = "vfree" => pstChan' = NoChan
  PROVE  SInv'
<1>1. pc \in [Thread -> Places] /\ op \in [Thread -> Calls]
  BY DEF IInv, TypeOK
<1>2. op' = op /\ state' = state /\ op[t] = "free"
  OBVIOUS
<1> USE DEF Raised, Releasing, Killing
<1>3. pc'[t] = q /\ \A u \in Thread : u # t => pc'[u] = pc[u]
  BY <1>1 DEF Goto
<1>4. \A u \in Thread : pc[u] # "save"
  BY DEF IInv, Alone, Passed
<1>5. \A u \in Thread : pc'[u] # "save"
  BY <1>3, <1>4
<1>6. pstChan' # NoChan => t \in At({"clear"})' /\ t \in At({"save", "clear"})'
  BY <1>3 DEF At
<1>7. \A u \in Thread : Stopped(u)' => Stopped(u)
  BY <1>2, <1>3 DEF Stopped
<1>8. pstChan' # NoChan => pstChan' = pstChan
  OBVIOUS
<1>9. \A u \in Thread : Stopped(u)' /\ pstChan' # NoChan => state' = "STOP"
  BY <1>2, <1>7, <1>8 DEF SInv
<1>10. StateAgrees'
  BY <1>6 DEF StateAgrees
<1>11. ASSUME NEW u \in Thread
       PROVE  /\ pc'[u] # "idle" => u \in Control \/ op'[u] \in {"use", "trick"}
              /\ pc'[u] \in Raised \cup {"rls"} => op'[u] = "free"
              /\ pc'[u] = "back" => op'[u] # "free"
  BY <1>2, <1>3 DEF SInv
<1>12. QED BY <1>5, <1>6, <1>9, <1>10, <1>11 DEF SInv

LEMMA SInvFree ==
  ASSUME IInv, SInv, Disciplined, Solo, NEW t \in Thread, Free(t)
  PROVE  SInv'
<1>1. pc \in [Thread -> Places] /\ op \in [Thread -> Calls]
  BY DEF IInv, TypeOK
<1>2. pc[t] \in Raised \cup {"rls"} /\ op[t] = "free" /\ op' = op
  BY DEF Free, RlsDown, RlsFail, RlsRead, RlsSleep, Signal, Kill, Clear, VFree, RlsUp, SInv,
         Raised, Releasing, Killing
<1> USE DEF Raised, Releasing, Killing
<1>3. ASSUME NEW q, Goto(t, q), q \in {"rlsread", "rlsfail", "kill", "sleep", "asleep"},
             Stopped(t), UNCHANGED <<pstChan, state, dec>>
      PROVE  SInv'
  <2>1. pstChan # NoChan => state = "STOP" BY <1>3 DEF SInv
  <2>2. pc[t] \notin {"idle", "save", "clear"} BY <1>3 DEF Stopped
  <2>3. q \notin {"save", "clear", "back"} BY <1>3
  <2>4. QED BY <1>1, <1>2, <1>3, <2>1, <2>2, <2>3, SInvMoves
<1>4. CASE RlsDown(t) \/ RlsRead(t) \/ RlsSleep(t)
  BY <1>3, <1>4 DEF RlsDown, RlsRead, RlsSleep, Stopped, entity, chan
<1>5. CASE RlsFail(t) \/ RlsUp(t)
  <2>1. Goto(t, "idle") /\ UNCHANGED <<pstChan, state, dec>> /\ pc[t] \in {"rlsfail", "rlsup"}
    BY <1>5 DEF RlsFail, RlsUp, chan
  <2>2. ~Stopped(t)' BY <1>1, <2>1 DEF Goto, Stopped
  <2>3. QED BY <1>1, <1>2, <2>1, <2>2, SInvMoves
<1>6. CASE Signal(t)
  BY <1>6 DEF Signal, Disciplined
<1>7. CASE Kill(t) /\ pstChan = NoChan
  <2>1. Goto(t, "rlsup") /\ UNCHANGED <<pstChan, state, dec>> /\ pc[t] = "kill"
    BY <1>7 DEF Kill, entity
  <2>2. QED BY <1>1, <1>2, <1>7, <2>1, SInvMoves
<1>8. CASE Kill(t) /\ pstChan # NoChan
  <2>1. pc[t] = "kill" /\ Goto(t, "clear") /\ pstChan' = pstChan /\ UNCHANGED state
    BY <1>8 DEF Kill, entity
  <2>2. QED BY <1>2, <2>1, SInvDestroys
<1>9. CASE Clear(t)
  <2>1. pc[t] = "clear" /\ Goto(t, "vfree") /\ pstChan' = NoChan /\ UNCHANGED state
    BY <1>9 DEF Clear, chan
  <2>2. QED BY <1>2, <2>1, SInvDestroys
<1>10. CASE VFree(t)
  <2>1. pc[t] = "vfree" /\ Goto(t, "rlsup") /\ UNCHANGED <<pstChan, state, dec>>
    BY <1>10 DEF VFree, entity, chan
  <2>2. ~Stopped(t)' BY <1>1, <2>1 DEF Goto, Stopped
  <2>3. QED BY <1>1, <1>2, <2>1, <2>2, SInvMoves
<1>11. QED
  BY <1>4, <1>5, <1>6, <1>7, <1>8, <1>9, <1>10 DEF Free

LEMMA StepSInv ==
  ASSUME IInv, SInv, Disciplined, Solo, [Next]_vars
  PROVE  SInv'
<1>1. CASE Next
  BY <1>1, SInvManage, SInvEnter, SInvUse, SInvFree DEF Next
<1>2. CASE UNCHANGED vars
  BY <1>2 DEF vars, SInv, StateAgrees, Stopped, At
<1>3. QED BY <1>1, <1>2

(* Only VDEC_Chan_Free destroys a firmware channel.                         *)
LEMMA StepDestroys ==
  ASSUME IInv, SInv, Solo, [Next]_vars, dec = "RUN"
  PROVE  dec' # "none"
<1>1. ASSUME NEW t \in Control, Manage(t) PROVE dec' # "none"
  BY <1>1 DEF Manage, AllocHandle, FreeHandle, Alloc, chan
<1>2. ASSUME NEW t \in Thread, NEW o \in Op, Enter(t, o) PROVE dec' # "none"
  BY <1>2 DEF Enter, chan
<1>3. ASSUME NEW t \in Thread, Use(t) PROVE dec' # "none"
  BY <1>3 DEF Use, TryUse, TryBack, Look, UseUp, Body, Firmware, Save, SetTrickMode, Late, Target, chan
<1>4. ASSUME NEW t \in Thread, Free(t) PROVE dec' # "none"
  <2>1. CASE Kill(t)
    BY <2>1, KillStopped DEF Kill
  <2>2. CASE ~Kill(t)
    BY <1>4, <2>2 DEF Free, RlsDown, RlsFail, RlsRead, RlsSleep, Signal, Clear, VFree, RlsUp, chan
  <2>3. QED BY <2>1, <2>2
<1>5. QED BY <1>1, <1>2, <1>3, <1>4 DEF Next, vars

-----------------------------------------------------------------------------
(* The theorems. *)

(* The invariant holds of every state the channel reaches under a           *)
(* disciplined use.                                                         *)
THEOREM Invariant ==
  ASSUME Disciplined
  PROVE  Spec => []IInv
<1>1. Init => IInv BY InitIInv
<1>2. IInv /\ [Next]_vars => IInv' BY StepIInv
<1>3. QED BY <1>1, <1>2, PTL DEF Spec

(* What holds even if a signal ends a wait, counts leak or an entry point   *)
(* works on after USE_UP.                                                   *)
THEOREM FlagInvariant ==
  ASSUME ~ReuseBusy
  PROVE  Spec => []FInv
<1>1. Init => FInv BY InitIInv, Weaker
<1>2. FInv /\ [Next]_vars => FInv' BY StepFInv
<1>3. QED BY <1>1, <1>2, PTL DEF Spec

(* Type correctness: neither counter goes below zero, which is the          *)
(* "Use unlock err" of USE_UP.                                              *)
THEOREM TypeCorrect ==
  ASSUME ~ReuseBusy
  PROVE  Spec => []TypeOK
<1>1. FInv => TypeOK BY DEF FInv
<1>2. QED BY <1>1, FlagInvariant, PTL

(* The use count is the number of calls inside the channel, as long as each *)
(* call gives its count back.                                               *)
THEOREM UseCountExact ==
  ASSUME ~ReuseBusy, ~VpssMayFail
  PROVE  Spec => []CountExact
<1>1. Init => CountExact
  BY InitIInv DEF IInv
<1>2. FInv /\ CountExact /\ [Next]_vars => CountExact'
  <2>1. FInv /\ CountExact /\ Next => CountExact'
    BY CountStep
  <2>2. CountExact /\ UNCHANGED vars => CountExact'
    BY DEF vars, CountExact, At
  <2>3. QED BY <2>1, <2>2
<1>3. QED BY <1>1, <1>2, FlagInvariant, PTL DEF Spec

(* VDEC_Chan_Free never frees the structure under a call, and no call ever  *)
(* takes a pointer to a freed one.                                          *)
THEOREM NeverUsedAfterFree ==
  ASSUME Disciplined
  PROVE  Spec => []NoUseAfterFree
<1>1. IInv => NoUseAfterFree
  BY DEF IInv, Pointers, NoUseAfterFree, Touching
<1>2. QED BY <1>1, Invariant, PTL

(* However many threads call VDEC_Chan_Free, one at a time frees, even when *)
(* a signal cuts its wait short.                                            *)
THEOREM FreesOneAtATime ==
  ASSUME ~ReuseBusy
  PROVE  Spec => []OneFreer
<1>1. FInv => OneFreer
  BY DEF FInv, OneReleasing, OneFreer, At, Releasing
<1>2. QED BY <1>1, FlagInvariant, PTL

THEOREM ControlInvariant ==
  ASSUME Disciplined, Solo
  PROVE  Spec => []SInv
<1>1. Init => SInv BY InitSInv
<1>2. IInv /\ SInv /\ [Next]_vars => SInv' BY StepSInv
<1>3. QED BY <1>1, <1>2, Invariant, PTL DEF Spec

(* Between calls the driver's enCurState is what the firmware channel does, *)
(* though both are set without a lock.                                      *)
THEOREM DriverAgrees ==
  ASSUME Disciplined, Solo
  PROVE  Spec => []StateAgrees
<1>1. SInv => StateAgrees BY DEF SInv
<1>2. QED BY <1>1, ControlInvariant, PTL

(* VDEC_Chan_Free stops the firmware channel before it destroys it: the     *)
(* stop inside it is never refused, and nobody starts the channel again.    *)
THEOREM StoppedFirst ==
  ASSUME Disciplined, Solo
  PROVE  Spec => DestroyedStopped
<1>1. IInv /\ SInv /\ [Next]_vars => [dec = "RUN" => dec' # "none"]_vars
  BY StepDestroys
<1>2. QED BY <1>1, Invariant, ControlInvariant, PTL DEF Spec, DestroyedStopped
=============================================================================
