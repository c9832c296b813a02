--------------------------- MODULE VencFifoProofs ---------------------------
(***************************************************************************)
(* Proofs that no frame of a channel of VencFrames is lost or doubled, and *)
(* that each channel is a FIFO (VencFifo), for any number of channels,     *)
(* slots and frames and any priorities.                                    *)
(*                                                                         *)
(* Each step changes the frames of a channel in one of three ways (Keeps): *)
(* a frame is queued, a beginning of the channel's frames goes back to the *)
(* source, or all are freed with the queue.  A query may skip frames of    *)
(* several channels and take one of another, yet of each channel it gives  *)
(* back a beginning, with QuickEncode too (GotWhole).  Each of the three   *)
(* keeps the frames shared between source and driver (SharedKept), so it   *)
(* is enough to look at one channel at a time.                             *)
(*                                                                         *)
(* The FIFO needs Uniform besides: VENC_DRV_EflStopVenc asks of the        *)
(* channel whose index is the number of the slot whether it is attached    *)
(* (drv_venc_efl.c:3499), so every index must answer yes.                  *)
(***************************************************************************)
EXTENDS VencFramesProofs

Uniform == Attached = 1..Slots

(* The frames are shared between those in u and those in s, each once.     *)
Shared(u, s) ==
  /\ u \in SUBSET Frame /\ s \in Seq(Frame)
  /\ \A f \in Frame : f \in u <=> \A i \in 1..Len(s) : s[i] # f
  /\ \A i, j \in 1..Len(s) : s[i] = s[j] => i = j

(* Besides: no frame that was freed is with its source, a channel waits    *)
(* only while it is enabled, and a stop in progress knows its slot.        *)
KInv ==
  \A c \in Chn : /\ Shared(source[c] \union lost[c], Pipe(c))
                 /\ source[c] \intersect lost[c] = {}
                 /\ ~enabled[c] => ~waiting[c]
                 /\ c = stopping.chn => enabled[c] /\ stopping.slot \in Pos

(* What a step may do with the frames of channel c. *)
Queues(c) ==
  \E f \in source[c] : /\ source'[c] = source[c] \ {f} /\ lost'[c] = lost[c]
                       /\ Pipe(c)' = Append(Pipe(c), f)
Returns(c) ==
  \E a, b \in Seq(Frame) : /\ Pipe(c) = a \o b /\ Pipe(c)' = b
                           /\ source'[c] = source[c] \union ToSet(a) /\ lost'[c] = lost[c]
Frees(c) ==
  /\ source'[c] = source[c] /\ lost'[c] = lost[c] \union ToSet(Pipe(c))
  /\ Pipe(c)' = <<>>

Keeps(c) == Queues(c) \/ Returns(c) \/ Frees(c)

(* The step is one of channel c's FIFO, or does not touch it.              *)
Advances(c) == Fifo(c)!Next \/ UNCHANGED Fifo(c)!fvars

-----------------------------------------------------------------------------
(* Sequences. *)

LEMMA HeadTailWhole ==
  ASSUME NEW s \in Seq(Frame), s # <<>>
  PROVE  s = <<Head(s)>> \o Tail(s)
<1>1. /\ Head(s) \in Frame /\ Tail(s) \in Seq(Frame) /\ Len(Tail(s)) = Len(s) - 1
      /\ \A i \in 1..Len(Tail(s)) : Tail(s)[i] = s[i + 1]
  BY HeadTailProperties
<1>2. Len(s) \in Nat \ {0}
  BY EmptySeq
<1>3. /\ <<Head(s)>> \in Seq(Frame) /\ Len(<<Head(s)>>) = 1 /\ <<Head(s)>>[1] = s[1]
  BY <1>1, <1>2
<1>4. /\ <<Head(s)>> \o Tail(s) \in Seq(Frame) /\ Len(<<Head(s)>> \o Tail(s)) = Len(s)
      /\ \A i \in 1..Len(s) : (<<Head(s)>> \o Tail(s))[i] = IF i <= 1 THEN <<Head(s)>>[i] ELSE Tail(s)[i - 1]
  <2>1. \A g, k \in Seq(Frame) : /\ g \o k \in Seq(Frame) /\ Len(g \o k) = Len(g) + Len(k)
                                 /\ \A i \in 1..(Len(g) + Len(k)) : (g \o k)[i] = IF i <= Len(g) THEN g[i] ELSE k[i - Len(g)]
    BY ConcatProperties
  <2>2. 1 + (Len(s) - 1) = Len(s)
    BY <1>2
  <2>3. QED BY <1>1, <1>3, <2>1, <2>2
<1>5. \A i \in 1..Len(s) : (<<Head(s)>> \o Tail(s))[i] = s[i]
  <2> TAKE i \in 1..Len(s)
  <2>1. CASE i = 1
    BY <1>2, <1>3, <1>4, <2>1
  <2>2. CASE i # 1
    <3>1. i - 1 \in 1..Len(Tail(s)) /\ i - 1 + 1 = i /\ ~(i <= 1)
      BY <1>1, <1>2, <2>2
    <3>2. Tail(s)[i - 1] = s[i - 1 + 1]
      BY <1>1, <3>1
    <3>3. QED BY <1>4, <3>1, <3>2
  <2>3. QED BY <2>1, <2>2
<1>6. QED BY <1>4, <1>5, SeqEqual

LEMMA FrontLastWhole ==
  ASSUME NEW s \in Seq(Frame), s # <<>>
  PROVE  s = Front(s) \o <<Last(s)>>
<1>1. /\ Last(s) \in Frame /\ Front(s) \in Seq(Frame)
      /\ Len(s) \in Nat \ {0} /\ Len(Front(s)) = Len(s) - 1
  BY LastFacts
<1>2. \A i \in 1..(Len(s) - 1) : Front(s)[i] = s[i]
  <2> DEFINE m == Len(s) - 1
  <2>1. m \in Nat /\ \A i \in 1..m : s[i] \in Frame
    BY <1>1, ElementOfSeq
  <2> HIDE DEF m
  <2>2. \A i \in 1..m : SubSeq(s, 1, m)[i] = s[i]
    <3>1. \A i \in 1..m : SubSeq(s, 1, m)[i] = s[1 + i - 1]
      BY <2>1, SubSeqProperties
    <3>2. QED BY <2>1, <3>1
  <2>3. QED BY <2>2 DEF Front, m
<1>3. <<Last(s)>> \in Seq(Frame) /\ Len(<<Last(s)>>) = 1 /\ <<Last(s)>>[1] = s[Len(s)]
  BY <1>1 DEF Last
<1>4. Append(Front(s), Last(s)) = Front(s) \o <<Last(s)>>
  BY <1>1, AppendIsConcat
<1>5. /\ Append(Front(s), Last(s)) \in Seq(Frame) /\ Len(Append(Front(s), Last(s))) = Len(s)
      /\ \A i \in 1..(Len(s) - 1) : Append(Front(s), Last(s))[i] = s[i]
      /\ Append(Front(s), Last(s))[Len(s)] = s[Len(s)]
  <2>1. /\ Append(Front(s), Last(s)) \in Seq(Frame)
        /\ Len(Append(Front(s), Last(s))) = Len(Front(s)) + 1
        /\ \A i \in 1..Len(Front(s)) : Append(Front(s), Last(s))[i] = Front(s)[i]
        /\ Append(Front(s), Last(s))[Len(Front(s)) + 1] = Last(s)
    BY <1>1, AppendProperties
  <2>2. Len(Front(s)) + 1 = Len(s)
    BY <1>1
  <2>3. QED BY <1>1, <1>2, <1>3, <2>1, <2>2
<1>6. \A i \in 1..Len(s) : Append(Front(s), Last(s))[i] = s[i]
  BY <1>1, <1>5
<1>7. Append(Front(s), Last(s)) = s
  BY <1>5, <1>6, SeqEqual
<1>8. QED BY <1>4, <1>7

LEMMA ConcatFacts ==
  /\ <<>> \in Seq(Frame) /\ \A x \in Frame : <<x>> \in Seq(Frame) /\ Len(<<x>>) = 1 /\ Head(<<x>>) = x
                                             /\ Tail(<<x>>) = <<>>
  /\ \A s \in Seq(Frame) : s \o <<>> = s /\ <<>> \o s = s
  /\ \A s, t \in Seq(Frame) : s \o t \in Seq(Frame) /\ Len(s \o t) = Len(s) + Len(t)
  /\ \A s, t, u \in Seq(Frame) : (s \o t) \o u = s \o (t \o u)
  /\ \A s \in Seq(Frame), x \in Frame : Append(s, x) = s \o <<x>>
<1>1. <<>> \in Seq(Frame) /\ \A s \in Seq(Frame) : s \o <<>> = s /\ <<>> \o s = s
  BY EmptySeq, ConcatEmptySeq
<1>2. /\ \A s, t \in Seq(Frame) : s \o t \in Seq(Frame) /\ Len(s \o t) = Len(s) + Len(t)
      /\ \A s, t, u \in Seq(Frame) : (s \o t) \o u = s \o (t \o u)
  BY ConcatProperties, ConcatAssociative
<1>3. \A s \in Seq(Frame), x \in Frame : Append(s, x) = s \o <<x>>
  BY AppendIsConcat
<1>4. \A x \in Frame : <<x>> \in Seq(Frame) /\ Len(<<x>>) = 1 /\ Head(<<x>>) = x
                       /\ Tail(<<x>>) = <<>>
  OBVIOUS
<1>5. QED BY <1>1, <1>2, <1>3, <1>4

LEMMA ConcatParts ==
  ASSUME NEW a \in Seq(Frame), NEW b \in Seq(Frame)
  PROVE  /\ Len(a) \in Nat /\ Len(b) \in Nat /\ Len(a \o b) = Len(a) + Len(b)
         /\ \A i \in 1..Len(a) : i \in 1..Len(a \o b) /\ (a \o b)[i] = a[i]
         /\ \A i \in 1..Len(b) : Len(a) + i \in 1..Len(a \o b) /\ (a \o b)[Len(a) + i] = b[i]
         /\ \A i \in 1..Len(a \o b) : i \in 1..Len(a) \/ \E j \in 1..Len(b) : i = Len(a) + j
<1>1. /\ Len(a \o b) = Len(a) + Len(b)
      /\ \A i \in 1..(Len(a) + Len(b)) : (a \o b)[i] = IF i <= Len(a) THEN a[i] ELSE b[i - Len(a)]
  BY ConcatProperties
<1>2. Len(a) \in Nat /\ Len(b) \in Nat
  BY LenProperties
<1>3. ASSUME NEW i \in 1..Len(a) PROVE i \in 1..Len(a \o b) /\ (a \o b)[i] = a[i]
  BY <1>1, <1>2
<1>4. ASSUME NEW i \in 1..Len(b)
      PROVE  Len(a) + i \in 1..Len(a \o b) /\ (a \o b)[Len(a) + i] = b[i]
  BY <1>1, <1>2
<1>5. ASSUME NEW i \in 1..Len(a \o b)
      PROVE  i \in 1..Len(a) \/ \E j \in 1..Len(b) : i = Len(a) + j
  <2>1. CASE i <= Len(a)
    BY <1>2, <2>1
  <2>2. CASE ~(i <= Len(a))
    <3>1. i - Len(a) \in 1..Len(b) /\ i = Len(a) + (i - Len(a))
      BY <1>1, <1>2, <2>2
    <3>2. QED BY <3>1
  <2>3. QED BY <2>1, <2>2
<1>6. QED BY <1>1, <1>2, <1>3, <1>4, <1>5

LEMMA ToSetFacts ==
  /\ ToSet(<<>>) = {} /\ \A x \in Frame : ToSet(<<x>>) = {x}
  /\ \A s \in Seq(Frame) : /\ ToSet(s) = {s[i] : i \in 1..Len(s)} /\ ToSet(s) \subseteq Frame
                           /\ \A f : f \in ToSet(s) <=> \E i \in 1..Len(s) : s[i] = f
  /\ \A a, b \in Seq(Frame) : ToSet(a \o b) = ToSet(a) \union ToSet(b)
<1>1. ToSet(<<>>) = {} /\ \A x \in Frame : ToSet(<<x>>) = {x}
  BY DEF ToSet
<1>2. ASSUME NEW s \in Seq(Frame)
      PROVE  /\ ToSet(s) = {s[i] : i \in 1..Len(s)} /\ ToSet(s) \subseteq Frame
             /\ \A f : f \in ToSet(s) <=> \E i \in 1..Len(s) : s[i] = f
  <2>1. DOMAIN s = 1..Len(s)
    BY LenProperties
  <2>2. QED BY <2>1, ToSetType DEF ToSet
<1>3. ASSUME NEW a \in Seq(Frame), NEW b \in Seq(Frame)
      PROVE  ToSet(a \o b) = ToSet(a) \union ToSet(b)
  <2> DEFINE s == a \o b
  <2>1. s \in Seq(Frame)
    BY ConcatProperties
  <2>2. /\ \A i \in 1..Len(a) : i \in 1..Len(s) /\ s[i] = a[i]
        /\ \A i \in 1..Len(b) : Len(a) + i \in 1..Len(s) /\ s[Len(a) + i] = b[i]
        /\ \A i \in 1..Len(s) : i \in 1..Len(a) \/ \E j \in 1..Len(b) : i = Len(a) + j
    BY ConcatParts
  <2> HIDE DEF s
  <2>m. /\ \A f : f \in ToSet(a) <=> \E i \in 1..Len(a) : a[i] = f
        /\ \A f : f \in ToSet(b) <=> \E i \in 1..Len(b) : b[i] = f
        /\ \A f : f \in ToSet(s) <=> \E i \in 1..Len(s) : s[i] = f
    BY <1>2, <2>1, Zenon
  <2>3. ASSUME NEW f, f \in ToSet(s) PROVE f \in ToSet(a) \/ f \in ToSet(b)
    <3>1. PICK i \in 1..Len(s) : s[i] = f
      BY <2>m, <2>3
    <3>2. CASE i \in 1..Len(a)
      BY <2>2, <2>m, <3>1, <3>2
    <3>3. ASSUME NEW j \in 1..Len(b), i = Len(a) + j PROVE f \in ToSet(b)
      BY <2>2, <2>m, <3>1, <3>3
    <3>4. QED BY <2>2, <3>2, <3>3
  <2>4. ASSUME NEW f, f \in ToSet(a) \/ f \in ToSet(b) PROVE f \in ToSet(s)
    <3>1. CASE f \in ToSet(a)
      BY <2>2, <2>m, <3>1
    <3>2. CASE f \in ToSet(b)
      BY <2>2, <2>m, <3>2
    <3>3. QED BY <2>4, <3>1, <3>2
  <2>5. ToSet(s) = ToSet(a) \union ToSet(b)
    BY <2>3, <2>4
  <2>6. QED BY <2>5 DEF s
<1>4. QED BY <1>1, <1>2, <1>3

-----------------------------------------------------------------------------
(* Each of the three ways keeps the frames shared. *)

LEMMA SharedQueue ==
  ASSUME NEW u, NEW s, Shared(u, s), NEW f \in u
  PROVE  Shared(u \ {f}, Append(s, f))
<1>1. s \in Seq(Frame) /\ f \in Frame /\ Len(s) \in Nat
  BY LenProperties DEF Shared
<1>2. /\ Append(s, f) \in Seq(Frame) /\ Len(Append(s, f)) = Len(s) + 1
      /\ \A i \in 1..Len(s) : Append(s, f)[i] = s[i]
      /\ Append(s, f)[Len(s) + 1] = f
  BY <1>1, AppendProperties
<1>3. \A i \in 1..(Len(s) + 1) : i \in 1..Len(s) \/ i = Len(s) + 1
  BY <1>1
<1>4. \A i \in 1..Len(s) : i \in 1..(Len(s) + 1)
  BY <1>1
<1>5. Len(s) + 1 \in 1..(Len(s) + 1)
  BY <1>1
<1>6. \A i \in 1..Len(s) : s[i] # f
  BY <1>1 DEF Shared
<1>7. \A g \in Frame : g \in u \ {f} <=> \A i \in 1..(Len(s) + 1) : Append(s, f)[i] # g
  BY <1>2, <1>3, <1>4, <1>5 DEF Shared
<1>8. \A i, j \in 1..(Len(s) + 1) : Append(s, f)[i] = Append(s, f)[j] => i = j
  BY <1>2, <1>3, <1>6 DEF Shared
<1>9. QED BY <1>2, <1>7, <1>8 DEF Shared

LEMMA SharedPrefix ==
  ASSUME NEW u, NEW a \in Seq(Frame), NEW b \in Seq(Frame), Shared(u, a \o b)
  PROVE  Shared(u \union ToSet(a), b) /\ u \intersect ToSet(a) = {}
<1> DEFINE s == a \o b
<1>1. /\ Len(a) \in Nat /\ \A i \in 1..Len(a) : i \in 1..Len(s) /\ s[i] = a[i]
      /\ \A i \in 1..Len(b) : Len(a) + i \in 1..Len(s) /\ s[Len(a) + i] = b[i]
      /\ \A i \in 1..Len(s) : i \in 1..Len(a) \/ \E j \in 1..Len(b) : i = Len(a) + j
  BY ConcatParts
<1>2. Shared(u, s)
  OBVIOUS
<1> HIDE DEF s
<1>3. ToSet(a) \subseteq Frame /\ \A f : f \in ToSet(a) <=> \E i \in 1..Len(a) : a[i] = f
  BY ToSetFacts
<1>4. \A f \in Frame : f \in u => f \notin ToSet(a)
  BY <1>1, <1>2, <1>3 DEF Shared
<1>5. ASSUME NEW f \in Frame
      PROVE  f \in u \union ToSet(a) <=> \A i \in 1..Len(b) : b[i] # f
  <2>1. ASSUME f \in u PROVE \A i \in 1..Len(b) : b[i] # f
    BY <1>1, <1>2, <2>1 DEF Shared
  <2>2. ASSUME f \in ToSet(a), NEW i \in 1..Len(b), b[i] = f PROVE FALSE
    <3>1. PICK j \in 1..Len(a) : a[j] = f
      BY <1>3, <2>2
    <3>2. s[j] = s[Len(a) + i] /\ j \in 1..Len(s) /\ Len(a) + i \in 1..Len(s)
      BY <1>1, <2>2, <3>1
    <3>3. j = Len(a) + i
      BY <1>2, <3>2 DEF Shared
    <3>4. QED BY <1>1, <3>3
  <2>3. ASSUME f \notin u, f \notin ToSet(a) PROVE \E i \in 1..Len(b) : b[i] = f
    <3>1. PICK j \in 1..Len(s) : s[j] = f
      BY <1>2, <2>3 DEF Shared
    <3>2. QED BY <1>1, <1>3, <2>3, <3>1
  <2>4. QED BY <2>1, <2>2, <2>3
<1>6. ASSUME NEW i \in 1..Len(b), NEW j \in 1..Len(b), b[i] = b[j] PROVE i = j
  <2>a. /\ s[Len(a) + i] = s[Len(a) + j]
        /\ Len(a) + i \in 1..Len(s) /\ Len(a) + j \in 1..Len(s)
    <3>1. s[Len(a) + i] = b[i] /\ s[Len(a) + j] = b[j]
      BY <1>1
    <3>2. QED BY <1>1, <1>6, <3>1
  <2>1. Len(a) + i = Len(a) + j
    <3>1. \A k, l \in 1..Len(s) : s[k] = s[l] => k = l
      BY <1>2 DEF Shared
    <3>2. QED BY <2>a, <3>1
  <2>2. QED BY <1>1, <2>1
<1>7. QED BY <1>2, <1>3, <1>4, <1>5, <1>6 DEF Shared

LEMMA SharedKept ==
  ASSUME NEW c \in Chn, Shared(source[c] \union lost[c], Pipe(c)),
         source[c] \intersect lost[c] = {}, Keeps(c)
  PROVE  /\ Shared(source[c] \union lost[c], Pipe(c))'
         /\ source'[c] \intersect lost'[c] = {}
<1> DEFINE s == Pipe(c)
           u == source[c] \union lost[c]
           v == source'[c] \union lost'[c]
<1>1. Shared(u, s) /\ s \in Seq(Frame)
  BY DEF Shared
<1>2. SUFFICES Shared(v, s') /\ source'[c] \intersect lost'[c] = {}
  BY DEF Shared
<1> HIDE DEF s
<1>3. CASE Queues(c)
  <2>1. PICK f \in source[c] : /\ source'[c] = source[c] \ {f} /\ lost'[c] = lost[c]
                              /\ s' = Append(s, f)
    BY <1>3 DEF Queues, s
  <2>2. v = u \ {f} /\ f \in u
    BY <2>1
  <2>3. Shared(u \ {f}, Append(s, f))
    BY <1>1, <2>2, SharedQueue
  <2>4. QED BY <2>1, <2>2, <2>3
<1>4. CASE Returns(c)
  <2>1. PICK a, b \in Seq(Frame) :
          /\ s = a \o b /\ s' = b
          /\ source'[c] = source[c] \union ToSet(a) /\ lost'[c] = lost[c]
    BY <1>4 DEF Returns, s
  <2>2. Shared(u \union ToSet(a), b) /\ u \intersect ToSet(a) = {}
    BY <1>1, <2>1, SharedPrefix
  <2>3. v = u \union ToSet(a)
    BY <2>1
  <2>4. QED BY <2>1, <2>2, <2>3
<1>5. CASE Frees(c)
  <2>1. /\ source'[c] = source[c] /\ lost'[c] = lost[c] \union ToSet(s) /\ s' = <<>>
    BY <1>5 DEF Frees, s
  <2>2. s = s \o <<>> /\ <<>> \in Seq(Frame)
    BY <1>1, ConcatFacts
  <2>3. Shared(u \union ToSet(s), <<>>) /\ u \intersect ToSet(s) = {}
    BY <1>1, <2>2, SharedPrefix
  <2>4. v = u \union ToSet(s)
    BY <2>1
  <2>5. QED BY <2>1, <2>3, <2>4
<1>6. QED BY <1>3, <1>4, <1>5 DEF Keeps

-----------------------------------------------------------------------------
(* The pipe of a channel. *)

Img(x) == IF x = NoFrame THEN <<>> ELSE <<x>>

LEMMA PipeFacts ==
  ASSUME IInv, NEW c \in Chn
  PROVE  /\ fq[c].head \in Seq(Frame) /\ Img(image[c]) \in Seq(Frame)
         /\ Pipe(c) = Img(image[c]) \o fq[c].head /\ Pipe(c) \in Seq(Frame)
         /\ image[c] = NoFrame => Pipe(c) = fq[c].head
<1>1. fq[c].head \in Seq(Frame)
  BY QueueFacts, ChnFacts DEF IInv, FrameTypes
<1>2. Img(image[c]) \in Seq(Frame)
  BY ConcatFacts DEF IInv, FrameTypes, Img
<1>3. Pipe(c) = Img(image[c]) \o fq[c].head
  BY DEF Pipe, Img
<1>4. Pipe(c) \in Seq(Frame)
  BY <1>1, <1>2, <1>3, ConcatFacts
<1>5. <<>> \o fq[c].head = fq[c].head
  BY <1>1, ConcatFacts
<1>6. QED BY <1>1, <1>2, <1>3, <1>4, <1>5 DEF Img

LEMMA PipeStays ==
  ASSUME IInv, NEW c \in Chn, source'[c] = source[c], fq'[c] = fq[c], image'[c] = image[c],
         lost'[c] = lost[c]
  PROVE  /\ Keeps(c) /\ Pipe(c)' = Pipe(c)
         /\ enabled'[c] = enabled[c] => Advances(c)
<1>1. Pipe(c)' = Pipe(c)
  BY DEF Pipe
<1>2. Returns(c)
  <2>1. <<>> \in Seq(Frame) /\ Pipe(c) \in Seq(Frame) /\ Pipe(c) = <<>> \o Pipe(c)
    BY PipeFacts, ConcatFacts
  <2>2. source'[c] = source[c] \union ToSet(<<>>)
    BY ToSetFacts
  <2>3. QED BY <1>1, <2>1, <2>2 DEF Returns
<1>3. enabled'[c] = enabled[c] => UNCHANGED Fifo(c)!fvars
  BY <1>1 DEF Fifo!fvars
<1>4. QED BY <1>1, <1>2, <1>3 DEF Keeps, Advances

(* A beginning of the pipe of a channel that stays enabled goes back. *)
LEMMA PrefixGoesBack ==
  ASSUME IInv, NEW c \in Chn, NEW a \in Seq(Frame), NEW b \in Seq(Frame),
         Pipe(c) = a \o b, Pipe(c)' = b, source'[c] = source[c] \union ToSet(a),
         lost'[c] = lost[c], enabled[c], enabled'[c] = enabled[c]
  PROVE  Keeps(c) /\ Advances(c)
<1>1. Keeps(c)
  BY DEF Keeps, Returns
<1>2. CASE a = <<>>
  <2>1. source'[c] = source[c] /\ Pipe(c)' = Pipe(c)
    <3>1. <<>> \o b = b
      BY ConcatFacts
    <3>2. QED BY <1>2, <3>1, ToSetFacts
  <2>2. UNCHANGED Fifo(c)!fvars
    BY <2>1 DEF Fifo!fvars
  <2>3. QED BY <1>1, <2>2 DEF Advances
<1>3. CASE a # <<>>
  <2> DEFINE s == a \o b
             n == Len(a)
  <2>1. /\ Len(a) \in Nat /\ Len(b) \in Nat /\ Len(s) = Len(a) + Len(b)
        /\ \A i \in 1..Len(a) : i \in 1..Len(s) /\ s[i] = a[i]
        /\ \A i \in 1..Len(b) : Len(a) + i \in 1..Len(s) /\ s[Len(a) + i] = b[i]
    BY ConcatParts
  <2>2. s \in Seq(Frame) /\ Pipe(c) = s
    BY ConcatFacts
  <2> HIDE DEF s
  <2>3. n \in 1..Len(s)
    BY <1>3, <2>1, EmptySeq
  <2>4. {s[i] : i \in 1..n} = ToSet(a)
    <3>1. ToSet(a) = {a[i] : i \in 1..Len(a)}
      BY ToSetFacts
    <3>2. QED BY <2>1, <3>1
  <2>5. SubSeq(s, n + 1, Len(s)) = b
    <3>1. /\ \A i \in (n + 1)..Len(s) : s[i] \in Frame
          /\ n + 1 \in Int /\ Len(s) \in Int /\ Len(s) - (n + 1) + 1 = Len(b)
          /\ (n + 1 <= Len(s) + 1)
      BY <2>1, <2>2, ElementOfSeq
    <3>2. /\ SubSeq(s, n + 1, Len(s)) \in Seq(Frame)
          /\ Len(SubSeq(s, n + 1, Len(s))) = Len(b)
          /\ \A i \in 1..Len(b) : SubSeq(s, n + 1, Len(s))[i] = s[n + 1 + i - 1]
      BY <2>1, <3>1, SubSeqProperties
    <3>3. \A i \in 1..Len(b) : n + 1 + i - 1 = n + i
      BY <2>1
    <3>4. \A i \in 1..Len(b) : SubSeq(s, n + 1, Len(s))[i] = b[i]
      BY <2>1, <3>2, <3>3
    <3>5. QED BY <3>2, <3>4, SeqEqual
  <2>6. Fifo(c)!Next
    BY <2>2, <2>3, <2>4, <2>5 DEF Fifo!Next, Fifo!Return
  <2>7. QED BY <1>1, <2>6 DEF Advances
<1>4. QED BY <1>2, <1>3

-----------------------------------------------------------------------------
(* The query. *)

(* A channel stands in the table once. *)
LEMMA OneEntry ==
  ASSUME IInv, NEW p \in Pos, NEW q \in Pos, ChnAt(p) = ChnAt(q), ChnAt(p) # 0
  PROVE  p = q
<1>1. /\ table[p].slot \in Pos /\ slot[table[p].slot] = ChnAt(p)
      /\ table[q].slot \in Pos /\ slot[table[q].slot] = ChnAt(p)
  <2>1. table[p].slot \in 0..Slots /\ table[q].slot \in 0..Slots
    BY DEF IInv, ControlTypes, Table, Entry
  <2>2. QED BY <2>1, PosFacts DEF ChnAt, Pos
<1>2. table[p].slot = table[q].slot
  BY <1>1 DEF IInv, SlotsOK
<1>3. QED BY <1>1, <1>2 DEF IInv, TableOK, Once

(* A query takes a beginning of the queue: the frames it puts back and,    *)
(* behind them, the one it keeps.                                          *)
LEMMA GotWhole ==
  ASSUME IInv, NEW c \in Chn, CanDequeue(fq[c])
  PROVE  /\ Got(c).back \in Seq(Frame) /\ Got(c).keep \in Frame /\ Rest(c).head \in Seq(Frame)
         /\ fq[c].head = (Got(c).back \o <<Got(c).keep>>) \o Rest(c).head
<1> DEFINE q == fq[c].head
<1>1. q \in Seq(Frame) /\ q # <<>>
  BY PipeFacts DEF CanDequeue
<1>2. CASE c \in Quick
  <2>1. /\ Got(c).back = Front(q) /\ Got(c).keep = Last(q) /\ Rest(c).head = <<>>
    BY <1>2 DEF Got, KeepsNewest, Rest, DequeueAll
  <2>2. Front(q) \in Seq(Frame) /\ Last(q) \in Frame /\ q = Front(q) \o <<Last(q)>>
    BY <1>1, LastFacts, FrontLastWhole
  <2>3. q \o <<>> = q /\ <<>> \in Seq(Frame)
    BY <1>1, ConcatFacts
  <2>4. QED BY <2>1, <2>2, <2>3
<1>3. CASE c \notin Quick
  <2>1. /\ Got(c).back = <<>> /\ Got(c).keep = Head(q) /\ Rest(c).head = Tail(q)
    BY <1>3 DEF Got, Rest, Dequeue
  <2>2. Head(q) \in Frame /\ Tail(q) \in Seq(Frame) /\ q = <<Head(q)>> \o Tail(q)
    BY <1>1, HeadTailProperties, HeadTailWhole
  <2>3. <<>> \o <<Head(q)>> = <<Head(q)>> /\ <<>> \in Seq(Frame)
    BY <2>2, ConcatFacts
  <2>4. QED BY <2>1, <2>2, <2>3
<1>4. QED BY <1>2, <1>3

LEMMA QueryAdvances ==
  ASSUME IInv, NEW p \in 1..(Slots + 1), p \in Pos => Ready(p), QueryChn(p),
         \A d \in Chn : ~waiting[d], UNCHANGED enabled, NEW c \in Chn
  PROVE  Keeps(c) /\ Advances(c)
<1> DEFINE skip == SkippedBefore(p)
           found == IF p <= Slots THEN {ChnAt(p)} ELSE {}
           back == Got(c).back
           keep == Got(c).keep
           q == fq[c].head
           r == Rest(c).head
<1>1. /\ fq'[c] = IF c \in skip \union found THEN Rest(c) ELSE fq[c]
      /\ source'[c] = IF c \in skip \union found
                      THEN source[c] \union (ToSet(back) \union (IF c \in skip THEN {keep} ELSE {}))
                      ELSE source[c]
      /\ image'[c] = IF c \in found THEN keep ELSE image[c]
      /\ lost' = lost
  BY DEF QueryChn
<1>2. p \in Int /\ Slots \in Nat /\ (p <= Slots <=> p \in Pos)
  BY PosFacts DEF Pos
<1>3. c \in skip => \E x \in Pos : Ready(x) /\ c = ChnAt(x) /\ x < p
  BY <1>2 DEF SkippedBefore, Pos
<1>4. c \in found => p \in Pos /\ Ready(p) /\ c = ChnAt(p)
  BY <1>2
<1> HIDE DEF skip, found
<1>5. image[c] = NoFrame /\ c # 0 /\ Pipe(c) = q
  BY PipeFacts, ChnFacts DEF IInv, ImagesOK
<1>6. c \in skip => c \notin found
  BY <1>2, <1>3, <1>4, <1>5, OneEntry
<1>7. CASE c \notin skip \union found
  BY <1>1, <1>7, PipeStays
<1>8. CASE c \in skip \union found
  <2>1. CanDequeue(fq[c]) /\ enabled[c]
    <3>1. PICK x \in Pos : Ready(x) /\ c = ChnAt(x)
      BY <1>3, <1>4, <1>8
    <3>2. CanDequeue(fq[c]) /\ table[x].slot \in Pos /\ slot[table[x].slot] = c
      BY <3>1, ReadyFacts
    <3>3. QED BY <1>5, <3>2 DEF IInv, SlotsOK
  <2>2. /\ back \in Seq(Frame) /\ keep \in Frame /\ r \in Seq(Frame)
        /\ q = (back \o <<keep>>) \o r
    BY <2>1, GotWhole
  <2> HIDE DEF back, keep, q, r
  <2>3. <<keep>> \in Seq(Frame) /\ back \o <<keep>> \in Seq(Frame) /\ <<keep>> \o r \in Seq(Frame)
    BY <2>2, ConcatFacts
  <2>4. CASE c \in skip
    <3>1. Pipe(c)' = r
      <4>1. image'[c] = NoFrame /\ fq'[c].head = r
        BY <1>1, <1>5, <1>6, <2>4 DEF r
      <4>2. Pipe(c)' = <<>> \o r
        BY <4>1 DEF Pipe
      <4>3. QED BY <2>2, <4>2, ConcatFacts
    <3>2. source'[c] = source[c] \union ToSet(back \o <<keep>>)
      <4>1. ToSet(back \o <<keep>>) = ToSet(back) \union {keep}
        <5>1. ToSet(<<keep>>) = {keep}
          BY <2>2, ToSetFacts
        <5>2. ToSet(back \o <<keep>>) = ToSet(back) \union ToSet(<<keep>>)
          BY <2>2, <2>3, ToSetFacts, Zenon
        <5>3. QED BY <5>1, <5>2
      <4>2. QED BY <1>1, <2>4, <4>1 DEF back, keep
    <3>3. QED BY <1>1, <1>5, <2>1, <2>2, <2>3, <3>1, <3>2, PrefixGoesBack
  <2>5. CASE c \in found /\ c \notin skip
    <3>1. Pipe(c)' = <<keep>> \o r
      <4>1. image'[c] = keep /\ fq'[c].head = r /\ keep # NoFrame
        BY <1>1, <2>2, <2>5, VencFramesAssumption DEF r, keep
      <4>2. QED BY <4>1 DEF Pipe
    <3>2. source'[c] = source[c] \union ToSet(back)
      BY <1>1, <2>5 DEF back
    <3>3. q = back \o (<<keep>> \o r)
      <4>1. (back \o <<keep>>) \o r = back \o (<<keep>> \o r)
        BY <2>2, <2>3, ConcatFacts, ZenonT(40)
      <4>2. QED BY <2>2, <4>1, Zenon
    <3>4. QED BY <1>1, <1>5, <2>1, <2>2, <2>3, <3>1, <3>2, <3>3, PrefixGoesBack
  <2>6. QED BY <1>8, <2>4, <2>5
<1>9. QED BY <1>7, <1>8

-----------------------------------------------------------------------------
(* One lemma for each of the other actions that move frames. *)

LEMMA QFrameByAttachAdvances ==
  ASSUME IInv, NEW d \in Chn, NEW f \in Frame, QFrameByAttach(d, f), NEW c \in Chn
  PROVE  Keeps(c) /\ Advances(c)
<1>1. /\ image' = image /\ f \in source[d] /\ lost' = lost /\ enabled' = enabled
      /\ fq' = [fq EXCEPT ![d] = Enqueue(fq[d], f)]
      /\ source' = [source EXCEPT ![d] = source[d] \ {f}]
      /\ fq \in [Chn -> QueueOf(Frame, QDepth)] /\ source \in [Chn -> SUBSET Frame]
  BY DEF QFrameByAttach, IInv, FrameTypes
<1>2. CASE c # d
  BY <1>1, <1>2, PipeStays
<1>3. CASE c = d
  <2> DEFINE m == Img(image[c])
             q == fq[c].head
  <2>1. m \in Seq(Frame) /\ q \in Seq(Frame) /\ Pipe(c) = m \o q
    BY PipeFacts
  <2>2. fq'[c].head = Append(q, f)
    BY <1>1, <1>3 DEF Enqueue
  <2>3. Pipe(c)' = m \o Append(q, f)
    BY <1>1, <2>2 DEF Pipe, Img
  <2> HIDE DEF m, q
  <2>4. m \o Append(q, f) = Append(m \o q, f)
    <3>1. /\ Append(q, f) = q \o <<f>> /\ Append(m \o q, f) = (m \o q) \o <<f>>
          /\ <<f>> \in Seq(Frame)
      <4>1. m \o q \in Seq(Frame)
        BY <2>1, ConcatFacts
      <4>2. QED BY <2>1, <4>1, ConcatFacts
    <3>2. (m \o q) \o <<f>> = m \o (q \o <<f>>)
      BY <2>1, <3>1, ConcatFacts, ZenonT(40)
    <3>3. QED BY <3>1, <3>2
  <2>5. Pipe(c)' = Append(Pipe(c), f)
    BY <2>1, <2>3, <2>4
  <2>6. Fifo(c)!Next
    BY <1>1, <1>3, <2>5 DEF Fifo!Next, Fifo!Queue
  <2>7. Queues(c)
    BY <1>1, <1>3, <2>5 DEF Queues
  <2>8. QED BY <2>6, <2>7 DEF Advances, Keeps
<1>4. QED BY <1>2, <1>3

LEMMA IsrEndOfPicAdvances ==
  ASSUME IInv, KInv, IsrEndOfPic, NEW c \in Chn
  PROVE  Keeps(c) /\ Advances(c)
<1>1. /\ fq' = fq /\ hw /\ lost' = lost /\ enabled' = enabled
      /\ source' = [source EXCEPT ![curr] = source[curr] \union {image[curr]}]
      /\ image' = [image EXCEPT ![curr] = NoFrame]
      /\ source \in [Chn -> SUBSET Frame] /\ image \in [Chn -> Frame \union {NoFrame}]
  BY DEF IsrEndOfPic, IInv, FrameTypes
<1>2. CASE c # curr
  BY <1>1, <1>2, PipeStays
<1>3. CASE c = curr
  <2> DEFINE x == image[c]
             q == fq[c].head
  <2>1. waiting[c] /\ x \in Frame /\ x # NoFrame
    BY <1>1, <1>3 DEF IInv, EncoderOK, ImagesOK
  <2>2. enabled[c]
    BY <2>1 DEF KInv
  <2>3. q \in Seq(Frame) /\ Pipe(c) = <<x>> \o q
    BY <2>1, PipeFacts DEF Img
  <2>4. Pipe(c)' = q
    <3>1. Pipe(c)' = <<>> \o q
      BY <1>1, <1>3 DEF Pipe
    <3>2. QED BY <2>3, <3>1, ConcatFacts
  <2>5. source'[c] = source[c] \union ToSet(<<x>>) /\ <<x>> \in Seq(Frame)
    BY <1>1, <1>3, <2>1, ToSetFacts, ConcatFacts
  <2> HIDE DEF x, q
  <2>6. QED BY <1>1, <2>2, <2>3, <2>4, <2>5, PrefixGoesBack
<1>4. QED BY <1>2, <1>3

LEMMA DestroyChnAdvances ==
  ASSUME IInv, KInv, NEW d \in Chn, DestroyChn(d), NEW c \in Chn
  PROVE  Keeps(c) /\ Advances(c)
<1>1. /\ image' = image /\ source' = source /\ enabled' = enabled /\ ~enabled[d]
      /\ fq' = [fq EXCEPT ![d] = NewQueue(QDepth)]
      /\ lost' = [lost EXCEPT ![d] = lost[d] \union ToSet(fq[d].head)]
      /\ fq \in [Chn -> QueueOf(Frame, QDepth)] /\ lost \in [Chn -> SUBSET Frame]
  BY DEF DestroyChn, IInv, FrameTypes
<1>2. CASE c # d
  BY <1>1, <1>2, PipeStays
<1>3. CASE c = d
  <2>1. image[c] = NoFrame /\ Pipe(c) = fq[c].head
    BY <1>1, <1>3, PipeFacts DEF KInv, IInv, ImagesOK
  <2>2. Pipe(c)' = <<>>
    <3>1. image'[c] = NoFrame /\ fq'[c].head = <<>>
      BY <1>1, <1>3, <2>1 DEF NewQueue
    <3>2. <<>> \o <<>> = <<>>
      BY ConcatFacts
    <3>3. QED BY <3>1, <3>2 DEF Pipe
  <2>3. Frees(c)
    BY <1>1, <1>3, <2>1, <2>2 DEF Frees
  <2>4. Fifo(c)!Next
    BY <1>1, <1>3, <2>2 DEF Fifo!Next, Fifo!Drop
  <2>5. QED BY <2>3, <2>4 DEF Keeps, Advances
<1>4. QED BY <1>2, <1>3

LEMMA StartVencAdvances ==
  ASSUME IInv, NEW d \in Chn, StartVenc(d), NEW c \in Chn
  PROVE  Keeps(c) /\ Advances(c)
<1>1. /\ UNCHANGED frames /\ ~enabled[d] /\ enabled' = [enabled EXCEPT ![d] = TRUE]
      /\ enabled \in [Chn -> BOOLEAN]
  BY DEF StartVenc, IInv, ControlTypes
<1>2. Keeps(c) /\ Pipe(c)' = Pipe(c) /\ (enabled'[c] = enabled[c] => Advances(c))
  BY <1>1, PipeStays DEF frames
<1>3. CASE c # d
  BY <1>1, <1>2, <1>3
<1>4. CASE c = d
  <2>1. Fifo(c)!Next
    BY <1>1, <1>2, <1>4 DEF frames, Fifo!Next, Fifo!Start
  <2>2. QED BY <1>2, <2>1 DEF Advances
<1>5. QED BY <1>3, <1>4

LEMMA StopFlushAdvances ==
  ASSUME IInv, KInv, StopFlush, NEW c \in Chn
  PROVE  Keeps(c) /\ (Uniform => Advances(c))
<1> DEFINE d == stopping.chn
<1>1. /\ image' = image /\ ~waiting[d] /\ d # 0
      /\ IF stopping.slot \in Attached THEN RlsAllFrame(d) ELSE RefreshQueue(d)
      /\ enabled' = [enabled EXCEPT ![d] = FALSE] /\ enabled \in [Chn -> BOOLEAN]
      /\ fq \in [Chn -> QueueOf(Frame, QDepth)]
      /\ source \in [Chn -> SUBSET Frame] /\ lost \in [Chn -> SUBSET Frame]
  BY DEF StopFlush, LastFrameDone, IInv, FrameTypes, ControlTypes
<1>2. d \in Chn
  BY <1>1 DEF IInv, ControlTypes
<1> HIDE DEF d
<1>3. stopping.slot \in Pos /\ enabled[d]
  BY <1>2 DEF KInv, d
<1>4. Uniform => RlsAllFrame(d)
  BY <1>1, <1>3 DEF Uniform, Pos
<1>5. RlsAllFrame(d) \/ RefreshQueue(d)
  BY <1>1
<1>6. fq' = [fq EXCEPT ![d] = DequeueAll(fq[d])]
  BY <1>5 DEF RlsAllFrame, RefreshQueue, Refresh
<1>7. CASE c # d
  <2>1. source'[c] = source[c] /\ lost'[c] = lost[c] /\ fq'[c] = fq[c] /\ enabled'[c] = enabled[c]
    BY <1>1, <1>5, <1>6, <1>7 DEF RlsAllFrame, RefreshQueue
  <2>2. QED BY <1>1, <2>1, PipeStays
<1>8. CASE c = d
  <2> DEFINE q == fq[c].head
  <2>1. image[c] = NoFrame /\ Pipe(c) = q /\ q \in Seq(Frame)
    BY <1>1, <1>8, PipeFacts DEF IInv, ImagesOK
  <2>2. Pipe(c)' = <<>> /\ <<>> \in Seq(Frame) /\ q = q \o <<>>
    <3>1. image'[c] = NoFrame /\ fq'[c].head = <<>>
      BY <1>1, <1>6, <1>8, <2>1 DEF DequeueAll
    <3>2. <<>> \o <<>> = <<>> /\ <<>> \in Seq(Frame) /\ q \o <<>> = q
      BY <2>1, ConcatFacts
    <3>3. QED BY <3>1, <3>2 DEF Pipe
  <2>3. ASSUME RefreshQueue(d) PROVE Keeps(c)
    <3>1. source'[c] = source[c] /\ lost'[c] = lost[c] \union ToSet(q)
      BY <1>1, <1>2, <1>8, <2>3 DEF RefreshQueue
    <3> HIDE DEF q
    <3>2. QED BY <2>1, <2>2, <3>1 DEF Frees, Keeps
  <2>4. ASSUME RlsAllFrame(d) PROVE Keeps(c) /\ Advances(c)
    <3>1. source'[c] = source[c] \union ToSet(q) /\ lost'[c] = lost[c]
      BY <1>1, <1>8, <2>4 DEF RlsAllFrame
    <3>2. ToSet(q) = {q[i] : i \in 1..Len(q)}
      BY <2>1, ToSetFacts
    <3> HIDE DEF q
    <3>3. Returns(c)
      BY <2>1, <2>2, <3>1 DEF Returns
    <3>4. Fifo(c)!Next
      BY <1>1, <1>3, <1>8, <2>1, <2>2, <3>1, <3>2 DEF Fifo!Next, Fifo!Stop
    <3>5. QED BY <3>3, <3>4 DEF Keeps, Advances
  <2>5. QED BY <1>4, <1>5, <2>3, <2>4
<1>9. QED BY <1>7, <1>8

-----------------------------------------------------------------------------
(* Every step keeps the frames of each channel, and is one of its FIFO. *)

LEMMA TaskQueryAdvances ==
  ASSUME IInv, TaskQuery, NEW c \in Chn
  PROVE  Keeps(c) /\ Advances(c)
<1>1. UNCHANGED enabled /\ \A d \in Chn : ~waiting[d]
  BY DEF TaskQuery, IInv, EncoderOK
<1>2. Slots \in Nat \ {0}
  BY PosFacts
<1>3. \E p \in 1..(Slots + 1) : (p \in Pos => Ready(p)) /\ QueryChn(p)
  BY <1>2 DEF TaskQuery, Found, Pos
<1>4. QED BY <1>1, <1>3, QueryAdvances

LEMMA IsrNextAdvances ==
  ASSUME IInv, IsrNext, NEW c \in Chn
  PROVE  Keeps(c) /\ Advances(c)
<1>1. UNCHANGED enabled /\ \A d \in Chn : ~waiting[d]
  BY DEF IsrNext, IInv, EncoderOK
<1>2. Slots \in Nat \ {0}
  BY PosFacts
<1>3. CASE \E p \in 1..Slots : Found(p) /\ QueryChn(p)
  <2>1. PICK p \in 1..Slots : Found(p) /\ QueryChn(p)
    BY <1>3
  <2>2. p \in 1..(Slots + 1) /\ Ready(p)
    BY <1>2, <2>1 DEF Found
  <2>3. QED BY <1>1, <2>1, <2>2, QueryAdvances
<1>4. CASE QueryChn(Slots + 1)
  <2>1. Slots + 1 \in 1..(Slots + 1) /\ Slots + 1 \notin Pos
    BY <1>2 DEF Pos
  <2>2. QED BY <1>1, <1>4, <2>1, QueryAdvances
<1>5. CASE UNCHANGED frames
  BY <1>1, <1>5, PipeStays DEF frames
<1>6. QED BY <1>3, <1>4, <1>5 DEF IsrNext

LEMMA StepAdvances ==
  ASSUME IInv, KInv, [Next]_vars, NEW c \in Chn
  PROVE  Keeps(c) /\ (Uniform => Advances(c))
<1>1. CASE UNCHANGED <<frames, enabled>>
  BY <1>1, PipeStays DEF frames
<1>2. CASE UNCHANGED vars
  BY <1>1, <1>2 DEF vars, frames
<1>3. CASE Next
  <2>1. CASE \E d \in Chn : StopVenc(d) \/ CreateChn(d) \/ \E pri \in NewPri : SetPriority(d, pri)
    BY <1>1, <2>1 DEF StopVenc, CreateChn, SetPriority
  <2>2. CASE TaskCheck \/ TaskStart
    BY <1>1, <2>2 DEF TaskCheck, TaskStart
  <2>3. CASE TaskQuery \/ IsrNext \/ IsrEndOfPic \/ StopFlush
    BY <2>3, TaskQueryAdvances, IsrNextAdvances, IsrEndOfPicAdvances, StopFlushAdvances
  <2>4. CASE \E d \in Chn : StartVenc(d) \/ DestroyChn(d) \/ \E f \in Frame : QFrameByAttach(d, f)
    BY <2>4, QFrameByAttachAdvances, StartVencAdvances, DestroyChnAdvances
  <2>5. QED BY <1>3, <2>1, <2>2, <2>3, <2>4 DEF Next
<1>4. QED BY <1>2, <1>3

-----------------------------------------------------------------------------
(* KInv is an invariant. *)

LEMMA InitKInv == Init => KInv
<1> SUFFICES ASSUME Init, NEW c \in Chn
             PROVE  /\ Shared(source[c] \union lost[c], Pipe(c))
                    /\ source[c] \intersect lost[c] = {}
                    /\ ~waiting[c] /\ c # stopping.chn
  BY DEF KInv
<1>1. /\ fq[c].head = <<>> /\ image[c] = NoFrame /\ lost[c] = {}
      /\ source[c] = Frame /\ ~waiting[c] /\ c # stopping.chn
  BY ChnFacts DEF Init, NewQueue
<1>2. Pipe(c) = <<>>
  <2>1. <<>> \o <<>> = <<>>
    BY ConcatFacts
  <2>2. QED BY <1>1, <2>1 DEF Pipe
<1>3. Shared(Frame, <<>>)
  BY EmptySeq DEF Shared
<1>4. source[c] \union lost[c] = Frame /\ source[c] \intersect lost[c] = {}
  BY <1>1
<1>5. QED BY <1>1, <1>2, <1>3, <1>4

(* A channel waits only while it is enabled. *)
LEMMA EnabledStep ==
  ASSUME IInv, KInv, [Next]_vars, NEW c \in Chn, ~enabled'[c]
  PROVE  ~waiting'[c]
<1> SUFFICES ASSUME waiting'[c] PROVE FALSE
  OBVIOUS
<1>1. CASE waiting[c]
  <2>1. enabled[c]
    BY <1>1 DEF KInv
  <2>2. enabled' # enabled
    BY <2>1
  <2>3. (\E d \in Chn : StartVenc(d)) \/ StopFlush
    BY <2>2 DEF Next, vars, QFrameByAttach, StopVenc, DestroyChn, CreateChn,
       SetPriority, TaskCheck, TaskQuery, TaskStart, IsrEndOfPic, IsrNext
  <2>4. CASE StopFlush
    BY <1>1, <2>1, <2>4 DEF StopFlush, LastFrameDone, IInv, ControlTypes
  <2>5. CASE \E d \in Chn : StartVenc(d)
    BY <2>1, <2>5 DEF StartVenc, IInv, ControlTypes
  <2>6. QED BY <2>3, <2>4, <2>5
<1>2. CASE ~waiting[c]
  <2>1. PICK p \in Pos : Ready(p) /\ QueryChn(p) /\ c = ChnAt(p)
    BY <1>2, TakenByQuery
  <2>2. enabled[c]
    <3>1. table[p].slot \in Pos /\ slot[table[p].slot] = c /\ c # 0
      BY <2>1, ReadyFacts, ChnFacts DEF ChnAt
    <3>2. QED BY <3>1 DEF IInv, SlotsOK
  <2>3. waiting' # waiting
    BY <1>2
  <2>4. UNCHANGED enabled
    BY <2>3 DEF Next, vars, frames, QFrameByAttach, StartVenc, StopVenc, DestroyChn,
       CreateChn, SetPriority, StopFlush, TaskCheck, TaskQuery, TaskStart, IsrEndOfPic, IsrNext
  <2>5. QED BY <2>2, <2>4
<1>3. QED BY <1>1, <1>2

LEMMA StoppingStep ==
  ASSUME IInv, KInv, [Next]_vars, NEW c \in Chn, c = stopping'.chn
  PROVE  enabled'[c] /\ stopping'.slot \in Pos
<1>1. CASE UNCHANGED stopping
  <2>1. ~MutexFree /\ enabled[c] /\ stopping.slot \in Pos /\ c # 0
    BY <1>1, ChnFacts DEF KInv, MutexFree
  <2>2. UNCHANGED enabled
    <3>1. ~StopFlush
      BY <1>1, <2>1 DEF StopFlush, MutexFree
    <3>2. \A d \in Chn : ~StartVenc(d)
      BY <2>1 DEF StartVenc
    <3>3. QED
      BY <3>1, <3>2 DEF Next, vars, QFrameByAttach, StopVenc, DestroyChn, CreateChn, SetPriority,
         TaskCheck, TaskQuery, TaskStart, IsrEndOfPic, IsrNext
  <2>3. QED BY <1>1, <2>1, <2>2
<1>2. CASE StopFlush
  BY <1>2, ChnFacts DEF StopFlush
<1>3. CASE \E d \in Chn : StopVenc(d)
  <2>1. PICK d \in Chn : StopVenc(d)
    BY <1>3
  <2>2. /\ SlotOf(d) \in Pos /\ stopping'.slot = SlotOf(d)
        /\ stopping'.chn = d /\ enabled[d] /\ enabled' = enabled
    BY <2>1 DEF StopVenc, SlotOf, Started, Pos
  <2>3. QED BY <2>2
<1>4. UNCHANGED stopping \/ StopFlush \/ \E d \in Chn : StopVenc(d)
  BY DEF Next, vars, QFrameByAttach, StartVenc, DestroyChn, CreateChn, SetPriority,
     TaskCheck, TaskQuery, TaskStart, IsrEndOfPic, IsrNext
<1>5. QED BY <1>1, <1>2, <1>3, <1>4

LEMMA StepKInv ==
  ASSUME IInv, KInv, [Next]_vars
  PROVE  KInv'
<1> SUFFICES ASSUME NEW c \in Chn
             PROVE  /\ Shared(source[c] \union lost[c], Pipe(c))'
                    /\ source'[c] \intersect lost'[c] = {}
                    /\ ~enabled'[c] => ~waiting'[c]
                    /\ c = stopping'.chn => enabled'[c] /\ stopping'.slot \in Pos
  BY DEF KInv
<1>1. Shared(source[c] \union lost[c], Pipe(c))' /\ source'[c] \intersect lost'[c] = {}
  BY StepAdvances, SharedKept DEF KInv
<1>2. QED BY <1>1, EnabledStep, StoppingStep

LEMMA AlwaysKInv == Spec => [](IInv /\ KInv)
<1>1. IInv /\ KInv /\ [Next]_vars => (IInv /\ KInv)'
  BY StepIInv, StepKInv
<1>2. Init => IInv /\ KInv
  BY InitIInv, InitKInv
<1>3. QED BY <1>1, <1>2, PTL DEF Spec

-----------------------------------------------------------------------------
(* How often a frame occurs. *)

LEMMA OccursNot ==
  ASSUME NEW s \in Seq(Frame), NEW f, \A i \in 1..Len(s) : s[i] # f
  PROVE  Occurrences(s, f) = 0
<1>1. {i \in DOMAIN s : s[i] = f} = {}
  BY LenProperties
<1>2. QED BY <1>1, FS_EmptySet DEF Occurrences

LEMMA OccursOnce ==
  ASSUME NEW s \in Seq(Frame), NEW f, NEW i \in 1..Len(s), s[i] = f,
         \A j \in 1..Len(s) : s[j] = f => j = i
  PROVE  Occurrences(s, f) = 1
<1>1. {j \in DOMAIN s : s[j] = f} = {i}
  BY LenProperties
<1>2. QED BY <1>1, FS_Singleton DEF Occurrences

LEMMA PlacesOnce ==
  ASSUME IInv, KInv, NEW c \in Chn, NEW f \in Frame
  PROVE  Places(c, f) = 1
<1> DEFINE m == Img(image[c])
           q == fq[c].head
           p == Pipe(c)
<1>1. m \in Seq(Frame) /\ q \in Seq(Frame) /\ p = m \o q
  BY PipeFacts
<1>2. /\ f \in source[c] \union lost[c] <=> \A i \in 1..Len(p) : p[i] # f
      /\ \A i, j \in 1..Len(p) : p[i] = p[j] => i = j
      /\ source[c] \intersect lost[c] = {}
  BY DEF KInv, Shared
<1>3. Places(c, f) = (IF f \in source[c] THEN 1 ELSE 0) + (IF image[c] = f THEN 1 ELSE 0)
                     + Occurrences(q, f) + (IF f \in lost[c] THEN 1 ELSE 0)
  BY DEF Places
<1>4. /\ image[c] = NoFrame => Len(m) = 0
      /\ image[c] # NoFrame => Len(m) = 1 /\ m[1] = image[c]
      /\ f # NoFrame
  BY EmptySeq, VencFramesAssumption DEF Img
<1> HIDE DEF m, q, p
<1>5. /\ Len(m) \in Nat /\ Len(q) \in Nat
      /\ \A i \in 1..Len(m) : i \in 1..Len(p) /\ p[i] = m[i]
      /\ \A i \in 1..Len(q) : Len(m) + i \in 1..Len(p) /\ p[Len(m) + i] = q[i]
      /\ \A i \in 1..Len(p) : i \in 1..Len(m) \/ \E j \in 1..Len(q) : i = Len(m) + j
  BY <1>1, ConcatParts
<1>6. image[c] = f => 1 \in 1..Len(m) /\ m[1] = f
  BY <1>4
<1>7. CASE f \in source[c] \union lost[c]
  <2>1. Occurrences(q, f) = 0
    <3>1. \A i \in 1..Len(q) : q[i] # f
      BY <1>2, <1>5, <1>7
    <3>2. QED BY <1>1, <3>1, OccursNot
  <2>2. image[c] # f
    BY <1>2, <1>5, <1>6, <1>7
  <2>3. QED BY <1>2, <1>3, <1>7, <2>1, <2>2
<1>8. ASSUME NEW i \in 1..Len(p), p[i] = f PROVE Places(c, f) = 1
  <2>1. /\ f \notin source[c] /\ f \notin lost[c]
        /\ \A j \in 1..Len(p) : p[j] = f => j = i
    BY <1>2, <1>8
  <2>2. CASE i \in 1..Len(m)
    <3>1. image[c] = f
      BY <1>4, <1>5, <1>8, <2>2
    <3>2. ASSUME NEW j \in 1..Len(q), q[j] = f PROVE FALSE
      <4>1. Len(m) + j = i
        BY <1>5, <2>1, <3>2
      <4>2. QED BY <1>5, <2>2, <4>1
    <3>3. Occurrences(q, f) = 0
      BY <1>1, <3>2, OccursNot
    <3>4. QED BY <1>3, <2>1, <3>1, <3>3
  <2>3. ASSUME NEW k \in 1..Len(q), i = Len(m) + k PROVE Places(c, f) = 1
    <3>1. ASSUME NEW j \in 1..Len(q), q[j] = f PROVE j = k
      <4>1. Len(m) + j = Len(m) + k
        BY <1>5, <2>1, <2>3, <3>1
      <4>2. QED BY <1>5, <4>1
    <3>2. Occurrences(q, f) = 1
      <4>1. q[k] = f
        BY <1>5, <1>8, <2>3
      <4>2. QED BY <1>1, <3>1, <4>1, OccursOnce
    <3>3. image[c] # f
      <4>1. ASSUME image[c] = f PROVE FALSE
        <5>1. 1 \in 1..Len(m) /\ 1 = i
          BY <1>5, <1>6, <2>1, <4>1
        <5>2. QED BY <1>5, <2>3, <5>1
      <4>2. QED BY <4>1
    <3>4. QED BY <1>3, <2>1, <3>2, <3>3
  <2>4. QED BY <1>5, <2>2, <2>3
<1>9. QED BY <1>2, <1>7, <1>8

-----------------------------------------------------------------------------
(* The theorems. *)

(* No frame is lost and none comes back twice on its way through queue,    *)
(* VENC_DRV_EflTask, Venc_ISR, VENC_DRV_EflStopVenc and                    *)
(* VENC_DRV_EflDestroyVenc: each frame of a channel is with its source,    *)
(* queued, being encoded or was freed with the queue, in one of these      *)
(* places and once.                                                        *)
THEOREM NoFrameLost == Spec => []FramesKept
<1>1. IInv /\ KInv => FramesKept
  BY PlacesOnce DEF FramesKept
<1>2. QED BY <1>1, AlwaysKInv, PTL

(* When every index is that of an attached channel, each channel           *)
(* implements the FIFO of VencFifo: a source gets its frames back in the   *)
(* order in which it queued them, all of them when the channel has been    *)
(* stopped, and only what it queued after that is freed with the queue.    *)
THEOREM ChannelsAreFifos == Uniform /\ Spec => InOrder
<1>1. Init => \A c \in Chn : Fifo(c)!Init
  <2> SUFFICES ASSUME Init, NEW c \in Chn PROVE Fifo(c)!Init
    OBVIOUS
  <2>1. fq[c].head = <<>> /\ image[c] = NoFrame /\ source[c] = Frame /\ enabled[c] = FALSE
    BY DEF Init, NewQueue
  <2>2. <<>> \o <<>> = <<>>
    BY ConcatFacts
  <2>3. Pipe(c) = <<>>
    BY <2>1, <2>2 DEF Pipe
  <2>4. QED BY <2>1, <2>3 DEF Fifo!Init
<1>2. Uniform /\ IInv /\ KInv /\ [Next]_vars =>
        [\A c \in Chn : Fifo(c)!Next \/ UNCHANGED Fifo(c)!fvars]_vars
  BY StepAdvances DEF Advances
<1>3. Uniform => []Uniform
  <2>1. Uniform => Uniform'
    BY DEF Uniform
  <2>2. QED BY <2>1, PTL
<1>4. QED BY <1>1, <1>2, <1>3, AlwaysKInv, PTL DEF Spec, InOrder
=============================================================================
