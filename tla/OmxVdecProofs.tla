--------------------------- MODULE OmxVdecProofs ---------------------------
(***************************************************************************)
(* Proofs that no buffer of an OMX decoder channel is lost, doubled or     *)
(* given away while a device works on it, and that a flush is answered     *)
(* when every buffer is back, for any number of buffers and however the    *)
(* threads overlap, up to the first torn write of the flags.               *)
(*                                                                         *)
(* Three invariants, one on top of the other.                              *)
(*   AInv  each buffer of a port is at one place at most; the buffers its  *)
(*         device holds are those marked "using", and the use count is     *)
(*         their number, plus one while a buffer given back is counted     *)
(*         still.                                                          *)
(*   BInv  before a torn write each answer is asked for, and either the    *)
(*         command thread owes it, or the pending flag does, or it is      *)
(*         posted, once.  Once a flush has been through its queue, only    *)
(*         what is in use is left in it; so with a use count of zero the   *)
(*         queue is empty.                                                 *)
(*   CInv  before a torn write no buffer is nowhere.  By AInv and BInv a   *)
(*         message never stands twice in the queue of messages, so that    *)
(*         there are no more of them than buffers and answers, and none is *)
(*         thrown away.                                                    *)
(* For the output port the last part of BInv needs also that no flush has  *)
(* met vpss_release_frame, which marks a frame idle that it leaves in the  *)
(* queue.                                                                  *)
(***************************************************************************)
EXTENDS OmxVdec, FiniteSetTheorems, SequenceTheorems, TLAPS

(* The message queue has room for every buffer and every answer: there are *)
(* 50 elements and 20 buffers at most in each table (channel.h:25).        *)
Room == Cardinality(Bufs) + 4 <= Depth

-----------------------------------------------------------------------------
(* The invariant. *)

Things == Bufs \cup {LastFrame}
Mine(p) == IF p = "in" THEN RawBufs \cup {LastFrame} ELSE YuvBufs

(* e stands at one place of s at most. *)
Single(s, e) == \A i, j \in DOMAIN s : s[i] = e /\ s[j] = e => i = j

(* Where a callback has its buffer out of the queue and not posted yet,    *)
(* and where use[p] still counts the buffer it has in hand.                *)
Apart == {"eof", "eofset", "post", "postlate"}
Counted == {"eof", "eofset", "post", "count", "uncount"}

Devs == [Port -> [at : AtIn \cup AtOut, buf : Things \cup {NoBuf}, word : Word]]
Cmds == [at : CmdAt, ports : SUBSET Port, word : Word]

Types ==
  /\ client \in SUBSET Bufs /\ asked \in SUBSET Answer
  /\ queue \in [Port -> Seq(Things)] /\ \A p \in Port : ToSet(queue[p]) \subseteq Mine(p)
  /\ status \in [Things -> {"idle", "queued", "using"}]
  /\ use \in [Port -> Nat]
  /\ flags \in Word /\ state \in {"work", "pause"}
  /\ msgs \in Seq(Bufs \cup Answer) /\ Len(msgs) <= Depth
  /\ held \in [Port -> SUBSET Things] /\ \A p \in Port : held[p] \subseteq Mine(p)
  /\ dev \in Devs
  /\ dev["in"].at \in AtIn
  /\ \A p \in Port : dev[p].at \in InHand => dev[p].buf \in Mine(p)
  /\ cmd \in Cmds
  /\ torn \in BOOLEAN /\ mixed \in BOOLEAN

(* The buffers of port p are at one place each, those that its device      *)
(* holds are the ones in use, and as many are counted.                     *)
Own(p) ==
  /\ \A b \in Mine(p) : Single(queue[p], b)
  /\ \A b \in held[p] : status[b] = "using" /\ b \in ToSet(queue[p])
  /\ \A b \in ToSet(queue[p]) : status[b] = "using" => b \in held[p]
  /\ dev[p].at \in Apart => dev[p].buf \notin ToSet(queue[p]) \cup client \cup ToSet(msgs)
  /\ dev[p].at \in InHand => dev[p].buf \notin held[p]
  /\ \A b \in BufsOf(p) :
       /\ Single(msgs, b)
       /\ b \in client => b \notin ToSet(queue[p]) \cup ToSet(msgs)
       /\ b \in ToSet(queue[p]) => b \notin ToSet(msgs)
  /\ use[p] = Cardinality(held[p]) + (IF dev[p].at \in Counted THEN 1 ELSE 0)

(* vpss_release_frame finds its frame in the queue, as long as no flush    *)
(* has been there before it.                                               *)
Listed ==
  /\ ~mixed /\ dev["out"].at \in {"uncount", "decide"} => dev["out"].buf \in ToSet(queue["out"])
  /\ dev["out"].at = "stuck" => mixed

AInv == Types /\ Own("in") /\ Own("out") /\ Listed

Ports ==
  /\ cmd.at \in {"freein", "testin", "setin"} => "in" \in cmd.ports
  /\ cmd.at \in {"freeout", "testout", "setout"} => "out" \in cmd.ports

(* The command thread, or the flag, owes the client answer a.              *)
CmdOwes(a) ==
  CASE a = "in" -> cmd.at \in {"freeout", "freein", "testin", "setin"} /\ "in" \in cmd.ports
    [] a = "out" -> /\ cmd.at \in {"freeout", "freein", "testin", "setin", "testout", "setout"}
                    /\ "out" \in cmd.ports
    [] a = "paused" -> cmd.at \in {"postpause", "setpause"}
    [] a = "resumed" -> cmd.at = "resume"
FlagOwes(a) ==
  /\ a \in flags
  /\ IF a = "paused" THEN dev["out"].at # "clearpause"
     ELSE a \in Port /\ dev[a].at # "clear"

(* Each answer is asked for, and owed or posted once.                      *)
Owed(a) ==
  /\ CmdOwes(a) \/ FlagOwes(a) \/ a \in ToSet(msgs) => a \in asked
  /\ ~(CmdOwes(a) /\ FlagOwes(a))
  /\ a \in ToSet(msgs) => ~CmdOwes(a) /\ ~FlagOwes(a)
  /\ Single(msgs, a)

(* What a flush has left in the queue of port p is in use, or on its way   *)
(* out of vpss_release_frame.                                              *)
Drained(p) ==
  (CmdOwes(p) /\ Past(p)) \/ FlagOwes(p) =>
    \A b \in ToSet(queue[p]) :
      status[b] = "using" \/ (dev[p].at \in {"uncount", "decide"} /\ b = dev[p].buf)

Empty(p) ==
  p \in ToSet(msgs) =>
    /\ queue[p] = <<>> /\ dev[p].at \notin Apart
    /\ \A i, j \in DOMAIN msgs : msgs[i] = p /\ msgs[j] \in BufsOf(p) => j < i

(* Nothing has gone wrong yet for port p.                                  *)
Sound(p) == ~torn /\ (p = "out" => ~mixed)

BInv ==
  /\ Ports
  /\ ~torn => \A a \in Answer : Owed(a)
  /\ \A p \in Port : Sound(p) => Drained(p) /\ Empty(p)

(* No buffer is lost.                                                      *)
Somewhere(b) ==
  b \in client \/ Leaving(b) \/ b \in ToSet(queue[PortOf(b)]) \/ b \in ToSet(msgs)
CInv == ~torn => \A b \in Bufs : Somewhere(b)
LEMMA SeqFacts ==
  ASSUME NEW S, NEW s \in Seq(S)
  PROVE  /\ Len(s) \in Nat /\ DOMAIN s = 1..Len(s) /\ ToSet(s) \subseteq S
         /\ \A i \in 1..Len(s) : s[i] \in S
         /\ \A e : e \in ToSet(s) <=> \E i \in 1..Len(s) : s[i] = e
BY LenProperties, ElementOfSeq DEF ToSet

LEMMA EmptyFacts ==
  ASSUME NEW S, NEW s \in Seq(S)
  PROVE  /\ <<>> \in Seq(S) /\ ToSet(<<>>) = {} /\ \A e : Single(<<>>, e)
         /\ s = <<>> <=> ToSet(s) = {}
<1>1. <<>> \in Seq(S) /\ Len(<<>>) = 0 /\ (s # <<>> => Len(s) \in Nat \ {0})
  BY EmptySeq
<1>2. ToSet(<<>>) = {} /\ \A e : Single(<<>>, e)
  <2> DEFINE z == <<>>
  <2>1. z \in Seq(S) /\ Len(z) = 0
    BY <1>1
  <2> HIDE DEF z
  <2>2. DOMAIN z = {} /\ \A e : e \notin ToSet(z)
    <3>1. DOMAIN z = 1..Len(z) /\ \A e : e \in ToSet(z) <=> \E i \in 1..Len(z) : z[i] = e
      BY <2>1, SeqFacts, Zenon
    <3>2. 1..Len(z) = {}
      BY <2>1
    <3>3. QED BY <3>1, <3>2, Zenon
  <2>3. ToSet(z) = {} /\ \A e : Single(z, e)
    BY <2>2 DEF Single
  <2>4. QED BY <2>3 DEF z
<1>3. s # <<>> => ToSet(s) # {}
  <2>1. s # <<>> => 1 \in 1..Len(s)
    BY <1>1
  <2>2. QED BY <2>1, SeqFacts
<1>4. QED BY <1>1, <1>2, <1>3

LEMMA OneFacts ==
  ASSUME NEW S, NEW x \in S
  PROVE  <<x>> \in Seq(S) /\ Len(<<x>>) = 1 /\ <<x>>[1] = x /\ ToSet(<<x>>) = {x} /\ \A e : Single(<<x>>, e)
<1>1. <<x>> \in Seq(S) /\ Len(<<x>>) = 1 /\ <<x>>[1] = x
  OBVIOUS
<1> DEFINE z == <<x>>
<1>2. z \in Seq(S) /\ Len(z) = 1 /\ z[1] = x
  BY <1>1
<1> HIDE DEF z
<1>3. DOMAIN z = {1} /\ ToSet(z) = {x}
  <2>1. DOMAIN z = 1..Len(z) /\ \A e : e \in ToSet(z) <=> \E i \in 1..Len(z) : z[i] = e
    BY <1>2, SeqFacts, Zenon
  <2>2. 1..Len(z) = {1}
    BY <1>2
  <2>3. QED BY <1>2, <2>1, <2>2
<1>4. \A e : Single(z, e)
  BY <1>3 DEF Single
<1>5. QED BY <1>1, <1>3, <1>4 DEF z

LEMMA ConcatFacts ==
  ASSUME NEW S, NEW s \in Seq(S), NEW t \in Seq(S)
  PROVE  /\ s \o t \in Seq(S) /\ ToSet(s \o t) = ToSet(s) \cup ToSet(t)
         /\ Len(s \o t) = Len(s) + Len(t)
         /\ \A i \in 1..Len(s) : i \in 1..Len(s \o t) /\ (s \o t)[i] = s[i]
         /\ \A i \in 1..Len(t) : Len(s) + i \in 1..Len(s \o t) /\ (s \o t)[Len(s) + i] = t[i]
         /\ \A e : Single(s, e) /\ Single(t, e) /\ ~(e \in ToSet(s) /\ e \in ToSet(t)) => Single(s \o t, e)
<1> DEFINE w == s \o t
<1>1. /\ w \in Seq(S) /\ Len(w) = Len(s) + Len(t)
      /\ \A i \in 1..(Len(s) + Len(t)) : w[i] = IF i <= Len(s) THEN s[i] ELSE t[i - Len(s)]
  BY ConcatProperties
<1> HIDE DEF w
<1>2. PICK m \in Nat, n \in Nat : m = Len(s) /\ n = Len(t)
  BY SeqFacts
<1>3. \A i \in 1..m : i \in 1..Len(w) /\ w[i] = s[i]
  BY <1>1, <1>2
<1>4. \A i \in 1..n : m + i \in 1..Len(w) /\ w[m + i] = t[i]
  <2> TAKE i \in 1..n
  <2>1. m + i \in 1..(m + n) /\ ~(m + i <= m) /\ m + i - m = i
    OBVIOUS
  <2>2. Len(w) = m + n
    BY <1>1, <1>2
  <2>3. w[m + i] = IF m + i <= m THEN s[m + i] ELSE t[m + i - m]
    BY <1>1, <1>2, <2>1
  <2>4. w[m + i] = t[i]
    BY <2>1, <2>3
  <2>5. QED BY <2>1, <2>2, <2>4
<1>5. \A i \in 1..Len(w) :
        \/ i \in 1..m /\ w[i] = s[i]
        \/ i - m \in 1..n /\ w[i] = t[i - m]
  BY <1>1, <1>2
<1>6. ToSet(w) = ToSet(s) \cup ToSet(t)
  <2>1. ASSUME NEW e \in ToSet(w) PROVE e \in ToSet(s) \cup ToSet(t)
    <3>1. PICK i \in 1..Len(w) : w[i] = e
      BY <1>1, SeqFacts
    <3>2. (\E j \in 1..m : s[j] = e) \/ \E j \in 1..n : t[j] = e
      BY <1>5, <3>1
    <3>3. QED BY <1>2, <3>2, SeqFacts
  <2>2. ASSUME NEW e \in ToSet(s) PROVE e \in ToSet(w)
    <3>1. \E j \in 1..m : s[j] = e
      BY <1>2, SeqFacts
    <3>2. QED BY <1>1, <1>3, <3>1, SeqFacts
  <2>3. ASSUME NEW e \in ToSet(t) PROVE e \in ToSet(w)
    <3>1. \E j \in 1..n : t[j] = e
      BY <1>2, SeqFacts
    <3>2. \E i \in 1..Len(w) : w[i] = e
      BY <1>4, <3>1
    <3>3. QED BY <1>1, <3>2, SeqFacts
  <2>4. QED BY <2>1, <2>2, <2>3
<1>7. ASSUME NEW e, Single(s, e), Single(t, e), ~(e \in ToSet(s) /\ e \in ToSet(t))
      PROVE  Single(w, e)
  <2> SUFFICES ASSUME NEW i \in 1..Len(w), NEW j \in 1..Len(w), w[i] = e, w[j] = e
               PROVE  i = j
    BY <1>1, SeqFacts DEF Single
  <2>1. CASE i \in 1..m /\ w[i] = s[i]
    <3>1. e \in ToSet(s) /\ ~(\E k \in 1..n : t[k] = e)
      BY <1>2, <1>7, <2>1, SeqFacts
    <3>2. j \in 1..m /\ w[j] = s[j]
      BY <1>5, <3>1
    <3>3. QED BY <1>2, <1>7, <2>1, <3>2, SeqFacts DEF Single
  <2>2. CASE i - m \in 1..n /\ w[i] = t[i - m]
    <3>1. e \in ToSet(t) /\ ~(\E k \in 1..m : s[k] = e)
      BY <1>2, <1>7, <2>2, SeqFacts
    <3>2. j - m \in 1..n /\ w[j] = t[j - m]
      BY <1>5, <3>1
    <3>3. i - m = j - m
      <4>1. i - m \in DOMAIN t /\ j - m \in DOMAIN t /\ t[i - m] = e /\ t[j - m] = e
        BY <1>2, <2>2, <3>2, SeqFacts
      <4>2. QED BY <1>7, <4>1 DEF Single
    <3>4. i \in Int /\ j \in Int
      OBVIOUS
    <3>5. QED BY <1>2, <3>3, <3>4
  <2>3. QED BY <1>5, <2>1, <2>2
<1>8. QED BY <1>1, <1>2, <1>3, <1>4, <1>6, <1>7 DEF w

LEMMA PrefixFacts ==
  ASSUME NEW S, NEW s \in Seq(S), NEW n \in 0..Len(s)
  PROVE  /\ SubSeq(s, 1, n) \in Seq(S) /\ Len(SubSeq(s, 1, n)) = n
         /\ \A i \in 1..n : i \in 1..Len(s) /\ SubSeq(s, 1, n)[i] = s[i]
         /\ ToSet(SubSeq(s, 1, n)) \subseteq ToSet(s)
         /\ \A e : Single(s, e) => Single(SubSeq(s, 1, n), e)
<1> DEFINE w == SubSeq(s, 1, n)
<1>1. Len(s) \in Nat /\ \A i \in 1..n : i \in 1..Len(s) /\ s[i] \in S
  BY SeqFacts
<1>2. w \in Seq(S) /\ Len(w) = n /\ \A i \in 1..n : w[i] = s[i]
  <2>1. \A i \in 1..n : 1 + i - 1 = i
    OBVIOUS
  <2>2. /\ w \in Seq(S) /\ Len(w) = IF 1 <= n THEN n - 1 + 1 ELSE 0
        /\ \A i \in 1..(n - 1 + 1) : w[i] = s[1 + i - 1]
    BY <1>1, SubSeqProperties
  <2>3. QED BY <1>1, <2>1, <2>2
<1> HIDE DEF w
<1>3. ToSet(w) \subseteq ToSet(s)
  BY <1>1, <1>2, SeqFacts
<1>4. ASSUME NEW e, Single(s, e) PROVE Single(w, e)
  <2>1. DOMAIN w = 1..n /\ DOMAIN s = 1..Len(s)
    BY <1>2, SeqFacts
  <2>2. QED BY <1>1, <1>2, <1>4, <2>1 DEF Single
<1>5. QED BY <1>1, <1>2, <1>3, <1>4 DEF w

LEMMA TailFacts ==
  ASSUME NEW S, NEW s \in Seq(S), s # <<>>
  PROVE  /\ Head(s) \in S /\ Tail(s) \in Seq(S) /\ Len(Tail(s)) = Len(s) - 1 /\ Len(s) \in Nat \ {0}
         /\ \A i \in 1..Len(Tail(s)) : i + 1 \in 1..Len(s) /\ Tail(s)[i] = s[i + 1]
         /\ ToSet(s) = {Head(s)} \cup ToSet(Tail(s))
         /\ \A e : Single(s, e) => Single(Tail(s), e)
         /\ Single(s, Head(s)) => Head(s) \notin ToSet(Tail(s))
<1> DEFINE w == Tail(s)
           h == Head(s)
<1>1. /\ h \in S /\ w \in Seq(S) /\ Len(w) = Len(s) - 1 /\ Len(s) \in Nat \ {0} /\ h = s[1]
      /\ \A i \in 1..Len(w) : w[i] = s[i + 1]
  BY HeadTailProperties, EmptySeq
<1> HIDE DEF w, h
<1>2. PICK n \in Nat : n = Len(w) /\ Len(s) = n + 1
  BY <1>1
<1>3. /\ \A i \in 1..n : i + 1 \in 1..(n + 1) /\ w[i] = s[i + 1]
      /\ \A i \in 1..(n + 1) : i = 1 \/ (i - 1 \in 1..n /\ w[i - 1] = s[i])
  <2>1. \A i \in 1..n : i + 1 \in 1..(n + 1) /\ w[i] = s[i + 1]
    BY <1>1, <1>2
  <2>2. \A i \in 1..(n + 1) : i = 1 \/ (i - 1 \in 1..n /\ i - 1 + 1 = i)
    OBVIOUS
  <2>3. QED BY <2>1, <2>2
<1>4. DOMAIN w = 1..n /\ DOMAIN s = 1..(n + 1) /\ 1 \in 1..(n + 1)
  BY <1>1, <1>2, SeqFacts
<1>5. ToSet(s) = {h} \cup ToSet(w)
  <2>1. ASSUME NEW e \in ToSet(s) PROVE e \in {h} \cup ToSet(w)
    <3>1. PICK i \in 1..(n + 1) : s[i] = e
      BY <1>2, SeqFacts
    <3>2. e = h \/ \E j \in 1..n : w[j] = e
      BY <1>1, <1>3, <3>1
    <3>3. QED BY <1>1, <1>2, <3>2, SeqFacts
  <2>2. ASSUME NEW e \in ToSet(w) PROVE e \in ToSet(s)
    <3>1. PICK i \in 1..n : w[i] = e
      BY <1>1, <1>2, SeqFacts
    <3>2. i + 1 \in 1..Len(s) /\ s[i + 1] = e
      BY <1>2, <1>3, <3>1
    <3>3. QED BY <3>2, SeqFacts
  <2>3. h \in ToSet(s)
    BY <1>1, <1>2, <1>4, SeqFacts
  <2>4. QED BY <2>1, <2>2, <2>3
<1>6. ASSUME NEW e, Single(s, e) PROVE Single(w, e)
  <2> SUFFICES ASSUME NEW i \in 1..n, NEW j \in 1..n, w[i] = e, w[j] = e PROVE i = j
    BY <1>4 DEF Single
  <2>1. i + 1 = j + 1
    BY <1>3, <1>4, <1>6 DEF Single
  <2>2. QED BY <2>1
<1>7. ASSUME Single(s, h), h \in ToSet(w) PROVE FALSE
  <2>1. PICK i \in 1..n : w[i] = h
    BY <1>1, <1>2, <1>7, SeqFacts
  <2>2. i + 1 = 1
    BY <1>1, <1>3, <1>4, <1>7, <2>1 DEF Single
  <2>3. QED BY <2>2
<1>8. QED BY <1>1, <1>2, <1>3, <1>5, <1>6, <1>7 DEF w, h
LEMMA RemoveAtFacts ==
  ASSUME NEW S, NEW s \in Seq(S), NEW k \in 1..Len(s)
  PROVE  /\ RemoveAt(s, k) \in Seq(S) /\ ToSet(RemoveAt(s, k)) = {s[i] : i \in (1..Len(s)) \ {k}}
         /\ \A d : Single(s, d) => Single(RemoveAt(s, k), d)
<1>1. PICK n \in Nat : n = Len(s)
  BY SeqFacts
<1> DEFINE u == SubSeq(s, 1, k - 1)
           v == SubSeq(s, k + 1, n)
<1>2. /\ u \in Seq(S) /\ Len(u) = k - 1 /\ \A i \in 1..(k - 1) : u[i] = s[i] /\ i \in 1..n
  <2>1. k - 1 \in 0..Len(s)
    BY <1>1
  <2>2. QED BY <1>1, <2>1, PrefixFacts
<1>3. /\ v \in Seq(S) /\ Len(v) = n - k /\ \A i \in 1..(n - k) : v[i] = s[k + i] /\ k + i \in 1..n
  <2>1. \A i \in (k + 1)..n : s[i] \in S
    BY <1>1, SeqFacts
  <2>2. /\ v \in Seq(S) /\ Len(v) = IF k + 1 <= n THEN n - (k + 1) + 1 ELSE 0
        /\ \A i \in 1..(n - (k + 1) + 1) : v[i] = s[k + 1 + i - 1]
    BY <1>1, <2>1, SubSeqProperties
  <2>3. /\ n - (k + 1) + 1 = n - k
        /\ \A i \in 1..(n - k) : k + 1 + i - 1 = k + i /\ k + i \in 1..n
    BY <1>1
  <2>4. Len(v) = n - k
    BY <1>1, <2>2
  <2>5. QED BY <2>2, <2>3, <2>4
<1>4. RemoveAt(s, k) = u \o v
  BY <1>1 DEF RemoveAt
<1> HIDE DEF u, v
<1>5. \A d : d \in ToSet(u) <=> \E i \in 1..(k - 1) : s[i] = d
  <2>1. \A d : d \in ToSet(u) <=> \E i \in 1..Len(u) : u[i] = d
    BY <1>2, SeqFacts
  <2>2. QED BY <1>2, <2>1
<1>6. \A d : d \in ToSet(v) <=> \E i \in (k + 1)..n : s[i] = d
  <2>1. \A d : d \in ToSet(v) <=> \E i \in 1..Len(v) : v[i] = d
    BY <1>3, SeqFacts
  <2>2. ASSUME NEW i \in (k + 1)..n PROVE \E j \in 1..(n - k) : v[j] = s[i]
    <3>1. i - k \in 1..(n - k) /\ k + (i - k) = i
      BY <1>1, <2>2
    <3>2. v[i - k] = s[i]
      BY <1>3, <3>1
    <3>3. QED BY <3>1, <3>2, Zenon
  <2>3. \A i \in 1..(n - k) : k + i \in (k + 1)..n
    BY <1>1
  <2>4. \A d : (\E i \in 1..(n - k) : v[i] = d) <=> \E i \in (k + 1)..n : s[i] = d
    BY <1>3, <2>2, <2>3, Zenon
  <2>5. \A d : d \in ToSet(v) <=> \E i \in 1..(n - k) : v[i] = d
    BY <1>3, <2>1
  <2>6. QED BY <2>4, <2>5, Zenon
<1>7. u \o v \in Seq(S) /\ ToSet(u \o v) = ToSet(u) \cup ToSet(v)
  BY <1>2, <1>3, ConcatFacts
<1>8. ToSet(u) \cup ToSet(v) = {s[i] : i \in (1..n) \ {k}}
  <2>1. \A i \in 1..n : i \in 1..(k - 1) \/ i = k \/ i \in (k + 1)..n
    BY <1>1
  <2>2. \A i : (i \in 1..(k - 1) \/ i \in (k + 1)..n) => i \in 1..n /\ i # k
    BY <1>1
  <2>3. QED BY <1>5, <1>6, <2>1, <2>2
<1>9. ASSUME NEW d, Single(s, d) PROVE Single(u \o v, d)
  <2>1. \A i, j \in 1..n : s[i] = d /\ s[j] = d => i = j
    BY <1>1, <1>9, SeqFacts DEF Single
  <2>2. Single(u, d)
    <3>1. DOMAIN u = 1..(k - 1)
      BY <1>2, SeqFacts
    <3>2. QED BY <1>2, <2>1, <3>1 DEF Single
  <2>3. Single(v, d)
    <3>1. DOMAIN v = 1..(n - k)
      BY <1>3, SeqFacts
    <3>2. \A i, j \in 1..(n - k) : k + i = k + j => i = j
      OBVIOUS
    <3>3. QED BY <1>3, <2>1, <3>1, <3>2 DEF Single
  <2>4. ~(d \in ToSet(u) /\ d \in ToSet(v))
    <3>1. \A i, j : i \in 1..(k - 1) /\ j \in (k + 1)..n => i \in 1..n /\ j \in 1..n /\ i # j
      BY <1>1
    <3>2. QED BY <1>5, <1>6, <2>1, <3>1
  <2>5. QED BY <1>2, <1>3, <2>2, <2>3, <2>4, ConcatFacts
<1>10. QED BY <1>1, <1>4, <1>7, <1>8, <1>9

LEMMA MinFacts ==
  ASSUME NEW I \in SUBSET Nat, I # {}
  PROVE  Min(I) \in I
<1>1. PICK m \in I : \A i \in I : ~(<<i, m>> \in OpToRel(<, Nat))
  BY NatLessThanWellFounded, WFMin
<1>2. \A i \in I : ~(i < m)
  BY <1>1 DEF OpToRel
<1>3. \A i \in I : m <= i
  BY <1>2
<1>4. QED BY <1>3 DEF Min

(* RemoveFirst takes out e at one place. *)
LEMMA RemoveFacts ==
  ASSUME NEW S, NEW s \in Seq(S), NEW e \in ToSet(s)
  PROVE  /\ RemoveFirst(s, e) \in Seq(S) /\ ToSet(RemoveFirst(s, e)) \subseteq ToSet(s)
         /\ \A d : Single(s, d) => Single(RemoveFirst(s, e), d)
         /\ Single(s, e) => ToSet(RemoveFirst(s, e)) = ToSet(s) \ {e}
<1> DEFINE I == {i \in 1..Len(s) : s[i] = e}
           k == Min(I)
<1>1. I # {} /\ I \subseteq Nat
  BY SeqFacts
<1>2. k \in I
  BY <1>1, MinFacts
<1>3. RemoveFirst(s, e) = RemoveAt(s, k)
  <2>1. SelectInSeq(s, LAMBDA v : v = e) = k
    BY <1>1 DEF SelectInSeq
  <2>2. QED BY <1>2, <2>1 DEF RemoveFirst
<1> HIDE DEF k
<1>4. k \in 1..Len(s) /\ s[k] = e
  BY <1>2
<1>5. /\ RemoveAt(s, k) \in Seq(S) /\ ToSet(RemoveAt(s, k)) = {s[i] : i \in (1..Len(s)) \ {k}}
      /\ \A d : Single(s, d) => Single(RemoveAt(s, k), d)
  BY <1>4, RemoveAtFacts
<1>6. ToSet(s) = {s[i] : i \in 1..Len(s)} /\ DOMAIN s = 1..Len(s)
  BY SeqFacts DEF ToSet
<1>7. Single(s, e) => {s[i] : i \in (1..Len(s)) \ {k}} = ToSet(s) \ {e}
  <2> SUFFICES ASSUME Single(s, e) PROVE {s[i] : i \in (1..Len(s)) \ {k}} = ToSet(s) \ {e}
    OBVIOUS
  <2>1. \A i \in 1..Len(s) : s[i] = e <=> i = k
    BY <1>4, <1>6 DEF Single
  <2>2. QED BY <1>4, <1>6, <2>1
<1>8. QED BY <1>3, <1>5, <1>6, <1>7

(* Each place of a finite set of numbers has a rank, and each rank a place. *)
LEMMA RankFacts ==
  ASSUME NEW n \in Nat, NEW I \in SUBSET (1..n)
  PROVE  /\ Cardinality(I) \in Nat
         /\ \A k \in 1..Cardinality(I) : \E i \in I : Cardinality({j \in I : j <= i}) = k
         /\ \A i \in I : Cardinality({j \in I : j <= i}) \in 1..Cardinality(I)
         /\ \A i, h \in I : Cardinality({j \in I : j <= i}) = Cardinality({j \in I : j <= h}) => i = h
<1> DEFINE U(i) == {j \in I : j <= i}
           R == 1..Cardinality(I)
           f == [i \in I |-> Cardinality(U(i))]
<1>1. IsFiniteSet(I) /\ \A i \in I : i \in Int
  <2>1. IsFiniteSet(1..n)
    BY FS_Interval
  <2>2. IsFiniteSet(I)
    BY <2>1, FS_Subset, Zenon
  <2>3. QED BY <2>2
<1>2. \A i \in I : IsFiniteSet(U(i)) /\ Cardinality(U(i)) \in Nat /\ Cardinality(U(i)) <= Cardinality(I)
                   /\ U(i) \subseteq I /\ i \in U(i)
  <2>1. \A i \in I : U(i) \subseteq I /\ i \in U(i)
    BY <1>1
  <2>2. QED BY <1>1, <2>1, FS_Subset, FS_CardinalityType
<1>3. Cardinality(I) \in Nat /\ IsFiniteSet(R) /\ Cardinality(R) = Cardinality(I)
  BY <1>1, FS_CardinalityType, FS_Interval
<1>4. \A i \in I : Cardinality(U(i)) \in R
  <2>1. \A i \in I : Cardinality(U(i)) # 0
    BY <1>2, FS_EmptySet
  <2>2. QED BY <1>2, <1>3, <2>1
<1>5. ASSUME NEW i \in I, NEW h \in I, i < h PROVE Cardinality(U(i)) # Cardinality(U(h))
  <2>1. U(i) \subseteq U(h) /\ h \notin U(i) /\ h \in U(h)
    <3>1. i \in Int /\ h \in Int /\ ~(h <= i) /\ h <= h
      BY <1>1, <1>5
    <3>2. \A j \in I : j <= i => j <= h
      BY <1>1, <1>5
    <3>3. QED BY <3>1, <3>2
  <2>2. QED BY <1>2, <2>1, FS_Subset
<1>6. \A i, h \in I : Cardinality(U(i)) = Cardinality(U(h)) => i = h
  BY <1>1, <1>5
<1>7. f \in Injection(I, R)
  BY <1>4, <1>6 DEF Injection, IsInjective
<1>8. f \in Surjection(I, R)
  BY <1>3, <1>7, FS_Injection
<1>9. \A k \in R : \E i \in I : Cardinality(U(i)) = k
  BY <1>8 DEF Surjection
<1>10. QED BY <1>3, <1>4, <1>6, <1>9

LEMMA ThoseFacts ==
  ASSUME NEW S, NEW s \in Seq(S), NEW I \in SUBSET (DOMAIN s)
  PROVE  /\ Those(s, I) \in Seq(S) /\ ToSet(Those(s, I)) = {s[i] : i \in I}
         /\ \A e : Single(s, e) => Single(Those(s, I), e)
<1> DEFINE r(i) == Cardinality({j \in I : j <= i})
           g(k) == CHOOSE i \in I : r(i) = k
           w == [k \in 1..Cardinality(I) |-> s[g(k)]]
<1>1. Len(s) \in Nat /\ DOMAIN s = 1..Len(s) /\ \A i \in DOMAIN s : s[i] \in S
  BY SeqFacts
<1>2. PICK m \in Nat : m = Cardinality(I)
  BY <1>1, RankFacts
<1>3. /\ \A k \in 1..m : g(k) \in I /\ r(g(k)) = k
      /\ \A i \in I : r(i) \in 1..m /\ g(r(i)) = i
  <2>1. /\ \A k \in 1..m : \E i \in I : r(i) = k
        /\ \A i \in I : r(i) \in 1..m
        /\ \A i, h \in I : r(i) = r(h) => i = h
    BY <1>1, <1>2, RankFacts
  <2>2. QED BY <2>1
<1>4. w \in Seq(S) /\ Len(w) = m /\ DOMAIN w = 1..m /\ Those(s, I) = w
  <2>1. Those(s, I) = w
    BY DEF Those
  <2>2. w \in [1..m -> S]
    BY <1>1, <1>2, <1>3
  <2>3. w \in Seq(S) /\ Len(w) = m /\ DOMAIN w = 1..m
    <3> HIDE DEF w
    <3>1. QED BY <2>2
  <2>4. QED BY <2>1, <2>3
<1>5. \A k \in 1..m : w[k] = s[g(k)]
  BY <1>2
<1> HIDE DEF w, g, r
<1>6. ToSet(w) = {s[i] : i \in I}
  <2>1. ToSet(w) \subseteq {s[i] : i \in I}
    BY <1>3, <1>4, <1>5 DEF ToSet
  <2>2. ASSUME NEW i \in I PROVE s[i] \in ToSet(w)
    BY <1>3, <1>4, <1>5 DEF ToSet
  <2>3. QED BY <2>1, <2>2
<1>7. ASSUME NEW e, Single(s, e) PROVE Single(w, e)
  <2> SUFFICES ASSUME NEW i \in 1..m, NEW j \in 1..m, w[i] = e, w[j] = e PROVE i = j
    BY <1>4 DEF Single
  <2>1. g(i) = g(j)
    BY <1>3, <1>5, <1>7 DEF Single
  <2>2. QED BY <1>3, <2>1
<1>8. QED BY <1>4, <1>6, <1>7
-----------------------------------------------------------------------------
(* The types. *)

LEMMA ConstFacts ==
  /\ Depth \in Nat \ {0} /\ Port = {"in", "out"} /\ LastFrame \notin Bufs /\ NoBuf \notin Things
  /\ Things \cap Answer = {} /\ Mine("in") \cap Mine("out") = {} /\ Things = Mine("in") \cup Mine("out")
  /\ \A p \in Port : /\ BufsOf(p) \subseteq Mine(p) /\ BufsOf(p) \subseteq Bufs /\ Mine(p) \subseteq Things
                     /\ Mine(p) \cap Bufs = BufsOf(p)
                     /\ IsFiniteSet(Mine(p)) /\ Cardinality(Mine(p)) <= Cardinality(BufsOf(p)) + 1
                     /\ Cardinality(BufsOf(p)) \in Nat
  /\ \A b \in Bufs : PortOf(b) \in Port /\ b \in BufsOf(PortOf(b)) /\ b \in Things
  /\ \A p \in Port : \A b \in BufsOf(p) : PortOf(b) = p
<1>1. IsFiniteSet(Bufs) /\ RawBufs \in SUBSET Bufs /\ YuvBufs \in SUBSET Bufs
  BY OmxVdecAssumption DEF Bufs
<1>2. IsFiniteSet(RawBufs) /\ IsFiniteSet(YuvBufs)
  BY <1>1, FS_Subset
<1>3. /\ Cardinality(RawBufs) \in Nat /\ Cardinality(YuvBufs) \in Nat
      /\ IsFiniteSet(RawBufs \cup {LastFrame})
      /\ Cardinality(RawBufs \cup {LastFrame}) <= Cardinality(RawBufs) + 1
  <2>1. Cardinality(RawBufs) \in Nat /\ Cardinality(YuvBufs) \in Nat
    BY <1>2, FS_CardinalityType
  <2>2. /\ IsFiniteSet(RawBufs \cup {LastFrame})
        /\ Cardinality(RawBufs \cup {LastFrame}) =
             IF LastFrame \in RawBufs THEN Cardinality(RawBufs) ELSE Cardinality(RawBufs) + 1
    BY <1>2, FS_AddElement
  <2>3. QED BY <2>1, <2>2
<1>4. ASSUME NEW p \in Port
      PROVE  /\ IsFiniteSet(Mine(p)) /\ Cardinality(Mine(p)) <= Cardinality(BufsOf(p)) + 1
             /\ Cardinality(BufsOf(p)) \in Nat
  BY <1>2, <1>3 DEF Mine, BufsOf, Port
<1>5. QED BY <1>4, OmxVdecAssumption DEF Port, Bufs, BufsOf, PortOf, Mine, Things

LEMMA PostFacts ==
  ASSUME Types, NEW ms \in Seq(Bufs \cup Answer), Post(ms)
  PROVE  /\ msgs' \in Seq(Bufs \cup Answer) /\ Len(msgs') <= Depth
         /\ ToSet(msgs') \subseteq ToSet(msgs) \cup ToSet(ms)
         /\ \A e : Single(msgs, e) /\ Single(ms, e) /\ ~(e \in ToSet(msgs) /\ e \in ToSet(ms)) => Single(msgs', e)
         /\ \A i \in DOMAIN msgs' : \/ i \in DOMAIN msgs /\ msgs'[i] = msgs[i]
                                    \/ i > Len(msgs) /\ i - Len(msgs) \in DOMAIN ms /\ msgs'[i] = ms[i - Len(msgs)]
         /\ Len(msgs) + Len(ms) <= Depth => ToSet(msgs') = ToSet(msgs) \cup ToSet(ms)
<1> DEFINE all == msgs \o ms
<1>1. msgs \in Seq(Bufs \cup Answer) /\ Len(msgs) \in Nat /\ Len(ms) \in Nat /\ Depth \in Nat
  BY ConstFacts, SeqFacts DEF Types
<1>2. /\ all \in Seq(Bufs \cup Answer) /\ ToSet(all) = ToSet(msgs) \cup ToSet(ms)
      /\ Len(all) = Len(msgs) + Len(ms)
      /\ \A e : Single(msgs, e) /\ Single(ms, e) /\ ~(e \in ToSet(msgs) /\ e \in ToSet(ms)) => Single(all, e)
  BY <1>1, ConcatFacts
<1>3. \A i \in 1..Len(all) : \/ i \in 1..Len(msgs) /\ all[i] = msgs[i]
                             \/ i > Len(msgs) /\ i - Len(msgs) \in 1..Len(ms) /\ all[i] = ms[i - Len(msgs)]
  <2>1. /\ Len(all) = Len(msgs) + Len(ms)
        /\ \A i \in 1..(Len(msgs) + Len(ms)) : all[i] = IF i <= Len(msgs) THEN msgs[i] ELSE ms[i - Len(msgs)]
    BY <1>1, ConcatProperties
  <2>2. PICK m \in Nat, n \in Nat : m = Len(msgs) /\ n = Len(ms)
    BY <1>1
  <2>3. \A i \in 1..(m + n) : IF i <= m THEN i \in 1..m ELSE i > m /\ i - m \in 1..n
    OBVIOUS
  <2> HIDE DEF all
  <2>4. QED BY <2>1, <2>2, <2>3
<1>4. DOMAIN msgs = 1..Len(msgs) /\ DOMAIN ms = 1..Len(ms)
  BY <1>1, SeqFacts
<1>5. CASE Len(all) <= Depth
  <2>1. msgs' = all
    BY <1>5 DEF Post
  <2> HIDE DEF all
  <2>2. DOMAIN all = 1..Len(all)
    BY <1>2, SeqFacts
  <2>3. QED BY <1>2, <1>3, <1>4, <1>5, <2>1, <2>2
<1>6. CASE ~(Len(all) <= Depth)
  <2>1. msgs' = SubSeq(all, 1, Depth)
    BY <1>6 DEF Post
  <2> HIDE DEF all
  <2>2. Depth \in 0..Len(all)
    BY <1>1, <1>2, <1>6
  <2>3. /\ msgs' \in Seq(Bufs \cup Answer) /\ Len(msgs') = Depth /\ ToSet(msgs') \subseteq ToSet(all)
        /\ \A i \in 1..Depth : i \in 1..Len(all) /\ msgs'[i] = all[i]
        /\ \A e : Single(all, e) => Single(msgs', e)
    BY <1>2, <2>1, <2>2, PrefixFacts
  <2>4. DOMAIN msgs' = 1..Depth
    BY <2>3, SeqFacts
  <2>5. QED BY <1>1, <1>2, <1>3, <1>4, <1>6, <2>3, <2>4
<1>7. QED BY <1>5, <1>6

LEMMA ReachFacts ==
  ASSUME Types, NEW p \in Port, NEW at \in AtIn \cup AtOut, NEW w \in Word, Reach(p, at, w)
  PROVE  /\ dev' \in Devs /\ dev'[p].at = at /\ dev'[p].word = w
         /\ at \in InHand => dev'[p].buf = dev[p].buf
         /\ \A q \in Port : q # p => dev'[q] = dev[q]
BY DEF Types, Devs, Reach

LEMMA CallFacts ==
  ASSUME Types, NEW p \in Port, NEW at \in AtIn \cup AtOut, Call(p, at)
  PROVE  /\ dev' \in Devs /\ dev'[p].at = at
         /\ at \in InHand => dev'[p].buf = dev[p].buf
         /\ \A q \in Port : q # p => dev'[q] = dev[q]
<1>1. {} \in Word /\ Reach(p, at, {})
  BY DEF Call, Word
<1>2. QED BY <1>1, ReachFacts

LEMMA OrderFacts ==
  ASSUME NEW at \in CmdAt, NEW ports \in SUBSET Port, NEW w \in Word, Order(at, ports, w)
  PROVE  cmd' \in Cmds /\ cmd'.at = at /\ cmd'.ports = ports /\ cmd'.word = w
BY DEF Cmds, Order

LEMMA CommandFacts ==
  ASSUME Types, NEW at \in CmdAt, Command(at)
  PROVE  /\ cmd' \in Cmds /\ cmd'.at = at
         /\ cmd'.ports = IF at \in {"freein", "testin", "testout"} THEN cmd.ports ELSE {}
<1>1. cmd.ports \in SUBSET Port /\ {} \in SUBSET Port /\ {} \in Word
  BY DEF Types, Cmds, Word
<1>2. QED BY <1>1 DEF Command, Order, Cmds

LEMMA WriteFacts ==
  ASSUME Types, NEW w \in Word, NEW own \in Word, NEW on \in Word, Write(w, own, on)
  PROVE  flags' \in Word /\ torn' \in BOOLEAN
BY DEF Types, Write, Word

LEMMA ShortSeqs ==
  /\ \A b \in Bufs : <<b>> \in Seq(Bufs \cup Answer) /\ ToSet(<<b>>) = {b} /\ Len(<<b>>) = 1
  /\ \A a \in Answer : <<a>> \in Seq(Bufs \cup Answer) /\ ToSet(<<a>>) = {a} /\ Len(<<a>>) = 1
  /\ \A e \in Bufs \cup Answer : <<e>>[1] = e /\ \A d : Single(<<e>>, d)
BY OneFacts

LEMMA DevTypes ==
  ASSUME Types, NEW p \in Port, NEW at \in AtIn \cup AtOut, NEW w \in Word, Reach(p, at, w),
         p = "in" => at \in AtIn, at \in InHand => dev[p].buf \in Mine(p)
  PROVE  /\ dev' \in Devs /\ dev'["in"].at \in AtIn
         /\ \A q \in Port : dev'[q].at \in InHand => dev'[q].buf \in Mine(q)
<1>1. /\ dev' \in Devs /\ dev'[p].at = at /\ (at \in InHand => dev'[p].buf = dev[p].buf)
      /\ \A q \in Port : q # p => dev'[q] = dev[q]
  BY ReachFacts
<1>2. "in" \in Port
  BY DEF Port
<1>3. QED BY <1>1, <1>2 DEF Types

LEMMA CallTypes ==
  ASSUME Types, NEW p \in Port, NEW at \in AtIn \cup AtOut, Call(p, at),
         p = "in" => at \in AtIn, at \in InHand => dev[p].buf \in Mine(p)
  PROVE  /\ dev' \in Devs /\ dev'["in"].at \in AtIn
         /\ \A q \in Port : dev'[q].at \in InHand => dev'[q].buf \in Mine(q)
<1>1. {} \in Word /\ Reach(p, at, {})
  BY DEF Call, Word
<1>2. QED BY <1>1, DevTypes

LEMMA TypesGetCheck ==
  ASSUME Types, NEW p \in Port, GetCheck(p)
  PROVE  Types'
<1>1. "get" \in AtIn /\ "get" \notin InHand /\ Call(p, "get")
  BY DEF GetCheck, AtIn, InHand
<1>2. /\ dev' \in Devs /\ dev'["in"].at \in AtIn
      /\ \A q \in Port : dev'[q].at \in InHand => dev'[q].buf \in Mine(q)
  BY <1>1, CallTypes
<1>3. QED BY <1>2 DEF GetCheck, Types

(* The query takes nothing, or a buffer that is not in use. *)
LEMMA GetFacts ==
  ASSUME Types, NEW p \in Port, Get(p)
  PROVE  \/ UNCHANGED <<status, use, held>>
         \/ \E b \in ToSet(queue[p]) :
              /\ status[b] # "using" /\ status' = [status EXCEPT ![b] = "using"]
              /\ use' = [use EXCEPT ![p] = @ + 1] /\ held' = [held EXCEPT ![p] = @ \cup {b}]
<1>1. CASE Takeable(p) = {}
  BY <1>1 DEF Get
<1>2. CASE Takeable(p) # {}
  <2>1. Takeable(p) \subseteq 1..Len(queue[p]) /\ Len(queue[p]) \in Nat /\ DOMAIN queue[p] = 1..Len(queue[p])
    BY SeqFacts DEF Types, Takeable
  <2>2. Takeable(p) \subseteq Nat
    BY <2>1
  <2>3. Min(Takeable(p)) \in Takeable(p)
    BY <1>2, <2>2, MinFacts
  <2>4. queue[p][Min(Takeable(p))] \in ToSet(queue[p]) /\ status[queue[p][Min(Takeable(p))]] # "using"
    BY <2>3 DEF Takeable, ToSet
  <2>5. QED BY <1>2, <2>4 DEF Get
<1>3. QED BY <1>1, <1>2

LEMMA TypesGet ==
  ASSUME Types, NEW p \in Port, Get(p)
  PROVE  Types'
<1>1. "idle" \in AtIn /\ "idle" \notin InHand /\ Call(p, "idle")
  BY DEF Get, AtIn, InHand
<1>2. /\ dev' \in Devs /\ dev'["in"].at \in AtIn
      /\ \A q \in Port : dev'[q].at \in InHand => dev'[q].buf \in Mine(q)
  BY <1>1, CallTypes
<1>3. ToSet(queue[p]) \subseteq Mine(p) /\ Mine(p) \subseteq Things
  BY ConstFacts DEF Types
<1>4. /\ status' \in [Things -> {"idle", "queued", "using"}] /\ use' \in [Port -> Nat]
      /\ held' \in [Port -> SUBSET Things] /\ \A q \in Port : held'[q] \subseteq Mine(q)
  <2>1. CASE UNCHANGED <<status, use, held>>
    BY <2>1 DEF Types
  <2>2. ASSUME NEW b \in ToSet(queue[p]), status' = [status EXCEPT ![b] = "using"],
               use' = [use EXCEPT ![p] = @ + 1], held' = [held EXCEPT ![p] = @ \cup {b}]
        PROVE  /\ status' \in [Things -> {"idle", "queued", "using"}] /\ use' \in [Port -> Nat]
               /\ held' \in [Port -> SUBSET Things] /\ \A q \in Port : held'[q] \subseteq Mine(q)
    <3>1. b \in Mine(p) /\ b \in Things
      BY <1>3, <2>2
    <3>2. QED BY <2>2, <3>1 DEF Types
  <2>3. QED BY <2>1, <2>2, GetFacts
<1>5. QED BY <1>2, <1>4 DEF Get, Types

LEMMA TypesEnter ==
  ASSUME Types, NEW p \in Port, NEW b, NEW at \in {"post", "eof", "uncount"}, NEW keeps \in BOOLEAN, Enter(p, b, at, keeps),
         p = "in" => at = "post"
  PROVE  Types'
<1>1. b \in Mine(p) /\ b \in Things /\ b \in held[p]
  BY ConstFacts DEF Enter, Types
<1>2. /\ held' \in [Port -> SUBSET Things] /\ \A q \in Port : held'[q] \subseteq Mine(q)
      /\ client' = client /\ asked' = asked /\ use' = use /\ flags' = flags /\ state' = state
      /\ msgs' = msgs /\ cmd' = cmd /\ torn' = torn /\ mixed' = mixed
  BY <1>1 DEF Enter, Types
<1>3. CASE b \notin ToSet(queue[p])
  BY <1>2, <1>3 DEF Enter, Types
<1>4. CASE b \in ToSet(queue[p])
  <2>1. /\ status' = [status EXCEPT ![b] = "idle"]
        /\ queue' = IF keeps THEN queue ELSE [queue EXCEPT ![p] = RemoveFirst(@, b)]
        /\ dev' = [dev EXCEPT ![p] = [at |-> at, buf |-> b, word |-> {}]]
    BY <1>4 DEF Enter
  <2>2. status' \in [Things -> {"idle", "queued", "using"}]
    BY <2>1 DEF Types
  <2>3. queue' \in [Port -> Seq(Things)] /\ \A q \in Port : ToSet(queue'[q]) \subseteq Mine(q)
    <3>1. RemoveFirst(queue[p], b) \in Seq(Things) /\ ToSet(RemoveFirst(queue[p], b)) \subseteq Mine(p)
      BY <1>4, RemoveFacts DEF Types
    <3>2. QED BY <2>1, <3>1 DEF Types
  <2>4. /\ dev' \in Devs /\ dev'[p].at = at /\ dev'[p].buf = b
        /\ \A q \in Port : q # p => dev'[q] = dev[q]
    BY <1>1, <2>1 DEF Types, Devs, AtIn, AtOut, Word
  <2>5. dev'["in"].at \in AtIn /\ \A q \in Port : dev'[q].at \in InHand => dev'[q].buf \in Mine(q)
    BY <1>1, <2>4 DEF Types, AtIn, Port
  <2>6. QED BY <1>2, <2>2, <2>3, <2>4, <2>5 DEF Types
<1>5. QED BY <1>3, <1>4

LEMMA TypesGiveBack ==
  ASSUME Types, NEW p \in Port, GiveBack(p)
  PROVE  Types'
<1>1. PICK at \in {"count", "end"} : Call(p, at)
  BY DEF GiveBack
<1>2. dev[p].buf \in Mine(p) /\ at \in AtIn
  BY DEF GiveBack, Types, InHand, AtIn
<1>3. /\ dev' \in Devs /\ dev'["in"].at \in AtIn
      /\ \A q \in Port : dev'[q].at \in InHand => dev'[q].buf \in Mine(q)
  BY <1>1, <1>2, CallTypes
<1>4. msgs' \in Seq(Bufs \cup Answer) /\ Len(msgs') <= Depth
  <2>1. CASE dev[p].buf = LastFrame
    BY <2>1 DEF GiveBack, Types
  <2>2. CASE dev[p].buf # LastFrame
    <3>1. dev[p].buf \in Bufs
      BY <1>2, <2>2, ConstFacts DEF Things, Mine, Bufs
    <3>2. <<dev[p].buf>> \in Seq(Bufs \cup Answer) /\ Post(<<dev[p].buf>>)
      BY <2>2, <3>1 DEF GiveBack
    <3>3. QED BY <3>2, PostFacts
  <2>3. QED BY <2>1, <2>2
<1>5. QED BY <1>3, <1>4 DEF GiveBack, Types

LEMMA TypesCountDown ==
  ASSUME Types, NEW p \in Port, CountDown(p)
  PROVE  Types'
<1>1. PICK at \in {"end", "decide"} : /\ Call(p, at)
                                      /\ at = IF dev[p].at = "count" THEN "end" ELSE "decide"
  BY DEF CountDown
<1>2. dev[p].buf \in Mine(p) /\ at \in AtIn \cup AtOut /\ (p = "in" => at = "end")
  BY <1>1 DEF CountDown, Types, InHand, AtIn, AtOut
<1>3. /\ dev' \in Devs /\ dev'["in"].at \in AtIn
      /\ \A q \in Port : dev'[q].at \in InHand => dev'[q].buf \in Mine(q)
  BY <1>1, <1>2, CallTypes DEF AtIn
<1>4. use' \in [Port -> Nat]
  BY DEF CountDown, Lower, Types
<1>5. QED BY <1>3, <1>4 DEF CountDown, Types

LEMMA TypesDecide ==
  ASSUME Types, Decide
  PROVE  Types'
<1> DEFINE b == dev["out"].buf
<1>1. "out" \in Port /\ b \in Mine("out") /\ b \in Things
  BY ConstFacts DEF Decide, Types, InHand, Port
<1>2. mixed' \in BOOLEAN
  BY DEF Decide, Meets, Types
<1>3. CASE Wanted
  <2>1. PICK at \in {"postlate", "stuck"} :
          queue' = [queue EXCEPT !["out"] = RemoveFirst(@, b)] /\ status' = status /\ Call("out", at)
    BY <1>3 DEF Decide
  <2>2. RemoveFirst(queue["out"], b) \in Seq(Things) /\ ToSet(RemoveFirst(queue["out"], b)) \subseteq Mine("out")
    <3>1. CASE b \in ToSet(queue["out"])
      BY <1>1, <3>1, RemoveFacts DEF Types
    <3>2. CASE b \notin ToSet(queue["out"])
      <4>1. RemoveFirst(queue["out"], b) = queue["out"]
        BY <1>1, <3>2, SeqFacts DEF RemoveFirst, Types
      <4>2. QED BY <1>1, <4>1 DEF Types
    <3>3. QED BY <3>1, <3>2
  <2>3. queue' \in [Port -> Seq(Things)] /\ \A q \in Port : ToSet(queue'[q]) \subseteq Mine(q)
    BY <1>1, <2>1, <2>2 DEF Types
  <2>4. at \in AtOut /\ "out" # "in"
    BY DEF AtOut
  <2>5. /\ dev' \in Devs /\ dev'["in"].at \in AtIn
        /\ \A q \in Port : dev'[q].at \in InHand => dev'[q].buf \in Mine(q)
    BY <1>1, <2>1, <2>4, CallTypes
  <2>6. QED BY <1>2, <2>1, <2>3, <2>5 DEF Decide, Types
<1>4. CASE ~Wanted
  <2>1. queue' = queue /\ Call("out", "idle") /\ status' = [status EXCEPT ![b] = "queued"]
    BY <1>4 DEF Decide
  <2>2. "idle" \in AtIn /\ "idle" \notin InHand
    BY DEF AtIn, InHand
  <2>3. /\ dev' \in Devs /\ dev'["in"].at \in AtIn
        /\ \A q \in Port : dev'[q].at \in InHand => dev'[q].buf \in Mine(q)
    BY <1>1, <2>1, <2>2, CallTypes
  <2>4. status' \in [Things -> {"idle", "queued", "using"}]
    BY <2>1 DEF Types
  <2>5. QED BY <1>2, <2>1, <2>3, <2>4 DEF Decide, Types
<1>5. QED BY <1>3, <1>4

LEMMA PostAnswer ==
  ASSUME Types, NEW a \in Answer, Post(<<a>>)
  PROVE  msgs' \in Seq(Bufs \cup Answer) /\ Len(msgs') <= Depth
BY ShortSeqs, PostFacts

LEMMA TypesEnd ==
  ASSUME Types, NEW p \in Port, End(p)
  PROVE  Types'
<1>1. p \in Answer /\ flags \in Word
  BY DEF Answer, Types
<1>2. CASE Answers(p, p)
  <2>1. "clear" \in AtIn /\ "clear" \notin InHand /\ Reach(p, "clear", flags)
        /\ Post(<<p>>)
    BY <1>2 DEF End, AtIn, InHand
  <2>2. /\ dev' \in Devs /\ dev'["in"].at \in AtIn
        /\ \A q \in Port : dev'[q].at \in InHand => dev'[q].buf \in Mine(q)
    BY <1>1, <2>1, DevTypes
  <2>3. msgs' \in Seq(Bufs \cup Answer) /\ Len(msgs') <= Depth
    BY <1>1, <2>1, PostAnswer
  <2>4. QED BY <2>2, <2>3 DEF End, Types
<1>3. CASE ~Answers(p, p)
  <2>1. PICK at \in {"endpause", "idle"} : Call(p, at) /\ (at = "endpause" => p = "out")
    BY <1>3 DEF End
  <2>2. at \in AtIn \cup AtOut /\ at \notin InHand /\ (p = "in" => at \in AtIn)
    BY <2>1 DEF AtIn, AtOut, InHand
  <2>3. /\ dev' \in Devs /\ dev'["in"].at \in AtIn
        /\ \A q \in Port : dev'[q].at \in InHand => dev'[q].buf \in Mine(q)
    BY <2>1, <2>2, CallTypes
  <2>4. msgs' = msgs
    BY <1>3 DEF End
  <2>5. QED BY <2>3, <2>4 DEF End, Types
<1>4. QED BY <1>2, <1>3

LEMMA TypesClear ==
  ASSUME Types, NEW p \in Port, Clear(p)
  PROVE  Types'
<1>1. PICK at \in {"endpause", "idle"} : Call(p, at) /\ (at = "endpause" => p = "out")
  BY DEF Clear
<1>2. at \in AtIn \cup AtOut /\ at \notin InHand /\ (p = "in" => at \in AtIn)
  BY <1>1 DEF AtIn, AtOut, InHand
<1>3. /\ dev' \in Devs /\ dev'["in"].at \in AtIn
      /\ \A q \in Port : dev'[q].at \in InHand => dev'[q].buf \in Mine(q)
  BY <1>1, <1>2, CallTypes
<1>4. flags' \in Word /\ torn' \in BOOLEAN
  <2>1. dev[p].word \in Word /\ {p} \in Word /\ {} \in Word
    BY DEF Types, Devs, Word
  <2>2. QED BY <2>1, WriteFacts DEF Clear
<1>5. QED BY <1>3, <1>4 DEF Clear, Types

LEMMA TypesEndPause ==
  ASSUME Types, EndPause \/ ClearPause
  PROVE  Types'
<1>1. "out" \in Port /\ "out" # "in" /\ "paused" \in Answer /\ flags \in Word /\ dev["out"].word \in Word
      /\ {"paused"} \in Word /\ {} \in Word
  BY DEF Port, Answer, Types, Devs, Word
<1>2. "idle" \in AtIn /\ "clearpause" \in AtOut /\ "idle" \notin InHand /\ "clearpause" \notin InHand
  BY DEF AtIn, AtOut, InHand
<1>3. CASE EndPause /\ "paused" \in flags
  <2>1. Reach("out", "clearpause", flags) /\ Post(<<"paused">>)
    BY <1>3 DEF EndPause
  <2>2. /\ dev' \in Devs /\ dev'["in"].at \in AtIn
        /\ \A q \in Port : dev'[q].at \in InHand => dev'[q].buf \in Mine(q)
    BY <1>1, <1>2, <2>1, DevTypes
  <2>3. msgs' \in Seq(Bufs \cup Answer) /\ Len(msgs') <= Depth
    BY <1>1, <2>1, PostAnswer
  <2>4. QED BY <1>3, <2>2, <2>3 DEF EndPause, Types
<1>4. CASE (EndPause /\ "paused" \notin flags) \/ ClearPause
  <2>1. Call("out", "idle") /\ msgs' = msgs
    BY <1>4 DEF EndPause, ClearPause
  <2>2. /\ dev' \in Devs /\ dev'["in"].at \in AtIn
        /\ \A q \in Port : dev'[q].at \in InHand => dev'[q].buf \in Mine(q)
    BY <1>1, <1>2, <2>1, CallTypes
  <2>3. flags' \in Word /\ torn' \in BOOLEAN
    BY <1>1, <1>4, WriteFacts DEF EndPause, ClearPause, Types
  <2>4. QED BY <1>4, <2>1, <2>2, <2>3 DEF EndPause, ClearPause, Types
<1>5. QED BY <1>3, <1>4

(* The VPSS task writes another bit of the word. *)
LEMMA TouchFacts ==
  ASSUME Touch \/ Touched
  PROVE  \E at \in {"eofset", "touchset", "post", "idle"}, w \in {flags, {}} :
           /\ Reach("out", at, w) /\ (at = "eofset" <=> dev["out"].at = "eof")
           /\ at = "post" <=> dev["out"].at = "eofset"
BY DEF Touch, Touched, Call

LEMMA TypesTouch ==
  ASSUME Types, Touch \/ Touched
  PROVE  Types'
<1>1. PICK at \in {"eofset", "touchset", "post", "idle"}, w \in {flags, {}} :
        /\ Reach("out", at, w) /\ (at = "eofset" <=> dev["out"].at = "eof")
        /\ at = "post" <=> dev["out"].at = "eofset"
  BY TouchFacts
<1>2. "out" \in Port /\ at \in AtIn \cup AtOut /\ w \in Word /\ {} \in Word /\ dev["out"].word \in Word
      /\ (at \in InHand => dev["out"].at \in InHand)
  BY <1>1 DEF Port, AtIn, AtOut, Word, Types, InHand, Devs
<1>3. dev["out"].at \in InHand => dev["out"].buf \in Mine("out")
  BY <1>2 DEF Types
<1>4. /\ dev' \in Devs /\ dev'["in"].at \in AtIn
      /\ \A q \in Port : dev'[q].at \in InHand => dev'[q].buf \in Mine(q)
  BY <1>1, <1>2, <1>3, DevTypes
<1>5. flags' \in Word /\ torn' \in BOOLEAN
  BY <1>2, WriteFacts DEF Touch, Touched, Types
<1>6. QED BY <1>4, <1>5 DEF Touch, Touched, Types

(* What the client lends joins the end of its queue. *)
LEMMA LendFacts ==
  ASSUME Types, NEW b \in Bufs, NEW last \in BOOLEAN, Lend(b, last)
  PROVE  /\ queue' \in [Port -> Seq(Things)] /\ \A q \in Port : q # PortOf(b) => queue'[q] = queue[q]
         /\ ToSet(queue'[PortOf(b)]) = ToSet(queue[PortOf(b)]) \cup {b} \cup (IF last THEN {LastFrame} ELSE {})
         /\ \A e : Single(queue[PortOf(b)], e) /\ (e \in ToSet(queue[PortOf(b)]) => e # b /\ ~(last /\ e = LastFrame))
                   => Single(queue'[PortOf(b)], e)
         /\ status' \in [Things -> {"idle", "queued", "using"}]
         /\ \A e \in Things : status'[e] = IF e = b \/ (last /\ e = LastFrame) THEN "queued" ELSE status[e]
<1> DEFINE p == PortOf(b)
           t == IF last THEN <<b, LastFrame>> ELSE <<b>>
<1>1. p \in Port /\ b \in Things /\ b # LastFrame /\ LastFrame \in Things /\ queue[p] \in Seq(Things)
  BY ConstFacts DEF Things, Types
<1>2. t \in Seq(Things) /\ ToSet(t) = {b} \cup (IF last THEN {LastFrame} ELSE {}) /\ \A e : Single(t, e)
  <2>1. CASE ~last
    BY <1>1, <2>1, OneFacts
  <2>2. CASE last
    <3> DEFINE z == <<b, LastFrame>>
    <3>1. z \in Seq(Things) /\ Len(z) = 2 /\ z[1] = b /\ z[2] = LastFrame
      BY <1>1
    <3> HIDE DEF z
    <3>2. DOMAIN z = {1, 2}
      BY <3>1, SeqFacts
    <3>3. ToSet(z) = {b, LastFrame}
      BY <3>1, <3>2 DEF ToSet
    <3>4. \A e : Single(z, e)
      BY <1>1, <3>1, <3>2 DEF Single
    <3>5. QED BY <2>2, <3>1, <3>3, <3>4 DEF z
  <2>3. QED BY <2>1, <2>2
<1>3. queue' = [queue EXCEPT ![p] = @ \o t]
  BY DEF Lend
<1>4. /\ queue' \in [Port -> Seq(Things)] /\ queue'[p] = queue[p] \o t
      /\ \A q \in Port : q # p => queue'[q] = queue[q]
  <2> HIDE DEF t, p
  <2>1. queue[p] \o t \in Seq(Things)
    BY <1>1, <1>2, ConcatFacts
  <2>2. QED BY <1>1, <1>3, <2>1 DEF Types
<1>5. /\ ToSet(queue[p] \o t) = ToSet(queue[p]) \cup ToSet(t)
      /\ \A e : Single(queue[p], e) /\ Single(t, e) /\ ~(e \in ToSet(queue[p]) /\ e \in ToSet(t)) => Single(queue[p] \o t, e)
  <2> HIDE DEF t, p
  <2>1. QED BY <1>1, <1>2, ConcatFacts
<1>6. /\ status' \in [Things -> {"idle", "queued", "using"}]
      /\ \A e \in Things : status'[e] = IF e = b \/ (last /\ e = LastFrame) THEN "queued" ELSE status[e]
  BY DEF Lend, Types
<1>7. QED
  <2> HIDE DEF t
  <2>1. QED BY <1>2, <1>4, <1>5, <1>6

LEMMA TypesLend ==
  ASSUME Types, NEW b \in Bufs, NEW last \in BOOLEAN, Lend(b, last)
  PROVE  Types'
<1>1. PortOf(b) \in Port /\ b \in Mine(PortOf(b)) /\ (last => LastFrame \in Mine(PortOf(b)))
  BY ConstFacts DEF Lend, Mine
<1>2. \A q \in Port : ToSet(queue'[q]) \subseteq Mine(q)
  <2> TAKE q \in Port
  <2>1. ToSet(queue[q]) \subseteq Mine(q)
    BY DEF Types
  <2>2. CASE q = PortOf(b)
    <3>1. ToSet(queue'[q]) = ToSet(queue[q]) \cup {b} \cup (IF last THEN {LastFrame} ELSE {})
      BY <2>2, LendFacts, Zenon
    <3>2. QED BY <1>1, <2>1, <2>2, <3>1
  <2>3. CASE q # PortOf(b)
    BY <2>1, <2>3, LendFacts
  <2>4. QED BY <2>2, <2>3
<1>3. client' \in SUBSET Bufs
  BY DEF Lend, Types
<1>4. cmd' \in Cmds
  BY CommandFacts DEF Lend, CmdAt
<1>5. QED BY <1>2, <1>3, <1>4, LendFacts DEF Lend, Types

LEMMA TypesRefuse ==
  ASSUME Types, NEW b \in YuvBufs, Refuse(b)
  PROVE  Types'
<1>1. b \in Bufs
  BY DEF Bufs
<1>2. <<b>> \in Seq(Bufs \cup Answer) /\ Post(<<b>>)
  BY <1>1 DEF Refuse
<1>3. msgs' \in Seq(Bufs \cup Answer) /\ Len(msgs') <= Depth
  BY <1>2, PostFacts
<1>4. QED BY <1>3 DEF Refuse, Types

(* A flush keeps in the queue what is in use, and posts the rest. *)
LEMMA ReleaseFacts ==
  ASSUME Types, NEW p \in Port, ReleaseIdle(p)
  PROVE  /\ queue' \in [Port -> Seq(Things)] /\ \A q \in Port : q # p => queue'[q] = queue[q]
         /\ \A e : e \in ToSet(queue'[p]) <=> e \in ToSet(queue[p]) /\ status[e] = "using"
         /\ \A e : Single(queue[p], e) => Single(queue'[p], e)
         /\ status' \in [Things -> {"idle", "queued", "using"}]
         /\ \A e \in Things :
              status'[e] = IF e \in ToSet(queue[p]) /\ status[e] # "using" THEN "idle" ELSE status[e]
         /\ \E ms \in Seq(Bufs \cup Answer) :
              /\ Post(ms) /\ \A e : Single(queue[p], e) => Single(ms, e)
              /\ \A e : e \in ToSet(ms) <=> e \in ToSet(queue[p]) /\ status[e] # "using" /\ e # LastFrame
<1> DEFINE q == queue[p]
           idle == {i \in DOMAIN q : ~InUse(q[i])}
           ms == Those(q, {i \in idle : q[i] # LastFrame})
<1>1. /\ queue' = [queue EXCEPT ![p] = Those(q, DOMAIN q \ idle)]
      /\ status' = [b \in DOMAIN status |-> IF \E i \in idle : q[i] = b THEN "idle" ELSE status[b]]
      /\ Post(ms)
  BY DEF ReleaseIdle
<1>2. q \in Seq(Things) /\ q \in Seq(Mine(p)) /\ ToSet(q) \subseteq Things
  <2>1. q \in Seq(Things) /\ ToSet(q) \subseteq Mine(p)
    BY DEF Types
  <2>2. ToSet(q) \subseteq Things /\ \A i \in 1..Len(q) : q[i] \in Mine(p)
    BY <2>1, SeqFacts
  <2>3. q \in [1..Len(q) -> Mine(p)] /\ Len(q) \in Nat
    BY <2>1, <2>2, LenProperties
  <2>4. QED BY <2>1, <2>2, <2>3
<1>3. \A e : e \in ToSet(q) <=> \E i \in DOMAIN q : q[i] = e
  BY DEF ToSet
<1> HIDE DEF q
<1>4. /\ Those(q, DOMAIN q \ idle) \in Seq(Things)
      /\ ToSet(Those(q, DOMAIN q \ idle)) = {q[i] : i \in DOMAIN q \ idle}
      /\ \A e : Single(q, e) => Single(Those(q, DOMAIN q \ idle), e)
  BY <1>2, ThoseFacts
<1>5. /\ queue' \in [Port -> Seq(Things)] /\ \A r \in Port : r # p => queue'[r] = queue[r]
      /\ queue'[p] = Those(q, DOMAIN q \ idle)
  BY <1>1, <1>4 DEF Types
<1>6. \A e : e \in ToSet(queue'[p]) <=> e \in ToSet(q) /\ status[e] = "using"
  BY <1>3, <1>4, <1>5 DEF InUse
<1>7. /\ status' \in [Things -> {"idle", "queued", "using"}]
      /\ \A e \in Things : status'[e] = IF e \in ToSet(q) /\ status[e] # "using" THEN "idle" ELSE status[e]
  BY <1>1, <1>3 DEF InUse, Types
<1>8. /\ ms \in Seq(Mine(p)) /\ \A e : Single(q, e) => Single(ms, e)
      /\ ToSet(ms) = {q[i] : i \in {j \in idle : q[j] # LastFrame}}
  <2>1. {i \in idle : q[i] # LastFrame} \in SUBSET (DOMAIN q)
    OBVIOUS
  <2>2. QED BY <1>2, <2>1, ThoseFacts
<1> HIDE DEF ms
<1>9. \A e : e \in ToSet(ms) <=> e \in ToSet(q) /\ status[e] # "using" /\ e # LastFrame
  BY <1>3, <1>8 DEF InUse
<1>10. ms \in Seq(Bufs \cup Answer)
  <2>1. Len(ms) \in Nat /\ ms \in [1..Len(ms) -> Mine(p)]
    BY <1>8, LenProperties
  <2>2. \A i \in 1..Len(ms) : ms[i] \in ToSet(ms)
    BY <1>8, SeqFacts
  <2>3. \A i \in 1..Len(ms) : ms[i] \in Bufs
    BY <1>9, <2>1, <2>2 DEF Mine, Bufs
  <2>4. ms \in [1..Len(ms) -> Bufs \cup Answer]
    BY <2>1, <2>3
  <2>5. QED BY <2>1, <2>4
<1>11. QED BY <1>1, <1>4, <1>5, <1>6, <1>7, <1>8, <1>9, <1>10 DEF q

LEMMA TypesReleaseIdle ==
  ASSUME Types, NEW p \in Port, ReleaseIdle(p)
  PROVE  Types'
<1>1. \A q \in Port : ToSet(queue'[q]) \subseteq Mine(q)
  BY ReleaseFacts DEF Types
<1>2. msgs' \in Seq(Bufs \cup Answer) /\ Len(msgs') <= Depth
  BY ReleaseFacts, PostFacts
<1>3. cmd' \in Cmds
  <2>1. PICK at \in CmdAt : Command(at)
    BY DEF ReleaseIdle, CmdAt
  <2>2. QED BY <2>1, CommandFacts
<1>4. mixed' \in BOOLEAN
  BY DEF ReleaseIdle, Meets, Types
<1>5. QED BY <1>1, <1>2, <1>3, <1>4, ReleaseFacts DEF ReleaseIdle, Types

(* Where a flush goes on. *)
LEMMA ThenFacts ==
  ASSUME Types, NEW p \in Port, Then(p)
  PROVE  \E at \in CmdAt : at \in After(p) /\ cmd' \in Cmds /\ cmd'.at = at /\ Command(at)
<1>1. PICK at \in After(p) : Command(at)
  BY DEF Then
<1>2. at \in CmdAt
  BY DEF After, CmdAt
<1>3. QED BY <1>1, <1>2, CommandFacts

LEMMA TypesTest ==
  ASSUME Types, NEW p \in Port, Test(p)
  PROVE  Types'
<1>1. cmd' \in Cmds
  <2>1. CASE Busy(p)
    <3>1. flags \in Word /\ cmd.ports \in SUBSET Port /\ "setin" \in CmdAt /\ "setout" \in CmdAt
      BY DEF Types, Cmds, CmdAt
    <3>2. QED BY <2>1, <3>1, OrderFacts DEF Test
  <2>2. CASE ~Busy(p)
    BY <2>2, ThenFacts DEF Test
  <2>3. QED BY <2>1, <2>2
<1>2. msgs' \in Seq(Bufs \cup Answer) /\ Len(msgs') <= Depth
  <2>1. p \in Answer
    BY DEF Answer
  <2>2. msgs' = msgs \/ Post(<<p>>)
    BY DEF Test
  <2>3. QED BY <2>1, <2>2, PostAnswer DEF Types
<1>3. mixed' \in BOOLEAN
  BY DEF Test, Meets, Types
<1>4. QED BY <1>1, <1>2, <1>3 DEF Test, Types

LEMMA TypesCommands ==
  ASSUME Types, \/ \E p \in Port : SetPending(p)
                \/ \E ports \in (SUBSET Port) \ {{}} : Flush(ports)
                \/ PauseDone \/ SetPause \/ ResumeDone \/ Pause \/ Resume
                \/ CommandTouch \/ CommandTouched
  PROVE  Types'
<1>1. /\ cmd \in Cmds /\ cmd.word \in Word /\ flags \in Word /\ {} \in Word /\ {"paused"} \in Word
      /\ \A p \in Port : {p} \in Word
      /\ {} \in SUBSET Port /\ (SUBSET Port) \ {{}} \subseteq SUBSET Port
      /\ {"idle", "freeout", "freein", "postpause", "setpause", "resume", "resetset", "touch", "touchset"} \subseteq CmdAt
  BY DEF Types, Cmds, Word, CmdAt
<1>2. CASE \E p \in Port : SetPending(p)
  <2>1. PICK p \in Port : SetPending(p)
    BY <1>2
  <2>2. cmd' \in Cmds
    BY <2>1, ThenFacts DEF SetPending
  <2>3. flags' \in Word /\ torn' \in BOOLEAN
    BY <1>1, <2>1, WriteFacts DEF SetPending
  <2>4. QED BY <2>1, <2>2, <2>3 DEF SetPending, Types
<1>3. CASE \E ports \in (SUBSET Port) \ {{}} : Flush(ports)
  <2>1. PICK ports \in SUBSET Port : Flush(ports)
    BY <1>3
  <2>2. cmd' \in Cmds
    BY <1>1, <2>1, OrderFacts DEF Flush
  <2>3. asked' \in SUBSET Answer
    BY <2>1 DEF Flush, Types, Answer
  <2>4. QED BY <2>1, <2>2, <2>3 DEF Flush, Types
<1>4. CASE PauseDone \/ SetPause \/ ResumeDone
  <2>1. "idle" \in CmdAt /\ Command("idle")
    BY <1>4 DEF PauseDone, SetPause, ResumeDone, CmdAt
  <2>2. cmd' \in Cmds
    BY <2>1, CommandFacts
  <2>3. flags' \in Word /\ torn' \in BOOLEAN
    BY <1>1, <1>4, WriteFacts DEF PauseDone, SetPause, ResumeDone, Types
  <2>4. msgs' = msgs \/ Post(<<"paused">>) \/ Post(<<"resumed">>)
    BY <1>4 DEF PauseDone, SetPause, ResumeDone
  <2>5. "paused" \in Answer /\ "resumed" \in Answer
    BY DEF Answer
  <2>6. msgs' \in Seq(Bufs \cup Answer) /\ Len(msgs') <= Depth
    BY <2>4, <2>5, PostAnswer DEF Types
  <2>7. QED BY <1>4, <2>2, <2>3, <2>6 DEF PauseDone, SetPause, ResumeDone, Types
<1>5. CASE Pause \/ Resume
  <2>1. cmd' \in Cmds
    BY <1>1, <1>5, OrderFacts, CommandFacts DEF Pause, Resume
  <2>2. asked' \in SUBSET Answer
    BY <1>5 DEF Pause, Resume, Types, Answer
  <2>3. QED BY <1>5, <2>1, <2>2 DEF Pause, Resume, Types
<1>6. CASE CommandTouch \/ CommandTouched
  <2>1. cmd' \in Cmds
    BY <1>1, <1>6, OrderFacts, CommandFacts DEF CommandTouch, CommandTouched
  <2>2. flags' \in Word /\ torn' \in BOOLEAN
    BY <1>1, <1>6, WriteFacts DEF CommandTouch, CommandTouched, Types
  <2>3. QED BY <1>6, <2>1, <2>2 DEF CommandTouch, CommandTouched, Types
<1>7. QED BY <1>2, <1>3, <1>4, <1>5, <1>6

LEMMA TypesGetMsg ==
  ASSUME Types, GetMsg
  PROVE  Types'
<1>1. msgs # <<>> /\ msgs' = Tail(msgs) /\ msgs \in Seq(Bufs \cup Answer)
  BY DEF GetMsg, Types
<1>2. /\ Head(msgs) \in Bufs \cup Answer /\ Tail(msgs) \in Seq(Bufs \cup Answer)
      /\ Len(Tail(msgs)) = Len(msgs) - 1 /\ Len(msgs) \in Nat
  BY <1>1, TailFacts
<1>3. msgs' \in Seq(Bufs \cup Answer) /\ Len(msgs') <= Depth
  <2>1. Len(msgs) <= Depth /\ Depth \in Nat
    BY ConstFacts DEF Types
  <2>2. QED BY <1>1, <1>2, <2>1
<1>4. client' \in SUBSET Bufs /\ asked' \in SUBSET Answer
  BY <1>2 DEF GetMsg, Types
<1>5. QED BY <1>3, <1>4 DEF GetMsg, Types

(* The steps, by who takes them. *)
Gives(p) ==
  \E b \in held[p] : \/ Enter(p, b, "post", FALSE)
                     \/ p = "out" /\ (Enter(p, b, "eof", FALSE) \/ Enter(p, b, "uncount", TRUE))
DevStep(p) ==
  \/ GetCheck(p) \/ Get(p) \/ Gives(p) \/ GiveBack(p) \/ CountDown(p) \/ End(p) \/ Clear(p)
  \/ p = "out" /\ (Decide \/ EndPause \/ ClearPause \/ Touch \/ Touched)
CmdStep ==
  \/ \E b \in Bufs, last \in BOOLEAN : Lend(b, last)
  \/ \E b \in YuvBufs : Refuse(b)
  \/ \E ports \in (SUBSET Port) \ {{}} : Flush(ports)
  \/ \E p \in Port : ReleaseIdle(p) \/ Test(p) \/ SetPending(p)
  \/ CommandTouch \/ CommandTouched
  \/ PauseDone \/ SetPause \/ ResumeDone \/ Pause \/ Resume

LEMMA NextCases ==
  ASSUME [Next]_vars
  PROVE  (\E p \in Port : DevStep(p)) \/ CmdStep \/ GetMsg \/ UNCHANGED vars
<1>1. CASE Returns
  <2>1. \A b : ReleaseStream(b) => Gives("in")
    BY DEF ReleaseStream, Gives, Enter
  <2>2. \A b : ReportNewFrame(b) \/ ReleaseFrame(b) => Gives("out")
    BY DEF ReportNewFrame, ReleaseFrame, Gives, Enter
  <2>3. QED BY <1>1, <2>1, <2>2 DEF Returns, DevStep, Port
<1>2. CASE \E p \in Port : GetCheck(p) \/ Inside(p)
  BY <1>2 DEF Inside, DevStep
<1>3. CASE InsideOut \/ Touch
  BY <1>3 DEF InsideOut, DevStep, Port
<1>4. CASE Goes
  BY <1>4 DEF Goes, CmdStep
<1>5. QED BY <1>1, <1>2, <1>3, <1>4 DEF Next, CmdStep

LEMMA StepTypes ==
  ASSUME Types, [Next]_vars
  PROVE  Types'
<1>1. CASE \E p \in Port : DevStep(p)
  <2>1. PICK p \in Port : DevStep(p)
    BY <1>1
  <2>2. CASE Gives(p)
    BY <2>2, TypesEnter DEF Gives
  <2>3. CASE GetCheck(p) \/ Get(p) \/ GiveBack(p) \/ CountDown(p) \/ End(p) \/ Clear(p)
    BY <2>3, TypesGetCheck, TypesGet, TypesGiveBack, TypesCountDown, TypesEnd, TypesClear
  <2>4. CASE Decide \/ EndPause \/ ClearPause \/ Touch \/ Touched
    BY <2>4, TypesDecide, TypesEndPause, TypesTouch
  <2>5. QED BY <2>1, <2>2, <2>3, <2>4 DEF DevStep
<1>2. CASE CmdStep
  <2>1. CASE (\E b \in Bufs, last \in BOOLEAN : Lend(b, last)) \/ \E b \in YuvBufs : Refuse(b)
    BY <2>1, TypesLend, TypesRefuse
  <2>2. CASE \E p \in Port : ReleaseIdle(p) \/ Test(p)
    BY <2>2, TypesReleaseIdle, TypesTest
  <2>3. QED BY <1>2, <2>1, <2>2, TypesCommands DEF CmdStep
<1>3. CASE UNCHANGED vars
  BY <1>3 DEF vars, Types
<1>4. QED BY <1>1, <1>2, <1>3, TypesGetMsg, NextCases

LEMMA InitTypes == Init => Types
<1> SUFFICES ASSUME Init PROVE Types
  OBVIOUS
<1>1. /\ \A p \in Port : queue[p] = <<>> /\ held[p] = {} /\ dev[p].at = "idle"
      /\ <<>> \in Seq(Things) /\ <<>> \in Seq(Bufs \cup Answer) /\ ToSet(<<>>) = {} /\ Len(<<>>) = 0
  BY EmptySeq, EmptyFacts DEF Init, NoCall
<1>2. /\ queue \in [Port -> Seq(Things)] /\ \A p \in Port : ToSet(queue[p]) \subseteq Mine(p)
      /\ msgs \in Seq(Bufs \cup Answer) /\ Len(msgs) <= Depth
  BY <1>1, ConstFacts DEF Init
<1>3. dev \in Devs /\ cmd \in Cmds
  BY DEF Init, NoCall, NoCmd, Devs, Cmds, AtIn, CmdAt, Word
<1>4. "in" \in Port /\ "idle" \in AtIn /\ "idle" \notin InHand
  BY DEF Port, AtIn, InHand
<1>5. client \in SUBSET Bufs /\ asked \in SUBSET Answer
      /\ status \in [Things -> {"idle", "queued", "using"}] /\ use \in [Port -> Nat]
      /\ flags \in Word /\ state \in {"work", "pause"}
      /\ held \in [Port -> SUBSET Things] /\ \A p \in Port : held[p] \subseteq Mine(p)
      /\ torn \in BOOLEAN /\ mixed \in BOOLEAN
  BY <1>1 DEF Init, Word, Things
<1>6. QED BY <1>1, <1>2, <1>3, <1>4, <1>5 DEF Types

LEMMA WordFacts ==
  ASSUME Types
  PROVE  /\ flags \in Word /\ cmd.word \in Word /\ {} \in Word /\ {"paused"} \in Word
         /\ \A p \in Port : {p} \in Word /\ dev[p].word \in Word
BY DEF Types, Cmds, Devs, Word

(* What goes wrong stays wrong.                                            *)
LEMMA StillWrong ==
  ASSUME Types, [Next]_vars
  PROVE  (torn => torn') /\ (mixed => mixed')
<1>1. torn \in BOOLEAN /\ mixed \in BOOLEAN
  BY DEF Types
<1>2. CASE \E p \in Port : DevStep(p)
  BY <1>1, <1>2 DEF DevStep, GetCheck, Get, Gives, Enter, GiveBack, CountDown, End, Clear, Decide, EndPause, ClearPause,
     Touch, Touched, Write, Meets
<1>3. CASE CmdStep
  BY <1>1, <1>3 DEF CmdStep, Lend, Refuse, Flush, ReleaseIdle, Test, SetPending, CommandTouch, CommandTouched,
     PauseDone, SetPause, ResumeDone, Pause, Resume, Write, Meets
<1>4. CASE GetMsg \/ UNCHANGED vars
  BY <1>4 DEF GetMsg, vars
<1>5. QED BY <1>2, <1>3, <1>4, NextCases

(* A write that is not torn changes its own bits only.                     *)
LEMMA WriteDone ==
  ASSUME Types, NEW w \in Word, NEW own \in Word, NEW on \in Word, Write(w, own, on), ~torn'
  PROVE  flags' = (flags \ own) \cup on
BY DEF Types, Write, Word

SameFor(q) ==
  /\ queue'[q] = queue[q] /\ held'[q] = held[q] /\ use'[q] = use[q] /\ dev'[q] = dev[q]
  /\ \A b \in Mine(q) : status'[b] = status[b]

LEMMA DevOther ==
  ASSUME Types, NEW p \in Port, DevStep(p)
  PROVE  /\ client' = client /\ asked' = asked /\ state' = state /\ cmd' = cmd
         /\ \A q \in Port : q # p => SameFor(q)
<1> SUFFICES ASSUME NEW q \in Port, q # p
             PROVE  /\ client' = client /\ asked' = asked /\ state' = state /\ cmd' = cmd
                    /\ SameFor(q)
  <2>1. \E q \in Port : q # p
    BY DEF Port
  <2>2. QED BY <2>1
<1>1. \A b \in Mine(p) : b \in Things /\ b \notin Mine(q)
  BY ConstFacts DEF Port
<1>2. ASSUME NEW at, NEW w, Reach(p, at, w) PROVE dev'[q] = dev[q]
  BY <1>2 DEF Reach, Types, Devs
<1>3. ASSUME NEW at, Call(p, at) PROVE dev'[q] = dev[q]
  BY <1>2, <1>3 DEF Call
<1>4. CASE GetCheck(p) \/ GiveBack(p) \/ End(p) \/ Clear(p) \/ CountDown(p)
  <2>1. dev'[q] = dev[q]
    BY <1>2, <1>3, <1>4 DEF GetCheck, GiveBack, End, Clear, CountDown
  <2>2. use'[q] = use[q]
    BY <1>4 DEF GetCheck, GiveBack, End, Clear, CountDown, Types
  <2>3. QED BY <1>4, <2>1, <2>2 DEF GetCheck, GiveBack, End, Clear, CountDown, SameFor
<1>5. CASE Get(p)
  <2>1. dev'[q] = dev[q]
    BY <1>3, <1>5 DEF Get
  <2>2. CASE UNCHANGED <<status, use, held>>
    BY <1>5, <2>1, <2>2 DEF Get, SameFor
  <2>3. ASSUME NEW b \in ToSet(queue[p]), status' = [status EXCEPT ![b] = "using"],
               use' = [use EXCEPT ![p] = @ + 1], held' = [held EXCEPT ![p] = @ \cup {b}]
        PROVE  /\ use'[q] = use[q] /\ held'[q] = held[q] /\ \A c \in Mine(q) : status'[c] = status[c]
    <3>1. b \in Mine(p) /\ Mine(q) \subseteq Things
      BY <2>3, ConstFacts DEF Types
    <3>2. QED BY <1>1, <2>3, <3>1 DEF Types
  <2>4. QED BY <1>5, <2>1, <2>2, <2>3, GetFacts DEF Get, SameFor
<1>6. CASE Gives(p)
  <2>1. PICK b \in held[p], at \in {"post", "eof", "uncount"}, keeps \in BOOLEAN : Enter(p, b, at, keeps)
    BY <1>6 DEF Gives
  <2>2. b \in Mine(p) /\ Mine(q) \subseteq Things
    BY ConstFacts DEF Types
  <2>3. held'[q] = held[q] /\ queue'[q] = queue[q] /\ dev'[q] = dev[q]
    BY <2>1 DEF Enter, Types, Devs
  <2>4. \A c \in Mine(q) : status'[c] = status[c]
    BY <1>1, <2>1, <2>2 DEF Enter, Types
  <2>5. QED BY <2>1, <2>3, <2>4 DEF Enter, SameFor
<1>7. CASE p = "out" /\ (Decide \/ EndPause \/ ClearPause \/ Touch \/ Touched)
  <2>1. dev'[q] = dev[q]
    BY <1>2, <1>3, <1>7 DEF Decide, EndPause, ClearPause, Touch, Touched
  <2>2. CASE Decide
    <3>1. dev["out"].buf \in Mine(p) /\ Mine(q) \subseteq Things
      BY <1>7, <2>2, ConstFacts DEF Decide, Types, InHand
    <3>2. queue'[q] = queue[q] /\ \A c \in Mine(q) : status'[c] = status[c]
      BY <1>1, <1>7, <2>2, <3>1 DEF Decide, Types
    <3>3. QED BY <2>1, <2>2, <3>2 DEF Decide, SameFor
  <2>3. QED BY <1>7, <2>1, <2>2 DEF EndPause, ClearPause, Touch, Touched, SameFor
<1>8. QED BY <1>4, <1>5, <1>6, <1>7 DEF DevStep

LEMMA CmdAlone ==
  ASSUME CmdStep
  PROVE  dev' = dev /\ use' = use /\ held' = held
BY DEF CmdStep, Lend, Refuse, Flush, ReleaseIdle, Test, SetPending, CommandTouch, CommandTouched,
     PauseDone, SetPause, ResumeDone, Pause, Resume

-----------------------------------------------------------------------------
(* Every buffer is at one place at most. *)

LEMMA MsgsOther ==
  ASSUME Types, NEW ms \in Seq(Bufs \cup Answer), Post(ms), NEW b, b \notin ToSet(ms)
  PROVE  (b \in ToSet(msgs') => b \in ToSet(msgs)) /\ (Single(msgs, b) => Single(msgs', b))
<1>1. Single(ms, b)
  BY DEF Single, ToSet
<1>2. QED BY <1>1, PostFacts

(* Messages of other buffers and answers do not matter to b. *)
Unmoved(b) ==
  /\ b \in client' => b \in client
  /\ b \in ToSet(msgs') => b \in ToSet(msgs)
  /\ Single(msgs, b) => Single(msgs', b)

LEMMA OwnFrame ==
  ASSUME Types, Types', NEW p \in Port, Own(p),
         queue'[p] = queue[p], held'[p] = held[p], use'[p] = use[p],
         \A b \in Mine(p) : status'[b] = status[b],
         \/ dev'[p] = dev[p]
         \/ dev[p].at \notin InHand /\ dev'[p].at \notin InHand
         \/ dev[p].at \in Apart \cap Counted /\ dev'[p].at \in Apart \cap Counted /\ dev'[p].buf = dev[p].buf,
         \A b \in BufsOf(p) : Unmoved(b)
  PROVE  Own(p)'
<1>1. ToSet(queue[p]) \subseteq Mine(p) /\ held[p] \subseteq Mine(p)
  BY DEF Types
<1>2. ToSet(queue'[p]) = ToSet(queue[p])
  OBVIOUS
<1>3. /\ \A b \in Mine(p) : Single(queue'[p], b)
      /\ \A b \in held'[p] : status'[b] = "using" /\ b \in ToSet(queue'[p])
      /\ \A b \in ToSet(queue'[p]) : status'[b] = "using" => b \in held'[p]
  BY <1>1 DEF Own
<1>4. \A b \in BufsOf(p) :
        /\ Single(msgs', b)
        /\ b \in client' => b \notin ToSet(queue'[p]) \cup ToSet(msgs')
        /\ b \in ToSet(queue'[p]) => b \notin ToSet(msgs')
  BY DEF Own, Unmoved
<1>5. Apart \subseteq InHand /\ Counted \subseteq InHand
  BY DEF Apart, Counted, InHand
<1>6. CASE \/ dev'[p] = dev[p]
           \/ dev[p].at \in Apart \cap Counted /\ dev'[p].at \in Apart \cap Counted /\ dev'[p].buf = dev[p].buf
  <2>1. dev[p].at \in Apart =>
          dev[p].buf \notin ToSet(queue'[p]) \cup client' \cup ToSet(msgs')
    <3> SUFFICES ASSUME dev[p].at \in Apart
                 PROVE  dev[p].buf \notin ToSet(queue[p]) \cup client' \cup ToSet(msgs')
      OBVIOUS
    <3>1. dev[p].buf \in Mine(p) /\ dev[p].buf \notin ToSet(queue[p]) \cup client \cup ToSet(msgs)
      BY <1>5 DEF Types, Own
    <3>2. CASE dev[p].buf \in Bufs
      <4>1. dev[p].buf \in BufsOf(p)
        BY <3>1, <3>2, ConstFacts
      <4>2. QED BY <3>1, <4>1 DEF Unmoved
    <3>3. CASE dev[p].buf \notin Bufs
      <4>1. dev[p].buf \notin Bufs \cup Answer
        BY <3>1, <3>3, ConstFacts
      <4>2. client' \subseteq Bufs /\ msgs' \in Seq(Bufs \cup Answer)
        BY DEF Types
      <4>3. ToSet(msgs') \subseteq Bufs \cup Answer
        BY <4>2, SeqFacts
      <4>4. QED BY <3>1, <4>1, <4>2, <4>3
    <3>4. QED BY <3>2, <3>3
  <2>2. dev[p].at \in InHand => dev[p].buf \notin held'[p]
    BY DEF Own
  <2>3. use'[p] = Cardinality(held'[p]) + (IF dev[p].at \in Counted THEN 1 ELSE 0)
    BY DEF Own
  <2>4. QED BY <1>3, <1>4, <1>5, <1>6, <2>1, <2>2, <2>3 DEF Own
<1>7. CASE dev[p].at \notin InHand /\ dev'[p].at \notin InHand
  <2>1. dev'[p].at \notin Apart /\ dev'[p].at \notin Counted /\ dev[p].at \notin Counted
    BY <1>5, <1>7
  <2>2. use'[p] = Cardinality(held'[p]) + (IF dev'[p].at \in Counted THEN 1 ELSE 0)
    BY <2>1 DEF Own
  <2>3. QED BY <1>3, <1>4, <1>7, <2>1, <2>2 DEF Own
<1>8. QED BY <1>6, <1>7

LEMMA PostedAnswer ==
  ASSUME Types, NEW a \in Answer, Post(<<a>>), client' = client, NEW b \in Bufs
  PROVE  Unmoved(b)
<1>1. <<a>> \in Seq(Bufs \cup Answer) /\ b \notin ToSet(<<a>>)
  <2>1. b # a
    BY ConstFacts
  <2>2. QED BY <2>1, ShortSeqs
<1>2. QED BY <1>1, MsgsOther DEF Unmoved

LEMMA Posted ==
  ASSUME Types, NEW p \in Port, GiveBack(p), dev[p].buf # LastFrame
  PROVE  /\ dev[p].buf \in BufsOf(p) /\ Post(<<dev[p].buf>>)
         /\ \A b : b # dev[p].buf => Unmoved(b)
<1>1. dev[p].buf \in Mine(p)
  BY DEF GiveBack, Types, InHand
<1>2. dev[p].buf \in Bufs /\ dev[p].buf \in BufsOf(p)
  BY <1>1 DEF Mine, Bufs, BufsOf
<1>3. Post(<<dev[p].buf>>) /\ client' = client
  BY DEF GiveBack
<1>4. <<dev[p].buf>> \in Seq(Bufs \cup Answer) /\ ToSet(<<dev[p].buf>>) = {dev[p].buf}
  BY <1>2, ShortSeqs
<1>5. QED BY <1>2, <1>3, <1>4, MsgsOther DEF Unmoved

LEMMA SameMsgs ==
  ASSUME UNCHANGED <<client, msgs>>, NEW b
  PROVE  Unmoved(b)
BY DEF Unmoved

(* The other device. *)
LEMMA OwnOther ==
  ASSUME Types, Types', NEW p \in Port, Own(p), NEW q \in Port, q # p, DevStep(q)
  PROVE  Own(p)'
<1>1. SameFor(p) /\ client' = client
  BY DevOther
<1>2. ASSUME NEW b \in BufsOf(p) PROVE Unmoved(b)
  <2>1. b \in Bufs /\ b \notin BufsOf(q)
    BY <1>2, ConstFacts, Zenon DEF Port, BufsOf, Mine
  <2>2. CASE GetCheck(q) \/ Get(q) \/ CountDown(q) \/ Clear(q) \/ Decide \/ ClearPause \/ Touch \/ Touched \/ Gives(q)
    <3>1. msgs' = msgs
      BY <2>2 DEF GetCheck, Get, CountDown, Clear, Decide, ClearPause, Touch, Touched, Gives, Enter
    <3>2. QED BY <1>1, <3>1, SameMsgs
  <2>3. CASE GiveBack(q)
    <3>1. CASE dev[q].buf = LastFrame
      BY <1>1, <2>3, <3>1, SameMsgs DEF GiveBack
    <3>2. CASE dev[q].buf # LastFrame
      BY <2>1, <2>3, <3>2, Posted
    <3>3. QED BY <3>1, <3>2
  <2>4. CASE End(q) \/ EndPause
    <3>1. q \in Answer /\ "paused" \in Answer
      BY DEF Answer
    <3>2. msgs' = msgs \/ Post(<<q>>) \/ Post(<<"paused">>)
      BY <2>4 DEF End, EndPause
    <3>3. QED BY <1>1, <2>1, <3>1, <3>2, SameMsgs, PostedAnswer
  <2>5. QED BY <2>2, <2>3, <2>4 DEF DevStep
<1>3. QED BY <1>1, <1>2, OwnFrame DEF SameFor

(* The device of the port itself. *)
LEMMA HeldFacts ==
  ASSUME Types, NEW p \in Port
  PROVE  /\ IsFiniteSet(held[p]) /\ Cardinality(held[p]) \in Nat
         /\ \A b : b \notin held[p] => Cardinality(held[p] \cup {b}) = Cardinality(held[p]) + 1
         /\ \A b : b \in held[p] => Cardinality(held[p] \ {b}) = Cardinality(held[p]) - 1
<1>1. IsFiniteSet(Mine(p)) /\ held[p] \in SUBSET Mine(p)
  BY ConstFacts DEF Types
<1>2. IsFiniteSet(held[p])
  BY <1>1, FS_Subset
<1>3. QED BY <1>2, FS_CardinalityType, FS_AddElement, FS_RemoveElement

LEMMA OwnGet ==
  ASSUME Types, Types', NEW p \in Port, Own(p), Get(p)
  PROVE  Own(p)'
<1>1. /\ client' = client /\ msgs' = msgs /\ queue' = queue
      /\ dev[p].at \notin InHand /\ dev'[p].at = "idle" /\ dev'[p].at \notin InHand
  <2>1. dev'[p].at = "idle"
    BY CallFacts DEF Get, AtIn
  <2>2. QED BY <2>1 DEF Get, InHand
<1>2. CASE UNCHANGED <<status, use, held>>
  BY <1>1, <1>2, SameMsgs, OwnFrame
<1>3. ASSUME NEW b \in ToSet(queue[p]), status[b] # "using", status' = [status EXCEPT ![b] = "using"],
             use' = [use EXCEPT ![p] = @ + 1], held' = [held EXCEPT ![p] = @ \cup {b}]
      PROVE  Own(p)'
  <2>1. /\ b \notin held[p] /\ held'[p] = held[p] \cup {b} /\ use'[p] = use[p] + 1
        /\ \A c \in ToSet(queue[p]) : status'[c] = IF c = b THEN "using" ELSE status[c]
    <3>1. ToSet(queue[p]) \subseteq Things
      BY ConstFacts DEF Types
    <3>2. QED BY <1>3, <3>1 DEF Types, Own
  <2>2. dev[p].at \notin Counted /\ dev'[p].at \notin Counted
    BY <1>1 DEF InHand, Counted
  <2>3. use'[p] = Cardinality(held'[p]) + (IF dev'[p].at \in Counted THEN 1 ELSE 0)
    <3>1. use[p] = Cardinality(held[p]) /\ Cardinality(held'[p]) = Cardinality(held[p]) + 1
      <4>1. use[p] = Cardinality(held[p]) + 0 /\ Cardinality(held[p]) \in Nat
        BY <2>2, HeldFacts DEF Own
      <4>2. QED BY <2>1, <4>1, HeldFacts
    <3>2. Cardinality(held[p]) \in Nat
      BY HeldFacts
    <3>3. QED BY <2>1, <2>2, <3>1, <3>2
  <2>4. /\ \A c \in held'[p] : status'[c] = "using" /\ c \in ToSet(queue'[p])
        /\ \A c \in ToSet(queue'[p]) : status'[c] = "using" => c \in held'[p]
    BY <1>1, <2>1 DEF Own
  <2>5. dev'[p].at \notin Apart
    BY <1>1 DEF Apart
  <2>6. QED BY <1>1, <2>3, <2>4, <2>5 DEF Own
<1>4. QED BY <1>2, <1>3, GetFacts

LEMMA OwnGives ==
  ASSUME Types, Types', NEW p \in Port, Own(p), Gives(p)
  PROVE  Own(p)'
<1>1. PICK b \in held[p], at \in {"post", "eof", "uncount"}, keeps \in BOOLEAN :
        Enter(p, b, at, keeps) /\ (keeps <=> at = "uncount")
  BY DEF Gives
<1>2. b \in ToSet(queue[p]) /\ b \in Mine(p) /\ b \in Things /\ ToSet(queue[p]) \subseteq Things
  BY ConstFacts DEF Own, Types
<1>3. /\ client' = client /\ msgs' = msgs /\ use' = use /\ held'[p] = held[p] \ {b}
      /\ \A c \in ToSet(queue[p]) : status'[c] = IF c = b THEN "idle" ELSE status[c]
      /\ status'[b] = "idle"
      /\ dev'[p].at = at /\ dev'[p].buf = b /\ dev[p].at = "idle"
  BY <1>1, <1>2 DEF Enter, Types, Quiet, Devs
<1>4. use'[p] = Cardinality(held'[p]) + (IF dev'[p].at \in Counted THEN 1 ELSE 0)
  <2>1. dev[p].at \notin Counted /\ dev'[p].at \in Counted
    BY <1>3 DEF Counted
  <2>2. use[p] = Cardinality(held[p]) + 0 /\ Cardinality(held[p]) \in Nat
    BY <2>1, HeldFacts DEF Own
  <2>3. Cardinality(held'[p]) = Cardinality(held[p]) - 1
    BY <1>1, <1>3, HeldFacts
  <2>4. QED BY <1>3, <2>1, <2>2, <2>3
<1>5. /\ \A c \in Mine(p) : Single(queue'[p], c)
      /\ \A c : c \in ToSet(queue'[p]) <=> c \in ToSet(queue[p]) /\ (keeps \/ c # b)
  <2>1. CASE keeps
    BY <1>1, <1>2, <2>1 DEF Enter, Own
  <2>2. CASE ~keeps
    <3>1. queue'[p] = RemoveFirst(queue[p], b) /\ queue[p] \in Seq(Things)
      BY <1>1, <1>2, <2>2 DEF Enter, Types
    <3>2. /\ \A c : Single(queue[p], c) => Single(RemoveFirst(queue[p], b), c)
          /\ Single(queue[p], b) => ToSet(RemoveFirst(queue[p], b)) = ToSet(queue[p]) \ {b}
      BY <1>2, <3>1, RemoveFacts
    <3>3. QED BY <1>2, <2>2, <3>1, <3>2 DEF Own
  <2>3. QED BY <2>1, <2>2
<1>6. /\ \A c \in held'[p] : status'[c] = "using" /\ c \in ToSet(queue'[p])
      /\ \A c \in ToSet(queue'[p]) : status'[c] = "using" => c \in held'[p]
  BY <1>3, <1>5 DEF Own
<1>7. dev'[p].at \in Apart => b \notin ToSet(queue'[p]) \cup client' \cup ToSet(msgs')
  <2> SUFFICES ASSUME at # "uncount" PROVE b \notin ToSet(queue'[p]) \cup client \cup ToSet(msgs)
    BY <1>3 DEF Apart
  <2>1. b \notin ToSet(queue'[p])
    BY <1>1, <1>5
  <2>2. CASE b \in Bufs
    <3>1. b \in BufsOf(p)
      BY <1>2, <2>2, ConstFacts
    <3>2. QED BY <1>2, <2>1, <3>1 DEF Own
  <2>3. CASE b \notin Bufs
    <3>1. b \notin Bufs \cup Answer /\ client \subseteq Bufs /\ msgs \in Seq(Bufs \cup Answer)
      BY <1>2, <2>3, ConstFacts DEF Types
    <3>2. ToSet(msgs) \subseteq Bufs \cup Answer
      BY <3>1, SeqFacts
    <3>3. QED BY <2>1, <3>1, <3>2
  <2>4. QED BY <2>2, <2>3
<1>8. \A c \in BufsOf(p) :
        /\ Single(msgs', c)
        /\ c \in client' => c \notin ToSet(queue'[p]) \cup ToSet(msgs')
        /\ c \in ToSet(queue'[p]) => c \notin ToSet(msgs')
  BY <1>3, <1>5 DEF Own
<1>9. QED BY <1>3, <1>4, <1>5, <1>6, <1>7, <1>8 DEF Own

LEMMA OwnGiveBack ==
  ASSUME Types, Types', NEW p \in Port, Own(p), GiveBack(p)
  PROVE  Own(p)'
<1> DEFINE b == dev[p].buf
<1>1. /\ client' = client /\ queue' = queue /\ status' = status /\ use' = use /\ held' = held
      /\ dev[p].at \in {"post", "postlate"} /\ dev[p].at \in Apart /\ dev[p].at \in InHand
      /\ dev'[p].at = (IF dev[p].at = "post" THEN "count" ELSE "end")
      /\ dev'[p].at \in InHand => dev'[p].buf = b
  BY CallFacts DEF GiveBack, InHand, Apart, AtIn
<1>2. dev'[p].at \in Counted <=> dev[p].at \in Counted
  BY <1>1 DEF Counted
<1>3. b \in Mine(p) /\ b \notin ToSet(queue[p]) /\ b \notin client /\ b \notin ToSet(msgs) /\ b \notin held[p]
  BY <1>1 DEF Own, Types
<1>4. \A c \in BufsOf(p) : c # b => Unmoved(c)
  BY <1>1, Posted, SameMsgs DEF GiveBack
<1>5. b \in BufsOf(p) => Single(msgs', b)
  <2> SUFFICES ASSUME b \in BufsOf(p) PROVE Single(msgs', b)
    OBVIOUS
  <2>1. b \in Bufs /\ b # LastFrame
    BY ConstFacts
  <2>2. Post(<<b>>) /\ <<b>> \in Seq(Bufs \cup Answer) /\ Single(<<b>>, b) /\ Single(msgs, b)
    BY <2>1, Posted, ShortSeqs DEF Own
  <2>3. QED BY <1>3, <2>2, PostFacts
<1>6. \A c \in BufsOf(p) :
        /\ Single(msgs', c)
        /\ c \in client' => c \notin ToSet(queue'[p]) \cup ToSet(msgs')
        /\ c \in ToSet(queue'[p]) => c \notin ToSet(msgs')
  BY <1>1, <1>3, <1>4, <1>5 DEF Own, Unmoved
<1>7. dev'[p].at \notin Apart
  BY <1>1 DEF Apart
<1>8. QED BY <1>1, <1>2, <1>3, <1>6, <1>7 DEF Own

LEMMA OwnCountDown ==
  ASSUME Types, Types', NEW p \in Port, Own(p), CountDown(p)
  PROVE  Own(p)'
<1>1. /\ client' = client /\ queue' = queue /\ status' = status /\ msgs' = msgs /\ held' = held
      /\ dev[p].at \in {"count", "uncount"} /\ dev[p].at \in InHand /\ dev[p].at \in Counted
      /\ dev'[p].at = (IF dev[p].at = "count" THEN "end" ELSE "decide")
      /\ dev'[p].at \in InHand => dev'[p].buf = dev[p].buf
      /\ use'[p] = Lower(use[p])
  BY CallFacts DEF CountDown, Types, InHand, Counted, AtIn, AtOut
<1>2. use'[p] = Cardinality(held'[p]) + (IF dev'[p].at \in Counted THEN 1 ELSE 0)
  <2>1. use[p] = Cardinality(held[p]) + 1 /\ Cardinality(held[p]) \in Nat
    BY <1>1, HeldFacts DEF Own
  <2>2. dev'[p].at \notin Counted
    BY <1>1 DEF Counted
  <2>3. QED BY <1>1, <2>1, <2>2 DEF Lower
<1>3. dev'[p].at \notin Apart
  BY <1>1 DEF Apart
<1>4. QED BY <1>1, <1>2, <1>3 DEF Own

LEMMA OwnDecide ==
  ASSUME Types, Types', Own("out"), Decide
  PROVE  Own("out")'
<1> DEFINE b == dev["out"].buf
<1>1. /\ client' = client /\ msgs' = msgs /\ use' = use /\ held' = held /\ "out" \in Port
      /\ dev["out"].at = "decide" /\ dev["out"].at \in InHand /\ dev["out"].at \notin Counted
      /\ b \notin held["out"] /\ b \in Mine("out") /\ b \in BufsOf("out") /\ b \in Things
  BY ConstFacts DEF Decide, InHand, Counted, Own, Types, Port, Mine, BufsOf
<1>2. CASE Wanted /\ b \in ToSet(queue["out"])
  <2>1. b \notin client /\ b \notin ToSet(msgs)
    BY <1>1, <1>2 DEF Own
  <2>2. /\ queue'["out"] = RemoveFirst(queue["out"], b) /\ status' = status /\ queue["out"] \in Seq(Things)
        /\ dev'["out"].at = "postlate" /\ dev'["out"].buf = b /\ dev'["out"].at \notin Counted
    BY <1>1, <1>2, CallFacts DEF Decide, Types, Counted, AtOut, InHand
  <2>3. /\ \A c : Single(queue["out"], c) => Single(queue'["out"], c)
        /\ ToSet(queue'["out"]) = ToSet(queue["out"]) \ {b}
    <3>1. Single(queue["out"], b)
      BY <1>1 DEF Own
    <3>2. QED BY <1>1, <1>2, <2>2, <3>1, RemoveFacts
  <2>4. /\ \A c \in held["out"] : status[c] = "using" /\ c \in ToSet(queue'["out"])
        /\ \A c \in ToSet(queue'["out"]) : status[c] = "using" => c \in held["out"]
    BY <1>1, <2>3 DEF Own
  <2>5. \A c \in BufsOf("out") :
          /\ Single(msgs, c)
          /\ c \in client => c \notin ToSet(queue'["out"]) \cup ToSet(msgs)
          /\ c \in ToSet(queue'["out"]) => c \notin ToSet(msgs)
    BY <2>3 DEF Own
  <2>6. QED BY <1>1, <2>1, <2>2, <2>3, <2>4, <2>5 DEF Own
<1>3. CASE Wanted /\ b \notin ToSet(queue["out"])
  <2>1. RemoveFirst(queue["out"], b) = queue["out"]
    BY <1>1, <1>3, SeqFacts DEF RemoveFirst, Types
  <2>2. queue'["out"] = queue["out"] /\ status' = status
    BY <1>1, <1>3, <2>1 DEF Decide, Types
  <2>3. dev'["out"].at \notin Counted /\ dev'["out"].at \notin InHand /\ dev'["out"].at \notin Apart
    BY <1>1, <1>3, CallFacts DEF Decide, Counted, AtOut, InHand, Apart
  <2>4. QED BY <1>1, <2>2, <2>3 DEF Own
<1>4. CASE ~Wanted
  <2>1. /\ queue' = queue /\ dev'["out"].at \notin Counted /\ dev'["out"].at \notin InHand
        /\ dev'["out"].at \notin Apart
        /\ status'[b] = "queued" /\ \A c \in Things : c # b => status'[c] = status[c]
    BY <1>1, <1>4, CallFacts DEF Decide, Types, Counted, InHand, AtIn, Apart
  <2>2. ToSet(queue["out"]) \subseteq Things /\ held["out"] \subseteq Things
    BY <1>1, ConstFacts DEF Types
  <2>3. /\ \A c \in held["out"] : status'[c] = "using" /\ c \in ToSet(queue["out"])
        /\ \A c \in ToSet(queue["out"]) : status'[c] = "using" => c \in held["out"]
    BY <1>1, <2>1, <2>2 DEF Own
  <2>4. QED BY <1>1, <2>1, <2>3 DEF Own
<1>5. QED BY <1>2, <1>3, <1>4

LEMMA OwnTouch ==
  ASSUME Types, Types', Own("out"), Touch \/ Touched
  PROVE  Own("out")'
<1>1. /\ queue' = queue /\ held' = held /\ use' = use /\ status' = status /\ UNCHANGED <<client, msgs>>
      /\ "out" \in Port
  BY DEF Touch, Touched, Port
<1>2. PICK at \in {"eofset", "touchset", "post", "idle"}, w \in {flags, {}} :
        /\ Reach("out", at, w) /\ (at = "eofset" <=> dev["out"].at = "eof")
        /\ at = "post" <=> dev["out"].at = "eofset"
  BY TouchFacts
<1>3. at \in AtIn \cup AtOut /\ w \in Word
  BY <1>2 DEF AtIn, AtOut, Word, Types
<1>4. dev'["out"].at = at /\ (at \in InHand => dev'["out"].buf = dev["out"].buf)
  BY <1>1, <1>2, <1>3, ReachFacts
<1>5. dev["out"].at \in {"idle", "eof", "eofset", "touchset"}
  BY DEF Touch, Touched
<1>6. \/ dev["out"].at \notin InHand /\ dev'["out"].at \notin InHand
      \/ dev["out"].at \in Apart \cap Counted /\ dev'["out"].at \in Apart \cap Counted /\ dev'["out"].buf = dev["out"].buf
  BY <1>2, <1>4, <1>5 DEF InHand, Apart, Counted
<1>7. QED BY <1>1, <1>6, SameMsgs, OwnFrame

LEMMA OwnDevice ==
  ASSUME Types, Types', NEW p \in Port, Own(p), DevStep(p)
  PROVE  Own(p)'
<1>1. CASE GetCheck(p) \/ End(p) \/ Clear(p) \/ (p = "out" /\ (EndPause \/ ClearPause))
  <2>1. ASSUME NEW at, NEW w, Reach(p, at, w) PROVE dev'[p].at = at
    BY <2>1 DEF Reach, Types, Devs
  <2>2. ASSUME NEW at, Call(p, at) PROVE dev'[p].at = at
    BY <2>1, <2>2 DEF Call
  <2>3. dev[p].at \notin InHand /\ dev'[p].at \notin InHand
    BY <1>1, <2>1, <2>2 DEF GetCheck, End, Clear, EndPause, ClearPause, Quiet, InHand
  <2>4. queue' = queue /\ held' = held /\ use' = use /\ status' = status /\ client' = client
    BY <1>1 DEF GetCheck, End, Clear, EndPause, ClearPause
  <2>5. ASSUME NEW b \in BufsOf(p) PROVE Unmoved(b)
    <3>1. b \in Bufs /\ p \in Answer /\ "paused" \in Answer
      BY <2>5, ConstFacts DEF Answer
    <3>2. msgs' = msgs \/ Post(<<p>>) \/ Post(<<"paused">>)
      BY <1>1 DEF GetCheck, End, Clear, EndPause, ClearPause
    <3>3. QED BY <2>4, <3>1, <3>2, SameMsgs, PostedAnswer
  <2>6. QED BY <2>3, <2>4, <2>5, OwnFrame
<1>2. QED BY <1>1, OwnGet, OwnGives, OwnGiveBack, OwnCountDown, OwnDecide, OwnTouch DEF DevStep

(* The command thread. *)
LEMMA OwnLend ==
  ASSUME Types, Types', NEW p \in Port, Own(p), NEW b \in Bufs, NEW last \in BOOLEAN, Lend(b, last)
  PROVE  Own(p)'
<1>1. /\ client' = client \ {b} /\ b \in client /\ msgs' = msgs /\ use' = use /\ held' = held /\ dev' = dev
      /\ PortOf(b) \in Port /\ b \in BufsOf(PortOf(b)) /\ b \in Mine(PortOf(b)) /\ b # LastFrame
      /\ last => PortOf(b) = "in"
  BY ConstFacts DEF Lend
<1>2. \A c : Unmoved(c)
  BY <1>1 DEF Unmoved
<1>3. \A c \in Things : status'[c] = IF c = b \/ (last /\ c = LastFrame) THEN "queued" ELSE status[c]
  BY LendFacts
<1>4. CASE p # PortOf(b)
  <2>1. queue'[p] = queue[p]
    BY <1>1, <1>4, LendFacts
  <2>2. \A c \in Mine(p) : c \in Things /\ c # b /\ (last => c # LastFrame)
    BY <1>1, <1>4, ConstFacts DEF Port, Mine
  <2>3. \A c \in Mine(p) : status'[c] = status[c]
    BY <1>3, <2>2
  <2>4. QED BY <1>1, <1>2, <2>1, <2>3, OwnFrame
<1>5. CASE p = PortOf(b)
  <2> DEFINE New == {b} \cup (IF last THEN {LastFrame} ELSE {})
  <2>1. \A c : c \in ToSet(queue'[p]) <=> c \in ToSet(queue[p]) \/ c \in New
    <3>1. ToSet(queue'[p]) = ToSet(queue[p]) \cup {b} \cup (IF last THEN {LastFrame} ELSE {})
      BY <1>5, LendFacts, Zenon
    <3>2. QED BY <3>1
  <2>2. \A c \in New : c \notin ToSet(queue[p]) /\ c \notin held[p] /\ status'[c] = "queued" /\ c \in Things
    <3>1. b \notin ToSet(queue[p]) /\ b \notin held[p]
      BY <1>1, <1>5 DEF Own
    <3>2. last => LastFrame \notin ToSet(queue[p]) \cup held[p]
      <4>1. last => LastFrame \notin ToSet(queue["in"]) /\ p = "in"
        BY <1>5 DEF Lend
      <4>2. QED BY <4>1 DEF Own
    <3>3. QED BY <1>3, <3>1, <3>2, ConstFacts DEF Things
  <2>3. dev[p].at \in Apart => dev[p].buf \notin New
    <3>1. dev[p].at \in Apart => dev[p].buf # b
      BY <1>1 DEF Own
    <3>2. last /\ dev[p].at \in Apart => dev[p].buf # LastFrame
      BY <1>1, <1>5 DEF Lend, Apart, Types, AtIn
    <3>3. QED BY <3>1, <3>2
  <2>4. \A c \in Things : c \notin New => status'[c] = status[c]
    BY <1>3
  <2>5. ToSet(queue[p]) \subseteq Things /\ held[p] \subseteq Things
    BY ConstFacts DEF Types
  <2> HIDE DEF New
  <2>6. \A c \in Mine(p) : Single(queue'[p], c)
    <3>1. \A c : c \in ToSet(queue[p]) => c # b /\ ~(last /\ c = LastFrame)
      BY <2>2 DEF New
    <3>2. \A c : Single(queue[p], c) => Single(queue'[p], c)
      BY <1>5, <3>1, LendFacts
    <3>3. QED BY <3>2 DEF Own
  <2>7. /\ \A c \in held[p] : status'[c] = "using" /\ c \in ToSet(queue'[p])
        /\ \A c \in ToSet(queue'[p]) : status'[c] = "using" => c \in held[p]
    BY <2>1, <2>2, <2>4, <2>5 DEF Own
  <2>8. \A c \in BufsOf(p) :
          /\ Single(msgs, c)
          /\ c \in client' => c \notin ToSet(queue'[p]) \cup ToSet(msgs)
          /\ c \in ToSet(queue'[p]) => c \notin ToSet(msgs)
    <3>1. \A c \in BufsOf(p) : c \in New => c = b
      BY ConstFacts DEF New
    <3>2. QED BY <1>1, <1>5, <2>1, <3>1 DEF Own
  <2>9. dev[p].at \in Apart =>
          dev[p].buf \notin ToSet(queue'[p]) \cup client' \cup ToSet(msgs)
    BY <1>1, <2>1, <2>3 DEF Own
  <2>10. QED BY <1>1, <2>6, <2>7, <2>8, <2>9 DEF Own
<1>6. QED BY <1>4, <1>5

LEMMA OwnRefuse ==
  ASSUME Types, Types', NEW p \in Port, Own(p), NEW b \in YuvBufs, Refuse(b)
  PROVE  Own(p)'
<1>1. /\ client' = client \ {b} /\ b \in client /\ queue' = queue /\ use' = use /\ held' = held /\ dev' = dev
      /\ status' = status /\ b \in Bufs /\ Post(<<b>>)
  BY DEF Refuse, Bufs
<1>2. <<b>> \in Seq(Bufs \cup Answer) /\ ToSet(<<b>>) = {b} /\ Single(<<b>>, b)
  BY <1>1, ShortSeqs
<1>3. \A c : c # b => Unmoved(c)
  BY <1>1, <1>2, MsgsOther DEF Unmoved
<1>4. CASE b \notin BufsOf(p)
  <2>1. \A c \in BufsOf(p) : Unmoved(c)
    BY <1>3, <1>4
  <2>2. QED BY <1>1, <2>1, OwnFrame
<1>5. CASE b \in BufsOf(p)
  <2>1. b \notin ToSet(queue[p]) /\ b \notin ToSet(msgs) /\ Single(msgs, b)
    BY <1>1, <1>5 DEF Own
  <2>2. Single(msgs', b)
    BY <1>1, <1>2, <2>1, PostFacts
  <2>3. \A c \in BufsOf(p) :
          /\ Single(msgs', c)
          /\ c \in client' => c \notin ToSet(queue[p]) \cup ToSet(msgs')
          /\ c \in ToSet(queue[p]) => c \notin ToSet(msgs')
    BY <1>1, <1>3, <2>1, <2>2 DEF Own, Unmoved
  <2>4. dev[p].at \in Apart => dev[p].buf \notin ToSet(queue[p]) \cup client' \cup ToSet(msgs')
    BY <1>1, <1>3 DEF Own, Unmoved
  <2>5. QED BY <1>1, <2>3, <2>4 DEF Own
<1>6. QED BY <1>4, <1>5

LEMMA OwnRelease ==
  ASSUME Types, Types', NEW p \in Port, Own(p), ReleaseIdle(p)
  PROVE  Own(p)'
<1> DEFINE Gone == {c \in ToSet(queue[p]) : status[c] # "using"}
<1>1. /\ client' = client /\ use' = use /\ held' = held /\ dev' = dev
      /\ ToSet(queue[p]) \subseteq Things /\ held[p] \subseteq Things /\ ToSet(queue[p]) \subseteq Mine(p)
  BY ConstFacts DEF ReleaseIdle, Types
<1>2. /\ \A e : e \in ToSet(queue'[p]) <=> e \in ToSet(queue[p]) /\ status[e] = "using"
      /\ \A e : Single(queue[p], e) => Single(queue'[p], e)
      /\ \A e \in Things : status'[e] = IF e \in Gone THEN "idle" ELSE status[e]
  BY ReleaseFacts
<1>3. PICK ms \in Seq(Bufs \cup Answer) :
        /\ Post(ms) /\ \A e : Single(queue[p], e) => Single(ms, e)
        /\ \A e : e \in ToSet(ms) <=> e \in Gone /\ e # LastFrame
  BY ReleaseFacts
<1>4. ToSet(msgs') \subseteq ToSet(msgs) \cup ToSet(ms)
  BY <1>3, PostFacts
<1> HIDE DEF Gone
<1>5. Gone \subseteq ToSet(queue[p]) /\ \A c \in Gone : status[c] # "using"
  BY DEF Gone
<1>6. /\ \A c \in Mine(p) : Single(queue'[p], c)
      /\ \A c \in held[p] : status'[c] = "using" /\ c \in ToSet(queue'[p])
      /\ \A c \in ToSet(queue'[p]) : status'[c] = "using" => c \in held[p]
  BY <1>1, <1>2, <1>5 DEF Own
<1>7. \A c \in BufsOf(p) :
        /\ Single(msgs', c)
        /\ c \in client' => c \notin ToSet(queue'[p]) \cup ToSet(msgs')
        /\ c \in ToSet(queue'[p]) => c \notin ToSet(msgs')
  <2> TAKE c \in BufsOf(p)
  <2>1. c \in Mine(p)
    BY ConstFacts
  <2>2. Single(msgs', c)
    <3>1. Single(msgs, c) /\ Single(queue[p], c) /\ (c \in ToSet(queue[p]) => c \notin ToSet(msgs))
      BY <2>1 DEF Own
    <3>2. Single(ms, c) /\ ~(c \in ToSet(msgs) /\ c \in ToSet(ms))
      BY <1>3, <1>5, <3>1
    <3>3. QED BY <1>3, <3>1, <3>2, PostFacts
  <2>3. QED BY <1>1, <1>2, <1>3, <1>4, <1>5, <2>2 DEF Own
<1>8. dev[p].at \in Apart =>
        dev[p].buf \notin ToSet(queue'[p]) \cup client' \cup ToSet(msgs')
  BY <1>1, <1>2, <1>3, <1>4, <1>5 DEF Own
<1>9. QED BY <1>1, <1>6, <1>7, <1>8 DEF Own

LEMMA OwnReleaseOther ==
  ASSUME Types, Types', NEW p \in Port, Own(p), NEW q \in Port, q # p, ReleaseIdle(q)
  PROVE  Own(p)'
<1>1. /\ client' = client /\ use' = use /\ held' = held /\ dev' = dev /\ queue'[p] = queue[p]
      /\ ToSet(queue[q]) \subseteq Mine(q)
  BY ReleaseFacts DEF ReleaseIdle, Types
<1>2. \A b \in Mine(p) : b \in Things /\ b \notin ToSet(queue[q])
  BY <1>1, ConstFacts DEF Port
<1>3. \A b \in Mine(p) : status'[b] = status[b]
  BY <1>2, ReleaseFacts
<1>4. PICK ms \in Seq(Bufs \cup Answer) : Post(ms) /\ \A e : e \in ToSet(ms) => e \in ToSet(queue[q])
  BY ReleaseFacts
<1>5. ASSUME NEW b \in BufsOf(p) PROVE Unmoved(b)
  <2>1. b \notin ToSet(ms)
    BY <1>2, <1>4, ConstFacts
  <2>2. QED BY <1>1, <1>4, <2>1, MsgsOther DEF Unmoved
<1>6. QED BY <1>1, <1>3, <1>5, OwnFrame

LEMMA OwnGetMsg ==
  ASSUME Types, Types', NEW p \in Port, Own(p), GetMsg
  PROVE  Own(p)'
<1>1. /\ queue' = queue /\ held' = held /\ use' = use /\ status' = status /\ dev' = dev
      /\ msgs # <<>> /\ msgs' = Tail(msgs) /\ msgs \in Seq(Bufs \cup Answer)
  BY DEF GetMsg, Types
<1>2. /\ Head(msgs) \in Bufs \cup Answer /\ ToSet(msgs) = {Head(msgs)} \cup ToSet(msgs')
      /\ \A e : Single(msgs, e) => Single(msgs', e)
      /\ Single(msgs, Head(msgs)) => Head(msgs) \notin ToSet(msgs')
  BY <1>1, TailFacts
<1>3. client' = client \/ (Head(msgs) \notin Answer /\ client' = client \cup {Head(msgs)})
  BY DEF GetMsg
<1>4. CASE client' = client \/ Head(msgs) \notin BufsOf(p)
  <2>1. ASSUME NEW b \in BufsOf(p) PROVE Unmoved(b)
    BY <1>2, <1>3, <1>4, <2>1 DEF Unmoved
  <2>2. QED BY <1>1, <2>1, OwnFrame
<1>5. CASE client' = client \cup {Head(msgs)} /\ Head(msgs) \in BufsOf(p)
  <2> DEFINE h == Head(msgs)
  <2>1. h \in ToSet(msgs) /\ h \notin ToSet(queue[p]) /\ h \notin ToSet(msgs')
    BY <1>2, <1>5 DEF Own
  <2>2. dev[p].at \in Apart =>
          dev[p].buf \notin ToSet(queue[p]) \cup client' \cup ToSet(msgs')
    BY <1>2, <1>5, <2>1 DEF Own
  <2>3. \A c \in BufsOf(p) :
          /\ Single(msgs', c)
          /\ c \in client' => c \notin ToSet(queue[p]) \cup ToSet(msgs')
          /\ c \in ToSet(queue[p]) => c \notin ToSet(msgs')
    BY <1>2, <1>5, <2>1 DEF Own
  <2> HIDE DEF h
  <2>4. QED BY <1>1, <2>2, <2>3 DEF Own
<1>6. QED BY <1>3, <1>4, <1>5

(* The rest of the command thread's steps move no buffer. *)
LEMMA OwnCommand ==
  ASSUME Types, Types', NEW p \in Port, Own(p), CmdStep
  PROVE  Own(p)'
<1>1. CASE \E b \in Bufs, last \in BOOLEAN : Lend(b, last)
  BY <1>1, OwnLend
<1>2. CASE \E b \in YuvBufs : Refuse(b)
  BY <1>2, OwnRefuse
<1>3. CASE \E q \in Port : ReleaseIdle(q)
  BY <1>3, OwnRelease, OwnReleaseOther
<1>4. CASE \/ \E q \in Port : Test(q) \/ SetPending(q)
           \/ \E ports \in (SUBSET Port) \ {{}} : Flush(ports)
           \/ PauseDone \/ SetPause \/ ResumeDone \/ Pause \/ Resume \/ CommandTouch \/ CommandTouched
  <2>1. queue' = queue /\ held' = held /\ use' = use /\ status' = status /\ client' = client /\ dev' = dev
    BY <1>4 DEF Test, SetPending, Flush, PauseDone, SetPause, ResumeDone, Pause, Resume,
      CommandTouch, CommandTouched
  <2>2. ASSUME NEW b \in BufsOf(p) PROVE Unmoved(b)
    <3>1. b \in Bufs /\ "paused" \in Answer /\ "resumed" \in Answer /\ \A q \in Port : q \in Answer
      BY <2>2, ConstFacts DEF Answer
    <3>2. msgs' = msgs \/ \E a \in Answer : Post(<<a>>)
      BY <1>4, <3>1 DEF Test, SetPending, Flush, PauseDone, SetPause, ResumeDone, Pause, Resume,
        CommandTouch, CommandTouched
    <3>3. QED BY <2>1, <3>1, <3>2, SameMsgs, PostedAnswer
  <2>3. QED BY <2>1, <2>2, OwnFrame
<1>5. QED BY <1>1, <1>2, <1>3, <1>4 DEF CmdStep

LEMMA StepOwn ==
  ASSUME Types, Types', NEW p \in Port, Own(p), [Next]_vars
  PROVE  Own(p)'
<1>1. CASE \E q \in Port : DevStep(q)
  BY <1>1, OwnDevice, OwnOther
<1>2. CASE UNCHANGED vars
  <2>1. /\ queue' = queue /\ held' = held /\ use' = use /\ status' = status /\ dev' = dev
        /\ UNCHANGED <<client, msgs>>
    BY <1>2 DEF vars
  <2>2. QED BY <2>1, OwnFrame, SameMsgs
<1>3. QED BY <1>1, <1>2, OwnCommand, OwnGetMsg, NextCases

(* Only vpss_release_frame leaves a frame in the queue, only a flush takes *)
(* it out of there meanwhile.                                              *)
LEMMA StepListed ==
  ASSUME Types, Types', Own("out"), Listed, [Next]_vars
  PROVE  Listed'
<1>1. "out" \in Port /\ "in" \in Port
  BY DEF Port
<1>2. mixed => mixed'
  BY StillWrong
<1>3. ASSUME NEW p \in Port, DevStep(p), p = "in" PROVE Listed'
  <2>1. dev'["out"] = dev["out"] /\ queue'["out"] = queue["out"]
    BY <1>1, <1>3, DevOther DEF SameFor
  <2>2. QED BY <1>2, <2>1 DEF Listed
<1>4. CASE DevStep("out")
  <2>1. CASE GetCheck("out") \/ Get("out") \/ GiveBack("out") \/ End("out") \/ Clear("out") \/ EndPause \/ ClearPause
             \/ Touch \/ Touched
    <3>1. ASSUME NEW at, NEW w, Reach("out", at, w) PROVE dev'["out"].at = at
      BY <1>1, <3>1 DEF Reach, Types, Devs
    <3>2. ASSUME NEW at, Call("out", at) PROVE dev'["out"].at = at
      BY <3>1, <3>2 DEF Call
    <3>3. dev'["out"].at \notin {"uncount", "decide", "stuck"}
      BY <2>1, <3>1, <3>2 DEF GetCheck, Get, GiveBack, End, Clear, EndPause, ClearPause, Touch, Touched
    <3>4. QED BY <3>3 DEF Listed
  <2>2. CASE Gives("out")
    <3>1. PICK b \in held["out"], at \in {"post", "eof", "uncount"}, keeps \in BOOLEAN :
            Enter("out", b, at, keeps) /\ (keeps <=> at = "uncount")
      BY <2>2 DEF Gives
    <3>2. b \in ToSet(queue["out"])
      BY <3>1 DEF Own
    <3>3. dev'["out"].at = at /\ dev'["out"].buf = b /\ (at = "uncount" => queue' = queue)
      BY <1>1, <3>1, <3>2 DEF Enter, Types, Devs
    <3>4. QED BY <3>2, <3>3 DEF Listed
  <2>3. CASE CountDown("out")
    <3>1. /\ dev'["out"].at \in {"end", "decide"}
          /\ dev'["out"].at = "decide" => dev["out"].at = "uncount" /\ dev'["out"].buf = dev["out"].buf
          /\ queue' = queue /\ mixed' = mixed
      BY <1>1, <2>3, CallFacts DEF CountDown, AtIn, AtOut, InHand
    <3>2. QED BY <3>1 DEF Listed
  <2>4. CASE Decide
    <3>1. /\ dev["out"].at = "decide" /\ dev'["out"].at \in {"postlate", "idle", "stuck"}
          /\ dev'["out"].at = "stuck" => dev["out"].buf \notin ToSet(queue["out"])
      BY <1>1, <2>4, CallFacts DEF Decide, AtIn, AtOut
    <3>2. QED BY <1>2, <3>1 DEF Listed
  <2>5. QED BY <1>4, <2>1, <2>2, <2>3, <2>4 DEF DevStep
<1>5. CASE CmdStep
  <2>1. dev' = dev
    BY <1>5, CmdAlone
  <2>2. CASE \E b \in Bufs, last \in BOOLEAN : Lend(b, last)
    <3>1. PICK b \in Bufs, last \in BOOLEAN : Lend(b, last)
      BY <2>2
    <3>2. ToSet(queue["out"]) \subseteq ToSet(queue'["out"])
      BY <1>1, <3>1, LendFacts
    <3>3. QED BY <1>2, <2>1, <3>2 DEF Listed
  <2>3. CASE \E p \in Port : ReleaseIdle(p)
    <3>1. PICK p \in Port : ReleaseIdle(p)
      BY <2>3
    <3>2. CASE p = "out"
      <4>1. dev["out"].at \in {"uncount", "decide"} => mixed'
        BY <3>1, <3>2 DEF ReleaseIdle, Meets
      <4>2. QED BY <1>2, <2>1, <4>1 DEF Listed
    <3>3. CASE p = "in"
      <4>1. queue'["out"] = queue["out"]
        BY <1>1, <3>1, <3>3, ReleaseFacts
      <4>2. QED BY <1>2, <2>1, <4>1 DEF Listed
    <3>4. QED BY <3>2, <3>3 DEF Port
  <2>4. CASE ~(\E b \in Bufs, last \in BOOLEAN : Lend(b, last)) /\ ~(\E p \in Port : ReleaseIdle(p))
    <3>1. queue' = queue
      BY <1>5, <2>4 DEF CmdStep, Refuse, Flush, Test, SetPending, CommandTouch, CommandTouched, PauseDone, SetPause,
         ResumeDone, Pause, Resume
    <3>2. QED BY <1>2, <2>1, <3>1 DEF Listed
  <2>5. QED BY <2>2, <2>3, <2>4
<1>6. CASE GetMsg \/ UNCHANGED vars
  BY <1>6 DEF GetMsg, vars, Listed
<1>7. QED BY <1>3, <1>4, <1>5, <1>6, NextCases DEF Port

LEMMA StepAInv == AInv /\ [Next]_vars => AInv'
BY StepTypes, StepOwn, StepListed DEF AInv, Port

LEMMA InitAInv == Init => AInv
<1> SUFFICES ASSUME Init PROVE AInv
  OBVIOUS
<1>1. /\ \A p \in Port : queue[p] = <<>> /\ held[p] = {} /\ dev[p].at = "idle" /\ use[p] = 0
      /\ msgs = <<>> /\ "in" \in Port /\ "out" \in Port
  BY DEF Init, NoCall, Port
<1>2. ToSet(<<>>) = {} /\ (\A e : Single(<<>>, e)) /\ Cardinality({}) = 0
  BY EmptySeq, EmptyFacts, FS_EmptySet
<1>3. ASSUME NEW p \in Port PROVE Own(p)
  <2>1. dev[p].at \notin InHand /\ dev[p].at \notin Counted /\ dev[p].at \notin Apart
    BY <1>1 DEF InHand, Counted, Apart
  <2>2. use[p] = Cardinality(held[p]) + (IF dev[p].at \in Counted THEN 1 ELSE 0)
    <3>1. held[p] = {} /\ use[p] = 0
      BY <1>1
    <3>2. Cardinality(held[p]) = 0
      BY <1>2, <3>1
    <3>3. QED BY <2>1, <3>1, <3>2
  <2>3. QED BY <1>1, <1>2, <2>1, <2>2 DEF Own
<1>4. Listed
  BY <1>1 DEF Listed
<1>5. QED BY <1>1, <1>3, <1>4, InitTypes DEF AInv

LEMMA AlwaysAInv == Spec => []AInv
BY InitAInv, StepAInv, PTL DEF Spec

(* What the decoder holds is marked as in use and in its queue: a flush    *)
(* gives no stream buffer away that the decoder works on, however the      *)
(* threads overlap (channel_get_stream, channel_release_idle_buffers).     *)
THEOREM NotTakenWhileInUse == Spec => []HeldInUse
<1>1. AInv => HeldInUse
  BY DEF AInv, Own, HeldInUse, Port
<1>2. QED BY <1>1, AlwaysAInv, PTL

(* Every variable stays in its set, the use counts within the number of    *)
(* the buffers: as many buffers are counted as are held, and the one that  *)
(* is still counted although the device has let go of it is none of those. *)
THEOREM TypeCorrect == Spec => []TypeOK
<1>1. ASSUME AInv PROVE TypeOK
  <2>1. Types
    BY <1>1 DEF AInv
  <2>2. ASSUME NEW p \in Port PROVE use[p] \in 0..(Cardinality(BufsOf(p)) + 1)
    <3>1. Own(p)
      BY <1>1 DEF AInv, Port
    <3>2. PICK B \in SUBSET Mine(p) : IsFiniteSet(B) /\ use[p] = Cardinality(B)
      <4>1. CASE dev[p].at \in Counted
        <5>1. dev[p].buf \in Mine(p) /\ dev[p].buf \notin held[p] /\ held[p] \subseteq Mine(p)
          BY <2>1, <3>1, <4>1 DEF Counted, InHand, Own, Types
        <5>2. use[p] = Cardinality(held[p]) + 1 /\ IsFiniteSet(held[p])
          BY <2>1, <3>1, <4>1, HeldFacts DEF Own
        <5>3. IsFiniteSet(held[p] \cup {dev[p].buf}) /\ use[p] = Cardinality(held[p] \cup {dev[p].buf})
          BY <5>1, <5>2, FS_AddElement
        <5>4. QED BY <5>1, <5>3
      <4>2. CASE dev[p].at \notin Counted
        <5>1. use[p] = Cardinality(held[p]) + 0 /\ Cardinality(held[p]) \in Nat /\ IsFiniteSet(held[p])
          BY <2>1, <3>1, <4>2, HeldFacts DEF Own
        <5>2. held[p] \in SUBSET Mine(p) /\ use[p] = Cardinality(held[p])
          BY <2>1, <5>1 DEF Types
        <5>3. QED BY <5>1, <5>2
      <4>3. QED BY <4>1, <4>2
    <3>3. Cardinality(B) \in Nat /\ Cardinality(B) <= Cardinality(Mine(p)) /\ Cardinality(Mine(p)) \in Nat
      BY <3>2, ConstFacts, FS_Subset, FS_CardinalityType
    <3>4. Cardinality(Mine(p)) <= Cardinality(BufsOf(p)) + 1 /\ Cardinality(BufsOf(p)) \in Nat
      BY ConstFacts
    <3>5. QED BY <3>2, <3>3, <3>4
  <2>3. \A p \in Port : Mine(p) \subseteq BufsOf(p) \cup {LastFrame}
    BY DEF Mine, BufsOf
  <2>4. ToSet(msgs) \subseteq Bufs \cup Answer
    BY <2>1, SeqFacts DEF Types
  <2>5. QED BY <2>1, <2>2, <2>3, <2>4 DEF TypeOK, Types, Devs, Cmds, Things
<1>2. QED BY <1>1, AlwaysAInv, PTL

-----------------------------------------------------------------------------
(* The pending flags and the answers. *)

LEMMA StepPorts ==
  ASSUME Types, Ports, [Next]_vars
  PROVE  Ports'
<1>1. CASE CmdStep
  <2>1. cmd \in Cmds
    BY DEF Types
  <2>2. CASE (\E b \in Bufs, last \in BOOLEAN : Lend(b, last)) \/ \E b \in YuvBufs : Refuse(b)
    <3>1. Command("touch") \/ Command("idle") \/ cmd' = cmd
      BY <2>2 DEF Lend, Refuse
    <3>2. cmd'.at \in {"touch", "idle"} \/ cmd' = cmd
      BY <3>1 DEF Command, Order
    <3>3. QED BY <3>2 DEF Ports
  <2>3. CASE \E ports \in (SUBSET Port) \ {{}} : Flush(ports)
    <3>1. PICK ports \in (SUBSET Port) \ {{}} : Flush(ports)
      BY <2>3
    <3>2. "out" \notin ports => "in" \in ports
      <4>1. \E x : x \in ports
        BY <3>1
      <4>2. QED BY <3>1, <4>1 DEF Port
    <3>3. cmd'.at = (IF "out" \in ports THEN "freeout" ELSE "freein") /\ cmd'.ports = ports
      BY <3>1 DEF Flush, Order
    <3>4. QED BY <3>2, <3>3 DEF Ports
  <2>4. CASE Pause \/ Resume \/ PauseDone \/ SetPause \/ ResumeDone \/ CommandTouch \/ CommandTouched
    BY <2>4 DEF Pause, Resume, PauseDone, SetPause, ResumeDone, CommandTouch, CommandTouched, Command, Order, Ports
  <2>5. CASE \E p \in Port : ReleaseIdle(p)
    BY <2>1, <2>5 DEF ReleaseIdle, Command, Order, Cmds, Ports, Port
  <2>6. CASE \E p \in Port : Test(p)
    BY <2>1, <2>6 DEF Test, Then, After, Command, Order, Cmds, Ports, Port
  <2>7. CASE \E p \in Port : SetPending(p)
    BY <2>1, <2>7 DEF SetPending, Then, After, Command, Order, Cmds, Ports, Port
  <2>8. QED BY <1>1, <2>2, <2>3, <2>4, <2>5, <2>6, <2>7 DEF CmdStep
<1>2. CASE \E p \in Port : DevStep(p)
  BY <1>2, DevOther DEF Ports
<1>3. CASE GetMsg \/ UNCHANGED vars
  BY <1>3 DEF GetMsg, vars, Ports
<1>4. QED BY <1>1, <1>2, <1>3, NextCases

(* A device clears its own flag, and a write that is not torn leaves the   *)
(* others as they are.                                                     *)
LEMMA DevFlags ==
  ASSUME Types, NEW p \in Port, DevStep(p), ~torn'
  PROVE  /\ Clear(p) => flags' = flags \ {p}
         /\ p = "out" /\ ClearPause => flags' = flags \ {"paused"}
         /\ ~Clear(p) /\ ~(p = "out" /\ ClearPause) => flags' = flags
<1>1. dev[p].word \in Word /\ {} \in Word /\ {p} \in Word /\ {"paused"} \in Word
  BY WordFacts
<1>2. CASE Clear(p)
  <2>1. Write(dev[p].word, {p}, {}) /\ ~(p = "out" /\ ClearPause)
    BY <1>2 DEF Clear, ClearPause
  <2>2. flags' = (flags \ {p}) \cup {}
    BY <1>1, <2>1, WriteDone
  <2>3. QED BY <1>2, <2>1, <2>2
<1>3. CASE p = "out" /\ ClearPause
  <2>1. Write(dev[p].word, {"paused"}, {}) /\ ~Clear(p)
    BY <1>3 DEF Clear, ClearPause
  <2>2. flags' = (flags \ {"paused"}) \cup {}
    BY <1>1, <2>1, WriteDone
  <2>3. QED BY <1>3, <2>1, <2>2
<1>4. CASE p = "out" /\ Touched
  <2>1. Write(dev[p].word, {}, {}) /\ ~Clear(p) /\ ~ClearPause
    BY <1>4 DEF Touched, Clear, ClearPause
  <2>2. flags' = (flags \ {}) \cup {}
    BY <1>1, <2>1, WriteDone
  <2>3. QED BY <2>1, <2>2
<1>5. CASE ~Clear(p) /\ ~(p = "out" /\ (ClearPause \/ Touched))
  BY <1>5 DEF DevStep, GetCheck, Get, Gives, Enter, GiveBack, CountDown, End, Decide, EndPause, Touch
<1>6. QED BY <1>2, <1>3, <1>4, <1>5

(* A device takes on no debt.                                              *)
LEMMA DevFlagOwes ==
  ASSUME Types, ~torn', NEW p \in Port, DevStep(p), NEW a \in Answer, FlagOwes(a)'
  PROVE  FlagOwes(a)
<1>1. a \in flags /\ a \in flags'
  BY DevFlags DEF FlagOwes
<1>2. CASE a = "paused"
  <2>1. ASSUME dev["out"].at = "clearpause" PROVE FALSE
    <3>1. dev'["out"].at # "clearpause"
      BY <1>2 DEF FlagOwes
    <3>2. p = "out"
      <4>1. "out" \in Port
        BY DEF Port
      <4>2. QED BY <2>1, <3>1, <4>1, DevOther DEF SameFor
    <3>3. ClearPause
      BY <2>1, <3>2 DEF DevStep, GetCheck, Get, Gives, Enter, Quiet, GiveBack, CountDown, End, Clear, Decide, EndPause,
         Touch, Touched
    <3>4. QED BY <1>1, <1>2, <3>2, <3>3, DevFlags
  <2>2. QED BY <1>1, <1>2, <2>1 DEF FlagOwes
<1>3. CASE a # "paused"
  <2>1. a \in Port /\ dev'[a].at # "clear"
    BY <1>3 DEF FlagOwes
  <2>2. ASSUME dev[a].at = "clear" PROVE FALSE
    <3>1. p = a
      BY <2>1, <2>2, DevOther DEF SameFor
    <3>2. Clear(a)
      BY <2>2, <3>1 DEF DevStep, GetCheck, Get, Gives, Enter, Quiet, GiveBack, CountDown, End, Decide, EndPause,
         ClearPause, Touch, Touched
    <3>3. QED BY <1>1, <3>1, <3>2, DevFlags
  <2>3. QED BY <1>1, <1>3, <2>1, <2>2 DEF FlagOwes
<1>4. QED BY <1>2, <1>3

(* No message about a is posted, or lost.                                  *)
Silent(a) == (a \in ToSet(msgs') => a \in ToSet(msgs)) /\ (Single(msgs, a) => Single(msgs', a))

(* What may happen to answer a: nothing; it is asked for; it is posted by  *)
(* the one who owes it; it is left to the flag; the client reads it.       *)
LEMMA OwedStep ==
  ASSUME Types, NEW a \in Answer, Owed(a),
         \/ /\ CmdOwes(a)' => CmdOwes(a)
            /\ FlagOwes(a)' => FlagOwes(a)
            /\ (a \in asked => a \in asked') /\ Silent(a)
         \/ a \notin asked /\ a \in asked' /\ (FlagOwes(a)' => FlagOwes(a)) /\ Silent(a)
         \/ /\ CmdOwes(a) \/ FlagOwes(a)
            /\ ~CmdOwes(a)' /\ ~FlagOwes(a)'
            /\ asked' = asked /\ Post(<<a>>)
         \/ CmdOwes(a) /\ ~CmdOwes(a)' /\ asked' = asked /\ Silent(a)
         \/ /\ a \in ToSet(msgs) /\ a \notin ToSet(msgs') /\ Single(msgs', a)
            /\ CmdOwes(a)' => CmdOwes(a)
            /\ FlagOwes(a)' => FlagOwes(a)
  PROVE  Owed(a)'
<1>1. CASE /\ CmdOwes(a) \/ FlagOwes(a)
           /\ ~CmdOwes(a)' /\ ~FlagOwes(a)'
           /\ asked' = asked /\ Post(<<a>>)
  <2>1. a \notin ToSet(msgs) /\ a \in asked /\ Single(msgs, a)
    BY <1>1 DEF Owed
  <2>2. <<a>> \in Seq(Bufs \cup Answer) /\ Single(<<a>>, a)
    BY ShortSeqs
  <2>3. Single(msgs', a)
    BY <1>1, <2>1, <2>2, PostFacts
  <2>4. QED BY <1>1, <2>1, <2>3 DEF Owed
<1>2. CASE ~(/\ CmdOwes(a) \/ FlagOwes(a)
             /\ ~CmdOwes(a)' /\ ~FlagOwes(a)'
             /\ asked' = asked /\ Post(<<a>>))
  <2> DEFINE C == CmdOwes(a)
             F == FlagOwes(a)
             M == a \in ToSet(msgs)
  <2>1. /\ C \/ F \/ M => a \in asked
        /\ ~(C /\ F) /\ (M => ~C /\ ~F) /\ Single(msgs, a)
    BY DEF Owed
  <2>2. /\ C' \/ F' \/ M' => a \in asked'
        /\ ~(C' /\ F') /\ (M' => ~C' /\ ~F') /\ Single(msgs', a)
    <3>1. \/ (C' => C) /\ (F' => F) /\ (a \in asked => a \in asked') /\ Silent(a)
          \/ a \notin asked /\ a \in asked' /\ (F' => F) /\ Silent(a)
          \/ C /\ ~C' /\ asked' = asked /\ Silent(a)
          \/ M /\ ~M' /\ Single(msgs', a) /\ (C' => C) /\ (F' => F)
      BY <1>2
    <3>2. Silent(a) => (M' => M) /\ Single(msgs', a)
      BY <2>1 DEF Silent
    <3> HIDE DEF C, F, M
    <3>3. QED BY <2>1, <3>1, <3>2, Zenon
  <2>3. QED BY <2>2 DEF Owed
<1>3. QED BY <1>1, <1>2

LEMMA SilentFor ==
  ASSUME Types, NEW a \in Answer
  PROVE  /\ msgs' = msgs => Silent(a)
         /\ \A ms \in Seq(Bufs \cup Answer) : Post(ms) /\ a \notin ToSet(ms) => Silent(a)
         /\ \A d \in Answer : Post(<<d>>) /\ d # a => Silent(a)
<1>1. \A ms \in Seq(Bufs \cup Answer) : Post(ms) /\ a \notin ToSet(ms) => Silent(a)
  BY MsgsOther DEF Silent
<1>2. \A d \in Answer : Post(<<d>>) /\ d # a => Silent(a)
  BY <1>1, ShortSeqs
<1>3. QED BY <1>1, <1>2 DEF Silent

(* Who posts an answer. *)
LEMMA DevSpeaks ==
  ASSUME Types, NEW p \in Port, DevStep(p), NEW a \in Answer, ~Silent(a)
  PROVE  (a = p /\ End(p) /\ Answers(p, p)) \/ (a = "paused" /\ p = "out" /\ EndPause /\ "paused" \in flags)
<1>1. msgs' # msgs
  BY SilentFor
<1>2. ASSUME GiveBack(p) PROVE FALSE
  <2>1. dev[p].buf # LastFrame
    BY <1>1, <1>2 DEF GiveBack
  <2>2. a # dev[p].buf
    <3>1. dev[p].buf \in Bufs
      BY <1>2, <2>1, Posted, ConstFacts
    <3>2. QED BY <3>1, ConstFacts
  <2>3. Unmoved(a)
    BY <1>2, <2>1, <2>2, Posted
  <2>4. QED BY <2>3 DEF Unmoved, Silent
<1>3. (End(p) /\ Answers(p, p)) \/ (p = "out" /\ EndPause /\ "paused" \in flags)
  BY <1>1, <1>2 DEF DevStep, GetCheck, Get, Gives, Enter, CountDown, End, Clear, Decide, EndPause, ClearPause,
     Touch, Touched
<1>4. End(p) /\ Answers(p, p) => Post(<<p>>) /\ p \in Answer
  BY DEF End, Answer
<1>5. EndPause /\ "paused" \in flags => Post(<<"paused">>) /\ "paused" \in Answer
  BY DEF EndPause, Answer
<1>6. QED BY <1>3, <1>4, <1>5, SilentFor

LEMMA DevOwed ==
  ASSUME Types, ~torn', NEW p \in Port, DevStep(p), NEW a \in Answer, Owed(a)
  PROVE  Owed(a)'
<1>1. cmd' = cmd /\ asked' = asked
  BY DevOther
<1>2. CmdOwes(a)' => CmdOwes(a)
  BY <1>1 DEF CmdOwes
<1>3. FlagOwes(a)' => FlagOwes(a)
  BY DevFlagOwes
<1>4. CASE Silent(a)
  BY <1>1, <1>2, <1>3, <1>4, OwedStep
<1>5. ASSUME ~Silent(a) PROVE FlagOwes(a) /\ ~FlagOwes(a)' /\ Post(<<a>>)
  <2>1. (a = p /\ End(p) /\ Answers(p, p)) \/ (p = "out" /\ EndPause /\ "paused" \in flags)
    BY <1>5, DevSpeaks
  <2>2. CASE End(p) /\ Answers(p, p)
    <3>1. Post(<<p>>) /\ p \in Answer /\ p \in flags /\ dev[p].at = "end" /\ p # "paused"
          /\ Reach(p, "clear", flags)
      BY <2>2 DEF End, Answers, Answer, Port
    <3>2. a = p
      BY <1>5, <3>1, SilentFor
    <3>3. dev'[p].at = "clear"
      BY <3>1 DEF Reach, Types, Devs
    <3>4. QED BY <3>1, <3>2, <3>3 DEF FlagOwes
  <2>3. CASE p = "out" /\ EndPause /\ "paused" \in flags
    <3>1. Post(<<"paused">>) /\ "paused" \in Answer /\ dev["out"].at = "endpause"
          /\ Reach("out", "clearpause", flags)
      BY <2>3 DEF EndPause, Answer
    <3>2. a = "paused"
      BY <1>5, <3>1, SilentFor
    <3>3. dev'["out"].at = "clearpause"
      BY <2>3, <3>1 DEF Reach, Types, Devs
    <3>4. QED BY <2>3, <3>1, <3>2, <3>3 DEF FlagOwes
  <2>4. QED BY <2>1, <2>2, <2>3
<1>6. QED BY <1>1, <1>2, <1>4, <1>5, OwedStep DEF Owed

LEMMA CmdOwesFacts ==
  /\ CmdOwes("in") <=> cmd.at \in {"freeout", "freein", "testin", "setin"} /\ "in" \in cmd.ports
  /\ CmdOwes("out") <=> /\ cmd.at \in {"freeout", "freein", "testin", "setin", "testout", "setout"}
                        /\ "out" \in cmd.ports
  /\ CmdOwes("paused") <=> cmd.at \in {"postpause", "setpause"}
  /\ CmdOwes("resumed") <=> cmd.at = "resume"
  /\ CmdOwes("in")' <=> cmd'.at \in {"freeout", "freein", "testin", "setin"} /\ "in" \in cmd'.ports
  /\ CmdOwes("out")' <=> /\ cmd'.at \in {"freeout", "freein", "testin", "setin", "testout", "setout"}
                         /\ "out" \in cmd'.ports
  /\ CmdOwes("paused")' <=> cmd'.at \in {"postpause", "setpause"}
  /\ CmdOwes("resumed")' <=> cmd'.at = "resume"
  /\ Answer = {"in", "out", "paused", "resumed"}
BY DEF CmdOwes, Answer, Port

LEMMA ThenPlaces ==
  ASSUME NEW p \in Port, Then(p)
  PROVE  \/ cmd'.at \in {"idle", "reset", "touch"}
         \/ p = "in" /\ "out" \in cmd.ports /\ cmd'.at = "testout" /\ cmd'.ports = cmd.ports
<1>1. PICK at \in After(p) : Command(at)
  BY DEF Then
<1>2. cmd'.at = at /\ (at = "testout" => cmd'.ports = cmd.ports)
  BY <1>1 DEF Command, Order
<1>3. CASE p = "in"
  <2>1. at = IF "out" \in cmd.ports THEN "testout" ELSE "idle"
    BY <1>1, <1>3 DEF After
  <2>2. QED BY <1>2, <1>3, <2>1
<1>4. CASE p = "out"
  <2>1. at \in {"reset", "touch"}
    BY <1>1, <1>4 DEF After
  <2>2. QED BY <1>2, <2>1
<1>5. QED BY <1>3, <1>4 DEF Port

(* The command thread's debts, call by call.                               *)
LEMMA CmdDebts ==
  ASSUME Types, Ports, NEW a \in Answer
  PROVE  /\ \A ports \in (SUBSET Port) \ {{}} : Flush(ports) /\ a \notin ports => (CmdOwes(a)' => CmdOwes(a))
         /\ \A p \in Port : ReleaseIdle(p) \/ Test(p) \/ SetPending(p) => (CmdOwes(a)' => CmdOwes(a))
         /\ \A p \in Port : (Test(p) /\ ~Busy(p)) \/ SetPending(p) => CmdOwes(p) /\ ~CmdOwes(p)'
         /\ PauseDone \/ SetPause => CmdOwes("paused") /\ ~CmdOwes("paused")'
         /\ ResumeDone => CmdOwes("resumed") /\ ~CmdOwes("resumed")'
         /\ PauseDone \/ SetPause \/ ResumeDone \/ CommandTouch \/ CommandTouched => ~CmdOwes(a)'
         /\ (\E b \in Bufs, last \in BOOLEAN : Lend(b, last)) => ~CmdOwes(a)'
         /\ Pause /\ a # "paused" => ~CmdOwes(a)'
         /\ Resume /\ a # "resumed" => ~CmdOwes(a)'
<1>1. cmd \in Cmds /\ a \in {"in", "out", "paused", "resumed"} /\ \A p \in Port : p = "in" \/ p = "out"
  BY CmdOwesFacts DEF Types, Port
<1>2. ASSUME NEW at, Command(at)
      PROVE  cmd'.at = at /\ (at \in {"freein", "testin", "testout"} => cmd'.ports = cmd.ports)
  BY <1>1, <1>2 DEF Command, Order
<1>3. ASSUME NEW ports \in (SUBSET Port) \ {{}}, Flush(ports), a \notin ports PROVE CmdOwes(a)' => CmdOwes(a)
  <2>1. cmd'.at \in {"freeout", "freein"} /\ cmd'.ports = ports
    BY <1>3 DEF Flush, Order
  <2>2. QED BY <1>1, <1>3, <2>1, CmdOwesFacts
<1>4. ASSUME NEW p \in Port, ReleaseIdle(p) PROVE CmdOwes(a)' => CmdOwes(a)
  <2>1. cmd'.ports = cmd.ports /\ cmd.at \in {"freeout", "freein"}
        /\ cmd'.at \in {"freein", "testin", "testout"}
    BY <1>2, <1>4 DEF ReleaseIdle
  <2>2. QED BY <1>1, <2>1, CmdOwesFacts
<1>5. ASSUME NEW p \in Port, Test(p), Busy(p) PROVE CmdOwes(a)' => CmdOwes(a)
  <2>1. cmd.at = (IF p = "in" THEN "testin" ELSE "testout") /\ cmd'.at = (IF p = "in" THEN "setin" ELSE "setout")
        /\ cmd'.ports = cmd.ports
    BY <1>1, <1>5 DEF Test, Order
  <2>2. QED BY <1>1, <2>1, CmdOwesFacts
<1>6. ASSUME NEW p \in Port, (Test(p) /\ ~Busy(p)) \/ SetPending(p)
      PROVE  (CmdOwes(a)' => CmdOwes(a)) /\ CmdOwes(p) /\ ~CmdOwes(p)'
  <2>1. cmd.at \in (IF p = "in" THEN {"testin", "setin"} ELSE {"testout", "setout"}) /\ Then(p)
    BY <1>6 DEF Test, SetPending
  <2>2. /\ p \in cmd.ports
        /\ \/ cmd'.at \in {"idle", "reset", "touch"}
           \/ p = "in" /\ "out" \in cmd.ports /\ cmd'.at = "testout" /\ cmd'.ports = cmd.ports
    BY <1>1, <2>1, ThenPlaces DEF Ports
  <2>3. CASE p = "in"
    BY <1>1, <2>1, <2>2, <2>3, CmdOwesFacts
  <2>4. CASE p = "out"
    BY <1>1, <2>1, <2>2, <2>4, CmdOwesFacts
  <2>5. QED BY <1>1, <2>3, <2>4
<1>7. ASSUME \/ PauseDone \/ SetPause \/ ResumeDone \/ CommandTouch \/ CommandTouched
             \/ \E b \in Bufs, last \in BOOLEAN : Lend(b, last)
      PROVE  ~CmdOwes(a)' /\ cmd'.at \in {"idle", "resetset", "touch", "touchset"}
  <2>1. cmd'.at \in {"idle", "resetset", "touch", "touchset"}
    <3>1. CASE \E b \in Bufs, last \in BOOLEAN : Lend(b, last)
      <4>1. Command("touch") \/ Command("idle")
        BY <3>1 DEF Lend
      <4>2. QED BY <1>2, <4>1
    <3>2. CASE PauseDone \/ SetPause \/ ResumeDone \/ CommandTouched
      <4>1. Command("touch") \/ Command("idle")
        BY <3>2 DEF PauseDone, SetPause, ResumeDone, CommandTouched
      <4>2. QED BY <1>2, <4>1
    <3>3. CASE CommandTouch
      BY <3>3 DEF CommandTouch, Order
    <3>4. QED BY <1>7, <3>1, <3>2, <3>3
  <2>2. QED BY <1>1, <2>1, CmdOwesFacts
<1>8. /\ PauseDone \/ SetPause => CmdOwes("paused") /\ ~CmdOwes("paused")'
      /\ ResumeDone => CmdOwes("resumed") /\ ~CmdOwes("resumed")'
  BY <1>7, CmdOwesFacts DEF PauseDone, SetPause, ResumeDone
<1>9. /\ Pause /\ a # "paused" => ~CmdOwes(a)'
      /\ Resume /\ a # "resumed" => ~CmdOwes(a)'
  BY <1>1, <1>2, CmdOwesFacts DEF Pause, Resume, Order
<1>10. QED BY <1>3, <1>4, <1>5, <1>6, <1>7, <1>8, <1>9

LEMMA CmdFlagOwes ==
  ASSUME Types, CmdStep, ~torn', NEW a \in Answer, FlagOwes(a)', ~FlagOwes(a)
  PROVE  (a \in Port /\ SetPending(a)) \/ (a = "paused" /\ SetPause)
<1>1. dev' = dev
  BY CmdAlone
<1>2. a \in flags' /\ a \notin flags
  BY <1>1 DEF FlagOwes
<1>3. SetPause \/ ResumeDone \/ CommandTouched \/ \E p \in Port : SetPending(p)
  BY <1>2 DEF CmdStep, Lend, Refuse, Flush, ReleaseIdle, Test, PauseDone, Pause, Resume, CommandTouch
<1>4. CASE SetPause
  <2>1. Write(cmd.word, {"paused"}, {"paused"})
    BY <1>4 DEF SetPause
  <2>2. flags' = (flags \ {"paused"}) \cup {"paused"}
    BY <2>1, WordFacts, WriteDone
  <2>3. QED BY <1>2, <1>4, <2>2
<1>5. CASE ResumeDone \/ CommandTouched
  <2>1. Write(cmd.word, {"paused"}, {}) \/ Write(cmd.word, {}, {}) \/ flags' = flags
    BY <1>5 DEF ResumeDone, CommandTouched
  <2>2. flags' = flags \/ flags' = (flags \ {"paused"}) \cup {} \/ flags' = (flags \ {}) \cup {}
    BY <2>1, WordFacts, WriteDone
  <2>3. QED BY <1>2, <2>2
<1>6. CASE \E p \in Port : SetPending(p)
  <2>1. PICK p \in Port : SetPending(p)
    BY <1>6
  <2>2. Write(cmd.word, {p}, {p})
    BY <2>1 DEF SetPending
  <2>3. flags' = (flags \ {p}) \cup {p}
    BY <2>2, WordFacts, WriteDone
  <2>4. QED BY <1>2, <2>1, <2>3
<1>7. QED BY <1>3, <1>4, <1>5, <1>6

LEMMA CmdOwed ==
  ASSUME Types, ~torn', Ports, CmdStep, NEW a \in Answer, Owed(a)
  PROVE  Owed(a)'
<1>1. "paused" \in Answer /\ "resumed" \in Answer /\ \A p \in Port : p \in Answer
      /\ p # "paused" /\ p # "resumed"
  BY DEF Answer, Port
<1>2. CASE (\E b \in Bufs, last \in BOOLEAN : Lend(b, last)) \/ \E p \in Port : ReleaseIdle(p)
  <2>1. asked' = asked /\ (CmdOwes(a)' => CmdOwes(a))
    <3>1. CASE \E b \in Bufs, last \in BOOLEAN : Lend(b, last)
      BY <3>1, CmdDebts DEF Lend
    <3>2. CASE \E p \in Port : ReleaseIdle(p)
      BY <3>2, CmdDebts DEF ReleaseIdle
    <3>3. QED BY <1>2, <3>1, <3>2
  <2>2. FlagOwes(a)' => FlagOwes(a)
    <3>1. flags' = flags /\ dev' = dev
      BY <1>2 DEF Lend, ReleaseIdle
    <3>2. QED BY <3>1 DEF FlagOwes
  <2>3. Silent(a)
    <3>1. CASE \E b \in Bufs, last \in BOOLEAN : Lend(b, last)
      BY <3>1, SilentFor DEF Lend
    <3>2. ASSUME NEW p \in Port, ReleaseIdle(p) PROVE Silent(a)
      <4>1. PICK ms \in Seq(Bufs \cup Answer) : Post(ms) /\ \A e : e \in ToSet(ms) => e \in ToSet(queue[p])
        BY <3>2, ReleaseFacts
      <4>2. ToSet(queue[p]) \subseteq Things
        BY SeqFacts DEF Types
      <4>3. a \notin ToSet(ms)
        BY <4>1, <4>2, ConstFacts
      <4>4. QED BY <4>1, <4>3, SilentFor
    <3>3. QED BY <1>2, <3>1, <3>2
  <2>4. QED BY <2>1, <2>2, <2>3, OwedStep
<1>3. CASE \E b \in YuvBufs : Refuse(b)
  <2>1. PICK b \in YuvBufs : Refuse(b)
    BY <1>3
  <2>2. cmd' = cmd /\ flags' = flags /\ dev' = dev /\ asked' = asked /\ Post(<<b>>) /\ b \in Bufs
    BY <2>1 DEF Refuse, Bufs
  <2>3. (CmdOwes(a)' => CmdOwes(a)) /\ (FlagOwes(a)' => FlagOwes(a))
    BY <2>2 DEF CmdOwes, FlagOwes
  <2>4. Silent(a)
    <3>1. <<b>> \in Seq(Bufs \cup Answer) /\ a \notin ToSet(<<b>>)
      BY <2>2, ShortSeqs, ConstFacts
    <3>2. QED BY <2>2, <3>1, SilentFor
  <2>5. QED BY <2>2, <2>3, <2>4, OwedStep
<1>4. CASE CommandTouch \/ CommandTouched
  <2>1. asked' = asked /\ msgs' = msgs /\ ~CmdOwes(a)'
    BY <1>4, CmdDebts DEF CommandTouch, CommandTouched
  <2>2. FlagOwes(a)' => FlagOwes(a)
    <3>1. ~SetPause /\ \A p \in Port : ~SetPending(p)
      BY <1>4 DEF CommandTouch, CommandTouched, SetPause, SetPending
    <3>2. QED BY <3>1, CmdFlagOwes
  <2>3. QED BY <2>1, <2>2, SilentFor, OwedStep
<1>5. CASE (\E ports \in (SUBSET Port) \ {{}} : Flush(ports)) \/ Pause \/ Resume
  <2>1. flags' = flags /\ dev' = dev /\ msgs' = msgs /\ (a \in asked => a \in asked')
    BY <1>5 DEF Flush, Pause, Resume
  <2>2. (FlagOwes(a)' => FlagOwes(a)) /\ Silent(a)
    BY <2>1, SilentFor DEF FlagOwes
  <2>3. (CmdOwes(a)' => CmdOwes(a)) \/ (a \notin asked /\ a \in asked')
    <3>1. ASSUME NEW ports \in (SUBSET Port) \ {{}}, Flush(ports)
          PROVE  (CmdOwes(a)' => CmdOwes(a)) \/ (a \notin asked /\ a \in asked')
      <4>1. CASE a \in ports
        BY <3>1, <4>1 DEF Flush
      <4>2. CASE a \notin ports
        BY <3>1, <4>2, CmdDebts
      <4>3. QED BY <4>1, <4>2
    <3>2. Pause => (CmdOwes(a)' => CmdOwes(a)) \/ (a \notin asked /\ a \in asked')
      BY CmdDebts DEF Pause
    <3>3. Resume => (CmdOwes(a)' => CmdOwes(a)) \/ (a \notin asked /\ a \in asked')
      BY CmdDebts DEF Resume
    <3>4. QED BY <1>5, <3>1, <3>2, <3>3
  <2>4. QED BY <2>1, <2>2, <2>3, OwedStep
<1>6. ASSUME NEW p \in Port, Test(p) PROVE Owed(a)'
  <2>1. /\ asked' = asked /\ flags' = flags /\ dev' = dev /\ (CmdOwes(a)' => CmdOwes(a))
        /\ ~Busy(p) => CmdOwes(p) /\ ~CmdOwes(p)' /\ Post(<<p>>)
        /\ Busy(p) => msgs' = msgs
    BY <1>6, CmdDebts DEF Test
  <2>2. FlagOwes(a)' => FlagOwes(a)
    BY <2>1 DEF FlagOwes
  <2>3. CASE Silent(a)
    BY <2>1, <2>2, <2>3, OwedStep
  <2>4. CASE ~Silent(a)
    <3>1. a = p /\ ~Busy(p)
      BY <1>1, <2>1, <2>4, SilentFor
    <3>2. ~FlagOwes(a)'
      BY <2>1, <2>2, <3>1 DEF Owed
    <3>3. QED BY <2>1, <3>1, <3>2, OwedStep
  <2>5. QED BY <2>3, <2>4
<1>7. CASE PauseDone \/ ResumeDone
  <2>1. /\ asked' = asked /\ ~CmdOwes(a)'
        /\ FlagOwes(a)' => FlagOwes(a)
    <3>1. ~SetPause /\ \A p \in Port : ~SetPending(p)
      BY <1>7 DEF PauseDone, ResumeDone, SetPause, SetPending
    <3>2. QED BY <1>7, <3>1, CmdFlagOwes, CmdDebts DEF PauseDone, ResumeDone
  <2>2. CASE Silent(a)
    BY <2>1, <2>2, OwedStep
  <2>3. CASE ~Silent(a)
    <3>1. CmdOwes(a) /\ Post(<<a>>)
      <4>1. PauseDone => CmdOwes("paused") /\ Post(<<"paused">>)
        BY CmdDebts DEF PauseDone
      <4>2. ResumeDone => CmdOwes("resumed") /\ Post(<<"resumed">>)
        BY CmdDebts DEF ResumeDone
      <4>3. QED BY <1>1, <1>7, <2>3, <4>1, <4>2, SilentFor
    <3>2. ~FlagOwes(a)'
      BY <2>1, <3>1 DEF Owed
    <3>3. QED BY <2>1, <3>1, <3>2, OwedStep
  <2>4. QED BY <2>2, <2>3
<1>8. CASE SetPause \/ \E p \in Port : SetPending(p)
  <2>1. asked' = asked /\ Silent(a) /\ (CmdOwes(a)' => CmdOwes(a))
    BY <1>8, SilentFor, CmdDebts DEF SetPause, SetPending
  <2>2. CASE FlagOwes(a)' => FlagOwes(a)
    BY <2>1, <2>2, OwedStep
  <2>3. CASE FlagOwes(a)' /\ ~FlagOwes(a)
    <3>1. CmdOwes(a) /\ ~CmdOwes(a)'
      BY <2>3, CmdFlagOwes, CmdDebts
    <3>2. QED BY <2>1, <3>1, OwedStep
  <2>4. QED BY <2>2, <2>3
<1>9. QED BY <1>2, <1>3, <1>4, <1>5, <1>6, <1>7, <1>8 DEF CmdStep

LEMMA GetMsgOwed ==
  ASSUME Types, GetMsg, NEW a \in Answer, Owed(a)
  PROVE  Owed(a)'
<1>1. cmd' = cmd /\ flags' = flags /\ dev' = dev /\ msgs # <<>> /\ msgs' = Tail(msgs) /\ msgs \in Seq(Bufs \cup Answer)
  BY DEF GetMsg, Types
<1>2. CmdOwes(a)' = CmdOwes(a) /\ FlagOwes(a)' = FlagOwes(a)
  BY <1>1 DEF CmdOwes, FlagOwes
<1>3. /\ ToSet(msgs) = {Head(msgs)} \cup ToSet(msgs')
      /\ \A e : Single(msgs, e) => Single(msgs', e)
      /\ Single(msgs, Head(msgs)) => Head(msgs) \notin ToSet(msgs')
  BY <1>1, TailFacts
<1>4. CASE a = Head(msgs)
  <2>1. a \in ToSet(msgs) /\ a \notin ToSet(msgs') /\ Single(msgs', a)
    BY <1>3, <1>4 DEF Owed
  <2>2. QED BY <1>2, <2>1, OwedStep
<1>5. CASE a # Head(msgs)
  <2>1. Silent(a) /\ (a \in asked => a \in asked')
    BY <1>3, <1>5 DEF Silent, GetMsg
  <2>2. QED BY <1>2, <2>1, OwedStep
<1>6. QED BY <1>4, <1>5

LEMMA StepOwed ==
  ASSUME Types, ~torn', Ports, [Next]_vars, NEW a \in Answer, Owed(a)
  PROVE  Owed(a)'
<1>1. CASE UNCHANGED vars
  <2>1. cmd' = cmd /\ flags' = flags /\ dev' = dev /\ msgs' = msgs /\ asked' = asked
    BY <1>1 DEF vars
  <2>2. QED BY <2>1 DEF Owed, CmdOwes, FlagOwes
<1>2. QED BY <1>1, DevOwed, CmdOwed, GetMsgOwed, NextCases

(* A flush of port p is past its queue and not answered yet.               *)
Due(p) == (CmdOwes(p) /\ Past(p)) \/ FlagOwes(p)

LEMMA PastFacts ==
  /\ CmdOwes("in") /\ Past("in") <=> cmd.at \in {"testin", "setin"} /\ "in" \in cmd.ports
  /\ CmdOwes("out") /\ Past("out") <=>
       cmd.at \in {"freein", "testin", "setin", "testout", "setout"} /\ "out" \in cmd.ports
  /\ (CmdOwes("in") /\ Past("in"))' <=> cmd'.at \in {"testin", "setin"} /\ "in" \in cmd'.ports
  /\ (CmdOwes("out") /\ Past("out"))' <=>
       cmd'.at \in {"freein", "testin", "setin", "testout", "setout"} /\ "out" \in cmd'.ports
BY DEF CmdOwes, Past

LEMMA CmdDue ==
  ASSUME Types, ~torn', Ports, CmdStep, NEW p \in Port, Due(p)', ~Due(p)
  PROVE  ReleaseIdle(p)
<1>1. cmd \in Cmds /\ (p = "in" \/ p = "out") /\ p \in Answer /\ p # "paused" /\ p # "resumed"
      /\ \A q \in Port : q = "in" \/ q = "out"
  BY DEF Types, Port, Answer
<1>2. ASSUME NEW at \in {"freein", "testin", "testout"}, Command(at) PROVE cmd'.at = at /\ cmd'.ports = cmd.ports
  BY <1>2 DEF Command, Order
<1>3. ~FlagOwes(p)'
  <2>1. ASSUME FlagOwes(p)' PROVE FALSE
    <3>1. SetPending(p)
      BY <1>1, <2>1, CmdFlagOwes DEF Due
    <3>2. cmd.at = (IF p = "in" THEN "setin" ELSE "setout") /\ p \in cmd.ports
      BY <1>1, <3>1 DEF SetPending, Ports
    <3>3. QED BY <1>1, <3>2, PastFacts DEF Due
  <2>2. QED BY <2>1
<1>4. CmdOwes(p)' /\ (CmdOwes(p) /\ Past(p))' /\ ~(CmdOwes(p) /\ Past(p))
  BY <1>3 DEF Due
<1>5. CASE \/ \E b \in Bufs, last \in BOOLEAN : Lend(b, last)
           \/ PauseDone \/ SetPause \/ ResumeDone \/ CommandTouch \/ CommandTouched \/ Pause \/ Resume
  BY <1>1, <1>4, <1>5, CmdDebts
<1>6. CASE \E ports \in (SUBSET Port) \ {{}} : Flush(ports)
  <2>1. PICK ports \in SUBSET Port : Flush(ports)
    BY <1>6
  <2>2. cmd'.at = (IF "out" \in ports THEN "freeout" ELSE "freein") /\ cmd'.ports = ports
    BY <2>1 DEF Flush, Order
  <2>3. QED BY <1>1, <1>4, <2>2, PastFacts
<1>7. ASSUME NEW q \in Port, ReleaseIdle(q), q # p PROVE FALSE
  <2>1. /\ cmd.at = (IF q = "out" THEN "freeout" ELSE "freein") /\ cmd'.ports = cmd.ports
        /\ cmd'.at = IF q = "out" /\ "in" \in cmd.ports THEN "freein"
                     ELSE IF "in" \in cmd.ports THEN "testin" ELSE "testout"
    BY <1>2, <1>7 DEF ReleaseIdle
  <2>2. QED BY <1>1, <1>4, <1>7, <2>1, PastFacts
<1>8. ASSUME NEW q \in Port, Test(q), Busy(q) PROVE FALSE
  <2>1. cmd.at = (IF q = "in" THEN "testin" ELSE "testout") /\ cmd'.at = (IF q = "in" THEN "setin" ELSE "setout")
        /\ cmd'.ports = cmd.ports
    BY <1>8 DEF Test, Order
  <2>2. QED BY <1>1, <1>4, <2>1, PastFacts
<1>9. ASSUME NEW q \in Port, (Test(q) /\ ~Busy(q)) \/ SetPending(q) PROVE FALSE
  <2>1. /\ cmd.at \in IF q = "in" THEN {"testin", "setin"} ELSE {"testout", "setout"}
        /\ \/ cmd'.at \in {"idle", "reset", "touch"}
           \/ q = "in" /\ "out" \in cmd.ports /\ cmd'.at = "testout" /\ cmd'.ports = cmd.ports
    BY <1>9, ThenPlaces DEF Test, SetPending
  <2>2. QED BY <1>1, <1>4, <2>1, PastFacts
<1>10. CASE \E b \in YuvBufs : Refuse(b)
  BY <1>4, <1>10 DEF Refuse, CmdOwes, Past
<1>11. QED BY <1>5, <1>6, <1>7, <1>8, <1>9, <1>10 DEF CmdStep

LEMMA DevDue ==
  ASSUME Types, ~torn', NEW q \in Port, DevStep(q), NEW p \in Port, Due(p)'
  PROVE  Due(p)
<1>1. cmd' = cmd
  BY DevOther
<1>2. (CmdOwes(p) /\ Past(p))' => CmdOwes(p) /\ Past(p)
  BY <1>1 DEF CmdOwes, Past
<1>3. FlagOwes(p)' => FlagOwes(p)
  BY DevFlagOwes DEF Answer
<1>4. QED BY <1>2, <1>3 DEF Due

(* What is left in the queue of port p may stay there.                     *)
Late(p, b) == status[b] = "using" \/ (dev[p].at \in {"uncount", "decide"} /\ b = dev[p].buf)

LEMMA DrainedFacts == ASSUME NEW p \in Port PROVE Drained(p) <=> (Due(p) => \A b \in ToSet(queue[p]) : Late(p, b))
BY DEF Drained, Due, Late

LEMMA DrainedPrimed ==
  ASSUME NEW p \in Port
  PROVE  Drained(p)' <=> (Due(p)' => \A b \in ToSet(queue'[p]) : Late(p, b)')
BY DEF Drained, Due, Late

LEMMA DevLate ==
  ASSUME AInv, NEW p \in Port, ~torn', p = "out" => ~mixed', DevStep(p), Due(p)',
         \A b \in ToSet(queue[p]) : Late(p, b), NEW b \in ToSet(queue'[p])
  PROVE  Late(p, b)'
<1>1. Types /\ Own(p) /\ Due(p) /\ ToSet(queue[p]) \subseteq Things /\ \A q \in Port : ToSet(queue[q]) \subseteq Things
  BY DevDue, ConstFacts DEF AInv, Types, Port
<1>2. CASE \/ GetCheck(p) \/ GiveBack(p) \/ CountDown(p) \/ End(p) \/ Clear(p)
           \/ p = "out" /\ (EndPause \/ ClearPause \/ Touch \/ Touched)
  <2>1. queue' = queue /\ status' = status
    BY <1>2 DEF GetCheck, GiveBack, CountDown, End, Clear, EndPause, ClearPause, Touch, Touched
  <2>2. dev[p].at \in {"uncount", "decide"} =>
          dev'[p].at \in {"uncount", "decide"} /\ dev'[p].buf = dev[p].buf
    <3>1. CASE CountDown(p)
      <4>1. SUFFICES ASSUME dev[p].at \in {"uncount", "decide"}
                     PROVE  dev'[p].at \in {"uncount", "decide"} /\ dev'[p].buf = dev[p].buf
        OBVIOUS
      <4>2. Call(p, "decide") /\ "decide" \in AtIn \cup AtOut /\ "decide" \in InHand
        BY <3>1, <4>1 DEF CountDown, AtOut, InHand
      <4>3. QED BY <1>1, <4>2, CallFacts
    <3>2. CASE ~CountDown(p)
      BY <1>2, <3>2 DEF GetCheck, Quiet, GiveBack, End, Clear, EndPause, ClearPause, Touch, Touched
    <3>3. QED BY <3>1, <3>2
  <2>3. QED BY <2>1, <2>2 DEF Late
<1>3. CASE Get(p)
  <2>1. queue' = queue /\ dev[p].at = "get" /\ status[b] = "using"
    BY <1>3 DEF Get, Late
  <2>2. status'[b] = "using"
    <3>1. CASE status' = status
      BY <2>1, <3>1
    <3>2. CASE \E c \in ToSet(queue[p]) : status' = [status EXCEPT ![c] = "using"]
      BY <1>1, <2>1, <3>2 DEF Types
    <3>3. QED BY <1>1, <1>3, <3>1, <3>2, GetFacts
  <2>3. QED BY <2>2 DEF Late
<1>4. CASE Gives(p)
  <2>1. PICK c \in held[p], at \in {"post", "eof", "uncount"}, keeps \in BOOLEAN :
          Enter(p, c, at, keeps) /\ (keeps <=> at = "uncount")
    BY <1>4 DEF Gives
  <2>2. c \in ToSet(queue[p]) /\ queue[p] \in Seq(Things) /\ Single(queue[p], c) /\ dev[p].at = "idle"
    BY <1>1, <2>1 DEF Own, Types, Enter, Quiet
  <2>3. /\ status' = [status EXCEPT ![c] = "idle"]
        /\ queue' = IF keeps THEN queue ELSE [queue EXCEPT ![p] = RemoveFirst(@, c)]
        /\ dev'[p].at = at /\ dev'[p].buf = c
    BY <1>1, <2>1, <2>2 DEF Enter, Types, Devs
  <2>4. b \in ToSet(queue[p]) /\ (b = c => keeps)
    <3>1. CASE keeps
      BY <2>3, <3>1
    <3>2. CASE ~keeps
      <4>1. queue'[p] = RemoveFirst(queue[p], c)
        BY <1>1, <2>3, <3>2 DEF Types
      <4>2. ToSet(queue'[p]) = ToSet(queue[p]) \ {c}
        BY <2>2, <4>1, RemoveFacts
      <4>3. QED BY <4>2
    <3>3. QED BY <3>1, <3>2
  <2>5. CASE b = c
    BY <2>1, <2>3, <2>4, <2>5 DEF Late
  <2>6. CASE b # c
    BY <1>1, <2>2, <2>3, <2>4, <2>6 DEF Late, Types
  <2>7. QED BY <2>5, <2>6
<1>5. CASE p = "out" /\ Decide
  <2> DEFINE c == dev["out"].buf
  <2>1. dev["out"].at = "decide" /\ c \in ToSet(queue["out"]) /\ Single(queue["out"], c)
        /\ ~(Past("out") /\ "out" \in cmd.ports)
    <3>1. dev["out"].at = "decide" /\ ~mixed /\ ~(Past("out") /\ "out" \in cmd.ports)
      BY <1>5 DEF Decide, Meets
    <3>2. c \in ToSet(queue["out"]) /\ c \in Mine("out")
      BY <1>1, <1>5, <3>1 DEF AInv, Listed, Types, InHand
    <3>3. QED BY <1>1, <1>5, <3>1, <3>2 DEF Own
  <2>2. FlagOwes("out")
    BY <1>1, <1>5, <2>1, PastFacts DEF Due
  <2>3. Wanted
    BY <2>2 DEF FlagOwes, Wanted
  <2>4. queue'["out"] = RemoveFirst(queue["out"], c) /\ status' = status /\ queue["out"] \in Seq(Things)
    BY <1>1, <1>5, <2>3 DEF Decide, Types
  <2>5. b \in ToSet(queue["out"]) /\ b # c
    <3>1. ToSet(queue'["out"]) = ToSet(queue["out"]) \ {c}
      BY <2>1, <2>4, RemoveFacts
    <3>2. QED BY <1>5, <3>1
  <2>6. QED BY <1>5, <2>4, <2>5 DEF Late
<1>6. QED BY <1>2, <1>3, <1>4, <1>5 DEF DevStep

LEMMA StepDrained ==
  ASSUME AInv, Ports, [Next]_vars, NEW p \in Port, Sound(p)', Drained(p), Owed(p)
  PROVE  Drained(p)'
<1> SUFFICES ASSUME Due(p)', NEW b \in ToSet(queue'[p]) PROVE Late(p, b)'
  BY DrainedPrimed
<1>1. /\ Types /\ ~torn' /\ (p = "out" => ~mixed') /\ Own(p)
      /\ ToSet(queue[p]) \subseteq Mine(p) /\ p \in Answer /\ Mine(p) \subseteq Things
  BY ConstFacts DEF AInv, Types, Port, Answer, Sound
<1>2. Due(p) => \A c \in ToSet(queue[p]) : Late(p, c)
  BY DrainedFacts
<1>3. CASE \E q \in Port : DevStep(q)
  <2>1. PICK q \in Port : DevStep(q)
    BY <1>3
  <2>2. \A c \in ToSet(queue[p]) : Late(p, c)
    BY <1>1, <1>2, <2>1, DevDue
  <2>3. CASE q = p
    <3>1. DevStep(p)
      BY <2>1, <2>3
    <3>2. QED BY <1>1, <2>2, <3>1, DevLate
  <2>4. CASE q # p
    <3>1. SameFor(p)
      BY <1>1, <2>1, <2>4, DevOther
    <3>2. QED BY <1>1, <2>2, <3>1 DEF SameFor, Late
  <2>5. QED BY <2>3, <2>4
<1>4. CASE CmdStep /\ ReleaseIdle(p)
  <2>1. b \in ToSet(queue[p]) /\ status[b] = "using" /\ b \in Things
    BY <1>1, <1>4, ReleaseFacts
  <2>2. status'[b] = "using"
    BY <1>1, <1>4, <2>1, ReleaseFacts
  <2>3. QED BY <2>2 DEF Late
<1>5. CASE CmdStep /\ ~ReleaseIdle(p)
  <2>1. Due(p) /\ \A c \in ToSet(queue[p]) : Late(p, c)
    BY <1>1, <1>2, <1>5, CmdDue
  <2>2. p \in asked /\ dev' = dev
    BY <1>1, <1>5, <2>1, CmdAlone DEF Due, Owed
  <2>3. queue'[p] = queue[p] /\ \A c \in Mine(p) : status'[c] = status[c]
    <3>1. CASE \E c \in Bufs, last \in BOOLEAN : Lend(c, last)
      <4>1. PICK c \in Bufs, last \in BOOLEAN : Lend(c, last)
        BY <3>1
      <4>2. PortOf(c) # p /\ PortOf(c) \in Port /\ c \in Mine(PortOf(c)) /\ (last => PortOf(c) = "in")
        BY <2>2, <4>1, ConstFacts DEF Lend
      <4>3. \A d \in Mine(p) : d \in Things /\ d # c /\ (last => d # LastFrame)
        BY <4>2, ConstFacts DEF Port, Mine
      <4>4. QED BY <1>1, <4>1, <4>2, <4>3, LendFacts
    <3>2. CASE \E q \in Port : ReleaseIdle(q)
      <4>1. PICK q \in Port : ReleaseIdle(q) /\ q # p
        BY <1>5, <3>2
      <4>2. \A d \in Mine(p) : d \in Things /\ d \notin ToSet(queue[q])
        BY <1>1, <4>1, ConstFacts DEF Port, Types
      <4>3. QED BY <1>1, <4>1, <4>2, ReleaseFacts
    <3>3. CASE ~(\E c \in Bufs, last \in BOOLEAN : Lend(c, last)) /\ ~(\E q \in Port : ReleaseIdle(q))
      BY <1>5, <3>3 DEF CmdStep, Refuse, Flush, Test, SetPending, CommandTouch, CommandTouched,
           PauseDone, SetPause, ResumeDone, Pause, Resume
    <3>4. QED BY <3>1, <3>2, <3>3
  <2>4. QED BY <1>1, <2>1, <2>2, <2>3 DEF Late
<1>6. CASE GetMsg \/ UNCHANGED vars
  <2>1. queue' = queue /\ status' = status /\ dev' = dev /\ cmd' = cmd /\ flags' = flags
    BY <1>6 DEF GetMsg, vars
  <2>2. Due(p)
    BY <2>1 DEF Due, CmdOwes, FlagOwes, Past
  <2>3. QED BY <1>2, <2>1, <2>2 DEF Late
<1>7. QED BY <1>3, <1>4, <1>5, <1>6, NextCases

LEMMA CmdSpeaks ==
  ASSUME Types, CmdStep, NEW p \in Port, ~Silent(p)
  PROVE  Test(p) /\ ~Busy(p)
<1>1. p \in Answer /\ "paused" \in Answer /\ "resumed" \in Answer /\ p # "paused" /\ p # "resumed"
      /\ \A q \in Port : q \in Answer
  BY DEF Answer, Port
<1>2. msgs' # msgs
  BY <1>1, SilentFor
<1>3. ASSUME NEW q \in Port, ReleaseIdle(q) PROVE FALSE
  <2>1. PICK ms \in Seq(Bufs \cup Answer) : Post(ms) /\ \A e : e \in ToSet(ms) => e \in ToSet(queue[q])
    BY <1>3, ReleaseFacts
  <2>2. ToSet(queue[q]) \subseteq Things
    BY SeqFacts DEF Types
  <2>3. p \notin ToSet(ms)
    BY <1>1, <2>1, <2>2, ConstFacts
  <2>4. QED BY <1>1, <2>1, <2>3, SilentFor
<1>4. ~PauseDone /\ ~ResumeDone
  BY <1>1, SilentFor DEF PauseDone, ResumeDone
<1>5. ASSUME NEW b \in YuvBufs, Refuse(b) PROVE FALSE
  <2>1. b \in Bufs /\ Post(<<b>>)
    BY <1>5 DEF Refuse, Bufs
  <2>2. <<b>> \in Seq(Bufs \cup Answer) /\ p \notin ToSet(<<b>>)
    BY <1>1, <2>1, ShortSeqs, ConstFacts
  <2>3. QED BY <1>1, <2>1, <2>2, SilentFor
<1>6. \E q \in Port : Test(q) /\ ~Busy(q)
  BY <1>2, <1>3, <1>4, <1>5 DEF CmdStep, Lend, Flush, Test, SetPending, CommandTouch, CommandTouched, SetPause, Pause, Resume
<1>7. PICK q \in Port : Test(q) /\ ~Busy(q)
  BY <1>6
<1>8. Post(<<q>>)
  BY <1>7 DEF Test
<1>9. QED BY <1>1, <1>7, <1>8, SilentFor

(* In the messages the buffers of port p come before its answer.           *)
Ordered(p) == \A i, j \in DOMAIN msgs : msgs[i] = p /\ msgs[j] \in BufsOf(p) => j < i

LEMMA OrderKept ==
  ASSUME Types, NEW p \in Port, Ordered(p), NEW ms \in Seq(Bufs \cup Answer), Post(ms),
         \A b \in BufsOf(p) : b \notin ToSet(ms)
  PROVE  Ordered(p)'
<1> SUFFICES ASSUME NEW i \in DOMAIN msgs', NEW j \in DOMAIN msgs', msgs'[i] = p, msgs'[j] \in BufsOf(p)
             PROVE  j < i
  BY DEF Ordered
<1>1. \A k \in DOMAIN msgs' : \/ k \in DOMAIN msgs /\ msgs'[k] = msgs[k]
                              \/ k > Len(msgs) /\ k - Len(msgs) \in DOMAIN ms /\ msgs'[k] = ms[k - Len(msgs)]
  BY PostFacts
<1>2. j \in DOMAIN msgs /\ msgs'[j] = msgs[j]
  <2>1. \A k \in DOMAIN ms : ms[k] \in ToSet(ms)
    BY DEF ToSet
  <2>2. QED BY <1>1, <2>1
<1>3. DOMAIN msgs = 1..Len(msgs) /\ Len(msgs) \in Nat
  BY SeqFacts DEF Types
<1>4. CASE i \in DOMAIN msgs /\ msgs'[i] = msgs[i]
  BY <1>2, <1>4 DEF Ordered
<1>5. CASE i > Len(msgs)
  <2>1. i \in Nat
    <3>1. msgs' \in Seq(Bufs \cup Answer)
      BY PostFacts
    <3>2. DOMAIN msgs' = 1..Len(msgs') /\ Len(msgs') \in Nat
      BY <3>1, SeqFacts
    <3>3. QED BY <3>2
  <2>2. QED BY <1>2, <1>3, <1>5, <2>1
<1>6. QED BY <1>1, <1>4, <1>5

LEMMA OrderAnswer ==
  ASSUME Types, NEW p \in Port, Ordered(p), NEW a \in Answer, Post(<<a>>)
  PROVE  Ordered(p)'
<1>1. \A b \in BufsOf(p) : b # a
  BY ConstFacts
<1>2. <<a>> \in Seq(Bufs \cup Answer) /\ \A b \in BufsOf(p) : b \notin ToSet(<<a>>)
  BY <1>1, ShortSeqs
<1>3. QED BY <1>2, OrderKept

LEMMA OrderTail ==
  ASSUME Types, NEW p \in Port, Ordered(p), GetMsg
  PROVE  Ordered(p)'
<1> SUFFICES ASSUME NEW i \in DOMAIN msgs', NEW j \in DOMAIN msgs', msgs'[i] = p, msgs'[j] \in BufsOf(p)
             PROVE  j < i
  BY DEF Ordered
<1>1. msgs # <<>> /\ msgs' = Tail(msgs) /\ msgs \in Seq(Bufs \cup Answer)
  BY DEF GetMsg, Types
<1>2. /\ msgs' \in Seq(Bufs \cup Answer)
      /\ \A k \in 1..Len(msgs') : k + 1 \in 1..Len(msgs) /\ msgs'[k] = msgs[k + 1]
  BY <1>1, TailFacts
<1>3. DOMAIN msgs = 1..Len(msgs) /\ DOMAIN msgs' = 1..Len(msgs') /\ Len(msgs') \in Nat
  BY <1>1, <1>2, SeqFacts
<1>4. j + 1 < i + 1
  BY <1>2, <1>3 DEF Ordered
<1>5. QED BY <1>3, <1>4

LEMMA EmptyQueue ==
  ASSUME Types, NEW p \in Port, \A b \in ToSet(queue[p]) : FALSE
  PROVE  queue[p] = <<>>
<1>1. queue[p] \in Seq(Things) /\ ToSet(queue[p]) = {}
  BY DEF Types
<1>2. QED BY <1>1, EmptyFacts

(* With nothing counted and a flush past the queue, the queue is empty.    *)
LEMMA NothingLeft ==
  ASSUME Types, NEW p \in Port, Own(p), Drained(p), Due(p), use[p] = 0,
         dev[p].at \notin {"uncount", "decide"}
  PROVE  queue[p] = <<>> /\ dev[p].at \notin {"eof", "eofset", "post"} /\ held[p] = {}
<1>1. IsFiniteSet(held[p]) /\ Cardinality(held[p]) \in Nat
  BY HeldFacts
<1>2. dev[p].at \notin Counted /\ Cardinality(held[p]) = 0
  BY <1>1 DEF Own
<1>3. held[p] = {}
  BY <1>1, <1>2, FS_EmptySet
<1>4. \A b \in ToSet(queue[p]) : FALSE
  BY <1>3, DrainedFacts DEF Late, Own
<1>5. QED BY <1>2, <1>3, <1>4, EmptyQueue DEF Counted

LEMMA JustPosted ==
  ASSUME AInv, Ports, NEW p \in Port, Sound(p)', Owed(p), Drained(p),
         (End(p) /\ Answers(p, p)) \/ (CmdStep /\ Test(p) /\ ~Busy(p))
  PROVE  queue'[p] = <<>> /\ dev'[p].at \notin Apart /\ Ordered(p)'
<1>1. Types /\ Own(p) /\ p \in Answer /\ queue' = queue /\ Post(<<p>>) /\ use[p] \in Nat
  BY DEF AInv, Port, Answer, End, Test, Types
<1>2. use[p] = 0 /\ Due(p)
  <2>1. CASE End(p) /\ Answers(p, p)
    <3>1. p \in flags /\ use[p] = 0 /\ dev[p].at = "end" /\ p # "paused"
      BY <2>1 DEF End, Answers, Port
    <3>2. QED BY <3>1 DEF Due, FlagOwes
  <2>2. CASE Test(p) /\ ~Busy(p)
    <3>1. use[p] = 0
      BY <1>1, <2>2 DEF Busy
    <3>2. cmd.at = (IF p = "in" THEN "testin" ELSE "testout") /\ p \in cmd.ports
      BY <2>2 DEF Test, Ports, Port
    <3>3. QED BY <3>1, <3>2, PastFacts DEF Due, Port
  <2>3. QED BY <2>1, <2>2
<1>3. dev[p].at \notin {"uncount", "decide", "postlate"} /\ dev'[p].at \in {dev[p].at, "clear"}
  <2>1. CASE End(p) /\ Answers(p, p)
    <3>1. dev[p].at = "end" /\ Reach(p, "clear", flags)
      BY <2>1 DEF End
    <3>2. dev'[p].at = "clear"
      BY <1>1, <3>1 DEF Reach, Types, Devs
    <3>3. QED BY <3>1, <3>2
  <2>2. CASE CmdStep /\ Test(p)
    <3>1. dev' = dev
      BY <2>2, CmdAlone
    <3>2. dev[p].at # "uncount"
      <4>1. Cardinality(held[p]) \in Nat
        BY <1>1, HeldFacts
      <4>2. dev[p].at \notin Counted
        BY <1>1, <1>2, <4>1 DEF Own
      <4>3. QED BY <4>2 DEF Counted
    <3>3. p = "in" => dev[p].at \in AtIn
      BY <1>1 DEF Types
    <3>4. p = "out" => dev[p].at \notin {"decide", "postlate"}
      BY <2>2 DEF Test, Meets, Sound
    <3>5. QED BY <3>1, <3>2, <3>3, <3>4 DEF AtIn, Port
  <2>3. QED BY <2>1, <2>2
<1>4. queue[p] = <<>> /\ dev[p].at \notin {"eof", "eofset", "post"}
  BY <1>1, <1>2, <1>3, NothingLeft
<1>5. p \notin ToSet(msgs)
  BY <1>2 DEF Owed, Due
<1>6. Ordered(p)
  <2>1. \A i \in DOMAIN msgs : msgs[i] # p
    BY <1>5 DEF ToSet
  <2>2. QED BY <2>1 DEF Ordered
<1>7. <<p>> \in Seq(Bufs \cup Answer) /\ \A b \in BufsOf(p) : b \notin ToSet(<<p>>)
  <2>1. \A b \in BufsOf(p) : b # p
    BY <1>1, ConstFacts
  <2>2. QED BY <1>1, <2>1, ShortSeqs
<1>8. Ordered(p)'
  BY <1>1, <1>6, <1>7, OrderKept
<1>9. QED BY <1>1, <1>3, <1>4, <1>8 DEF Apart

(* An empty queue stays empty until the client lends again. *)
LEMMA DevEmpty ==
  ASSUME Types, NEW p \in Port, Own(p), queue[p] = <<>>, dev[p].at \notin Apart, Ordered(p),
         NEW q \in Port, DevStep(q)
  PROVE  queue'[p] = <<>> /\ dev'[p].at \notin Apart /\ Ordered(p)'
<1>1. ToSet(queue[p]) = {} /\ held[p] = {} 
  <2>1. ToSet(queue[p]) = {}
    BY EmptyFacts DEF Types
  <2>2. QED BY <2>1 DEF Own
<1>2. CASE q = p
  <2>1. \/ GetCheck(p) \/ Get(p) \/ CountDown(p) \/ End(p) \/ Clear(p)
        \/ p = "out" /\ (Decide \/ EndPause \/ ClearPause \/ Touch \/ Touched)
    BY <1>1, <1>2 DEF DevStep, Gives, GiveBack, Apart
  <2>2. queue'[p] = <<>>
    <3>1. CASE p = "out" /\ Decide
      <4>1. RemoveFirst(queue["out"], dev["out"].buf) = queue["out"]
        <5>1. queue["out"] \in Seq(Things) /\ dev["out"].buf \notin ToSet(queue["out"])
          BY <1>1, <3>1 DEF Types
        <5>2. QED BY <5>1, SeqFacts DEF RemoveFirst
      <4>2. QED BY <3>1, <4>1 DEF Decide, Types
    <3>2. CASE ~(p = "out" /\ Decide)
      BY <2>1, <3>2 DEF GetCheck, Get, CountDown, End, Clear, EndPause, ClearPause, Touch, Touched
    <3>3. QED BY <3>1, <3>2
  <2>3. dev'[p].at \notin Apart
    <3>1. \A at, w : Reach(p, at, w) => dev'[p].at = at
      BY DEF Reach, Types, Devs
    <3>2. \E at \in {"get", "idle", "end", "decide", "clear", "endpause", "clearpause", "touchset", "stuck"} :
            Call(p, at) \/ Reach(p, at, flags)
      <4>1. CASE p = "out" /\ Decide
        BY <1>1, <4>1 DEF Decide
      <4>2. CASE p = "out" /\ (Touch \/ Touched)
        BY <4>2 DEF Touch, Touched, Apart
      <4>3. CASE ~(p = "out" /\ (Decide \/ Touch \/ Touched))
        BY <2>1, <4>3 DEF GetCheck, Get, CountDown, End, Clear, EndPause, ClearPause
      <4>4. QED BY <4>1, <4>2, <4>3
    <3>3. QED BY <3>1, <3>2 DEF Call, Apart
  <2>4. msgs' = msgs \/ \E a \in Answer : Post(<<a>>)
    <3>1. p \in Answer /\ "paused" \in Answer
      BY DEF Answer
    <3>2. QED BY <2>1, <3>1 DEF GetCheck, Get, CountDown, End, Clear, Decide, EndPause, ClearPause, Touch, Touched
  <2>5. Ordered(p)'
    BY <2>4, OrderKept, OrderAnswer DEF Ordered
  <2>6. QED BY <2>2, <2>3, <2>5
<1>3. CASE q # p
  <2>1. queue'[p] = queue[p] /\ dev'[p] = dev[p]
    BY <1>3, DevOther DEF SameFor
  <2>2. CASE GiveBack(q) /\ dev[q].buf # LastFrame
    <3>1. dev[q].buf \in BufsOf(q) /\ dev[q].buf \in Bufs /\ Post(<<dev[q].buf>>)
      BY <2>2, Posted, ConstFacts
    <3>2. \A b \in BufsOf(p) : b # dev[q].buf
      BY <1>3, <3>1, ConstFacts
    <3>3. <<dev[q].buf>> \in Seq(Bufs \cup Answer) /\ \A b \in BufsOf(p) : b \notin ToSet(<<dev[q].buf>>)
      BY <3>1, <3>2, ShortSeqs
    <3>4. Ordered(p)'
      BY <3>1, <3>3, OrderKept
    <3>5. QED BY <2>1, <3>4
  <2>3. CASE ~(GiveBack(q) /\ dev[q].buf # LastFrame)
    <3>1. q \in Answer /\ "paused" \in Answer
      BY DEF Answer
    <3>2. msgs' = msgs \/ \E a \in Answer : Post(<<a>>)
      BY <2>3, <3>1 DEF DevStep, GetCheck, Get, Gives, Enter, GiveBack, CountDown, End, Clear, Decide, EndPause, ClearPause,
         Touch, Touched
    <3>3. Ordered(p)'
      BY <3>2, OrderAnswer DEF Ordered
    <3>4. QED BY <2>1, <3>3
  <2>4. QED BY <2>2, <2>3
<1>4. QED BY <1>2, <1>3

LEMMA CmdEmpty ==
  ASSUME Types, NEW p \in Port, queue[p] = <<>>, dev[p].at \notin Apart, Ordered(p),
         p \in asked, CmdStep
  PROVE  queue'[p] = <<>> /\ dev'[p].at \notin Apart /\ Ordered(p)'
<1>1. dev' = dev /\ ToSet(queue[p]) = {}
  BY CmdAlone, EmptyFacts DEF Types
<1>2. CASE \E b \in Bufs, last \in BOOLEAN : Lend(b, last)
  <2>1. PICK b \in Bufs, last \in BOOLEAN : Lend(b, last)
    BY <1>2
  <2>2. PortOf(b) # p /\ msgs' = msgs
    BY <2>1 DEF Lend
  <2>3. queue'[p] = queue[p]
    BY <2>1, <2>2, LendFacts
  <2>4. QED BY <1>1, <2>2, <2>3 DEF Ordered
<1>3. ASSUME NEW q \in Port, ReleaseIdle(q)
      PROVE  queue'[p] = <<>> /\ Ordered(p)'
  <2>1. queue'[p] = <<>>
    <3>1. CASE q = p
      <4>1. queue'[p] \in Seq(Things) /\ ToSet(queue'[p]) = {}
        BY <1>1, <1>3, <3>1, ReleaseFacts
      <4>2. QED BY <4>1, EmptyFacts
    <3>2. CASE q # p
      BY <1>3, <3>2, ReleaseFacts
    <3>3. QED BY <3>1, <3>2
  <2>2. PICK ms \in Seq(Bufs \cup Answer) : Post(ms) /\ \A e : e \in ToSet(ms) => e \in ToSet(queue[q])
    BY <1>3, ReleaseFacts
  <2>3. \A b \in BufsOf(p) : b \notin ToSet(ms)
    <3>1. CASE q = p
      BY <1>1, <2>2, <3>1
    <3>2. CASE q # p
      <4>1. ToSet(queue[q]) \subseteq Mine(q) /\ \A b \in BufsOf(p) : b \notin Mine(q)
        BY <3>2, ConstFacts DEF Types, Port
      <4>2. QED BY <2>2, <4>1
    <3>3. QED BY <3>1, <3>2
  <2>4. QED BY <2>1, <2>2, <2>3, OrderKept
<1>4. CASE \E b \in YuvBufs : Refuse(b)
  <2>1. PICK b \in YuvBufs : Refuse(b)
    BY <1>4
  <2>2. b \in Bufs /\ Post(<<b>>) /\ queue' = queue /\ "out" \notin asked
    BY <2>1 DEF Refuse, Bufs
  <2>3. p = "in" /\ b \notin BufsOf(p)
    BY <2>2, OmxVdecAssumption DEF Port, BufsOf
  <2>4. <<b>> \in Seq(Bufs \cup Answer) /\ \A c \in BufsOf(p) : c \notin ToSet(<<b>>)
    BY <2>2, <2>3, ShortSeqs
  <2>5. Ordered(p)'
    BY <2>2, <2>4, OrderKept
  <2>6. QED BY <1>1, <2>2, <2>5
<1>5. CASE /\ ~(\E b \in Bufs, last \in BOOLEAN : Lend(b, last))
           /\ ~(\E q \in Port : ReleaseIdle(q)) /\ ~\E b \in YuvBufs : Refuse(b)
  <2>1. queue' = queue
    BY <1>5 DEF CmdStep, Flush, Test, SetPending, CommandTouch, CommandTouched,
         PauseDone, SetPause, ResumeDone, Pause, Resume
  <2>2. msgs' = msgs \/ \E a \in Answer : Post(<<a>>)
    <3>1. "paused" \in Answer /\ "resumed" \in Answer /\ \A q \in Port : q \in Answer
      BY DEF Answer
    <3>2. QED BY <1>5, <3>1 DEF CmdStep, Flush, Test, SetPending, CommandTouch, CommandTouched,
         PauseDone, SetPause, ResumeDone, Pause, Resume
  <2>3. Ordered(p)'
    BY <2>2, OrderAnswer DEF Ordered
  <2>4. QED BY <1>1, <2>1, <2>3
<1>6. QED BY <1>1, <1>2, <1>3, <1>4, <1>5

LEMMA StepEmpty ==
  ASSUME AInv, Ports, [Next]_vars, NEW p \in Port, Sound(p)',
         Owed(p), Drained(p), Empty(p)
  PROVE  Empty(p)'
<1> SUFFICES ASSUME p \in ToSet(msgs')
             PROVE  queue'[p] = <<>> /\ dev'[p].at \notin Apart /\ Ordered(p)'
  BY DEF Empty, Ordered
<1>1. Types /\ Own(p) /\ p \in Answer
  BY DEF AInv, Port, Answer
<1>2. CASE p \in ToSet(msgs)
  <2>1. queue[p] = <<>> /\ dev[p].at \notin Apart /\ Ordered(p) /\ p \in asked
    BY <1>2 DEF Empty, Ordered, Owed
  <2>2. CASE GetMsg
    BY <1>1, <2>1, <2>2, OrderTail DEF GetMsg
  <2>3. CASE UNCHANGED vars
    BY <2>1, <2>3 DEF vars, Ordered
  <2>4. QED BY <1>1, <2>1, <2>2, <2>3, DevEmpty, CmdEmpty, NextCases
<1>3. CASE p \notin ToSet(msgs)
  <2>1. ~Silent(p)
    BY <1>3 DEF Silent
  <2>2. ~GetMsg /\ ~UNCHANGED vars
    <3>1. GetMsg => ToSet(msgs') \subseteq ToSet(msgs)
      <4>1. GetMsg => msgs \in Seq(Bufs \cup Answer) /\ msgs # <<>> /\ msgs' = Tail(msgs)
        BY <1>1 DEF GetMsg, Types
      <4>2. QED BY <4>1, TailFacts
    <3>2. UNCHANGED vars => msgs' = msgs
      BY DEF vars
    <3>3. QED BY <1>3, <3>1, <3>2
  <2>3. (End(p) /\ Answers(p, p)) \/ (CmdStep /\ Test(p) /\ ~Busy(p))
    <3>1. ASSUME NEW q \in Port, DevStep(q) PROVE End(p) /\ Answers(p, p)
      <4>1. p # "paused"
        BY DEF Port
      <4>2. QED BY <1>1, <2>1, <3>1, <4>1, DevSpeaks
    <3>2. CmdStep => Test(p) /\ ~Busy(p)
      BY <1>1, <2>1, CmdSpeaks
    <3>3. QED BY <2>2, <3>1, <3>2, NextCases
  <2>4. QED BY <2>3, JustPosted
<1>4. QED BY <1>2, <1>3

LEMMA StepBInv == AInv /\ BInv /\ [Next]_vars => BInv'
<1> SUFFICES ASSUME AInv, BInv, [Next]_vars PROVE BInv'
  OBVIOUS
<1>1. Types /\ Ports /\ (\A p \in Port : p \in Answer) /\ (torn => torn') /\ (mixed => mixed')
  <2>1. Types
    BY DEF AInv
  <2>2. QED BY <2>1, StillWrong DEF BInv, Answer
<1>2. Ports'
  BY <1>1, StepPorts
<1>3. ASSUME ~torn', NEW a \in Answer PROVE Owed(a)'
  <2>1. Owed(a)
    BY <1>1, <1>3 DEF BInv
  <2>2. QED BY <1>1, <1>3, <2>1, StepOwed
<1>4. ASSUME NEW p \in Port, Sound(p)' PROVE Drained(p)' /\ Empty(p)'
  <2>1. Sound(p) /\ ~torn
    BY <1>1, <1>4 DEF Sound
  <2>2. Owed(p) /\ Drained(p) /\ Empty(p)
    BY <1>1, <2>1 DEF BInv
  <2>3. QED BY <1>1, <1>4, <2>2, StepDrained, StepEmpty
<1>5. QED BY <1>2, <1>3, <1>4 DEF BInv

LEMMA InitBInv == Init => BInv
<1> SUFFICES ASSUME Init PROVE BInv
  OBVIOUS
<1>1. /\ flags = {} /\ cmd.at = "idle" /\ msgs = <<>>
  BY DEF Init, NoCmd
<1>2. ToSet(msgs) = {} /\ \A e : Single(msgs, e)
  BY <1>1, EmptySeq, EmptyFacts
<1>3. \A a \in Answer : ~CmdOwes(a) /\ ~FlagOwes(a)
  BY <1>1, CmdOwesFacts DEF FlagOwes
<1>4. \A p \in Port : ~CmdOwes(p) /\ ~FlagOwes(p)
  BY <1>3 DEF Answer
<1>5. QED BY <1>1, <1>2, <1>3, <1>4 DEF BInv, Ports, Owed, Drained, Empty

LEMMA AlwaysBInv == Spec => [](AInv /\ BInv)
<1>1. AInv /\ BInv /\ [Next]_vars => (AInv /\ BInv)'
  BY StepAInv, StepBInv
<1>2. Init => AInv /\ BInv
  BY InitAInv, InitBInv
<1>3. QED BY <1>1, <1>2, PTL DEF Spec

LEMMA FlushedFacts ==
  ASSUME AInv, BInv, NEW p \in Port, Sound(p)
  PROVE  Flushed(p)
<1> SUFFICES ASSUME NEW i \in DOMAIN msgs, msgs[i] = p
             PROVE  /\ queue[p] = <<>>
                    /\ \A j \in DOMAIN msgs : msgs[j] \in BufsOf(p) => j < i
                    /\ \A b \in BufsOf(p) : ~Leaving(b)
  BY DEF Flushed
<1>1. p \in ToSet(msgs) /\ Empty(p) /\ Types
  BY DEF ToSet, AInv, BInv
<1>2. dev[p].at \notin Apart
  BY <1>1 DEF Empty
<1>3. ASSUME NEW b \in BufsOf(p), NEW q \in Port, dev[q].buf = b, dev[q].at \in Apart PROVE FALSE
  <2>1. q # p
    BY <1>2, <1>3
  <2>2. b \in Mine(q)
    BY <1>1, <1>3 DEF Types, InHand, Apart
  <2>3. QED BY <1>3, <2>1, <2>2, ConstFacts DEF Port
<1>4. QED BY <1>1, <1>3 DEF Empty, Leaving, Apart

(* When the client reads that the input port is flushed it has every       *)
(* stream buffer, however the threads overlap, up to a torn write of the   *)
(* flags: channel_flush_port and channel_release_stream answer only when   *)
(* the queue is empty, after the last buffer's message.                    *)
THEOREM InputGivenBack == Spec => []InputFlushed
<1>1. AInv /\ BInv => InputFlushed
  BY FlushedFacts DEF InputFlushed, Port, Sound
<1>2. QED BY <1>1, AlwaysBInv, PTL

(* The same for the output port and the frame buffers, which the VPSS      *)
(* gives back in vpss_release_frame and vpss_report_new_frame, if also no  *)
(* flush has met vpss_release_frame half-way.                              *)
THEOREM OutputGivenBack == Spec => []OutputFlushed
<1>1. AInv /\ BInv => OutputFlushed
  BY FlushedFacts DEF OutputFlushed, Port, Sound
<1>2. QED BY <1>1, AlwaysBInv, PTL

-----------------------------------------------------------------------------
(* Before a torn write no message is lost for want of room: each stands in *)
(* the queue once.                                                         *)

LEMMA Fits ==
  ASSUME Room, NEW s \in Seq(Bufs \cup Answer), \A e \in Bufs \cup Answer : Single(s, e)
  PROVE  Len(s) <= Depth
<1> DEFINE E == Bufs \cup Answer
           D == 1..Len(s)
           f == [i \in D |-> s[i]]
<1>1. IsFiniteSet(Bufs) /\ Cardinality(Bufs) \in Nat /\ Depth \in Nat
  BY OmxVdecAssumption, FS_CardinalityType
<1>2. IsFiniteSet(Answer) /\ Cardinality(Answer) = 4
  <2>1. IsFiniteSet({}) /\ Cardinality({}) = 0
    BY FS_EmptySet
  <2>2. IsFiniteSet({"in"}) /\ Cardinality({"in"}) = 1
    BY FS_Singleton
  <2>3. IsFiniteSet({"in"} \cup {"out"}) /\ Cardinality({"in"} \cup {"out"}) = 2
    <3>1. "out" \notin {"in"}
      OBVIOUS
    <3>2. /\ IsFiniteSet({"in"} \cup {"out"})
          /\ Cardinality({"in"} \cup {"out"}) = Cardinality({"in"}) + 1
      BY <2>2, <3>1, FS_AddElement, Zenon
    <3>3. QED BY <2>2, <3>2
  <2>4. IsFiniteSet({"in"} \cup {"out"} \cup {"paused"}) /\ Cardinality({"in"} \cup {"out"} \cup {"paused"}) = 3
    <3>1. "paused" \notin {"in"} \cup {"out"}
      OBVIOUS
    <3>2. /\ IsFiniteSet({"in"} \cup {"out"} \cup {"paused"})
          /\ Cardinality({"in"} \cup {"out"} \cup {"paused"}) = Cardinality({"in"} \cup {"out"}) + 1
      BY <2>3, <3>1, FS_AddElement, Zenon
    <3>3. QED BY <2>3, <3>2
  <2>5. /\ IsFiniteSet({"in"} \cup {"out"} \cup {"paused"} \cup {"resumed"})
        /\ Cardinality({"in"} \cup {"out"} \cup {"paused"} \cup {"resumed"}) = 4
    <3>1. "resumed" \notin {"in"} \cup {"out"} \cup {"paused"}
      OBVIOUS
    <3>2. /\ IsFiniteSet({"in"} \cup {"out"} \cup {"paused"} \cup {"resumed"})
          /\ Cardinality({"in"} \cup {"out"} \cup {"paused"} \cup {"resumed"}) = Cardinality({"in"} \cup {"out"} \cup {"paused"}) + 1
      BY <2>4, <3>1, FS_AddElement, Zenon
    <3>3. QED BY <2>4, <3>2
  <2>6. Answer = {"in"} \cup {"out"} \cup {"paused"} \cup {"resumed"}
    BY DEF Answer, Port
  <2>7. QED BY <2>5, <2>6
<1>3. IsFiniteSet(E) /\ Cardinality(E) \in Nat /\ Cardinality(E) <= Cardinality(Bufs) + 4
  <2>1. /\ IsFiniteSet(E) /\ IsFiniteSet(Bufs \cap Answer)
        /\ Cardinality(E) = Cardinality(Bufs) + Cardinality(Answer) - Cardinality(Bufs \cap Answer)
    <3>1. (Bufs \cap Answer) \in SUBSET Answer
      OBVIOUS
    <3>2. IsFiniteSet(Bufs \cap Answer)
      BY <1>2, <3>1, FS_Subset, Zenon
    <3>3. QED BY <1>1, <1>2, <3>2, FS_Union, Zenon
  <2>2. Cardinality(E) \in Nat /\ Cardinality(Bufs \cap Answer) \in Nat
    BY <2>1, FS_CardinalityType
  <2>3. QED BY <1>1, <1>2, <2>1, <2>2
<1>4. Len(s) \in Nat /\ IsFiniteSet(D) /\ Cardinality(D) = Len(s)
  <2>1. Len(s) \in Nat
    BY SeqFacts
  <2>2. IsFiniteSet(1..Len(s)) /\ Cardinality(1..Len(s)) = IF 1 > Len(s) THEN 0 ELSE Len(s) - 1 + 1
    BY <2>1, FS_Interval
  <2>3. QED BY <2>1, <2>2
<1>5. f \in Injection(D, E)
  <2>1. DOMAIN s = D /\ \A i \in D : s[i] \in E
    BY SeqFacts
  <2>2. \A i, j \in D : s[i] = s[j] => i = j
    BY <2>1 DEF Single
  <2> HIDE DEF E, D
  <2>3. QED BY <2>1, <2>2 DEF Injection, IsInjective
<1>6. Cardinality(D) <= Cardinality(E)
  BY <1>3, <1>4, <1>5, FS_Injection
<1>7. QED BY <1>1, <1>3, <1>4, <1>6 DEF Room

LEMMA AllSingle ==
  ASSUME AInv, BInv, ~torn, NEW e \in Bufs \cup Answer
  PROVE  Single(msgs, e)
<1>1. CASE e \in Bufs
  <2>1. PortOf(e) \in Port /\ e \in BufsOf(PortOf(e))
    BY <1>1, ConstFacts
  <2>2. QED BY <2>1 DEF AInv, Own, Port
<1>2. CASE e \in Answer
  BY <1>2 DEF BInv, Owed
<1>3. QED BY <1>1, <1>2

LEMMA PostFits ==
  ASSUME Room, AInv, BInv, ~torn, NEW ms \in Seq(Bufs \cup Answer), Post(ms),
         \A e \in Bufs \cup Answer : Single(ms, e), \A e \in ToSet(ms) : e \notin ToSet(msgs)
  PROVE  ToSet(msgs') = ToSet(msgs) \cup ToSet(ms)
<1>1. Types /\ msgs \in Seq(Bufs \cup Answer)
  BY DEF AInv, Types
<1>2. /\ msgs \o ms \in Seq(Bufs \cup Answer) /\ Len(msgs \o ms) = Len(msgs) + Len(ms)
      /\ \A e : Single(msgs, e) /\ Single(ms, e) /\ ~(e \in ToSet(msgs) /\ e \in ToSet(ms)) => Single(msgs \o ms, e)
  BY <1>1, ConcatFacts
<1>3. \A e \in Bufs \cup Answer : Single(msgs \o ms, e)
  BY <1>2, AllSingle
<1>4. Len(msgs) + Len(ms) <= Depth
  BY <1>2, <1>3, Fits
<1>5. QED BY <1>1, <1>4, PostFacts

LEMMA OnePosted ==
  ASSUME Room, AInv, BInv, ~torn, NEW e \in Bufs \cup Answer, Post(<<e>>), e \notin ToSet(msgs)
  PROVE  ToSet(msgs') = ToSet(msgs) \cup {e}
<1>1. <<e>> \in Seq(Bufs \cup Answer) /\ ToSet(<<e>>) = {e} /\ \A d : Single(<<e>>, d)
  BY ShortSeqs
<1>2. QED BY <1>1, PostFits

(* What a flush takes out of the queue is in the messages afterwards.      *)
LEMMA ReleaseKeeps ==
  ASSUME Room, AInv, BInv, ~torn, NEW p \in Port, ReleaseIdle(p)
  PROVE  /\ ToSet(msgs) \subseteq ToSet(msgs')
         /\ \A b \in BufsOf(p) : b \in ToSet(queue[p]) => b \in ToSet(queue'[p]) \cup ToSet(msgs')
<1>1. Types /\ Own(p) /\ ToSet(queue[p]) \subseteq Mine(p)
  BY DEF AInv, Port, Types
<1>2. PICK ms \in Seq(Bufs \cup Answer) :
        /\ Post(ms) /\ \A e : Single(queue[p], e) => Single(ms, e)
        /\ \A e : e \in ToSet(ms) <=> e \in ToSet(queue[p]) /\ status[e] # "using" /\ e # LastFrame
  BY <1>1, ReleaseFacts
<1>3. \A e \in Bufs \cup Answer : Single(ms, e)
  <2> TAKE e \in Bufs \cup Answer
  <2>1. CASE e \in Mine(p)
    BY <1>1, <1>2, <2>1 DEF Own
  <2>2. CASE e \notin Mine(p)
    <3>1. e \notin ToSet(ms)
      BY <1>1, <1>2, <2>2
    <3>2. QED BY <3>1 DEF Single, ToSet
  <2>3. QED BY <2>1, <2>2
<1>4. \A e \in ToSet(ms) : e \notin ToSet(msgs)
  <2> TAKE e \in ToSet(ms)
  <2>1. e \in ToSet(queue[p]) /\ e \in Mine(p) /\ e # LastFrame
    BY <1>1, <1>2
  <2>2. e \in BufsOf(p)
    BY <2>1 DEF Mine, BufsOf
  <2>3. QED BY <1>1, <2>1, <2>2 DEF Own
<1>5. ToSet(msgs') = ToSet(msgs) \cup ToSet(ms)
  BY <1>2, <1>3, <1>4, PostFits
<1>6. \A b \in BufsOf(p) : b # LastFrame
  BY ConstFacts
<1>7. QED BY <1>1, <1>2, <1>5, <1>6, ReleaseFacts

LEMMA DevKeeps ==
  ASSUME Room, AInv, BInv, ~torn, NEW p \in Port, DevStep(p)
  PROVE  /\ ToSet(msgs) \subseteq ToSet(msgs')
         /\ GiveBack(p) /\ dev[p].buf # LastFrame => dev[p].buf \in ToSet(msgs')
<1>1. Types /\ Own(p) /\ p \in Answer /\ p # "paused" /\ "paused" \in Answer
  BY DEF AInv, Port, Answer
<1>2. CASE GiveBack(p) /\ dev[p].buf # LastFrame
  <2>1. Post(<<dev[p].buf>>) /\ dev[p].buf \in Bufs /\ dev[p].buf \notin ToSet(msgs)
    <3>1. dev[p].at \in Apart
      BY <1>2 DEF GiveBack, Apart
    <3>2. dev[p].buf \notin ToSet(msgs)
      BY <1>1, <3>1 DEF Own
    <3>3. QED BY <1>1, <1>2, <3>2, Posted, ConstFacts
  <2>2. ToSet(msgs') = ToSet(msgs) \cup {dev[p].buf}
    BY <2>1, OnePosted
  <2>3. QED BY <2>2
<1>3. CASE End(p) /\ Answers(p, p)
  <2>1. Post(<<p>>) /\ FlagOwes(p) /\ ~GiveBack(p)
    BY <1>1, <1>3 DEF End, Answers, FlagOwes, GiveBack
  <2>2. p \notin ToSet(msgs)
    BY <1>1, <2>1 DEF BInv, Owed
  <2>3. QED BY <1>1, <2>1, <2>2, OnePosted
<1>4. CASE p = "out" /\ EndPause /\ "paused" \in flags
  <2>1. Post(<<"paused">>) /\ FlagOwes("paused") /\ ~GiveBack(p)
    BY <1>1, <1>4 DEF EndPause, FlagOwes, GiveBack
  <2>2. "paused" \notin ToSet(msgs)
    BY <1>1, <2>1 DEF BInv, Owed
  <2>3. QED BY <1>1, <2>1, <2>2, OnePosted
<1>5. CASE /\ ~(GiveBack(p) /\ dev[p].buf # LastFrame) /\ ~(End(p) /\ Answers(p, p))
           /\ ~(p = "out" /\ EndPause /\ "paused" \in flags)
  <2>1. msgs' = msgs
    BY <1>5 DEF DevStep, GetCheck, Get, Gives, Enter, GiveBack, CountDown, End, Clear, Decide, EndPause, ClearPause,
       Touch, Touched
  <2>2. QED BY <1>5, <2>1
<1>6. QED BY <1>2, <1>3, <1>4, <1>5

LEMMA CmdKeeps ==
  ASSUME Room, AInv, BInv, ~torn, CmdStep
  PROVE  /\ ToSet(msgs) \subseteq ToSet(msgs')
         /\ \A b \in YuvBufs : Refuse(b) => b \in ToSet(msgs')
<1>1. Types /\ Ports /\ "paused" \in Answer /\ "resumed" \in Answer /\ \A p \in Port : p \in Answer
  BY DEF AInv, BInv, Answer
<1>2. ASSUME NEW a \in Answer, CmdOwes(a), Post(<<a>>) PROVE ToSet(msgs) \subseteq ToSet(msgs')
  <2>1. a \notin ToSet(msgs)
    BY <1>2 DEF BInv, Owed
  <2>2. QED BY <1>2, <2>1, OnePosted
<1>3. ASSUME NEW b \in YuvBufs, Refuse(b) PROVE ToSet(msgs') = ToSet(msgs) \cup {b}
  <2>1. b \in Bufs /\ b \in BufsOf("out") /\ Post(<<b>>) /\ b \in client
    BY <1>3 DEF Refuse, Bufs, BufsOf
  <2>2. b \notin ToSet(msgs)
    BY <2>1 DEF AInv, Own
  <2>3. QED BY <2>1, <2>2, OnePosted
<1>4. (\E p \in Port : ReleaseIdle(p)) => ToSet(msgs) \subseteq ToSet(msgs')
  BY ReleaseKeeps
<1>5. ASSUME NEW p \in Port, Test(p), ~Busy(p) PROVE ToSet(msgs) \subseteq ToSet(msgs')
  <2>1. CmdOwes(p) /\ Post(<<p>>)
    BY <1>1, <1>5, CmdDebts DEF Test
  <2>2. QED BY <1>1, <1>2, <2>1
<1>6. PauseDone => ToSet(msgs) \subseteq ToSet(msgs')
  BY <1>1, <1>2, CmdDebts DEF PauseDone
<1>7. ResumeDone => ToSet(msgs) \subseteq ToSet(msgs')
  BY <1>1, <1>2, CmdDebts DEF ResumeDone
<1>8. CASE /\ ~(\E p \in Port : ReleaseIdle(p)) /\ ~(\E p \in Port : Test(p) /\ ~Busy(p))
           /\ ~PauseDone /\ ~ResumeDone /\ ~(\E b \in YuvBufs : Refuse(b))
  BY <1>8 DEF CmdStep, Lend, Flush, Test, SetPending, CommandTouch, CommandTouched, SetPause, Pause, Resume
<1>9. ToSet(msgs) \subseteq ToSet(msgs')
  BY <1>3, <1>4, <1>5, <1>6, <1>7, <1>8
<1>10. QED BY <1>3, <1>9

(* What leaves the queue of its port is on its way to the client.          *)
LEMMA DevSomewhere ==
  ASSUME Room, AInv, BInv, ~torn, NEW p \in Port, DevStep(p), NEW b \in Bufs, Somewhere(b)
  PROVE  Somewhere(b)'
<1>1. /\ Types /\ client' = client /\ ToSet(msgs) \subseteq ToSet(msgs')
      /\ \A q \in Port : q # p => SameFor(q)
      /\ b # LastFrame /\ PortOf(b) \in Port /\ b \in BufsOf(PortOf(b)) /\ b \in Mine(PortOf(b))
  BY DevOther, DevKeeps, ConstFacts DEF AInv
<1>2. CASE b \in client \/ b \in ToSet(msgs)
  BY <1>1, <1>2 DEF Somewhere
<1>3. CASE Leaving(b)
  <2>1. PICK q \in Port : dev[q].buf = b /\ dev[q].at \in Apart
    BY <1>3 DEF Leaving, Apart
  <2>2. CASE q # p
    <3>1. dev'[q] = dev[q]
      BY <1>1, <2>2 DEF SameFor
    <3>2. QED BY <2>1, <3>1 DEF Somewhere, Leaving, Apart
  <2>3. CASE q = p
    <3>1. GiveBack(p) \/ (p = "out" /\ (Touch \/ Touched))
      BY <2>1, <2>3 DEF DevStep, GetCheck, Get, Gives, Enter, Quiet, CountDown, End, Clear, Decide, EndPause, ClearPause,
         Apart
    <3>2. CASE GiveBack(p)
      <4>1. b \in ToSet(msgs')
        BY <1>1, <2>1, <2>3, <3>2, DevKeeps
      <4>2. QED BY <4>1 DEF Somewhere
    <3>3. CASE p = "out" /\ (Touch \/ Touched)
      <4>1. PICK at \in {"eofset", "post"}, w \in {flags, {}} : Reach("out", at, w)
        BY <2>1, <2>3, <3>3 DEF Touch, Touched, Call, Apart
      <4>2. at \in AtIn \cup AtOut /\ at \in InHand /\ w \in Word
        BY <1>1, <4>1, WordFacts DEF AtIn, AtOut, InHand
      <4>3. dev'["out"].at = at /\ dev'["out"].buf = dev["out"].buf
        BY <1>1, <3>3, <4>1, <4>2, ReachFacts
      <4>4. QED BY <2>1, <2>3, <3>3, <4>3 DEF Somewhere, Leaving
    <3>4. QED BY <3>1, <3>2, <3>3
  <2>4. QED BY <2>2, <2>3
<1>4. CASE b \in ToSet(queue[PortOf(b)])
  <2>1. CASE p # PortOf(b)
    <3>1. queue'[PortOf(b)] = queue[PortOf(b)]
      BY <1>1, <2>1 DEF SameFor
    <3>2. QED BY <1>4, <3>1 DEF Somewhere
  <2>2. CASE p = PortOf(b)
    <3>1. Own(p) /\ queue[p] \in Seq(Things)
      BY <1>1 DEF AInv, Port, Types
    <3>2. ASSUME NEW c \in ToSet(queue[p]), queue'[p] = RemoveFirst(queue[p], c),
                 dev'[p].buf = c, dev'[p].at \in {"post", "eof", "postlate"}
          PROVE  Somewhere(b)'
      <4>1. Single(queue[p], c)
        <5>1. ToSet(queue[p]) \subseteq Mine(p)
          BY <1>1 DEF Types
        <5>2. QED BY <3>1, <3>2, <5>1 DEF Own
      <4>2. ToSet(queue'[p]) = ToSet(queue[p]) \ {c}
        BY <3>1, <3>2, <4>1, RemoveFacts
      <4>3. b # c => b \in ToSet(queue'[PortOf(b)])
        BY <1>4, <2>2, <4>2
      <4>4. b = c => Leaving(b)'
        BY <3>2 DEF Leaving
      <4>5. QED BY <4>3, <4>4 DEF Somewhere
    <3>3. CASE Gives(p)
      <4>1. PICK c \in held[p], at \in {"post", "eof", "uncount"}, keeps \in BOOLEAN :
              Enter(p, c, at, keeps) /\ (keeps <=> at = "uncount")
        BY <3>3 DEF Gives
      <4>2. c \in ToSet(queue[p])
        BY <3>1 DEF Own
      <4>3. CASE keeps
        <5>1. queue' = queue
          BY <4>1, <4>2, <4>3 DEF Enter
        <5>2. QED BY <1>4, <5>1 DEF Somewhere
      <4>4. CASE ~keeps
        <5>1. queue'[p] = RemoveFirst(queue[p], c) /\ dev'[p].buf = c /\ dev'[p].at \in {"post", "eof"}
          BY <1>1, <4>1, <4>2, <4>4 DEF Enter, Types, Devs
        <5>2. QED BY <3>2, <4>2, <5>1
      <4>5. QED BY <4>3, <4>4
    <3>4. CASE p = "out" /\ Decide
      <4>1. CASE Wanted
        <5>1. CASE dev["out"].buf \in ToSet(queue["out"])
          <6>1. queue'["out"] = RemoveFirst(queue["out"], dev["out"].buf) /\ Call("out", "postlate")
                /\ "postlate" \in AtIn \cup AtOut /\ "postlate" \in InHand
            BY <1>1, <3>4, <4>1, <5>1 DEF Decide, Types, AtOut, InHand
          <6>2. dev'["out"].buf = dev["out"].buf /\ dev'["out"].at = "postlate"
            BY <1>1, <3>4, <6>1, CallFacts
          <6>3. QED BY <3>2, <3>4, <5>1, <6>1, <6>2
        <5>2. CASE dev["out"].buf \notin ToSet(queue["out"])
          <6>1. RemoveFirst(queue["out"], dev["out"].buf) = queue["out"]
            BY <3>1, <3>4, <5>2, SeqFacts DEF RemoveFirst
          <6>2. queue'["out"] = queue["out"]
            BY <1>1, <3>4, <4>1, <6>1 DEF Decide, Types
          <6>3. QED BY <1>4, <2>2, <3>4, <6>2 DEF Somewhere
        <5>3. QED BY <5>1, <5>2
      <4>2. CASE ~Wanted
        BY <1>4, <3>4, <4>2 DEF Decide, Somewhere
      <4>3. QED BY <4>1, <4>2
    <3>5. CASE ~Gives(p) /\ ~(p = "out" /\ Decide)
      <4>1. queue' = queue
        BY <3>5 DEF DevStep, GetCheck, Get, GiveBack, CountDown, End, Clear, EndPause, ClearPause, Touch, Touched
      <4>2. QED BY <1>4, <4>1 DEF Somewhere
    <3>6. QED BY <3>3, <3>4, <3>5
  <2>3. QED BY <2>1, <2>2
<1>5. QED BY <1>2, <1>3, <1>4 DEF Somewhere

LEMMA CmdSomewhere ==
  ASSUME Room, AInv, BInv, ~torn, CmdStep, NEW b \in Bufs, Somewhere(b)
  PROVE  Somewhere(b)'
<1>1. /\ Types /\ dev' = dev /\ ToSet(msgs) \subseteq ToSet(msgs')
      /\ PortOf(b) \in Port /\ b \in BufsOf(PortOf(b))
  BY CmdAlone, CmdKeeps, ConstFacts DEF AInv
<1>2. CASE Leaving(b) \/ b \in ToSet(msgs)
  BY <1>1, <1>2 DEF Somewhere, Leaving
<1>3. CASE b \in client
  <2>1. CASE \E c \in Bufs, last \in BOOLEAN : Lend(c, last)
    <3>1. PICK c \in Bufs, last \in BOOLEAN : Lend(c, last)
      BY <2>1
    <3>2. CASE c = b
      <4>1. b \in ToSet(queue'[PortOf(b)])
        <5>1. ToSet(queue'[PortOf(b)]) = ToSet(queue[PortOf(b)]) \cup {b} \cup (IF last THEN {LastFrame} ELSE {})
          BY <1>1, <3>1, <3>2, LendFacts, Zenon
        <5>2. QED BY <5>1
      <4>2. QED BY <4>1 DEF Somewhere
    <3>3. CASE c # b
      BY <1>3, <3>1, <3>3 DEF Lend, Somewhere
    <3>4. QED BY <3>2, <3>3
  <2>2. CASE \E c \in YuvBufs : Refuse(c)
    <3>1. PICK c \in YuvBufs : Refuse(c)
      BY <2>2
    <3>2. c \in ToSet(msgs') /\ client' = client \ {c}
      BY <3>1, CmdKeeps DEF Refuse
    <3>3. QED BY <1>3, <3>2 DEF Somewhere
  <2>3. CASE ~(\E c \in Bufs, last \in BOOLEAN : Lend(c, last)) /\ ~\E c \in YuvBufs : Refuse(c)
    <3>1. client' = client
      BY <2>3 DEF CmdStep, Flush, ReleaseIdle, Test, SetPending, CommandTouch, CommandTouched,
         PauseDone, SetPause, ResumeDone, Pause, Resume
    <3>2. QED BY <1>3, <3>1 DEF Somewhere
  <2>4. QED BY <2>1, <2>2, <2>3
<1>4. CASE b \in ToSet(queue[PortOf(b)])
  <2>1. CASE \E c \in Bufs, last \in BOOLEAN : Lend(c, last)
    <3>1. PICK c \in Bufs, last \in BOOLEAN : Lend(c, last)
      BY <2>1
    <3>2. b \in ToSet(queue'[PortOf(b)])
      <4>1. CASE PortOf(c) = PortOf(b)
        <5>1. ToSet(queue'[PortOf(c)]) = ToSet(queue[PortOf(c)]) \cup {c} \cup (IF last THEN {LastFrame} ELSE {})
          BY <1>1, <3>1, LendFacts, Zenon
        <5>2. QED BY <1>4, <4>1, <5>1
      <4>2. CASE PortOf(c) # PortOf(b)
        BY <1>1, <1>4, <3>1, <4>2, LendFacts
      <4>3. QED BY <4>1, <4>2
    <3>3. QED BY <3>2 DEF Somewhere
  <2>2. CASE \E q \in Port : ReleaseIdle(q)
    <3>1. PICK q \in Port : ReleaseIdle(q)
      BY <2>2
    <3>2. CASE q = PortOf(b)
      <4>1. b \in ToSet(queue'[PortOf(b)]) \cup ToSet(msgs')
        BY <1>1, <1>4, <3>1, <3>2, ReleaseKeeps
      <4>2. QED BY <4>1 DEF Somewhere
    <3>3. CASE q # PortOf(b)
      <4>1. queue'[PortOf(b)] = queue[PortOf(b)]
        BY <1>1, <3>1, <3>3, ReleaseFacts
      <4>2. QED BY <1>4, <4>1 DEF Somewhere
    <3>4. QED BY <3>2, <3>3
  <2>3. CASE ~(\E c \in Bufs, last \in BOOLEAN : Lend(c, last)) /\ ~\E q \in Port : ReleaseIdle(q)
    <3>1. queue' = queue
      BY <2>3 DEF CmdStep, Refuse, Flush, Test, SetPending, CommandTouch, CommandTouched,
         PauseDone, SetPause, ResumeDone, Pause, Resume
    <3>2. QED BY <1>4, <3>1 DEF Somewhere
  <2>4. QED BY <2>1, <2>2, <2>3
<1>5. QED BY <1>2, <1>3, <1>4 DEF Somewhere

LEMMA StepCInv == Room /\ AInv /\ BInv /\ CInv /\ [Next]_vars => CInv'
<1> SUFFICES ASSUME Room, AInv, BInv, CInv, [Next]_vars, ~torn', NEW b \in Bufs PROVE Somewhere(b)'
  BY DEF CInv
<1>1. Somewhere(b) /\ Types /\ ~torn
  <2>1. Types
    BY DEF AInv
  <2>2. ~torn
    BY <2>1, StillWrong
  <2>3. QED BY <2>1, <2>2 DEF CInv
<1>2. CASE GetMsg
  <2>1. /\ queue' = queue /\ dev' = dev /\ msgs # <<>> /\ msgs' = Tail(msgs) /\ msgs \in Seq(Bufs \cup Answer)
        /\ client' = client \/ (Head(msgs) \notin Answer /\ client' = client \cup {Head(msgs)})
    BY <1>1, <1>2 DEF GetMsg, Types
  <2>2. ToSet(msgs) = {Head(msgs)} \cup ToSet(msgs')
    BY <2>1, TailFacts
  <2>3. b = Head(msgs) => b \in client'
    BY <1>2, ConstFacts DEF GetMsg
  <2>4. b \in client => b \in client'
    BY <2>1
  <2>5. QED BY <1>1, <2>1, <2>2, <2>3, <2>4 DEF Somewhere, Leaving
<1>3. CASE UNCHANGED vars
  BY <1>1, <1>3 DEF vars, Somewhere, Leaving
<1>4. QED BY <1>1, <1>2, <1>3, DevSomewhere, CmdSomewhere, NextCases

LEMMA AlwaysCInv == Room /\ Spec => [](AInv /\ CInv)
<1>1. Room /\ AInv /\ BInv /\ CInv /\ [Next]_vars => CInv'
  BY StepCInv
<1>2. Init => CInv
  BY DEF Init, CInv, Somewhere
<1>3. Room => []Room
  <2>1. Room => Room'
    BY DEF Room
  <2>2. QED BY <2>1, PTL
<1>4. QED BY <1>1, <1>2, <1>3, AlwaysBInv, PTL DEF Spec

-----------------------------------------------------------------------------
(* How often a buffer occurs. *)

LEMMA OccursFacts ==
  ASSUME NEW S, NEW s \in Seq(S), NEW b, Single(s, b)
  PROVE  Occurrences(s, b) = IF b \in ToSet(s) THEN 1 ELSE 0
<1>1. CASE b \in ToSet(s)
  <2>1. PICK i \in DOMAIN s : s[i] = b
    BY <1>1 DEF ToSet
  <2>2. {j \in DOMAIN s : s[j] = b} = {i}
    BY <2>1 DEF Single
  <2>3. QED BY <1>1, <2>2, FS_Singleton DEF Occurrences
<1>2. CASE b \notin ToSet(s)
  <2>1. {j \in DOMAIN s : s[j] = b} = {}
    BY <1>2 DEF ToSet
  <2>2. QED BY <1>2, <2>1, FS_EmptySet DEF Occurrences
<1>3. QED BY <1>1, <1>2

LEMMA PlacedOnce ==
  ASSUME AInv, NEW b \in Bufs
  PROVE  Places(b) \in 0..1 /\ (Somewhere(b) => Places(b) = 1)
<1> DEFINE p == PortOf(b)
<1>1. p \in Port /\ b \in BufsOf(p) /\ b \in Mine(p) /\ Types /\ Own(p)
  <2>1. p \in Port /\ b \in BufsOf(p) /\ b \in Mine(p)
    BY ConstFacts
  <2>2. QED BY <2>1 DEF AInv, Port
<1>2. /\ Occurrences(queue[p], b) = IF b \in ToSet(queue[p]) THEN 1 ELSE 0
      /\ Occurrences(msgs, b) = IF b \in ToSet(msgs) THEN 1 ELSE 0
  <2>1. Single(queue[p], b) /\ Single(msgs, b) /\ queue[p] \in Seq(Things) /\ msgs \in Seq(Bufs \cup Answer)
    BY <1>1 DEF Own, Types
  <2>2. QED BY <2>1, OccursFacts
<1>3. Leaving(b) => b \notin ToSet(queue[p]) \cup client \cup ToSet(msgs)
  <2> SUFFICES ASSUME NEW q \in Port, dev[q].buf = b, dev[q].at \in Apart
               PROVE  b \notin ToSet(queue[p]) \cup client \cup ToSet(msgs)
    BY DEF Leaving, Apart
  <2>1. b \in Mine(q)
    BY <1>1 DEF Types, InHand, Apart
  <2>2. q = p
    BY <1>1, <2>1, ConstFacts DEF Port
  <2>3. QED BY <1>1, <2>2 DEF Own
<1>4. /\ b \in client => b \notin ToSet(queue[p]) /\ b \notin ToSet(msgs)
      /\ b \in ToSet(queue[p]) => b \notin ToSet(msgs)
  BY <1>1 DEF Own
<1>5. Somewhere(b) <=> b \in client \/ Leaving(b) \/ b \in ToSet(queue[p]) \/ b \in ToSet(msgs)
  BY DEF Somewhere
<1>6. QED BY <1>2, <1>3, <1>4, <1>5 DEF Places

(* However the threads overlap, every stream buffer the client lends comes *)
(* back once; no message about one is lost before a torn write, if the     *)
(* message queue has room for all.                                         *)
THEOREM NoStreamLost == Room /\ Spec => []StreamsKept
<1>1. AInv /\ CInv => StreamsKept
  BY PlacedOnce DEF StreamsKept, CInv, Bufs
<1>2. QED BY <1>1, AlwaysCInv, PTL

(* The same for the frame buffers, whether vpss_report_new_frame or        *)
(* vpss_release_frame gives them back, or a flush, or channel_fill_frame   *)
(* refuses them; and a frame is deleted from the list twice only after a   *)
(* flush has met vpss_release_frame.                                       *)
THEOREM NoFrameLost == Room /\ Spec => []FramesKept
<1>1. AInv /\ CInv => FramesKept
  BY PlacedOnce DEF FramesKept, CInv, Bufs, AInv, Listed
<1>2. QED BY <1>1, AlwaysCInv, PTL
=============================================================================
