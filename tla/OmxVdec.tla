------------------------------ MODULE OmxVdec ------------------------------
(***************************************************************************)
(* The buffers of one channel of the OMX decoder driver                    *)
(* (source/msp/drv/omxvdec/channel.c, msg.c): the client lends stream      *)
(* buffers to the port "in" and frame buffers to the port "out"; the       *)
(* decoder firmware takes streams, the video post-processor (VPSS) takes   *)
(* and fills frames; every buffer goes back to the client in a message,    *)
(* as do the answers to flush, pause and resume.                           *)
(*                                                                         *)
(* Four threads: the client's command thread, the firmware, the VPSS task  *)
(* and the client's message thread.  The two queues have a lock each; the  *)
(* use counts and the pending flags have none, and the flags are bits of   *)
(* one word (chan_ctx_s), so that a write of one reads and writes them     *)
(* all: of a pending flag, and of the word's other bits too, whose values  *)
(* are left out (eos_recv_flag, eof_send_flag, recfg_flag, reset_pending,  *)
(* progress).  Reads that follow one another are one step.                 *)
(*                                                                         *)
(* Two things go wrong when threads overlap, and the variables torn and    *)
(* mixed remember whether they have: the properties say what holds up to   *)
(* then.                                                                   *)
(*                                                                         *)
(* Not modelled: create, start, stop and release of the channel, the       *)
(* message of a new picture size, the table of bound buffers, time-outs of *)
(* the message thread.  Apart from its writes of the word channel_reset    *)
(* changes nothing here, nor does channel_clear_stream: they make the      *)
(* devices give back sooner what they give back anyway.                    *)
(***************************************************************************)
EXTENDS Integers, Sequences, SequencesExt, FiniteSetsExt

CONSTANTS
  RawBufs,    \* the stream buffers the client has bound
  YuvBufs,    \* the frame buffers
  LastFrame,  \* last_frame: the stream the driver itself adds at the end
  NoBuf,      \* no buffer
  Depth,      \* QUEUE_DEFAULT_DEPTH
  Overlap     \* may the three threads be inside the driver at once?

Port == {"in", "out"}
Bufs == RawBufs \cup YuvBufs
BufsOf(p) == IF p = "in" THEN RawBufs ELSE YuvBufs
PortOf(b) == IF b \in YuvBufs THEN "out" ELSE "in"
Answer == Port \cup {"paused", "resumed"}     \* of a flush: the port

ASSUME OmxVdecAssumption ==
  /\ IsFiniteSet(Bufs) /\ RawBufs \cap YuvBufs = {}
  /\ LastFrame \notin Bufs /\ NoBuf \notin Bufs \cup {LastFrame}
  /\ (Bufs \cup {LastFrame}) \cap Answer = {}
  /\ Depth \in Nat \ {0} /\ Overlap \in BOOLEAN

VARIABLES
  client,   \* the buffers the client has
  queue,    \* raw_queue and yuv_queue
  status,   \* vdec_buf_s.status
  use,      \* raw_use_cnt and yuv_use_cnt
  flags,    \* the word: the ports being flushed, "paused" while pausing
  state,    \* CHAN_STATE_WORK or CHAN_STATE_PAUSE
  msgs,     \* msg_queue: buffers and answers, oldest first
  held,     \* the buffers each device works on
  dev,      \* the callback each device is in: its place, buffer, flags read
  cmd,      \* the call the command thread is in: place, ports, flags read
  asked,    \* the answers the client waits for
  torn,     \* has a write of the word undone another thread's write?
  mixed     \* has a flush of "out" met vpss_release_frame half-way?

vars == <<client, queue, status, use, flags, state, msgs, held, dev, cmd, asked,
          torn, mixed>>

Word == SUBSET (Port \cup {"paused"})

(* Where a callback and a command may stand.                               *)
AtIn == {"idle", "get", "post", "count", "end", "clear"}
AtOut == {"uncount", "decide", "postlate", "endpause", "clearpause",
          "eof", "eofset", "touchset", "stuck"}
CmdAt == {"idle", "freeout", "freein", "testin", "testout", "setin", "setout",
          "postpause", "setpause", "resume", "reset", "resetset", "touch", "touchset"}

NoCall == [at |-> "idle", buf |-> NoBuf, word |-> {}]
NoCmd == [at |-> "idle", ports |-> {}, word |-> {}]

Init ==
  /\ client = Bufs
  /\ queue = [p \in Port |-> <<>>]
  /\ status = [b \in Bufs \cup {LastFrame} |-> "idle"]
  /\ use = [p \in Port |-> 0]
  /\ flags = {}
  /\ state = "work"
  /\ msgs = <<>>
  /\ held = [p \in Port |-> {}]
  /\ dev = [p \in Port |-> NoCall]
  /\ cmd = NoCmd
  /\ asked = {} /\ torn = FALSE /\ mixed = FALSE

(* Whether a thread may enter the driver now.                              *)
Quiet(p) == dev[p].at = "idle"
MayEnter == Overlap \/ (cmd.at = "idle" /\ \A p \in Port : Quiet(p))

(* Mutant: the new message takes the place of those not read yet.          *)
PostOver(ms) == msgs' = ms

(* msg_queue: with no free element the message is lost.                    *)
Post(ms) ==
  LET all == msgs \o ms IN
  msgs' = IF Len(all) <= Depth THEN all ELSE SubSeq(all, 1, Depth)

(* A write of the bits own of the word, which was read as word.            *)
Write(word, own, on) ==
  /\ flags' = (word \ own) \cup on
  /\ torn' = (torn \/ word \ own # flags \ own)

-----------------------------------------------------------------------------
(* The devices' callbacks.                                                 *)

(* The places where a callback has taken a buffer from its device and not  *)
(* done with it.                                                           *)
InHand == {"eof", "eofset", "post", "count", "uncount", "decide", "postlate"}

Reach(p, at, word) ==
  dev' = [dev EXCEPT ![p] =
            [at |-> at, buf |-> IF at \in InHand THEN @.buf ELSE NoBuf, word |-> word]]
Call(p, at) == Reach(p, at, {})

(* channel_get_stream and vpss_get_frame: state and flag are tested ...    *)
GetCheck(p) ==
  /\ MayEnter /\ Quiet(p)
  /\ state = "work" /\ p \notin flags
  /\ Call(p, "get")
  /\ UNCHANGED <<client, queue, status, use, flags, state, msgs, held, cmd, asked, torn, mixed>>

Takeable(p) == {i \in DOMAIN queue[p] : status[queue[p][i]] # "using"}

(* ... and, under the queue's lock, the first buffer not in use is taken.  *)
Get(p) ==
  /\ dev[p].at = "get"
  /\ IF Takeable(p) = {} THEN UNCHANGED <<status, use, held>>
     ELSE LET b == queue[p][Min(Takeable(p))] IN
          /\ status' = [status EXCEPT ![b] = "using"]
          /\ use' = [use EXCEPT ![p] = @ + 1]
          /\ held' = [held EXCEPT ![p] = @ \cup {b}]
  /\ Call(p, "idle")
  /\ UNCHANGED <<client, queue, flags, state, msgs, cmd, asked, torn, mixed>>

(* The device gives buffer b back: channel_release_stream, and with a      *)
(* picture vpss_report_new_frame, take it out of the queue; so does        *)
(* vpss_release_frame, without a picture, only if it is not to go on       *)
(* lending the buffer, which it finds out later.  Of the last picture      *)
(* vpss_report_new_frame counts eof_send_flag up.                          *)
Enter(p, b, at, keeps) ==
  /\ MayEnter /\ Quiet(p) /\ b \in held[p]
  /\ held' = [held EXCEPT ![p] = @ \ {b}]
  /\ IF b \notin ToSet(queue[p]) THEN UNCHANGED <<queue, status, dev>>
     ELSE /\ status' = [status EXCEPT ![b] = "idle"]
          /\ queue' = IF keeps THEN queue ELSE [queue EXCEPT ![p] = RemoveFirst(@, b)]
          /\ dev' = [dev EXCEPT ![p] = [at |-> at, buf |-> b, word |-> {}]]
  /\ UNCHANGED <<client, use, flags, state, msgs, cmd, asked, torn, mixed>>

ReleaseStream(b) == Enter("in", b, "post", FALSE)
ReportNewFrame(b) == Enter("out", b, "post", FALSE) \/ Enter("out", b, "eof", FALSE)

(* Mutant: it takes the frame out of the queue at once.                    *)
ReleaseFrameTakes(b) == Enter("out", b, "uncount", FALSE)

ReleaseFrame(b) == Enter("out", b, "uncount", TRUE)

(* The other bits of the word that the VPSS task writes: progress for each *)
(* picture, recfg_flag for a new size, eof_send_flag.                      *)
Touch ==
  LET at == dev["out"].at IN
  /\ (at = "idle" /\ MayEnter) \/ at = "eof"
  /\ Reach("out", IF at = "eof" THEN "eofset" ELSE "touchset", flags)
  /\ UNCHANGED <<client, queue, status, use, flags, state, msgs, held, cmd, asked, torn, mixed>>

Touched ==
  LET at == dev["out"].at IN
  /\ at \in {"eofset", "touchset"}
  /\ Write(dev["out"].word, {}, {})
  /\ Call("out", IF at = "eofset" THEN "post" ELSE "idle")
  /\ UNCHANGED <<client, queue, status, use, state, msgs, held, cmd, asked, mixed>>

(* The message that gives the buffer back, except for last_frame.          *)
GiveBack(p) ==
  /\ dev[p].at \in {"post", "postlate"}
  /\ IF dev[p].buf = LastFrame THEN UNCHANGED msgs ELSE Post(<<dev[p].buf>>)
  /\ Call(p, IF dev[p].at = "post" THEN "count" ELSE "end")
  /\ UNCHANGED <<client, queue, status, use, flags, state, held, cmd, asked, torn, mixed>>

(* Mutant: the count stays as it is.                                       *)
LowerNever(n) == n

Lower(n) == IF n > 0 THEN n - 1 ELSE 0

CountDown(p) ==
  /\ dev[p].at \in {"count", "uncount"}
  /\ use' = [use EXCEPT ![p] = Lower(@)]
  /\ Call(p, IF dev[p].at = "count" THEN "end" ELSE "decide")
  /\ UNCHANGED <<client, queue, status, flags, state, msgs, held, cmd, asked, torn, mixed>>

(* Where a flush has been through the queue of port p, not to its end yet. *)
Past(p) == cmd.at \in IF p = "in" THEN {"testin", "setin"}
                      ELSE {"freein", "testin", "setin", "testout", "setout"}

(* A flush and vpss_release_frame are half-way through the same frame.     *)
Meets(now) == mixed' = (mixed \/ now)

(* Mutant: only a flush is thought of.                                     *)
WantedOnFlush == "out" \in flags

(* vpss_release_frame: a frame goes back to the client when there is a     *)
(* flush or a pause, otherwise it is lent again.  If a flush has deleted   *)
(* it from the list already the second list_del stops the task.            *)
Wanted == flags \cap {"out", "paused"} # {}

Decide ==
  LET b == dev["out"].buf IN
  /\ dev["out"].at = "decide"
  /\ IF Wanted
     THEN /\ queue' = [queue EXCEPT !["out"] = RemoveFirst(@, b)]
          /\ Call("out", IF b \in ToSet(queue["out"]) THEN "postlate" ELSE "stuck")
          /\ UNCHANGED status
     ELSE /\ status' = [status EXCEPT ![b] = "queued"]
          /\ Call("out", "idle")
          /\ UNCHANGED queue
  /\ Meets(Past("out") /\ "out" \in cmd.ports)
  /\ UNCHANGED <<client, use, flags, state, msgs, held, cmd, asked, torn>>

(* Mutant: the flush is answered although buffers are still in use.        *)
AnswersEarly(p, a) == a \in flags

Answers(p, a) == a \in flags /\ use[p] = 0

(* The end of a callback: the last buffer back answers a pending flush     *)
(* and, on the output port, a pending pause; then the flag is cleared.     *)
End(p) ==
  /\ dev[p].at = "end"
  /\ IF Answers(p, p)
     THEN /\ Post(<<p>>)
          /\ Reach(p, "clear", flags)
     ELSE /\ Call(p, IF p = "out" /\ use[p] = 0 THEN "endpause" ELSE "idle")
          /\ UNCHANGED msgs
  /\ UNCHANGED <<client, queue, status, use, flags, state, held, cmd, asked, torn, mixed>>

Clear(p) ==
  /\ dev[p].at = "clear"
  /\ Write(dev[p].word, {p}, {})
  /\ Call(p, IF p = "out" THEN "endpause" ELSE "idle")
  /\ UNCHANGED <<client, queue, status, use, state, msgs, held, cmd, asked, mixed>>

EndPause ==
  /\ dev["out"].at = "endpause"
  /\ IF "paused" \in flags
     THEN /\ Post(<<"paused">>)
          /\ Reach("out", "clearpause", flags)
     ELSE Call("out", "idle") /\ UNCHANGED msgs
  /\ UNCHANGED <<client, queue, status, use, flags, state, held, cmd, asked, torn, mixed>>

ClearPause ==
  /\ dev["out"].at = "clearpause"
  /\ Write(dev["out"].word, {"paused"}, {})
  /\ Call("out", "idle")
  /\ UNCHANGED <<client, queue, status, use, state, msgs, held, cmd, asked, mixed>>

-----------------------------------------------------------------------------
(* The command thread.  The client lends no buffer to a port it flushes    *)
(* (m_port_flushing) and waits for the answer before it asks again.        *)

MayCommand == MayEnter /\ cmd.at = "idle"
Order(at, ports, word) == cmd' = [at |-> at, ports |-> ports, word |-> word]

(* A flush goes on with its ports.                                         *)
Command(at) ==
  Order(at, IF at \in {"freein", "testin", "testout"} THEN cmd.ports ELSE {}, {})

(* channel_empty_stream and channel_fill_frame.  After the last stream of  *)
(* the client the driver queues one of its own and sets eos_recv_flag; the *)
(* client does not end a stream again while that one is in the driver.     *)
Lend(b, last) ==
  LET p == PortOf(b) IN
  /\ MayCommand /\ b \in client /\ p \notin asked
  /\ last => /\ p = "in" /\ LastFrame \notin ToSet(queue["in"])
             /\ dev["in"].at \in {"post", "count"} => dev["in"].buf # LastFrame
  /\ client' = client \ {b}
  /\ queue' = [queue EXCEPT ![p] = @ \o (IF last THEN <<b, LastFrame>> ELSE <<b>>)]
  /\ status' = [c \in DOMAIN status |->
                  IF c = b \/ (last /\ c = LastFrame) THEN "queued" ELSE status[c]]
  /\ Command(IF last THEN "touch" ELSE "idle")
  /\ UNCHANGED <<use, flags, state, msgs, held, dev, asked, torn, mixed>>

(* channel_fill_frame does not take a frame whose address is not aligned.  *)
Refuse(b) ==
  /\ MayCommand /\ b \in client \cap YuvBufs /\ "out" \notin asked
  /\ client' = client \ {b}
  /\ Post(<<b>>)
  /\ UNCHANGED <<queue, status, use, flags, state, held, dev, cmd, asked, torn, mixed>>

(* channel_flush_port, first the output, then the input queue: everything  *)
(* not in use goes back (channel_release_idle_buffers).                    *)
Flush(ports) ==
  /\ MayCommand /\ ports \cap asked = {}
  /\ Order(IF "out" \in ports THEN "freeout" ELSE "freein", ports, {})
  /\ asked' = asked \cup ports
  /\ UNCHANGED <<client, queue, status, use, flags, state, msgs, held, dev, torn, mixed>>

(* What stands in sequence s at the places I, in the order of s.           *)
Those(s, I) ==
  [k \in 1..Cardinality(I) |-> s[CHOOSE i \in I : Cardinality({j \in I : j <= i}) = k]]

(* Mutant: buffers in use are thrown out of the queue as well.             *)
InUseNone(b) == FALSE

InUse(b) == status[b] = "using"

ReleaseIdle(p) ==
  LET q == queue[p]
      idle == {i \in DOMAIN q : ~InUse(q[i])}
  IN
  /\ cmd.at = IF p = "out" THEN "freeout" ELSE "freein"
  /\ queue' = [queue EXCEPT ![p] = Those(q, DOMAIN q \ idle)]
  /\ status' = [b \in DOMAIN status |->
                  IF \E i \in idle : q[i] = b THEN "idle" ELSE status[b]]
  /\ Post(Those(q, {i \in idle : q[i] # LastFrame}))
  /\ Command(IF p = "out" /\ "in" \in cmd.ports THEN "freein"
             ELSE IF "in" \in cmd.ports THEN "testin" ELSE "testout")
  /\ Meets(p = "out" /\ dev["out"].at \in {"uncount", "decide"})
  /\ UNCHANGED <<client, use, flags, state, held, dev, asked, torn>>

(* Where the flush goes on after the input port; after the output port it  *)
(* resets the channel, which writes reset_pending twice, or else clears    *)
(* recfg_flag.                                                             *)
After(p) == IF p = "out" THEN {"reset", "touch"}
            ELSE {IF "out" \in cmd.ports THEN "testout" ELSE "idle"}

Then(p) == \E at \in After(p) : Command(at)

(* Mutant: the flush does not wait for the devices.                        *)
BusyNever(p) == FALSE

Busy(p) == use[p] > 0

(* Then, the input port first, the flush is answered at once or left to    *)
(* the device that gives the last buffer back.                             *)
Test(p) ==
  /\ cmd.at = IF p = "in" THEN "testin" ELSE "testout"
  /\ IF Busy(p)
     THEN /\ Order(IF p = "in" THEN "setin" ELSE "setout", cmd.ports, flags)
          /\ UNCHANGED msgs
     ELSE Then(p) /\ Post(<<p>>)
  /\ Meets(p = "out" /\ dev["out"].at \in {"decide", "postlate"})
  /\ UNCHANGED <<client, queue, status, use, flags, state, held, dev, asked, torn>>

SetPending(p) ==
  /\ cmd.at = IF p = "in" THEN "setin" ELSE "setout"
  /\ Write(cmd.word, {p}, {p})
  /\ Then(p)
  /\ UNCHANGED <<client, queue, status, use, state, msgs, held, dev, asked, mixed>>

(* The other bits of the word that the command thread writes:              *)
(* reset_pending, recfg_flag and eos_recv_flag.                            *)
CommandTouch ==
  /\ cmd.at \in {"reset", "touch"}
  /\ Order(IF cmd.at = "reset" THEN "resetset" ELSE "touchset", {}, flags)
  /\ UNCHANGED <<client, queue, status, use, flags, state, msgs, held, dev, asked, torn, mixed>>

CommandTouched ==
  /\ cmd.at \in {"resetset", "touchset"}
  /\ Write(cmd.word, {}, {})
  /\ Command(IF cmd.at = "resetset" THEN "touch" ELSE "idle")
  /\ UNCHANGED <<client, queue, status, use, state, msgs, held, dev, asked, mixed>>

(* channel_pause                                                           *)
Pause ==
  /\ MayCommand /\ state = "work" /\ {"paused", "resumed"} \cap asked = {}
  /\ state' = "pause" /\ asked' = asked \cup {"paused"}
  /\ IF use["out"] = 0 THEN Command("postpause") ELSE Order("setpause", {}, flags)
  /\ UNCHANGED <<client, queue, status, use, flags, msgs, held, dev, torn, mixed>>

PauseDone ==
  /\ cmd.at = "postpause" /\ Command("idle")
  /\ Post(<<"paused">>)
  /\ UNCHANGED <<client, queue, status, use, flags, state, held, dev, asked, torn, mixed>>

SetPause ==
  /\ cmd.at = "setpause" /\ Command("idle")
  /\ Write(cmd.word, {"paused"}, {"paused"})
  /\ UNCHANGED <<client, queue, status, use, state, msgs, held, dev, asked, mixed>>

(* channel_resume: the flag is cleared only if it is set.                  *)
Resume ==
  /\ MayCommand /\ state = "pause" /\ {"paused", "resumed"} \cap asked = {}
  /\ asked' = asked \cup {"resumed"}
  /\ Order("resume", {}, flags)
  /\ UNCHANGED <<client, queue, status, use, flags, state, msgs, held, dev, torn, mixed>>

ResumeDone ==
  /\ cmd.at = "resume" /\ Command("idle")
  /\ IF "paused" \in cmd.word THEN Write(cmd.word, {"paused"}, {})
     ELSE UNCHANGED <<flags, torn>>
  /\ state' = "work"
  /\ Post(<<"resumed">>)
  /\ UNCHANGED <<client, queue, status, use, held, dev, asked, mixed>>

(* The message thread: msg_dequeue.                                        *)
GetMsg ==
  /\ msgs # <<>>
  /\ msgs' = Tail(msgs)
  /\ IF Head(msgs) \in Answer
     THEN asked' = asked \ {Head(msgs)} /\ UNCHANGED client
     ELSE client' = client \cup {Head(msgs)} /\ UNCHANGED asked
  /\ UNCHANGED <<queue, status, use, flags, state, held, dev, cmd, torn, mixed>>

-----------------------------------------------------------------------------
(* What the devices do once they are inside a callback.                    *)
Inside(p) ==
  Get(p) \/ GiveBack(p) \/ CountDown(p) \/ End(p) \/ Clear(p)
InsideOut == Decide \/ EndPause \/ ClearPause \/ (~Quiet("out") /\ Touch) \/ Touched

(* The devices give their buffers back.                                    *)
Returns ==
  \/ \E b \in RawBufs \cup {LastFrame} : ReleaseStream(b)
  \/ \E b \in YuvBufs : ReportNewFrame(b) \/ ReleaseFrame(b)

(* What the command thread does once it is inside a call.                  *)
Goes ==
  \/ \E p \in Port : ReleaseIdle(p) \/ Test(p) \/ SetPending(p)
  \/ CommandTouch \/ CommandTouched \/ PauseDone \/ SetPause \/ ResumeDone

Next ==
  \/ \E p \in Port : GetCheck(p) \/ Inside(p)
  \/ Touch \/ InsideOut \/ Returns
  \/ \E b \in Bufs, last \in BOOLEAN : Lend(b, last)
  \/ \E b \in YuvBufs : Refuse(b)
  \/ \E ports \in (SUBSET Port) \ {{}} : Flush(ports)
  \/ Pause \/ Resume \/ Goes
  \/ GetMsg

Spec == Init /\ [][Next]_vars

(* A thread inside a call goes on with it, the devices give back what they *)
(* work on and the message thread reads on.  SF because a device that may  *)
(* not enter beside another thread gets its turn between two calls.        *)
Fairness ==
  /\ \A p \in Port : WF_vars(Inside(p))
  /\ WF_vars(InsideOut) /\ WF_vars(Goes) /\ WF_vars(GetMsg)
  /\ \A b \in RawBufs \cup {LastFrame} : SF_vars(ReleaseStream(b))
  /\ \A b \in YuvBufs : SF_vars(ReportNewFrame(b) \/ ReleaseFrame(b))

FairSpec == Spec /\ Fairness

-----------------------------------------------------------------------------
(* Properties.                                                             *)

(* Every variable stays in its set: the use counts do not pass the number  *)
(* of buffers, the queue of messages its length.                           *)
TypeOK ==
  /\ client \subseteq Bufs /\ asked \subseteq Answer
  /\ \A p \in Port : ToSet(queue[p]) \subseteq BufsOf(p) \cup {LastFrame}
  /\ status \in [Bufs \cup {LastFrame} -> {"idle", "queued", "using"}]
  /\ \A p \in Port : use[p] \in 0..(Cardinality(BufsOf(p)) + 1)
  /\ flags \in Word /\ state \in {"work", "pause"}
  /\ Len(msgs) <= Depth /\ ToSet(msgs) \subseteq Bufs \cup Answer
  /\ \A p \in Port : held[p] \subseteq BufsOf(p) \cup {LastFrame}
  /\ dev \in [Port -> [at : AtIn \cup AtOut, buf : Bufs \cup {LastFrame, NoBuf}, word : Word]]
  /\ dev["in"].at \in AtIn
  /\ cmd \in [at : CmdAt, ports : SUBSET Port, word : Word]
  /\ torn \in BOOLEAN /\ mixed \in BOOLEAN

Occurrences(s, b) == Cardinality({i \in DOMAIN s : s[i] = b})

(* A buffer taken out of its queue whose message is not posted yet.        *)
Leaving(b) ==
  \E p \in Port : dev[p].buf = b /\ dev[p].at \in {"eof", "eofset", "post", "postlate"}

Places(b) ==
  (IF b \in client THEN 1 ELSE 0) + (IF Leaving(b) THEN 1 ELSE 0)
  + Occurrences(queue[PortOf(b)], b) + Occurrences(msgs, b)

(* However the threads overlap, every stream buffer the client lends comes *)
(* back exactly once.  It is lost for want of room in the message queue at *)
(* most after a torn write of the flags, which can repeat answers.         *)
StreamsKept == \A b \in RawBufs : Places(b) \in 0..1 /\ (~torn => Places(b) = 1)

(* The same for the frame buffers; and vpss_release_frame deletes no frame *)
(* from the list that is not in it, unless a flush has come in between.    *)
FramesKept ==
  /\ \A b \in YuvBufs : Places(b) \in 0..1 /\ (~torn => Places(b) = 1)
  /\ dev["out"].at = "stuck" => mixed

(* The decoder's and the VPSS's buffers are marked as in use and are still *)
(* in their queue: a flush does not give away what a device works on.      *)
HeldInUse ==
  \A p \in Port : \A b \in held[p] : status[b] = "using" /\ b \in ToSet(queue[p])

(* When the client reads that port p is flushed it has every buffer of     *)
(* that port: none is in the driver, none comes in a later message.        *)
Flushed(p) ==
  \A i \in DOMAIN msgs : msgs[i] = p =>
    /\ queue[p] = <<>>
    /\ \A j \in DOMAIN msgs : msgs[j] \in BufsOf(p) => j < i
    /\ \A b \in BufsOf(p) : ~Leaving(b)

(* However the threads overlap a flush of the input port is answered in    *)
(* time, unless a torn write has brought a pending flag back: then one is  *)
(* answered that nobody has asked for.                                     *)
InputFlushed == ~torn => Flushed("in")

(* A flush of the output port, unless also it has met vpss_release_frame,  *)
(* which then puts a frame back behind it.                                 *)
OutputFlushed == ~torn /\ ~mixed => Flushed("out")

(* Every flush, pause and resume is answered.  If calls overlap this       *)
(* fails: the last buffer may come back between the test of the use count  *)
(* and the setting of the flag.                                            *)
Answered == \A a \in Answer : a \in asked ~> a \notin asked
=============================================================================
