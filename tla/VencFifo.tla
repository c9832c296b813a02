------------------------------ MODULE VencFifo ------------------------------
(***************************************************************************)
(* What the video encoder promises the source of one channel: frames come  *)
(* back in the order they were queued, each once, as if the driver were    *)
(* one FIFO; when the channel has been stopped all of them are back.  Only *)
(* what is queued on a stopped channel may go under with it.               *)
(***************************************************************************)
EXTENDS Integers, Sequences

CONSTANT Frame
VARIABLES given,   \* the frames the source has
          pipe,    \* the frames the driver has, oldest first
          on       \* the channel is started, or its stop has not ended

fvars == <<given, pipe, on>>

Init == given = Frame /\ pipe = <<>> /\ on = FALSE

Queue(f) ==
  /\ f \in given
  /\ given' = given \ {f} /\ pipe' = Append(pipe, f)
  /\ UNCHANGED on

Start == ~on /\ on' = TRUE /\ UNCHANGED <<given, pipe>>

(* The n oldest frames go back: the frame that was encoded, one that was    *)
(* skipped, those QuickEncode leaves out.                                   *)
Return(n) ==
  /\ on
  /\ given' = given \union {pipe[i] : i \in 1..n}
  /\ pipe' = SubSeq(pipe, n + 1, Len(pipe))
  /\ UNCHANGED on

Stop ==
  /\ on /\ on' = FALSE
  /\ given' = given \union {pipe[i] : i \in 1..Len(pipe)}
  /\ pipe' = <<>>

(* The channel is destroyed.                                                *)
Drop == ~on /\ pipe' = <<>> /\ UNCHANGED <<given, on>>

Next ==
  \/ \E f \in Frame : Queue(f)
  \/ \E n \in 1..Len(pipe) : Return(n)
  \/ Start \/ Stop \/ Drop

Spec == Init /\ [][Next]_fvars
=============================================================================
