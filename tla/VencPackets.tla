---------------------------- MODULE VencPackets ----------------------------
(***************************************************************************)
(* What the stream buffer of an encoder channel promises: the encoder      *)
(* hands packets over whole, the user takes them in that order and gives   *)
(* them back in that order.  A packet is its length.                       *)
(***************************************************************************)
EXTENDS Naturals, Sequences, SequencesExt

VARIABLES ready, taken

pvars == <<ready, taken>>

Init == ready = <<>> /\ taken = <<>>

HandOver == IsStrictPrefix(ready, ready') /\ UNCHANGED taken

Take ==
  /\ ready # <<>>
  /\ ready' = Tail(ready)
  /\ taken' = Append(taken, Head(ready))

GiveBack ==
  /\ taken # <<>>
  /\ taken' = Tail(taken)
  /\ UNCHANGED ready

Next == HandOver \/ Take \/ GiveBack
=============================================================================
