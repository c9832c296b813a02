---------------------------- MODULE MCVencFrames ----------------------------
(* Values for the function-valued constants of VencFrames.                  *)
EXTENDS VencFrames

SamePriority == [c \in Chn |-> 0]          \* the channels take turns
OwnPriority == [c \in Chn |-> c % 2]      \* odd channels go first

(* What a frame is does not matter; used in a run without liveness only.    *)
SameFrames == Permutations(Frame)
=============================================================================
