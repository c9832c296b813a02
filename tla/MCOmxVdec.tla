----------------------------- MODULE MCOmxVdec ------------------------------
(***************************************************************************)
(* OmxVdec for TLC.                                                        *)
(***************************************************************************)
EXTENDS OmxVdec, TLC

(* The frame buffers are alike.                                            *)
SameFrames == Permutations(YuvBufs)

(* Behaviours are followed up to their first race, and the state right     *)
(* after it: the properties say nothing, or less, of what comes then.      *)
UpToTheFirstRace == ~torn /\ ~mixed
=============================================================================
