----------------------------- MODULE MmzOwners -----------------------------
(***************************************************************************)
(* What the media memory zones (MMZ) promise: a block of memory belongs to *)
(* those who have allocated it and to those who have it mapped.  It is     *)
(* given out only when it belongs to nobody, and goes back to the zone in  *)
(* the step in which the last of them lets go of it, no earlier, no later. *)
(***************************************************************************)
CONSTANTS Blocks, Actors

VARIABLES
  used,    \* the blocks that are not free
  owners,  \* for each block, the actors that have allocated it
  maps     \* for each block, the actors that have it mapped

ovars == <<used, owners, maps>>

Init ==
  /\ used = {}
  /\ owners = [b \in Blocks |-> {}]
  /\ maps = [b \in Blocks |-> {}]

Allocate(b, a) ==
  /\ b \notin used /\ maps[b] = {}
  /\ used' = used \cup {b}
  /\ owners' = [owners EXCEPT ![b] = {a}]
  /\ UNCHANGED maps

Map(b, a) ==
  /\ b \in used
  /\ maps' = [maps EXCEPT ![b] = @ \cup {a}]
  /\ UNCHANGED <<used, owners>>

(* The actors O give the block back, the actors M unmap it.                *)
Drop(b, O, M) ==
  /\ b \in used
  /\ owners' = [owners EXCEPT ![b] = @ \ O]
  /\ maps' = [maps EXCEPT ![b] = @ \ M]
  /\ used' = IF owners'[b] \cup maps'[b] = {} THEN used \ {b} ELSE used

Next ==
  \E b \in Blocks, a \in Actors :
    Allocate(b, a) \/ Map(b, a) \/ Drop(b, {a}, {}) \/ Drop(b, {}, {a})

Spec == Init /\ [][Next]_ovars
=============================================================================
