-------------------------------- MODULE Mmz --------------------------------
(***************************************************************************)
(* The media memory zones (source/common/drv/mmz, the version of the       *)
(* default configuration): drv_media_mem.c keeps a block for every piece   *)
(* of memory it has taken from the zone, with two reference counts and a   *)
(* flag for a release that has to wait; drv_mmz_userdev.c keeps for every  *)
(* open file a list of the blocks it has allocated, with counts of its     *)
(* own; drivers allocate and map blocks of their own and map those of a    *)
(* user (drv_mmz_intf.c), and look a block up by its address each time.    *)
(*                                                                         *)
(* mmz_lock is held inside each function of drv_media_mem.c, the           *)
(* semaphore of a file during each ioctl: a step is one critical section   *)
(* of mmz_lock and what follows it.  The flag HIL_MMB_MAP2KERN is left     *)
(* out: it is set exactly while map_ref > 0.                               *)
(*                                                                         *)
(* Not modelled: sizes, alignment and choice of the zone, a lack of        *)
(* memory, cached mappings and flushes, the look-up by user address; a     *)
(* second driver, and the calls of a driver that count or map a block in   *)
(* another way (get_mmb, put_mmb, refer_mapped_mmb, remap_mmb_2).          *)
(***************************************************************************)
EXTENDS Integers

CONSTANTS
  Blocks,     \* the pieces of memory, by their physical address
  Files,      \* the open files of the device
  Driver,     \* the kernel drivers
  NoBlock,    \* no block
  MaxRef,     \* bounds the references of a user and of the driver to a block
  Balanced,   \* does a user drop only references it has added?
  Together,   \* may a user free a block a driver has looked up to map it?
  MayFail     \* may do_munmap fail?

ASSUME MmzAssumption ==
  /\ NoBlock \notin Blocks /\ Driver \notin Files
  /\ MaxRef \in Nat \ {0}
  /\ Balanced \in BOOLEAN /\ Together \in BOOLEAN /\ MayFail \in BOOLEAN

VARIABLES
  zone,      \* mmb_list: the blocks taken from the zone
  phyRef,    \* mmb->phy_ref
  kmapRef,   \* mmb->map_ref
  released,  \* HIL_MMB_RELEASED
  list,      \* for each file, its list of blocks
  mmbRef,    \* mmb_info.mmb_ref, for each file and block
  mapRef,    \* mmb_info.map_ref
  mapped,    \* the blocks of a file whose mmb_info.mapped is not NULL
  delayed,   \* mmb_info.delayed_free
  vma,       \* the blocks in the address space of the file's process
  call,      \* the call each file is in
  closing,   \* the files being closed
  drv,       \* the call the driver is in
  own,       \* the blocks the driver has allocated
  dmaps      \* the driver's mappings of each block

block == <<zone, phyRef, kmapRef, released>>
info == <<list, mmbRef, mapRef, mapped, delayed>>
driver == <<drv, own, dmaps>>
vars == <<block, info, vma, call, closing, driver>>

NoCall == [at |-> "idle", blk |-> NoBlock]

Init ==
  /\ zone = {} /\ released = {}
  /\ phyRef = [b \in Blocks |-> 0] /\ kmapRef = [b \in Blocks |-> 0]
  /\ list = [f \in Files |-> {}] /\ mapped = [f \in Files |-> {}]
  /\ mmbRef = [f \in Files |-> [b \in Blocks |-> 0]]
  /\ mapRef = [f \in Files |-> [b \in Blocks |-> 0]]
  /\ delayed = [f \in Files |-> {}] /\ vma = [f \in Files |-> {}]
  /\ call = [f \in Files |-> NoCall] /\ closing = {}
  /\ drv = NoCall /\ own = {}
  /\ dmaps = [b \in Blocks |-> 0]

-----------------------------------------------------------------------------
(* drv_media_mem.c, each under mmz_lock.                                   *)

hil_mmb_alloc(b) ==
  /\ b \notin zone
  /\ zone' = zone \cup {b}
  /\ phyRef' = [phyRef EXCEPT ![b] = 0]
  /\ kmapRef' = [kmapRef EXCEPT ![b] = 0]
  /\ released' = released \ {b}

_mmb_free(b) == zone' = zone \ {b} /\ released' = released \ {b}

(* Mutant: no reference is taken.                                          *)
hil_mmb_getNone(b) == UNCHANGED block

hil_mmb_get(b) ==
  phyRef' = [phyRef EXCEPT ![b] = @ + 1] /\ UNCHANGED <<zone, kmapRef, released>>

(* The last reference to a released block frees it.                        *)
hil_mmb_put(b) ==
  /\ phyRef' = [phyRef EXCEPT ![b] = @ - 1]
  /\ IF b \in released /\ phyRef'[b] = 0 /\ kmapRef[b] = 0
     THEN _mmb_free(b) ELSE UNCHANGED <<zone, released>>
  /\ UNCHANGED kmapRef

(* Mutant: a block the kernel has mapped is freed.                         *)
hil_mmb_freeMapped(b) ==
  /\ IF b \in released THEN UNCHANGED <<zone, released>>
     ELSE IF phyRef[b] > 0
     THEN released' = released \cup {b} /\ UNCHANGED zone
     ELSE _mmb_free(b)
  /\ UNCHANGED <<phyRef, kmapRef>>

hil_mmb_free(b) ==
  /\ IF b \in released THEN UNCHANGED <<zone, released>>
     ELSE IF phyRef[b] > 0 \/ kmapRef[b] > 0
     THEN released' = released \cup {b} /\ UNCHANGED zone
     ELSE _mmb_free(b)
  /\ UNCHANGED <<phyRef, kmapRef>>

hil_mmb_map2kern(b) ==
  kmapRef' = [kmapRef EXCEPT ![b] = @ + 1] /\ UNCHANGED <<zone, phyRef, released>>

(* Mutant: a release that waits is forgotten.                              *)
hil_mmb_unmapKeeps(b) ==
  /\ kmapRef' = [kmapRef EXCEPT ![b] = IF @ > 0 THEN @ - 1 ELSE 0]
  /\ UNCHANGED <<zone, released, phyRef>>

hil_mmb_unmap(b) ==
  /\ kmapRef' = [kmapRef EXCEPT ![b] = IF @ > 0 THEN @ - 1 ELSE 0]
  /\ IF kmapRef'[b] = 0 /\ b \in released /\ phyRef[b] = 0
     THEN _mmb_free(b) ELSE UNCHANGED <<zone, released>>
  /\ UNCHANGED phyRef

-----------------------------------------------------------------------------
(* drv_mmz_userdev.c: the ioctls of a file follow one another.             *)

Ready(f) == f \notin closing /\ call[f].at = "idle"
Go(f, at, b) == call' = [call EXCEPT ![f] = [at |-> at, blk |-> b]]
Calling(f, at, b) == call[f].at = at /\ call[f].blk = b
Done(f) == call' = [call EXCEPT ![f] = NoCall]

(* ioctl_mmb_alloc: a new entry in the list, then a reference for it.      *)
ioctl_mmb_alloc(f, b) ==
  /\ Ready(f) /\ hil_mmb_alloc(b)
  /\ list' = [list EXCEPT ![f] = @ \cup {b}]
  /\ mmbRef' = [mmbRef EXCEPT ![f][b] = 0]
  /\ mapRef' = [mapRef EXCEPT ![f][b] = 0]
  /\ mapped' = [mapped EXCEPT ![f] = @ \ {b}]
  /\ delayed' = [delayed EXCEPT ![f] = @ \ {b}]
  /\ Go(f, "get", b)
  /\ UNCHANGED <<vma, closing, driver>>

AllocGet(f) ==
  /\ call[f].at = "get"
  /\ hil_mmb_get(call[f].blk) /\ Done(f)
  /\ UNCHANGED <<info, vma, closing, driver>>

(* ioctl_mmb_user_remap: the mapping there is, or a new one; do_mmap fails *)
(* for a block whose old mapping was never undone.                         *)
ioctl_mmb_user_remap(f, b) ==
  /\ Ready(f) /\ b \in list[f] /\ mmbRef[f][b] < MaxRef
  /\ b \in mapped[f] => mapRef[f][b] > 0
  /\ hil_mmb_get(b)
  /\ mapRef' = [mapRef EXCEPT ![f][b] = @ + 1]
  /\ mmbRef' = [mmbRef EXCEPT ![f][b] = @ + 1]
  /\ mapped' = [mapped EXCEPT ![f] = @ \cup {b}]
  /\ vma' = [vma EXCEPT ![f] = @ \cup {b}]
  /\ UNCHANGED <<list, delayed, call, closing, driver>>

(* ioctl_mmb_user_unmap: the reference goes first, with the last one the   *)
(* mapping, and then the block if its freeing was delayed.                 *)
ioctl_mmb_user_unmap(f, b) ==
  /\ Ready(f) /\ b \in list[f] \cap mapped[f]
  /\ mapRef[f][b] > 0 /\ mmbRef[f][b] > 0
  /\ hil_mmb_put(b)
  /\ mapRef' = [mapRef EXCEPT ![f][b] = @ - 1]
  /\ mmbRef' = [mmbRef EXCEPT ![f][b] = @ - 1]
  /\ IF mapRef[f][b] > 1 THEN UNCHANGED call ELSE Go(f, "munmap", b)
  /\ UNCHANGED <<list, mapped, delayed, vma, closing, driver>>

(* The code tests mmb_ref twice, map_ref not at all.                       *)
LastUse(f, b) == b \in delayed[f] /\ mmbRef[f][b] = 0

do_munmap(f) ==
  LET b == call[f].blk IN
  /\ call[f].at = "munmap"
  /\ \E gone \in IF MayFail THEN {{b}, {}} ELSE {{b}} :
       /\ mapped' = [mapped EXCEPT ![f] = @ \ gone]
       /\ vma' = [vma EXCEPT ![f] = @ \ gone]
  /\ IF LastUse(f, b) THEN Go(f, "put", b) ELSE Done(f)
  /\ UNCHANGED <<block, list, mmbRef, mapRef, delayed, closing, driver>>

AddRef(f, b) ==
  /\ Ready(f) /\ b \in list[f] /\ mmbRef[f][b] < MaxRef
  /\ hil_mmb_get(b)
  /\ mmbRef' = [mmbRef EXCEPT ![f][b] = @ + 1]
  /\ UNCHANGED <<list, mapRef, mapped, delayed, vma, call, closing, driver>>

(* Mutant: a free that was delayed is not made up for.                     *)
DecRefOnly(f, b) ==
  /\ Ready(f) /\ b \in list[f] /\ mmbRef[f][b] > mapRef[f][b]
  /\ hil_mmb_put(b)
  /\ mmbRef' = [mmbRef EXCEPT ![f][b] = @ - 1]
  /\ UNCHANGED <<list, mapRef, mapped, delayed, vma, call, closing, driver>>

DecRef(f, b) ==
  /\ Ready(f) /\ b \in list[f] /\ mmbRef[f][b] > 0
  /\ Balanced => mmbRef[f][b] > mapRef[f][b]
  /\ hil_mmb_put(b)
  /\ mmbRef' = [mmbRef EXCEPT ![f][b] = @ - 1]
  /\ IF b \in delayed[f] /\ mmbRef[f][b] = 1 THEN Go(f, "put", b) ELSE UNCHANGED call
  /\ UNCHANGED <<list, mapRef, mapped, delayed, vma, closing, driver>>

StillUsed(f, b) == mapRef[f][b] > 0 \/ mmbRef[f][b] > 0

ioctl_mmb_free(f, b) ==
  /\ Ready(f) /\ b \in list[f] \ delayed[f]
  /\ IF StillUsed(f, b)
     THEN delayed' = [delayed EXCEPT ![f] = @ \cup {b}] /\ UNCHANGED call
     ELSE Go(f, "put", b) /\ UNCHANGED delayed
  /\ UNCHANGED <<block, list, mmbRef, mapRef, mapped, vma, closing, driver>>

(* _usrdev_mmb_free: out of the list, the entry's reference, the block.    *)
FreePut(f) ==
  LET b == call[f].blk IN
  /\ call[f].at = "put"
  /\ list' = [list EXCEPT ![f] = @ \ {b}]
  /\ hil_mmb_put(b)
  /\ Go(f, "free", b)
  /\ UNCHANGED <<mmbRef, mapRef, mapped, delayed, vma, closing, driver>>

FreeBlock(f) ==
  LET b == call[f].blk IN
  /\ call[f].at = "free"
  /\ Together \/ drv.blk # b \/ drv.at = "unmap"
  /\ hil_mmb_free(b) /\ Done(f)
  /\ UNCHANGED <<info, vma, closing, driver>>

(* The process ends: its mappings go, then the file is released.           *)
Exit(f) ==
  /\ Ready(f)
  /\ closing' = closing \cup {f}
  /\ UNCHANGED <<block, info, vma, call, driver>>

ExitUnmap(f, b) ==
  /\ f \in closing /\ b \in vma[f]
  /\ vma' = [vma EXCEPT ![f] = @ \ {b}]
  /\ UNCHANGED <<block, info, call, closing, driver>>

(* Mutant: the references of the entry are dropped at once, not one by one.*)
ReleaseEntryOnce(f, b) ==
  /\ f \in closing /\ vma[f] = {} /\ call[f].at = "idle" /\ b \in list[f]
  /\ mmbRef' = [mmbRef EXCEPT ![f][b] = 0]
  /\ IF mmbRef[f][b] > 0
     THEN hil_mmb_put(b) /\ UNCHANGED call
     ELSE Go(f, "put", b) /\ UNCHANGED block
  /\ UNCHANGED <<list, mapRef, mapped, delayed, vma, closing, driver>>

(* mmz_userdev_release                                                     *)
ReleaseEntry(f, b) ==
  /\ f \in closing /\ vma[f] = {} /\ call[f].at = "idle" /\ b \in list[f]
  /\ IF mmbRef[f][b] > 0
     THEN /\ hil_mmb_put(b)
          /\ mmbRef' = [mmbRef EXCEPT ![f][b] = @ - 1]
          /\ UNCHANGED call
     ELSE Go(f, "put", b) /\ UNCHANGED <<block, mmbRef>>
  /\ UNCHANGED <<list, mapRef, mapped, delayed, vma, closing, driver>>

(* The file is gone; another process may open the device.                  *)
Closed(f) ==
  /\ f \in closing /\ vma[f] = {} /\ list[f] = {} /\ call[f].at = "idle"
  /\ closing' = closing \ {f}
  /\ UNCHANGED <<block, info, vma, call, driver>>

-----------------------------------------------------------------------------
(* drv_mmz_intf.c, for the drivers.                                        *)

new_mmb(b) ==
  /\ drv.at = "idle" /\ hil_mmb_alloc(b)
  /\ own' = own \cup {b}
  /\ UNCHANGED <<info, vma, call, closing, drv, dmaps>>

(* remap_mmb, unmap_mmb and delete_mmb look the block up under mmz_lock,   *)
(* by its physical address or by the address of its mapping, whoever owns  *)
(* it, and also one that is released and waits for its last reference ...  *)
Find(b, at) ==
  /\ drv.at = "idle" /\ b \in zone
  /\ \/ at = "map" /\ dmaps[b] < MaxRef
     \/ at = "unmap" /\ dmaps[b] > 0 /\ kmapRef[b] > 0
     \/ at = "delete" /\ b \in own
  /\ drv' = [at |-> at, blk |-> b]
  /\ UNCHANGED <<block, info, vma, call, closing, own, dmaps>>

(* ... and use it under mmz_lock again.                                    *)
remap_mmb ==
  /\ drv.at = "map" /\ drv' = NoCall
  /\ hil_mmb_map2kern(drv.blk)
  /\ dmaps' = [dmaps EXCEPT ![drv.blk] = @ + 1]
  /\ UNCHANGED <<info, vma, call, closing, own>>

unmap_mmb ==
  /\ drv.at = "unmap" /\ drv' = NoCall
  /\ hil_mmb_unmap(drv.blk)
  /\ dmaps' = [dmaps EXCEPT ![drv.blk] = @ - 1]
  /\ UNCHANGED <<info, vma, call, closing, own>>

delete_mmb ==
  /\ drv.at = "delete" /\ drv' = NoCall
  /\ hil_mmb_free(drv.blk)
  /\ own' = own \ {drv.blk}
  /\ UNCHANGED <<info, vma, call, closing, dmaps>>

-----------------------------------------------------------------------------
UserStep(f) ==
  \/ \E b \in Blocks :
       \/ ioctl_mmb_alloc(f, b) \/ ioctl_mmb_free(f, b)
       \/ ioctl_mmb_user_remap(f, b) \/ ioctl_mmb_user_unmap(f, b)
       \/ AddRef(f, b) \/ DecRef(f, b)
       \/ ExitUnmap(f, b) \/ ReleaseEntry(f, b)
  \/ AllocGet(f) \/ do_munmap(f) \/ FreePut(f) \/ FreeBlock(f)
  \/ Exit(f) \/ Closed(f)

DriverStep ==
  \/ \E b \in Blocks : new_mmb(b) \/ \E at \in {"map", "unmap", "delete"} : Find(b, at)
  \/ remap_mmb \/ unmap_mmb \/ delete_mmb

Next == (\E f \in Files : UserStep(f)) \/ DriverStep

Spec == Init /\ [][Next]_vars

-----------------------------------------------------------------------------
(* Properties.                                                             *)

UserCall == {NoCall} \cup [at : {"get", "munmap", "put", "free"}, blk : Blocks]
DriverCall == {NoCall} \cup [at : {"map", "unmap", "delete"}, blk : Blocks]

(* Every variable stays in its set; no count goes below zero.              *)
TypeOK ==
  /\ zone \subseteq Blocks /\ released \subseteq zone /\ own \subseteq Blocks
  /\ phyRef \in [Blocks -> Nat] /\ kmapRef \in [Blocks -> Nat]
  /\ dmaps \in [Blocks -> Nat]
  /\ list \in [Files -> SUBSET Blocks] /\ mapped \in [Files -> SUBSET Blocks]
  /\ delayed \in [Files -> SUBSET Blocks] /\ vma \in [Files -> SUBSET Blocks]
  /\ mmbRef \in [Files -> [Blocks -> Nat]] /\ mapRef \in [Files -> [Blocks -> Nat]]
  /\ call \in [Files -> UserCall]
  /\ closing \subseteq Files
  /\ drv \in DriverCall

(* The references the entry of file f holds to block b.                    *)
Entry(f, b) ==
  IF b \notin list[f] THEN 0
  ELSE mmbRef[f][b] + (IF Calling(f, "get", b) THEN 0 ELSE 1)

(* The counts of a block are those of the entry it is in and of the        *)
(* driver's mappings: no call of a user or a driver, in whatever order,    *)
(* leaves a reference nobody will drop or drops one twice.                 *)
CountsAgree ==
  /\ \A f \in Files : \A b \in list[f] : phyRef[b] = Entry(f, b)
  /\ \A b \in zone : (\A f \in Files : b \notin list[f]) => phyRef[b] = 0
  /\ \A b \in zone : kmapRef[b] = dmaps[b]

(* A block is in one list only, and in none if a driver has allocated it.  *)
OneOwner ==
  /\ \A f, g \in Files : \A b \in list[f] \cap list[g] : f = g
  /\ \A f \in Files : list[f] \cap own = {}

(* The block a driver has looked up to unmap it or to give it back is      *)
(* still there when mmz_lock is taken for the second time, whatever users  *)
(* free in between.  (Of a user's block looked up to be mapped this is not *)
(* true: Together.)                                                        *)
FoundIsThere == drv.at \in {"unmap", "delete"} => drv.blk \in zone

(* A free that was delayed is made up for: an entry that waits for it has  *)
(* a reference left, or is being freed, so that the drop of that reference *)
(* will free it.                                                           *)
DelayedIsDue ==
  \A f \in Files \ closing : \A b \in list[f] \cap delayed[f] :
    mmbRef[f][b] > 0 \/ Calling(f, "munmap", b) \/ Calling(f, "put", b)

(* The abstract specification: an owner has the block in its list, or is   *)
(* about to give it back.                                                  *)
Actors == Files \cup {Driver}
OwnersOf(b) ==
  {f \in Files : b \in list[f] \/ Calling(f, "free", b)}
    \cup (IF b \in own THEN {Driver} ELSE {})
MapsOf(b) ==
  {f \in Files : b \in vma[f]} \cup (IF b \in zone /\ dmaps[b] > 0 THEN {Driver} ELSE {})

Owners ==
  INSTANCE MmzOwners WITH used <- zone, owners <- [b \in Blocks |-> OwnersOf(b)],
                          maps <- [b \in Blocks |-> MapsOf(b)]

(* A block goes back to the zone exactly when its last owner has freed it  *)
(* and the last mapping of it is gone: memory that a process or a driver   *)
(* has mapped is never handed out again, and none is lost.                 *)
GivenBackInTime == Owners!Spec
=============================================================================
