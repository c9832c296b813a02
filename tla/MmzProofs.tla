----------------------------- MODULE MmzProofs -----------------------------
(***************************************************************************)
(* Theorems about the media memory zones, for any number of blocks, files  *)
(* and references: the counts agree, every block has one owner, a delayed  *)
(* free is made up for, the blocks implement MmzOwners, and a driver finds *)
(* again what it has looked up.                                            *)
(***************************************************************************)
EXTENDS Mmz, TLAPS

(* What the device has to rely on: users drop only references of their     *)
(* own and unmapping does not fail, and nobody frees a block that a driver *)
(* has just looked up to map it.                                           *)
Reliable == Balanced /\ ~Together /\ ~MayFail

(* No file owns block b.                                                   *)
Unlisted(b) == \A f \in Files : b \notin list[f]

(* A listed block is taken, is not waiting for its release, and is nobody  *)
(* else's.                                                                 *)
ListOK(f, b) ==
  /\ b \in zone /\ b \notin released /\ b \notin own
  /\ \A g \in Files : b \in list[g] => g = f
Lists == \A f \in Files : \A b \in list[f] : ListOK(f, b)

(* Where a call stands, and what it may count on there.                    *)
CallOK(f, b) ==
  /\ Calling(f, "get", b) =>
       /\ b \in list[f] /\ f \notin closing /\ mmbRef[f][b] = 0 /\ mapRef[f][b] = 0
       /\ b \notin mapped[f] /\ b \notin delayed[f]
  /\ Calling(f, "munmap", b) =>
       b \in list[f] /\ f \notin closing /\ mapRef[f][b] = 0 /\ b \in mapped[f]
  /\ Calling(f, "put", b) =>
       /\ b \in list[f] /\ mmbRef[f][b] = 0 /\ b \notin vma[f]
       /\ mapRef[f][b] = 0 \/ f \in closing
  /\ Calling(f, "free", b) =>
       /\ b \in zone /\ b \notin released /\ b \notin own /\ Unlisted(b)
       /\ \A g \in Files : Calling(g, "free", b) => g = f
Calls == \A f \in Files : \A b \in Blocks : CallOK(f, b)

(* The mappings of a file are among its references.                        *)
MapOK(f, b) ==
  /\ mapRef[f][b] <= mmbRef[f][b]
  /\ b \in vma[f] <=> b \in mapped[f]
  /\ b \in mapped[f] => mapRef[f][b] > 0 \/ Calling(f, "munmap", b)
  /\ mapRef[f][b] > 0 => b \in mapped[f]
Maps ==
  /\ \A f \in Files : vma[f] \subseteq list[f]
  /\ \A f \in Files \ closing : \A b \in list[f] : MapOK(f, b)

(* Every block that is taken has somebody to give it back: an owner, a     *)
(* call that frees it, or the driver's last mapping.                       *)
Taken ==
  /\ own \subseteq zone
  /\ \A b \in zone : Unlisted(b) /\ b \notin own /\ (\A f \in Files : ~Calling(f, "free", b))
                       => b \in released
  /\ \A b \in released : kmapRef[b] > 0 /\ Unlisted(b) /\ b \notin own
  /\ \A b \in Blocks : dmaps[b] > 0 => b \in zone

(* What the driver has found is there for it.                              *)
Found ==
  /\ drv.at # "idle" => drv.blk \in zone
  /\ drv.at = "unmap" => dmaps[drv.blk] > 0
  /\ drv.at = "delete" => drv.blk \in own

IInv == TypeOK /\ Lists /\ Calls /\ CountsAgree /\ Maps /\ Taken /\ Found /\ DelayedIsDue

-----------------------------------------------------------------------------
(* Where a call stands is changed for one file at a time.                  *)
LEMMA NoCallType ==
  /\ NoCall.at = "idle"
  /\ NoCall \in UserCall /\ NoCall \in DriverCall
BY DEF NoCall, UserCall, DriverCall

LEMMA GoFacts ==
  ASSUME TypeOK, NEW f \in Files, NEW b \in Blocks,
         NEW at \in {"get", "munmap", "put", "free"}, Go(f, at, b)
  PROVE  /\ call' \in [Files -> UserCall]
         /\ \A g \in Files : \A x, c :
              Calling(g, x, c)' <=> IF g = f THEN x = at /\ c = b ELSE Calling(g, x, c)
<1>1. [at |-> at, blk |-> b] \in UserCall
  BY DEF UserCall
<1>2. QED BY <1>1 DEF Go, TypeOK, Calling

LEMMA DoneFacts ==
  ASSUME TypeOK, NEW f \in Files, Done(f)
  PROVE  /\ call' \in [Files -> UserCall]
         /\ \A g \in Files : \A x, c :
              x # "idle" => (Calling(g, x, c)' <=> g # f /\ Calling(g, x, c))
BY NoCallType DEF Done, TypeOK, Calling

LEMMA KeepFacts ==
  ASSUME UNCHANGED call
  PROVE  \A g \in Files : \A x, c : Calling(g, x, c)' <=> Calling(g, x, c)
BY DEF Calling

(* A file between two calls is in none.                                    *)
LEMMA IdleFacts ==
  ASSUME NEW f \in Files, call[f].at = "idle"
  PROVE  \A x, c : x # "idle" => ~Calling(f, x, c)
BY DEF Calling

LEMMA OnlyFacts ==
  ASSUME NEW f \in Files, NEW b, NEW at, Calling(f, at, b)
  PROVE  \A x, c : Calling(f, x, c) <=> x = at /\ c = b
BY DEF Calling

(* A listed block is not waiting for its release: dropping a reference to  *)
(* it only counts down.                                                    *)
LEMMA PutKeeps ==
  ASSUME IInv, NEW f \in Files, NEW b \in list[f], hil_mmb_put(b)
  PROVE  /\ phyRef' = [phyRef EXCEPT ![b] = @ - 1] /\ UNCHANGED <<zone, released, kmapRef>>
         /\ phyRef[b] >= mmbRef[f][b]
<1>1. b \in zone /\ b \notin released /\ b \in Blocks /\ zone \subseteq Blocks
  BY DEF IInv, Lists, ListOK, TypeOK
<1>2. phyRef' = [phyRef EXCEPT ![b] = @ - 1] /\ UNCHANGED <<zone, released, kmapRef>>
  BY <1>1 DEF hil_mmb_put
<1>3. phyRef[b] = Entry(f, b)
  BY DEF IInv, CountsAgree
<1>4. phyRef[b] >= mmbRef[f][b]
  <2>1. mmbRef[f][b] \in Nat
    BY <1>1 DEF IInv, TypeOK
  <2>2. QED BY <1>3, <2>1 DEF Entry
<1>5. QED BY <1>2, <1>4

LEMMA AllocStep ==
  ASSUME Reliable, IInv, NEW f \in Files, NEW b \in Blocks, ioctl_mmb_alloc(f, b)
  PROVE  IInv'
<1>a. call' \in [Files -> UserCall]
  BY GoFacts DEF IInv, ioctl_mmb_alloc
<1>b. \A g \in Files : \A x, c :
          Calling(g, x, c)' <=> IF g = f THEN x = "get" /\ c = b ELSE Calling(g, x, c)
  BY GoFacts DEF IInv, ioctl_mmb_alloc
<1>c. /\ b \notin zone /\ b \notin released /\ b \notin own /\ dmaps[b] = 0 /\ f \notin closing
      /\ \A g \in Files : b \notin list[g] /\ b \notin vma[g] /\ ~Calling(g, "free", b)
  BY DEF ioctl_mmb_alloc, hil_mmb_alloc, Ready, IInv, TypeOK, Taken, Lists, ListOK, Maps, Calls, CallOK
<1>d. \A x, c : x # "idle" => ~Calling(f, x, c)
  BY IdleFacts DEF ioctl_mmb_alloc, Ready
<1>1. TypeOK'
  BY <1>a, <1>c DEF IInv, TypeOK, ioctl_mmb_alloc, hil_mmb_alloc, driver
<1>2. Lists'
  <2> SUFFICES ASSUME NEW g \in Files, NEW c \in list'[g] PROVE ListOK(g, c)'
    BY DEF Lists
  <2>1. QED BY <1>c DEF IInv, TypeOK, Lists, ListOK, ioctl_mmb_alloc, hil_mmb_alloc, driver
<1>3. Calls'
  <2> SUFFICES ASSUME NEW g \in Files, NEW c \in Blocks PROVE CallOK(g, c)'
    BY DEF Calls
  <2>1. CallOK(g, c) /\ (c \in list[g] => ListOK(g, c))
    BY DEF IInv, Calls, Lists
  <2>2. QED BY <2>1, <1>b, <1>c, <1>d DEF IInv, TypeOK, Lists, ListOK, CallOK, Unlisted, ioctl_mmb_alloc, hil_mmb_alloc, driver
<1>4. CountsAgree'
  <2>1. ASSUME NEW g \in Files, NEW c \in list'[g] PROVE phyRef'[c] = Entry(g, c)'
    BY <1>b, <1>c, <1>d DEF IInv, TypeOK, CountsAgree, Entry, Lists, ListOK, ioctl_mmb_alloc, hil_mmb_alloc, driver
  <2>2. ASSUME NEW c \in zone', \A g \in Files : c \notin list'[g] PROVE phyRef'[c] = 0
    BY <2>2, <1>b, <1>c, <1>d DEF IInv, TypeOK, CountsAgree, ioctl_mmb_alloc, hil_mmb_alloc, driver
  <2>3. ASSUME NEW c \in zone' PROVE kmapRef'[c] = dmaps'[c]
    BY <1>c DEF IInv, TypeOK, CountsAgree, ioctl_mmb_alloc, hil_mmb_alloc, driver
  <2>4. QED BY <2>1, <2>2, <2>3 DEF CountsAgree
<1>5. Maps'
  <2>1. ASSUME NEW g \in Files PROVE vma'[g] \subseteq list'[g]
    BY <1>c DEF IInv, TypeOK, Maps, ioctl_mmb_alloc, hil_mmb_alloc, driver
  <2>2. ASSUME NEW g \in Files, g \notin closing', NEW c \in list'[g] PROVE MapOK(g, c)'
    BY <2>2, <1>b, <1>c, <1>d DEF IInv, TypeOK, Maps, MapOK, ioctl_mmb_alloc, hil_mmb_alloc, driver
  <2>3. QED BY <2>1, <2>2 DEF Maps
<1>6. Taken'
  <2>1. own' \subseteq zone'
    BY <1>c DEF IInv, Taken, ioctl_mmb_alloc, hil_mmb_alloc, driver
  <2>2. ASSUME NEW c \in zone', Unlisted(c)', c \notin own', \A g \in Files : ~Calling(g, "free", c)'
        PROVE  c \in released'
    <3>1. c # b /\ c \in zone /\ c \notin own
      BY <2>2, <1>b, <1>c, <1>d DEF IInv, TypeOK, Unlisted, ioctl_mmb_alloc, hil_mmb_alloc, driver
    <3>2. Unlisted(c)
      BY <2>2, <1>c DEF IInv, TypeOK, Unlisted, ioctl_mmb_alloc, hil_mmb_alloc, driver
    <3>3. \A g \in Files : ~Calling(g, "free", c)
      BY <2>2, <1>b, <1>c, <1>d DEF Unlisted, ioctl_mmb_alloc, hil_mmb_alloc, driver
    <3>4. QED BY <2>2, <3>1, <3>2, <3>3, <1>c DEF IInv, Taken, ioctl_mmb_alloc, hil_mmb_alloc, driver
  <2>3. ASSUME NEW c \in released' PROVE kmapRef'[c] > 0 /\ Unlisted(c)' /\ c \notin own'
    BY <1>c DEF IInv, TypeOK, Taken, Unlisted, ioctl_mmb_alloc, hil_mmb_alloc, driver
  <2>4. ASSUME NEW c \in Blocks, dmaps'[c] > 0 PROVE c \in zone'
    BY <2>4, <1>c DEF IInv, TypeOK, Taken, ioctl_mmb_alloc, hil_mmb_alloc, driver
  <2>5. QED BY <2>1, <2>2, <2>3, <2>4 DEF Taken
<1>7. Found'
  BY <1>c DEF Reliable, IInv, Found, TypeOK, Taken, ioctl_mmb_alloc, hil_mmb_alloc, driver
<1>8. DelayedIsDue'
  <2> SUFFICES ASSUME NEW g \in Files, g \notin closing', NEW c \in list'[g], c \in delayed'[g]
               PROVE  mmbRef'[g][c] > 0 \/ Calling(g, "munmap", c)' \/ Calling(g, "put", c)'
    BY DEF DelayedIsDue
  <2>1. QED BY <1>b, <1>c, <1>d DEF IInv, TypeOK, DelayedIsDue, ioctl_mmb_alloc, hil_mmb_alloc, driver
<1>9. QED BY <1>1, <1>2, <1>3, <1>4, <1>5, <1>6, <1>7, <1>8 DEF IInv

LEMMA AllocGetStep ==
  ASSUME Reliable, IInv, NEW f \in Files, NEW b \in Blocks, b = call[f].blk, AllocGet(f)
  PROVE  IInv'
<1>a. Calling(f, "get", b) /\ b \in list[f] /\ f \notin closing /\ b \notin delayed[f] /\ mmbRef[f][b] = 0
  BY DEF AllocGet, IInv, Calls, CallOK, Calling
<1>b. call' \in [Files -> UserCall]
  BY DoneFacts DEF IInv, AllocGet
<1>c. \A g \in Files : \A x, c :
          x # "idle" => (Calling(g, x, c)' <=> g # f /\ Calling(g, x, c))
  BY DoneFacts DEF IInv, AllocGet
<1>d. \A x, c : Calling(f, x, c) <=> x = "get" /\ c = b
  BY OnlyFacts, <1>a
<1>1. TypeOK'
  BY <1>a, <1>b DEF IInv, TypeOK, AllocGet, hil_mmb_get, info, driver
<1>2. Lists'
  <2> SUFFICES ASSUME NEW g \in Files, NEW c \in list'[g] PROVE ListOK(g, c)'
    BY DEF Lists
  <2>1. QED BY <1>a DEF IInv, TypeOK, Lists, ListOK, AllocGet, hil_mmb_get, info, driver
<1>3. Calls'
  <2> SUFFICES ASSUME NEW g \in Files, NEW c \in Blocks PROVE CallOK(g, c)'
    BY DEF Calls
  <2>1. CallOK(g, c) /\ (c \in list[g] => ListOK(g, c))
    BY DEF IInv, Calls, Lists
  <2>2. QED BY <2>1, <1>a, <1>c, <1>d DEF IInv, TypeOK, Lists, ListOK, CallOK, Unlisted, AllocGet, hil_mmb_get, info, driver
<1>4. CountsAgree'
  <2>1. ASSUME NEW g \in Files, NEW c \in list'[g] PROVE phyRef'[c] = Entry(g, c)'
    BY <1>a, <1>c, <1>d DEF IInv, TypeOK, CountsAgree, Entry, Lists, ListOK, AllocGet, hil_mmb_get, info, driver
  <2>2. ASSUME NEW c \in zone', \A g \in Files : c \notin list'[g] PROVE phyRef'[c] = 0
    BY <2>2, <1>a, <1>c, <1>d DEF IInv, TypeOK, CountsAgree, AllocGet, hil_mmb_get, info, driver
  <2>3. ASSUME NEW c \in zone' PROVE kmapRef'[c] = dmaps'[c]
    BY <1>a DEF IInv, TypeOK, CountsAgree, AllocGet, hil_mmb_get, info, driver
  <2>4. QED BY <2>1, <2>2, <2>3 DEF CountsAgree
<1>5. Maps'
  <2>1. ASSUME NEW g \in Files PROVE vma'[g] \subseteq list'[g]
    BY <1>a DEF IInv, TypeOK, Maps, AllocGet, hil_mmb_get, info, driver
  <2>2. ASSUME NEW g \in Files, g \notin closing', NEW c \in list'[g] PROVE MapOK(g, c)'
    BY <2>2, <1>a, <1>c, <1>d DEF IInv, TypeOK, Maps, MapOK, AllocGet, hil_mmb_get, info, driver
  <2>3. QED BY <2>1, <2>2 DEF Maps
<1>6. Taken'
  <2>1. own' \subseteq zone'
    BY <1>a DEF IInv, Taken, AllocGet, hil_mmb_get, info, driver
  <2>2. ASSUME NEW c \in zone', Unlisted(c)', c \notin own', \A g \in Files : ~Calling(g, "free", c)'
        PROVE  c \in released'
    <3>1. c \in zone /\ c \notin own
      BY <2>2, <1>a, <1>c, <1>d DEF IInv, TypeOK, Unlisted, AllocGet, hil_mmb_get, info, driver
    <3>2. Unlisted(c)
      BY <2>2, <1>a DEF IInv, TypeOK, Unlisted, AllocGet, hil_mmb_get, info, driver
    <3>3. \A g \in Files : ~Calling(g, "free", c)
      BY <2>2, <1>a, <1>c, <1>d DEF Unlisted, AllocGet, hil_mmb_get, info, driver
    <3>4. QED BY <2>2, <3>1, <3>2, <3>3, <1>a DEF IInv, Taken, AllocGet, hil_mmb_get, info, driver
  <2>3. ASSUME NEW c \in released' PROVE kmapRef'[c] > 0 /\ Unlisted(c)' /\ c \notin own'
    BY <1>a DEF IInv, TypeOK, Taken, Unlisted, AllocGet, hil_mmb_get, info, driver
  <2>4. ASSUME NEW c \in Blocks, dmaps'[c] > 0 PROVE c \in zone'
    BY <2>4, <1>a DEF IInv, TypeOK, Taken, AllocGet, hil_mmb_get, info, driver
  <2>5. QED BY <2>1, <2>2, <2>3, <2>4 DEF Taken
<1>7. Found'
  BY <1>a DEF Reliable, IInv, Found, TypeOK, Taken, AllocGet, hil_mmb_get, info, driver
<1>8. DelayedIsDue'
  <2> SUFFICES ASSUME NEW g \in Files, g \notin closing', NEW c \in list'[g], c \in delayed'[g]
               PROVE  mmbRef'[g][c] > 0 \/ Calling(g, "munmap", c)' \/ Calling(g, "put", c)'
    BY DEF DelayedIsDue
  <2>1. g \in Files \ closing /\ c \in list[g] \cap delayed[g]
    BY DEF AllocGet, info
  <2>2. mmbRef[g][c] > 0 \/ Calling(g, "munmap", c) \/ Calling(g, "put", c)
    BY <2>1 DEF IInv, DelayedIsDue
  <2>3. mmbRef' = mmbRef
    BY DEF AllocGet, info
  <2>4. QED BY <2>1, <2>2, <2>3, <1>a, <1>c, <1>d
<1>9. QED BY <1>1, <1>2, <1>3, <1>4, <1>5, <1>6, <1>7, <1>8 DEF IInv

LEMMA RemapStep ==
  ASSUME Reliable, IInv, NEW f \in Files, NEW b \in Blocks, ioctl_mmb_user_remap(f, b)
  PROVE  IInv'
<1>a. b \in list[f] /\ f \notin closing /\ \A g \in Files : \A x, c : Calling(g, x, c)' <=> Calling(g, x, c)
  BY KeepFacts DEF ioctl_mmb_user_remap, Ready
<1>b. \A x, c : x # "idle" => ~Calling(f, x, c)
  BY IdleFacts DEF ioctl_mmb_user_remap, Ready
<1>1. TypeOK'
  BY <1>a DEF IInv, TypeOK, ioctl_mmb_user_remap, hil_mmb_get, driver
<1>2. Lists'
  <2> SUFFICES ASSUME NEW g \in Files, NEW c \in list'[g] PROVE ListOK(g, c)'
    BY DEF Lists
  <2>1. QED BY <1>a DEF IInv, TypeOK, Lists, ListOK, ioctl_mmb_user_remap, hil_mmb_get, driver
<1>3. Calls'
  <2> SUFFICES ASSUME NEW g \in Files, NEW c \in Blocks PROVE CallOK(g, c)'
    BY DEF Calls
  <2>1. CallOK(g, c) /\ (c \in list[g] => ListOK(g, c))
    BY DEF IInv, Calls, Lists
  <2>2. QED BY <2>1, <1>a, <1>b DEF IInv, TypeOK, Lists, ListOK, CallOK, Unlisted, ioctl_mmb_user_remap, hil_mmb_get, driver
<1>4. CountsAgree'
  <2>1. ASSUME NEW g \in Files, NEW c \in list'[g] PROVE phyRef'[c] = Entry(g, c)'
    BY <1>a, <1>b DEF IInv, TypeOK, CountsAgree, Entry, Lists, ListOK, ioctl_mmb_user_remap, hil_mmb_get, driver
  <2>2. ASSUME NEW c \in zone', \A g \in Files : c \notin list'[g] PROVE phyRef'[c] = 0
    BY <2>2, <1>a, <1>b DEF IInv, TypeOK, CountsAgree, ioctl_mmb_user_remap, hil_mmb_get, driver
  <2>3. ASSUME NEW c \in zone' PROVE kmapRef'[c] = dmaps'[c]
    BY <1>a DEF IInv, TypeOK, CountsAgree, ioctl_mmb_user_remap, hil_mmb_get, driver
  <2>4. QED BY <2>1, <2>2, <2>3 DEF CountsAgree
<1>5. Maps'
  <2>1. ASSUME NEW g \in Files PROVE vma'[g] \subseteq list'[g]
    BY <1>a DEF IInv, TypeOK, Maps, ioctl_mmb_user_remap, hil_mmb_get, driver
  <2>2. ASSUME NEW g \in Files, g \notin closing', NEW c \in list'[g] PROVE MapOK(g, c)'
    BY <2>2, <1>a, <1>b DEF IInv, TypeOK, Maps, MapOK, ioctl_mmb_user_remap, hil_mmb_get, driver
  <2>3. QED BY <2>1, <2>2 DEF Maps
<1>6. Taken'
  <2>1. own' \subseteq zone'
    BY <1>a DEF IInv, Taken, ioctl_mmb_user_remap, hil_mmb_get, driver
  <2>2. ASSUME NEW c \in zone', Unlisted(c)', c \notin own', \A g \in Files : ~Calling(g, "free", c)'
        PROVE  c \in released'
    <3>1. c \in zone /\ c \notin own
      BY <2>2, <1>a, <1>b DEF IInv, TypeOK, Unlisted, ioctl_mmb_user_remap, hil_mmb_get, driver
    <3>2. Unlisted(c)
      BY <2>2, <1>a DEF IInv, TypeOK, Unlisted, ioctl_mmb_user_remap, hil_mmb_get, driver
    <3>3. \A g \in Files : ~Calling(g, "free", c)
      BY <2>2, <1>a, <1>b DEF Unlisted, ioctl_mmb_user_remap, hil_mmb_get, driver
    <3>4. QED BY <2>2, <3>1, <3>2, <3>3, <1>a DEF IInv, Taken, ioctl_mmb_user_remap, hil_mmb_get, driver
  <2>3. ASSUME NEW c \in released' PROVE kmapRef'[c] > 0 /\ Unlisted(c)' /\ c \notin own'
    BY <1>a DEF IInv, TypeOK, Taken, Unlisted, ioctl_mmb_user_remap, hil_mmb_get, driver
  <2>4. ASSUME NEW c \in Blocks, dmaps'[c] > 0 PROVE c \in zone'
    BY <2>4, <1>a DEF IInv, TypeOK, Taken, ioctl_mmb_user_remap, hil_mmb_get, driver
  <2>5. QED BY <2>1, <2>2, <2>3, <2>4 DEF Taken
<1>7. Found'
  BY <1>a DEF Reliable, IInv, Found, TypeOK, Taken, ioctl_mmb_user_remap, hil_mmb_get, driver
<1>8. DelayedIsDue'
  <2> SUFFICES ASSUME NEW g \in Files, g \notin closing', NEW c \in list'[g], c \in delayed'[g]
               PROVE  mmbRef'[g][c] > 0 \/ Calling(g, "munmap", c)' \/ Calling(g, "put", c)'
    BY DEF DelayedIsDue
  <2>1. QED BY <1>a, <1>b DEF IInv, TypeOK, DelayedIsDue, ioctl_mmb_user_remap, hil_mmb_get, driver
<1>9. QED BY <1>1, <1>2, <1>3, <1>4, <1>5, <1>6, <1>7, <1>8 DEF IInv

LEMMA UnmapStep ==
  ASSUME Reliable, IInv, NEW f \in Files, NEW b \in Blocks, ioctl_mmb_user_unmap(f, b)
  PROVE  IInv'
<1>a. b \in list[f] /\ f \notin closing /\ mapRef[f][b] <= mmbRef[f][b]
  BY DEF ioctl_mmb_user_unmap, Ready, IInv, Maps, MapOK
<1>b. /\ phyRef' = [phyRef EXCEPT ![b] = @ - 1] /\ UNCHANGED <<zone, released, kmapRef>>
      /\ phyRef[b] > 0
  BY PutKeeps, <1>a DEF ioctl_mmb_user_unmap, IInv, TypeOK
<1>c. call' \in [Files -> UserCall]
  BY GoFacts DEF IInv, ioctl_mmb_user_unmap, TypeOK
<1>d. mapRef[f][b] > 1 =>
        \A g \in Files : \A x, c : Calling(g, x, c)' <=> Calling(g, x, c)
  BY KeepFacts DEF ioctl_mmb_user_unmap
<1>e. ~(mapRef[f][b] > 1) =>
        \A g \in Files : \A x, c :
          Calling(g, x, c)' <=> IF g = f THEN x = "munmap" /\ c = b ELSE Calling(g, x, c)
  BY GoFacts DEF IInv, ioctl_mmb_user_unmap
<1>f. \A x, c : x # "idle" => ~Calling(f, x, c)
  BY IdleFacts DEF ioctl_mmb_user_unmap, Ready
<1>1. TypeOK'
  <2>1. phyRef' \in [Blocks -> Nat]
    BY <1>b DEF IInv, TypeOK
  <2>2. mmbRef' \in [Files -> [Blocks -> Nat]]
    BY DEF ioctl_mmb_user_unmap, IInv, TypeOK
  <2>3. mapRef' \in [Files -> [Blocks -> Nat]]
    BY DEF ioctl_mmb_user_unmap, IInv, TypeOK
  <2>4. UNCHANGED <<zone, released, kmapRef, list, mapped, delayed, vma, closing, driver>>
    BY <1>b DEF ioctl_mmb_user_unmap
  <2>5. QED BY <1>c, <2>1, <2>2, <2>3, <2>4 DEF IInv, TypeOK, driver
<1>2. Lists'
  <2> SUFFICES ASSUME NEW g \in Files, NEW c \in list'[g] PROVE ListOK(g, c)'
    BY DEF Lists
  <2>1. QED BY <1>a, <1>b DEF IInv, TypeOK, Lists, ListOK, ioctl_mmb_user_unmap, driver
<1>3. Calls'
  <2> SUFFICES ASSUME NEW g \in Files, NEW c \in Blocks PROVE CallOK(g, c)'
    BY DEF Calls
  <2>1. CallOK(g, c) /\ (c \in list[g] => ListOK(g, c))
    BY DEF IInv, Calls, Lists
  <2>2. QED BY <2>1, <1>a, <1>b, <1>d, <1>e, <1>f DEF IInv, TypeOK, Lists, ListOK, CallOK, Unlisted, ioctl_mmb_user_unmap, driver
<1>4. CountsAgree'
  <2>1. ASSUME NEW g \in Files, NEW c \in list'[g] PROVE phyRef'[c] = Entry(g, c)'
    BY <1>a, <1>b, <1>d, <1>e, <1>f DEF IInv, TypeOK, CountsAgree, Entry, Lists, ListOK, ioctl_mmb_user_unmap, driver
  <2>2. ASSUME NEW c \in zone', \A g \in Files : c \notin list'[g] PROVE phyRef'[c] = 0
    BY <2>2, <1>a, <1>b, <1>d, <1>e, <1>f DEF IInv, TypeOK, CountsAgree, ioctl_mmb_user_unmap, driver
  <2>3. ASSUME NEW c \in zone' PROVE kmapRef'[c] = dmaps'[c]
    BY <1>a, <1>b DEF IInv, TypeOK, CountsAgree, ioctl_mmb_user_unmap, driver
  <2>4. QED BY <2>1, <2>2, <2>3 DEF CountsAgree
<1>5. Maps'
  <2>1. ASSUME NEW g \in Files PROVE vma'[g] \subseteq list'[g]
    BY <1>a, <1>b DEF IInv, TypeOK, Maps, ioctl_mmb_user_unmap, driver
  <2>2. ASSUME NEW g \in Files, g \notin closing', NEW c \in list'[g] PROVE MapOK(g, c)'
    BY <2>2, <1>a, <1>b, <1>d, <1>e, <1>f DEF IInv, TypeOK, Maps, MapOK, ioctl_mmb_user_unmap, driver
  <2>3. QED BY <2>1, <2>2 DEF Maps
<1>6. Taken'
  <2>1. own' \subseteq zone'
    BY <1>a, <1>b DEF IInv, Taken, ioctl_mmb_user_unmap, driver
  <2>2. ASSUME NEW c \in zone', Unlisted(c)', c \notin own', \A g \in Files : ~Calling(g, "free", c)'
        PROVE  c \in released'
    <3>1. c \in zone /\ c \notin own
      BY <2>2, <1>a, <1>b, <1>d, <1>e, <1>f DEF IInv, TypeOK, Unlisted, ioctl_mmb_user_unmap, driver
    <3>2. Unlisted(c)
      BY <2>2, <1>a, <1>b DEF IInv, TypeOK, Unlisted, ioctl_mmb_user_unmap, driver
    <3>3. \A g \in Files : ~Calling(g, "free", c)
      BY <2>2, <1>a, <1>b, <1>d, <1>e, <1>f DEF Unlisted, ioctl_mmb_user_unmap, driver
    <3>4. QED BY <2>2, <3>1, <3>2, <3>3, <1>a, <1>b DEF IInv, Taken, ioctl_mmb_user_unmap, driver
  <2>3. ASSUME NEW c \in released' PROVE kmapRef'[c] > 0 /\ Unlisted(c)' /\ c \notin own'
    BY <1>a, <1>b DEF IInv, TypeOK, Taken, Unlisted, ioctl_mmb_user_unmap, driver
  <2>4. ASSUME NEW c \in Blocks, dmaps'[c] > 0 PROVE c \in zone'
    BY <2>4, <1>a, <1>b DEF IInv, TypeOK, Taken, ioctl_mmb_user_unmap, driver
  <2>5. QED BY <2>1, <2>2, <2>3, <2>4 DEF Taken
<1>7. Found'
  BY <1>a, <1>b DEF Reliable, IInv, Found, TypeOK, Taken, ioctl_mmb_user_unmap, driver
<1>8. DelayedIsDue'
  <2> SUFFICES ASSUME NEW g \in Files, g \notin closing', NEW c \in list'[g], c \in delayed'[g]
               PROVE  mmbRef'[g][c] > 0 \/ Calling(g, "munmap", c)' \/ Calling(g, "put", c)'
    BY DEF DelayedIsDue
  <2>1. QED BY <1>a, <1>b, <1>d, <1>e, <1>f DEF IInv, TypeOK, DelayedIsDue, ioctl_mmb_user_unmap, driver
<1>9. QED BY <1>1, <1>2, <1>3, <1>4, <1>5, <1>6, <1>7, <1>8 DEF IInv

LEMMA MunmapStep ==
  ASSUME Reliable, IInv, NEW f \in Files, NEW b \in Blocks, b = call[f].blk, do_munmap(f)
  PROVE  IInv'
<1>a. /\ Calling(f, "munmap", b) /\ b \in list[f] /\ f \notin closing
      /\ mapRef[f][b] = 0 /\ b \in mapped[f]
  BY DEF do_munmap, IInv, Calls, CallOK, Calling
<1>b. /\ mapped' = [mapped EXCEPT ![f] = @ \ {b}]
      /\ vma' = [vma EXCEPT ![f] = @ \ {b}]
  BY DEF do_munmap, Reliable
<1>c. call' \in [Files -> UserCall]
  BY GoFacts, DoneFacts DEF IInv, do_munmap
<1>d. LastUse(f, b) =>
        \A g \in Files : \A x, c :
          Calling(g, x, c)' <=> IF g = f THEN x = "put" /\ c = b ELSE Calling(g, x, c)
  BY GoFacts DEF IInv, do_munmap
<1>e. ~LastUse(f, b) =>
        \A g \in Files : \A x, c :
          x # "idle" => (Calling(g, x, c)' <=> g # f /\ Calling(g, x, c))
  BY DoneFacts DEF IInv, do_munmap
<1>f. \A x, c : Calling(f, x, c) <=> x = "munmap" /\ c = b
  BY OnlyFacts, <1>a
<1>1. TypeOK'
  BY <1>a, <1>b, <1>c DEF IInv, TypeOK, do_munmap, LastUse, block, driver
<1>2. Lists'
  <2> SUFFICES ASSUME NEW g \in Files, NEW c \in list'[g] PROVE ListOK(g, c)'
    BY DEF Lists
  <2>1. QED BY <1>a, <1>b DEF IInv, TypeOK, Lists, ListOK, do_munmap, LastUse, block, driver
<1>3. Calls'
  <2> SUFFICES ASSUME NEW g \in Files, NEW c \in Blocks PROVE CallOK(g, c)'
    BY DEF Calls
  <2>1. CallOK(g, c) /\ (c \in list[g] => ListOK(g, c))
    BY DEF IInv, Calls, Lists
  <2>2. QED BY <2>1, <1>a, <1>b, <1>d, <1>e, <1>f DEF IInv, TypeOK, Lists, ListOK, CallOK, Unlisted, do_munmap, LastUse, block, driver
<1>4. CountsAgree'
  <2>1. ASSUME NEW g \in Files, NEW c \in list'[g] PROVE phyRef'[c] = Entry(g, c)'
    BY <1>a, <1>b, <1>d, <1>e, <1>f DEF IInv, TypeOK, CountsAgree, Entry, Lists, ListOK, do_munmap, LastUse, block, driver
  <2>2. ASSUME NEW c \in zone', \A g \in Files : c \notin list'[g] PROVE phyRef'[c] = 0
    BY <2>2, <1>a, <1>b, <1>d, <1>e, <1>f DEF IInv, TypeOK, CountsAgree, do_munmap, LastUse, block, driver
  <2>3. ASSUME NEW c \in zone' PROVE kmapRef'[c] = dmaps'[c]
    BY <1>a, <1>b DEF IInv, TypeOK, CountsAgree, do_munmap, LastUse, block, driver
  <2>4. QED BY <2>1, <2>2, <2>3 DEF CountsAgree
<1>5. Maps'
  <2>1. ASSUME NEW g \in Files PROVE vma'[g] \subseteq list'[g]
    BY <1>a, <1>b DEF IInv, TypeOK, Maps, do_munmap, LastUse, block, driver
  <2>2. ASSUME NEW g \in Files, g \notin closing', NEW c \in list'[g] PROVE MapOK(g, c)'
    BY <2>2, <1>a, <1>b, <1>d, <1>e, <1>f DEF IInv, TypeOK, Maps, MapOK, do_munmap, LastUse, block, driver
  <2>3. QED BY <2>1, <2>2 DEF Maps
<1>6. Taken'
  <2>1. own' \subseteq zone'
    BY <1>a, <1>b DEF IInv, Taken, do_munmap, LastUse, block, driver
  <2>2. ASSUME NEW c \in zone', Unlisted(c)', c \notin own', \A g \in Files : ~Calling(g, "free", c)'
        PROVE  c \in released'
    <3>1. c \in zone /\ c \notin own
      BY <2>2, <1>a, <1>b, <1>d, <1>e, <1>f DEF IInv, TypeOK, Unlisted, do_munmap, LastUse, block, driver
    <3>2. Unlisted(c)
      BY <2>2, <1>a, <1>b DEF IInv, TypeOK, Unlisted, do_munmap, LastUse, block, driver
    <3>3. \A g \in Files : ~Calling(g, "free", c)
      BY <2>2, <1>a, <1>b, <1>d, <1>e, <1>f DEF Unlisted, do_munmap, LastUse, block, driver
    <3>4. QED BY <2>2, <3>1, <3>2, <3>3, <1>a, <1>b DEF IInv, Taken, do_munmap, LastUse, block, driver
  <2>3. ASSUME NEW c \in released' PROVE kmapRef'[c] > 0 /\ Unlisted(c)' /\ c \notin own'
    BY <1>a, <1>b DEF IInv, TypeOK, Taken, Unlisted, do_munmap, LastUse, block, driver
  <2>4. ASSUME NEW c \in Blocks, dmaps'[c] > 0 PROVE c \in zone'
    BY <2>4, <1>a, <1>b DEF IInv, TypeOK, Taken, do_munmap, LastUse, block, driver
  <2>5. QED BY <2>1, <2>2, <2>3, <2>4 DEF Taken
<1>7. Found'
  BY <1>a, <1>b DEF Reliable, IInv, Found, TypeOK, Taken, do_munmap, LastUse, block, driver
<1>8. DelayedIsDue'
  <2> SUFFICES ASSUME NEW g \in Files, g \notin closing', NEW c \in list'[g], c \in delayed'[g]
               PROVE  mmbRef'[g][c] > 0 \/ Calling(g, "munmap", c)' \/ Calling(g, "put", c)'
    BY DEF DelayedIsDue
  <2>1. g \in Files \ closing /\ c \in list[g] \cap delayed[g] /\ mmbRef' = mmbRef
    BY DEF do_munmap
  <2>2. mmbRef[g][c] > 0 \/ Calling(g, "munmap", c) \/ Calling(g, "put", c)
    BY <2>1 DEF IInv, DelayedIsDue
  <2>3. CASE g = f /\ c = b
    <3>1. mmbRef[f][b] \in Nat
      BY DEF IInv, TypeOK
    <3>2. LastUse(f, b) => Calling(f, "put", b)'
      BY <1>d
    <3>3. QED BY <2>1, <2>3, <3>1, <3>2 DEF LastUse
  <2>4. CASE g # f
    BY <2>1, <2>2, <2>4, <1>d, <1>e
  <2>5. CASE g = f /\ c # b
    BY <2>1, <2>2, <2>5, <1>f
  <2>6. QED BY <2>3, <2>4, <2>5
<1>9. QED BY <1>1, <1>2, <1>3, <1>4, <1>5, <1>6, <1>7, <1>8 DEF IInv

LEMMA AddRefStep ==
  ASSUME Reliable, IInv, NEW f \in Files, NEW b \in Blocks, AddRef(f, b)
  PROVE  IInv'
<1>a. b \in list[f] /\ f \notin closing /\ \A g \in Files : \A x, c : Calling(g, x, c)' <=> Calling(g, x, c)
  BY KeepFacts DEF AddRef, Ready
<1>b. \A x, c : x # "idle" => ~Calling(f, x, c)
  BY IdleFacts DEF AddRef, Ready
<1>1. TypeOK'
  BY <1>a DEF IInv, TypeOK, AddRef, hil_mmb_get, driver
<1>2. Lists'
  <2> SUFFICES ASSUME NEW g \in Files, NEW c \in list'[g] PROVE ListOK(g, c)'
    BY DEF Lists
  <2>1. QED BY <1>a DEF IInv, TypeOK, Lists, ListOK, AddRef, hil_mmb_get, driver
<1>3. Calls'
  <2> SUFFICES ASSUME NEW g \in Files, NEW c \in Blocks PROVE CallOK(g, c)'
    BY DEF Calls
  <2>1. CallOK(g, c) /\ (c \in list[g] => ListOK(g, c))
    BY DEF IInv, Calls, Lists
  <2>2. QED BY <2>1, <1>a, <1>b DEF IInv, TypeOK, Lists, ListOK, CallOK, Unlisted, AddRef, hil_mmb_get, driver
<1>4. CountsAgree'
  <2>1. ASSUME NEW g \in Files, NEW c \in list'[g] PROVE phyRef'[c] = Entry(g, c)'
    BY <1>a, <1>b DEF IInv, TypeOK, CountsAgree, Entry, Lists, ListOK, AddRef, hil_mmb_get, driver
  <2>2. ASSUME NEW c \in zone', \A g \in Files : c \notin list'[g] PROVE phyRef'[c] = 0
    BY <2>2, <1>a, <1>b DEF IInv, TypeOK, CountsAgree, AddRef, hil_mmb_get, driver
  <2>3. ASSUME NEW c \in zone' PROVE kmapRef'[c] = dmaps'[c]
    BY <1>a DEF IInv, TypeOK, CountsAgree, AddRef, hil_mmb_get, driver
  <2>4. QED BY <2>1, <2>2, <2>3 DEF CountsAgree
<1>5. Maps'
  <2>1. ASSUME NEW g \in Files PROVE vma'[g] \subseteq list'[g]
    BY <1>a DEF IInv, TypeOK, Maps, AddRef, hil_mmb_get, driver
  <2>2. ASSUME NEW g \in Files, g \notin closing', NEW c \in list'[g] PROVE MapOK(g, c)'
    BY <2>2, <1>a, <1>b DEF IInv, TypeOK, Maps, MapOK, AddRef, hil_mmb_get, driver
  <2>3. QED BY <2>1, <2>2 DEF Maps
<1>6. Taken'
  <2>1. own' \subseteq zone'
    BY <1>a DEF IInv, Taken, AddRef, hil_mmb_get, driver
  <2>2. ASSUME NEW c \in zone', Unlisted(c)', c \notin own', \A g \in Files : ~Calling(g, "free", c)'
        PROVE  c \in released'
    <3>1. c \in zone /\ c \notin own
      BY <2>2, <1>a, <1>b DEF IInv, TypeOK, Unlisted, AddRef, hil_mmb_get, driver
    <3>2. Unlisted(c)
      BY <2>2, <1>a DEF IInv, TypeOK, Unlisted, AddRef, hil_mmb_get, driver
    <3>3. \A g \in Files : ~Calling(g, "free", c)
      BY <2>2, <1>a, <1>b DEF Unlisted, AddRef, hil_mmb_get, driver
    <3>4. QED BY <2>2, <3>1, <3>2, <3>3, <1>a DEF IInv, Taken, AddRef, hil_mmb_get, driver
  <2>3. ASSUME NEW c \in released' PROVE kmapRef'[c] > 0 /\ Unlisted(c)' /\ c \notin own'
    BY <1>a DEF IInv, TypeOK, Taken, Unlisted, AddRef, hil_mmb_get, driver
  <2>4. ASSUME NEW c \in Blocks, dmaps'[c] > 0 PROVE c \in zone'
    BY <2>4, <1>a DEF IInv, TypeOK, Taken, AddRef, hil_mmb_get, driver
  <2>5. QED BY <2>1, <2>2, <2>3, <2>4 DEF Taken
<1>7. Found'
  BY <1>a DEF Reliable, IInv, Found, TypeOK, Taken, AddRef, hil_mmb_get, driver
<1>8. DelayedIsDue'
  <2> SUFFICES ASSUME NEW g \in Files, g \notin closing', NEW c \in list'[g], c \in delayed'[g]
               PROVE  mmbRef'[g][c] > 0 \/ Calling(g, "munmap", c)' \/ Calling(g, "put", c)'
    BY DEF DelayedIsDue
  <2>1. QED BY <1>a, <1>b DEF IInv, TypeOK, DelayedIsDue, AddRef, hil_mmb_get, driver
<1>9. QED BY <1>1, <1>2, <1>3, <1>4, <1>5, <1>6, <1>7, <1>8 DEF IInv

LEMMA DecRefStep ==
  ASSUME Reliable, IInv, NEW f \in Files, NEW b \in Blocks, DecRef(f, b)
  PROVE  IInv'
<1>a. b \in list[f] /\ f \notin closing /\ mapRef[f][b] < mmbRef[f][b]
  BY DEF DecRef, Ready, Reliable
<1>b. /\ phyRef' = [phyRef EXCEPT ![b] = @ - 1] /\ UNCHANGED <<zone, released, kmapRef>>
      /\ phyRef[b] > 0
  BY PutKeeps, <1>a DEF DecRef, IInv, TypeOK
<1>c. call' \in [Files -> UserCall]
  BY GoFacts DEF IInv, DecRef, TypeOK
<1>d. ~(b \in delayed[f] /\ mmbRef[f][b] = 1) =>
        \A g \in Files : \A x, c : Calling(g, x, c)' <=> Calling(g, x, c)
  BY KeepFacts DEF DecRef
<1>e. b \in delayed[f] /\ mmbRef[f][b] = 1 =>
        \A g \in Files : \A x, c :
          Calling(g, x, c)' <=> IF g = f THEN x = "put" /\ c = b ELSE Calling(g, x, c)
  BY GoFacts DEF IInv, DecRef
<1>f. \A x, c : x # "idle" => ~Calling(f, x, c)
  BY IdleFacts DEF DecRef, Ready
<1>1. TypeOK'
  <2>1. phyRef' \in [Blocks -> Nat]
    BY <1>b DEF IInv, TypeOK
  <2>2. mmbRef' \in [Files -> [Blocks -> Nat]]
    BY DEF DecRef, IInv, TypeOK
  <2>3. mapRef' \in [Files -> [Blocks -> Nat]]
    BY DEF DecRef, IInv, TypeOK
  <2>4. UNCHANGED <<zone, released, kmapRef, list, mapped, delayed, vma, closing, driver>>
    BY <1>b DEF DecRef
  <2>5. QED BY <1>c, <2>1, <2>2, <2>3, <2>4 DEF IInv, TypeOK, driver
<1>2. Lists'
  <2> SUFFICES ASSUME NEW g \in Files, NEW c \in list'[g] PROVE ListOK(g, c)'
    BY DEF Lists
  <2>1. QED BY <1>a, <1>b DEF IInv, TypeOK, Lists, ListOK, DecRef, driver
<1>3. Calls'
  <2> SUFFICES ASSUME NEW g \in Files, NEW c \in Blocks PROVE CallOK(g, c)'
    BY DEF Calls
  <2>1. CallOK(g, c) /\ (c \in list[g] => ListOK(g, c))
    BY DEF IInv, Calls, Lists
  <2>2. /\ UNCHANGED <<zone, released, own, closing, list, mapRef, mapped, delayed, vma>>
        /\ mmbRef' = [mmbRef EXCEPT ![f][b] = @ - 1]
    BY <1>b DEF DecRef, driver
  <2>3. Unlisted(c)' = Unlisted(c)
    BY <2>2 DEF Unlisted
  <2>4. \A h \in Files : \A x : h # f \/ c # b => (Calling(h, x, c)' => Calling(h, x, c))
    BY <1>d, <1>e
  <2>5. CASE g = f /\ c = b
    <3>1. b \notin mapped[f] => b \notin vma[f]
      BY <1>a DEF IInv, Maps, MapOK
    <3>2. mapRef[f][b] = 0 => b \notin mapped[f]
      BY <1>a, <1>f DEF IInv, Maps, MapOK
    <3>3. mmbRef[f][b] = 1 => mapRef[f][b] = 0 /\ mmbRef'[f][b] = 0
      BY <1>a, <2>2 DEF IInv, TypeOK
    <3>4. QED BY <2>2, <2>5, <3>1, <3>2, <3>3, <1>a, <1>d, <1>e, <1>f DEF CallOK
  <2>6. CASE g # f \/ c # b
    <3>1. mmbRef'[g][c] = mmbRef[g][c]
      BY <2>2, <2>6 DEF IInv, TypeOK
    <3>2. \A h \in Files : Calling(h, "free", c)' => Calling(h, "free", c)
      BY <1>d, <1>e
    <3>3. QED BY <2>1, <2>2, <2>3, <2>4, <2>6, <3>1, <3>2 DEF CallOK
  <2>7. QED BY <2>5, <2>6
<1>4. CountsAgree'
  <2>1. ASSUME NEW g \in Files, NEW c \in list'[g] PROVE phyRef'[c] = Entry(g, c)'
    BY <1>a, <1>b, <1>d, <1>e, <1>f DEF IInv, TypeOK, CountsAgree, Entry, Lists, ListOK, DecRef, driver
  <2>2. ASSUME NEW c \in zone', \A g \in Files : c \notin list'[g] PROVE phyRef'[c] = 0
    BY <2>2, <1>a, <1>b, <1>d, <1>e, <1>f DEF IInv, TypeOK, CountsAgree, DecRef, driver
  <2>3. ASSUME NEW c \in zone' PROVE kmapRef'[c] = dmaps'[c]
    BY <1>a, <1>b DEF IInv, TypeOK, CountsAgree, DecRef, driver
  <2>4. QED BY <2>1, <2>2, <2>3 DEF CountsAgree
<1>5. Maps'
  <2>1. ASSUME NEW g \in Files PROVE vma'[g] \subseteq list'[g]
    BY <1>a, <1>b DEF IInv, TypeOK, Maps, DecRef, driver
  <2>2. ASSUME NEW g \in Files, g \notin closing', NEW c \in list'[g] PROVE MapOK(g, c)'
    BY <2>2, <1>a, <1>b, <1>d, <1>e, <1>f DEF IInv, TypeOK, Maps, MapOK, DecRef, driver
  <2>3. QED BY <2>1, <2>2 DEF Maps
<1>6. Taken'
  <2>1. own' \subseteq zone'
    BY <1>a, <1>b DEF IInv, Taken, DecRef, driver
  <2>2. ASSUME NEW c \in zone', Unlisted(c)', c \notin own', \A g \in Files : ~Calling(g, "free", c)'
        PROVE  c \in released'
    <3>1. c \in zone /\ c \notin own
      BY <2>2, <1>a, <1>b, <1>d, <1>e, <1>f DEF IInv, TypeOK, Unlisted, DecRef, driver
    <3>2. Unlisted(c)
      BY <2>2, <1>a, <1>b DEF IInv, TypeOK, Unlisted, DecRef, driver
    <3>3. \A g \in Files : ~Calling(g, "free", c)
      BY <2>2, <1>a, <1>b, <1>d, <1>e, <1>f DEF Unlisted, DecRef, driver
    <3>4. QED BY <2>2, <3>1, <3>2, <3>3, <1>a, <1>b DEF IInv, Taken, DecRef, driver
  <2>3. ASSUME NEW c \in released' PROVE kmapRef'[c] > 0 /\ Unlisted(c)' /\ c \notin own'
    BY <1>a, <1>b DEF IInv, TypeOK, Taken, Unlisted, DecRef, driver
  <2>4. ASSUME NEW c \in Blocks, dmaps'[c] > 0 PROVE c \in zone'
    BY <2>4, <1>a, <1>b DEF IInv, TypeOK, Taken, DecRef, driver
  <2>5. QED BY <2>1, <2>2, <2>3, <2>4 DEF Taken
<1>7. Found'
  BY <1>a, <1>b DEF Reliable, IInv, Found, TypeOK, Taken, DecRef, driver
<1>8. DelayedIsDue'
  <2> SUFFICES ASSUME NEW g \in Files, g \notin closing', NEW c \in list'[g], c \in delayed'[g]
               PROVE  mmbRef'[g][c] > 0 \/ Calling(g, "munmap", c)' \/ Calling(g, "put", c)'
    BY DEF DelayedIsDue
  <2>1. QED BY <1>a, <1>b, <1>d, <1>e, <1>f DEF IInv, TypeOK, DelayedIsDue, DecRef, driver
<1>9. QED BY <1>1, <1>2, <1>3, <1>4, <1>5, <1>6, <1>7, <1>8 DEF IInv

LEMMA FreeStep ==
  ASSUME Reliable, IInv, NEW f \in Files, NEW b \in Blocks, ioctl_mmb_free(f, b)
  PROVE  IInv'
<1>a. b \in list[f] /\ f \notin closing
  BY DEF ioctl_mmb_free, Ready
<1>b. call' \in [Files -> UserCall]
  BY GoFacts DEF IInv, ioctl_mmb_free, TypeOK
<1>c. StillUsed(f, b) =>
        \A g \in Files : \A x, c : Calling(g, x, c)' <=> Calling(g, x, c)
  BY KeepFacts DEF ioctl_mmb_free
<1>d. ~StillUsed(f, b) =>
        \A g \in Files : \A x, c :
          Calling(g, x, c)' <=> IF g = f THEN x = "put" /\ c = b ELSE Calling(g, x, c)
  BY GoFacts DEF IInv, ioctl_mmb_free
<1>e. \A x, c : x # "idle" => ~Calling(f, x, c)
  BY IdleFacts DEF ioctl_mmb_free, Ready
<1>1. TypeOK'
  <2>1. delayed' = delayed \/ delayed' = [delayed EXCEPT ![f] = @ \cup {b}]
    BY DEF ioctl_mmb_free
  <2>2. delayed \in [Files -> SUBSET Blocks]
    BY DEF IInv, TypeOK
  <2>3. delayed' \in [Files -> SUBSET Blocks]
    BY <2>1, <2>2
  <2>4. UNCHANGED <<block, list, mmbRef, mapRef, mapped, vma, closing, driver>>
    BY DEF ioctl_mmb_free
  <2>5. QED BY <1>b, <2>3, <2>4 DEF IInv, TypeOK, block, driver
<1>2. Lists'
  <2> SUFFICES ASSUME NEW g \in Files, NEW c \in list'[g] PROVE ListOK(g, c)'
    BY DEF Lists
  <2>1. QED BY <1>a DEF IInv, TypeOK, Lists, ListOK, ioctl_mmb_free, StillUsed, block, driver
<1>3. Calls'
  <2> SUFFICES ASSUME NEW g \in Files, NEW c \in Blocks PROVE CallOK(g, c)'
    BY DEF Calls
  <2>1. CallOK(g, c)
    BY DEF IInv, Calls
  <2>2. UNCHANGED <<zone, released, own, closing, list, mapRef, mmbRef, mapped, vma>>
    BY DEF ioctl_mmb_free, block, driver
  <2>3. Unlisted(c)' = Unlisted(c)
    BY <2>2 DEF Unlisted
  <2>4. CASE g = f /\ c = b
    <3>1. b \notin mapped[f] => b \notin vma[f]
      BY <1>a DEF IInv, Maps, MapOK
    <3>2. mapRef[f][b] = 0 => b \notin mapped[f]
      BY <1>a, <1>e DEF IInv, Maps, MapOK
    <3>3. ~StillUsed(f, b) => mapRef[f][b] = 0 /\ mmbRef[f][b] = 0
      BY DEF StillUsed, IInv, TypeOK
    <3>4. QED BY <2>2, <2>4, <3>1, <3>2, <3>3, <1>a, <1>c, <1>d, <1>e DEF CallOK
  <2>5. CASE g # f \/ c # b
    <3>1. \A h \in Files : Calling(h, "free", c)' => Calling(h, "free", c)
      BY <1>c, <1>d
    <3>2. \A x : Calling(g, x, c)' => Calling(g, x, c)
      BY <2>5, <1>c, <1>d
    <3>3. Calling(g, "get", c) => ~(g = f)
      BY <1>e
    <3>4. g # f => delayed'[g] = delayed[g]
      BY DEF ioctl_mmb_free, IInv, TypeOK
    <3>5. QED BY <2>1, <2>2, <2>3, <2>5, <3>1, <3>2, <3>3, <3>4 DEF CallOK
  <2>6. QED BY <2>4, <2>5
<1>4. CountsAgree'
  <2>1. ASSUME NEW g \in Files, NEW c \in list'[g] PROVE phyRef'[c] = Entry(g, c)'
    BY <1>a, <1>c, <1>d, <1>e DEF IInv, TypeOK, CountsAgree, Entry, Lists, ListOK, ioctl_mmb_free, StillUsed, block, driver
  <2>2. ASSUME NEW c \in zone', \A g \in Files : c \notin list'[g] PROVE phyRef'[c] = 0
    BY <2>2, <1>a, <1>c, <1>d, <1>e DEF IInv, TypeOK, CountsAgree, ioctl_mmb_free, StillUsed, block, driver
  <2>3. ASSUME NEW c \in zone' PROVE kmapRef'[c] = dmaps'[c]
    BY <1>a DEF IInv, TypeOK, CountsAgree, ioctl_mmb_free, StillUsed, block, driver
  <2>4. QED BY <2>1, <2>2, <2>3 DEF CountsAgree
<1>5. Maps'
  <2>1. ASSUME NEW g \in Files PROVE vma'[g] \subseteq list'[g]
    BY <1>a DEF IInv, TypeOK, Maps, ioctl_mmb_free, StillUsed, block, driver
  <2>2. ASSUME NEW g \in Files, g \notin closing', NEW c \in list'[g] PROVE MapOK(g, c)'
    BY <2>2, <1>a, <1>c, <1>d, <1>e DEF IInv, TypeOK, Maps, MapOK, ioctl_mmb_free, StillUsed, block, driver
  <2>3. QED BY <2>1, <2>2 DEF Maps
<1>6. Taken'
  <2>1. own' \subseteq zone'
    BY <1>a DEF IInv, Taken, ioctl_mmb_free, StillUsed, block, driver
  <2>2. ASSUME NEW c \in zone', Unlisted(c)', c \notin own', \A g \in Files : ~Calling(g, "free", c)'
        PROVE  c \in released'
    <3>1. c \in zone /\ c \notin own
      BY <2>2, <1>a, <1>c, <1>d, <1>e DEF IInv, TypeOK, Unlisted, ioctl_mmb_free, StillUsed, block, driver
    <3>2. Unlisted(c)
      BY <2>2, <1>a DEF IInv, TypeOK, Unlisted, ioctl_mmb_free, StillUsed, block, driver
    <3>3. \A g \in Files : ~Calling(g, "free", c)
      BY <2>2, <1>a, <1>c, <1>d, <1>e DEF Unlisted, ioctl_mmb_free, StillUsed, block, driver
    <3>4. QED BY <2>2, <3>1, <3>2, <3>3, <1>a DEF IInv, Taken, ioctl_mmb_free, StillUsed, block, driver
  <2>3. ASSUME NEW c \in released' PROVE kmapRef'[c] > 0 /\ Unlisted(c)' /\ c \notin own'
    BY <1>a DEF IInv, TypeOK, Taken, Unlisted, ioctl_mmb_free, StillUsed, block, driver
  <2>4. ASSUME NEW c \in Blocks, dmaps'[c] > 0 PROVE c \in zone'
    BY <2>4, <1>a DEF IInv, TypeOK, Taken, ioctl_mmb_free, StillUsed, block, driver
  <2>5. QED BY <2>1, <2>2, <2>3, <2>4 DEF Taken
<1>7. Found'
  BY <1>a DEF Reliable, IInv, Found, TypeOK, Taken, ioctl_mmb_free, StillUsed, block, driver
<1>8. DelayedIsDue'
  <2> SUFFICES ASSUME NEW g \in Files, g \notin closing', NEW c \in list'[g], c \in delayed'[g]
               PROVE  mmbRef'[g][c] > 0 \/ Calling(g, "munmap", c)' \/ Calling(g, "put", c)'
    BY DEF DelayedIsDue
  <2>1. g \in Files \ closing /\ c \in list[g] /\ mmbRef' = mmbRef
    BY DEF ioctl_mmb_free
  <2>2. CASE g = f /\ c = b
    <3>1. mmbRef[f][b] \in Nat /\ mapRef[f][b] \in Nat
      BY DEF IInv, TypeOK
    <3>2. mapRef[f][b] <= mmbRef[f][b]
      BY <1>a DEF IInv, Maps, MapOK
    <3>3. ~StillUsed(f, b) => Calling(f, "put", b)'
      BY <1>d
    <3>4. QED BY <2>1, <2>2, <3>1, <3>2, <3>3 DEF StillUsed
  <2>3. CASE g # f \/ c # b
    <3>1. c \in delayed[g]
      BY <2>3 DEF ioctl_mmb_free, IInv, TypeOK
    <3>2. mmbRef[g][c] > 0 \/ Calling(g, "munmap", c) \/ Calling(g, "put", c)
      BY <2>1, <3>1 DEF IInv, DelayedIsDue
    <3>3. QED BY <2>1, <2>3, <3>2, <1>c, <1>d, <1>e
  <2>4. QED BY <2>2, <2>3
<1>9. QED BY <1>1, <1>2, <1>3, <1>4, <1>5, <1>6, <1>7, <1>8 DEF IInv

LEMMA FreePutStep ==
  ASSUME Reliable, IInv, NEW f \in Files, NEW b \in Blocks, b = call[f].blk, FreePut(f)
  PROVE  IInv'
<1>a. Calling(f, "put", b) /\ b \in list[f] /\ mmbRef[f][b] = 0 /\ b \notin vma[f]
  BY DEF FreePut, IInv, Calls, CallOK, Calling
<1>b. phyRef' = [phyRef EXCEPT ![b] = @ - 1] /\ UNCHANGED <<zone, released, kmapRef>>
  BY PutKeeps, <1>a DEF FreePut
<1>c. phyRef[b] = 1 /\ b \in zone /\ b \notin released /\ b \notin own /\ \A g \in Files : b \in list[g] => g = f
  BY <1>a DEF IInv, CountsAgree, Entry, Lists, ListOK, Calling
<1>d. call' \in [Files -> UserCall]
  BY GoFacts DEF IInv, FreePut
<1>e. \A g \in Files : \A x, c :
          Calling(g, x, c)' <=> IF g = f THEN x = "free" /\ c = b ELSE Calling(g, x, c)
  BY GoFacts DEF IInv, FreePut
<1>f. \A x, c : Calling(f, x, c) <=> x = "put" /\ c = b
  BY OnlyFacts, <1>a
<1>1. TypeOK'
  <2>1. phyRef' \in [Blocks -> Nat]
    BY <1>b, <1>c DEF IInv, TypeOK
  <2>2. list' \in [Files -> SUBSET Blocks]
    BY DEF FreePut, IInv, TypeOK
  <2>3. UNCHANGED <<zone, released, kmapRef, mmbRef, mapRef, mapped, delayed, vma, closing, driver>>
    BY <1>b DEF FreePut
  <2>4. QED BY <1>d, <2>1, <2>2, <2>3 DEF IInv, TypeOK, driver
<1>2. Lists'
  <2> SUFFICES ASSUME NEW g \in Files, NEW c \in list'[g] PROVE ListOK(g, c)'
    BY DEF Lists
  <2>1. QED BY <1>a, <1>b, <1>c DEF IInv, TypeOK, Lists, ListOK, FreePut, driver
<1>3. Calls'
  <2> SUFFICES ASSUME NEW g \in Files, NEW c \in Blocks PROVE CallOK(g, c)'
    BY DEF Calls
  <2>1. CallOK(g, c) /\ (c \in list[g] => ListOK(g, c))
    BY DEF IInv, Calls, Lists
  <2>2. \A h \in Files : list'[h] = IF h = f THEN list[h] \ {b} ELSE list[h]
    BY DEF FreePut, IInv, TypeOK
  <2>3. UNCHANGED <<zone, released, own, closing, mmbRef, mapRef, mapped, delayed, vma>>
    BY <1>b DEF FreePut, driver
  <2>4. CASE g = f
    <3>1. c = b => Unlisted(c)'
      BY <1>c, <2>2 DEF Unlisted
    <3>2. \A h \in Files : Calling(h, "free", b) => b \notin list[f]
      BY DEF IInv, Calls, CallOK, Unlisted
    <3>3. \A h \in Files : Calling(h, "free", b)' => h = f
      BY <3>2, <1>a, <1>e
    <3>4. QED BY <2>3, <2>4, <3>1, <3>3, <1>c, <1>e DEF CallOK
  <2>5. CASE g # f
    <3>1. c \in list[g] => c # b
      BY <2>5, <1>c
    <3>2. Unlisted(c) => Unlisted(c)'
      BY <2>2 DEF Unlisted
    <3>3. Calling(g, "free", c) => c # b
      BY <2>1, <1>a DEF CallOK, Unlisted
    <3>4. QED BY <2>1, <2>2, <2>3, <2>5, <3>1, <3>2, <3>3, <1>e DEF CallOK
  <2>6. QED BY <2>4, <2>5
<1>4. CountsAgree'
  <2>1. ASSUME NEW g \in Files, NEW c \in list'[g] PROVE phyRef'[c] = Entry(g, c)'
    BY <1>a, <1>b, <1>c, <1>e, <1>f DEF IInv, TypeOK, CountsAgree, Entry, Lists, ListOK, FreePut, driver
  <2>2. ASSUME NEW c \in zone', \A g \in Files : c \notin list'[g] PROVE phyRef'[c] = 0
    BY <2>2, <1>a, <1>b, <1>c, <1>e, <1>f DEF IInv, TypeOK, CountsAgree, FreePut, driver
  <2>3. ASSUME NEW c \in zone' PROVE kmapRef'[c] = dmaps'[c]
    BY <1>a, <1>b, <1>c DEF IInv, TypeOK, CountsAgree, FreePut, driver
  <2>4. QED BY <2>1, <2>2, <2>3 DEF CountsAgree
<1>5. Maps'
  <2>1. ASSUME NEW g \in Files PROVE vma'[g] \subseteq list'[g]
    BY <1>a, <1>b, <1>c DEF IInv, TypeOK, Maps, FreePut, driver
  <2>2. ASSUME NEW g \in Files, g \notin closing', NEW c \in list'[g] PROVE MapOK(g, c)'
    BY <2>2, <1>a, <1>b, <1>c, <1>e, <1>f DEF IInv, TypeOK, Maps, MapOK, FreePut, driver
  <2>3. QED BY <2>1, <2>2 DEF Maps
<1>6. Taken'
  <2>1. UNCHANGED <<zone, released, own, kmapRef, dmaps>>
    BY <1>b DEF FreePut, driver
  <2>2. \A h \in Files : list'[h] = IF h = f THEN list[h] \ {b} ELSE list[h]
    BY DEF FreePut, IInv, TypeOK
  <2>3. ASSUME NEW c \in zone', Unlisted(c)', c \notin own', \A g \in Files : ~Calling(g, "free", c)'
        PROVE  c \in released'
    <3>1. c # b
      BY <2>3, <1>e
    <3>2. Unlisted(c)
      BY <2>2, <2>3, <3>1 DEF Unlisted
    <3>3. \A g \in Files : ~Calling(g, "free", c)
      BY <2>3, <1>e, <1>f
    <3>4. QED BY <2>1, <2>3, <3>2, <3>3 DEF IInv, Taken
  <2>4. ASSUME NEW c \in released' PROVE Unlisted(c)'
    BY <2>1, <2>2 DEF IInv, Taken, Unlisted
  <2>5. QED BY <2>1, <2>3, <2>4 DEF IInv, Taken
<1>7. Found'
  BY <1>a, <1>b, <1>c DEF Reliable, IInv, Found, TypeOK, Taken, FreePut, driver
<1>8. DelayedIsDue'
  <2> SUFFICES ASSUME NEW g \in Files, g \notin closing', NEW c \in list'[g], c \in delayed'[g]
               PROVE  mmbRef'[g][c] > 0 \/ Calling(g, "munmap", c)' \/ Calling(g, "put", c)'
    BY DEF DelayedIsDue
  <2>1. QED BY <1>a, <1>b, <1>c, <1>e, <1>f DEF IInv, TypeOK, DelayedIsDue, FreePut, driver
<1>9. QED BY <1>1, <1>2, <1>3, <1>4, <1>5, <1>6, <1>7, <1>8 DEF IInv

LEMMA FreeBlockStep ==
  ASSUME Reliable, IInv, NEW f \in Files, NEW b \in Blocks, b = call[f].blk, FreeBlock(f)
  PROVE  IInv'
<1>a. /\ Calling(f, "free", b) /\ b \in zone /\ b \notin released /\ b \notin own /\ Unlisted(b)
      /\ \A g \in Files : Calling(g, "free", b) => g = f
  BY DEF FreeBlock, IInv, Calls, CallOK, Calling
<1>b. phyRef[b] = 0 /\ kmapRef[b] = dmaps[b] /\ kmapRef[b] \in Nat
  BY <1>a DEF IInv, CountsAgree, Unlisted, TypeOK
<1>c. /\ kmapRef[b] > 0 => released' = released \cup {b} /\ zone' = zone
      /\ kmapRef[b] = 0 => zone' = zone \ {b} /\ released' = released \ {b}
      /\ UNCHANGED <<phyRef, kmapRef>>
  BY <1>a, <1>b DEF FreeBlock, hil_mmb_free, _mmb_free
<1>d. call' \in [Files -> UserCall]
  BY DoneFacts DEF IInv, FreeBlock
<1>e. \A g \in Files : \A x, c :
          x # "idle" => (Calling(g, x, c)' <=> g # f /\ Calling(g, x, c))
  BY DoneFacts DEF IInv, FreeBlock
<1>f. \A x, c : Calling(f, x, c) <=> x = "free" /\ c = b
  BY OnlyFacts, <1>a
<1>1. TypeOK'
  BY <1>a, <1>b, <1>c, <1>d DEF IInv, TypeOK, FreeBlock, hil_mmb_free, _mmb_free, info, driver
<1>2. Lists'
  <2> SUFFICES ASSUME NEW g \in Files, NEW c \in list'[g] PROVE ListOK(g, c)'
    BY DEF Lists
  <2>1. UNCHANGED <<list, own>>
    BY DEF FreeBlock, info, driver
  <2>2. ListOK(g, c) /\ c # b
    BY <2>1, <1>a DEF IInv, Lists, Unlisted
  <2>3. c \in zone' /\ c \notin released'
    BY <2>2, <1>b, <1>c DEF ListOK
  <2>4. QED BY <2>1, <2>2, <2>3 DEF ListOK
<1>3. Calls'
  <2> SUFFICES ASSUME NEW g \in Files, NEW c \in Blocks PROVE CallOK(g, c)'
    BY DEF Calls
  <2>1. CallOK(g, c) /\ (c \in list[g] => ListOK(g, c))
    BY DEF IInv, Calls, Lists
  <2>2. QED BY <2>1, <1>a, <1>b, <1>c, <1>e, <1>f DEF IInv, TypeOK, Lists, ListOK, CallOK, Unlisted, FreeBlock, hil_mmb_free, _mmb_free, info, driver
<1>4. CountsAgree'
  <2>1. ASSUME NEW g \in Files, NEW c \in list'[g] PROVE phyRef'[c] = Entry(g, c)'
    BY <1>a, <1>b, <1>c, <1>e, <1>f DEF IInv, TypeOK, CountsAgree, Entry, Lists, ListOK, FreeBlock, hil_mmb_free, _mmb_free, info, driver
  <2>2. ASSUME NEW c \in zone', \A g \in Files : c \notin list'[g] PROVE phyRef'[c] = 0
    BY <2>2, <1>a, <1>b, <1>c, <1>e, <1>f DEF IInv, TypeOK, CountsAgree, FreeBlock, hil_mmb_free, _mmb_free, info, driver
  <2>3. ASSUME NEW c \in zone' PROVE kmapRef'[c] = dmaps'[c]
    BY <1>a, <1>b, <1>c DEF IInv, TypeOK, CountsAgree, FreeBlock, hil_mmb_free, _mmb_free, info, driver
  <2>4. QED BY <2>1, <2>2, <2>3 DEF CountsAgree
<1>5. Maps'
  <2>1. ASSUME NEW g \in Files PROVE vma'[g] \subseteq list'[g]
    BY <1>a, <1>b, <1>c DEF IInv, TypeOK, Maps, FreeBlock, hil_mmb_free, _mmb_free, info, driver
  <2>2. ASSUME NEW g \in Files, g \notin closing', NEW c \in list'[g] PROVE MapOK(g, c)'
    BY <2>2, <1>a, <1>b, <1>c, <1>e, <1>f DEF IInv, TypeOK, Maps, MapOK, FreeBlock, hil_mmb_free, _mmb_free, info, driver
  <2>3. QED BY <2>1, <2>2 DEF Maps
<1>6. Taken'
  <2>1. UNCHANGED <<list, own, kmapRef, dmaps>>
    BY <1>c DEF FreeBlock, info, driver
  <2>2. \A c : Unlisted(c)' = Unlisted(c)
    BY <2>1 DEF Unlisted
  <2>3. own' \subseteq zone'
    BY <2>1, <1>a, <1>b, <1>c DEF IInv, Taken
  <2>4. ASSUME NEW c \in zone', Unlisted(c)', c \notin own', \A g \in Files : ~Calling(g, "free", c)'
        PROVE  c \in released'
    <3>1. CASE c = b
      BY <3>1, <1>b, <1>c
    <3>2. CASE c # b
      <4>1. c \in zone /\ (c \in released => c \in released')
        BY <3>2, <1>b, <1>c
      <4>2. \A g \in Files : ~Calling(g, "free", c)
        BY <2>4, <3>2, <1>e, <1>f
      <4>3. QED BY <2>1, <2>2, <2>4, <4>1, <4>2 DEF IInv, Taken
    <3>3. QED BY <3>1, <3>2
  <2>5. ASSUME NEW c \in released' PROVE kmapRef'[c] > 0 /\ Unlisted(c)' /\ c \notin own'
    BY <2>1, <2>2, <1>a, <1>b, <1>c DEF IInv, Taken
  <2>6. ASSUME NEW c \in Blocks, dmaps'[c] > 0 PROVE c \in zone'
    BY <2>1, <2>6, <1>b, <1>c DEF IInv, Taken, TypeOK
  <2>7. QED BY <2>3, <2>4, <2>5, <2>6 DEF Taken
<1>7. Found'
  BY <1>a, <1>b, <1>c DEF Reliable, IInv, Found, TypeOK, Taken, FreeBlock, hil_mmb_free, _mmb_free, info, driver
<1>8. DelayedIsDue'
  <2> SUFFICES ASSUME NEW g \in Files, g \notin closing', NEW c \in list'[g], c \in delayed'[g]
               PROVE  mmbRef'[g][c] > 0 \/ Calling(g, "munmap", c)' \/ Calling(g, "put", c)'
    BY DEF DelayedIsDue
  <2>1. QED BY <1>a, <1>b, <1>c, <1>e, <1>f DEF IInv, TypeOK, DelayedIsDue, FreeBlock, hil_mmb_free, _mmb_free, info, driver
<1>9. QED BY <1>1, <1>2, <1>3, <1>4, <1>5, <1>6, <1>7, <1>8 DEF IInv

LEMMA ExitStep ==
  ASSUME Reliable, IInv, NEW f \in Files, Exit(f)
  PROVE  IInv'
<1>a. f \notin closing /\ \A g \in Files : \A x, c : Calling(g, x, c)' <=> Calling(g, x, c)
  BY KeepFacts DEF Exit, Ready
<1>b. \A x, c : x # "idle" => ~Calling(f, x, c)
  BY IdleFacts DEF Exit, Ready
<1>1. TypeOK'
  BY <1>a DEF IInv, TypeOK, Exit, block, info, driver
<1>2. Lists'
  <2> SUFFICES ASSUME NEW g \in Files, NEW c \in list'[g] PROVE ListOK(g, c)'
    BY DEF Lists
  <2>1. QED BY <1>a DEF IInv, TypeOK, Lists, ListOK, Exit, block, info, driver
<1>3. Calls'
  <2> SUFFICES ASSUME NEW g \in Files, NEW c \in Blocks PROVE CallOK(g, c)'
    BY DEF Calls
  <2>1. CallOK(g, c) /\ (c \in list[g] => ListOK(g, c))
    BY DEF IInv, Calls, Lists
  <2>2. QED BY <2>1, <1>a, <1>b DEF IInv, TypeOK, Lists, ListOK, CallOK, Unlisted, Exit, block, info, driver
<1>4. CountsAgree'
  <2>1. ASSUME NEW g \in Files, NEW c \in list'[g] PROVE phyRef'[c] = Entry(g, c)'
    BY <1>a, <1>b DEF IInv, TypeOK, CountsAgree, Entry, Lists, ListOK, Exit, block, info, driver
  <2>2. ASSUME NEW c \in zone', \A g \in Files : c \notin list'[g] PROVE phyRef'[c] = 0
    BY <2>2, <1>a, <1>b DEF IInv, TypeOK, CountsAgree, Exit, block, info, driver
  <2>3. ASSUME NEW c \in zone' PROVE kmapRef'[c] = dmaps'[c]
    BY <1>a DEF IInv, TypeOK, CountsAgree, Exit, block, info, driver
  <2>4. QED BY <2>1, <2>2, <2>3 DEF CountsAgree
<1>5. Maps'
  <2>1. ASSUME NEW g \in Files PROVE vma'[g] \subseteq list'[g]
    BY <1>a DEF IInv, TypeOK, Maps, Exit, block, info, driver
  <2>2. ASSUME NEW g \in Files, g \notin closing', NEW c \in list'[g] PROVE MapOK(g, c)'
    BY <2>2, <1>a, <1>b DEF IInv, TypeOK, Maps, MapOK, Exit, block, info, driver
  <2>3. QED BY <2>1, <2>2 DEF Maps
<1>6. Taken'
  <2>1. own' \subseteq zone'
    BY <1>a DEF IInv, Taken, Exit, block, info, driver
  <2>2. ASSUME NEW c \in zone', Unlisted(c)', c \notin own', \A g \in Files : ~Calling(g, "free", c)'
        PROVE  c \in released'
    <3>1. c \in zone /\ c \notin own
      BY <2>2, <1>a, <1>b DEF IInv, TypeOK, Unlisted, Exit, block, info, driver
    <3>2. Unlisted(c)
      BY <2>2, <1>a DEF IInv, TypeOK, Unlisted, Exit, block, info, driver
    <3>3. \A g \in Files : ~Calling(g, "free", c)
      BY <2>2, <1>a, <1>b DEF Unlisted, Exit, block, info, driver
    <3>4. QED BY <2>2, <3>1, <3>2, <3>3, <1>a DEF IInv, Taken, Exit, block, info, driver
  <2>3. ASSUME NEW c \in released' PROVE kmapRef'[c] > 0 /\ Unlisted(c)' /\ c \notin own'
    BY <1>a DEF IInv, TypeOK, Taken, Unlisted, Exit, block, info, driver
  <2>4. ASSUME NEW c \in Blocks, dmaps'[c] > 0 PROVE c \in zone'
    BY <2>4, <1>a DEF IInv, TypeOK, Taken, Exit, block, info, driver
  <2>5. QED BY <2>1, <2>2, <2>3, <2>4 DEF Taken
<1>7. Found'
  BY <1>a DEF Reliable, IInv, Found, TypeOK, Taken, Exit, block, info, driver
<1>8. DelayedIsDue'
  <2> SUFFICES ASSUME NEW g \in Files, g \notin closing', NEW c \in list'[g], c \in delayed'[g]
               PROVE  mmbRef'[g][c] > 0 \/ Calling(g, "munmap", c)' \/ Calling(g, "put", c)'
    BY DEF DelayedIsDue
  <2>1. QED BY <1>a, <1>b DEF IInv, TypeOK, DelayedIsDue, Exit, block, info, driver
<1>9. QED BY <1>1, <1>2, <1>3, <1>4, <1>5, <1>6, <1>7, <1>8 DEF IInv

LEMMA ExitUnmapStep ==
  ASSUME Reliable, IInv, NEW f \in Files, NEW b \in Blocks, ExitUnmap(f, b)
  PROVE  IInv'
<1>a. \A g \in Files : \A x, c : Calling(g, x, c)' <=> Calling(g, x, c)
  BY KeepFacts DEF ExitUnmap
<1>1. TypeOK'
  BY <1>a DEF IInv, TypeOK, ExitUnmap, block, info, driver
<1>2. Lists'
  <2> SUFFICES ASSUME NEW g \in Files, NEW c \in list'[g] PROVE ListOK(g, c)'
    BY DEF Lists
  <2>1. QED BY <1>a DEF IInv, TypeOK, Lists, ListOK, ExitUnmap, block, info, driver
<1>3. Calls'
  <2> SUFFICES ASSUME NEW g \in Files, NEW c \in Blocks PROVE CallOK(g, c)'
    BY DEF Calls
  <2>1. CallOK(g, c) /\ (c \in list[g] => ListOK(g, c))
    BY DEF IInv, Calls, Lists
  <2>2. QED BY <2>1, <1>a DEF IInv, TypeOK, Lists, ListOK, CallOK, Unlisted, ExitUnmap, block, info, driver
<1>4. CountsAgree'
  <2>1. ASSUME NEW g \in Files, NEW c \in list'[g] PROVE phyRef'[c] = Entry(g, c)'
    BY <1>a DEF IInv, TypeOK, CountsAgree, Entry, Lists, ListOK, ExitUnmap, block, info, driver
  <2>2. ASSUME NEW c \in zone', \A g \in Files : c \notin list'[g] PROVE phyRef'[c] = 0
    BY <2>2, <1>a DEF IInv, TypeOK, CountsAgree, ExitUnmap, block, info, driver
  <2>3. ASSUME NEW c \in zone' PROVE kmapRef'[c] = dmaps'[c]
    BY <1>a DEF IInv, TypeOK, CountsAgree, ExitUnmap, block, info, driver
  <2>4. QED BY <2>1, <2>2, <2>3 DEF CountsAgree
<1>5. Maps'
  <2>1. ASSUME NEW g \in Files PROVE vma'[g] \subseteq list'[g]
    BY <1>a DEF IInv, TypeOK, Maps, ExitUnmap, block, info, driver
  <2>2. ASSUME NEW g \in Files, g \notin closing', NEW c \in list'[g] PROVE MapOK(g, c)'
    BY <2>2, <1>a DEF IInv, TypeOK, Maps, MapOK, ExitUnmap, block, info, driver
  <2>3. QED BY <2>1, <2>2 DEF Maps
<1>6. Taken'
  <2>1. own' \subseteq zone'
    BY <1>a DEF IInv, Taken, ExitUnmap, block, info, driver
  <2>2. ASSUME NEW c \in zone', Unlisted(c)', c \notin own', \A g \in Files : ~Calling(g, "free", c)'
        PROVE  c \in released'
    <3>1. c \in zone /\ c \notin own
      BY <2>2, <1>a DEF IInv, TypeOK, Unlisted, ExitUnmap, block, info, driver
    <3>2. Unlisted(c)
      BY <2>2, <1>a DEF IInv, TypeOK, Unlisted, ExitUnmap, block, info, driver
    <3>3. \A g \in Files : ~Calling(g, "free", c)
      BY <2>2, <1>a DEF Unlisted, ExitUnmap, block, info, driver
    <3>4. QED BY <2>2, <3>1, <3>2, <3>3, <1>a DEF IInv, Taken, ExitUnmap, block, info, driver
  <2>3. ASSUME NEW c \in released' PROVE kmapRef'[c] > 0 /\ Unlisted(c)' /\ c \notin own'
    BY <1>a DEF IInv, TypeOK, Taken, Unlisted, ExitUnmap, block, info, driver
  <2>4. ASSUME NEW c \in Blocks, dmaps'[c] > 0 PROVE c \in zone'
    BY <2>4, <1>a DEF IInv, TypeOK, Taken, ExitUnmap, block, info, driver
  <2>5. QED BY <2>1, <2>2, <2>3, <2>4 DEF Taken
<1>7. Found'
  BY <1>a DEF Reliable, IInv, Found, TypeOK, Taken, ExitUnmap, block, info, driver
<1>8. DelayedIsDue'
  <2> SUFFICES ASSUME NEW g \in Files, g \notin closing', NEW c \in list'[g], c \in delayed'[g]
               PROVE  mmbRef'[g][c] > 0 \/ Calling(g, "munmap", c)' \/ Calling(g, "put", c)'
    BY DEF DelayedIsDue
  <2>1. QED BY <1>a DEF IInv, TypeOK, DelayedIsDue, ExitUnmap, block, info, driver
<1>9. QED BY <1>1, <1>2, <1>3, <1>4, <1>5, <1>6, <1>7, <1>8 DEF IInv

LEMMA ReleaseStep ==
  ASSUME Reliable, IInv, NEW f \in Files, NEW b \in Blocks, ReleaseEntry(f, b)
  PROVE  IInv'
<1>a. b \in list[f] /\ f \in closing /\ vma[f] = {}
  BY DEF ReleaseEntry
<1>b. mmbRef[f][b] > 0 =>
        /\ phyRef' = [phyRef EXCEPT ![b] = @ - 1] /\ UNCHANGED <<zone, released, kmapRef>>
        /\ phyRef[b] > 0
  BY PutKeeps, <1>a DEF ReleaseEntry, IInv, TypeOK
<1>c. call' \in [Files -> UserCall]
  BY GoFacts DEF IInv, ReleaseEntry, TypeOK
<1>d. mmbRef[f][b] > 0 =>
        \A g \in Files : \A x, c : Calling(g, x, c)' <=> Calling(g, x, c)
  BY KeepFacts DEF ReleaseEntry
<1>e. ~(mmbRef[f][b] > 0) =>
        \A g \in Files : \A x, c :
          Calling(g, x, c)' <=> IF g = f THEN x = "put" /\ c = b ELSE Calling(g, x, c)
  BY GoFacts DEF IInv, ReleaseEntry
<1>f. \A x, c : x # "idle" => ~Calling(f, x, c)
  BY IdleFacts DEF ReleaseEntry
<1>1. TypeOK'
  <2>1. phyRef' \in [Blocks -> Nat] /\ UNCHANGED <<zone, released, kmapRef>>
    <3>1. CASE mmbRef[f][b] > 0
      BY <3>1, <1>b DEF IInv, TypeOK
    <3>2. CASE ~(mmbRef[f][b] > 0)
      BY <3>2 DEF ReleaseEntry, block, IInv, TypeOK
    <3>3. QED BY <3>1, <3>2
  <2>2. mmbRef' \in [Files -> [Blocks -> Nat]]
    <3>1. CASE mmbRef[f][b] > 0
      BY <3>1 DEF ReleaseEntry, IInv, TypeOK
    <3>2. CASE ~(mmbRef[f][b] > 0)
      BY <3>2 DEF ReleaseEntry, IInv, TypeOK
    <3>3. QED BY <3>1, <3>2
  <2>3. UNCHANGED <<list, mapRef, mapped, delayed, vma, closing, driver>>
    BY DEF ReleaseEntry
  <2>4. QED BY <1>c, <2>1, <2>2, <2>3 DEF IInv, TypeOK, driver
<1>2. Lists'
  <2> SUFFICES ASSUME NEW g \in Files, NEW c \in list'[g] PROVE ListOK(g, c)'
    BY DEF Lists
  <2>1. QED BY <1>a, <1>b DEF IInv, TypeOK, Lists, ListOK, ReleaseEntry, block, driver
<1>3. Calls'
  <2> SUFFICES ASSUME NEW g \in Files, NEW c \in Blocks PROVE CallOK(g, c)'
    BY DEF Calls
  <2>1. CallOK(g, c)
    BY DEF IInv, Calls
  <2>2. UNCHANGED <<zone, released, own, closing, list, mapRef, mapped, delayed, vma>>
    BY <1>b DEF ReleaseEntry, block, driver
  <2>3. Unlisted(c)' = Unlisted(c)
    BY <2>2 DEF Unlisted
  <2>4. mmbRef[f][b] > 0 \/ (mmbRef[f][b] = 0 /\ mmbRef' = mmbRef)
    BY <1>a DEF ReleaseEntry, IInv, TypeOK
  <2>5. CASE g = f /\ c = b
    BY <2>2, <2>4, <2>5, <1>a, <1>d, <1>e, <1>f DEF CallOK
  <2>6. CASE g # f \/ c # b
    <3>1. mmbRef'[g][c] = mmbRef[g][c]
      BY <2>6 DEF ReleaseEntry, IInv, TypeOK
    <3>2. \A h \in Files : Calling(h, "free", c)' => Calling(h, "free", c)
      BY <1>d, <1>e
    <3>3. \A x : Calling(g, x, c)' => Calling(g, x, c)
      BY <2>6, <1>d, <1>e
    <3>4. QED BY <2>1, <2>2, <2>3, <2>6, <3>1, <3>2, <3>3 DEF CallOK
  <2>7. QED BY <2>5, <2>6
<1>4. CountsAgree'
  <2>1. ASSUME NEW g \in Files, NEW c \in list'[g] PROVE phyRef'[c] = Entry(g, c)'
    <3>1. list' = list /\ c \in list[g] /\ c \in Blocks
      BY DEF ReleaseEntry, IInv, TypeOK
    <3>2. phyRef[c] = Entry(g, c) /\ (g # f => c # b)
      BY <3>1, <1>a DEF IInv, CountsAgree, Lists, ListOK
    <3>3. Calling(g, "get", c)' <=> Calling(g, "get", c)
      BY <1>d, <1>e, <1>f
    <3>4. CASE mmbRef[f][b] > 0
      <4>1. mmbRef' = [mmbRef EXCEPT ![f][b] = @ - 1]
        BY <3>4 DEF ReleaseEntry
      <4>2. QED BY <3>1, <3>2, <3>3, <3>4, <4>1, <1>b DEF Entry, IInv, TypeOK
    <3>5. CASE ~(mmbRef[f][b] > 0)
      BY <3>1, <3>2, <3>3, <3>5 DEF Entry, ReleaseEntry, block
    <3>6. QED BY <3>4, <3>5
  <2>2. ASSUME NEW c \in zone', \A g \in Files : c \notin list'[g] PROVE phyRef'[c] = 0
    BY <2>2, <1>a, <1>b, <1>d, <1>e, <1>f DEF IInv, TypeOK, CountsAgree, ReleaseEntry, block, driver
  <2>3. ASSUME NEW c \in zone' PROVE kmapRef'[c] = dmaps'[c]
    BY <1>a, <1>b DEF IInv, TypeOK, CountsAgree, ReleaseEntry, block, driver
  <2>4. QED BY <2>1, <2>2, <2>3 DEF CountsAgree
<1>5. Maps'
  <2>1. ASSUME NEW g \in Files PROVE vma'[g] \subseteq list'[g]
    BY DEF IInv, Maps, ReleaseEntry
  <2>2. ASSUME NEW g \in Files, g \notin closing', NEW c \in list'[g] PROVE MapOK(g, c)'
    <3>1. UNCHANGED <<closing, list, mapRef, mapped, vma>>
      BY DEF ReleaseEntry
    <3>2. g # f /\ MapOK(g, c)
      BY <2>2, <3>1, <1>a DEF IInv, Maps
    <3>3. mmbRef'[g] = mmbRef[g]
      BY <3>2 DEF ReleaseEntry, IInv, TypeOK
    <3>4. Calling(g, "munmap", c)' <=> Calling(g, "munmap", c)
      BY <3>2, <1>d, <1>e
    <3>5. QED BY <3>1, <3>2, <3>3, <3>4 DEF MapOK
  <2>3. QED BY <2>1, <2>2 DEF Maps
<1>6. Taken'
  <2>1. own' \subseteq zone'
    BY <1>a, <1>b DEF IInv, Taken, ReleaseEntry, block, driver
  <2>2. ASSUME NEW c \in zone', Unlisted(c)', c \notin own', \A g \in Files : ~Calling(g, "free", c)'
        PROVE  c \in released'
    <3>1. c \in zone /\ c \notin own
      BY <2>2, <1>a, <1>b, <1>d, <1>e, <1>f DEF IInv, TypeOK, Unlisted, ReleaseEntry, block, driver
    <3>2. Unlisted(c)
      BY <2>2, <1>a, <1>b DEF IInv, TypeOK, Unlisted, ReleaseEntry, block, driver
    <3>3. \A g \in Files : ~Calling(g, "free", c)
      BY <2>2, <1>a, <1>b, <1>d, <1>e, <1>f DEF Unlisted, ReleaseEntry, block, driver
    <3>4. QED BY <2>2, <3>1, <3>2, <3>3, <1>a, <1>b DEF IInv, Taken, ReleaseEntry, block, driver
  <2>3. ASSUME NEW c \in released' PROVE kmapRef'[c] > 0 /\ Unlisted(c)' /\ c \notin own'
    BY <1>a, <1>b DEF IInv, TypeOK, Taken, Unlisted, ReleaseEntry, block, driver
  <2>4. ASSUME NEW c \in Blocks, dmaps'[c] > 0 PROVE c \in zone'
    BY <2>4, <1>a, <1>b DEF IInv, TypeOK, Taken, ReleaseEntry, block, driver
  <2>5. QED BY <2>1, <2>2, <2>3, <2>4 DEF Taken
<1>7. Found'
  BY <1>a, <1>b DEF Reliable, IInv, Found, TypeOK, Taken, ReleaseEntry, block, driver
<1>8. DelayedIsDue'
  <2> SUFFICES ASSUME NEW g \in Files, g \notin closing', NEW c \in list'[g], c \in delayed'[g]
               PROVE  mmbRef'[g][c] > 0 \/ Calling(g, "munmap", c)' \/ Calling(g, "put", c)'
    BY DEF DelayedIsDue
  <2>1. g \in Files \ closing /\ c \in list[g] \cap delayed[g] /\ g # f
    BY <1>a DEF ReleaseEntry
  <2>2. mmbRef[g][c] > 0 \/ Calling(g, "munmap", c) \/ Calling(g, "put", c)
    BY <2>1 DEF IInv, DelayedIsDue
  <2>3. mmbRef'[g] = mmbRef[g]
    BY <2>1 DEF ReleaseEntry, IInv, TypeOK
  <2>4. QED BY <2>1, <2>2, <2>3, <1>d, <1>e
<1>9. QED BY <1>1, <1>2, <1>3, <1>4, <1>5, <1>6, <1>7, <1>8 DEF IInv

LEMMA ClosedStep ==
  ASSUME Reliable, IInv, NEW f \in Files, Closed(f)
  PROVE  IInv'
<1>a. list[f] = {} /\ vma[f] = {} /\ \A g \in Files : \A x, c : Calling(g, x, c)' <=> Calling(g, x, c)
  BY KeepFacts DEF Closed
<1>b. \A x, c : x # "idle" => ~Calling(f, x, c)
  BY IdleFacts DEF Closed
<1>1. TypeOK'
  BY <1>a DEF IInv, TypeOK, Closed, block, info, driver
<1>2. Lists'
  <2> SUFFICES ASSUME NEW g \in Files, NEW c \in list'[g] PROVE ListOK(g, c)'
    BY DEF Lists
  <2>1. QED BY <1>a DEF IInv, TypeOK, Lists, ListOK, Closed, block, info, driver
<1>3. Calls'
  <2> SUFFICES ASSUME NEW g \in Files, NEW c \in Blocks PROVE CallOK(g, c)'
    BY DEF Calls
  <2>1. CallOK(g, c) /\ (c \in list[g] => ListOK(g, c))
    BY DEF IInv, Calls, Lists
  <2>2. QED BY <2>1, <1>a, <1>b DEF IInv, TypeOK, Lists, ListOK, CallOK, Unlisted, Closed, block, info, driver
<1>4. CountsAgree'
  <2>1. ASSUME NEW g \in Files, NEW c \in list'[g] PROVE phyRef'[c] = Entry(g, c)'
    BY <1>a, <1>b DEF IInv, TypeOK, CountsAgree, Entry, Lists, ListOK, Closed, block, info, driver
  <2>2. ASSUME NEW c \in zone', \A g \in Files : c \notin list'[g] PROVE phyRef'[c] = 0
    BY <2>2, <1>a, <1>b DEF IInv, TypeOK, CountsAgree, Closed, block, info, driver
  <2>3. ASSUME NEW c \in zone' PROVE kmapRef'[c] = dmaps'[c]
    BY <1>a DEF IInv, TypeOK, CountsAgree, Closed, block, info, driver
  <2>4. QED BY <2>1, <2>2, <2>3 DEF CountsAgree
<1>5. Maps'
  <2>1. ASSUME NEW g \in Files PROVE vma'[g] \subseteq list'[g]
    BY <1>a DEF IInv, TypeOK, Maps, Closed, block, info, driver
  <2>2. ASSUME NEW g \in Files, g \notin closing', NEW c \in list'[g] PROVE MapOK(g, c)'
    BY <2>2, <1>a, <1>b DEF IInv, TypeOK, Maps, MapOK, Closed, block, info, driver
  <2>3. QED BY <2>1, <2>2 DEF Maps
<1>6. Taken'
  <2>1. own' \subseteq zone'
    BY <1>a DEF IInv, Taken, Closed, block, info, driver
  <2>2. ASSUME NEW c \in zone', Unlisted(c)', c \notin own', \A g \in Files : ~Calling(g, "free", c)'
        PROVE  c \in released'
    <3>1. c \in zone /\ c \notin own
      BY <2>2, <1>a, <1>b DEF IInv, TypeOK, Unlisted, Closed, block, info, driver
    <3>2. Unlisted(c)
      BY <2>2, <1>a DEF IInv, TypeOK, Unlisted, Closed, block, info, driver
    <3>3. \A g \in Files : ~Calling(g, "free", c)
      BY <2>2, <1>a, <1>b DEF Unlisted, Closed, block, info, driver
    <3>4. QED BY <2>2, <3>1, <3>2, <3>3, <1>a DEF IInv, Taken, Closed, block, info, driver
  <2>3. ASSUME NEW c \in released' PROVE kmapRef'[c] > 0 /\ Unlisted(c)' /\ c \notin own'
    BY <1>a DEF IInv, TypeOK, Taken, Unlisted, Closed, block, info, driver
  <2>4. ASSUME NEW c \in Blocks, dmaps'[c] > 0 PROVE c \in zone'
    BY <2>4, <1>a DEF IInv, TypeOK, Taken, Closed, block, info, driver
  <2>5. QED BY <2>1, <2>2, <2>3, <2>4 DEF Taken
<1>7. Found'
  BY <1>a DEF Reliable, IInv, Found, TypeOK, Taken, Closed, block, info, driver
<1>8. DelayedIsDue'
  <2> SUFFICES ASSUME NEW g \in Files, g \notin closing', NEW c \in list'[g], c \in delayed'[g]
               PROVE  mmbRef'[g][c] > 0 \/ Calling(g, "munmap", c)' \/ Calling(g, "put", c)'
    BY DEF DelayedIsDue
  <2>1. QED BY <1>a, <1>b DEF IInv, TypeOK, DelayedIsDue, Closed, block, info, driver
<1>9. QED BY <1>1, <1>2, <1>3, <1>4, <1>5, <1>6, <1>7, <1>8 DEF IInv

LEMMA NewStep ==
  ASSUME Reliable, IInv, NEW b \in Blocks, new_mmb(b)
  PROVE  IInv'
<1>a. \A g \in Files : \A x, c : Calling(g, x, c)' <=> Calling(g, x, c)
  BY KeepFacts DEF new_mmb
<1>b. /\ b \notin zone /\ b \notin released /\ dmaps[b] = 0
      /\ \A g \in Files : b \notin list[g] /\ ~Calling(g, "free", b)
  BY DEF new_mmb, hil_mmb_alloc, IInv, TypeOK, Taken, Lists, ListOK, Calls, CallOK
<1>1. TypeOK'
  BY <1>a, <1>b DEF IInv, TypeOK, new_mmb, hil_mmb_alloc, info
<1>2. Lists'
  <2> SUFFICES ASSUME NEW g \in Files, NEW c \in list'[g] PROVE ListOK(g, c)'
    BY DEF Lists
  <2>1. QED BY <1>a, <1>b DEF IInv, TypeOK, Lists, ListOK, new_mmb, hil_mmb_alloc, info
<1>3. Calls'
  <2> SUFFICES ASSUME NEW g \in Files, NEW c \in Blocks PROVE CallOK(g, c)'
    BY DEF Calls
  <2>1. CallOK(g, c) /\ (c \in list[g] => ListOK(g, c))
    BY DEF IInv, Calls, Lists
  <2>2. QED BY <2>1, <1>a, <1>b DEF IInv, TypeOK, Lists, ListOK, CallOK, Unlisted, new_mmb, hil_mmb_alloc, info
<1>4. CountsAgree'
  <2>1. ASSUME NEW g \in Files, NEW c \in list'[g] PROVE phyRef'[c] = Entry(g, c)'
    BY <1>a, <1>b DEF IInv, TypeOK, CountsAgree, Entry, Lists, ListOK, new_mmb, hil_mmb_alloc, info
  <2>2. ASSUME NEW c \in zone', \A g \in Files : c \notin list'[g] PROVE phyRef'[c] = 0
    BY <2>2, <1>a, <1>b DEF IInv, TypeOK, CountsAgree, new_mmb, hil_mmb_alloc, info
  <2>3. ASSUME NEW c \in zone' PROVE kmapRef'[c] = dmaps'[c]
    BY <1>a, <1>b DEF IInv, TypeOK, CountsAgree, new_mmb, hil_mmb_alloc, info
  <2>4. QED BY <2>1, <2>2, <2>3 DEF CountsAgree
<1>5. Maps'
  <2>1. ASSUME NEW g \in Files PROVE vma'[g] \subseteq list'[g]
    BY <1>a, <1>b DEF IInv, TypeOK, Maps, new_mmb, hil_mmb_alloc, info
  <2>2. ASSUME NEW g \in Files, g \notin closing', NEW c \in list'[g] PROVE MapOK(g, c)'
    BY <2>2, <1>a, <1>b DEF IInv, TypeOK, Maps, MapOK, new_mmb, hil_mmb_alloc, info
  <2>3. QED BY <2>1, <2>2 DEF Maps
<1>6. Taken'
  <2>1. own' \subseteq zone'
    BY <1>a, <1>b DEF IInv, Taken, new_mmb, hil_mmb_alloc, info
  <2>2. ASSUME NEW c \in zone', Unlisted(c)', c \notin own', \A g \in Files : ~Calling(g, "free", c)'
        PROVE  c \in released'
    <3>1. c # b /\ c \in zone /\ c \notin own
      BY <2>2, <1>a, <1>b DEF IInv, TypeOK, Unlisted, new_mmb, hil_mmb_alloc, info
    <3>2. Unlisted(c)
      BY <2>2, <1>a, <1>b DEF IInv, TypeOK, Unlisted, new_mmb, hil_mmb_alloc, info
    <3>3. \A g \in Files : ~Calling(g, "free", c)
      BY <2>2, <1>a, <1>b DEF Unlisted, new_mmb, hil_mmb_alloc, info
    <3>4. QED BY <2>2, <3>1, <3>2, <3>3, <1>a, <1>b DEF IInv, Taken, new_mmb, hil_mmb_alloc, info
  <2>3. ASSUME NEW c \in released' PROVE kmapRef'[c] > 0 /\ Unlisted(c)' /\ c \notin own'
    BY <1>a, <1>b DEF IInv, TypeOK, Taken, Unlisted, new_mmb, hil_mmb_alloc, info
  <2>4. ASSUME NEW c \in Blocks, dmaps'[c] > 0 PROVE c \in zone'
    BY <2>4, <1>a, <1>b DEF IInv, TypeOK, Taken, new_mmb, hil_mmb_alloc, info
  <2>5. QED BY <2>1, <2>2, <2>3, <2>4 DEF Taken
<1>7. Found'
  BY <1>a, <1>b DEF Reliable, IInv, Found, TypeOK, Taken, new_mmb, hil_mmb_alloc, info
<1>8. DelayedIsDue'
  <2> SUFFICES ASSUME NEW g \in Files, g \notin closing', NEW c \in list'[g], c \in delayed'[g]
               PROVE  mmbRef'[g][c] > 0 \/ Calling(g, "munmap", c)' \/ Calling(g, "put", c)'
    BY DEF DelayedIsDue
  <2>1. QED BY <1>a, <1>b DEF IInv, TypeOK, DelayedIsDue, new_mmb, hil_mmb_alloc, info
<1>9. QED BY <1>1, <1>2, <1>3, <1>4, <1>5, <1>6, <1>7, <1>8 DEF IInv

LEMMA FindStep ==
  ASSUME Reliable, IInv, NEW b \in Blocks, NEW at \in {"map", "unmap", "delete"}, Find(b, at)
  PROVE  IInv'
<1>a. \A g \in Files : \A x, c : Calling(g, x, c)' <=> Calling(g, x, c)
  BY KeepFacts DEF Find
<1>b. drv' \in DriverCall
  BY DEF Find, DriverCall
<1>1. TypeOK'
  BY <1>a, <1>b DEF IInv, TypeOK, Find, block, info
<1>2. Lists'
  <2> SUFFICES ASSUME NEW g \in Files, NEW c \in list'[g] PROVE ListOK(g, c)'
    BY DEF Lists
  <2>1. QED BY <1>a DEF IInv, TypeOK, Lists, ListOK, Find, block, info
<1>3. Calls'
  <2> SUFFICES ASSUME NEW g \in Files, NEW c \in Blocks PROVE CallOK(g, c)'
    BY DEF Calls
  <2>1. CallOK(g, c) /\ (c \in list[g] => ListOK(g, c))
    BY DEF IInv, Calls, Lists
  <2>2. QED BY <2>1, <1>a DEF IInv, TypeOK, Lists, ListOK, CallOK, Unlisted, Find, block, info
<1>4. CountsAgree'
  <2>1. ASSUME NEW g \in Files, NEW c \in list'[g] PROVE phyRef'[c] = Entry(g, c)'
    BY <1>a DEF IInv, TypeOK, CountsAgree, Entry, Lists, ListOK, Find, block, info
  <2>2. ASSUME NEW c \in zone', \A g \in Files : c \notin list'[g] PROVE phyRef'[c] = 0
    BY <2>2, <1>a DEF IInv, TypeOK, CountsAgree, Find, block, info
  <2>3. ASSUME NEW c \in zone' PROVE kmapRef'[c] = dmaps'[c]
    BY <1>a DEF IInv, TypeOK, CountsAgree, Find, block, info
  <2>4. QED BY <2>1, <2>2, <2>3 DEF CountsAgree
<1>5. Maps'
  <2>1. ASSUME NEW g \in Files PROVE vma'[g] \subseteq list'[g]
    BY <1>a DEF IInv, TypeOK, Maps, Find, block, info
  <2>2. ASSUME NEW g \in Files, g \notin closing', NEW c \in list'[g] PROVE MapOK(g, c)'
    BY <2>2, <1>a DEF IInv, TypeOK, Maps, MapOK, Find, block, info
  <2>3. QED BY <2>1, <2>2 DEF Maps
<1>6. Taken'
  <2>1. own' \subseteq zone'
    BY <1>a DEF IInv, Taken, Find, block, info
  <2>2. ASSUME NEW c \in zone', Unlisted(c)', c \notin own', \A g \in Files : ~Calling(g, "free", c)'
        PROVE  c \in released'
    <3>1. c \in zone /\ c \notin own
      BY <2>2, <1>a DEF IInv, TypeOK, Unlisted, Find, block, info
    <3>2. Unlisted(c)
      BY <2>2, <1>a DEF IInv, TypeOK, Unlisted, Find, block, info
    <3>3. \A g \in Files : ~Calling(g, "free", c)
      BY <2>2, <1>a DEF Unlisted, Find, block, info
    <3>4. QED BY <2>2, <3>1, <3>2, <3>3, <1>a DEF IInv, Taken, Find, block, info
  <2>3. ASSUME NEW c \in released' PROVE kmapRef'[c] > 0 /\ Unlisted(c)' /\ c \notin own'
    BY <1>a DEF IInv, TypeOK, Taken, Unlisted, Find, block, info
  <2>4. ASSUME NEW c \in Blocks, dmaps'[c] > 0 PROVE c \in zone'
    BY <2>4, <1>a DEF IInv, TypeOK, Taken, Find, block, info
  <2>5. QED BY <2>1, <2>2, <2>3, <2>4 DEF Taken
<1>7. Found'
  BY <1>a DEF Reliable, IInv, Found, TypeOK, Taken, Find, block, info
<1>8. DelayedIsDue'
  <2> SUFFICES ASSUME NEW g \in Files, g \notin closing', NEW c \in list'[g], c \in delayed'[g]
               PROVE  mmbRef'[g][c] > 0 \/ Calling(g, "munmap", c)' \/ Calling(g, "put", c)'
    BY DEF DelayedIsDue
  <2>1. QED BY <1>a DEF IInv, TypeOK, DelayedIsDue, Find, block, info
<1>9. QED BY <1>1, <1>2, <1>3, <1>4, <1>5, <1>6, <1>7, <1>8 DEF IInv

LEMMA RemapKernStep ==
  ASSUME Reliable, IInv, NEW b \in Blocks, b = drv.blk, remap_mmb
  PROVE  IInv'
<1>a. \A g \in Files : \A x, c : Calling(g, x, c)' <=> Calling(g, x, c)
  BY KeepFacts DEF remap_mmb
<1>b. drv' \in DriverCall
  BY NoCallType DEF remap_mmb
<1>c. drv'.at = "idle"
  BY NoCallType DEF remap_mmb
<1>d. b \in zone
  BY DEF remap_mmb, IInv, Found
<1>1. TypeOK'
  BY <1>a, <1>b, <1>d DEF IInv, TypeOK, remap_mmb, hil_mmb_map2kern, info
<1>2. Lists'
  <2> SUFFICES ASSUME NEW g \in Files, NEW c \in list'[g] PROVE ListOK(g, c)'
    BY DEF Lists
  <2>1. QED BY <1>a, <1>d DEF IInv, TypeOK, Lists, ListOK, remap_mmb, hil_mmb_map2kern, info
<1>3. Calls'
  <2> SUFFICES ASSUME NEW g \in Files, NEW c \in Blocks PROVE CallOK(g, c)'
    BY DEF Calls
  <2>1. CallOK(g, c) /\ (c \in list[g] => ListOK(g, c))
    BY DEF IInv, Calls, Lists
  <2>2. QED BY <2>1, <1>a, <1>d DEF IInv, TypeOK, Lists, ListOK, CallOK, Unlisted, remap_mmb, hil_mmb_map2kern, info
<1>4. CountsAgree'
  <2>1. ASSUME NEW g \in Files, NEW c \in list'[g] PROVE phyRef'[c] = Entry(g, c)'
    BY <1>a, <1>d DEF IInv, TypeOK, CountsAgree, Entry, Lists, ListOK, remap_mmb, hil_mmb_map2kern, info
  <2>2. ASSUME NEW c \in zone', \A g \in Files : c \notin list'[g] PROVE phyRef'[c] = 0
    BY <2>2, <1>a, <1>d DEF IInv, TypeOK, CountsAgree, remap_mmb, hil_mmb_map2kern, info
  <2>3. ASSUME NEW c \in zone' PROVE kmapRef'[c] = dmaps'[c]
    BY <1>a, <1>d DEF IInv, TypeOK, CountsAgree, remap_mmb, hil_mmb_map2kern, info
  <2>4. QED BY <2>1, <2>2, <2>3 DEF CountsAgree
<1>5. Maps'
  <2>1. ASSUME NEW g \in Files PROVE vma'[g] \subseteq list'[g]
    BY <1>a, <1>d DEF IInv, TypeOK, Maps, remap_mmb, hil_mmb_map2kern, info
  <2>2. ASSUME NEW g \in Files, g \notin closing', NEW c \in list'[g] PROVE MapOK(g, c)'
    BY <2>2, <1>a, <1>d DEF IInv, TypeOK, Maps, MapOK, remap_mmb, hil_mmb_map2kern, info
  <2>3. QED BY <2>1, <2>2 DEF Maps
<1>6. Taken'
  <2>1. own' \subseteq zone'
    BY <1>a, <1>d DEF IInv, Taken, remap_mmb, hil_mmb_map2kern, info
  <2>2. ASSUME NEW c \in zone', Unlisted(c)', c \notin own', \A g \in Files : ~Calling(g, "free", c)'
        PROVE  c \in released'
    <3>1. c \in zone /\ c \notin own
      BY <2>2, <1>a, <1>d DEF IInv, TypeOK, Unlisted, remap_mmb, hil_mmb_map2kern, info
    <3>2. Unlisted(c)
      BY <2>2, <1>a, <1>d DEF IInv, TypeOK, Unlisted, remap_mmb, hil_mmb_map2kern, info
    <3>3. \A g \in Files : ~Calling(g, "free", c)
      BY <2>2, <1>a, <1>d DEF Unlisted, remap_mmb, hil_mmb_map2kern, info
    <3>4. QED BY <2>2, <3>1, <3>2, <3>3, <1>a, <1>d DEF IInv, Taken, remap_mmb, hil_mmb_map2kern, info
  <2>3. ASSUME NEW c \in released' PROVE kmapRef'[c] > 0 /\ Unlisted(c)' /\ c \notin own'
    BY <1>a, <1>d DEF IInv, TypeOK, Taken, Unlisted, remap_mmb, hil_mmb_map2kern, info
  <2>4. ASSUME NEW c \in Blocks, dmaps'[c] > 0 PROVE c \in zone'
    BY <2>4, <1>a, <1>d DEF IInv, TypeOK, Taken, remap_mmb, hil_mmb_map2kern, info
  <2>5. QED BY <2>1, <2>2, <2>3, <2>4 DEF Taken
<1>7. Found'
  BY <1>a, <1>c, <1>d DEF Reliable, IInv, Found, TypeOK, Taken, remap_mmb, hil_mmb_map2kern, info
<1>8. DelayedIsDue'
  <2> SUFFICES ASSUME NEW g \in Files, g \notin closing', NEW c \in list'[g], c \in delayed'[g]
               PROVE  mmbRef'[g][c] > 0 \/ Calling(g, "munmap", c)' \/ Calling(g, "put", c)'
    BY DEF DelayedIsDue
  <2>1. QED BY <1>a, <1>d DEF IInv, TypeOK, DelayedIsDue, remap_mmb, hil_mmb_map2kern, info
<1>9. QED BY <1>1, <1>2, <1>3, <1>4, <1>5, <1>6, <1>7, <1>8 DEF IInv

LEMMA UnmapKernStep ==
  ASSUME Reliable, IInv, NEW b \in Blocks, b = drv.blk, unmap_mmb
  PROVE  IInv'
<1>a. \A g \in Files : \A x, c : Calling(g, x, c)' <=> Calling(g, x, c)
  BY KeepFacts DEF unmap_mmb
<1>b. drv' \in DriverCall
  BY NoCallType DEF unmap_mmb
<1>c. drv'.at = "idle"
  BY NoCallType DEF unmap_mmb
<1>d. b \in zone /\ dmaps[b] > 0 /\ kmapRef[b] = dmaps[b]
  BY DEF unmap_mmb, IInv, Found, CountsAgree
<1>e. b \in released => phyRef[b] = 0 /\ Unlisted(b) /\ b \notin own
  BY DEF IInv, Taken, CountsAgree, Unlisted, TypeOK
<1>f. /\ kmapRef' = [kmapRef EXCEPT ![b] = @ - 1] /\ UNCHANGED phyRef
      /\ kmapRef[b] = 1 /\ b \in released => zone' = zone \ {b} /\ released' = released \ {b}
      /\ ~(kmapRef[b] = 1 /\ b \in released) => UNCHANGED <<zone, released>>
  <2>1. kmapRef \in [Blocks -> Nat] /\ kmapRef[b] > 0
    BY <1>d DEF IInv, TypeOK
  <2>2. kmapRef' = [kmapRef EXCEPT ![b] = @ - 1] /\ UNCHANGED phyRef
    BY <2>1 DEF unmap_mmb, hil_mmb_unmap
  <2>3. kmapRef'[b] = kmapRef[b] - 1
    BY <2>1, <2>2
  <2>4. hil_mmb_unmap(b)
    BY DEF unmap_mmb
  <2>5. kmapRef'[b] = 0 <=> kmapRef[b] = 1
    BY <2>1, <2>3
  <2>6. IF kmapRef'[b] = 0 /\ b \in released /\ phyRef[b] = 0
        THEN _mmb_free(b) ELSE UNCHANGED <<zone, released>>
    BY <2>4 DEF hil_mmb_unmap
  <2>7. QED BY <2>2, <2>5, <2>6, <1>e DEF _mmb_free
<1>1. TypeOK'
  BY <1>a, <1>b, <1>d, <1>e, <1>f DEF IInv, TypeOK, unmap_mmb, hil_mmb_unmap, _mmb_free, info
<1>2. Lists'
  <2> SUFFICES ASSUME NEW g \in Files, NEW c \in list'[g] PROVE ListOK(g, c)'
    BY DEF Lists
  <2>1. QED BY <1>a, <1>d, <1>e, <1>f DEF IInv, TypeOK, Lists, ListOK, unmap_mmb, hil_mmb_unmap, _mmb_free, info
<1>3. Calls'
  <2> SUFFICES ASSUME NEW g \in Files, NEW c \in Blocks PROVE CallOK(g, c)'
    BY DEF Calls
  <2>1. CallOK(g, c) /\ (c \in list[g] => ListOK(g, c))
    BY DEF IInv, Calls, Lists
  <2>2. QED BY <2>1, <1>a, <1>d, <1>e, <1>f DEF IInv, TypeOK, Lists, ListOK, CallOK, Unlisted, unmap_mmb, hil_mmb_unmap, _mmb_free, info
<1>4. CountsAgree'
  <2>1. ASSUME NEW g \in Files, NEW c \in list'[g] PROVE phyRef'[c] = Entry(g, c)'
    BY <1>a, <1>d, <1>e, <1>f DEF IInv, TypeOK, CountsAgree, Entry, Lists, ListOK, unmap_mmb, hil_mmb_unmap, _mmb_free, info
  <2>2. ASSUME NEW c \in zone', \A g \in Files : c \notin list'[g] PROVE phyRef'[c] = 0
    BY <2>2, <1>a, <1>d, <1>e, <1>f DEF IInv, TypeOK, CountsAgree, unmap_mmb, hil_mmb_unmap, _mmb_free, info
  <2>3. ASSUME NEW c \in zone' PROVE kmapRef'[c] = dmaps'[c]
    BY <1>a, <1>d, <1>e, <1>f DEF IInv, TypeOK, CountsAgree, unmap_mmb, hil_mmb_unmap, _mmb_free, info
  <2>4. QED BY <2>1, <2>2, <2>3 DEF CountsAgree
<1>5. Maps'
  <2>1. ASSUME NEW g \in Files PROVE vma'[g] \subseteq list'[g]
    BY <1>a, <1>d, <1>e, <1>f DEF IInv, TypeOK, Maps, unmap_mmb, hil_mmb_unmap, _mmb_free, info
  <2>2. ASSUME NEW g \in Files, g \notin closing', NEW c \in list'[g] PROVE MapOK(g, c)'
    BY <2>2, <1>a, <1>d, <1>e, <1>f DEF IInv, TypeOK, Maps, MapOK, unmap_mmb, hil_mmb_unmap, _mmb_free, info
  <2>3. QED BY <2>1, <2>2 DEF Maps
<1>6. Taken'
  <2>1. own' \subseteq zone'
    BY <1>a, <1>d, <1>e, <1>f DEF IInv, Taken, unmap_mmb, hil_mmb_unmap, _mmb_free, info
  <2>2. ASSUME NEW c \in zone', Unlisted(c)', c \notin own', \A g \in Files : ~Calling(g, "free", c)'
        PROVE  c \in released'
    <3>1. c \in zone /\ c \notin own
      BY <2>2, <1>a, <1>d, <1>e, <1>f DEF IInv, TypeOK, Unlisted, unmap_mmb, hil_mmb_unmap, _mmb_free, info
    <3>2. Unlisted(c)
      BY <2>2, <1>a, <1>d, <1>e, <1>f DEF IInv, TypeOK, Unlisted, unmap_mmb, hil_mmb_unmap, _mmb_free, info
    <3>3. \A g \in Files : ~Calling(g, "free", c)
      BY <2>2, <1>a, <1>d, <1>e, <1>f DEF Unlisted, unmap_mmb, hil_mmb_unmap, _mmb_free, info
    <3>4. QED BY <2>2, <3>1, <3>2, <3>3, <1>a, <1>d, <1>e, <1>f DEF IInv, Taken, unmap_mmb, hil_mmb_unmap, _mmb_free, info
  <2>3. ASSUME NEW c \in released' PROVE kmapRef'[c] > 0 /\ Unlisted(c)' /\ c \notin own'
    BY <1>a, <1>d, <1>e, <1>f DEF IInv, TypeOK, Taken, Unlisted, unmap_mmb, hil_mmb_unmap, _mmb_free, info
  <2>4. ASSUME NEW c \in Blocks, dmaps'[c] > 0 PROVE c \in zone'
    BY <2>4, <1>a, <1>d, <1>e, <1>f DEF IInv, TypeOK, Taken, unmap_mmb, hil_mmb_unmap, _mmb_free, info
  <2>5. QED BY <2>1, <2>2, <2>3, <2>4 DEF Taken
<1>7. Found'
  BY <1>a, <1>c, <1>d, <1>e, <1>f DEF Reliable, IInv, Found, TypeOK, Taken, unmap_mmb, hil_mmb_unmap, _mmb_free, info
<1>8. DelayedIsDue'
  <2> SUFFICES ASSUME NEW g \in Files, g \notin closing', NEW c \in list'[g], c \in delayed'[g]
               PROVE  mmbRef'[g][c] > 0 \/ Calling(g, "munmap", c)' \/ Calling(g, "put", c)'
    BY DEF DelayedIsDue
  <2>1. QED BY <1>a, <1>d, <1>e, <1>f DEF IInv, TypeOK, DelayedIsDue, unmap_mmb, hil_mmb_unmap, _mmb_free, info
<1>9. QED BY <1>1, <1>2, <1>3, <1>4, <1>5, <1>6, <1>7, <1>8 DEF IInv

LEMMA DeleteStep ==
  ASSUME Reliable, IInv, NEW b \in Blocks, b = drv.blk, delete_mmb
  PROVE  IInv'
<1>a. \A g \in Files : \A x, c : Calling(g, x, c)' <=> Calling(g, x, c)
  BY KeepFacts DEF delete_mmb
<1>b. drv' \in DriverCall
  BY NoCallType DEF delete_mmb
<1>c. drv'.at = "idle"
  BY NoCallType DEF delete_mmb
<1>d. /\ b \in zone /\ b \in own /\ b \notin released /\ Unlisted(b)
      /\ \A g \in Files : ~Calling(g, "free", b)
  BY DEF delete_mmb, IInv, Found, Taken, Lists, ListOK, Unlisted, Calls, CallOK
<1>e. phyRef[b] = 0 /\ kmapRef[b] = dmaps[b] /\ kmapRef[b] \in Nat
  BY <1>d DEF IInv, CountsAgree, Unlisted, TypeOK
<1>f. /\ kmapRef[b] > 0 => released' = released \cup {b} /\ zone' = zone
      /\ kmapRef[b] = 0 => zone' = zone \ {b} /\ released' = released \ {b}
      /\ UNCHANGED <<phyRef, kmapRef>>
  BY <1>d, <1>e DEF delete_mmb, hil_mmb_free, _mmb_free
<1>1. TypeOK'
  BY <1>a, <1>b, <1>d, <1>e, <1>f DEF IInv, TypeOK, delete_mmb, hil_mmb_free, _mmb_free, info
<1>2. Lists'
  <2> SUFFICES ASSUME NEW g \in Files, NEW c \in list'[g] PROVE ListOK(g, c)'
    BY DEF Lists
  <2>1. QED BY <1>a, <1>d, <1>e, <1>f DEF IInv, TypeOK, Lists, ListOK, delete_mmb, hil_mmb_free, _mmb_free, info
<1>3. Calls'
  <2> SUFFICES ASSUME NEW g \in Files, NEW c \in Blocks PROVE CallOK(g, c)'
    BY DEF Calls
  <2>1. CallOK(g, c) /\ (c \in list[g] => ListOK(g, c))
    BY DEF IInv, Calls, Lists
  <2>2. QED BY <2>1, <1>a, <1>d, <1>e, <1>f DEF IInv, TypeOK, Lists, ListOK, CallOK, Unlisted, delete_mmb, hil_mmb_free, _mmb_free, info
<1>4. CountsAgree'
  <2>1. ASSUME NEW g \in Files, NEW c \in list'[g] PROVE phyRef'[c] = Entry(g, c)'
    BY <1>a, <1>d, <1>e, <1>f DEF IInv, TypeOK, CountsAgree, Entry, Lists, ListOK, delete_mmb, hil_mmb_free, _mmb_free, info
  <2>2. ASSUME NEW c \in zone', \A g \in Files : c \notin list'[g] PROVE phyRef'[c] = 0
    BY <2>2, <1>a, <1>d, <1>e, <1>f DEF IInv, TypeOK, CountsAgree, delete_mmb, hil_mmb_free, _mmb_free, info
  <2>3. ASSUME NEW c \in zone' PROVE kmapRef'[c] = dmaps'[c]
    BY <1>a, <1>d, <1>e, <1>f DEF IInv, TypeOK, CountsAgree, delete_mmb, hil_mmb_free, _mmb_free, info
  <2>4. QED BY <2>1, <2>2, <2>3 DEF CountsAgree
<1>5. Maps'
  <2>1. ASSUME NEW g \in Files PROVE vma'[g] \subseteq list'[g]
    BY <1>a, <1>d, <1>e, <1>f DEF IInv, TypeOK, Maps, delete_mmb, hil_mmb_free, _mmb_free, info
  <2>2. ASSUME NEW g \in Files, g \notin closing', NEW c \in list'[g] PROVE MapOK(g, c)'
    BY <2>2, <1>a, <1>d, <1>e, <1>f DEF IInv, TypeOK, Maps, MapOK, delete_mmb, hil_mmb_free, _mmb_free, info
  <2>3. QED BY <2>1, <2>2 DEF Maps
<1>6. Taken'
  <2>1. UNCHANGED <<list, kmapRef, dmaps>> /\ own' = own \ {b}
    BY <1>f DEF delete_mmb, info
  <2>2. \A c : Unlisted(c)' = Unlisted(c)
    BY <2>1 DEF Unlisted
  <2>3. own' \subseteq zone'
    BY <2>1, <1>e, <1>f DEF IInv, Taken
  <2>4. ASSUME NEW c \in zone', Unlisted(c)', c \notin own', \A g \in Files : ~Calling(g, "free", c)'
        PROVE  c \in released'
    <3>1. CASE c = b
      BY <3>1, <1>e, <1>f
    <3>2. CASE c # b
      <4>1. c \in zone /\ (c \in released => c \in released')
        BY <3>2, <1>e, <1>f
      <4>2. \A g \in Files : ~Calling(g, "free", c)
        BY <2>4, <1>a
      <4>3. QED BY <2>1, <2>2, <2>4, <3>2, <4>1, <4>2 DEF IInv, Taken
    <3>3. QED BY <3>1, <3>2
  <2>5. ASSUME NEW c \in released' PROVE kmapRef'[c] > 0 /\ Unlisted(c)' /\ c \notin own'
    BY <2>1, <2>2, <1>d, <1>e, <1>f DEF IInv, Taken
  <2>6. ASSUME NEW c \in Blocks, dmaps'[c] > 0 PROVE c \in zone'
    BY <2>1, <2>6, <1>e, <1>f DEF IInv, Taken, TypeOK
  <2>7. QED BY <2>3, <2>4, <2>5, <2>6 DEF Taken
<1>7. Found'
  BY <1>a, <1>c, <1>d, <1>e, <1>f DEF Reliable, IInv, Found, TypeOK, Taken, delete_mmb, hil_mmb_free, _mmb_free, info
<1>8. DelayedIsDue'
  <2> SUFFICES ASSUME NEW g \in Files, g \notin closing', NEW c \in list'[g], c \in delayed'[g]
               PROVE  mmbRef'[g][c] > 0 \/ Calling(g, "munmap", c)' \/ Calling(g, "put", c)'
    BY DEF DelayedIsDue
  <2>1. QED BY <1>a, <1>d, <1>e, <1>f DEF IInv, TypeOK, DelayedIsDue, delete_mmb, hil_mmb_free, _mmb_free, info
<1>9. QED BY <1>1, <1>2, <1>3, <1>4, <1>5, <1>6, <1>7, <1>8 DEF IInv

-----------------------------------------------------------------------------
(* Every step keeps the invariant.                                         *)
LEMMA Initially == Init => IInv
<1> SUFFICES ASSUME Init PROVE IInv
  OBVIOUS
<1>1. \A f \in Files : call[f].at = "idle" /\ call[f] \in UserCall
  BY NoCallType DEF Init
<1>2. \A f \in Files : \A x, c : x # "idle" => ~Calling(f, x, c)
  BY <1>1, IdleFacts
<1>3. drv.at = "idle" /\ drv \in DriverCall
  BY NoCallType DEF Init
<1>4. TypeOK
  BY <1>1, <1>3, NoCallType DEF Init, TypeOK
<1>5. Lists /\ Maps /\ Taken /\ CountsAgree /\ DelayedIsDue
  BY DEF Init, Lists, Maps, Taken, CountsAgree, DelayedIsDue
<1>6. Calls
  BY <1>2 DEF Calls, CallOK
<1>7. Found
  BY <1>3 DEF Found
<1>8. QED BY <1>4, <1>5, <1>6, <1>7 DEF IInv

(* The block a call is about.                                              *)
LEMMA CallBlock ==
  ASSUME TypeOK, NEW f \in Files, call[f].at # "idle"
  PROVE  call[f].blk \in Blocks
BY NoCallType DEF TypeOK, UserCall

LEMMA DriverBlock ==
  ASSUME TypeOK, drv.at # "idle"
  PROVE  drv.blk \in Blocks
BY NoCallType DEF TypeOK, DriverCall

LEMMA Unchanged == ASSUME IInv, UNCHANGED vars PROVE IInv'
<1>1. /\ UNCHANGED <<zone, phyRef, kmapRef, released, list, mmbRef, mapRef, mapped, delayed>>
      /\ UNCHANGED <<vma, call, closing, drv, own, dmaps>>
  BY DEF vars, block, info, driver
<1>2. \A f, x, c : Calling(f, x, c)' = Calling(f, x, c)
  BY <1>1 DEF Calling
<1>3. TypeOK'
  BY <1>1 DEF IInv, TypeOK
<1>4. Lists' /\ Maps' /\ Taken' /\ Found'
  BY <1>1, <1>2 DEF IInv, Lists, ListOK, Maps, MapOK, Taken, Unlisted, Found
<1>5. Calls'
  BY <1>1, <1>2 DEF IInv, Calls, CallOK, Unlisted
<1>6. CountsAgree' /\ DelayedIsDue'
  BY <1>1, <1>2 DEF IInv, CountsAgree, Entry, DelayedIsDue
<1>7. QED BY <1>3, <1>4, <1>5, <1>6 DEF IInv

LEMMA StepIInv == ASSUME Reliable, IInv, [Next]_vars PROVE IInv'
<1>1. CASE UNCHANGED vars
  BY <1>1, Unchanged
<1>2. ASSUME NEW f \in Files, UserStep(f) PROVE IInv'
  <2>1. TypeOK
    BY DEF IInv
  <2>2. ASSUME NEW b \in Blocks,
               \/ ioctl_mmb_alloc(f, b) \/ ioctl_mmb_free(f, b)
               \/ ioctl_mmb_user_remap(f, b) \/ ioctl_mmb_user_unmap(f, b)
               \/ AddRef(f, b) \/ DecRef(f, b) \/ ExitUnmap(f, b) \/ ReleaseEntry(f, b)
        PROVE  IInv'
    BY <2>2, AllocStep, FreeStep, RemapStep, UnmapStep, AddRefStep, DecRefStep, ExitUnmapStep, ReleaseStep
  <2>3. CASE AllocGet(f)
    <3>1. call[f].blk \in Blocks
      BY <2>1, <2>3, CallBlock DEF AllocGet
    <3>2. QED BY <2>3, <3>1, AllocGetStep
  <2>4. CASE do_munmap(f)
    <3>1. call[f].blk \in Blocks
      BY <2>1, <2>4, CallBlock DEF do_munmap
    <3>2. QED BY <2>4, <3>1, MunmapStep
  <2>5. CASE FreePut(f)
    <3>1. call[f].blk \in Blocks
      BY <2>1, <2>5, CallBlock DEF FreePut
    <3>2. QED BY <2>5, <3>1, FreePutStep
  <2>6. CASE FreeBlock(f)
    <3>1. call[f].blk \in Blocks
      BY <2>1, <2>6, CallBlock DEF FreeBlock
    <3>2. QED BY <2>6, <3>1, FreeBlockStep
  <2>7. CASE Exit(f) \/ Closed(f)
    BY <2>7, ExitStep, ClosedStep
  <2>8. QED BY <1>2, <2>2, <2>3, <2>4, <2>5, <2>6, <2>7 DEF UserStep
<1>3. CASE DriverStep
  <2>1. TypeOK
    BY DEF IInv
  <2>2. ASSUME NEW b \in Blocks, new_mmb(b) \/ \E at \in {"map", "unmap", "delete"} : Find(b, at)
        PROVE  IInv'
    BY <2>2, NewStep, FindStep
  <2>3. CASE remap_mmb
    <3>1. drv.blk \in Blocks
      BY <2>1, <2>3, DriverBlock DEF remap_mmb
    <3>2. QED BY <2>3, <3>1, RemapKernStep
  <2>4. CASE unmap_mmb
    <3>1. drv.blk \in Blocks
      BY <2>1, <2>4, DriverBlock DEF unmap_mmb
    <3>2. QED BY <2>4, <3>1, UnmapKernStep
  <2>5. CASE delete_mmb
    <3>1. drv.blk \in Blocks
      BY <2>1, <2>5, DriverBlock DEF delete_mmb
    <3>2. QED BY <2>5, <3>1, DeleteStep
  <2>6. QED BY <1>3, <2>2, <2>3, <2>4, <2>5 DEF DriverStep
<1>4. QED BY <1>1, <1>2, <1>3 DEF Next

-----------------------------------------------------------------------------
(* The invariant holds whatever the users and the driver do.               *)
THEOREM Invariant == ASSUME Reliable PROVE Spec => []IInv
<1>1. Init => IInv
  BY Initially
<1>2. IInv /\ [Next]_vars => IInv'
  BY StepIInv
<1>3. QED BY <1>1, <1>2, PTL DEF Spec

(* Every count stays a natural number, every call and block in its set.    *)
THEOREM TypeCorrect == ASSUME Reliable PROVE Spec => []TypeOK
<1>1. IInv => TypeOK
  BY DEF IInv
<1>2. QED BY <1>1, Invariant, PTL

(* No interleaving of calls, exits and drivers loses a reference to a      *)
(* block or drops one twice.                                               *)
THEOREM CountsExact == ASSUME Reliable PROVE Spec => []CountsAgree
<1>1. IInv => CountsAgree
  BY DEF IInv
<1>2. QED BY <1>1, Invariant, PTL

(* Two files, or a file and a driver, never own the same block.            *)
THEOREM OwnedOnce == ASSUME Reliable PROVE Spec => []OneOwner
<1>1. IInv => OneOwner
  BY DEF IInv, Lists, ListOK, OneOwner
<1>2. QED BY <1>1, Invariant, PTL

(* The block a driver has looked up is there when it uses it, as long as   *)
(* nobody frees a block while a driver is about to map it.                 *)
THEOREM FreedInTheEnd == ASSUME Reliable PROVE Spec => []DelayedIsDue
<1>1. IInv => DelayedIsDue
  BY DEF IInv
<1>2. QED BY <1>1, Invariant, PTL

-----------------------------------------------------------------------------
(* The blocks implement MmzOwners.  Four ways to change one block, told by *)
(* its owners and mappings before and after.                               *)
Same(c) == OwnersOf(c)' = OwnersOf(c) /\ MapsOf(c)' = MapsOf(c)

LEMMA AbstractNothing ==
  ASSUME zone' = zone, \A c \in Blocks : Same(c)
  PROVE  UNCHANGED Owners!ovars
BY DEF Owners!ovars, Same

LEMMA AbstractAllocate ==
  ASSUME NEW b \in Blocks, NEW a \in Actors, b \notin zone, MapsOf(b) = {}, MapsOf(b)' = {},
         zone' = zone \cup {b}, OwnersOf(b)' = {a}, \A c \in Blocks \ {b} : Same(c)
  PROVE  Owners!Next
<1>1. Owners!Allocate(b, a)
  BY DEF Owners!Allocate, Same
<1>2. QED BY <1>1 DEF Owners!Next

LEMMA AbstractMap ==
  ASSUME NEW b \in Blocks, NEW a \in Actors, b \in zone, zone' = zone,
         OwnersOf(b)' = OwnersOf(b), MapsOf(b)' = MapsOf(b) \cup {a},
         \A c \in Blocks \ {b} : Same(c)
  PROVE  Owners!Next
<1>1. Owners!Map(b, a)
  BY DEF Owners!Map, Same
<1>2. QED BY <1>1 DEF Owners!Next

LEMMA AbstractFree ==
  ASSUME NEW b \in Blocks, NEW a \in Actors, b \in zone,
         OwnersOf(b)' = OwnersOf(b) \ {a}, MapsOf(b)' = MapsOf(b),
         zone' = IF OwnersOf(b)' \cup MapsOf(b)' = {} THEN zone \ {b} ELSE zone,
         \A c \in Blocks \ {b} : Same(c)
  PROVE  Owners!Next
<1>1. Owners!Drop(b, {a}, {})
  BY DEF Owners!Drop, Same
<1>2. QED BY <1>1 DEF Owners!Next

LEMMA AbstractUnmap ==
  ASSUME NEW b \in Blocks, NEW a \in Actors, b \in zone,
         OwnersOf(b)' = OwnersOf(b), MapsOf(b)' = MapsOf(b) \ {a},
         zone' = IF OwnersOf(b)' \cup MapsOf(b)' = {} THEN zone \ {b} ELSE zone,
         \A c \in Blocks \ {b} : Same(c)
  PROVE  Owners!Next
<1>1. Owners!Drop(b, {}, {a})
  BY DEF Owners!Drop, Same
<1>2. QED BY <1>1 DEF Owners!Next

LEMMA SameWhen ==
  ASSUME NEW c \in Blocks,
         \A g \in Files : (c \in list'[g] \/ Calling(g, "free", c)')
                            <=> (c \in list[g] \/ Calling(g, "free", c)),
         c \in own' <=> c \in own,
         \A g \in Files : c \in vma'[g] <=> c \in vma[g],
         (c \in zone' /\ dmaps'[c] > 0) <=> (c \in zone /\ dmaps[c] > 0)
  PROVE  Same(c)
BY DEF Same, OwnersOf, MapsOf

(* A call that goes on, other than into or out of the freeing of a block.  *)
LEMMA FreeingKept ==
  ASSUME IInv, NEW f \in Files, ~ (call[f].at = "free"),
         \/ UNCHANGED call \/ Done(f)
         \/ \E b \in Blocks, at \in {"get", "munmap", "put"} : Go(f, at, b)
  PROVE  \A g \in Files : \A c : Calling(g, "free", c)' <=> Calling(g, "free", c)
<1>1. \A c : ~Calling(f, "free", c)
  BY DEF Calling
<1>2. CASE UNCHANGED call
  BY <1>2, KeepFacts
<1>3. CASE Done(f)
  BY <1>1, <1>3, DoneFacts DEF IInv
<1>4. ASSUME NEW b \in Blocks, NEW at \in {"get", "munmap", "put"}, Go(f, at, b)
      PROVE  \A g \in Files : \A c : Calling(g, "free", c)' <=> Calling(g, "free", c)
  BY <1>1, <1>4, GoFacts DEF IInv
<1>5. QED BY <1>2, <1>3, <1>4

(* Steps that change no owner and no mapping.                              *)
LEMMA CountingSteps ==
  ASSUME IInv, NEW f \in Files, NEW b \in Blocks,
         \/ ioctl_mmb_user_unmap(f, b) \/ AddRef(f, b) \/ DecRef(f, b)
         \/ ioctl_mmb_free(f, b) \/ ReleaseEntry(f, b)
  PROVE  UNCHANGED Owners!ovars
<1>1. b \in list[f] /\ call[f].at = "idle"
  BY DEF ioctl_mmb_user_unmap, AddRef, DecRef, ioctl_mmb_free, ReleaseEntry, Ready
<1>2. UNCHANGED <<list, vma, own, dmaps>>
  BY DEF ioctl_mmb_user_unmap, AddRef, DecRef, ioctl_mmb_free, ReleaseEntry, driver
<1>3. zone' = zone
  <2>1. hil_mmb_put(b) => zone' = zone
    BY <1>1, PutKeeps
  <2>2. hil_mmb_put(b) \/ hil_mmb_get(b) \/ UNCHANGED block
    BY DEF ioctl_mmb_user_unmap, AddRef, DecRef, ioctl_mmb_free, ReleaseEntry
  <2>3. QED BY <2>1, <2>2 DEF hil_mmb_get, block
<1>4. UNCHANGED call \/ \E at \in {"get", "munmap", "put"} : Go(f, at, b)
  BY DEF ioctl_mmb_user_unmap, AddRef, DecRef, ioctl_mmb_free, ReleaseEntry
<1>5. \A g \in Files : \A c : Calling(g, "free", c)' <=> Calling(g, "free", c)
  BY <1>1, <1>4, FreeingKept
<1>6. \A c \in Blocks : Same(c)
  BY <1>2, <1>3, <1>5, SameWhen
<1>7. QED BY <1>3, <1>6, AbstractNothing

LEMMA QuietSteps ==
  ASSUME IInv, NEW f \in Files, AllocGet(f) \/ Exit(f) \/ Closed(f)
  PROVE  UNCHANGED Owners!ovars
<1>1. UNCHANGED <<list, vma, own, dmaps, zone>>
  BY DEF AllocGet, Exit, Closed, hil_mmb_get, block, info, driver
<1>2. ~(call[f].at = "free") /\ (UNCHANGED call \/ Done(f))
  BY DEF AllocGet, Exit, Closed, Ready
<1>3. \A g \in Files : \A c : Calling(g, "free", c)' <=> Calling(g, "free", c)
  BY <1>2, FreeingKept
<1>4. \A c \in Blocks : Same(c)
  BY <1>1, <1>3, SameWhen
<1>5. QED BY <1>1, <1>4, AbstractNothing

(* Out of the list, but still to be freed.                                 *)
LEMMA FreePutQuiet ==
  ASSUME IInv, NEW f \in Files, NEW b \in Blocks, b = call[f].blk, FreePut(f)
  PROVE  UNCHANGED Owners!ovars
<1>1. Calling(f, "put", b) /\ b \in list[f]
  BY DEF FreePut, IInv, Calls, CallOK, Calling
<1>2. zone' = zone
  BY <1>1, PutKeeps DEF FreePut
<1>3. UNCHANGED <<vma, own, dmaps>>
  BY DEF FreePut, driver
<1>4. \A g \in Files : list'[g] = IF g = f THEN list[g] \ {b} ELSE list[g]
  BY DEF FreePut, IInv, TypeOK
<1>5. \A g \in Files : \A c :
        Calling(g, "free", c)' <=> IF g = f THEN c = b ELSE Calling(g, "free", c)
  BY GoFacts DEF FreePut, IInv
<1>6. \A c : ~Calling(f, "free", c)
  BY <1>1 DEF Calling
<1>7. \A c \in Blocks : Same(c)
  <2> SUFFICES ASSUME NEW c \in Blocks PROVE Same(c)
    OBVIOUS
  <2>1. ASSUME NEW g \in Files
        PROVE  (c \in list'[g] \/ Calling(g, "free", c)')
                 <=> (c \in list[g] \/ Calling(g, "free", c))
    BY <1>1, <1>4, <1>5, <1>6
  <2>2. QED BY <1>2, <1>3, <2>1, SameWhen
<1>8. QED BY <1>2, <1>7, AbstractNothing

LEMMA FindQuiet ==
  ASSUME NEW b \in Blocks, NEW at, Find(b, at)
  PROVE  UNCHANGED Owners!ovars
<1>1. UNCHANGED <<list, vma, own, dmaps, zone, call>>
  BY DEF Find, block, info
<1>2. \A g \in Files : \A c : Calling(g, "free", c)' <=> Calling(g, "free", c)
  BY <1>1 DEF Calling
<1>3. \A c \in Blocks : Same(c)
  BY <1>1, <1>2, SameWhen
<1>4. QED BY <1>1, <1>3, AbstractNothing

LEMMA AllocAbstract ==
  ASSUME IInv, NEW f \in Files, NEW b \in Blocks, ioctl_mmb_alloc(f, b)
  PROVE  Owners!Next
<1>1. b \notin zone /\ zone' = zone \cup {b} /\ UNCHANGED <<vma, own, dmaps>>
  BY DEF ioctl_mmb_alloc, hil_mmb_alloc, driver
<1>2. /\ b \notin own /\ dmaps[b] = 0
      /\ \A g \in Files : b \notin list[g] /\ b \notin vma[g] /\ ~Calling(g, "free", b)
  BY <1>1 DEF IInv, TypeOK, Taken, Lists, ListOK, Maps, Calls, CallOK
<1>3. \A g \in Files : list'[g] = IF g = f THEN list[g] \cup {b} ELSE list[g]
  BY DEF ioctl_mmb_alloc, IInv, TypeOK
<1>4. \A g \in Files : \A c : Calling(g, "free", c)' <=> Calling(g, "free", c)
  BY FreeingKept DEF ioctl_mmb_alloc, Ready
<1>5. MapsOf(b) = {} /\ MapsOf(b)' = {}
  BY <1>1, <1>2 DEF MapsOf
<1>6. OwnersOf(b)' = {f}
  BY <1>1, <1>2, <1>3, <1>4 DEF OwnersOf
<1>7. \A c \in Blocks \ {b} : Same(c)
  <2> SUFFICES ASSUME NEW c \in Blocks \ {b} PROVE Same(c)
    OBVIOUS
  <2>1. c \in Blocks /\ (c \in zone' <=> c \in zone)
    BY <1>1
  <2>2. QED BY <1>1, <1>3, <1>4, <2>1, SameWhen
<1>8. f \in Actors
  BY DEF Actors
<1>9. QED BY <1>1, <1>5, <1>6, <1>7, <1>8, AbstractAllocate

LEMMA RemapAbstract ==
  ASSUME IInv, NEW f \in Files, NEW b \in Blocks, ioctl_mmb_user_remap(f, b)
  PROVE  Owners!Next
<1>1. zone' = zone /\ b \in zone /\ UNCHANGED <<list, own, dmaps, call>>
  BY DEF ioctl_mmb_user_remap, hil_mmb_get, driver, IInv, Lists, ListOK
<1>2. \A g \in Files : vma'[g] = IF g = f THEN vma[g] \cup {b} ELSE vma[g]
  BY DEF ioctl_mmb_user_remap, IInv, TypeOK
<1>3. \A g \in Files : \A c : Calling(g, "free", c)' <=> Calling(g, "free", c)
  BY <1>1 DEF Calling
<1>4. OwnersOf(b)' = OwnersOf(b)
  BY <1>1, <1>3 DEF OwnersOf
<1>5. MapsOf(b)' = MapsOf(b) \cup {f}
  BY <1>1, <1>2 DEF MapsOf
<1>6. \A c \in Blocks \ {b} : Same(c)
  BY <1>1, <1>2, <1>3, SameWhen
<1>7. f \in Actors
  BY DEF Actors
<1>8. QED BY <1>1, <1>4, <1>5, <1>6, <1>7, AbstractMap

(* A file's mapping goes; the block stays, the file still owns it.         *)
LEMMA VmaGone ==
  ASSUME IInv, NEW f \in Files, NEW b \in list[f],
         vma' = [vma EXCEPT ![f] = @ \ {b}], UNCHANGED <<list, own, dmaps, zone>>,
         \A g \in Files : \A c : Calling(g, "free", c)' <=> Calling(g, "free", c)
  PROVE  Owners!Next
<1>1. b \in Blocks /\ b \in zone /\ f \in Actors
  BY MmzAssumption DEF IInv, TypeOK, Lists, ListOK, Actors
<1>2. \A g \in Files : vma'[g] = IF g = f THEN vma[g] \ {b} ELSE vma[g]
  BY DEF IInv, TypeOK
<1>3. OwnersOf(b)' = OwnersOf(b) /\ f \in OwnersOf(b)'
  BY DEF OwnersOf
<1>4. MapsOf(b)' = MapsOf(b) \ {f}
  BY <1>2, MmzAssumption DEF MapsOf
<1>5. \A c \in Blocks \ {b} : Same(c)
  BY <1>2, SameWhen
<1>6. zone' = IF OwnersOf(b)' \cup MapsOf(b)' = {} THEN zone \ {b} ELSE zone
  BY <1>3
<1>7. QED BY <1>1, <1>3, <1>4, <1>5, <1>6, AbstractUnmap

LEMMA MunmapAbstract ==
  ASSUME Reliable, IInv, NEW f \in Files, NEW b \in Blocks, b = call[f].blk, do_munmap(f)
  PROVE  Owners!Next
<1>1. b \in list[f] /\ call[f].at = "munmap"
  BY DEF do_munmap, IInv, Calls, CallOK, Calling
<1>2. vma' = [vma EXCEPT ![f] = @ \ {b}] /\ UNCHANGED <<list, own, dmaps, zone>>
  BY DEF do_munmap, Reliable, block, driver
<1>3. \A g \in Files : \A c : Calling(g, "free", c)' <=> Calling(g, "free", c)
  BY <1>1, FreeingKept DEF do_munmap
<1>4. QED BY <1>1, <1>2, <1>3, VmaGone

LEMMA ExitUnmapAbstract ==
  ASSUME IInv, NEW f \in Files, NEW b \in Blocks, ExitUnmap(f, b)
  PROVE  Owners!Next
<1>1. b \in list[f]
  BY DEF ExitUnmap, IInv, Maps
<1>2. vma' = [vma EXCEPT ![f] = @ \ {b}] /\ UNCHANGED <<list, own, dmaps, zone, call>>
  BY DEF ExitUnmap, block, info, driver
<1>3. \A g \in Files : \A c : Calling(g, "free", c)' <=> Calling(g, "free", c)
  BY <1>2 DEF Calling
<1>4. QED BY <1>1, <1>2, <1>3, VmaGone

LEMMA FreeBlockAbstract ==
  ASSUME IInv, NEW f \in Files, NEW b \in Blocks, b = call[f].blk, FreeBlock(f)
  PROVE  Owners!Next
<1>1. /\ Calling(f, "free", b) /\ b \in zone /\ b \notin released /\ b \notin own /\ Unlisted(b)
      /\ \A g \in Files : Calling(g, "free", b) => g = f
  BY DEF FreeBlock, IInv, Calls, CallOK, Calling
<1>2. phyRef[b] = 0 /\ kmapRef[b] = dmaps[b] /\ kmapRef[b] \in Nat
  BY <1>1 DEF IInv, CountsAgree, Unlisted, TypeOK
<1>3. /\ zone' = IF dmaps[b] > 0 THEN zone ELSE zone \ {b}
      /\ UNCHANGED <<list, vma, own, dmaps>>
  BY <1>1, <1>2 DEF FreeBlock, hil_mmb_free, _mmb_free, info, driver
<1>4. \A g \in Files : \A c :
        Calling(g, "free", c)' <=> IF g = f THEN FALSE ELSE Calling(g, "free", c)
  BY DoneFacts DEF FreeBlock, IInv
<1>5. \A c : Calling(f, "free", c) => c = b
  BY <1>1 DEF Calling
<1>6. \A g \in Files : b \notin vma[g]
  BY <1>1 DEF IInv, Maps, Unlisted
<1>7. OwnersOf(b)' = OwnersOf(b) \ {f} /\ OwnersOf(b)' = {}
  BY <1>1, <1>3, <1>4, MmzAssumption DEF OwnersOf, Unlisted
<1>8. MapsOf(b)' = MapsOf(b) /\ (MapsOf(b)' = {} <=> ~(dmaps[b] > 0))
  BY <1>1, <1>2, <1>3, <1>6 DEF MapsOf
<1>9. \A c \in Blocks \ {b} : Same(c)
  <2> SUFFICES ASSUME NEW c \in Blocks \ {b} PROVE Same(c)
    OBVIOUS
  <2>1. c \in Blocks /\ (c \in zone' <=> c \in zone)
    BY <1>3
  <2>2. \A g \in Files : Calling(g, "free", c)' <=> Calling(g, "free", c)
    BY <1>4, <1>5
  <2>3. QED BY <1>3, <2>1, <2>2, SameWhen
<1>10. /\ zone' = IF OwnersOf(b)' \cup MapsOf(b)' = {} THEN zone \ {b} ELSE zone
       /\ f \in Actors
  BY <1>3, <1>7, <1>8 DEF Actors
<1>11. QED BY <1>1, <1>7, <1>8, <1>9, <1>10, AbstractFree

LEMMA NewAbstract ==
  ASSUME IInv, NEW b \in Blocks, new_mmb(b)
  PROVE  Owners!Next
<1>1. b \notin zone /\ zone' = zone \cup {b} /\ own' = own \cup {b} /\ UNCHANGED <<list, vma, dmaps, call>>
  BY DEF new_mmb, hil_mmb_alloc, info
<1>2. /\ dmaps[b] = 0
      /\ \A g \in Files : b \notin list[g] /\ b \notin vma[g] /\ ~Calling(g, "free", b)
  BY <1>1 DEF IInv, TypeOK, Taken, Lists, ListOK, Maps, Calls, CallOK
<1>3. \A g \in Files : \A c : Calling(g, "free", c)' <=> Calling(g, "free", c)
  BY <1>1 DEF Calling
<1>4. MapsOf(b) = {} /\ MapsOf(b)' = {}
  BY <1>1, <1>2 DEF MapsOf
<1>5. OwnersOf(b)' = {Driver}
  BY <1>1, <1>2, <1>3 DEF OwnersOf
<1>6. \A c \in Blocks \ {b} : Same(c)
  <2> SUFFICES ASSUME NEW c \in Blocks \ {b} PROVE Same(c)
    OBVIOUS
  <2>1. c \in Blocks /\ (c \in zone' <=> c \in zone) /\ (c \in own' <=> c \in own)
    BY <1>1
  <2>2. QED BY <1>1, <1>3, <2>1, SameWhen
<1>7. Driver \in Actors
  BY DEF Actors
<1>8. QED BY <1>1, <1>4, <1>5, <1>6, <1>7, AbstractAllocate

LEMMA RemapKernAbstract ==
  ASSUME IInv, NEW b \in Blocks, b = drv.blk, remap_mmb
  PROVE  Owners!Next
<1>1. b \in zone /\ zone' = zone /\ UNCHANGED <<list, vma, call, own>>
  BY DEF remap_mmb, hil_mmb_map2kern, info, IInv, Found
<1>2. dmaps[b] \in Nat /\ \A c \in Blocks : dmaps'[c] = IF c = b THEN dmaps[b] + 1 ELSE dmaps[c]
  BY DEF remap_mmb, IInv, TypeOK
<1>3. \A g \in Files : \A c : Calling(g, "free", c)' <=> Calling(g, "free", c)
  BY <1>1 DEF Calling
<1>4. OwnersOf(b)' = OwnersOf(b)
  BY <1>1, <1>3 DEF OwnersOf
<1>5. MapsOf(b)' = MapsOf(b) \cup {Driver}
  <2>1. dmaps'[b] > 0
    BY <1>2
  <2>2. QED BY <1>1, <2>1 DEF MapsOf
<1>6. \A c \in Blocks \ {b} : Same(c)
  BY <1>1, <1>2, <1>3, SameWhen
<1>7. Driver \in Actors
  BY DEF Actors
<1>8. QED BY <1>1, <1>4, <1>5, <1>6, <1>7, AbstractMap

(* The driver's last mapping of a block nobody owns is its end.            *)
LEMMA UnmapKernAbstract ==
  ASSUME IInv, NEW b \in Blocks, b = drv.blk, unmap_mmb
  PROVE  [Owners!Next]_Owners!ovars
<1>1. b \in zone /\ dmaps[b] > 0 /\ kmapRef[b] = dmaps[b] /\ dmaps[b] \in Nat
  BY DEF unmap_mmb, IInv, Found, CountsAgree, TypeOK
<1>2. UNCHANGED <<list, vma, call, own>>
  BY DEF unmap_mmb, info
<1>3. \A c \in Blocks : dmaps'[c] = IF c = b THEN dmaps[b] - 1 ELSE dmaps[c]
  BY DEF unmap_mmb, IInv, TypeOK
<1>4. \A g \in Files : \A c : Calling(g, "free", c)' <=> Calling(g, "free", c)
  BY <1>2 DEF Calling
<1>5. b \in released <=> OwnersOf(b) = {}
  <2>1. b \in released => Unlisted(b) /\ b \notin own /\ \A g \in Files : ~Calling(g, "free", b)
    BY DEF IInv, Taken, Calls, CallOK
  <2>2. OwnersOf(b) = {} <=> Unlisted(b) /\ b \notin own /\ \A g \in Files : ~Calling(g, "free", b)
    BY DEF OwnersOf, Unlisted
  <2>3. QED BY <1>1, <2>1, <2>2 DEF IInv, Taken
<1>6. zone' = IF dmaps[b] = 1 /\ b \in released THEN zone \ {b} ELSE zone
  <2>1. hil_mmb_unmap(b)
    BY DEF unmap_mmb
  <2>2. kmapRef'[b] = kmapRef[b] - 1
    BY <1>1, <2>1 DEF hil_mmb_unmap, IInv, TypeOK
  <2>3. b \in released => phyRef[b] = 0
    BY <1>1 DEF IInv, Taken, CountsAgree, Unlisted
  <2>4. kmapRef'[b] = 0 <=> dmaps[b] = 1
    BY <1>1, <2>2
  <2>5. IF kmapRef'[b] = 0 /\ b \in released /\ phyRef[b] = 0
        THEN _mmb_free(b) ELSE UNCHANGED <<zone, released>>
    BY <2>1 DEF hil_mmb_unmap
  <2>6. QED BY <2>3, <2>4, <2>5 DEF _mmb_free
<1>7. \A c \in Blocks \ {b} : Same(c)
  <2> SUFFICES ASSUME NEW c \in Blocks \ {b} PROVE Same(c)
    OBVIOUS
  <2>1. c \in Blocks /\ (c \in zone' <=> c \in zone) /\ dmaps'[c] = dmaps[c]
    BY <1>3, <1>6
  <2>2. QED BY <1>2, <1>4, <2>1, SameWhen
<1>8. OwnersOf(b)' = OwnersOf(b)
  BY <1>2, <1>4 DEF OwnersOf
<1>9. CASE dmaps[b] = 1
  <2>1. ~(dmaps'[b] > 0)
    BY <1>3, <1>9
  <2>2. MapsOf(b)' = MapsOf(b) \ {Driver} /\ MapsOf(b)' = {g \in Files : b \in vma[g]}
    BY <1>2, <2>1, MmzAssumption DEF MapsOf
  <2>3. OwnersOf(b) = {} => \A g \in Files : b \notin vma[g]
    BY DEF OwnersOf, IInv, Maps
  <2>4. zone' = IF OwnersOf(b)' \cup MapsOf(b)' = {} THEN zone \ {b} ELSE zone
    BY <1>5, <1>6, <1>8, <1>9, <2>2, <2>3
  <2>5. Driver \in Actors
    BY DEF Actors
  <2>6. QED BY <1>1, <1>7, <1>8, <2>2, <2>4, <2>5, AbstractUnmap
<1>10. CASE dmaps[b] # 1
  <2>1. zone' = zone /\ dmaps'[b] > 0
    BY <1>1, <1>3, <1>6, <1>10
  <2>2. Same(b)
    BY <1>1, <1>2, <1>4, <2>1, SameWhen
  <2>3. QED BY <1>7, <2>1, <2>2, AbstractNothing
<1>11. QED BY <1>9, <1>10

LEMMA DeleteAbstract ==
  ASSUME IInv, NEW b \in Blocks, b = drv.blk, delete_mmb
  PROVE  Owners!Next
<1>1. b \in zone /\ b \in own /\ b \notin released /\ Unlisted(b)
  BY DEF delete_mmb, IInv, Found, Taken, Lists, ListOK, Unlisted
<1>2. phyRef[b] = 0 /\ kmapRef[b] = dmaps[b] /\ kmapRef[b] \in Nat
  BY <1>1 DEF IInv, CountsAgree, Unlisted, TypeOK
<1>3. /\ zone' = IF dmaps[b] > 0 THEN zone ELSE zone \ {b}
      /\ UNCHANGED <<list, vma, dmaps, call>> /\ own' = own \ {b}
  BY <1>1, <1>2 DEF delete_mmb, hil_mmb_free, _mmb_free, info
<1>4. \A g \in Files : \A c : Calling(g, "free", c)' <=> Calling(g, "free", c)
  BY <1>3 DEF Calling
<1>5. \A g \in Files : b \notin vma[g] /\ ~Calling(g, "free", b)
  BY <1>1 DEF IInv, Maps, Unlisted, Calls, CallOK
<1>6. OwnersOf(b)' = OwnersOf(b) \ {Driver} /\ OwnersOf(b)' = {}
  BY <1>1, <1>3, <1>4, <1>5, MmzAssumption DEF OwnersOf, Unlisted
<1>7. MapsOf(b)' = MapsOf(b) /\ (MapsOf(b)' = {} <=> ~(dmaps[b] > 0))
  BY <1>1, <1>2, <1>3, <1>5 DEF MapsOf
<1>8. \A c \in Blocks \ {b} : Same(c)
  <2> SUFFICES ASSUME NEW c \in Blocks \ {b} PROVE Same(c)
    OBVIOUS
  <2>1. c \in Blocks /\ (c \in zone' <=> c \in zone) /\ (c \in own' <=> c \in own)
    BY <1>3
  <2>2. QED BY <1>3, <1>4, <2>1, SameWhen
<1>9. /\ zone' = IF OwnersOf(b)' \cup MapsOf(b)' = {} THEN zone \ {b} ELSE zone
      /\ Driver \in Actors
  BY <1>3, <1>6, <1>7 DEF Actors
<1>10. QED BY <1>1, <1>6, <1>7, <1>8, <1>9, AbstractFree

LEMMA StepAbstract ==
  ASSUME Reliable, IInv, [Next]_vars
  PROVE  [Owners!Next]_Owners!ovars
<1>1. CASE UNCHANGED vars
  <2>1. UNCHANGED <<list, vma, call, own, dmaps, zone>>
    BY <1>1 DEF vars, block, info, driver
  <2>2. \A g \in Files : \A c : Calling(g, "free", c)' <=> Calling(g, "free", c)
    BY <2>1 DEF Calling
  <2>3. \A c \in Blocks : Same(c)
    BY <2>1, <2>2, SameWhen
  <2>4. QED BY <2>1, <2>3, AbstractNothing
<1>2. ASSUME NEW f \in Files, UserStep(f) PROVE [Owners!Next]_Owners!ovars
  <2>1. call[f].at # "idle" => call[f].blk \in Blocks
    BY CallBlock DEF IInv
  <2>2. ASSUME NEW b \in Blocks,
               \/ ioctl_mmb_alloc(f, b) \/ ioctl_mmb_free(f, b)
               \/ ioctl_mmb_user_remap(f, b) \/ ioctl_mmb_user_unmap(f, b)
               \/ AddRef(f, b) \/ DecRef(f, b) \/ ExitUnmap(f, b) \/ ReleaseEntry(f, b)
        PROVE  [Owners!Next]_Owners!ovars
    BY <2>2, AllocAbstract, RemapAbstract, CountingSteps, ExitUnmapAbstract
  <2>3. CASE AllocGet(f) \/ Exit(f) \/ Closed(f)
    BY <2>3, QuietSteps
  <2>4. CASE do_munmap(f)
    <3>1. call[f].blk \in Blocks
      BY <2>1, <2>4 DEF do_munmap
    <3>2. QED BY <2>4, <3>1, MunmapAbstract
  <2>5. CASE FreePut(f)
    <3>1. call[f].blk \in Blocks
      BY <2>1, <2>5 DEF FreePut
    <3>2. QED BY <2>5, <3>1, FreePutQuiet
  <2>6. CASE FreeBlock(f)
    <3>1. call[f].blk \in Blocks
      BY <2>1, <2>6 DEF FreeBlock
    <3>2. QED BY <2>6, <3>1, FreeBlockAbstract
  <2>7. QED BY <1>2, <2>2, <2>3, <2>4, <2>5, <2>6 DEF UserStep
<1>3. CASE DriverStep
  <2>1. drv.at # "idle" => drv.blk \in Blocks
    BY DriverBlock DEF IInv
  <2>2. ASSUME NEW b \in Blocks, new_mmb(b) \/ \E at \in {"map", "unmap", "delete"} : Find(b, at)
        PROVE  [Owners!Next]_Owners!ovars
    BY <2>2, NewAbstract, FindQuiet
  <2>3. CASE remap_mmb
    <3>1. drv.blk \in Blocks
      BY <2>1, <2>3 DEF remap_mmb
    <3>2. QED BY <2>3, <3>1, RemapKernAbstract
  <2>4. CASE unmap_mmb
    <3>1. drv.blk \in Blocks
      BY <2>1, <2>4 DEF unmap_mmb
    <3>2. QED BY <2>4, <3>1, UnmapKernAbstract
  <2>5. CASE delete_mmb
    <3>1. drv.blk \in Blocks
      BY <2>1, <2>5 DEF delete_mmb
    <3>2. QED BY <2>5, <3>1, DeleteAbstract
  <2>6. QED BY <1>3, <2>2, <2>3, <2>4, <2>5 DEF DriverStep
<1>4. QED BY <1>1, <1>2, <1>3 DEF Next

(* A block is given out only when it belongs to nobody, and goes back to   *)
(* the zone in the step in which its last owner or its last mapping goes,  *)
(* for any number of blocks, processes and references.                     *)
THEOREM Implements == ASSUME Reliable PROVE Spec => GivenBackInTime
<1>1. Init => Owners!Init
  <2> SUFFICES ASSUME Init PROVE Owners!Init
    OBVIOUS
  <2>1. \A f \in Files : \A c : ~Calling(f, "free", c)
    BY NoCallType DEF Init, Calling
  <2>2. \A b \in Blocks : OwnersOf(b) = {} /\ MapsOf(b) = {}
    BY <2>1 DEF Init, OwnersOf, MapsOf
  <2>3. QED BY <2>2 DEF Owners!Init, Init
<1>2. IInv /\ [Next]_vars => [Owners!Next]_Owners!ovars
  BY StepAbstract
<1>3. QED BY <1>1, <1>2, Invariant, PTL DEF Spec, GivenBackInTime, Owners!Spec

-----------------------------------------------------------------------------
(* What a driver has looked up to unmap or to delete stays: for this users *)
(* and drivers may do anything in between, drop references that are not    *)
(* theirs and free what a driver is about to map included.                 *)
Blk(f) == call[f].blk
FreeOK(f) ==
  /\ Blk(f) \in zone \ (released \cup own) /\ Unlisted(Blk(f))
  /\ \A g \in Files \ {f} : call[g].at = "free" => Blk(g) # Blk(f)
StayInv ==
  /\ kmapRef \in [Blocks -> Int] /\ call \in [Files -> UserCall]
  /\ list \in [Files -> SUBSET Blocks] /\ zone \subseteq Blocks
  /\ own \subseteq zone \ released /\ released \subseteq zone
  /\ Lists
  /\ \A f \in Files :
       /\ call[f].at \in {"munmap", "put"} => Blk(f) \in list[f]
       /\ call[f].at = "free" => FreeOK(f)
  /\ drv.at = "unmap" => drv.blk \in zone /\ kmapRef[drv.blk] > 0
  /\ drv.at = "delete" => drv.blk \in own

LEMMA StayCalls ==
  ASSUME call \in [Files -> UserCall], NEW f \in Files, NEW b \in Blocks
  PROVE  /\ \A at \in {"get", "munmap", "put", "free"} : Go(f, at, b) =>
              /\ call' \in [Files -> UserCall]
              /\ call'[f].at = at /\ call'[f].blk = b
              /\ \A g \in Files \ {f} : call'[g] = call[g]
         /\ Done(f) =>
              /\ call' \in [Files -> UserCall]
              /\ call'[f].at = "idle"
              /\ \A g \in Files \ {f} : call'[g] = call[g]
<1>1. ASSUME NEW at \in {"get", "munmap", "put", "free"} PROVE [at |-> at, blk |-> b] \in UserCall
  BY DEF UserCall
<1>2. ASSUME NEW at \in {"get", "munmap", "put", "free"}, Go(f, at, b)
      PROVE  /\ call' \in [Files -> UserCall]
             /\ call'[f].at = at /\ call'[f].blk = b
             /\ \A g \in Files \ {f} : call'[g] = call[g]
  BY <1>1, <1>2 DEF Go
<1>3. QED BY <1>2, NoCallType DEF Done

(* Dropping a reference to a listed block changes no other count.          *)
LEMMA StayPut ==
  ASSUME StayInv, NEW f \in Files, NEW b \in list[f], hil_mmb_put(b)
  PROVE  UNCHANGED <<zone, released, kmapRef>>
BY DEF StayInv, Lists, ListOK, hil_mmb_put

(* A step that only drops or takes references, or lets a call go on.       *)
LEMMA StayQuiet ==
  ASSUME StayInv, UNCHANGED <<zone, released, kmapRef, own, drv, list>>,
         call' \in [Files -> UserCall],
         \A g \in Files : \/ call'[g] = call[g]
                          \/ call'[g].at \in {"idle", "get"}
                          \/ call'[g].at \in {"munmap", "put"} /\ call'[g].blk \in list[g]
  PROVE  StayInv'
<1>1. Lists'
  BY DEF StayInv, Lists, ListOK
<1>2. ASSUME NEW g \in Files, call'[g].at \in {"munmap", "put"} PROVE Blk(g)' \in list'[g]
  BY <1>2 DEF StayInv, Blk
<1>3. ASSUME NEW g \in Files, call'[g].at = "free" PROVE FreeOK(g)'
  BY <1>3 DEF StayInv, FreeOK, Unlisted, Blk
<1>4. QED BY <1>1, <1>2, <1>3 DEF StayInv

LEMMA StayUser ==
  ASSUME StayInv, NEW f \in Files, UserStep(f)
  PROVE  StayInv'
<1>0. /\ \A c \in list[f] : c \in Blocks
      /\ call[f].at # "idle" => Blk(f) \in Blocks
  BY DEF StayInv, UserCall, NoCall, Blk
<1>1. ASSUME NEW b \in Blocks, ioctl_mmb_alloc(f, b) PROVE StayInv'
  <2>1. /\ b \notin zone /\ zone' = zone \cup {b} /\ released' = released \ {b}
        /\ kmapRef' = [kmapRef EXCEPT ![b] = 0] /\ UNCHANGED <<own, drv>>
        /\ list' = [list EXCEPT ![f] = @ \cup {b}]
    BY <1>1 DEF ioctl_mmb_alloc, hil_mmb_alloc, driver
  <2>2. /\ call' \in [Files -> UserCall]
        /\ call'[f].at = "get" /\ \A g \in Files \ {f} : call'[g] = call[g]
    BY <1>1, StayCalls DEF ioctl_mmb_alloc, StayInv
  <2>3. Lists'
    BY <2>1 DEF StayInv, Lists, ListOK
  <2>4. ASSUME NEW g \in Files, call'[g].at = "free" PROVE FreeOK(g)'
    BY <2>1, <2>2, <2>4 DEF StayInv, FreeOK, Unlisted, Blk
  <2>5. ASSUME NEW g \in Files, call'[g].at \in {"munmap", "put"} PROVE Blk(g)' \in list'[g]
    BY <2>1, <2>2, <2>5 DEF StayInv, Blk
  <2>6. drv'.at = "unmap" => drv'.blk \in zone' /\ kmapRef'[drv'.blk] > 0
    BY <2>1 DEF StayInv
  <2>7. drv'.at = "delete" => drv'.blk \in own'
    BY <2>1 DEF StayInv
  <2>8. /\ list' \in [Files -> SUBSET Blocks] /\ kmapRef' \in [Blocks -> Int]
        /\ zone' \subseteq Blocks /\ own' \subseteq zone' \ released' /\ released' \subseteq zone'
    BY <2>1 DEF StayInv
  <2>9. QED BY <2>2, <2>3, <2>4, <2>5, <2>6, <2>7, <2>8 DEF StayInv
<1>2. ASSUME NEW b \in Blocks, ioctl_mmb_free(f, b) PROVE StayInv'
  <2>1. b \in list[f] /\ UNCHANGED <<zone, released, kmapRef, own, drv, list>>
    BY <1>2 DEF ioctl_mmb_free, block, driver
  <2>2. Go(f, "put", b) \/ call' = call
    BY <1>2 DEF ioctl_mmb_free
  <2>3. QED BY <2>1, <2>2, StayCalls, StayQuiet DEF StayInv
<1>3. ASSUME NEW b \in Blocks, ioctl_mmb_user_remap(f, b) \/ AddRef(f, b) PROVE StayInv'
  <2>1. UNCHANGED <<zone, released, kmapRef, own, drv, list, call>>
    BY <1>3 DEF ioctl_mmb_user_remap, AddRef, hil_mmb_get, driver
  <2>2. QED BY <2>1, StayQuiet DEF StayInv
<1>4. ASSUME NEW b \in Blocks, ioctl_mmb_user_unmap(f, b) PROVE StayInv'
  <2>1. b \in list[f] /\ hil_mmb_put(b) /\ UNCHANGED <<own, drv, list>>
    BY <1>4 DEF ioctl_mmb_user_unmap, driver
  <2>2. Go(f, "munmap", b) \/ call' = call
    BY <1>4 DEF ioctl_mmb_user_unmap
  <2>3. QED BY <2>1, <2>2, StayPut, StayCalls, StayQuiet DEF StayInv
<1>5. CASE do_munmap(f)
  <2>1. /\ UNCHANGED <<zone, released, kmapRef, own, drv, list>> /\ call[f].at = "munmap"
        /\ Go(f, "put", Blk(f)) \/ Done(f)
    BY <1>5 DEF do_munmap, block, driver, Blk
  <2>2. Blk(f) \in list[f] /\ Blk(f) \in Blocks
    BY <2>1, <1>0 DEF StayInv
  <2>3. QED BY <2>1, <2>2, StayCalls, StayQuiet DEF StayInv
<1>6. ASSUME NEW b \in Blocks, DecRef(f, b) PROVE StayInv'
  <2>1. b \in list[f] /\ hil_mmb_put(b) /\ UNCHANGED <<own, drv, list>>
    BY <1>6 DEF DecRef, driver
  <2>2. Go(f, "put", b) \/ call' = call
    BY <1>6 DEF DecRef
  <2>3. QED BY <2>1, <2>2, StayPut, StayCalls, StayQuiet DEF StayInv
<1>7. ASSUME NEW b \in Blocks, b = Blk(f), FreePut(f) PROVE StayInv'
  <2>1. b \in list[f] /\ hil_mmb_put(b) /\ UNCHANGED <<own, drv>> /\ Go(f, "free", b)
    BY <1>7, <1>0 DEF FreePut, StayInv, Blk, driver
  <2>2. list' = [list EXCEPT ![f] = @ \ {b}]
    BY <1>7 DEF FreePut, Blk
  <2>3. UNCHANGED <<zone, released, kmapRef>>
    BY <2>1, StayPut
  <2>4. /\ call' \in [Files -> UserCall] /\ call'[f].at = "free" /\ call'[f].blk = b
        /\ \A g \in Files \ {f} : call'[g] = call[g]
    BY <2>1, StayCalls DEF StayInv
  <2>5. /\ b \in zone \ (released \cup own) /\ \A g \in Files \ {f} : b \notin list[g]
        /\ \A g \in Files : call[g].at = "free" => Blk(g) # b
    BY <2>1 DEF StayInv, Lists, ListOK, FreeOK, Unlisted
  <2>6. Lists'
    BY <2>2, <2>3, <2>1 DEF StayInv, Lists, ListOK
  <2>7. ASSUME NEW g \in Files, call'[g].at = "free" PROVE FreeOK(g)'
    <3>1. CASE g = f
      <4>1. Unlisted(b)'
        BY <2>2, <2>5 DEF Unlisted, StayInv
      <4>2. Blk(f)' = b /\ \A h \in Files \ {f} : call'[h].at = "free" => Blk(h)' # b
        BY <2>4, <2>5 DEF Blk
      <4>3. QED BY <3>1, <4>1, <4>2, <2>1, <2>3, <2>5 DEF FreeOK, Unlisted
    <3>2. CASE g # f
      <4>1. FreeOK(g) /\ Blk(g)' = Blk(g) /\ Blk(g) # b
        BY <3>2, <2>4, <2>5, <2>7 DEF StayInv, Blk
      <4>2. Unlisted(Blk(g))'
        BY <4>1, <2>2 DEF FreeOK, Unlisted, StayInv
      <4>3. \A h \in Files \ {g} : call'[h].at = "free" => Blk(h)' # Blk(g)
        BY <2>4, <4>1 DEF FreeOK, Blk
      <4>4. QED BY <4>1, <4>2, <4>3, <2>1, <2>3 DEF FreeOK, Unlisted
    <3>3. QED BY <3>1, <3>2
  <2>8. ASSUME NEW g \in Files, call'[g].at \in {"munmap", "put"} PROVE Blk(g)' \in list'[g]
    BY <2>2, <2>4, <2>8 DEF StayInv, Blk
  <2>9. list' \in [Files -> SUBSET Blocks]
    BY <2>2 DEF StayInv
  <2>10. QED BY <2>1, <2>3, <2>4, <2>6, <2>7, <2>8, <2>9 DEF StayInv
<1>8. CASE FreeBlock(f)
  <2> DEFINE b == Blk(f)
  <2>1. /\ b \in zone \ (released \cup own) /\ Unlisted(b) /\ hil_mmb_free(b)
        /\ \A g \in Files \ {f} : call[g].at = "free" => Blk(g) # b
        /\ UNCHANGED <<own, drv, list>> /\ Done(f) /\ b \in Blocks
    BY <1>8, <1>0 DEF FreeBlock, StayInv, FreeOK, Blk, driver, info
  <2> HIDE DEF b
  <2>2. /\ kmapRef' = kmapRef
        /\ \/ zone' = zone /\ released' = released \cup {b}
           \/ zone' = zone \ {b} /\ released' = released \ {b} /\ ~(kmapRef[b] > 0)
    BY <2>1 DEF hil_mmb_free, _mmb_free
  <2>3. /\ call' \in [Files -> UserCall] /\ call'[f].at = "idle"
        /\ \A g \in Files \ {f} : call'[g] = call[g]
    BY <2>1, StayCalls DEF StayInv
  <2>4. Lists'
    BY <2>1, <2>2 DEF StayInv, Lists, ListOK, Unlisted
  <2>5. ASSUME NEW g \in Files, call'[g].at = "free" PROVE FreeOK(g)'
    BY <2>1, <2>2, <2>3, <2>5 DEF StayInv, FreeOK, Unlisted, Blk
  <2>6. ASSUME NEW g \in Files, call'[g].at \in {"munmap", "put"} PROVE Blk(g)' \in list'[g]
    BY <2>1, <2>3, <2>6 DEF StayInv, Blk
  <2>7. own' \subseteq zone' \ released' /\ released' \subseteq zone' /\ zone' \subseteq Blocks
    BY <2>1, <2>2 DEF StayInv
  <2>8. drv'.at = "unmap" => drv'.blk \in zone' /\ kmapRef'[drv'.blk] > 0
    BY <2>1, <2>2 DEF StayInv
  <2>9. QED BY <2>1, <2>2, <2>3, <2>4, <2>5, <2>6, <2>7, <2>8 DEF StayInv
<1>9. ASSUME NEW b \in Blocks, ReleaseEntry(f, b) PROVE StayInv'
  <2>1. b \in list[f] /\ UNCHANGED <<own, drv, list>>
    BY <1>9 DEF ReleaseEntry, driver
  <2>2. /\ hil_mmb_put(b) \/ UNCHANGED block
        /\ Go(f, "put", b) \/ call' = call
    BY <1>9 DEF ReleaseEntry
  <2>3. UNCHANGED <<zone, released, kmapRef>>
    BY <2>1, <2>2, StayPut DEF block
  <2>4. QED BY <2>1, <2>2, <2>3, StayCalls, StayQuiet DEF StayInv
<1>10. CASE AllocGet(f)
  <2>1. UNCHANGED <<zone, released, kmapRef, own, drv, list>> /\ Done(f) /\ call[f].at # "idle"
    BY <1>10 DEF AllocGet, hil_mmb_get, info, driver
  <2>2. QED BY <1>0, <2>1, StayCalls, StayQuiet DEF StayInv
<1>11. CASE Exit(f) \/ Closed(f) \/ \E b \in Blocks : ExitUnmap(f, b)
  <2>1. UNCHANGED <<zone, released, kmapRef, own, drv, list, call>>
    BY <1>11 DEF Exit, Closed, ExitUnmap, block, info, driver
  <2>2. QED BY <2>1, StayQuiet DEF StayInv
<1>12. FreePut(f) => Blk(f) \in Blocks
  BY <1>0 DEF FreePut
<1>13. QED BY <1>1, <1>2, <1>3, <1>4, <1>5, <1>6, <1>7, <1>8, <1>9, <1>10, <1>11, <1>12 DEF UserStep

LEMMA StayDriver ==
  ASSUME StayInv, DriverStep
  PROVE  StayInv'
<1>1. ASSUME NEW b \in Blocks, new_mmb(b) PROVE StayInv'
  <2>1. /\ b \notin zone /\ zone' = zone \cup {b} /\ released' = released \ {b}
        /\ kmapRef' = [kmapRef EXCEPT ![b] = 0] /\ own' = own \cup {b}
        /\ drv.at = "idle" /\ UNCHANGED <<drv, list, call>>
    BY <1>1 DEF new_mmb, hil_mmb_alloc, info
  <2>2. Lists'
    BY <2>1 DEF StayInv, Lists, ListOK
  <2>3. ASSUME NEW g \in Files, call'[g].at = "free" PROVE FreeOK(g)'
    BY <2>1, <2>3 DEF StayInv, FreeOK, Unlisted, Blk
  <2>4. QED BY <2>1, <2>2, <2>3 DEF StayInv, Blk
<1>2. ASSUME NEW b \in Blocks, NEW at \in {"map", "unmap", "delete"}, Find(b, at) PROVE StayInv'
  <2>1. /\ UNCHANGED <<zone, released, kmapRef, own, list, call>> /\ b \in zone
        /\ drv' = [at |-> at, blk |-> b]
        /\ at = "unmap" => kmapRef[b] > 0
        /\ at = "delete" => b \in own
    BY <1>2 DEF Find, block, info
  <2>2. Lists'
    BY <2>1 DEF StayInv, Lists, ListOK
  <2>3. ASSUME NEW g \in Files, call'[g].at = "free" PROVE FreeOK(g)'
    BY <2>1, <2>3 DEF StayInv, FreeOK, Unlisted, Blk
  <2>4. QED BY <2>1, <2>2, <2>3 DEF StayInv, Blk
<1>3. CASE remap_mmb
  <2>1. /\ UNCHANGED <<zone, released, own, list, call>> /\ drv'.at = "idle"
        /\ kmapRef' = [kmapRef EXCEPT ![drv.blk] = @ + 1]
    BY <1>3, NoCallType DEF remap_mmb, hil_mmb_map2kern, info
  <2>2. Lists'
    BY <2>1 DEF StayInv, Lists, ListOK
  <2>3. ASSUME NEW g \in Files, call'[g].at = "free" PROVE FreeOK(g)'
    BY <2>1, <2>3 DEF StayInv, FreeOK, Unlisted, Blk
  <2>4. kmapRef' \in [Blocks -> Int]
    <3>1. kmapRef' = [c \in Blocks |-> IF c = drv.blk THEN kmapRef[c] + 1 ELSE kmapRef[c]]
      BY <2>1 DEF StayInv
    <3>2. QED BY <3>1 DEF StayInv
  <2>5. drv'.at # "unmap" /\ drv'.at # "delete"
    BY <2>1
  <2>6. QED BY <2>1, <2>2, <2>3, <2>4, <2>5 DEF StayInv, Blk
<1>4. CASE unmap_mmb
  <2>1. UNCHANGED <<own, list, call>> /\ drv'.at = "idle" /\ hil_mmb_unmap(drv.blk) /\ drv.blk \in Blocks
    BY <1>4, NoCallType DEF unmap_mmb, info, StayInv
  <2>2. /\ kmapRef' \in [Blocks -> Int]
        /\ \/ UNCHANGED <<zone, released>>
           \/ drv.blk \in released /\ zone' = zone \ {drv.blk} /\ released' = released \ {drv.blk}
    BY <2>1 DEF hil_mmb_unmap, _mmb_free, StayInv
  <2>3. Lists'
    BY <2>1, <2>2 DEF StayInv, Lists, ListOK
  <2>4. ASSUME NEW g \in Files, call'[g].at = "free" PROVE FreeOK(g)'
    BY <2>1, <2>2, <2>4 DEF StayInv, FreeOK, Unlisted, Blk
  <2>5. own' \subseteq zone' \ released' /\ released' \subseteq zone' /\ zone' \subseteq Blocks
    BY <2>1, <2>2 DEF StayInv
  <2>6. QED BY <2>1, <2>2, <2>3, <2>4, <2>5 DEF StayInv, Blk
<1>5. CASE delete_mmb
  <2> DEFINE b == drv.blk
  <2>1. /\ UNCHANGED <<list, call>> /\ own' = own \ {b} /\ drv'.at = "idle" /\ hil_mmb_free(b)
        /\ b \in own /\ b \in zone /\ b \notin released
    BY <1>5, NoCallType DEF delete_mmb, info, StayInv
  <2> HIDE DEF b
  <2>2. /\ kmapRef' = kmapRef
        /\ \/ zone' = zone /\ released' = released \cup {b}
           \/ zone' = zone \ {b} /\ released' = released \ {b}
    BY <2>1 DEF hil_mmb_free, _mmb_free
  <2>3. Lists'
    BY <2>1, <2>2 DEF StayInv, Lists, ListOK
  <2>4. ASSUME NEW g \in Files, call'[g].at = "free" PROVE FreeOK(g)'
    BY <2>1, <2>2, <2>4 DEF StayInv, FreeOK, Unlisted, Blk
  <2>5. own' \subseteq zone' \ released' /\ released' \subseteq zone' /\ zone' \subseteq Blocks
    BY <2>1, <2>2 DEF StayInv
  <2>6. QED BY <2>1, <2>2, <2>3, <2>4, <2>5 DEF StayInv, Blk
<1>6. QED BY <1>1, <1>2, <1>3, <1>4, <1>5 DEF DriverStep

(* What a driver has looked up to unmap it or to give it back is still     *)
(* there when it does, for any number of blocks and processes and with no  *)
(* assumption on what they do in between.                                  *)
THEOREM LookupHolds == Spec => []FoundIsThere
<1>1. Init => StayInv
  <2> SUFFICES ASSUME Init PROVE StayInv
    OBVIOUS
  <2>1. call \in [Files -> UserCall] /\ drv.at = "idle" /\ \A f \in Files : call[f].at = "idle"
    BY NoCallType DEF Init
  <2>2. QED BY <2>1 DEF Init, StayInv, Lists
<1>2. StayInv /\ [Next]_vars => StayInv'
  <2> SUFFICES ASSUME StayInv, [Next]_vars PROVE StayInv'
    OBVIOUS
  <2>1. CASE UNCHANGED vars
    <3>1. UNCHANGED <<zone, released, kmapRef, own, drv, list, call>>
      BY <2>1 DEF vars, block, info, driver
    <3>2. QED BY <3>1, StayQuiet DEF StayInv
  <2>2. QED BY <2>1, StayUser, StayDriver DEF Next
<1>3. StayInv => FoundIsThere
  BY DEF StayInv, FoundIsThere
<1>4. QED BY <1>1, <1>2, <1>3, PTL DEF Spec
=============================================================================
