----------------------------- MODULE ModuleMgr ------------------------------
(***************************************************************************)
(* The module manager (source/common/drv/module/drv_module_ext.c) with its *)
(* user library (source/common/api/module/mpi_module.c): a list of the     *)
(* modules that are loaded, by ID, which drivers and libraries register    *)
(* themselves in.                                                          *)
(*                                                                         *)
(* A driver has a fixed ID, and so has a library that registers by ID.  A  *)
(* library that registers by name is given an ID in one ioctl and enters   *)
(* it in the list with another: the library's mutex is held during each,   *)
(* not between them.  The manager's lock is held during each of its calls, *)
(* so a call is one action; the end of a process is one too, though the    *)
(* code walks the list without the lock.                                   *)
(***************************************************************************)
EXTENDS Integers, Sequences, SequencesExt, FiniteSetsExt

CONSTANTS
  Procs,      \* processes that have the manager's device open
  Threads,    \* the threads of each process
  Kernel,     \* the drivers
  Names,      \* names a library registers
  Fixed,      \* fixed IDs, registered by drivers and by libraries
  UserIds,    \* the IDs for user modules, from MIN_USER_MODULE_NUMBER
  Pool,       \* nodes in the pool the list is built from
  MaxRegs     \* bound: how often one process has one ID registered

VARIABLES
  list,       \* the list behind g_pstKModuleHeader
  allotted,   \* the ID and name each thread has been given and not entered
  regs        \* how often each caller has registered an ID

vars == <<list, allotted, regs>>

Callers == Procs \cup {Kernel}
Ids == Fixed \cup UserIds
None == [id |-> -1, name |-> <<>>]

Init ==
  /\ list = <<>>
  /\ allotted = [t \in Procs \X Threads |-> None]
  /\ regs = [c \in Callers |-> [i \in Ids |-> 0]]

(* ModuleMgr_FindNodeByID, ModuleMgr_FindNodeByName: positions in the list. *)
ById(i) == {k \in DOMAIN list : list[k].id = i}
ByName(n) == {k \in DOMAIN list : list[k].name = n}
Unlisted == {i \in UserIds : ById(i) = {}}

Count(c, i, d) == regs' = [regs EXCEPT ![c][i] = @ + d]

(* ModuleMgr_Link_AddNode: an ID that is in the list already is a success   *)
(* and changes nothing.                                                     *)
AddNode(i, name, c) ==
  \/ ById(i) # {} /\ UNCHANGED list
  \/ /\ ById(i) = {} /\ Len(list) < Pool
     /\ list' = Append(list, [id |-> i, name |-> name, count |-> 1, file |-> c])

(* HI_DRV_MODULE_Register of a driver, when it is loaded, and               *)
(* HI_MODULE_Register of the library that has opened the driver's device.   *)
Register(c, i) ==
  /\ i \in Fixed
  /\ IF c = Kernel THEN regs[c][i] = 0
     ELSE regs[Kernel][i] > 0 /\ regs[c][i] < MaxRegs
  /\ AddNode(i, <<i>>, c)
  /\ Count(c, i, 1)
  /\ UNCHANGED allotted

(* HI_MODULE_RegisterByName, the first ioctl: HI_DRV_MODULE_AllocId.  The   *)
(* name with the process's number behind it is counted once more ...        *)
AllocAgain(t, n) ==
  /\ allotted[t] = None
  /\ \E k \in ByName(<<n, t[1]>>) :
       /\ regs[t[1]][list[k].id] < MaxRegs
       /\ list' = [list EXCEPT ![k].count = @ + 1]
       /\ Count(t[1], list[k].id, 1)
  /\ UNCHANGED allotted

(* ... or it is given the lowest ID that is not in the list.                *)
AllocId(t, n) ==
  /\ allotted[t] = None /\ ByName(<<n, t[1]>>) = {}
  /\ Unlisted # {}
  /\ allotted' = [allotted EXCEPT ![t] = [id |-> Min(Unlisted), name |-> <<n, t[1]>>]]
  /\ UNCHANGED <<list, regs>>

(* The second ioctl, CMD_ADD_MODULE_INFO.                                   *)
RegisterAllotted(t) ==
  /\ allotted[t] # None /\ regs[t[1]][allotted[t].id] < MaxRegs
  /\ AddNode(allotted[t].id, allotted[t].name, t[1])
  /\ Count(t[1], allotted[t].id, 1)
  /\ allotted' = [allotted EXCEPT ![t] = None]

(* It fails when the pool is empty, and the caller goes without.            *)
RegisterNoNode(t) ==
  /\ allotted[t] # None
  /\ ById(allotted[t].id) = {} /\ Len(list) = Pool
  /\ allotted' = [allotted EXCEPT ![t] = None]
  /\ UNCHANGED <<list, regs>>

(* ModuleMgr_Link_DelNode without bForce.                                   *)
DelNode(k) ==
  list' = IF list[k].count > 1 THEN [list EXCEPT ![k].count = @ - 1]
          ELSE RemoveAt(list, k)

(* HI_DRV_MODULE_UnRegister by one who has registered; HI_MODULE_UnRegister *)
(* asks for the ID first and gives up, like this call, if it is not listed. *)
(* A driver is not unloaded while a library uses its device.                *)
UnRegister(c, i) ==
  /\ regs[c][i] > 0
  /\ c = Kernel => \A p \in Procs : regs[p][i] = 0
  /\ Count(c, i, -1)
  /\ \/ \E k \in ById(i) : DelNode(k)
     \/ ById(i) = {} /\ UNCHANGED list
  /\ UNCHANGED allotted

(* MODULE_DRV_Release: every node the file has entered goes, however often  *)
(* it was counted.                                                          *)
Release(p) ==
  /\ list' = SelectSeq(list, LAMBDA m : m.file # p)
  /\ allotted' = [t \in Procs \X Threads |-> IF t[1] = p THEN None ELSE allotted[t]]
  /\ regs' = [regs EXCEPT ![p] = [i \in Ids |-> 0]]

Next ==
  \/ \E c \in Callers, i \in Ids : Register(c, i) \/ UnRegister(c, i)
  \/ \E t \in Procs \X Threads :
       \/ \E n \in Names : AllocAgain(t, n) \/ AllocId(t, n)
       \/ RegisterAllotted(t) \/ RegisterNoNode(t)
  \/ \E p \in Procs : Release(p)

Spec == Init /\ [][Next]_vars

-----------------------------------------------------------------------------
(* "If user mode registered more than 1 time, only sub count before count = *)
(* 1" (ModuleMgr_Link_DelNode): what a driver or a library has registered,  *)
(* and has not taken back, is in the list, whoever else has registered the  *)
(* ID and taken that back; and an ID given for a name belongs to the        *)
(* process whose name is in the list.                                       *)
StaysRegistered ==
  \A c \in Callers, i \in Ids : regs[c][i] > 0 =>
    \E k \in ById(i) : i \in Fixed \/ list[k].name[2] = c
=============================================================================
