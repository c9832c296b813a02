# A verification of the HiSilicon driver libraries

The repository is the driver SDK of a set-top-box chip: kernel drivers
(`source/common/drv`, `source/msp/drv`) and the user libraries above them
(`source/common/api`, `source/msp/api`). This directory holds TLA+ models of the
parts of it that own a protocol, the TLC runs that check them, and TLAPS proofs.

Paths below are relative to the repository; `vdec/` stands for
`source/msp/drv/vdec/`, `venc/` for `source/msp/drv/venc/`.

Contents

1. Inventory: the system's parts
2. The modules
3. The runs: what each one shows, its bounds, its fairness
4. Where the code and its own words part
5. The proofs
6. What is not modelled, and why
7. Plan

To run everything: `tlc -config R.cfg M` for each run `R` of module `M` in
`PROJECT.json`, and `tlapm M.tla` for `BufMngProofs`, `VdecChanProofs`,
`VencFramesProofs`, `VencFifoProofs`, `VencStreamProofs`, `VencPacketsProofs`,
`OmxVdecProofs` and `MmzProofs`.

---------------------------------------------------------------------------
## 1. Inventory

All drivers share one shape. A character device per module (`himedia`) takes
ioctls; a kernel interface exports a table of functions to the other drivers,
found by module ID through the module manager; memory for hardware comes from
the media memory zones (MMZ). Hardware calls back in interrupts, which wake
kernel threads. Each driver keeps a table of channels, given out by handle and
freed when the file that took them is closed.

### The media path (`source/msp`)

| part | state | operations | interacts with | what is hard | what makes it correct |
|---|---|---|---|---|---|
| **vdec: stream buffer manager** (`drv_vdec_buf_mng.c`) | ring, block list, counters used/free/freeze, frame count | get, put, acquire, release, reset, query | written by the user library or demux, read by the decoder firmware through callbacks | wrapping, the frozen tail, failing allocation half way, releases in another order, unsigned counters | memory given out never overlaps an unreleased packet; counters agree with the list; a writer that waits is served |
| **vdec: channel and rundown** (`drv_vdec_intf_k.c`) | entity table, use count, release flag, channel structure, driver state, firmware state | alloc handle, alloc, start, stop, reset, trick mode, decode I-frame, free | firmware (`pfnVfmwControl`), VPSS, demux, stream buffer; called by several threads, callbacks and a timer | free races with every other call; waits that a signal ends; several threads free together; driver and firmware state are set in two steps | nobody uses a freed channel; the count is exact; one thread destroys; states agree |
| vdec: stream and frame paths (same file) | packet counters, end-of-stream packet, last frame, user-data buffers | receive and release stream, receive and release frame, end of stream | demux or buffer manager, firmware, VPSS | end-of-stream packet released twice or never, reset while packets are out | every packet acquired is released to its owner once |
| vdec: user library (`source/msp/api/vdec`) | per-channel attributes, `bGetPutFlag` and the last region | create, destroy and reset stream buffer, get and put buffer, receive and release stream | ioctls of vdec, buffer manager by callback | reset while a region is taken | a put names the region of the last get |
| **venc: frame scheduling** (`drv_venc_efl.c`, `drv_venc.c`) | frame queues, slots, priority table, the encoder's state, waiting flags | create, destroy, start, stop, set attributes, queue and dequeue frame, attach and detach; frame task; interrupt handler | display, video input or a window feeds frames, for a channel of the user a VPSS port; the hardware encoder | task and interrupt handler both pick frames; stop and destroy race with them; channel index and slot index; QuickEncode gives several frames back at once | no frame lost, doubled or overtaken; one frame in the encoder; turns are taken; a stop ends |
| **venc: queues** (`drv_venc_queue_mng.c`) | two lists of elements | queue, dequeue, refresh | scheduling, OMX messages | limits, stop | elements are conserved, FIFO |
| **venc: stream buffer** (`drv_venc_buf_mng.h`, its callers in `drv_venc_efl.c`) | four offsets in a ring, the two words the encoder has | write headers, start and end of a frame or slice, get and release a packet | hardware writes with the read pointer of the start of its frame, user reads | unsigned lengths with a reserve; a frame that did not fit | the writer never reaches unread data; packets come out whole and in order |
| venc: OMX path (`drv_omxvenc*.c`) | messages, frame buffers | empty and fill buffer, flush | OMX library | a message call that waits under the driver mutex | every buffer comes back once |
| **omxvdec** (`source/msp/drv/omxvdec`) | raw and picture queues, use counts, flush and pause pending, messages | empty, fill, flush, pause, release | firmware callbacks, VPSS task, OMX library | counts and flag bits changed outside the locks, lost reports, queue freed under its reader | every buffer is with one owner; a flush is reported once |
| vfmw | the decoder's firmware | channel control, callbacks | vdec, omxvdec | code and binary of the hardware decoder | its answers are free choices in the models |
| vpss | instances, frame lists | create, get, release frame, reconfigure | vdec, avplay, vo | task and callers share lists | frames are conserved |
| demux | channels, filters, ring buffers | acquire, release, get | frontend hardware; vdec, pvr | buffers released out of order | released memory is reused only then |
| avplay, sync (`source/msp/api/avplay`, `drv/sync`) | player state, end-of-stream flags, buffered levels | start, pause, step, stop, reset, flush | vdec, vpss, vo, ao | threads of the player against control calls | a stop ends; end of stream is reported once |
| audio output (`drv/aiao`) | ring buffers of tracks, mixing | attach, send, set speed | adec, sync | ring arithmetic, underrun | reads never overtake writes |
| vo, display, hifb, hdmi | windows, frame hand-over, hot-plug | queue frame, release, per-interrupt update | vpss, sync | frame owned by the register and by the window | a shown frame is not reused |
| tde, gpu, jpeg, png, jpge, higo | jobs | submit, wait | graphics library | job lists in interrupts | a job ends once |
| pvr | index and recording state | record, play, trick | demux, files | partial writes | the index names whole frames |
| sci, ir, i2c, gpio, keyled, wdg, ssp | protocol states | register-level calls | users | timing | the protocol's state machine |
| frontend, cipher, otp, hdcp, advca, adec, aenc, adsp, ade, pq, mce, pdm, pm | registers, tables, codec state | register sequences | - | - | numeric or register-level |

### The common layer (`source/common`)

| part | state | operations | what is hard | what makes it correct |
|---|---|---|---|---|
| **module manager** (`drv/module`) | list of modules: ID, name, function table, file, count | register, unregister, allocate ID, find function, release of a file | an ID is picked in one call and taken in another; nodes are read after the lock is given back; release walks the list unlocked | an ID names one module; a function table outlives its uses |
| himedia registry (`drv/himedia`) | minor bit map, device list | register, unregister, open | failure half way, double unregister | a minor belongs to one device |
| **MMZ** (`drv/mmz`) | zones, blocks with two reference counts, per-file lists with counts of their own | allocate, map, share, free, release of a file, look-up by a driver | a free that is delayed, references of several files and drivers, a process that exits | a block lives while it is owned or mapped, and no longer |
| log, mem, memdev, file, osal, proc, stat, sys, userproc, flash | small tables | wrappers over kernel services | - | - |

The parts in bold are modelled, each as far as section 2 and section 6 say.

`PROJECT.json` lists the same parts with their files, and under "hazards" the
places where this code is hard to test, each at its line, with the property that
would catch it or the reason why none does. Smaller ones: the handle calls move `bUsed` and `u32ChanNum` under a semaphore whose
interrupted wait `VDEC_Chan_Free` ignores (`drv_vdec_intf_k.c:5201`); a failing
registration of a device gives back the minor's bit and keeps the number
(`himedia.c:291`); the end of a frame takes the packet into the stream buffer
whatever the header writes returned (`drv_venc_efl.c:2007`); the encoder's OMX message call
sleeps with the driver mutex held (`drv_venc_intf.c:604`), and the OMX decoder's
waits at most 100 ms for a message and then reports none (`omxvdec/msg.c:87`); the search
for a channel of the OMX decoder returns the list's head as if it were a channel
when it finds none (`omxvdec/vdec.c`, `find_match_channel`).

---------------------------------------------------------------------------
## 2. The modules

### BufMng: the stream buffer manager

One instance of the manager, its writer and its reader. Every entry point of
`drv_vdec_buf_mng.c` holds the instance's spin lock from beginning to end, so each is
one action; the hard part is the order in which two independent parties call
them.

| TLA+ | code |
|---|---|
| `blocks` | `stBlockHead`, oldest first; a block is an offset, a size, a status and the frame-end marker |
| `used`, `free`, `freeze`, `dataNum` | `u32Used`, `u32Free`, `u32Freeze`, `u32DataNum` |
| `writer` | the user library's `bGetPutFlag` and `stLastGet` |
| `held` | the packets the decoder has acquired (environment) |
| `Sub` | unsigned subtraction modulo `Word` |
| `Request`, `GetWriteBuffer`, `GetNoMemory` | `VDEC_GetStreamBuf` and `BUFMNG_GetWriteBuffer`: the request, the call that succeeds, the call whose `HI_KMALLOC` fails after the tail was frozen |
| `PutWriteBuffer`, `PutNothing` | `BUFMNG_PutWriteBuffer` of some or of no data |
| `AcqReadBuffer`, `RlsReadBuffer` | `BUFMNG_AcqReadBuffer`, `BUFMNG_RlsReadBuffer`; a release that names no block changes nothing |
| `Reset` | `VDEC_ResetStreamBuf`: library state and `BUFMNG_Reset` |

The ring is one contiguous used region in the eyes of the code. When a request
does not fit behind the newest block but fits before the oldest, the rest of
the tail is frozen, and it is thawed when the block that ends where the frozen
area starts is released. `freeze` and `free` change before the block descriptor
is allocated, so a failed allocation leaves them changed.

Calls that return an error without changing anything (FULL, BUSY, EMPTY) are
not actions. The constants say what the environment does: `InOrder` (packets
released in the order they were acquired), `MayDrop` (put of size 0), `MayFail`
(allocation), `ResetHeld` (reset with packets out).

The model follows the build: `BUFMNG_MARKER_SUPPORT`, `PARTED_FRAME` and
`MULTI_READ_SUPPORT` on; `GET_SMSP`, `INDEX`, `64BITS_PTS` and `BUFMNG_DEBUG` off. The
debug code's own equation is the property `Conserved`.

### VdecChan: the life of a decoder channel

Nothing orders the threads here but two atomic counters. Every entry point
raises `atmUseCnt`, tests `atmRlsFlag`, looks at `pstChan`, works, and lowers
the count; `VDEC_Chan_Free` stops the channel, raises the flag, waits for the count,
destroys the firmware channel, clears the pointer and frees the structure. So
each access to shared state is a step, and a thread is a program counter, the
entry point it is in and its local pointer.

| TLA+ | code |
|---|---|
| `bUsed`, `useCnt`, `rlsFlag`, `pstChan` | the entity of `astChanEntity`: `bUsed`, `atmUseCnt`, `atmRlsFlag`, `pstChan` |
| `live`, `Mem` | the structures `HI_VMALLOC_VDEC` has returned and not yet got back |
| `state`, `dec` | `enCurState` and the firmware's channel |
| `AllocHandle`, `FreeHandle`, `Alloc` | the handle calls and `VDEC_Chan_Alloc` |
| `Enter`, `TryUse`, `TryBack`, `Look`, `UseUp` | `VDEC_CHAN_TRY_USE_DOWN`, the read of `pstChan`, `VDEC_CHAN_USE_UP` |
| `Body`, `Firmware`, `Save` | the test of `enCurState`, the firmware call, the assignment of `enCurState` |
| `SetTrickMode` | `HI_DRV_VDEC_SetTrickMode`, whose error return skips `USE_UP` |
| `Late` | what `RlsStrmBuf` on a demux channel and `DecodeIFrame` do with the pointer after `USE_UP` |
| `RlsDown` ... `RlsSleep`, `Signal` | `VDEC_CHAN_RLS_DOWN_HELP`: raise, test, `wait_event_interruptible` |
| `Kill`, `Clear`, `VFree`, `RlsUp` | the rest of `VDEC_Chan_Free` |

`Op` names the entry points that are called: "use" stands for those that only
read the channel. `Control` is the set of threads that start, stop, reset and
free: the user program's control thread. Signals, firmware failures and VPSS failures
are switched by constants. `ReuseBusy`, which lets a handle be given out again
while calls are in flight, is FALSE in every run: see section 6.

### VencQueue, VencFrames, VencFifo: a picture through the encoder

`VencQueue` is `drv_venc_queue_mng.c` as operators on a value: two lists of
elements, queue, dequeue, refresh. `VencFrames` composes one of them per channel with
the slots, the priority table, the frame task, the interrupt handler and the
control calls. `VencFifo` is the abstract promise to the source of one channel: a FIFO
that may give back several frames at once.

All channels here have a source attached to them: the source's thread queues a frame
(`VENC_DRV_EflQFrameByAttach`), and the frame goes back by `pfPutImage`. The pictures
of a channel that the user feeds take another way: `VENC_DRV_EflJudgeVPSS` redirects
such a channel to a port of VPSS, which is not modelled (section 6).

| TLA+ | code |
|---|---|
| `source` | the frames the source of a channel has (external) |
| `fq` | `FrameQueue` of a channel |
| `image`, `waiting` | `stImage`, `WaitingIsr` |
| `slot`, `table` | `VeduChnCtx` and `PriorityTab` (which holds slots) |
| `ipFree`, `curr`, `hw` | `VeduIpCtx.IpFree`, `CurrHandle`, the hardware |
| `task`, `isr` | the place of `VENC_DRV_EflTask` and of `Venc_ISR` |
| `enabled`, `live`, `setPri`, `stopping` | `bEnable`, existence, `u8Priority`, a stop that waits while it holds the driver mutex |
| `lost` | history: the frames that were freed with the queue |
| `QFrameByAttach` | `VENC_DRV_EflQFrameByAttach` |
| `QueryChn`, `SkippedBefore`, `RotatePriority` | `VENC_DRV_EflQueryChn`: walk the table; frames that rate control, time stamp or size refuse go straight back; the channel taken goes behind its equals |
| `Got`, `Rest`, `KeepsNewest` | what a query gets of one channel: one frame, or with QuickEncode (`QuickEncode_Process`) all of them, of which all but the newest go back |
| `TaskCheck`, `TaskQuery`, `TaskStart` | the task's test of `IpFree`, its query under the channel lock, its start of the encoder |
| `IsrEndOfPic`, `IsrNext` | the handler up to `WaitingIsr = 0`, and what it does after |
| `StartVenc`, `StopVenc`, `StopFlush` | start; stop under the channel lock; the wait and the emptying of the queue (`RlsAllFrame` or `RefreshQueue`) |
| `CreateChn`, `DestroyChn`, `SetPriority` | the ioctls of the same name; `DestroyChn` frees the queue with what is in it |

Who holds what: ioctls hold `g_VencMutex` (`MutexFree`), a source
does not; the channel lock makes the query, the start and the first half of the
stop atomic against each other; the task claims the encoder (`IpFree = 0`) only
after its query, outside any lock. Nothing keeps a source from queueing a frame on a channel
that was stopped: it stays there until the next start, or is freed by the destroy and never
comes back (`VENC_DRV_EflDestroyVenc` does not call `pfPutImage`).

A channel is its index in `g_stVencChn`, a slot its index in `VeduChnCtx`. The two
differ as soon as channels start in another order than they were created, and
the code confuses them twice (sections 4 and 6).

### VencStream and VencPackets: the encoded stream

The ring between the encoder and the user. A unit is 64 bytes: a packet is one
unit of header, in which its length stands, and the units of its data. Four
offsets follow one another round the ring; between the last and the first
at least the reserve stays free. The encoder has a copy of two of them, made when its
frame was started. `VencPackets` is the abstract promise: a queue of packets.

| TLA+ | code |
|---|---|
| `rdHead`, `rdTail`, `wrHead`, `wrTail` | `u32RdHead`, `u32RdTail`, `u32WrHead`, `u32WrTail` |
| `mem` | the memory: a header's unit holds the length of its packet |
| `hwRp`, `hwWp`, `busy` | the words at `StrmBufRpAddr` and `StrmBufWpAddr`; the encoder at work |
| `FreeLen`, `DataLen`, `CanRead`, `CanRelease`, `BufIsVaild` | the lengths and tests of `drv_venc_buf_mng.h`, with unsigned subtraction |
| `RcFrmRateCtrl`, `WriteHeader`, `StartOneFrame` | the start of a frame: the test of the free length, the header writes one by one, the start of the encoder |
| `HwWrite` | the encoder (external): whole packets, short of the read pointer it was given |
| `EndOneSlice`, `EndOneFrame` | the interrupt: what was written is handed over, or, when the frame did not fit, taken back |
| `GetBitStream`, `SkpBitStream` | the user's get and release |

The free length is tested when the frame is let through, the headers are
written later and their results ignored: with `MayCut` a first frame that follows lost
ones starts without room for its headers, because `RcStart` stays set until a frame has
fitted and the headers of the lost ones stay in the ring. (A request of an intra frame only
moves `InterFrmCnt`, `drv_venc_efl.c:2595`: such a frame is still subject to the test, and
which frames are intra is left open.)

### OmxVdec: the buffers of an OMX decoder channel

Four threads: the client's command thread, the firmware's callbacks, the VPSS
callbacks and the client's message thread. Queues have a lock each; use counts
and pending flags have none. So an entry point is several steps: each
critical section, each change of a use count, each read and each write of the flag
word. That word holds the three pending flags and `eos_recv_flag`, `eof_send_flag`,
`recfg_flag`, `reset_pending` and `progress`: a write of any of them, by whichever thread,
is a read of all three flags and then a write of all three.

Two variables are history, not state of the code. `torn`: a write of the word has undone
another thread's. `mixed`: a flush of the output port was at work while
`vpss_release_frame` was between its two critical sections. The code excludes neither, and
after either it may answer a flush nobody waits for, or delete a list entry twice; the
properties say that nothing else leads there.

| TLA+ | code |
|---|---|
| `queue`, `status` | `raw_queue` and `yuv_queue`; `vdec_buf_s.status` |
| `use` | `raw_use_cnt`, `yuv_use_cnt` |
| `flags` | `input_flush_pending`, `output_flush_pending`, `pause_pending`: bits of one word |
| `msgs` | the message queue; a message for which no element is free is lost |
| `GetCheck`, `Get` | `channel_get_stream`, `vpss_get_frame`: test, then take under the lock |
| `ReleaseStream`, `ReportNewFrame`, `ReleaseFrame` with `GiveBack`, `CountDown`, `Decide`, `End`, `Clear`, `EndPause`, `ClearPause` | `channel_release_stream`, `vpss_report_new_frame`, `vpss_release_frame` |
| `Write` | a write of some bits of the word, which was read before |
| `Touch`, `Touched` | the VPSS task writes `progress`, `recfg_flag`, `eof_send_flag` |
| `CommandTouch`, `CommandTouched` | the command thread writes `reset_pending`, `recfg_flag`, `eos_recv_flag` |
| `Lend`, `Refuse` | `channel_empty_stream`, `channel_fill_frame`; after the last stream the driver's own `last_frame`; a frame that is not aligned goes back at once |
| `Flush`, `ReleaseIdle` with `Those`, `Test`, `SetPending` | `channel_flush_port`, `channel_release_idle_buffers` |
| `Pause` ..., `Resume` ... | `channel_pause`, `channel_resume` |
| `GetMsg` | `msg_dequeue` |

### Mmz and MmzOwners: who owns a piece of media memory

`drv_media_mem.c` keeps the blocks with two reference counts and a flag for a
release that waits; `drv_mmz_userdev.c` keeps, for every open file, a list of blocks with
counts of its own and a flag for a free that waits; drivers come from the side and
look blocks up by their address. A step is one critical section of `mmz_lock`.
`MmzOwners` is the abstract promise: a block goes back to the zone in the step in
which its last owner or its last mapping goes.

| TLA+ | code |
|---|---|
| `zone`, `phyRef`, `kmapRef`, `released` | `mmb_list`, `phy_ref`, `map_ref`, `HIL_MMB_RELEASED` |
| `list`, `mmbRef`, `mapRef`, `mapped`, `delayed` | a file's `mmb_info` entries |
| `vma` | the mappings in the process's address space (external) |
| `hil_mmb_*`, `_mmb_free` | the functions of the same names |
| `ioctl_*`, `AddRef`, `DecRef`, `do_munmap`, `FreePut`, `FreeBlock` | the ioctls and `_usrdev_mmb_free` |
| `Exit`, `ExitUnmap`, `ReleaseEntry`, `Closed` | the end of a process: its mappings go, then `mmz_userdev_release` |
| `new_mmb`, `Find` with `remap_mmb`, `unmap_mmb`, `delete_mmb` | the drivers' calls: look up, then use |

### ModuleMgr: who is registered under an ID

The list of `drv_module_ext.c` and the two ways to get into it: by a fixed ID,
which a driver and the library above it may share, and by a name, for which an ID is
picked in one ioctl and entered in another. `regs` counts what each caller has
registered and not taken back, which the code does not know; `allotted` is the ID a
thread of a process carries from the first ioctl to the second.

---------------------------------------------------------------------------
## 3. The runs

States are distinct states, times are for two workers.

| run | states | properties | shows |
|---|---|---|---|
| `BufMng_inorder` | 207 712 | `TypeOK` `NoOverlap` `FreezeHasOwner` `HeldStays` | in-order release, with dropped regions and failing allocations: memory handed out never overlaps an unreleased packet, no counter wraps, a frozen area has the block that thaws it, a held packet stays |
| `BufMng_clean` | 32 928 | `Conserved` `RefusedOnlyWhenFull` `WriterServed` | when every region is committed: used + free + freeze is the size, nobody is refused who fits, a waiting writer is served |
| `VdecChan_users` | 37 236 | `TypeOK` `NoUseAfterFree` `CountExact` `StateAgrees` `DestroyedStopped` | one controlling thread against two callers |
| `VdecChan_all` | 364 872 | `OneFreer` | two controlling threads, every entry point, signals, firmware and VPSS failing: still only one thread destroys |
| `VdecChan_wait` | violation | `FreeEnds` | see section 4 |
| `VencFrames_order` | 321 504, 30 s | `TypeOK` `TableMatches` `FramesKept` `HighestFirst` `InOrder` | two channels, one with QuickEncode, whose priorities change: no queue overflows, the table agrees with the slots, the channel the table puts first goes first, no frame is lost or doubled, each channel is a FIFO |
| `VencFrames_turns` | 210 046, 110 s | `OneInFlight` `FrameTaken` `StopEnds` | three channels of one priority, task and interrupt handler both starting frames, under fairness |
| `VencStream` | 43 968 | `TypeOK` `NoCatchUp` `FreeIsFree` `OneNalu` `UnreadStays` `IsPacketQueue` `ReaderServed` | the ring between driver, encoder and user |
| `OmxVdec_overlap` | 1 687 072, 90 s | `TypeOK` `StreamsKept` `FramesKept` `HeldInUse` `InputFlushed` `OutputFlushed` | both ports with every thread in the driver at once, up to the first race (`torn`, `mixed`) and the step that makes it |
| `OmxVdec_serial` | 58 876, 50 s | `Answered` | both ports, calls one after the other, under fairness |
| `Mmz` | 34 688 | `TypeOK` `CountsAgree` `FoundIsThere` `DelayedIsDue` `GivenBackInTime` | two processes and a driver on one block; `GivenBackInTime` is the refinement of `MmzOwners` |
| `ModuleMgr_twice` | violation | `StaysRegistered` | see section 4 |

Every property of a passing run has a mutant in `PROJECT.json`: a plausible
bug (a test dropped, a wrong count, a missing sort) under which TLC finds the property violated.

`VdecChan_*` say `CHECK_DEADLOCK FALSE`: a system whose threads all sleep in the
release wait has really stopped, which is what `VdecChan_wait` is about.

### Bounds

- **BufMng**: `Size` 5 or 6 units, three packets held. Six units allow a list
  of several blocks, a wrap with a frozen tail of every size, a second wrap and
  a full ring. Sizes enter the code only by comparison and addition, and for
  the safety properties the theorems remove the bound. `Word` is the modulus of
  the 32-bit arithmetic: any number above twice the size behaves alike.
- **VdecChan**: three threads are needed for a free, a call that is inside and
  one that tries; two controlling threads for two frees. Two or three
  structures tell a stale pointer from a current one. `MaxUse` bounds the counts
  that a failing VPSS may leak.
- **VencFrames**: two or three channels (a third for taking turns among equals
  while another one is taken). Three frames and a queue of two let a frame be in the
  encoder, two be queued behind it and, with QuickEncode, one be got and left out; the
  queue is full while the source still has one. Frames are alike
  (`SYMMETRY`), in the run without liveness only. `VencFrames_turns` has one frame a channel:
  order is the other run's question.
- Priorities are two values, enough for higher, equal and changed.
- **VencStream**: twelve units hold four header units, packets of three lengths
  that do not divide the size, so that packets wrap at every offset, and three
  packets with the user. `TooFew` stands for the quarter of the buffer that rate
  control wants free. The theorems remove the bounds
  for everything but `ReaderServed`.
- **OmxVdec**: one stream buffer and the driver's own `last_frame` give one with the decoder
  and one in the queue, two frame buffers likewise for the VPSS; frame buffers are alike
  (`SYMMETRY`, in the run without liveness). `OmxVdec_overlap` follows a behaviour up to
  its first race (`CONSTRAINT UpToTheFirstRace`), the state after the race included:
  from there on the properties say less or nothing. Without the constraint the first 16 million
  states were searched with no violation. `Depth` = 7 is the number of
  buffers and of answers together, the least that `Room` of the proofs wants: the code
  has 50 elements against at most 20 buffers a port and four answers. The theorems
  remove the bounds, the constraint included.
- **Mmz**: blocks meet only in the choice of the gap, which is not modelled: one
  block, two files. `MaxRef` = 3 lets the references of one file, of the other and
  of the driver's mappings go up and down independently; two blocks with one file
  and `MaxRef` = 2 were run once (97 755 states) and hold. The theorems remove the bounds.
- **ModuleMgr**: one process with one thread shows what a second registration does;
  nothing else is needed.

### Fairness

- **BufMng** (`WriterServed`): the writer repeats a refused call and commits
  what it took, as the injection path does; the decoder goes on acquiring and releasing.
  Nothing is assumed of new requests, resets, dropped regions or failing allocations.
- **VdecChan** (`FreeEnds`): a thread inside a call goes on with it. No call
  need be made.
- **VencFrames** (`FrameTaken`, `StopEnds`): the task runs, the encoder ends each
  picture with an interrupt, and a stop that can go on does. Nothing is assumed
  of producers or of control calls. Each is weak fairness of one action:
  none needs to win a race again and again.
- **VencStream** (`ReaderServed`): the user goes on taking and releasing.
- **OmxVdec** (`Answered`): a thread inside a call goes on, devices give back what
  they work on, the message thread reads on. Strong fairness for the
  giving back, because in `OmxVdec_serial` a device enters only between two calls.

---------------------------------------------------------------------------
## 4. Where the code and its own words part

Two runs end in a violation on purpose. Each checks what a comment or a
declaration of the repository says.

1. `VdecChan_wait`: the release queue (`drv_vdec_intf_k.c:119`) is never woken, so
   a free that went to sleep does not return when the last user leaves.
2. `ModuleMgr_twice`: the comment at `drv_module_ext.c:361` says "If user mode
   registered more than 1 time, only sub count before count = 1", but a second
   registration by ID is accepted without being counted: the PVR driver and its
   library register one ID, and the library's unregister takes the driver's
   entry out of the list.

The modules show more of the kind. These have no run of their own; each comes
back with the constants given here (start from the configuration named first)
and the property as the only one.

| property violated | configuration | why |
|---|---|---|
| `NoOverlap` | `BufMng_inorder` with `InOrder = FALSE` | "Support free out-of-order" (`drv_vdec_buf_mng.c:1043`): the list is unlinked anywhere, but everything outside the span from its first to its last block is taken as free |
| `HeldStays` | `BufMng_inorder` with `ResetHeld = TRUE` | a reset empties the ring under the decoder's packets |
| `Conserved`, `RefusedOnlyWhenFull`, `WriterServed` | `BufMng_clean` with `MayDrop` or `MayFail` | a region dropped, or an allocation that fails, after the tail was frozen |
| `NoUseAfterFree` | `VdecChan_users` with `MaySignal = TRUE` | a signal ends the wait for "use count, support multi user" (line 117), and the structure is freed all the same |
| `NoUseAfterDestroy` | `VencFrames_order` with one channel, one slot, one frame | the stop waits for `WaitingIsr`, "to block STOP channel" (`drv_venc_efl.h:384`), which the handler clears before it is done with the channel |
| `InOrder` | `VencFrames_order` with `Chn = Attached = {2}`, two slots, two frames | the stop uses a slot as the index of a channel (`drv_venc_efl.c:3499`): the queued frames of an attached source are freed instead of given back |
| `OneNalu` | `VencStream` with `MayCut = TRUE` | header packets of an intra frame are cut and handed over ("Get One Nalu address & length"); `NoCatchUp`, `FreeIsFree`, `UnreadStays` still hold |
| `FramesKept` | `OmxVdec_overlap` without `=> mixed`, no constraint | `vpss_release_frame` leaves the frame in the queue while it decides ("flags confused!", `channel.c:188`): a flush gives it back too, and the task deletes the list entry a second time |
| `OutputFlushed` | `OmxVdec_overlap` without `~mixed`, no constraint | the same, and the frame goes on being lent behind the answer |
| `InputFlushed`, `OutputFlushed` | `OmxVdec_overlap` without `~torn`, no constraint | a write of one bit of the flags brings another back (`channel.h:143`), such as the write of `eos_recv_flag` by `channel_empty_stream` (`channel.c:3187`) against the clearing of `input_flush_pending` (line 1428): a flush is answered again, with streams queued |
| `StreamsKept` | the same, without `~torn` | answers are repeated until the message queue is full, and a buffer's message is lost |
| `Answered` | `OmxVdec_serial` with `Overlap = TRUE`, one stream buffer, no frame buffer | the last buffer comes back between the test of the use count and the setting of the flag (`channel.c:2982`) |
| `CountsAgree` | `Mmz` with `Together = TRUE` | `remap_mmb` looks up and maps in two critical sections: the block it maps may be another one by then; `FoundIsThere`, of unmapping and deleting, still holds |
| `DelayedIsDue`, `GivenBackInTime` | `Mmz` with `Balanced = FALSE` | a user drops references that its mappings hold |
| `GivenBackInTime` | `Mmz` with `MayFail = TRUE` | a failed `do_munmap` is ignored, the block is freed mapped |
| `StaysRegistered` | `ModuleMgr_twice` with `Fixed = {}` and two threads or two processes | an ID is picked in one call and taken in another |

The passing runs avoid exactly these conditions, and say so by their constants.
With `Fixed = {}`, one process and one thread, `StaysRegistered` holds.

---------------------------------------------------------------------------
## 5. The proofs

### BufMngProofs (`TypeCorrect`, `NeverOverlaps`, `FreezeOwned`, `NeverTaken`, `RoomConserved`, `FullOnlyWhenFull`)

For every buffer size, every number of packets held, with dropped regions and
failing allocations as the constants choose, `Spec` implies `[]TypeOK`,
`[]NoOverlap`, `[]FreezeHasOwner` and `HeldStays`. Assumed: `BufMngAssumption`, `InOrder`
and `~ResetHeld`; section 4 shows that the first is needed. Where nothing is dropped
and no allocation fails (`~MayDrop`, `~MayFail`), it also implies
`[]Conserved` and `[]RefusedOnlyWhenFull`; section 4 shows that both are needed.

None of them is inductive. `free >= s` bounds what is handed out, so the
invariant has to say what `free` means in the geometry of the list:

- the list is one run of adjacent blocks (`Linear`), or two, of which the
  second starts at offset 0 and ends before the first begins (`Wrapped`);
- `used` is the length of these runs, less a region being written;
- when wrapped, `freeze` is exactly what lies behind the first run; when
  linear, it is 0 or starts at the end of a committed block of the list (`Owned`): a failed
  allocation leaves it so;
- `used + free + freeze <= Size`: an inequality, for a dropped region or a
  failed allocation may lose room, never make it up;
- the decoder's packets are, in order, the READING blocks at the head of the
  list, and only the last block can be in writing.

`IInv` is this with the types. `Geom` takes the list and the counts as
arguments, so that each operation has a lemma about lists alone (`PlaceBehind`,
`PlaceAtStart`, `Commit`, `DropLast`, `ReleaseFirst`, ...) and each action a
lemma that cites it. `Placement` is the heart of it: what
`BUFMNG_GetWriteBuffer` picks by unsigned arithmetic is one of the three places the lemmas allow.

For the last two, `Whole` adds to it that the inequality is an equality and that room is
frozen only while the list is wrapped. Then what the code sees as free is all that is not
in the list, and `RoomFound` shows that a request that is refused fits neither behind the last
block nor at the start. `HeldStays` follows from the READING blocks being the decoder's packets.

### VdecChanProofs (`TypeCorrect`, `UseCountExact`, `NeverUsedAfterFree`, `FreesOneAtATime`, `DriverAgrees`, `StoppedFirst`)

For any finite set of threads and any memory. What is assumed grows:

| theorem | no handle given out again under calls in flight | no VPSS failure (its error return leaks a count) | no signal ends a wait, no call that works on after `USE_UP` | one controlling thread, firmware that does as told |
|---|---|---|---|---|
| `TypeCorrect`, `FreesOneAtATime` | yes | | | |
| `UseCountExact` | yes | yes | | |
| `NeverUsedAfterFree` | yes | yes | yes | |
| `DriverAgrees`, `StoppedFirst` | yes | yes | yes | yes |

The first three columns are `Disciplined`, the last is `Solo`. The mutex of the player
(`pAvplayMutex` in `source/msp/api/avplay`) makes one thread of those that start, stop and reset;
other threads still enter and leave the channel as they like. A firmware that refuses a stop is
excluded because the driver then says STOP all the same.

`FInv` is for the first line: the count covers the threads inside, the flag is the number
of threads that raised it, and `OneReleasing`. `IInv` joins the type invariant with

- `CountExact`, `FlagExact`: each counter is the number of threads at a set of
  places (`AtMoves` says how such a number changes when one thread moves);
- `OneReleasing`: of the threads that raised the flag only the one that found
  it 0 goes on;
- `Alone`: while that thread destroys, nobody is past the test of the flag. A
  thread that raised the count before the free read it keeps the free waiting; one
  that comes later sees the flag;
- `Pointers`: a thread past the test has the entity's current pointer, which is
  live; the one that frees has a live one that the entity no longer names.

`NoUseAfterFree` needs all of them: the counter alone does not exclude a second
free, the flag alone does not exclude a call in flight.

`SInv` adds what the controlling thread knows: once its stop inside `VDEC_Chan_Free` is through,
`enCurState` is STOP until the channel is gone (`Stopped`); while it is about to save a state, the firmware has
that state already. The stop is never refused, for nobody else has raised the flag.

### VencFramesProofs (`TypeCorrect`, `TableAgrees`, `OneAtATime`, `PriorityKept`)

For any channels, slots, frames, depths and priorities, with or without QuickEncode.
Assumed: `VencFramesAssumption` only. `TypeOK`, `TableMatches`, `OneInFlight` and
`HighestFirst` follow from `IInv`:

- `TableOK` and `SlotsOK` support each other. `VENC_DRV_EflStartVenc` takes the first free
  slot and the first free entry: there is a slot because no channel has two
  (`FreeSlot`), an entry because no slot stands in the table twice (`FreeEntry`), both
  by counting. Without them `Min` of an empty set would be anything.
- `SortPriority` gives each entry its rank; ranks are different and none is left out
  (`RankLess`, `RankOnto`), so the sort, like the rotation, only moves entries
  (`Moved`), which keeps who stands in the table (`MovedFacts`). The
  rotation keeps the table sorted because all the places it turns have one priority:
  it counts the channels of the group, and in a sorted table that many places from
  the first one on cannot reach past the group (`RotateFacts`).
- `EncoderOK` says where the frame in flight is: with the task between its query and its
  start, or in the encoder. The task and the handler therefore query only when no
  channel waits, and afterwards one does at most (`QueryFacts`).
- `ImagesOK`, `FrameTypes`: the image that the handler gives back is a frame, and no
  queue is ever stopped, so a channel with a frame can be asked for it.

`PriorityKept` adds that only a query makes a channel wait (`TakenByQuery`) and
that `PriorityOf` finds the entry at which the query found the channel.

### VencFifoProofs (`NoFrameLost`, `ChannelsAreFifos`)

For any channels, slots, frames, depths of the queue and priorities, with or without QuickEncode,
each frame is at one place, once (`FramesKept`); and each channel implements `VencFifo`
(`InOrder`), whose stop gives everything back, if `Uniform`: every index up to `Slots` is that of an
attached channel. The code needs that: the stop asks of the channel whose index is the number
of the *slot* whether it has a source (`drv_venc_efl.c:3499`), and section 4 has the counterexample.
Without it nothing is lost but what is freed with the queue, which `FramesKept` counts as a place.

- `Pipe(c)` is what the driver has of channel c: the frame in the encoder, then the
  queue. A step queues a frame, gives back a beginning of the pipe or frees the pipe (`Keeps`); a
  query is the hard one: it may
  skip frames of several channels at once and take one of another, and with QuickEncode it
  gets a whole queue, but of each channel it gives back a beginning (`GotWhole`).
- `SharedKept` is about one channel alone: whatever the step, the frames stay shared
  (`Shared`) between the source (or what was freed) and the pipe, each once. With it `KInv` is
  inductive one channel at a time, on top of `IInv` of VencFramesProofs.
- Each action has a lemma which says that, for every channel, it is a step of that channel's
  FIFO or does not touch it.
- The number of places of a frame, a sum of cardinalities of sets of
  indices, is 1 when the frames are shared.

### VencStreamProofs (`TypeCorrect`, `NeverCatchesUp`, `FreeLenNeverWraps`, `UnreadNeverOverwritten`)

For every buffer length, reserve and set of packet lengths, with cut headers or
without. Assumed: `VencStreamAssumption` only.

The difficulty is the stale read pointer: while the encoder works, the room it
sees is counted from the read tail of the start of its frame, and the user
moves the read tail meanwhile. `IInv` therefore tells the order of all the offsets by their
distance from `Base`: the encoder's read pointer while it works, the read tail
otherwise. From there one meets the read tail, the read head, the write tail, the
write head and the encoder's own write pointer (`Ordered`), and the reserve is
still free behind the last. `Dist` has a few lemmas (`DistBetween`, `DistTurn`,
`DistBack`) that replace the case distinctions on wrapping; `CanReadBound` and
`CanReleaseBound` say what the tests of the code allow in these terms.

### VencPacketsProofs (`EachIsOneNalu`, `ImplementsPackets`)

For every buffer length, reserve, set of packet lengths and number of packets
held: the ring is a queue of whole packets. Assumed: `VencStreamAssumption` and
`HeadersFit`:

- `~MayCut`: a first frame that follows lost ones finds room for its headers. The
  code does not see to that; with `MayCut` both properties fail (section 4).
- `Headers <= TooFew`, `Headers % 2 = 0`: the code wants eight free units or more
  (`drv_venc_efl.c:2749`) for every frame once one has fitted and writes one or two header
  packets of two units (`drv_venc_efl.c:1960`).

`PInv` says what the memory looks like. A `Chain` from one offset to another
is a piece in which each header is followed by data of its length and then by the next
header, up to the end of the piece. What is between the read tail and the read
head, between there and the write tail, and what the encoder has written of its frame
are chains. The headers of a frame being started are not handed over yet; as
long as they are written they stand where `HeaderUnit` says and the rest has
room (`Started`), so that they are a chain when they are complete. The packets the user
holds lie one behind the other in the first piece (`HeldChain`), so only the
first of them can be the one at the read tail. TLC checked `PInv` before it was proved.

Chains are joined where they meet (`ChainJoin`), split behind their first
packet (`ChainFirst`), and survive a write elsewhere (`ChainFrame`), which
`Untouched` of `VencStreamProofs` provides. `Packets`, which walks over the memory by
a recursive function, is joined (`PacketsJoin`), split and kept likewise. These
are inductions on the distance to the end. An induction theorem cannot be
cited (it has an operator for its parameter), so `InductBelow` is stated for
sets of numbers and comes from `WFMin`: a set of numbers that is not empty has a least
one. `RowExists`, that the recursive function exists, is proved in the same way.

`QueueStep` is a step of `VencPackets` or a stutter. A slice or a frame
adds the packets between the write tail and where it is put, or none
(`HandsOver`); a get takes the first, a release the oldest of those held;
everything else leaves both sequences as they are.

### OmxVdecProofs (`NotTakenWhileInUse`, `TypeCorrect`, `InputGivenBack`, `OutputGivenBack`, `NoStreamLost`, `NoFrameLost`)

For any sets of stream and frame buffers, with pause and resume and with several
flushes asked for at once, and however the threads overlap. Nothing is assumed of the order of
calls; what races spoil is in the properties themselves:

| theorem | up to a torn write | up to a flush that meets `vpss_release_frame` | room for messages |
|---|---|---|---|
| `NotTakenWhileInUse`, `TypeCorrect` | | | |
| `InputGivenBack` | yes | | |
| `OutputGivenBack` | yes | yes | |
| `NoStreamLost` | each buffer at one place (else at most one) | | yes |
| `NoFrameLost` | each buffer at one place (else at most one) | nothing is deleted twice | yes |

`Room`: the message queue has four elements more than there are buffers, one for
each answer. In the code there are 50 elements, 20 + 20 buffers at most (`channel.h:25`).

Three invariants, one on top of the other:

- `AInv`: a buffer is in one place at most; those a device holds are the ones marked `using`, and
  stand in their queue; the use count is their number, plus one while a buffer already given
  back is still counted;
- `BInv`: as long as no write was torn, each answer the client waits for is owed by the command
  thread, or by the pending flag, or is posted, by exactly one of them (`Owed`). Once a flush has been through
  a queue only what is in use is left there (`Drained`), unless it has met `vpss_release_frame`.
  So when the use count is 0 the queue is empty (`Empty`), which is what the code concludes without looking;
- `CInv`: as long as no write was torn, no buffer is nowhere. By the other two no message stands twice
  in the queue of messages, so they are at most as many as buffers and answers (`Room`), and
  `Post` throws none away.

`Those` picks the elements of a sequence at a set of places; its lemmas say which
elements are left, that each is left once, and that the two halves
of a split have all of them.

### MmzProofs (`TypeCorrect`, `CountsExact`, `OwnedOnce`, `LookupHolds`, `FreedInTheEnd`, `Implements`)

For any number of blocks, processes and references. Assumed (`Reliable`): users drop only
references they added, nobody frees a block a driver has just looked up to map,
`do_munmap` does not fail; section 4 shows that each is needed. `LookupHolds` assumes
nothing of the kind: it has an inductive invariant of its own, `StayInv`, that needs only who
owns what and that a block the kernel has mapped is not freed.

`IInv` joins the type invariant, `CountsAgree` and `DelayedIsDue` with

- `Lists`: a listed block is taken, not waiting for its release and in no other list;
- `Calls`: what each step of a call may count on, among it that a block between
  "out of the list" and "freed" belongs to that call alone;
- `Maps`: a file's mappings are among its references, so that the last reference is
  not dropped before the last mapping;
- `Taken`: every block that is not free has an owner, a call that frees it, or waits
  for the driver's last mapping.

`Implements` then maps each step to one of `MmzOwners` or to a stutter: the
counts decide when memory goes back, the sets of owners and mappings say when it should.

### Only model-checked

- Liveness: `WriterServed`, `FreeEnds`, `FrameTaken`, `StopEnds`, `ReaderServed`,
  `Answered` (temporal properties under fairness need ENABLED).
- The properties of `ModuleMgr`.

---------------------------------------------------------------------------
## 6. What is not modelled, and why

In the components that are modelled:

- BufMng: creation and destruction of instances, address bookkeeping
  (`SetUserAddr`), queries.
- The reset of the kernel's stream buffer by `VDEC_Chan_Reset` without the
  library's (`drv_vdec_intf_k.c:5976`), and packets released after a reset:
  they need the stream path (plan: VdecStream).
- VdecChan: the stream, frame-port and VPSS paths; `u32ChanNum`; arguments of
  log calls that read `pstChan` after `USE_UP` (around lines 5855, 5973, 7140),
  which matter only when such logs are compiled in. `FreeHandle` is called
  after a free that succeeded; the kernel path that calls it regardless
  (line 8526) is a hazard of the list. A handle given out again while a
  call of its old owner is in flight resets the counters under that call
  (`ReuseBusy`, line 5146): the switch is in the module, and with it on
  `CountExact` and `NoUseAfterFree` fail.
- Two controlling threads break `StateAgrees`: start and
  stop have no lock between the firmware call and the assignment. `VdecChan_users` has one
  controlling thread because the player holds its `pAvplayMutex` around start,
  stop and reset (`api/avplay/mpi_avplay.c`); a program that calls the decoder's
  own library from two threads has no such lock.
- VencFrames: channels the user feeds. The build redirects every one of them to VPSS
  (`VENC_DRV_EflJudgeVPSS`, `drv_venc_efl.c:1787`; `bNeedVPSS`, `drv_venc.c:1141`): the frames
  the user queues are read by VPSS (`VENC_DRV_QueueFrame`, line 1364), the encoder gets its
  pictures from a VPSS port, and the user gets its frames back through VPSS (line 1410). The order of
  these frames is a matter of VPSS's lists. OMX channels have queues of their own.
  A window that brings a function to acquire its frames is asked by the query itself
  and does not use `FrameQueue`. Attach and detach, the change of QuickEncode by
  `VENC_DRV_SetAttr`, register programming and the encoded stream are left out as well. The sort in `SetPriority`
  is one step, though the code does not hold the channel lock there.
  `SetPriority` looks up a channel index in a table of slots, as the code does:
  the table stays well formed (`TableMatches`), whichever channel's priority it was.
  The freeing of a channel in `DestroyChn` and the taking of its handle out of
  `g_stVencChn` (`drv_venc.c:610`) are one step.
- VencStream: the wait of the get call and its look at the buffer before it has
  the lock (`drv_venc_intf.c:477`, `drv_venc.c:920`), JPEG streams, the copy of the
  tail of a wrapped packet into the extra room behind the ring. `stChnPacket`, which
  repeats what the header says, is left out. A released unit is forgotten
  (0), so that reading it is noticed.
- OmxVdec: creation, start, stop and release of the channel, the table of bound
  buffers and the error answers for a buffer that is not in it, the message of a new picture size,
  time-outs of the message thread; what the other bits of the flag word say.
- Mmz: sizes, alignment and the choice of the zone and the gap; a failing `kmalloc` in
  `__mmb_alloc`, which leaves the pages taken (`drv_media_mem.c:376`); several
  mappings of one block in one process; look-up by user address; more than one thread of the
  drivers; `get_mmb` and `put_mmb`, with which a driver counts a block it has not mapped,
  `refer_mapped_mmb`, which maps once more what is found by its kernel address,
  `remap_mmb_2`, `unmap_mmb_2`, `new_mmb_v2` and the cached variant; version 2 of the
  files, which the configuration does not build (`cfg.mak:245`).
- ModuleMgr: the release of a file is one step, though the code walks the list
  without the lock (`drv_module_ext.c:476`); `HI_DRV_MODULE_GetFunction`, which reads a node
  after the lock was given back; the nodes of the pool, which are cleared when they
  are given back; the log's table of modules.

Whole parts: see "components" in `PROJECT.json`. Firmware, the Mali driver, libpng,
libjpeg, tuner drivers and register tables are third-party, generated or
register-level; numeric heuristics (sync, PTS recovery, rate control, PQ) have no protocol to check.

---------------------------------------------------------------------------
## 7. Plan

In order of importance. Each module has constants with a named assumption, one
action per operation, invariants in named parts and no RECURSIVE operator, so
that it can be proved about.

Done: BufMng, VdecChan, VencQueue, VencFrames, VencFifo, VencStream, VencPackets,
OmxVdec, Mmz, MmzOwners, ModuleMgr; BufMngProofs, VdecChanProofs,
VencFramesProofs, VencFifoProofs, VencStreamProofs, VencPacketsProofs,
OmxVdecProofs, MmzProofs.

| module | code | composes | abstract specification, properties | proofs |
|---|---|---|---|---|
| VdecStream | stream path of `drv_vdec_intf_k.c` | BufMng | every packet acquired is released once; reset of one side alone; end-of-stream packet | packet ownership |
| VdecHandles | handle calls, release of a file | VdecChan | an entity has one owner; `u32ChanNum` is exact | count exact |
| Himedia | `common/drv/himedia` | - | a minor has one device | minor unique |
| AvPlay, Sci, AoRing, DmxBuf | `api/avplay`, `drv/sci`, `drv/aiao`, `drv/demux` | - | state machines and rings | ring lengths |

Runs: one passing run per component on the smallest instance where every
action fires, a second one only where liveness or another environment asks a
different question. Bounds as above: two actors for a race and a third for a bystander, a ring of
five or six units, two handles. In VencFrames, the two critical sections of destroy and the
exchanges of the sort will become steps of their own.
