# Verification of the Amlogic video encoder libraries

TLA+ models, TLC runs and TLAPS proofs about the two parts of this repository where
several threads, processes or cores work together: `src/multiEnc`, the library that
encodes H.264 and H.265 with the Wave521 VPU, its VPU API, its device layer and the
queue of its sample application; and `src/vcenc`, the VeriSilicon encoder, of which
two-pass encoding, the sharing of cores, the order of encoding and the store of
reference pictures are modelled. `PROJECT.json` maps every definition to the lines it
models. File names without a path are unique in the part they belong to.

1. [The system](#1-the-system)
2. [The modules](#2-the-modules)
3. [The runs](#3-the-runs)
4. [The proofs](#4-the-proofs)
5. [What is not modelled](#5-what-is-not-modelled)
6. [The plan](#6-the-plan)

## 1. The system

The repository holds several encoder libraries. Most are a sequential translation of
parameters into registers; two are more. In `multiEnc` threads of several processes
share one VPU. A frame goes down through these layers:

```
 amvenc_test/, test_sample/            programs
   libvpmulti_codec.c                  vl_multi_encoder_*: one instance, key-frame requests
     AML_MultiEncoder.c                the encoder context: slots, sources, waits, retries
       vpuapi.c, vpuapifunc.c          VPU API: EncOpen, StartOneFrame, GetOutputInfo, Close
         product.c, enc_driver.c       commands and registers of the VPU
           vdi.c                       device file, mutexes, shared pools, DMA buffers
             kernel driver, firmware   outside of the repository
```

### Components, their state and what makes them correct

**Encoder context** (`amvenc_lib/AML_MultiEncoder.c`). State: `AMVMultiCtx`, that
is, the occupied slots `encodedSrcFrmIdxArr`, the frame in each slot `FrameIO`, the
link from source index to slot `encMEMSrcFrmIdxArr`, the next `srcIdx`, and what is
allocated. Operations: `AML_MultiEncInitialize`, `Header`, `SetInput`, the changes of
parameters, `NAL`, `Release`. It calls the VPU API and waits for interrupts through
`HandlingInterruptFlag`. Hard: the firmware reorders frames and names them only by
source index; every call has several error returns that must give back the right
slot; waits time out and interrupts come twice or not at all. Correct means: no slot
is reused under the firmware, the frame returned is the one whose bits are returned,
no slot or source is lost, every call returns.

**VPU API** (`vpuapi/vpuapi.c`, `vpuapifunc.c`). State: `EncInfo` of each instance
(of it `srcBufUseIndex` matters: the sources in use), `codecInstPool` in memory
shared by all processes, and `vpu_instance_num`. Operations: `VPU_Init`, `VPU_DeInit`,
`VPU_EncOpen`, `VPU_EncClose`, `VPU_EncStartOneFrame`, `VPU_EncGetOutputInfo`,
`VPU_SWReset`. Each runs between `EnterLock` and `LeaveLock`, except that
`FreeCodecInstance` comes after `LeaveLock`. Correct means: a slot of the pool has one
owner, an open instance stays whole, the lock always comes back.

**VDI session and locks** (`vpuapi/vdi.c`). State per process: `s_vdi_info`
(`vpu_fd`, `task_num`, the mappings), `vdi_init_flag`, `vid_mutex`. State of all
processes: `vpu_mutex` and `instance_pool_inited`. Operations: `vdi_init`,
`vdi_release`, `vdi_lock`, `vdi_unlock`. Hard: `task_num` is counted up under one
mutex and down under another one; the release decides under one mutex and acts under
another; the first process makes the mutex the others use; an opening that fails
undoes what it did; processes die. Correct means: one thread at a time between
`vdi_lock` and `vdi_unlock`, a session has its device until it closes it, no file is
forgotten, every call returns.

**DMA buffer pool** (`vpuapi/vdi.c`). State: `vpu_buffer_pool` under `vmem_mutex`,
and what the kernel has allocated and mapped. Operations: allocate, free, read,
write, set and clear memory. Hard: the pool is scanned without the mutex, freed
slots keep their addresses, which the kernel gives out again, and a full pool is not
noticed. Correct means: a free gives back its own buffer, an access reaches its own
mapping, nothing leaks.

**Sample framework queue** (`test_sample/helper/misc/datastructure.c`). A ring with
a lock, which hands out pointers into itself. Correct means: it is a bounded FIFO, and
such a pointer is good until the ring fills up.

**Interrupts and registers** (`enc_driver.c`, `vdi_wait_interrupt`). Commands are
written to registers; the words with the reasons of interrupts are shared by all
instances and read and cleared by each poll. Correct means: no instance takes
the completion of another one.

**Single-instance front end** (`libvpmulti_codec.c`). Keeps the request for a key
frame. **Sample application** (`test_sample/component*`). Threads, ports and
queues around the VPU API.

In `vcenc` the threads of one process share the encoder cores, and a frame passes
through these parts:

```
 VCEncStrmEncode, VCEncFlush           hevcencapi.c: order of encoding (single pass)
   lookahead thread, cuTree thread     sw_cu_tree.c: two passes
     VCEncStrmEncodeExt                hevcencapi.c: references, picture store, cores in flight
       sw_picture.c, sw_parameter_set.c  get_picture, marking, counts of references
         ewl.c                         reserving, starting and awaiting cores, one wait thread
           kernel driver, cores        outside of the repository
```

**Two-pass encoding** (`sw_cu_tree.c`, `hevcencapi.c`). State: the queue of jobs of the
lookahead thread, the queues of the cuTree thread, the queue of outputs, one status
word for the three threads, `cuInfoToRead`, the pools of jobs and of maps of QP offsets.
Operations: give a picture, flush, release; take a job, encode it at low quality, pass
it on; insert it in display order, analyse a GOP, write its frames. Hard: signals
are sent without the mutex of their condition, each thread has its own copy of the
status, errors are told through the queue of outputs. Correct means: pictures come
back in encoding order and completely, jobs and buffers are accounted for, every call
returns.

**Core wait** (`linux_reference/ewl/ewl.c`, the callers in `hevcencapi.c`). State: the
lists of jobs and of answers, the cores of each instance in a list whose order means
something, the ring of frames in flight. Operations: reserve, start, leave a job, await
an answer, flush, clear, release; the wait thread asks the kernel, walks over the
jobs, gives cores back and broadcasts. Hard: the thread reorders the list a caller
appends to; answers come in any order, more than once for a sliced frame; a wait that
fails once fails for ever. Correct means: each core is started, read and reset for its own
frame, no core, frame or answer is lost, every call returns.

**Order of encoding** (`hevcencapi.c`, `hevcencapi_utils.c`). State: `encInFor1pass`,
`lastPicCfg`, `nextGopSize`, `nextIdrCnt`, `jobQueue`. Operations: `VCEncStrmEncode`,
`VCEncFlush`. Hard: the group of pictures is planned before its pictures have come,
and planned again when an IDR is forced, the stream ends early or a frame is
discarded. Correct means: no picture is passed over, and none is coded across an IDR.

**Reference pictures** (`sw_picture.c`, `sw_parameter_set.c`, `hevcencapi.c`). State: the
pictures of the container with POC, `reference` and `ref_cnt`, in the order of a queue;
the pictures of the frames in flight. Operations: choosing, marking and counting
references, taking a free picture, starting, finishing, skipping and discarding a frame.
Hard: pictures are found by POC, which is reused after an IDR, while frames of the sequence
before are in flight. Correct means: a frame is predicted from what the decoder
has, nothing in use is overwritten.

Elsewhere: `src/h264`, `src/h265`, `src/jpeg` are single-threaded libraries for
earlier chips, `src/test` holds test programs.

`PROJECT.json` lists the hazards of this code, each at its line, with the properties
that watch it or the reason why none does yet.

## 2. The modules

| module | models | composed with |
|---|---|---|
| `MultiEncoder` | one encoder context, its VPU API calls, firmware and interrupts | refines `FrameLedger` |
| `FrameLedger` | what an encoder promises about frames | |
| `VdiSession` | opening, using and closing the device by threads of processes | |
| `InstancePool` | `VPU_EncOpen` and `VPU_EncClose` over the shared pool | |
| `BufferPool` | DMA buffers of one process | |
| `DataQueue` | the ring of the sample framework | refines `Fifo` |
| `Fifo` | what a bounded queue promises | |
| `Lookahead` | two-pass encoding: the application's, the lookahead and the cuTree thread | |
| `CoreWait` | the cores of several instances and the core wait thread | |
| `EncodeOrder` | which picture is coded next, and how groups are cut | extended by `RefPictures` |
| `RefPictures` | the picture store, the frames in flight and a decoder, over `EncodeOrder` | |
| `MC*` | model values, functions and symmetry for TLC | |
| `*_proofs` | the theorems of section 4 | |

In every module a step is what the code does between two points where someone else
can come in between: taking or giving back a mutex, an ioctl, or an access to memory
another thread writes. `X_Something` next to a definition `X` is a mutation of it:
what a plausible bug would make of that code. No behaviour uses one; they serve to
show that each property can fail.

### MultiEncoder

The context's variables are the arrays named above: `busy` (`encodedSrcFrmIdxArr`),
`frameIO`, `memOf` (`encMEMSrcFrmIdxArr`), `srcIdx`, `mem` and `bs` (buffers that are
allocated), `change`, `started`, and `srcInUse` (`srcBufUseIndex`). `timer` is
`startTimeout`. `pc` and `tries` say where the call is. `offered`, `fate` and `output`
are what the caller sees.

The caller serialises the calls of one context, as the library demands. `Header*`,
`SetInput`, `SetInputRefused`, `ChangeParam`, the actions of `NALStep` and of
`ReleaseStep` follow the functions in the order of their code; `retry_pointB` is the loop
through `Wait` and `FetchAgain`, and `retry_point` and `flush_retry_point` are the loops
`SendAgain`, `StartAgain` and `FlushAgain`, which nothing limits. `SetInputRefused` takes
all early returns in one action: none of them occupies a slot, and one may have given it
memory for its pixels.

The firmware is external: `queue` holds commands, `held` pictures that wait for
reordering, `reports` what `VPU_EncGetOutputInfo` will fetch. It may encode any
picture held, except that a picture is not held once `Window` later sources are taken, and
it holds back `HoldBack` pictures as a GOP with B frames does. `done` and `irq` are
the completion bit of the core and the interrupts the kernel has queued.
`Faults` says what goes wrong; `FaultKinds` in the module lists the kinds.

Of the data only identities are left: a frame is a number, its pixels are the frame
last put into the slot, its bits are the frame last encoded into the bitstream buffer.

Failures follow the code: a frame whose slot a refused parameter change leaves behind, or
whose DMA buffer cannot be unmapped (`FetchUnmapFails`), has the fate "abandoned"; nothing
will ever free that slot, and `InFlightAccounted` names it (`Abandoned`). With the fault
"reset" what was queued may not survive a `VPU_SWReset`. A
frame refused for a full queue (`StartQueueFull`) stays "taken", with its slot occupied,
although the firmware never gets it.

`FrameLedger` is the abstract specification: a frame is taken or refused, a taken
frame is given back at most once, and at most `Overtakers` later frames are given back
before it. The mapping is `fate`, and the bound `Window - 1`.

### VdiSession

One action for each critical section or system call of `vdi_init` and `vdi_release`.
`InitEnter` takes `vid_mutex`; `InitAlready` is the early return that counts a task;
`InitOpen`, `InitSetup`, `InitPool`, `InitLock` and `InitCommon` are the way to
`INIT_VDI_STAT_DONE`; `InitFails` is `ERR_VDI_INIT` and the `vdi_release` it calls.
`ReleaseLock` takes `vpu_mutex`; `ReleaseOne` and `ReleaseUncount` read and write back
`task_num` in two steps, as the increments of other threads may come between;
`ReleaseLast` and `ReleaseClose` are the two critical sections of the teardown.
`saw` is the value read. `Enter`, `EnterLock`, `LeaveLock` stand for every call of the
VPU API. `InitNoPool` is the failure of `vdi_get_instance_pool`: `ERR_VDI_INIT` unlocks a
mutex that is not mapped, and the process dies. `Crash` is external: the kernel closes the
files of a dead process and leaves a `vpu_mutex` that is not robust as it is.

`amiss` is history. The code does not cope with three events, and the properties
say so: a thread inside `vdi_init` while another one of its process is inside
`vdi_release` ("overlap", which the `vdi_release` of a failed `vdi_init` brings about as
well), a second process that makes the mutexes because it looked at the new pool
before the first had made them ("remade", `vdi.c:224`), and a failed `vdi_init` that frees
`vpu_mutex` while another thread holds it ("unheld", `vdi.c:292`). `AllWell` says that
none of them has happened; what failed, was delayed or died otherwise is inside of it.

### InstancePool

`OpenStep` is `VPU_EncOpen` with `GetCodecInstance` and `vdi_open_instance`,
`CloseStep` is `VPU_EncClose` up to `LeaveLock`, `FreeStep` is `FreeCodecInstance`,
one action for each word of the slot, since it runs outside of the lock. The driver's
answer (`saw`) and the store to `vpu_instance_num` are two steps. An opening that
fails leaves its slot behind (`lost`); that is what the code does. An
opening is refused where the VPU is not initialised (`OpenRefused`); a driver that refuses a
closing leaves its count as it was (`UnregisterFails`).
A failing `malloc` is left out: the code goes on with an uninitialised pointer.

### BufferPool

A `Buffer` is a `vpu_buffer_t` with the thread that uses it. `Allocate` is the part of
`vdi_allocate_dma_memory` outside of `vmem_mutex`, `RecordFill`, `RecordMark` and
`RecordNot` the part under it. `Access`, `Look`, `Copy`, `LookEnds` and `AccessEnds`
are the scan that `vdi_clear_memory`, `vdi_set_memory`, `vdi_write_memory` and
`vdi_read_memory` share; it looks at a slot and copies it in two steps. `Free` and
`FreeUnknown` are the part of `vdi_free_dma_memory` under the mutex, `GiveMemory` and
`Unmap` what follows. The kernel gives out any range that is not given out. An
address stands for its whole range: the code compares addresses with ranges, and
ranges the kernel has given out at one time are disjoint.

### DataQueue

The ring's fields and the pointer last handed out (`lent`). Each operation is one step:
it runs under the queue's lock. `Fifo` is the abstract specification, with the
refinement mapping that reads the ring from `front`.

### Lookahead

The variables are grouped by the thread that writes them; `mpc`, `lpc` and `cpc` are the
places of the application, the lookahead and the cuTree thread. `AddPictureToLookahead`,
`Flush` and `Release` are the application's calls, the other actions of `CallStep` the
waits inside of them. `AwaitAnyJob` and `AwaitJob` are the two loops of
`GetLookaheadJob`, `EncodePass1` the call of `VCEncStrmEncode` of the pass, `AwaitFrame` to
`RemoveFrames` the loop of `cuTreeThread` with `cuTreeHandleInputFrame` and
`process_one_frame`. A label that ends in `Gap` is a thread that has decided to sleep
and does not sleep yet: a signal sent then is lost if its sender does not take the mutex.

Of a picture the model keeps its number, the size of its GOP and its place in it. Left
out: cuTree in hardware, several cores or GOP sizes in pass 1, IDR intervals, spurious
wakeups. A failure of pass 2 is one that goes to the label `out`; the early returns of
`VCEncStrmEncodeExt` (from `hevcencapi.c:6647` on) do not give the job back.

### CoreWait

`pc`, `call` and the ring (`waitJobid`, `jobCnt`, `reservedCore`) belong to an instance,
which has one caller. `Encode` to `EWLEnqueueWaitjob` submit a frame, `TakeReport` and
`WaitForOutput` are `EWLDequeueCoreOutJob` with what its callers do next, the actions of
`WaitThread` follow `EWLCoreWaitThread`. `workers` keeps the order of the list, since
registers are found through its ends. `owner`, `running` and `pending` are the kernel and
the cores, which are external.

A reservation is two steps. `EWLReserveHw` is the ioctl and the note of the core in
`enc->reg.core_id` (`reg`), which takes no lock; `FindWorker` is the search of the free list
by that note. `FinishJob`, the first part of `EWLReleaseHw`, clears the same note without a
lock. If it comes in between, for another core of the same instance, the search finds
nothing and a NULL pointer joins the workers: `gone`, the process is dead. The release of a
core is three steps: `FinishJob` takes it from the workers, `GiveCoreBack` is the ioctl, after
which the kernel may lend it to anyone, and `MoveJob` puts the job among the answers. The
steps of the thread between the reset of the core and the end of `queue_put` are one action, as
none of them reads or writes anything a caller changes but under `ewl_mutex`. The free list
itself is what `owner` says is not lent.

`WaitFails` is an ioctl that fails at any time, or a wait that ends with nothing to tell.
`VCEncClear` takes any report for the last one of a frame (`hevcencapi_utils.c:111`);
`cutShort` remembers that it took the one of a slice. The frame is then at work while its
instance is freed, and the thread goes on to use the freed instance (`UseFreed`, which is
`gone` as well). This takes slices and several frames in flight, which nothing refuses:
`hevcencapi_utils.c:758` refuses segments. With one frame in flight every call waits for the
end of its own frame, and `VCEncClear` finds none.

Jobs are a set, since their order is never made use of, and answers are kept by
job. Left out: the reuse of the memory of jobs, the command buffer (VCMD), tiles,
re-encoding, a reservation that fails, `EWLReleaseHw` called by the caller after an error
(`hevcencapi_utils.c:4484`, `hevcencapi.c:5503`) and the failing update after a frame
(`hevcencapi.c:8324`). Instances are opened once.

### EncodeOrder and RefPictures

An encoder instance has one caller and calls do not overlap, so each call is one
action: `VCEncStrmEncode` or `VCEncFlush`, which plan again where the code does
(`Given`, `Flushed`), take the next job in encoding order (`Taken`), encode it (`Skip`,
`Start`, `StartAndWait`) and plan the next one (`Advanced`, `PutOff`). `FindNextPic` is
the function of that name. What interleaves is the frames in flight: up to
`cores - 1` frames are started and not finished, and the pictures they read and write
are not free.

`Gop` is the table of groups, `Setups` the ways an encoder may be set up.
`AGopDecision` computes the next size of a group from statistics; the model takes
any of the sizes. The decoder (`Deliver`) is external: it keeps the pictures the
reference picture set of a frame names, with the frame each of them shows. A frame
of the encoder carries in `reads` the frames its reference pictures held when it was
started.

Left out: everything but HEVC, GDR, interlaced input, conversion of the frame rate,
long-term and special pictures, flexible references, a group size given with a
picture, the limits of the job pool. Of the coding type only IDR or not is kept. A
picture uses at most one reference on each side, as the default tables do.

## 3. The runs

| run | question | bounds |
|---|---|---|
| `encoder_reorder` | are slots, sources, frames and bits kept matched under reordering? | 4 slots, 3 sources, 4 frames, a change of parameters that may be refused, window 2, delay 1, queues of 4, five faults; 903k states |
| `encoder_returns` | does every call return, and with the right frame, if anything fails? | 3 slots and sources, 3 frames, a change of parameters, window 1, queues of 2, nine faults; 1.2m states |
| `vdi_session` | does every call come back? | 3 threads in 2 processes, 2 calls each, failures and crashes; 159k states |
| `vdi_storm` | one thread at a time, with a device, counted, and no file forgotten? | the same threads, all faults and overlaps; 697k states |
| `vdi_teardown` (violation) | does a release tear down only its own session? | 2 threads of a process |
| `instances` | do openings and closings share the pool? | 3 contexts, 2 slots, 2 openings each; 320k states |
| `buffer_pool` | do free and access find their buffer? | 3 buffers and the common memory, 3 slots; 18k states |
| `data_queue` | is the ring a FIFO? | 3 slots, 2 items; 517 states |
| `lookahead` | do three threads carry each picture once, in order, and never hang? | 7 pictures of 9 announced, GOPs of 3, depth 2, delay 5, 2 buffers of each kind, four faults |
| `core_wait` | does each core serve its frame and each caller get its answer? | 2 instances, 2 cores, 3 jobs; one instance keeps 2 frames in flight and has slices, the other one 1; two faults; 387k states |
| `ref_pictures` | does the decoder have what each frame is predicted from? | nine setups, 12 pictures; 149k states |
| `ref_pictures_stale` (violation) | and with IDRs two pictures apart on two cores? | one setup, 8 pictures |

### Why the bounds are enough

*encoder*: reordering needs a picture that is overtaken by another one and a third that
takes a slot in the meantime; source indices must wrap while pictures are in flight.
Four frames through three sources do both, and a fourth slot tells slots from sources.
With a window of 2 results come in another order than the frames; `encoder_returns` has a
window of 1, since its question is about failures, and the reordering of `OutputMatches` is
covered by its theorem and by `KeepsLedger`.
`Rounds`, `HeaderWaits` and `HeaderRetries` are 100, 20 and 100 in the code; only
whether they are exhausted matters, which one or two suffice for.

*vdi*: two threads share a process and a third one does not, so that both kinds of
mutex are contended. Two or three calls allow a device to be opened again after
its teardown.

*instances*: one context more than slots, so that a search fails, finds a slot just
given back, and meets one being given back. Two failures exhaust the pool.

*buffers*: with the common memory one buffer more than slots. Four address ranges let
the kernel give a freed one out at once. Buffers, addresses and mappings are
interchangeable, and the properties are safety properties, so symmetry is sound.

*queue*: every position of `front` with every fill of the ring.

*lookahead*: seven pictures are the intra frame, two complete GOPs and nothing of the
third, so that a full GOP is analysed while another one is encoded, and the stream ends
before the last picture announced, so that the end is planned again. Two buffers of
CU information and two maps are fewer than a GOP, so that both threads wait for them.
`DelayAssumption` is what `EncInitLookAheadBufCnt` computes. The fault "inner" (pass 1
fails inside of a GOP) is left out of the run: with it `WrittenOnce` and `CallsReturn`
fail, as the anchor of the GOP is then analysed without its B pictures
(`sw_cu_tree.c:2452`).

*core wait*: one instance keeps two frames in flight and is told of slices, the other one
waits for each frame; with two cores and three jobs instances wait for each other's cores, a
frame fails with another one in flight and cores finish out of order. A core finishes while its
instance reserves another one, so that the note is lost, and a stream is stopped with the
report of a slice waiting: both exceptions of the properties are reached. Slices of the first job are
told of (`Slicing`), one at a time (`SliceMax`): a slice that is taken for the end of its frame needs one. The
fault "slow" is left out, as a wait that fails at any time ("ioctl") includes it.

*pictures*: twelve pictures hold three groups of four, an IDR in the middle of one and
the end of the stream in another one. The groups are the default ones of
`test_bench_utils.c:43-77`. The setups: adaptive groups; IDR intervals that cut
groups, to single pictures in a low-delay encoder; periodic IDRs that rate control skips; one
picture per group with frames skipped or discarded; two cores with groups of four and of one;
three cores, with IDRs and with one only. `idrGap` keeps forced IDRs on several cores far enough apart; nearer
ones are what `ref_pictures_stale` shows. With one picture in a group two cores need a
gap of 3, with four a gap of 4. `MayFlush` leaves out a flush with fewer than
`cores - 1` pictures given, where `VCEncMultiCoreFlush` takes a wrong frame for the oldest
(section 5).

### What the passing runs show

`encoder_reorder`: `PixelsIntact`, a slot is not reused before the firmware has read
it; `BitsIntact`, a report's bits are still there when it is fetched;
`InFlightAccounted`, between calls exactly the slots and sources in flight are occupied,
but for the slots abandoned by a refused change of parameters or a failed unmapping;
`KeepsLedger`, the refinement. `encoder_returns`: `OutputMatches`,
frame, buffer and bits that come back belong together, and `CallsReturn`: the one exception,
which the property names (`Refused`) and the run reaches, is a command that is refused for
ever. A change of parameters is, when nobody fetches the reports that fill the queue
(`AML_MultiEncoder.c:2279-2281`), or when other instances fill it; with `Refused` left out of
the property TLC finds such a loop at once.

`vdi_session`: `CallsReturn`, up to the first of the three events above or the death of the
holder of `vpu_mutex`. `vdi_storm`: `NoFileLeaked`, without any condition;
`MutualExclusion`, `SessionHasDevice`, `TasksCounted` and `AloneTearsDown` up to the first of
the three events, in one state space with all failures, overlaps, fresh pools and
crashes. `vdi_teardown`: `TeardownIsLast`, which the first overlap breaks.

`instances`: `OneOwner`, `InstanceIsWhole`, `SlotsAccounted`.

`buffer_pool`: `FreeFindsOwn`, although freed slots keep addresses that are given out
again; `AccessFindsOwn`, although the scan does not take the mutex; `NothingLeaked`.

`data_queue`: `QueueIsFifo`, `LentPointerStable`.

`lookahead`: `InEncodeOrder` and `FlushIsComplete`, what comes back is a beginning of the
stream in encoding order, and all of it after a flush; `JobsAccounted`, a job is in one
place and its node is given back once; `PoolsSuffice`; `CuInfoIntact`, pass 1 writes no CU
information over what is still to be read; `WrittenOnce`, a frame is written while it
has its job; `EndIsFinal`, nothing comes out after the end was told; `CallsReturn`, up to
the five ways in which the code does get stuck, which it names: a flush the lookahead
thread does not hear (`sw_cu_tree.c:2093`), a stop the application does not hear (`:2197`),
a stop that the second loop of `GetLookaheadJob` forgets (`:2258`), pass 1 waiting for CU
information that `cuTreeClear` has dropped (`:2769`), and the cuTree thread waiting for a map
nobody gives back (`:2844`).

`core_wait`: `OwnCore`, each core is started, read and reset for its own frame;
`CoresAccounted`, no core is lost or used twice, and a search finds the core that was lent,
except that an instance with several frames in flight may find none; `FramesAccounted`, no frame is
lost and nothing is kept for an instance that was freed, except that one with slices and several
frames in flight may be freed too early (`cutShort`); `AwaitedIsOldest`, with at most two frames
in flight; `TrueAnswers`, each answer is what its own core reported; `NoFrameIsKilled`, a core
is not reset at work; `CallsReturn`, unless the process dies of one of the two exceptions. The other
properties speak of the time before `cutShort`, since what follows is a use of freed memory. With the
exceptions left out of `CoresAccounted` and `FramesAccounted` TLC finds both.

`ref_pictures`: `SameReferences`, encoder and decoder predict a frame from the same
pictures; `BuffersIntact`, what a frame in flight reads and writes is not given away;
`BuffersSuffice`, the store never needs more pictures than were allocated; `NextIsToCome`,
the picture waited for is there or still to come, and a flush leaves none behind;
`IdrCutsTheOrder`, an IDR is coded after everything before it in the source.

Type invariants use up no run: those of `MultiEncoder`, `VdiSession`, `BufferPool`,
`InstancePool`, `CoreWait`, `RefPictures` (`TypeOk`) and the ring (`RingInv`) are proved.

### What the violations show

* `vdi_teardown`: `vdi_release` decides to tear the device down under `vpu_mutex`, and
  does so after it has let go of it; an opening in between loses its device
  (`vdi.c:369`, `:396-398`).
* `ref_pictures_stale`: `ref_pic_marking` resets the POC of a picture that is no
  reference any more, so that it is not used again, but only if no frame in flight holds
  it (`sw_parameter_set.c:1541`). Two cores, one picture per group, IDRs at 0 and 2: when the IDR 2
  is prepared, frame 1 is in flight and holds picture 0, which keeps POC 0.
  `get_picture` finds it before the new picture with POC 0, and frame 3 is
  predicted from frame 0, while the decoder has frame 2 there. The same happens with
  groups of four and forced IDRs 3 apart, and with three cores, groups of four and an IDR
  interval of 5 or 6.

### Fairness

`MultiEncoder`: weak fairness of the steps of a call (the thread runs), of the firmware
and of time. `TimePasses` stands for `osal_gettime` against `VPU_ENC_TIMEOUT`. Nothing makes
the caller call, and nothing makes an interrupt arrive: the calls must come back without
it. With the fault `slow` the firmware is not obliged to be done when a wait ends.

`VdiSession`: weak fairness of each thread inside of a call. Calls are bounded by
`CallMax`, so that a mutex given back again and again is in the end free for
whoever waits; no fairness of the mutex itself is assumed.

`Lookahead`: weak fairness of each of the three threads, of the application's only inside
of a call. `CoreWait`: weak fairness of the wait thread, of each caller inside of a call
and of the end of each frame; without "slow" and "ioctl" a wait fails only when nothing runs.
`InstancePool`, `BufferPool`, `DataQueue` and `RefPictures` have safety properties only.

Deadlock is checked where the models have an explicit end (`Terminating`). It is
switched off for `BufferPool` and `InstancePool`, where bounded callers or lost
buffers leave nothing to do, for `lookahead`, where the released encoder and the five
ways to get stuck end the behaviour, for `vdi_storm`, where crashes leave threads waiting for
good, and for `vdi_teardown`.

## 4. The proofs

All proofs hold for every value of the constants that the named assumptions allow.

| module | theorem | property | argument |
|---|---|---|---|
| `MultiEncoder_proofs` | `TypeCorrect` | `TypeInv` | per action, with lemmas on the queues |
| | `SlotsAreSafe` | `PixelsIntact` | below |
| | `SourcesAreSafe` | sources in flight are distinct and marked | part of it |
| | `BitsAreSafe`, `OutputsMatch` | `BitsIntact`, `OutputMatches` | below |
| | `FramesSettleOnce` | no frame is settled twice, no abandoned slot is used again | `FateInv` |
| | `NothingIsLost`, `LedgerIsKept` | `InFlightAccounted`, `KeepsLedger`, if no picture is lost | below |
| `VdiSession_proofs` | `TypeCorrect` | `TypeInv` | with `SawInv` |
| | `FilesAreKept` | `NoFileLeaked` | who is inside `vdi_init` holds `vid_mutex` |
| | `LockExcludes`, `SessionsAreServed`, `SessionsAreCounted`, `LastSessionCloses` | `MutualExclusion`, `SessionHasDevice`, `TasksCounted`, `AloneTearsDown` | below |
| `InstancePool_proofs` | `TypeCorrect` | `TypeInv` | the driver's count is that of a set of slots |
| | `SlotsAreExclusive`, `InstancesStayWhole`, `SlotsAreAccounted` | the three of `instances` | below |
| `BufferPool_proofs` | `TypeCorrect` | `TypeInv` | with the scan's bound |
| | `FreeIsOwn`, `AccessIsOwn` | `FreeFindsOwn`, `AccessFindsOwn` | below |
| | `NothingIsLeaked` | `NothingLeaked` | `LeakInv` |
| `DataQueue_proofs` | `RingRefinesFifo` | `QueueIsFifo` | step simulation under `RingInv` |
| | `LentPointerSafe` | `LentPointerStable` | `LentInv` |
| `Lookahead_proofs` | `CuInfoNeverOverwritten` | `CuInfoIntact` | `CuInv` |
| | `NothingAfterTheEnd` | `EndIsFinal` | `EndInv` |
| | `WrittenWithItsJob`, `JobsAreAccounted`, `ThePoolsSuffice` | `WrittenOnce`, `JobsAccounted`, `PoolsSuffice` under `Regular` | below |
| | `ComesInOrder`, `FlushGivesAll` | `InEncodeOrder`, `FlushIsComplete` under `Regular` | below |
| `CoreWait_proofs` | `TypeCorrect` | `TypeInv`, until `cutShort` | with the strengthening below |
| | `Invariance`, `CoresServeTheirFrames`, `NoCoreIsLost`, `NoFrameIsLost` | `OwnCore`, `CoresAccounted`, `FramesAccounted`, with the exceptions they name | below |
| | `AnswersAreTrue`, `NoCoreIsReset` | `TrueAnswers`, `NoFrameIsKilled` | below |
| | `TheOldestIsAwaited` | `AwaitedIsOldest` with at most two frames in flight | below |
| `RefPictures_proofs` | `TypeCorrect` | `TypeOk` | `IInv` |
| | `RefCountsExact`, `NothingOverwritten` | counts, `BuffersIntact` | below |
| | `OneCoreInStep` | `SameReferences` with one core and nothing discarded | below |
| | `InStepWhereFound`, `OneIdrInStep` | `SameReferences` with nothing discarded under `ReferencesFound`, and with one IDR | below |
| | `EnoughBuffers`, `EnoughForOneIdr`, `EnoughForOneCore` | `BuffersSuffice` under `FoundHeld`, with one IDR, and with one core | below |
| | `NothingPassedOver`, `IdrsCutTheOrder` | `NextIsToCome`, `IdrCutsTheOrder` with `Permuted` and nothing discarded | below |

**No slot is reused under the firmware.** `PixelsIntact` is not inductive: that a
report frees the slot of its picture and of no other one rests on the link from source
to slot. `FlightInv` says that a picture in flight keeps its slot and its source, up
to its report; `DistinctInv` that the sources in flight differ wherever the pictures
are; `LinkInv` that a source in flight is linked to its slot, unless it is the next
source and a new frame was already linked to it, and that it is never linked to the
slot of another picture; `StartInv` that a frame about to start has a slot to itself.
The proof holds for every set of faults.

**What is given back.** The bits of a picture are lost if something is encoded into its
bitstream buffer before they are fetched. Pictures in flight have buffers of their own, as their
sources differ; a header has the first one, and `HeadersLead` says that no picture is
in flight until the last header was fetched. `OutputMatches` compares the frame found through
the link of the reported source with the frame reported. `LinkInv` leaves one exception, the
next source, which a new frame may have taken over; `ResultsLinked` says that when results are
fetched there is none: that frame was either started, and then its source was free, or
refused, and then the call returned at once. The size of `SrcNum` does not matter: whoever comes
around to a source in flight is refused. Both hold for every set of faults.

**The account.** `FateInv` says that a frame in flight is taken and in one slot. `AccountInv`
is the converse: every frame taken, source marked and slot occupied belongs to a picture in
flight, or to the frame being started, or was abandoned. It holds as long as no picture is
lost: `Lossless` leaves out a frame that fails in the firmware ("encode", "vlc_full"), a wait
that times out ("time") and a reset that loses work ("reset"), after which the code frees
nothing; and `StartQueueFull` is left out, because the frame stays behind in its slot. These
exceptions are the code's (section 5). The other faults are allowed.

**The refinement of the ledger.** That no more than `Window - 1` frames overtake one is
an argument about source indices, since that is what the firmware's window counts. `Age` is
how many frames were started since, going around the sources. `OrderInv` says that in flight
younger sources have later frames, and `Close` that the window holds among what was
fetched and what is still held, `CountInv` that a frame in flight was overtaken by no more
frames than it is old. The retirement of a frame is then a `Return` of `FrameLedger`, and the
other steps are `Take`, `Refuse` or stutter.

**Sessions.** Nothing is assumed of the faults. The invariant is `FileInv` and, as long as
`AllWell`, `SessionInv`; `amiss` never shrinks, so a step that leaves all well
began with all well, and was none of the three events. `VpuInv` says who holds
`vpu_mutex`, `PoolInv` that the mutexes were made before any thread takes one, `CountInv`
that `task_num` is the number of sessions up to those being counted, `DeviceInv` that the
device is there while one is open, `CallInv` that no opening overlaps a closing. A failed
opening (`Failed`) closes the device alone, without a session in its process. After one of
the events `vdi_teardown` is a counterexample.

**Instances.** `LockInv` ties the mutex to the places in the code; `UseInv` says
that the slot of a context is in use and not one left behind, and that a slot
about to be taken is free; `OpenInv` that what belongs to a slot is there as long as
its context needs it. Since `FreeCodecInstance` clears `inUse` last, a slot that can be
found has no word left to be cleared.

**Buffers.** `KernelInv`: live buffers have distinct addresses. `SlotInv`: no slot
before one in use shows the same address, although free slots keep theirs; it holds
because a buffer is recorded in the first free slot, which `FillInv` keeps
until it is marked. `HoldInv`: the pool knows a buffer, or no slot at all shows its
address. `ScanInv`: a scan has not passed the slot it is after.
`LeakInv`: what the kernel has given out belongs to a buffer that is not freed yet, up to the
steps between `Free`, `GiveMemory` and `Unmap`, or a buffer was lost.

**The ring.** `RingInv`: the indices and the count agree and every waiting slot holds an
item. The abstract queue is the function that reads the slots from `front`; each
operation maps to a step of `Fifo` or to a stutter.

**Lookahead.** `CuInv` counts the buffers of CU information by the place of their pictures
(being written, queued, being read); pass 1 claims one only below `CuBufs`. `EndInv`
says that once the status is `CUTREE_FLUSH_END` the cuTree thread is past its last frame,
so that only outputs that are no pictures can follow.

The three facts about jobs need to know what is where, along the whole pipeline. `Regular` is
their assumption: pass 1 does not fail inside of a GOP, the depth is at least two and at least
half a GOP. In the cases it excludes the code writes a frame twice (sections 3 and 5).
`Pass1Inv` says which picture the lookahead thread wants next, that no picture of it is missing
unless it is still to come, and that a GOP is planned again only when none of it was
analysed. `ControlInv` is about the statuses and the places of the threads: who has been stopped,
who has seen it, and that a flush begins at the end of a GOP. `FramesInv` is the shape of
the cuTree queues: what waits is a piece of the encoding order (`Chain`), the queue is in
display order and holds at most an open GOP besides the GOPs that are complete (`Shape`), and
what is about to be written is the head of the queue with its B pictures and has its
jobs (`ToBeWritten`): this is `WrittenOnce`. `TokenInv` then says that the
seven places where a job may be are disjoint, and before a stop add up to the jobs in use.
`PoolInv` counts them: the application takes an output before it adds one picture more than
`lookaheadDelay`, so that no more are inside. `QueueInv` bounds the queue by the depth and half a GOP.

The order of what comes back is one statement over all the queues. `Encoded(n, i)` is the
picture that a stream of `n` pictures encodes at place `i`: GOPs of `Gop` while they fit, then
of four and of the rest, each with its anchor first. `Planned` says that the lookahead thread goes through the
GOPs (`Cut`) of the stream announced or, once the end is known, of what came; it may plan a GOP
again when the flush finds the stream shorter, and `OrderShorter` shows that what was
encoded keeps its place. `InStream` says that the complete GOPs the cuTree thread holds are GOPs of
that stream, up to the newest. `EmittedInv` then counts: what came out so far is the
beginning of the order that ends where the head of the cuTree queue, or what is being
written, begins. `OutputInv` carries that through the queue of outputs, `ReturnedInv` through
pass 2 to the application, and `EndOfStream` says that pass 1 ends with the last picture that
came, so that the flush that finds no more output has had them all. All this holds as long as nothing failed that the application
was told of; once something did nothing more is returned than what pass 2 already had.

**Cores.** The invariant holds until `cutShort`, which no step undoes, so that a step that
leaves it false began with it false. `CutBySlices` says who may bring it about: an instance
with slices and several frames in flight; that is the exception of `NoFrameIsLost`, and without such
an instance everything below holds for good. `CoreInv` has the two properties in parts:
`CoresOnce`, no core is a worker twice; `CoresUsed`, what is lent is a worker or on its way there
or back; `CoresNoted`, a note in the registers names the core just lent or, with several
frames in flight, none; `OwnLast` and `OwnFirst`, the frame being submitted has its core at
the head of the workers and the job at hand at the tail. With them go `WorkersUsed`, each worker
is there for a job waiting or for the frame being submitted, and `JobsHaveCores`.
With one frame in flight nobody clears the note: another core of that instance would have to be
given back, and then a frame of it would be in flight, while `CountInv` says that none is.
A search that fails changes nothing but `gone`, so the theorems do not depend on its success.
`WalkInv`: the job at hand is waiting, and has its core until that is given back. `IdInv`: the kernel
numbers each job once, so that jobs, answers and frames in flight can be compared by
number. `FrameInv`: a job waiting is in flight, a frame in flight has its place in the ring,
an answer belongs to a frame in flight. `LastInv`: a final answer is the last one of its
frame. `CountInv`: `reservedCore` is the number of frames in flight and `referCounter`
that of instances open, so that `VCEncClear` and the last release find nothing
left. `SliceInv`: only those who asked for slices are told of any.

`AnswerInv` follows an answer from the core to the caller: a core at work has not told how
its frame ends (`RunningInv`), what the kernel tells of a core it has lent is how
its frame ended (`ToldInv`), and a number not yet given out has no answer (`ReservedInv`). A core
is reset when the thread has been told of its end; that is `NoFrameIsKilled`, as a core
that was told of is not at work. `TheOldestIsAwaited` needs none of this, nor an exception:
`AwaitInv` is about the caller alone, who takes job numbers in increasing order and shares its
ring with nobody. It says what the ring of an instance holds when one or two
frames are in flight. With three and more it is false, and `AwaitedIsOldest` claims nothing: a
flush of an instance with fewer frames in flight than it may have awaits an index
that holds none (section 5).

**Pictures.** `PoolOk`: every picture is in the store, a frame in flight names pictures that
show what it reads and writes, `ref_cnt` is exactly the number of frames in flight
that use a picture, and a picture marked as a reference has a POC. A free picture has count 0,
so that it is none of theirs. With one core no frame is in flight between calls, so every
picture that is dropped loses its POC, and `InStep` says that the decoder has each
picture the encoder can find, with the same frame: hence `SameReferences`, for any table
of groups. With several cores that fails (`ref_pictures_stale`).

**Several cores.** `Ahead` says what the decoder will have when a frame in flight comes to it:
`Will(flight, dec, i, q, c)` is that frame `c` is then there under POC `q`, because the decoder
has it or a frame before the `i`-th writes it, and all frames after that one keep it and
write no other under its POC. Each frame in flight will find what it reads, and the
frame after them every reference of the encoder. A new frame keeps only
references, and its own POC is not among those it names, so `Ahead` survives a
start; when the oldest frame goes into the stream everything moves up by one. All it needs
is `ReferencesFound`: the POC of a reference finds a reference, and none that was dropped. Hence
`InStepWhereFound`. With one IDR (`OneIdr`: no interval, none forced, nothing discarded) the POC of a
picture is its count, jobs are taken once, so no two pictures of the store that have
a POC have the same (`Distinct`): `ReferencesFound` holds, and so do `OneIdrInStep`
and `EnoughForOneIdr`. TLC finds `ReferencesFound` in all setups of `ref_pictures`; where it
fails is `ref_pictures_stale`.

**The picture memory.** `create_picture` never asks whether there is memory for the picture it
makes. `VCEncInit` allocates as many as the application asked for references, and one for each
core. `AmountAssumed` says that the application asks for as many as any picture of its groups
names, which is how the test bench counts them (`test_bench.c:2033-2053`). `RpsCounted`: a
frame keeps no more pictures than that, since each reference that is missing is
replaced at most once. What the `i`-th frame in flight and the ones after it keep busy is
what was kept when the `i`-th was started, and what they write: `CoveredBy` bounds the
first (`Needed`) by that amount, and survives a start because a frame keeps only pictures that
were references before. `AllInUse`: when no picture is free, all are needed by the
oldest frame or written by one in flight, so that another one fits. The step of `CoveredBy`
needs `FoundHeld`: while frames are in flight, the POC of a reference finds a reference, and none that was
dropped. With no frame in flight it asks nothing, hence `EnoughForOneCore`; with one IDR it holds. In the
setups of `ref_pictures` it holds; with three cores and an IDR at every picture TLC finds the
dropped picture of `ref_pictures_stale` marked again, and the store one picture larger than
its memory.

**The order.** `Permuted` is the assumption: a table of groups names each picture of the
group once and the last one first, as the default tables do (the reader of a
configuration file checks only the range, `test_bench_utils.c:3757`). `Coded` is the set
of pictures that are coded once a picture is: all up to the base of its group, and the
members of the group up to its place. `NextPlace` follows `FindNextPic` through its cases and
`NextFollows` concludes that the next picture adds one to that set, is an IDR
exactly when it is `nextIdrCnt`, and that a new group ends before the next IDR and
before the end of the stream, or has one picture. `Turn` is the
invariant: the queue holds the pictures submitted less those coded with the last one, an
IDR that waits is no earlier than `nextIdrCnt`, and the picture that comes next
follows the last one. A forced IDR and an early end change what follows, and the encoder
plans again from the last picture; that it need not when a group has begun rests on
the last picture of a group coming first, so that the whole group was submitted.

**What stays with TLC**: liveness (every `CallsReturn`); `SameReferences` with several
cores and several IDRs, where `ReferencesFound` depends on the table of groups and the gaps
between the IDRs, or where frames are discarded;
`NextIsToCome` and `IdrCutsTheOrder` where frames are discarded. Nothing is claimed of the frame
that is awaited with three and more frames in flight, nor of what the wrapper layer does after
`VCEncClear` took a slice for a frame: the code breaks both.

## 5. What is not modelled

* `AML_MultiEncInitialize` is only the context it leaves (`Init`), and pixels are not copied
  one by one.
* The timer that stays set after a timeout (`:825`); `timer` may lapse early anyway.
* Slots of the buffer pool that are read half written, and memory order in general.
* Uninitialised pointers (`vpuapi.c:459`).
* `Queue_Copy` and the linked list of `datastructure.c`.
* Registers, bit fields, rate control, header parsing, file formats, firmware images:
  data and sequential code.
* The other encoder libraries of the repository.
* Of `vcenc`: the command buffer, tiles, re-encoding, long-term references, GDR,
  interlaced input, AV1 and VP9, headers, rate control; two passes over several cores.

Divergences met on the way that no run shows, either because the model takes the code's
behaviour as it is or because its bounds keep out of it:

* On `RETCODE_QUEUEING_FAILURE` the comment says "Just retry", but with pictures in flight
  the call fetches one and the frame is never submitted (`AML_MultiEncoder.c:2299`).
* Once a frame is offered while the next source index is still in use, because results lag
  behind, `AML_MultiEncNAL` fails before it fetches a result (`:2308`, `vpuapi.c:903`). That
  source is then never retired, and every later frame is refused until the release.
* A refused change of parameters leaves the slot of the frame occupied (`:2283-2287`), and so
  does a DMA buffer that cannot be unmapped (`vpuapi.c:1070`).
* The loop that repeats `ENC_SET_PARA_CHANGE` while the queue is full never fetches a
  report (`:2279-2281`), nor do the retries of a submission (`:2303`, `:2495`); `CallsReturn`
  names them.
* A source whose encoding failed stays in `srcBufUseIndex`; later frames of that index
  are refused as "already in encoding" (`vpuapi.c:903`).
* An address of a buffer that a full pool did not record is not refused, because the test
  looks at the copy of the last slot in use (`vdi.c:1038`).
* With three or four cores and fewer than `parallelCoreNum - 1` frames in flight
  `VCEncMultiCoreFlush` awaits an index of the ring that holds no frame
  (`hevcencapi.c:8413`); a frame that fails in a flush does not move the index (`:8459`).
* `bFlush` of the wait thread is never reset: a process that opens an instance after the last one
  was released gets no answer (`ewl.c:1349`).
* `VCEncClear` takes the report of a slice for the last one of its frame
  (`hevcencapi_utils.c:111`); with several frames in flight the instance is freed while one is
  encoded, and the wait thread goes on to use it. `hevcencapi_utils.c:758` refuses segments with
  several cores, not slices. The properties name this (`cutShort`, `gone`).
* `EWLReserveHw` notes the core it was lent in `enc->reg.core_id` (`ewl.c:2844`) and looks for
  it by that note (`:2857`). `EWLReleaseHw`, in which the wait thread gives back another core of
  the same instance, sets it to -1 without a lock (`:2904`). If that comes in between, the
  search ends with NULL, which `queue_put` is given. `CoresAccounted` and `CallsReturn` name this.
* A frame discarded for an overflow with several cores is a reference of frames started
  since, which the decoder cannot decode (`hevcencapi.c:8221`).
* A frame skipped or discarded in a group with B pictures passes its place to the next of
  the source, which may have been coded already: no later call finds its job
  (`:6366`). A skipped IDR puts off the next IDR, one that the application forces too
  (`:6372`), so that a group crosses it; and a flush, or an IDR forced just after, plans the
  group again from the skipped picture (`:6276`, `:6299`) and may pass one over (`astray`).
* A GOP larger than the lookahead depth allows is written twice (`sw_cu_tree.c:1969`).

## 6. The plan

Done, in this order: `DataQueue` over `Fifo`; `MultiEncoder` over `FrameLedger`;
`VdiSession`; `BufferPool`; `InstancePool`; `Lookahead`; `CoreWait`; `RefPictures` over
`EncodeOrder`; the proofs of each.

Next, the model:

1. `RefPictures` with long-term references and the marking of H.264, and frames
   discarded on several cores.
2. `EncoderSetup`: `AML_MultiEncInitialize` with its `fail_exit` (no `VPU_DeInit`, one
   `VPU_EncClose` without the retries, a GE2D failure returned as a handle), composed
   of the sessions, instances and buffers above. Abstract specification: all or nothing.
3. `VpuInterrupt`: `vdi_wait_interrupt`, `Vp5VpuCheckInterrupt` and
   `VPU_ClearInterrupt` over the shared words of reasons. What it promises depends on
   the interrupt handler of the kernel driver, which is not in the repository.
4. `EncoderFrontEnd`: the key-frame request of `libvpmulti_codec.c` over `FrameLedger`.
5. `ComponentPorts`: threads, ports and queues of the sample framework over `Fifo`.

Then the proofs: how far apart IDRs must be for `ReferencesFound`, by the number of cores and
the references of the groups.
