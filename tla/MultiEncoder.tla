----------------------------- MODULE MultiEncoder -----------------------------
(***************************************************************************)
(* One encoder context of multiEnc/amvenc_lib/AML_MultiEncoder.c over the  *)
(* source-frame bookkeeping of multiEnc/vpuapi/vpuapi.c, with the VPU      *)
(* firmware and the kernel's interrupt queue as the environment.           *)
(*                                                                         *)
(* A frame travels through two indirections.  AML_MultiEncSetInput puts it *)
(* in a slot (its pixels, its bitstream buffer, its FrameIO record), and   *)
(* links the next source index, which increases linearly, to that slot.    *)
(* The firmware only ever names a frame by its source index, and with      *)
(* reordering reports frames in another order than it received them.       *)
(*                                                                         *)
(* The caller serializes the calls of one context; a call is several       *)
(* steps, between which the firmware and the interrupt handler run.        *)
(***************************************************************************)
EXTENDS Integers, Sequences, FiniteSets

CONSTANTS SlotNum,      \* ENC_SRC_BUF_NUM
          SrcNum,       \* ctx->src_num: what the firmware needs, plus 2
          Window,       \* later sources the firmware may take before it must encode one
          HoldBack,     \* pictures the firmware delays output by (the GOP's reordering)
          QueueDepth,   \* commands, and reports, the firmware queues for one instance
          Rounds,       \* 100: waits of AML_MultiEncNAL before it asks for a result anyway
          HeaderWaits,  \* 20: waits of AML_MultiEncHeader before it asks anyway
          HeaderRetries,\* 100: times AML_MultiEncHeader starts over
          IrqMax,       \* bound: completions the kernel can hold for the instance
          FrameMax,     \* bound: frames the caller submits
          ChangeMax,    \* bound: parameter changes the caller makes
          Faults        \* what may go wrong in the environment

\* The firmware: encode, a picture fails; vlc_full, its bits overflow the buffer of the
\* core; bs_full, the buffer of the bitstream is reported full; start and param, a picture
\* or a parameter change is refused; queue_full, a command is refused as if the queue were
\* full; close, VPU_EncClose fails and the firmware goes on; slow, a command may take for
\* ever; reset, a reset of the core loses what the firmware was given.
\* Its surroundings: memory, an allocation fails; scale, the scaling of a frame is refused;
\* unmap, a DMA buffer of the caller cannot be unmapped; time, a wait may last
\* VPU_ENC_TIMEOUT; irq_twice, an interrupt is seen again.
FaultKinds == {"encode", "vlc_full", "bs_full", "start", "param", "memory", "scale", "unmap",
               "queue_full", "slow", "reset", "time", "irq_twice", "close"}

ASSUME BoundsAssumption ==
    /\ {SrcNum, QueueDepth, Rounds, IrqMax, FrameMax} \subseteq Nat \ {0}
    /\ {Window, HoldBack, ChangeMax, HeaderWaits, HeaderRetries} \subseteq Nat
    /\ SlotNum \in Nat /\ SrcNum <= SlotNum
ASSUME FaultsAssumption == Faults \subseteq FaultKinds

Slot == 0 .. SlotNum - 1
Src == 0 .. SrcNum - 1
Frame == 1 .. FrameMax
NoFrame == 0
HeaderBits == FrameMax + 1      \* what a bitstream buffer holds after a header command

VARIABLES
    \* AMVMultiCtx
    busy,       \* the slots with encodedSrcFrmIdxArr set
    frameIO,    \* FrameIO by slot: the frame last put there, its pixels included
    memOf,      \* encMEMSrcFrmIdxArr: the slot a source index is linked to
    mem,        \* the slots with pFbSrcMem allocated
    bs,         \* the slots with a bitstream buffer allocated
    srcIdx,     \* encParam.srcIdx: the next source index
    change,     \* param_change_flag
    started,    \* frameIdx # 0
    timer,      \* startTimeout: off, armed, or armed more than VPU_ENC_TIMEOUT ago
    \* EncInfo
    srcInUse,   \* the source indices with srcBufUseIndex set
    \* the call in progress
    pc, tries,
    \* the caller
    offered,    \* frames submitted so far
    changes,    \* parameter changes made so far
    headerDone, \* mSpsPpsHeaderReceived
    fate,       \* what became of each frame, as the caller sees it
    output,     \* the last output: the frame given back, the frame the firmware
                \* encoded, and the frame whose bits were read
    \* the firmware and the interrupt path
    queue,      \* commands queued
    held,       \* the pictures taken from it and not yet encoded
    reports,    \* results not yet asked for
    bits,       \* the frame whose bits each bitstream buffer holds
    done,       \* the instance's done bit, with the interrupt not yet taken by the kernel
    irq         \* completions the kernel holds for VPU_WaitInterruptEx

ctxVars == <<busy, frameIO, memOf, mem, bs, srcIdx, change, started>>
callVars == <<pc, tries>>
callerVars == <<offered, changes, headerDone, fate, output>>
workVars == <<queue, held, reports, bits>>
irqVars == <<done, irq>>
vars == <<ctxVars, timer, srcInUse, callVars, callerVars, workVars, irqVars>>

Header == [kind |-> "header"]
Change == [kind |-> "change"]
Flush == [kind |-> "flush"]
Pictures == [kind : {"pic"}, src : Src, slot : Slot, frame : Frame]
Commands == {Header, Change, Flush} \cup Pictures
\* A result for a picture carries the picture; the others are told by their kind alone:
\* RECON_IDX_FLAG_HEADER_ONLY, _CHANGE_PARAM, _ENCODE_DELAY, an encoding failure.
Reports == Pictures \cup [kind : {"header", "change", "delay", "fail", "vlc_full"}]

Init == /\ busy = {} /\ mem = {} /\ bs = {0}
        /\ frameIO = [s \in Slot |-> NoFrame]
        /\ memOf = [x \in Src |-> 0]
        /\ srcIdx = 0
        /\ change = FALSE /\ started = FALSE
        /\ timer = "off"
        /\ srcInUse = {}
        /\ pc = "idle" /\ tries = 0
        /\ offered = 0 /\ changes = 0 /\ headerDone = FALSE
        /\ fate = [f \in Frame |-> "new"]
        /\ output = [frame |-> NoFrame, coded |-> NoFrame, bits |-> NoFrame]
        /\ queue = << >> /\ held = {} /\ reports = << >>
        /\ bits = [s \in Slot |-> NoFrame]
        /\ done = FALSE /\ irq = 0
-----------------------------------------------------------------------------
(* The steps calls are made of *)

Return == pc' = "idle" /\ tries' = 0
GoTo(label) == pc' = label /\ tries' = 0

HasRoom == Len(queue) < QueueDepth
\* The queue is full, or another instance's commands fill it.
QueueRefuses == ~HasRoom \/ "queue_full" \in Faults
Issue(cmd) == queue' = Append(queue, cmd) /\ UNCHANGED <<held, reports, bits>>

TakeReport == reports' = Tail(reports) /\ UNCHANGED <<queue, held, bits>>

\* VPU_SWReset resets the core between a sleep and a wake of the firmware: what was
\* queued and not yet reported may survive that or not.
LoseWork == /\ queue' = << >> /\ held' = {} /\ reports' = << >> /\ done' = FALSE
            /\ UNCHANGED <<bits, irq>>
SWReset == ("reset" \in Faults /\ LoseWork) \/ UNCHANGED <<workVars, irqVars>>
TakeReportAndReset == ("reset" \in Faults /\ LoseWork) \/ (TakeReport /\ UNCHANGED irqVars)

\* goto retry_point and flush_retry_point: nothing limits these retries, and tries only
\* tells one from the next.
TryAgain == /\ QueueRefuses
            /\ tries' = IF tries = 0 THEN 1 ELSE 0
            /\ UNCHANGED <<ctxVars, timer, srcInUse, pc, callerVars, workVars, irqVars>>

\* HandlingInterruptFlag found an interrupt: it is taken and the timer switched off.
TakeInterrupt == /\ irq > 0
                 /\ irq' = irq - 1
                 /\ timer' = "off"
                 /\ UNCHANGED done

WaitInVain_RestartsTimer == irq = 0 /\ timer' = "armed"
\* HandlingInterruptFlag waited in vain; it arms the timer if it was off.
WaitInVain == /\ irq = 0
              /\ timer # "lapsed"
              /\ timer' = "armed"

TimedOut == irq = 0 /\ timer = "lapsed" /\ UNCHANGED timer

\* VPU_CheckInterrupt looks at the done bit itself; the kernel may be taking the
\* same interrupt while it does.
PollDone == /\ done
            /\ done' = FALSE
            /\ \/ UNCHANGED irq
               \/ "irq_twice" \in Faults /\ irq < IrqMax /\ irq' = irq + 1
PollNothing == ~done /\ UNCHANGED irqVars

\* The last wait is over.  A call waits for seconds, so that the firmware finishes a
\* command in that time unless it is slow.
GiveUp == queue = << >> \/ Len(reports) = QueueDepth \/ "slow" \in Faults
-----------------------------------------------------------------------------
(* AML_MultiEncHeader: before the first frame, repeated by the caller until it *)
(* succeeds                                                                    *)

HeaderCall == /\ pc = "idle" /\ ~headerDone
              /\ GoTo("header")
              /\ UNCHANGED <<ctxVars, timer, srcInUse, callerVars, workVars, irqVars>>

HeaderIssue ==
    /\ pc = "header"
    /\ \/ /\ HasRoom
          /\ Issue(Header)
          /\ pc' = "header_wait" /\ UNCHANGED tries
       \/ /\ QueueRefuses
          /\ UNCHANGED workVars
          /\ IF tries >= HeaderRetries THEN Return ELSE tries' = tries + 1 /\ UNCHANGED pc
    /\ UNCHANGED <<ctxVars, timer, srcInUse, callerVars, irqVars>>

HeaderWait ==
    /\ pc = "header_wait"
    /\ \/ TakeInterrupt /\ pc' = "header_fetch" /\ UNCHANGED <<tries, workVars>>
       \/ TakeInterrupt /\ "bs_full" \in Faults /\ Return /\ UNCHANGED workVars
       \/ /\ WaitInVain
          /\ UNCHANGED workVars
          /\ \/ PollDone /\ pc' = "header_fetch" /\ UNCHANGED tries
             \/ /\ PollNothing
                /\ tries' = tries + 1
                /\ IF tries >= HeaderWaits THEN GiveUp /\ pc' = "header_fetch" ELSE UNCHANGED pc
       \/ /\ TimedOut
          /\ IF tries < HeaderWaits
             THEN tries' = tries + 1 /\ pc' = "header_fetch" /\ UNCHANGED <<workVars, irqVars>>
             ELSE Return /\ SWReset
    /\ UNCHANGED <<ctxVars, srcInUse, callerVars>>

HeaderAgain == pc' = "header" /\ tries' = tries + 1

HeaderFetch ==
    /\ pc = "header_fetch"
    /\ UNCHANGED <<ctxVars, timer, srcInUse, offered, changes, fate, output>>
    /\ \/ /\ reports = << >>
          /\ IF tries < HeaderRetries THEN HeaderAgain ELSE Return
          /\ UNCHANGED <<headerDone, workVars, irqVars>>
       \/ /\ reports # << >>
          /\ Head(reports).kind = "fail"
          /\ UNCHANGED headerDone
          /\ IF tries > HeaderRetries THEN Return /\ TakeReportAndReset
             ELSE HeaderAgain /\ TakeReport /\ UNCHANGED irqVars
       \/ /\ reports # << >>
          /\ Head(reports).kind # "fail"
          /\ headerDone' = TRUE
          /\ Return /\ TakeReport /\ UNCHANGED irqVars
-----------------------------------------------------------------------------
(* AML_MultiEncSetInput and the parameter changes: no call of the VPU *)

FreeSlots == Slot \ busy

FirstOf(slot, slots) == slot \in slots /\ \A t \in slots : slot <= t

Picks_IgnoresBusy(slot) == FirstOf(slot, IF mem # {} THEN mem ELSE FreeSlots)
\* The first free slot with pixel memory, or else the first free one.
Picks(slot) == FirstOf(slot, IF FreeSlots \cap mem # {} THEN FreeSlots \cap mem ELSE FreeSlots)

OfferedNow(verdict) == fate' = [fate EXCEPT ![offered + 1] = verdict]
\* What the caller hears of a frame later; of a frame no longer taken it should hear nothing.
Settle(f, verdict) ==
    fate' = [fate EXCEPT ![f] = IF @ = "taken" THEN verdict ELSE "settled again"]

CallerMayOffer == pc = "idle" /\ headerDone /\ offered < FrameMax

Link_NewOnly(slot) == memOf' = IF slot \in bs THEN memOf ELSE [memOf EXCEPT ![srcIdx] = slot]
Link(slot) == memOf' = [memOf EXCEPT ![srcIdx] = slot]

\* copied: the pixels are copied to the slot's own memory; otherwise they are in a
\* DMA buffer of the caller.
SetInput(slot, copied) ==
    /\ CallerMayOffer
    /\ Picks(slot) /\ slot < SrcNum
    /\ offered' = offered + 1
    /\ mem' = IF copied THEN mem \cup {slot} ELSE mem
    /\ frameIO' = [frameIO EXCEPT ![slot] = offered + 1]
    /\ Link(slot)
    /\ \/ /\ busy' = busy \cup {slot}
          /\ bs' = bs \cup {slot}
          /\ OfferedNow("taken")
          /\ GoTo("start")
       \/ /\ "memory" \in Faults /\ slot \notin bs
          /\ OfferedNow("refused")
          /\ UNCHANGED <<busy, bs, callVars>>
    /\ UNCHANGED <<srcIdx, change, started, timer, srcInUse, changes, headerDone, output,
                   workVars, irqVars>>

\* A copied frame that cannot be scaled has its slot's memory by then, one in a DMA buffer
\* needs none.
SetInputRefused ==
    /\ CallerMayOffer
    /\ \/ FreeSlots = {} /\ UNCHANGED mem
       \/ \E slot \in Slot :
             /\ Picks(slot)
             /\ \/ slot >= SrcNum /\ UNCHANGED mem
                \/ "memory" \in Faults /\ slot \notin mem /\ UNCHANGED mem
                \/ "scale" \in Faults /\ slot < SrcNum /\ mem' \in {mem, mem \cup {slot}}
    /\ offered' = offered + 1
    /\ OfferedNow("refused")
    /\ UNCHANGED <<busy, frameIO, memOf, bs, srcIdx, change, started, timer, srcInUse, callVars,
                   changes, headerDone, output, workVars, irqVars>>

\* AML_MultiEncChangeBitRate and its siblings
ChangeParam ==
    /\ pc = "idle" /\ headerDone /\ changes < ChangeMax
    /\ changes' = changes + 1
    /\ change' = TRUE
    /\ UNCHANGED <<busy, frameIO, memOf, mem, bs, srcIdx, started, timer, srcInUse, callVars,
                   offered, headerDone, fate, output, workVars, irqVars>>
-----------------------------------------------------------------------------
(* AML_MultiEncNAL *)

\* The slot of the frame being started, by the link SetInput made.
StartedSlot == memOf[srcIdx]

\* ENC_SET_PARA_CHANGE.  When the change is refused the call fails before its frame is
\* submitted, and leaves the frame in its slot.
SendChange ==
    /\ pc = "start" /\ change
    /\ \/ HasRoom /\ Issue(Change) /\ change' = FALSE /\ GoTo("start") /\ UNCHANGED fate
       \/ /\ "param" \in Faults
          /\ Settle(frameIO[StartedSlot], "abandoned")
          /\ Return /\ UNCHANGED <<change, workVars>>
    /\ UNCHANGED <<busy, frameIO, memOf, mem, bs, srcIdx, started, timer, srcInUse, offered,
                   changes, headerDone, output, irqVars>>

\* With the queue full the change is tried again, and no report is fetched meanwhile.
SendAgain == pc = "start" /\ change /\ TryAgain

Starting == pc = "start" /\ ~change

NextSrc(x) == IF x + 1 >= SrcNum THEN 0 ELSE x + 1

FreeSlot(slot) == busy' = busy \ {slot}

\* VPU_EncStartOneFrame refuses a source index that is still in use.
SrcRefused == srcIdx \in srcInUse

StartOneFrame ==
    /\ Starting /\ ~SrcRefused /\ HasRoom
    /\ Issue([kind |-> "pic", src |-> srcIdx, slot |-> StartedSlot,
              frame |-> frameIO[StartedSlot]])
    /\ srcInUse' = srcInUse \cup {srcIdx}
    /\ started' = TRUE
    /\ srcIdx' = NextSrc(srcIdx)
    /\ GoTo("wait")
    /\ UNCHANGED <<busy, frameIO, memOf, mem, bs, change, timer, callerVars, irqVars>>

\* RETCODE_QUEUEING_FAILURE: with something of its own queued the call goes on to wait for
\* that, with nothing queued it tries again.
StartQueueFull ==
    /\ Starting /\ ~SrcRefused /\ QueueRefuses
    /\ queue # << >>
    /\ GoTo("wait")
    /\ UNCHANGED <<ctxVars, timer, srcInUse, callerVars, workVars, irqVars>>

StartAgain == Starting /\ ~SrcRefused /\ queue = << >> /\ TryAgain

FailedSlot_Previous == memOf[(srcIdx + SrcNum - 1) % SrcNum]
FailedSlot == memOf[srcIdx]

StartFailed ==
    /\ Starting
    /\ SrcRefused \/ "start" \in Faults
    /\ FreeSlot(FailedSlot)
    /\ Settle(frameIO[FailedSlot], "refused")
    /\ Return
    /\ UNCHANGED <<frameIO, memOf, mem, bs, srcIdx, change, started, timer, srcInUse, offered,
                   changes, headerDone, output, workVars, irqVars>>

LastWait == tries + 1 >= Rounds

Wait ==
    /\ pc = "wait"
    /\ \/ TakeInterrupt /\ GoTo("fetch") /\ UNCHANGED workVars
       \/ TakeInterrupt /\ "bs_full" \in Faults /\ Return /\ UNCHANGED workVars
       \/ /\ WaitInVain
          /\ UNCHANGED workVars
          /\ \/ PollDone /\ GoTo("fetch")
             \/ /\ PollNothing
                /\ IF LastWait THEN GiveUp /\ GoTo("fetch")
                   ELSE tries' = tries + 1 /\ UNCHANGED pc
       \/ TimedOut /\ SWReset /\ Return
    /\ UNCHANGED <<ctxVars, srcInUse, callerVars>>

Fetching(kinds) == pc = "fetch" /\ reports # << >> /\ Head(reports).kind \in kinds

\* RETCODE_REPORT_NOT_READY
FetchNothing ==
    /\ pc = "fetch" /\ reports = << >>
    /\ Return
    /\ UNCHANGED <<ctxVars, timer, srcInUse, callerVars, workVars, irqVars>>

\* A header's or a parameter change's report: wait for the next one.
FetchAgain ==
    /\ Fetching({"header", "change"})
    /\ TakeReport
    /\ GoTo("wait")
    /\ UNCHANGED <<ctxVars, timer, srcInUse, callerVars, irqVars>>

FetchDelay ==
    /\ Fetching({"delay"})
    /\ TakeReport
    /\ Return
    /\ UNCHANGED <<ctxVars, timer, srcInUse, callerVars, irqVars>>

\* The encoding of a picture failed; the report names no source.  All failures but a
\* full VLC buffer reset the core.
FetchFailed ==
    /\ Fetching({"fail", "vlc_full"})
    /\ IF Head(reports).kind = "fail" THEN TakeReportAndReset ELSE TakeReport /\ UNCHANGED irqVars
    /\ Return
    /\ UNCHANGED <<ctxVars, timer, srcInUse, callerVars>>

Retire_Never(src) == UNCHANGED srcInUse
\* VPU_EncGetOutputInfo gives the source of an encoded picture free.
Retire(src) == srcInUse' = srcInUse \ {src}

\* The slot the report's source is linked to, and the frame in it.
LinkedSlot(r) == memOf[r.src]

FetchPicture ==
    /\ Fetching({"pic"})
    /\ LET r == Head(reports) IN
       /\ Retire(r.src)
       /\ FreeSlot(LinkedSlot(r))
       /\ output' = [frame |-> frameIO[LinkedSlot(r)], coded |-> r.frame, bits |-> bits[r.slot]]
       /\ Settle(frameIO[LinkedSlot(r)], "returned")
    /\ TakeReport
    /\ Return
    /\ UNCHANGED <<frameIO, memOf, mem, bs, srcIdx, change, started, timer, offered, changes,
                   headerDone, irqVars>>

\* The source is free again, but its DMA buffer is not unmapped: the call fails before it
\* looks for the slot.
FetchUnmapFails ==
    /\ "unmap" \in Faults /\ Fetching({"pic"})
    /\ LET r == Head(reports) IN
       /\ Retire(r.src)
       /\ Settle(frameIO[LinkedSlot(r)], "abandoned")
    /\ TakeReportAndReset
    /\ Return
    /\ UNCHANGED <<ctxVars, timer, offered, changes, headerDone, output>>
-----------------------------------------------------------------------------
(* AML_MultiEncRelease *)

Release == /\ pc = "idle"
           /\ GoTo(IF started THEN "flush" ELSE "close")
           /\ UNCHANGED <<ctxVars, timer, srcInUse, callerVars, workVars, irqVars>>

\* StartOneFrame with srcEndFlag set, which is not refused for a source in use.
FlushFrames ==
    /\ pc = "flush"
    /\ \/ HasRoom /\ Issue(Flush) /\ srcInUse' = srcInUse \cup {srcIdx}
       \/ /\ (QueueRefuses /\ queue # << >>) \/ "start" \in Faults
          /\ UNCHANGED <<workVars, srcInUse>>
    /\ GoTo("close")
    /\ UNCHANGED <<ctxVars, timer, callerVars, irqVars>>

FlushAgain == pc = "flush" /\ queue = << >> /\ TryAgain

\* VPU_EncClose while the firmware still runs the instance: with commands queued it does,
\* with only reports to ask for it may say so.
CloseStillRunning ==
    /\ pc = "close"
    /\ queue # << >> \/ reports # << >>
    /\ GoTo("close_wait")
    /\ UNCHANGED <<ctxVars, timer, srcInUse, callerVars, workVars, irqVars>>

\* Release frees the buffers whatever VPU_EncClose returns but RETCODE_VPU_STILL_RUNNING.
CloseDone ==
    /\ pc = "close"
    /\ \/ queue = << >> /\ LoseWork
       \/ "close" \in Faults /\ UNCHANGED <<workVars, irqVars>>
    /\ GoTo("closed")
    /\ UNCHANGED <<ctxVars, timer, srcInUse, callerVars>>

CloseWait ==
    /\ pc = "close_wait"
    /\ \/ /\ TakeInterrupt
          /\ IF reports = << >> THEN UNCHANGED workVars ELSE TakeReport
          /\ IF reports # << >> /\ Head(reports).kind = "pic" THEN Retire(Head(reports).src)
             ELSE UNCHANGED srcInUse
          /\ GoTo("close")
       \/ WaitInVain /\ GoTo("close") /\ UNCHANGED <<srcInUse, workVars, irqVars>>
       \/ TimedOut /\ GoTo("closed") /\ UNCHANGED <<srcInUse, workVars, irqVars>>
    /\ UNCHANGED <<ctxVars, callerVars>>

Terminating == pc = "closed" /\ UNCHANGED vars
-----------------------------------------------------------------------------
(* The environment: firmware, interrupt handler, clock *)

Complete(report) == /\ queue' = Tail(queue)
                    /\ reports' = Append(reports, report)
                    /\ done' = TRUE
                    /\ UNCHANGED irq

Doing(kind) == queue # << >> /\ Len(reports) < QueueDepth /\ Head(queue).kind = kind

FwHeader == /\ Doing("header")
            /\ \/ Complete(Header) /\ bits' = [bits EXCEPT ![0] = HeaderBits]
               \/ "encode" \in Faults /\ Complete([kind |-> "fail"]) /\ UNCHANGED bits
            /\ UNCHANGED held

FwChange == Doing("change") /\ Complete(Change) /\ UNCHANGED <<bits, held>>

\* A source is not held once Window later ones are taken; until then the firmware may
\* encode any picture it holds.
Overdue(p, pics) == \E q \in pics : q.frame > p.frame /\ (q.src - p.src) % SrcNum >= Window
Encodable(pics) == {p \in pics : \A q \in pics : q.frame < p.frame => ~Overdue(q, pics)}

\* One of the pictures is encoded, into the bitstream buffer of its slot.
Encode(pics) ==
    \E p \in Encodable(pics) :
        /\ held' = pics \ {p}
        /\ \/ Complete(p) /\ bits' = [bits EXCEPT ![p.slot] = p.frame]
           \/ "encode" \in Faults /\ Complete([kind |-> "fail"]) /\ UNCHANGED bits
           \/ "vlc_full" \in Faults /\ Complete([kind |-> "vlc_full"]) /\ UNCHANGED bits

FwPicture ==
    /\ Doing("pic")
    /\ LET pics == held \cup {Head(queue)} IN
       IF Cardinality(pics) > HoldBack THEN Encode(pics)
       ELSE held' = pics /\ Complete([kind |-> "delay"]) /\ UNCHANGED bits

FwFlush ==
    /\ Doing("flush")
    /\ IF held # {} THEN Encode(held)
       ELSE Complete([kind |-> "delay"]) /\ UNCHANGED <<held, bits>>

Firmware == /\ FwHeader \/ FwChange \/ FwPicture \/ FwFlush
            /\ UNCHANGED <<ctxVars, timer, srcInUse, callVars, callerVars>>

\* The kernel's handler takes the interrupt, if it ever comes; the done bit stays set until
\* then.
InterruptHandler ==
    /\ done /\ irq < IrqMax
    /\ done' = FALSE /\ irq' = irq + 1
    /\ UNCHANGED <<ctxVars, timer, srcInUse, callVars, callerVars, workVars>>

\* VPU_ENC_TIMEOUT has passed since the timer was armed.
TimePasses ==
    /\ timer = "armed" /\ "time" \in Faults
    /\ timer' = "lapsed"
    /\ UNCHANGED <<ctxVars, srcInUse, callVars, callerVars, workVars, irqVars>>

HeaderStep == HeaderCall \/ HeaderIssue \/ HeaderWait \/ HeaderFetch
CallerStep == (\E slot \in Slot, copied \in BOOLEAN : SetInput(slot, copied)) \/ SetInputRefused \/ ChangeParam
NALStep == \/ SendChange \/ SendAgain \/ StartOneFrame \/ StartQueueFull \/ StartAgain
           \/ StartFailed \/ Wait \/ FetchNothing \/ FetchAgain \/ FetchDelay \/ FetchFailed
           \/ FetchPicture \/ FetchUnmapFails
ReleaseStep == \/ Release \/ FlushFrames \/ FlushAgain
               \/ CloseStillRunning \/ CloseDone \/ CloseWait

Next == \/ HeaderStep \/ CallerStep \/ NALStep \/ ReleaseStep
        \/ Firmware \/ InterruptHandler \/ TimePasses \/ Terminating

Spec == Init /\ [][Next]_vars

\* The thread of a call runs, the firmware works, and time passes.  Whether the caller calls
\* again is up to the caller, and an interrupt may be lost.
Fairness == /\ WF_vars(HeaderIssue \/ HeaderWait \/ HeaderFetch)
            /\ WF_vars(NALStep)
            /\ WF_vars(FlushFrames \/ FlushAgain \/ CloseStillRunning \/ CloseDone \/ CloseWait)
            /\ WF_vars(Firmware) /\ WF_vars(TimePasses)

FairSpec == Spec /\ Fairness
-----------------------------------------------------------------------------
PcLabels == {"idle", "header", "header_wait", "header_fetch", "start", "wait", "fetch",
             "flush", "close", "close_wait", "closed"}

ContextTypes ==
    /\ busy \subseteq Slot /\ mem \subseteq Slot /\ bs \subseteq Slot
    /\ frameIO \in [Slot -> Frame \cup {NoFrame}]
    /\ memOf \in [Src -> Slot]
    /\ srcIdx \in Src
    /\ change \in BOOLEAN /\ started \in BOOLEAN
    /\ timer \in {"off", "armed", "lapsed"}
    /\ srcInUse \subseteq Src

Fates == {"new", "taken", "refused", "abandoned", "returned", "settled again"}

CallTypes ==
    /\ pc \in PcLabels /\ tries \in Nat
    /\ offered \in 0 .. FrameMax /\ changes \in 0 .. ChangeMax /\ headerDone \in BOOLEAN
    /\ fate \in [Frame -> Fates]
    /\ output \in [frame : Frame \cup {NoFrame}, coded : Frame \cup {NoFrame},
                   bits : Frame \cup {NoFrame, HeaderBits}]

WorkTypes ==
    /\ queue \in Seq(Commands) /\ Len(queue) <= QueueDepth
    /\ held \subseteq Pictures
    /\ reports \in Seq(Reports) /\ Len(reports) <= QueueDepth
    /\ bits \in [Slot -> Frame \cup {NoFrame, HeaderBits}]
    /\ done \in BOOLEAN /\ irq \in 0 .. IrqMax

\* Every variable keeps its type; with that, the slot search, the wrap of the source index
\* and the firmware's two queues stay inside their arrays (AML_MultiEncoder.c:1595-1613,
\* :2295-2296).
TypeInv == ContextTypes /\ CallTypes /\ WorkTypes

PicturesOf(seq) == {seq[i] : i \in {j \in DOMAIN seq : seq[j].kind = "pic"}}
\* The pictures the firmware has not encoded yet, and with them those whose report waits.
Unread == PicturesOf(queue) \cup held
InFlight == Unread \cup PicturesOf(reports)

\* Until the firmware has encoded a picture its slot is not given to another frame, however
\* late the results are asked for and however they are reordered: the slot search of
\* AML_MultiEncSetInput (AML_MultiEncoder.c:1595-1613) against the frees of AML_MultiEncNAL
\* (:2311, :2418).
PixelsIntact == \A p \in Unread : p.slot \in busy /\ frameIO[p.slot] = p.frame

\* The bitstream buffer of a picture whose report waits still holds that picture's bits:
\* neither a later picture nor a repeated header command (:2102, :2121) has overwritten it.
BitsIntact == \A p \in PicturesOf(reports) : bits[p.slot] = p.frame

\* What a call gives back (Retframe, buffer; :2417-2434) is one frame: the frame returned
\* is the frame the firmware reported, and the bits copied out are its bits.
OutputMatches == output.frame = output.coded /\ output.bits = output.coded

\* What makes PixelsIntact inductive.  A picture in flight keeps its slot and its source.
FlightInv == \A p \in InFlight : /\ p.slot \in busy
                                 /\ frameIO[p.slot] = p.frame
                                 /\ p.src \in srcInUse

\* The sources in flight differ, wherever the pictures are.
PictureAt(seq, i) == i \in DOMAIN seq /\ seq[i].kind = "pic"
DistinctIn(seq) == \A i, j \in DOMAIN seq :
    PictureAt(seq, i) /\ PictureAt(seq, j) /\ i # j => seq[i].src # seq[j].src
Disjoint(P, Q) == \A p \in P, q \in Q : p.src # q.src
DistinctInv == /\ DistinctIn(queue) /\ DistinctIn(reports)
               /\ \A p, q \in held : p # q => p.src # q.src
               /\ Disjoint(PicturesOf(queue), held)
               /\ Disjoint(Unread, PicturesOf(reports))

\* A source in flight is linked to its slot, unless it is the next source and a new frame
\* was linked to it; then at least it is not linked to another picture's slot.
LinkInv == /\ \A p \in InFlight : p.src # srcIdx => memOf[p.src] = p.slot
           /\ \A p, q \in InFlight : p.src # q.src => memOf[p.src] # q.slot

\* A frame about to be started has a slot to itself.
StartInv == pc = "start" => /\ StartedSlot \in busy
                            /\ frameIO[StartedSlot] # NoFrame
                            /\ \A p \in InFlight : p.slot # StartedSlot

\* Slots lost to frames that met a refused parameter change (AML_MultiEncoder.c:2283-2287),
\* or whose DMA buffer was not unmapped (vpuapi.c:1071, AML_MultiEncoder.c:2360-2366).
Abandoned == {s \in Slot : frameIO[s] # NoFrame /\ fate[frameIO[s]] = "abandoned"}

\* Between calls exactly the slots and the sources (srcBufUseIndex, vpuapi.c:903, :982, :1043)
\* of the pictures in flight are occupied, and the Abandoned slots: no other call leaves one
\* behind that nothing will ever free, and a frame is refused only while its source index is
\* really taken.
InFlightAccounted ==
    pc = "idle" => /\ busy = {p.slot : p \in InFlight} \cup Abandoned
                   /\ srcInUse = {p.src : p \in InFlight}

\* The loops that only the acceptance of a command ends.  A change of parameters may be
\* refused because of reports that nobody fetches (AML_MultiEncoder.c:2279-2281), and hangs.
Refused == /\ QueueRefuses
           /\ \/ pc = "start" /\ (change \/ queue = << >>)
              \/ pc = "flush" /\ queue = << >>

\* A call comes back, whatever the firmware, the interrupts and the queue do: all loops of
\* AML_MultiEncHeader, AML_MultiEncNAL and AML_MultiEncRelease end, but the retries of a
\* command that is Refused for ever (:2281, :2305, :2496).
CallsReturn == <>[]Refused \/ ((pc \notin {"idle", "closed"}) ~> (pc \in {"idle", "closed"}))

LedgerOf == INSTANCE FrameLedger WITH
    Overtakers <- Window - 1,
    fate <- [f \in Frame |-> IF fate[f] = "abandoned" THEN "refused" ELSE fate[f]]

\* Each frame is taken or refused once, only a frame taken and not yet given back is given
\* back, and it is overtaken by no more later frames than the firmware reorders: neither the
\* link to the slot (AML_MultiEncoder.c:1789, :2404-2418) nor the reuse of slots and sources
\* gives a frame back twice, in another's place, or never.
KeepsLedger == LedgerOf!Spec
=============================================================================
