------------------------- MODULE MultiEncoder_proofs -------------------------
(***************************************************************************)
(* What MultiEncoder keeps, for every number of slots, sources, frames and *)
(* queue entries.  Whatever of Faults the environment does: no slot is     *)
(* given away under the firmware, a call gives back one frame with its own *)
(* bits, and no frame is settled twice.  As long as no picture is lost:    *)
(* the account of slots and sources, and the promise of FrameLedger.       *)
(***************************************************************************)
EXTENDS MultiEncoder, SequenceTheorems, FiniteSetTheorems, TLAPS

(***************************************************************************)
(* Types                                                                   *)
(***************************************************************************)

\* A picture that is made or passed on is a command and a report.
LEMMA PicturesTyped == /\ Pictures \subseteq Commands
                       /\ Pictures \subseteq Reports
                       /\ {Header, Change, Flush} \subseteq Commands
                       /\ {Header, Change} \subseteq Reports
                       /\ \A k \in {"delay", "fail", "vlc_full"} : [kind |-> k] \in Reports
  BY DEF Pictures, Commands, Reports, Header, Change, Flush

LEMMA SourcesAreSlots == /\ SrcNum \in Nat \ {0} /\ SlotNum \in Nat \ {0}
                         /\ 0 \in Slot /\ 0 \in Src
                         /\ QueueDepth \in Nat \ {0} /\ IrqMax \in Nat \ {0}
                         /\ FrameMax \in Nat \ {0} /\ ChangeMax \in Nat
  BY BoundsAssumption DEF Slot, Src

\* What the environment and the calls do to the firmware's queues keeps their types.
LEMMA IssueTyped ==
  ASSUME WorkTypes, HasRoom, NEW cmd \in Commands, Issue(cmd), UNCHANGED irqVars
  PROVE  WorkTypes'
<1>1. queue' \in Seq(Commands) /\ Len(queue') = Len(queue) + 1
  BY AppendProperties DEF WorkTypes, Issue
<1>2. Len(queue') <= QueueDepth
  BY <1>1, SourcesAreSlots, LenProperties DEF HasRoom, WorkTypes
<1> QED
  BY <1>1, <1>2 DEF WorkTypes, Issue, irqVars

LEMMA TailTyped ==
  ASSUME NEW S, NEW seq \in Seq(S), NEW n \in Nat, Len(seq) <= n, seq # << >>
  PROVE  Tail(seq) \in Seq(S) /\ Len(Tail(seq)) <= n /\ Len(Tail(seq)) < n
  BY HeadTailProperties, LenProperties, EmptySeq

LEMMA TakeTyped ==
  ASSUME WorkTypes, reports # << >>, TakeReport, done' = done, irq' \in 0 .. IrqMax
  PROVE  WorkTypes'
  BY TailTyped, SourcesAreSlots DEF WorkTypes, TakeReport

LEMMA LoseTyped == WorkTypes /\ LoseWork => WorkTypes'
  BY EmptySeq, SourcesAreSlots DEF WorkTypes, LoseWork

LEMMA CompleteTyped ==
  ASSUME WorkTypes, queue # << >>, Len(reports) < QueueDepth, NEW report \in Reports,
         Complete(report), held' \subseteq Pictures,
         bits' \in [Slot -> Frame \cup {NoFrame, HeaderBits}]
  PROVE  WorkTypes'
<1>1. reports' \in Seq(Reports) /\ Len(reports') = Len(reports) + 1
  BY AppendProperties DEF WorkTypes, Complete
<1>2. Len(reports') <= QueueDepth
  BY <1>1, SourcesAreSlots, LenProperties DEF WorkTypes
<1>3. queue' \in Seq(Commands) /\ Len(queue') <= QueueDepth
  BY TailTyped, SourcesAreSlots DEF WorkTypes, Complete
<1> QED
  BY <1>1, <1>2, <1>3 DEF WorkTypes, Complete

LEMMA HeadTyped ==
  ASSUME NEW S, NEW seq \in Seq(S), seq # << >>
  PROVE  Head(seq) \in S
  BY HeadTailProperties

LEMMA InitTypes == Init => TypeInv
<1> SUFFICES ASSUME Init PROVE TypeInv OBVIOUS
<1>1. ContextTypes
  BY SourcesAreSlots DEF Init, ContextTypes
<1>2. CallTypes
  BY SourcesAreSlots, SMTT(30) DEF Init, CallTypes, PcLabels, Frame, NoFrame
<1>3. WorkTypes
  BY SourcesAreSlots, EmptySeq DEF Init, WorkTypes
<1> QED
  BY <1>1, <1>2, <1>3 DEF TypeInv

\* The parts a step leaves alone.
LEMMA ContextKept ==
  ContextTypes /\ UNCHANGED <<ctxVars, srcInUse>> /\ timer' \in {"off", "armed", "lapsed"}
    => ContextTypes'
  BY DEF ContextTypes, ctxVars

LEMMA CallerKept ==
  CallTypes /\ UNCHANGED callerVars /\ pc' \in PcLabels /\ tries' \in Nat => CallTypes'
  BY DEF CallTypes, callerVars

LEMMA WorkKept ==
  WorkTypes /\ UNCHANGED workVars /\ done' \in BOOLEAN /\ irq' \in 0 .. IrqMax => WorkTypes'
  BY DEF WorkTypes, workVars

LEMMA InterruptTyped ==
  WorkTypes => /\ TakeInterrupt => done' = done /\ irq' \in 0 .. IrqMax
               /\ PollDone \/ PollNothing => done' \in BOOLEAN /\ irq' \in 0 .. IrqMax
               /\ UNCHANGED irqVars => done' = done /\ irq' \in 0 .. IrqMax
<1>1. WorkTypes => irq \in 0 .. IrqMax /\ irq \in Nat /\ IrqMax \in Nat
  BY SourcesAreSlots DEF WorkTypes
<1>2. WorkTypes => done \in BOOLEAN
  BY DEF WorkTypes
<1>3. WorkTypes /\ TakeInterrupt => irq' \in 0 .. IrqMax
  BY <1>1 DEF TakeInterrupt
<1>4. WorkTypes /\ PollDone => irq' \in 0 .. IrqMax
  <2>1. PollDone => irq' = irq \/ (irq < IrqMax /\ irq' = irq + 1)
    BY ONLY Zenon DEF PollDone
  <2> QED
    BY <1>1, <2>1
<1>5. PollNothing => done' = done /\ irq' = irq
  BY DEF PollNothing, irqVars
<1>10. PollDone => done' \in BOOLEAN
  BY DEF PollDone
<1>6. TakeInterrupt => done' = done
  BY DEF TakeInterrupt
<1>7. UNCHANGED irqVars => done' = done /\ irq' = irq
  BY DEF irqVars
<1>8. WorkTypes /\ PollNothing => irq' \in 0 .. IrqMax
  BY <1>1, <1>5
<1>9. WorkTypes /\ UNCHANGED irqVars => irq' \in 0 .. IrqMax
  BY <1>1, <1>7
<1> QED
  BY <1>2, <1>3, <1>4, <1>5, <1>6, <1>7, <1>8, <1>9, <1>10

LEMMA CallStepTyped == CallTypes => /\ Return => pc' \in PcLabels /\ tries' \in Nat
                                    /\ \A label \in PcLabels : GoTo(label) => pc' \in PcLabels /\ tries' \in Nat
                                    /\ UNCHANGED pc => pc' \in PcLabels
                                    /\ UNCHANGED tries \/ tries' = tries + 1 => tries' \in Nat
<1>1. CallTypes => pc \in PcLabels /\ tries \in Nat /\ "idle" \in PcLabels
  BY DEF CallTypes, PcLabels
<1> QED
  BY <1>1 DEF Return, GoTo

LEMMA TimerTyped == ContextTypes => /\ timer \in {"off", "armed", "lapsed"}
                                    /\ TakeInterrupt \/ WaitInVain \/ TimedOut => timer' \in {"off", "armed", "lapsed"}
  BY DEF ContextTypes, TakeInterrupt, WaitInVain, TimedOut

\* A step of the caller or the context leaves the work alone; a step of a call is typed
\* when its three parts are.
LEMMA HeaderTypes == TypeInv /\ HeaderStep => TypeInv'
<1> SUFFICES ASSUME ContextTypes, CallTypes, WorkTypes, HeaderStep PROVE TypeInv'
  BY DEF TypeInv
<1>1. CASE HeaderCall
  <2>1. ContextTypes'
    BY <1>1, ContextKept, TimerTyped DEF HeaderCall
  <2>2. CallTypes'
    BY <1>1, CallerKept, CallStepTyped DEF HeaderCall, PcLabels
  <2>3. WorkTypes'
    BY <1>1, WorkKept, InterruptTyped DEF HeaderCall, WorkTypes
  <2> QED
    BY <2>1, <2>2, <2>3 DEF TypeInv
<1>2. CASE HeaderIssue
  <2>1. ContextTypes'
    BY <1>2, ContextKept, TimerTyped DEF HeaderIssue
  <2>2. CallTypes'
    <3>1. pc' \in PcLabels /\ tries' \in Nat
      BY <1>2, CallStepTyped DEF HeaderIssue, PcLabels
    <3> QED
      BY <1>2, <3>1, CallerKept DEF HeaderIssue
  <2>3. WorkTypes'
    <3>1. CASE HasRoom /\ Issue(Header)
      BY <1>2, <3>1, IssueTyped, PicturesTyped DEF HeaderIssue
    <3>2. CASE UNCHANGED workVars
      BY <1>2, <3>2, WorkKept, InterruptTyped DEF HeaderIssue, WorkTypes
    <3> QED
      BY <1>2, <3>1, <3>2 DEF HeaderIssue
  <2> QED
    BY <2>1, <2>2, <2>3 DEF TypeInv
<1>3. CASE HeaderWait
  <2>1. ContextTypes'
    BY <1>3, ContextKept, TimerTyped DEF HeaderWait
  <2>2. CallTypes'
    <3>1. pc' \in PcLabels /\ tries' \in Nat
      BY <1>3, CallStepTyped DEF HeaderWait, PcLabels
    <3> QED
      BY <1>3, <3>1, CallerKept DEF HeaderWait
  <2>3. WorkTypes'
    <3>1. CASE UNCHANGED workVars /\ (TakeInterrupt \/ PollDone \/ PollNothing \/ UNCHANGED irqVars)
      BY <3>1, WorkKept, InterruptTyped DEF WorkTypes
    <3>2. CASE LoseWork
      BY <3>2, LoseTyped
    <3> QED
      BY <1>3, <3>1, <3>2 DEF HeaderWait, SWReset
  <2> QED
    BY <2>1, <2>2, <2>3 DEF TypeInv
<1>4. CASE HeaderFetch
  <2>1. ContextTypes'
    BY <1>4, ContextKept, TimerTyped DEF HeaderFetch
  <2>2. CallTypes'
    <3>1. pc' \in PcLabels /\ tries' \in Nat
      BY <1>4, CallStepTyped DEF HeaderFetch, HeaderAgain, PcLabels
    <3>2. headerDone' \in BOOLEAN
      BY <1>4 DEF HeaderFetch, CallTypes
    <3> QED
      BY <1>4, <3>1, <3>2 DEF HeaderFetch, CallTypes
  <2>3. WorkTypes'
    <3>1. CASE UNCHANGED <<workVars, irqVars>>
      BY <3>1, WorkKept, InterruptTyped DEF WorkTypes
    <3>2. CASE reports # << >> /\ TakeReport /\ UNCHANGED irqVars
      BY <3>2, TakeTyped, InterruptTyped
    <3>3. CASE LoseWork
      BY <3>3, LoseTyped
    <3> QED
      BY <1>4, <3>1, <3>2, <3>3 DEF HeaderFetch, TakeReportAndReset
  <2> QED
    BY <2>1, <2>2, <2>3 DEF TypeInv
<1> QED
  BY <1>1, <1>2, <1>3, <1>4 DEF HeaderStep

LEMMA CallerTypes == TypeInv /\ CallerStep => TypeInv'
<1> SUFFICES ASSUME ContextTypes, CallTypes, WorkTypes, CallerStep PROVE TypeInv'
  BY DEF TypeInv
<1>0. offered < FrameMax => offered + 1 \in Frame /\ offered + 1 \in 0 .. FrameMax
  <2>1. offered \in 0 .. FrameMax /\ FrameMax \in Nat
    BY SourcesAreSlots DEF CallTypes
  <2> QED
    BY <2>1 DEF Frame
<1>1. ASSUME NEW slot \in Slot, NEW copied \in BOOLEAN, SetInput(slot, copied) PROVE TypeInv'
  <2>1. offered + 1 \in Frame /\ offered' \in 0 .. FrameMax
    BY <1>0, <1>1 DEF SetInput, CallerMayOffer
  <2>2. ContextTypes'
    <3>1. busy' \subseteq Slot /\ mem' \subseteq Slot /\ bs' \subseteq Slot
      BY <1>1 DEF SetInput, ContextTypes
    <3>2. frameIO' \in [Slot -> Frame \cup {NoFrame}]
      BY <1>1, <2>1 DEF SetInput, ContextTypes
    <3>3. memOf' \in [Src -> Slot]
      BY <1>1 DEF SetInput, Link, ContextTypes
    <3>4. UNCHANGED <<srcIdx, change, started, timer, srcInUse>>
      BY <1>1 DEF SetInput
    <3> QED
      BY <3>1, <3>2, <3>3, <3>4 DEF ContextTypes
  <2>3. CallTypes'
    <3>1. fate' \in [Frame -> Fates]
      BY <1>1, <2>1 DEF Fates, SetInput, OfferedNow, CallTypes
    <3>2. pc' \in PcLabels /\ tries' \in Nat
      BY <1>1, CallStepTyped DEF SetInput, callVars, PcLabels
    <3>3. UNCHANGED <<changes, headerDone, output>>
      BY <1>1 DEF SetInput
    <3> QED
      BY <2>1, <3>1, <3>2, <3>3 DEF CallTypes
  <2>4. WorkTypes'
    BY <1>1, WorkKept, InterruptTyped DEF SetInput, WorkTypes
  <2> QED
    BY <2>2, <2>3, <2>4 DEF TypeInv
<1>2. CASE SetInputRefused
  <2>1. offered + 1 \in Frame /\ offered' \in 0 .. FrameMax
    BY <1>0, <1>2 DEF SetInputRefused, CallerMayOffer
  <2>2. CallTypes'
    <3>1. fate' \in [Frame -> Fates]
      BY <1>2, <2>1 DEF Fates, SetInputRefused, OfferedNow, CallTypes
    <3>2. UNCHANGED <<callVars, changes, headerDone, output>>
      BY <1>2 DEF SetInputRefused
    <3> QED
      BY <2>1, <3>1, <3>2 DEF CallTypes, callVars
  <2>3. ContextTypes'
    <3>1. mem' \subseteq Slot
      BY <1>2 DEF SetInputRefused, ContextTypes
    <3>2. UNCHANGED <<busy, frameIO, memOf, bs, srcIdx, change, started, timer, srcInUse>>
      BY <1>2 DEF SetInputRefused
    <3> QED
      BY <3>1, <3>2 DEF ContextTypes
  <2>4. WorkTypes'
    BY <1>2, WorkKept, InterruptTyped DEF SetInputRefused, WorkTypes
  <2> QED
    BY <2>2, <2>3, <2>4 DEF TypeInv
<1>3. CASE ChangeParam
  <2>1. CallTypes'
    <3>1. changes' \in 0 .. ChangeMax
      <4>1. changes \in 0 .. ChangeMax /\ ChangeMax \in Nat
        BY SourcesAreSlots DEF CallTypes
      <4> QED
        BY <1>3, <4>1 DEF ChangeParam
    <3>2. UNCHANGED <<callVars, offered, headerDone, fate, output>>
      BY <1>3 DEF ChangeParam
    <3> QED
      BY <3>1, <3>2 DEF CallTypes, callVars
  <2>2. ContextTypes'
    BY <1>3 DEF ChangeParam, ContextTypes
  <2>3. WorkTypes'
    BY <1>3, WorkKept, InterruptTyped DEF ChangeParam, WorkTypes
  <2> QED
    BY <2>1, <2>2, <2>3 DEF TypeInv
<1> QED
  BY <1>1, <1>2, <1>3 DEF CallerStep

\* VPU_EncStartOneFrame issues a picture that is a command.
LEMMA StartedTyped ==
  ContextTypes /\ StartOneFrame /\ frameIO[StartedSlot] \in Frame =>
    [kind |-> "pic", src |-> srcIdx, slot |-> StartedSlot, frame |-> frameIO[StartedSlot]]
      \in Pictures
  BY DEF ContextTypes, StartedSlot, Pictures

LEMMA NextSrcTyped == \A x \in Src : NextSrc(x) \in Src
<1>1. SrcNum \in Nat /\ SrcNum > 0
  BY SourcesAreSlots
<1> QED
  BY <1>1 DEF NextSrc, Src

LEMMA SettleTyped ==
  ASSUME CallTypes, NEW f, NEW verdict \in {"refused", "abandoned", "returned"}, Settle(f, verdict)
  PROVE  fate' \in [Frame -> Fates]
  BY DEF CallTypes, Settle, Fates

\* The next try changes the count of tries and nothing else.
LEMMA AgainTypes == TypeInv /\ TryAgain => TypeInv'
<1> SUFFICES ASSUME ContextTypes, CallTypes, WorkTypes, TryAgain PROVE TypeInv'
  BY DEF TypeInv
<1>1. ContextTypes'
  BY ContextKept, TimerTyped DEF TryAgain
<1>2. CallTypes'
  <2>1. pc' \in PcLabels /\ tries' \in Nat
    BY DEF TryAgain, CallTypes
  <2> QED
    BY <2>1, CallerKept DEF TryAgain
<1>3. WorkTypes'
  BY WorkKept, InterruptTyped DEF TryAgain, WorkTypes
<1> QED
  BY <1>1, <1>2, <1>3 DEF TypeInv

LEMMA NALTypes == TypeInv /\ StartInv /\ NALStep => TypeInv'
<1> SUFFICES ASSUME ContextTypes, CallTypes, WorkTypes, StartInv, NALStep PROVE TypeInv'
  BY DEF TypeInv
<1>1. CASE SendChange
  <2>1. ContextTypes'
    BY <1>1 DEF SendChange, ContextTypes
  <2>2. CallTypes'
    <3>1. fate' \in [Frame -> Fates]
      BY <1>1, SettleTyped DEF SendChange, CallTypes
    <3>2. pc' \in PcLabels /\ tries' \in Nat
      BY <1>1, CallStepTyped DEF SendChange, PcLabels
    <3> QED
      BY <1>1, <3>1, <3>2 DEF SendChange, CallTypes
  <2>3. WorkTypes'
    <3>1. CASE HasRoom /\ Issue(Change)
      BY <1>1, <3>1, IssueTyped, PicturesTyped DEF SendChange
    <3>2. CASE UNCHANGED workVars
      BY <1>1, <3>2, WorkKept, InterruptTyped DEF SendChange, WorkTypes
    <3> QED
      BY <1>1, <3>1, <3>2 DEF SendChange
  <2> QED
    BY <2>1, <2>2, <2>3 DEF TypeInv
<1>2. CASE StartOneFrame
  <2>1. ContextTypes'
    BY <1>2, NextSrcTyped DEF StartOneFrame, ContextTypes
  <2>2. CallTypes'
    BY <1>2, CallerKept, CallStepTyped DEF StartOneFrame, PcLabels
  <2>3. WorkTypes'
    <3>1. frameIO[StartedSlot] \in Frame
      BY <1>2 DEF StartOneFrame, Starting, StartInv, StartedSlot, ContextTypes
    <3> QED
      BY <1>2, <3>1, StartedTyped, IssueTyped, PicturesTyped DEF StartOneFrame
  <2> QED
    BY <2>1, <2>2, <2>3 DEF TypeInv
<1>3. CASE StartQueueFull
  <2>1. ContextTypes'
    BY <1>3, ContextKept, TimerTyped DEF StartQueueFull
  <2>2. CallTypes'
    BY <1>3, CallerKept, CallStepTyped DEF StartQueueFull, PcLabels
  <2>3. WorkTypes'
    BY <1>3, WorkKept, InterruptTyped DEF StartQueueFull, WorkTypes
  <2> QED
    BY <2>1, <2>2, <2>3 DEF TypeInv
<1>4. CASE StartFailed
  <2>1. ContextTypes'
    BY <1>4 DEF StartFailed, FreeSlot, ContextTypes
  <2>2. CallTypes'
    <3>1. fate' \in [Frame -> Fates]
      BY <1>4, SettleTyped DEF StartFailed
    <3> QED
      BY <1>4, <3>1, CallStepTyped DEF StartFailed, CallTypes
  <2>3. WorkTypes'
    BY <1>4, WorkKept, InterruptTyped DEF StartFailed, WorkTypes
  <2> QED
    BY <2>1, <2>2, <2>3 DEF TypeInv
<1>5. CASE Wait
  <2>1. ContextTypes'
    BY <1>5, ContextKept, TimerTyped DEF Wait
  <2>2. CallTypes'
    <3>1. pc' \in PcLabels /\ tries' \in Nat
      BY <1>5, CallStepTyped DEF Wait, PcLabels
    <3> QED
      BY <1>5, <3>1, CallerKept DEF Wait
  <2>3. WorkTypes'
    <3>1. CASE UNCHANGED workVars /\ (TakeInterrupt \/ PollDone \/ PollNothing \/ UNCHANGED irqVars)
      BY <3>1, WorkKept, InterruptTyped DEF WorkTypes
    <3>2. CASE LoseWork
      BY <3>2, LoseTyped
    <3> QED
      BY <1>5, <3>1, <3>2 DEF Wait, SWReset
  <2> QED
    BY <2>1, <2>2, <2>3 DEF TypeInv
<1>6. CASE FetchNothing
  <2>1. ContextTypes'
    BY <1>6, ContextKept, TimerTyped DEF FetchNothing
  <2>2. CallTypes'
    BY <1>6, CallerKept, CallStepTyped DEF FetchNothing
  <2>3. WorkTypes'
    BY <1>6, WorkKept, InterruptTyped DEF FetchNothing, WorkTypes
  <2> QED
    BY <2>1, <2>2, <2>3 DEF TypeInv
<1>7. CASE FetchAgain \/ FetchDelay
  <2>1. ContextTypes'
    BY <1>7, ContextKept, TimerTyped DEF FetchAgain, FetchDelay
  <2>2. CallTypes'
    BY <1>7, CallerKept, CallStepTyped DEF FetchAgain, FetchDelay, PcLabels
  <2>3. WorkTypes'
    BY <1>7, TakeTyped, InterruptTyped DEF FetchAgain, FetchDelay, Fetching
  <2> QED
    BY <2>1, <2>2, <2>3 DEF TypeInv
<1>8. CASE FetchFailed
  <2>1. ContextTypes'
    BY <1>8, ContextKept, TimerTyped DEF FetchFailed
  <2>2. CallTypes'
    BY <1>8, CallerKept, CallStepTyped DEF FetchFailed
  <2>3. WorkTypes'
    BY <1>8, TakeTyped, LoseTyped, InterruptTyped DEF FetchFailed, Fetching, TakeReportAndReset
  <2> QED
    BY <2>1, <2>2, <2>3 DEF TypeInv
<1>9. CASE FetchPicture
  <2> DEFINE r == Head(reports)
  <2>0. r \in Pictures
    <3>1. r \in Reports /\ r.kind = "pic"
      BY <1>9, HeadTyped DEF FetchPicture, Fetching, WorkTypes
    <3> QED
      BY <3>1 DEF Reports
  <2>1. ContextTypes'
    BY <1>9 DEF FetchPicture, FreeSlot, Retire, ContextTypes
  <2>2. CallTypes'
    <3>1. fate' \in [Frame -> Fates]
      BY <1>9, SettleTyped DEF FetchPicture
    <3>2. output' \in [frame : Frame \cup {NoFrame}, coded : Frame \cup {NoFrame},
                       bits : Frame \cup {NoFrame, HeaderBits}]
      <4>1. frameIO[LinkedSlot(r)] \in Frame \cup {NoFrame} /\ r.frame \in Frame
        BY <2>0 DEF LinkedSlot, Pictures, ContextTypes
      <4>2. bits[r.slot] \in Frame \cup {NoFrame, HeaderBits}
        BY <2>0 DEF Pictures, WorkTypes
      <4> QED
        BY <1>9, <4>1, <4>2 DEF FetchPicture
    <3>3. UNCHANGED <<offered, changes, headerDone>>
      BY <1>9 DEF FetchPicture
    <3>4. pc' \in PcLabels /\ tries' \in Nat
      BY <1>9, CallStepTyped DEF FetchPicture
    <3> QED
      BY <3>1, <3>2, <3>3, <3>4 DEF CallTypes
  <2>3. WorkTypes'
    BY <1>9, TakeTyped, InterruptTyped DEF FetchPicture, Fetching
  <2> QED
    BY <2>1, <2>2, <2>3 DEF TypeInv
<1>10. CASE SendAgain \/ StartAgain
  BY <1>10, AgainTypes DEF SendAgain, StartAgain, TypeInv
<1>11. CASE FetchUnmapFails
  <2>1. ContextTypes'
    BY <1>11 DEF FetchUnmapFails, Retire, ctxVars, ContextTypes
  <2>2. CallTypes'
    <3>1. fate' \in [Frame -> Fates]
      BY <1>11, SettleTyped DEF FetchUnmapFails
    <3>2. pc' \in PcLabels /\ tries' \in Nat
      BY <1>11, CallStepTyped DEF FetchUnmapFails
    <3> QED
      BY <1>11, <3>1, <3>2 DEF FetchUnmapFails, CallTypes
  <2>3. WorkTypes'
    BY <1>11, TakeTyped, LoseTyped, InterruptTyped
    DEF FetchUnmapFails, Fetching, TakeReportAndReset
  <2> QED
    BY <2>1, <2>2, <2>3 DEF TypeInv
<1> QED
  BY <1>1, <1>2, <1>3, <1>4, <1>5, <1>6, <1>7, <1>8, <1>9, <1>10, <1>11 DEF NALStep

LEMMA ReleaseTypes == TypeInv /\ ReleaseStep => TypeInv'
<1> SUFFICES ASSUME ContextTypes, CallTypes, WorkTypes, ReleaseStep PROVE TypeInv'
  BY DEF TypeInv
<1>1. CASE Release
  <2>1. ContextTypes'
    BY <1>1, ContextKept, TimerTyped DEF Release
  <2>2. CallTypes'
    BY <1>1, CallerKept, CallStepTyped DEF Release, PcLabels
  <2>3. WorkTypes'
    BY <1>1, WorkKept, InterruptTyped DEF Release, WorkTypes
  <2> QED
    BY <2>1, <2>2, <2>3 DEF TypeInv
<1>2. CASE FlushFrames
  <2>1. ContextTypes'
    BY <1>2 DEF FlushFrames, ctxVars, ContextTypes
  <2>2. CallTypes'
    BY <1>2, CallerKept, CallStepTyped DEF FlushFrames, PcLabels
  <2>3. WorkTypes'
    <3>1. CASE HasRoom /\ Issue(Flush)
      BY <1>2, <3>1, IssueTyped, PicturesTyped DEF FlushFrames
    <3>2. CASE UNCHANGED workVars
      BY <1>2, <3>2, WorkKept, InterruptTyped DEF FlushFrames, WorkTypes
    <3> QED
      BY <1>2, <3>1, <3>2 DEF FlushFrames
  <2> QED
    BY <2>1, <2>2, <2>3 DEF TypeInv
<1>3. CASE CloseStillRunning
  <2>1. ContextTypes'
    BY <1>3, ContextKept, TimerTyped DEF CloseStillRunning
  <2>2. CallTypes'
    BY <1>3, CallerKept, CallStepTyped DEF CloseStillRunning, PcLabels
  <2>3. WorkTypes'
    BY <1>3, WorkKept, InterruptTyped DEF CloseStillRunning, WorkTypes
  <2> QED
    BY <2>1, <2>2, <2>3 DEF TypeInv
<1>4. CASE CloseDone
  <2>1. ContextTypes'
    BY <1>4, ContextKept, TimerTyped DEF CloseDone
  <2>2. CallTypes'
    BY <1>4, CallerKept, CallStepTyped DEF CloseDone, PcLabels
  <2>3. WorkTypes'
    BY <1>4, WorkKept, LoseTyped, InterruptTyped DEF CloseDone, WorkTypes
  <2> QED
    BY <2>1, <2>2, <2>3 DEF TypeInv
<1>5. CASE CloseWait
  <2>1. ContextTypes'
    <3>1. timer' \in {"off", "armed", "lapsed"}
      BY <1>5, TimerTyped DEF CloseWait
    <3>2. srcInUse' \subseteq Src
      BY <1>5 DEF CloseWait, Retire, ContextTypes
    <3> QED
      BY <1>5, <3>1, <3>2 DEF CloseWait, ctxVars, ContextTypes
  <2>2. CallTypes'
    <3>1. pc' \in PcLabels /\ tries' \in Nat
      BY <1>5, CallStepTyped DEF CloseWait, PcLabels
    <3> QED
      BY <1>5, <3>1, CallerKept DEF CloseWait
  <2>3. WorkTypes'
    <3>1. CASE UNCHANGED workVars
      BY <1>5, <3>1, WorkKept, InterruptTyped DEF CloseWait, WorkTypes
    <3>2. CASE TakeInterrupt /\ reports # << >> /\ TakeReport
      BY <3>2, TakeTyped, InterruptTyped
    <3> QED
      BY <1>5, <3>1, <3>2 DEF CloseWait
  <2> QED
    BY <2>1, <2>2, <2>3 DEF TypeInv
<1>6. CASE FlushAgain
  BY <1>6, AgainTypes DEF FlushAgain, TypeInv
<1> QED
  BY <1>1, <1>2, <1>3, <1>4, <1>5, <1>6 DEF ReleaseStep

\* What the firmware takes from the head of the queue.
LEMMA DoingTyped ==
  ASSUME WorkTypes, NEW kind, Doing(kind)
  PROVE  /\ queue # << >> /\ Len(reports) < QueueDepth
         /\ Head(queue) \in Commands /\ Head(queue).kind = kind
         /\ kind = "pic" => Head(queue) \in Pictures
<1>1. queue # << >> /\ Len(reports) < QueueDepth /\ Head(queue).kind = kind
  BY DEF Doing
<1>2. Head(queue) \in Commands
  BY <1>1, HeadTyped DEF WorkTypes
<1> QED
  BY <1>1, <1>2 DEF Commands, Header, Change, Flush

LEMMA EncodeTyped ==
  ASSUME WorkTypes, queue # << >>, Len(reports) < QueueDepth,
         NEW pics \in SUBSET Pictures, Encode(pics)
  PROVE  WorkTypes'
<1>1. PICK p \in Encodable(pics) :
        /\ held' = pics \ {p}
        /\ \/ Complete(p) /\ bits' = [bits EXCEPT ![p.slot] = p.frame]
           \/ Complete([kind |-> "fail"]) /\ UNCHANGED bits
           \/ Complete([kind |-> "vlc_full"]) /\ UNCHANGED bits
  BY DEF Encode
<1>2. p \in Pictures /\ held' \subseteq Pictures
  BY <1>1 DEF Encodable
<1>3. bits' \in [Slot -> Frame \cup {NoFrame, HeaderBits}]
  <2>1. p.frame \in Frame /\ p.slot \in Slot
    BY <1>2 DEF Pictures
  <2>2. bits' = bits \/ bits' = [bits EXCEPT ![p.slot] = p.frame]
    BY <1>1
  <2>3. bits \in [Slot -> Frame \cup {NoFrame, HeaderBits}]
    BY DEF WorkTypes
  <2> QED
    BY <2>1, <2>2, <2>3
<1> QED
  BY <1>1, <1>2, <1>3, CompleteTyped, PicturesTyped

LEMMA EnvironmentTypes == TypeInv /\ (Firmware \/ InterruptHandler \/ TimePasses) => TypeInv'
<1> SUFFICES ASSUME ContextTypes, CallTypes, WorkTypes,
                    Firmware \/ InterruptHandler \/ TimePasses
             PROVE  TypeInv'
  BY DEF TypeInv
<1>1. ContextTypes' /\ CallTypes'
  <2>1. ContextTypes'
    BY ContextKept, TimerTyped DEF Firmware, InterruptHandler, TimePasses
  <2>2. CallTypes'
    <3>1. UNCHANGED <<callVars, callerVars>>
      BY DEF Firmware, InterruptHandler, TimePasses
    <3> QED
      BY <3>1, CallerKept, CallStepTyped DEF callVars, CallTypes
  <2> QED
    BY <2>1, <2>2
<1>2. CASE FwHeader
  <2>1. bits \in [Slot -> Frame \cup {NoFrame, HeaderBits}] /\ held \subseteq Pictures
    BY DEF WorkTypes
  <2>2. bits' \in [Slot -> Frame \cup {NoFrame, HeaderBits}] /\ held' \subseteq Pictures
    BY <1>2, <2>1, SourcesAreSlots DEF FwHeader
  <2> QED
    BY <1>1, <1>2, <2>2, DoingTyped, CompleteTyped, PicturesTyped DEF FwHeader, TypeInv
<1>3. CASE FwChange
  BY <1>1, <1>3, DoingTyped, CompleteTyped, PicturesTyped DEF FwChange, TypeInv, WorkTypes
<1>4. CASE FwPicture
  <2> DEFINE pics == held \cup {Head(queue)}
  <2>1. queue # << >> /\ Len(reports) < QueueDepth /\ pics \subseteq Pictures
    BY <1>4, DoingTyped DEF FwPicture, WorkTypes
  <2>2. CASE Encode(pics)
    BY <1>1, <2>1, <2>2, EncodeTyped DEF TypeInv
  <2>3. CASE held' = pics /\ Complete([kind |-> "delay"]) /\ UNCHANGED bits
    BY <1>1, <2>1, <2>3, CompleteTyped, PicturesTyped DEF TypeInv, WorkTypes
  <2> QED
    BY <1>4, <2>2, <2>3 DEF FwPicture
<1>5. CASE FwFlush
  <2>1. queue # << >> /\ Len(reports) < QueueDepth /\ held \subseteq Pictures
    BY <1>5, DoingTyped DEF FwFlush, WorkTypes
  <2>2. CASE Encode(held)
    BY <1>1, <2>1, <2>2, EncodeTyped DEF TypeInv
  <2>3. CASE Complete([kind |-> "delay"]) /\ UNCHANGED <<held, bits>>
    BY <1>1, <2>1, <2>3, CompleteTyped, PicturesTyped DEF TypeInv, WorkTypes
  <2> QED
    BY <1>5, <2>2, <2>3 DEF FwFlush
<1>6. CASE InterruptHandler
  <2>1. irq \in 0 .. IrqMax /\ IrqMax \in Nat
    BY SourcesAreSlots DEF WorkTypes
  <2>2. irq' \in 0 .. IrqMax
    BY <1>6, <2>1 DEF InterruptHandler
  <2>3. done' \in BOOLEAN
    BY <1>6 DEF InterruptHandler
  <2> QED
    BY <1>1, <1>6, <2>2, <2>3, WorkKept DEF InterruptHandler, TypeInv
<1>7. CASE TimePasses
  BY <1>1, <1>7, WorkKept, InterruptTyped DEF TimePasses, TypeInv, WorkTypes
<1> QED
  BY <1>2, <1>3, <1>4, <1>5, <1>6, <1>7 DEF Firmware

(***************************************************************************)
(* The pictures in flight                                                  *)
(***************************************************************************)

LEMMA AppendPictures ==
  ASSUME NEW S, NEW seq \in Seq(S), NEW x \in S
  PROVE  /\ PicturesOf(seq) \subseteq PicturesOf(Append(seq, x))
         /\ PicturesOf(Append(seq, x)) \subseteq PicturesOf(seq) \cup {x}
         /\ x.kind # "pic" => PicturesOf(Append(seq, x)) = PicturesOf(seq)
<1>1. /\ Append(seq, x) \in Seq(S)
      /\ DOMAIN Append(seq, x) = 1 .. Len(seq) + 1 /\ DOMAIN seq = 1 .. Len(seq)
      /\ Len(seq) \in Nat
      /\ \A i \in 1 .. Len(seq) : Append(seq, x)[i] = seq[i]
      /\ Append(seq, x)[Len(seq) + 1] = x
  BY AppendProperties, LenProperties
<1> QED
  BY <1>1 DEF PicturesOf

LEMMA TailPictures ==
  ASSUME NEW S, NEW seq \in Seq(S), seq # << >>
  PROVE  /\ PicturesOf(Tail(seq)) \subseteq PicturesOf(seq)
         /\ Head(seq).kind = "pic" => Head(seq) \in PicturesOf(seq)
<1>1. /\ DOMAIN Tail(seq) = 1 .. Len(seq) - 1 /\ DOMAIN seq = 1 .. Len(seq)
      /\ Len(seq) \in Nat /\ Len(seq) > 0
      /\ \A i \in 1 .. Len(seq) - 1 : Tail(seq)[i] = seq[i + 1]
      /\ Head(seq) = seq[1]
  BY HeadTailProperties, LenProperties, EmptySeq
<1> QED
  BY <1>1 DEF PicturesOf

LEMMA DistinctTail ==
  ASSUME NEW S, NEW seq \in Seq(S), seq # << >>, DistinctIn(seq)
  PROVE  /\ DistinctIn(Tail(seq))
         /\ Head(seq).kind = "pic" => \A p \in PicturesOf(Tail(seq)) : p.src # Head(seq).src
<1>1. /\ DOMAIN Tail(seq) = 1 .. Len(seq) - 1 /\ DOMAIN seq = 1 .. Len(seq)
      /\ Len(seq) \in Nat /\ Len(seq) > 0
      /\ \A i \in 1 .. Len(seq) - 1 : Tail(seq)[i] = seq[i + 1]
      /\ Head(seq) = seq[1]
  BY HeadTailProperties, LenProperties, EmptySeq
<1> QED
  BY <1>1, SMTT(30) DEF DistinctIn, PictureAt, PicturesOf

LEMMA DistinctAppend ==
  ASSUME NEW S, NEW seq \in Seq(S), NEW x \in S, DistinctIn(seq),
         x.kind = "pic" => \A p \in PicturesOf(seq) : p.src # x.src
  PROVE  DistinctIn(Append(seq, x))
<1>1. /\ DOMAIN Append(seq, x) = 1 .. Len(seq) + 1 /\ DOMAIN seq = 1 .. Len(seq)
      /\ Len(seq) \in Nat
      /\ \A i \in 1 .. Len(seq) : Append(seq, x)[i] = seq[i]
      /\ Append(seq, x)[Len(seq) + 1] = x
  BY AppendProperties, LenProperties
<1> QED
  BY <1>1 DEF DistinctIn, PictureAt, PicturesOf

LEMMA NoPictures == PicturesOf(<< >>) = {} /\ DistinctIn(<< >>)
  BY EmptySeq DEF PicturesOf, DistinctIn

\* What a step may do with the work and keep the invariant: nothing new is in flight.
WorkShrinks == InFlight' \subseteq InFlight /\ DistinctInv'

LEMMA IdleShrinks == DistinctInv /\ UNCHANGED workVars => WorkShrinks
  BY DEF WorkShrinks, InFlight, Unread, DistinctInv, workVars

LEMMA LoseShrinks == LoseWork => WorkShrinks
  BY NoPictures DEF LoseWork, WorkShrinks, InFlight, Unread, DistinctInv, Disjoint

LEMMA IssueShrinks ==
  ASSUME WorkTypes, DistinctInv, NEW cmd \in Commands, cmd.kind # "pic", Issue(cmd)
  PROVE  WorkShrinks
<1>1. PicturesOf(queue') = PicturesOf(queue)
  BY AppendPictures DEF WorkTypes, Issue
<1>2. DistinctIn(queue')
  BY DistinctAppend DEF WorkTypes, Issue, DistinctInv
<1> QED
  BY <1>1, <1>2 DEF WorkShrinks, InFlight, Unread, DistinctInv, Issue

LEMMA TakeShrinks ==
  ASSUME WorkTypes, DistinctInv, reports # << >>, TakeReport
  PROVE  WorkShrinks
<1>1. PicturesOf(reports') \subseteq PicturesOf(reports) /\ DistinctIn(reports')
  BY TailPictures, DistinctTail DEF WorkTypes, TakeReport, DistinctInv
<1> QED
  BY <1>1 DEF WorkShrinks, InFlight, Unread, DistinctInv, Disjoint, TakeReport

\* The pictures the firmware chooses from: those it holds, and one from the queue's head.
Taken(pics) == \/ pics = held
               \/ Head(queue).kind = "pic" /\ pics = held \cup {Head(queue)}

LEMMA TakenApart ==
  ASSUME WorkTypes, DistinctInv, queue # << >>, NEW pics, Taken(pics)
  PROVE  /\ pics \subseteq Unread
         /\ \A p, q \in pics : p # q => p.src # q.src
         /\ PicturesOf(Tail(queue)) \subseteq PicturesOf(queue)
         /\ DistinctIn(Tail(queue))
         /\ Disjoint(PicturesOf(Tail(queue)), pics)
         /\ Disjoint(pics, PicturesOf(reports))
         /\ Disjoint(PicturesOf(Tail(queue)), PicturesOf(reports))
<1>1. /\ PicturesOf(Tail(queue)) \subseteq PicturesOf(queue)
      /\ Head(queue).kind = "pic" => Head(queue) \in PicturesOf(queue)
  BY TailPictures DEF WorkTypes
<1>2. /\ DistinctIn(Tail(queue))
      /\ Head(queue).kind = "pic" =>
            \A p \in PicturesOf(Tail(queue)) : p.src # Head(queue).src
  BY DistinctTail DEF WorkTypes, DistinctInv
<1> QED
  BY <1>1, <1>2 DEF Taken, Unread, Disjoint, DistinctInv

\* The firmware reports something that is no picture.
LEMMA ReportShrinks ==
  ASSUME WorkTypes, DistinctInv, queue # << >>, NEW report \in Reports, report.kind # "pic",
         Complete(report), NEW pics, Taken(pics), held' \subseteq pics
  PROVE  WorkShrinks
<1>1. PicturesOf(reports') = PicturesOf(reports)
  BY AppendPictures DEF WorkTypes, Complete
<1>2. DistinctIn(reports')
  BY DistinctAppend DEF WorkTypes, Complete, DistinctInv
<1>3. queue' = Tail(queue)
  BY DEF Complete
<1>4. InFlight' \subseteq InFlight
  BY <1>1, <1>3, TakenApart DEF InFlight, Unread
<1>5. DistinctInv'
  BY <1>1, <1>2, <1>3, TakenApart DEF DistinctInv, Unread, Disjoint
<1> QED
  BY <1>4, <1>5 DEF WorkShrinks

\* The firmware reports a picture.
LEMMA CodedShrinks ==
  ASSUME WorkTypes, DistinctInv, queue # << >>, NEW pics \in SUBSET Pictures, Taken(pics),
         NEW p \in pics, Complete(p), held' = pics \ {p}
  PROVE  WorkShrinks
<1>1. PicturesOf(reports') \subseteq PicturesOf(reports) \cup {p}
  BY AppendPictures, PicturesTyped DEF WorkTypes, Complete
<1>2. DistinctIn(reports')
  <2>1. \A q \in PicturesOf(reports) : q.src # p.src
    BY TakenApart DEF Disjoint
  <2> QED
    BY <2>1, DistinctAppend, PicturesTyped DEF WorkTypes, Complete, DistinctInv
<1>3. queue' = Tail(queue)
  BY DEF Complete
<1>4. InFlight' \subseteq InFlight
  BY <1>1, <1>3, TakenApart DEF InFlight, Unread
<1>5. DistinctInv'
  <2>1. Disjoint(PicturesOf(queue'), held')
    BY <1>3, TakenApart DEF Disjoint
  <2>2. Disjoint(Unread', PicturesOf(reports'))
    BY <1>1, <1>3, TakenApart DEF Disjoint, Unread
  <2>3. \A q, r \in held' : q # r => q.src # r.src
    BY TakenApart
  <2> QED
    BY <1>2, <1>3, <2>1, <2>2, <2>3, TakenApart DEF DistinctInv
<1> QED
  BY <1>4, <1>5 DEF WorkShrinks

LEMMA EncodeShrinks ==
  ASSUME WorkTypes, DistinctInv, queue # << >>, NEW pics \in SUBSET Pictures, Taken(pics),
         Encode(pics)
  PROVE  WorkShrinks
<1>1. PICK p \in Encodable(pics) :
        /\ held' = pics \ {p}
        /\ Complete(p) \/ Complete([kind |-> "fail"]) \/ Complete([kind |-> "vlc_full"])
  BY DEF Encode
<1>2. p \in pics
  BY <1>1 DEF Encodable
<1>3. CASE Complete(p)
  BY <1>1, <1>2, <1>3, CodedShrinks
<1>4. CASE Complete([kind |-> "fail"])
  BY <1>1, <1>4, ReportShrinks, PicturesTyped
<1>5. CASE Complete([kind |-> "vlc_full"])
  BY <1>1, <1>5, ReportShrinks, PicturesTyped
<1> QED
  BY <1>1, <1>3, <1>4, <1>5

LEMMA FirmwareShrinks ==
  ASSUME WorkTypes, DistinctInv, Firmware
  PROVE  WorkShrinks
<1>1. CASE FwHeader
  <2>1. held' = held /\ Taken(held) /\ queue # << >>
    BY <1>1, DoingTyped DEF FwHeader, Taken
  <2>2. Complete(Header) \/ Complete([kind |-> "fail"])
    BY <1>1 DEF FwHeader
  <2>3. Header.kind # "pic"
    BY DEF Header
  <2> QED
    BY <2>1, <2>2, <2>3, ReportShrinks, PicturesTyped
<1>2. CASE FwChange
  <2>1. held' = held /\ Taken(held) /\ queue # << >>
    BY <1>2, DoingTyped DEF FwChange, Taken
  <2>2. Change.kind # "pic"
    BY DEF Change
  <2> QED
    BY <1>2, <2>1, <2>2, ReportShrinks, PicturesTyped DEF FwChange
<1>3. CASE FwPicture
  <2> DEFINE pics == held \cup {Head(queue)}
  <2>1. queue # << >> /\ pics \in SUBSET Pictures /\ Taken(pics)
    BY <1>3, DoingTyped DEF FwPicture, Taken, WorkTypes
  <2>2. CASE Encode(pics)
    BY <2>1, <2>2, EncodeShrinks
  <2>3. CASE held' = pics /\ Complete([kind |-> "delay"])
    BY <2>1, <2>3, ReportShrinks, PicturesTyped
  <2> QED
    BY <1>3, <2>2, <2>3 DEF FwPicture
<1>4. CASE FwFlush
  <2>1. queue # << >> /\ held \in SUBSET Pictures /\ Taken(held)
    BY <1>4, DoingTyped DEF FwFlush, Taken, WorkTypes
  <2>2. CASE Encode(held)
    BY <2>1, <2>2, EncodeShrinks
  <2>3. CASE held' = held /\ Complete([kind |-> "delay"])
    BY <2>1, <2>3, ReportShrinks, PicturesTyped
  <2> QED
    BY <1>4, <2>2, <2>3 DEF FwFlush
<1> QED
  BY <1>1, <1>2, <1>3, <1>4 DEF Firmware

\* With nothing new in flight, and the context's links and slots alone, the invariant stays.
FrameInv == FlightInv /\ LinkInv /\ StartInv

LEMMA FrameKept ==
  ASSUME FrameInv, InFlight' \subseteq InFlight, busy \subseteq busy', srcInUse \subseteq srcInUse',
         UNCHANGED <<frameIO, memOf, srcIdx>>, pc' = "start" => pc = "start"
  PROVE  FrameInv'
  BY DEF FrameInv, FlightInv, LinkInv, StartInv, StartedSlot

LEMMA FrameIdle ==
  ASSUME FrameInv, WorkShrinks, UNCHANGED <<ctxVars, srcInUse>>, pc' = "start" => pc = "start"
  PROVE  FrameInv' /\ DistinctInv'
  BY FrameKept DEF WorkShrinks, ctxVars

LEMMA HeaderKeeps ==
  TypeInv /\ DistinctInv /\ FrameInv /\ HeaderStep => FrameInv' /\ DistinctInv'
<1> SUFFICES ASSUME WorkTypes, DistinctInv, FrameInv, HeaderStep PROVE FrameInv' /\ DistinctInv'
  BY DEF TypeInv
<1>1. UNCHANGED <<ctxVars, srcInUse>>
  BY DEF HeaderStep, HeaderCall, HeaderIssue, HeaderWait, HeaderFetch
<1>2. pc' = "start" => pc = "start"
  BY DEF HeaderStep, HeaderCall, HeaderIssue, HeaderWait, HeaderFetch, HeaderAgain, GoTo, Return
<1>3. WorkShrinks
  <2>1. CASE UNCHANGED workVars
    BY <2>1, IdleShrinks
  <2>2. CASE LoseWork
    BY <2>2, LoseShrinks
  <2>3. CASE Issue(Header)
    BY <2>3, IssueShrinks, PicturesTyped DEF Header
  <2>4. CASE reports # << >> /\ TakeReport
    BY <2>4, TakeShrinks
  <2> QED
    BY <2>1, <2>2, <2>3, <2>4
    DEF HeaderStep, HeaderCall, HeaderIssue, HeaderWait, HeaderFetch, SWReset, TakeReportAndReset
<1> QED
  BY <1>1, <1>2, <1>3, FrameIdle

LEMMA CallerKeeps ==
  TypeInv /\ DistinctInv /\ FrameInv /\ CallerStep => FrameInv' /\ DistinctInv'
<1> SUFFICES ASSUME ContextTypes, CallTypes, WorkTypes, DistinctInv, FrameInv, CallerStep
             PROVE  FrameInv' /\ DistinctInv'
  BY DEF TypeInv
<1>1. UNCHANGED workVars
  BY DEF CallerStep, SetInput, SetInputRefused, ChangeParam
<1>2. InFlight' = InFlight /\ DistinctInv'
  BY <1>1, IdleShrinks DEF WorkShrinks, workVars, InFlight, Unread
<1>3. ASSUME NEW slot \in Slot, NEW copied \in BOOLEAN, SetInput(slot, copied) PROVE FrameInv'
  <2>1. slot \notin busy
    BY <1>3 DEF SetInput, Picks, FirstOf, FreeSlots
  <2>2. \A p \in InFlight : p.slot \in busy /\ p.slot # slot
    BY <2>1 DEF FrameInv, FlightInv
  <2>3. /\ frameIO' = [frameIO EXCEPT ![slot] = offered + 1]
        /\ memOf' = [memOf EXCEPT ![srcIdx] = slot]
        /\ UNCHANGED <<srcIdx, srcInUse>>
    BY <1>3 DEF SetInput, Link
  <2>4. \/ busy' = busy \cup {slot} /\ pc' = "start"
        \/ busy' = busy /\ pc' = pc /\ pc = "idle"
    BY <1>3 DEF SetInput, GoTo, callVars, CallerMayOffer
  <2>5. FlightInv'
    BY <1>2, <2>2, <2>3, <2>4 DEF FrameInv, FlightInv, ContextTypes
  <2>6. LinkInv'
    BY <1>2, <2>2, <2>3 DEF FrameInv, LinkInv, ContextTypes
  <2>7. StartInv'
    <3>1. StartedSlot' = slot
      BY <2>3 DEF StartedSlot, ContextTypes
    <3>2. offered + 1 # NoFrame /\ frameIO'[slot] = offered + 1
      <4>1. offered \in Nat
        <5>1. offered \in 0 .. FrameMax
          BY DEF CallTypes
        <5> QED
          BY <5>1
      <4>2. offered + 1 # NoFrame
        BY <4>1 DEF NoFrame
      <4>3. frameIO'[slot] = offered + 1
        BY <2>3 DEF ContextTypes
      <4> QED
        BY <4>2, <4>3
    <3> QED
      BY <1>2, <2>2, <2>4, <3>1, <3>2 DEF StartInv
  <2> QED
    BY <2>5, <2>6, <2>7 DEF FrameInv
<1>4. CASE SetInputRefused \/ ChangeParam
  <2>1. UNCHANGED <<busy, frameIO, memOf, srcIdx, srcInUse, pc>>
    BY <1>4 DEF SetInputRefused, ChangeParam, ctxVars, callVars
  <2> QED
    BY <1>2, <2>1, FrameKept
<1> QED
  BY <1>2, <1>3, <1>4 DEF CallerStep

\* The report of a picture is taken, its source given free, and its slot left as it is.
LEMMA RetiredKeeps ==
  ASSUME WorkTypes, DistinctInv, FrameInv, UNCHANGED ctxVars, pc' # "start",
         reports # << >>, Head(reports).kind = "pic", TakeReport \/ LoseWork,
         Retire(Head(reports).src)
  PROVE  FrameInv' /\ DistinctInv'
<1> DEFINE r == Head(reports)
<1>1. WorkShrinks
  BY TakeShrinks, LoseShrinks
<1>2. \A p \in InFlight' : p.src # r.src
  <2>1. CASE LoseWork
    BY <2>1, NoPictures DEF LoseWork, InFlight, Unread
  <2>2. CASE TakeReport
    <3>1. r \in PicturesOf(reports)
      BY TailPictures DEF WorkTypes
    <3>2. \A p \in PicturesOf(reports') : p.src # r.src
      BY <2>2, DistinctTail DEF WorkTypes, DistinctInv, TakeReport
    <3>3. \A p \in Unread : p.src # r.src
      BY <3>1 DEF DistinctInv, Disjoint
    <3>4. Unread' = Unread
      BY <2>2 DEF TakeReport, Unread
    <3> QED
      BY <3>2, <3>3, <3>4 DEF InFlight
  <2> QED
    BY <2>1, <2>2
<1>3. srcInUse' = srcInUse \ {r.src}
  BY DEF Retire
<1> HIDE DEF r
<1> QED
  BY <1>1, <1>2, <1>3
  DEF WorkShrinks, FrameInv, FlightInv, LinkInv, StartInv, ctxVars

\* A call that tries again changes nothing that matters here.
LEMMA AgainKeeps ==
  ASSUME WorkTypes, DistinctInv, FrameInv, TryAgain
  PROVE  FrameInv' /\ DistinctInv'
<1>1. WorkShrinks
  BY IdleShrinks DEF TryAgain
<1> QED
  BY <1>1, FrameIdle DEF TryAgain

LEMMA NALKeeps ==
  TypeInv /\ DistinctInv /\ FrameInv /\ NALStep => FrameInv' /\ DistinctInv'
<1> SUFFICES ASSUME ContextTypes, WorkTypes, DistinctInv, FrameInv, NALStep
             PROVE  FrameInv' /\ DistinctInv'
  BY DEF TypeInv
<1>1. CASE SendChange
  <2>1. WorkShrinks
    BY <1>1, IdleShrinks, IssueShrinks, PicturesTyped DEF SendChange, Change
  <2>2. UNCHANGED <<busy, frameIO, memOf, srcIdx, srcInUse>> /\ pc = "start"
    BY <1>1 DEF SendChange
  <2> QED
    BY <2>1, <2>2, FrameKept DEF WorkShrinks
<1>2. CASE StartOneFrame
  <2> DEFINE n == [kind |-> "pic", src |-> srcIdx, slot |-> StartedSlot,
                   frame |-> frameIO[StartedSlot]]
  <2>0. n \in Pictures /\ StartedSlot \in busy /\ (\A p \in InFlight : p.slot # StartedSlot)
    <3>1. StartInv /\ pc = "start"
      BY <1>2 DEF StartOneFrame, Starting, FrameInv
    <3>2. frameIO[StartedSlot] \in Frame
      BY <3>1 DEF StartInv, StartedSlot, ContextTypes
    <3> QED
      BY <1>2, <3>1, <3>2, StartedTyped DEF StartInv
  <2>1. queue' = Append(queue, n) /\ UNCHANGED <<held, reports, busy, frameIO, memOf>>
    BY <1>2 DEF StartOneFrame, Issue
  <2>2. srcInUse' = srcInUse \cup {srcIdx} /\ pc' = "wait" /\ srcIdx \notin srcInUse
    BY <1>2 DEF StartOneFrame, GoTo, SrcRefused
  <2>3. PicturesOf(queue') \subseteq PicturesOf(queue) \cup {n} /\ InFlight' \subseteq InFlight \cup {n}
    <3>1. PicturesOf(queue') \subseteq PicturesOf(queue) \cup {n}
      BY <2>0, <2>1, AppendPictures, PicturesTyped DEF WorkTypes
    <3> QED
      BY <2>1, <3>1 DEF InFlight, Unread
  <2>4. \A p \in InFlight : p.src # srcIdx /\ memOf[p.src] = p.slot
    BY <2>2 DEF FrameInv, FlightInv, LinkInv
  <2>5. n.src = srcIdx /\ n.slot = StartedSlot /\ n.frame = frameIO[StartedSlot]
    OBVIOUS
  <2> HIDE DEF n
  <2>6. FlightInv'
    BY <2>0, <2>1, <2>2, <2>3, <2>5 DEF FrameInv, FlightInv
  <2>7. LinkInv'
    <3>1. \A p \in InFlight' : memOf'[p.src] = p.slot
      BY <2>1, <2>3, <2>4, <2>5 DEF StartedSlot
    <3>2. \A p, q \in InFlight' : p.src # q.src => p.slot # q.slot
      <4>1. \A p, q \in InFlight : p.src # q.src => p.slot # q.slot
        BY <2>4 DEF FrameInv, LinkInv
      <4> QED
        BY <2>0, <2>3, <2>5, <4>1
    <3> QED
      BY <3>1, <3>2 DEF LinkInv
  <2>8. StartInv'
    BY <2>2 DEF StartInv
  <2>9. DistinctInv'
    <3>1. DistinctIn(queue')
      <4>1. \A p \in PicturesOf(queue) : p.src # n.src
        BY <2>4, <2>5 DEF InFlight, Unread
      <4> QED
        BY <2>0, <2>1, <4>1, DistinctAppend, PicturesTyped DEF WorkTypes, DistinctInv
    <3>2. Disjoint(PicturesOf(queue'), held')
      BY <2>1, <2>3, <2>4, <2>5 DEF Disjoint, DistinctInv, InFlight, Unread
    <3>3. Disjoint(Unread', PicturesOf(reports'))
      BY <2>1, <2>3, <2>4, <2>5 DEF Disjoint, DistinctInv, InFlight, Unread
    <3> QED
      BY <2>1, <3>1, <3>2, <3>3 DEF DistinctInv
  <2> QED
    BY <2>6, <2>7, <2>8, <2>9 DEF FrameInv
<1>3. CASE StartFailed
  <2>1. InFlight' = InFlight /\ DistinctInv'
    BY <1>3, IdleShrinks DEF StartFailed, WorkShrinks, workVars, InFlight, Unread
  <2>2. /\ busy' = busy \ {StartedSlot} /\ pc' = "idle" /\ pc = "start"
        /\ UNCHANGED <<frameIO, memOf, srcIdx, srcInUse>>
    BY <1>3 DEF StartFailed, Starting, FreeSlot, FailedSlot, StartedSlot, Return
  <2> QED
    BY <2>1, <2>2 DEF FrameInv, FlightInv, LinkInv, StartInv
<1>4. CASE StartQueueFull \/ FetchNothing
  <2>1. WorkShrinks
    BY <1>4, IdleShrinks DEF StartQueueFull, FetchNothing
  <2> QED
    BY <1>4, <2>1, FrameIdle DEF StartQueueFull, FetchNothing, GoTo, Return
<1>5. CASE Wait
  <2>1. WorkShrinks
    BY <1>5, IdleShrinks, LoseShrinks DEF Wait, SWReset
  <2>2. pc' # "start"
    BY <1>5 DEF Wait, GoTo, Return
  <2> QED
    BY <1>5, <2>1, <2>2, FrameIdle DEF Wait
<1>6. CASE FetchAgain \/ FetchDelay
  <2>1. WorkShrinks
    BY <1>6, TakeShrinks DEF FetchAgain, FetchDelay, Fetching
  <2> QED
    BY <1>6, <2>1, FrameIdle DEF FetchAgain, FetchDelay, GoTo, Return
<1>7. CASE FetchFailed
  <2>1. WorkShrinks
    BY <1>7, TakeShrinks, LoseShrinks DEF FetchFailed, Fetching, TakeReportAndReset
  <2> QED
    BY <1>7, <2>1, FrameIdle DEF FetchFailed, Return
<1>8. CASE FetchPicture
  <2> DEFINE r == Head(reports)
  <2>1. reports # << >> /\ r.kind = "pic" /\ TakeReport
    BY <1>8 DEF FetchPicture, Fetching
  <2>2. WorkShrinks
    BY <2>1, TakeShrinks
  <2>3. r \in InFlight /\ \A p \in InFlight' : p.src # r.src
    <3>1. r \in PicturesOf(reports)
      BY <2>1, TailPictures DEF WorkTypes
    <3>2. \A p \in PicturesOf(reports') : p.src # r.src
      BY <2>1, DistinctTail DEF WorkTypes, DistinctInv, TakeReport
    <3>3. \A p \in Unread : p.src # r.src
      BY <3>1 DEF DistinctInv, Disjoint
    <3>4. Unread' = Unread
      BY <2>1 DEF TakeReport, Unread
    <3> QED
      BY <3>1, <3>2, <3>3, <3>4 DEF InFlight
  <2>4. /\ busy' = busy \ {memOf[r.src]} /\ srcInUse' = srcInUse \ {r.src}
        /\ pc' = "idle" /\ UNCHANGED <<frameIO, memOf, srcIdx>>
    BY <1>8 DEF FetchPicture, FreeSlot, Retire, LinkedSlot, Return
  <2>5. \A p \in InFlight' : p.slot # memOf[r.src] /\ p \in InFlight
    BY <2>2, <2>3 DEF WorkShrinks, FrameInv, LinkInv
  <2> HIDE DEF r
  <2> QED
    BY <2>2, <2>3, <2>4, <2>5 DEF WorkShrinks, FrameInv, FlightInv, LinkInv, StartInv
<1>9. CASE SendAgain \/ StartAgain
  BY <1>9, AgainKeeps DEF SendAgain, StartAgain
<1>10. CASE FetchUnmapFails
  <2>1. /\ UNCHANGED ctxVars /\ pc' # "start" /\ Retire(Head(reports).src)
        /\ reports # << >> /\ Head(reports).kind = "pic" /\ (TakeReport \/ LoseWork)
    BY <1>10 DEF FetchUnmapFails, Fetching, TakeReportAndReset, Return
  <2> QED
    BY <2>1, RetiredKeeps
<1> QED
  BY <1>1, <1>2, <1>3, <1>4, <1>5, <1>6, <1>7, <1>8, <1>9, <1>10 DEF NALStep

LEMMA ReleaseKeeps ==
  TypeInv /\ DistinctInv /\ FrameInv /\ ReleaseStep => FrameInv' /\ DistinctInv'
<1> SUFFICES ASSUME WorkTypes, DistinctInv, FrameInv, ReleaseStep PROVE FrameInv' /\ DistinctInv'
  BY DEF TypeInv
<1>1. CASE Release \/ CloseStillRunning \/ CloseDone
  <2>1. WorkShrinks
    BY <1>1, IdleShrinks, LoseShrinks DEF Release, CloseStillRunning, CloseDone
  <2>2. UNCHANGED <<ctxVars, srcInUse>> /\ pc' # "start"
    BY <1>1 DEF Release, CloseStillRunning, CloseDone, GoTo
  <2> QED
    BY <2>1, <2>2, FrameIdle
<1>2. CASE FlushFrames
  <2>1. WorkShrinks
    BY <1>2, IdleShrinks, IssueShrinks, PicturesTyped DEF FlushFrames, Flush
  <2>2. UNCHANGED ctxVars /\ srcInUse \subseteq srcInUse' /\ pc' # "start"
    BY <1>2 DEF FlushFrames, GoTo
  <2> QED
    BY <2>1, <2>2, FrameKept DEF WorkShrinks, ctxVars
<1>3. CASE CloseWait
  <2> DEFINE r == Head(reports)
  <2>1. UNCHANGED ctxVars /\ pc' # "start"
    BY <1>3 DEF CloseWait, GoTo
  <2>2. CASE reports # << >> /\ r.kind = "pic" /\ TakeReport /\ Retire(r.src)
    BY <2>1, <2>2, RetiredKeeps
  <2>3. CASE reports # << >> /\ TakeReport /\ UNCHANGED srcInUse
    <3>1. WorkShrinks
      BY <2>3, TakeShrinks
    <3> QED
      BY <2>1, <2>3, <3>1, FrameIdle
  <2>4. CASE UNCHANGED <<workVars, srcInUse>>
    <3>1. WorkShrinks
      BY <2>4, IdleShrinks
    <3> QED
      BY <2>1, <2>4, <3>1, FrameIdle
  <2> QED
    BY <1>3, <2>2, <2>3, <2>4 DEF CloseWait
<1>4. CASE FlushAgain
  BY <1>4, AgainKeeps DEF FlushAgain
<1> QED
  BY <1>1, <1>2, <1>3, <1>4 DEF ReleaseStep

LEMMA EnvironmentKeeps ==
  TypeInv /\ DistinctInv /\ FrameInv /\ (Firmware \/ InterruptHandler \/ TimePasses)
    => FrameInv' /\ DistinctInv'
<1> SUFFICES ASSUME WorkTypes, DistinctInv, FrameInv, Firmware \/ InterruptHandler \/ TimePasses
             PROVE  FrameInv' /\ DistinctInv'
  BY DEF TypeInv
<1>1. WorkShrinks
  BY FirmwareShrinks, IdleShrinks DEF InterruptHandler, TimePasses
<1>2. UNCHANGED <<ctxVars, srcInUse, pc>>
  BY DEF Firmware, InterruptHandler, TimePasses, callVars
<1> QED
  BY <1>1, <1>2, FrameIdle

(***************************************************************************)
(* The theorems                                                            *)
(***************************************************************************)

IInv == TypeInv /\ DistinctInv /\ FrameInv

LEMMA InitInv == Init => IInv
<1> SUFFICES ASSUME Init PROVE IInv OBVIOUS
<1>1. InFlight = {} /\ DistinctInv
  BY NoPictures DEF Init, InFlight, Unread, DistinctInv, Disjoint
<1>2. FrameInv
  BY <1>1 DEF Init, FrameInv, FlightInv, LinkInv, StartInv
<1> QED
  BY <1>1, <1>2, InitTypes DEF IInv

LEMMA NextInv == IInv /\ [Next]_vars => IInv'
<1> SUFFICES ASSUME TypeInv, DistinctInv, FrameInv, [Next]_vars PROVE IInv'
  BY DEF IInv
<1>1. CASE HeaderStep
  BY <1>1, HeaderTypes, HeaderKeeps DEF IInv
<1>2. CASE CallerStep
  BY <1>2, CallerTypes, CallerKeeps DEF IInv
<1>3. CASE NALStep
  BY <1>3, NALTypes, NALKeeps DEF IInv, FrameInv
<1>4. CASE ReleaseStep
  BY <1>4, ReleaseTypes, ReleaseKeeps DEF IInv
<1>5. CASE Firmware \/ InterruptHandler \/ TimePasses
  BY <1>5, EnvironmentTypes, EnvironmentKeeps DEF IInv
<1>6. CASE UNCHANGED vars
  <2>1. UNCHANGED <<ctxVars, timer, srcInUse, callVars, callerVars, workVars, irqVars>>
    BY <1>6 DEF vars
  <2>2. TypeInv'
    <3>1. ContextTypes'
      BY <2>1, ContextKept, TimerTyped DEF TypeInv
    <3>2. CallTypes'
      BY <2>1, CallerKept, CallStepTyped DEF TypeInv, callVars, CallTypes
    <3>3. WorkTypes'
      BY <2>1, WorkKept, InterruptTyped DEF TypeInv, WorkTypes
    <3> QED
      BY <3>1, <3>2, <3>3 DEF TypeInv
  <2>3. FrameInv' /\ DistinctInv'
    BY <2>1, IdleShrinks, FrameIdle DEF callVars
  <2> QED
    BY <2>2, <2>3 DEF IInv
<1> QED
  BY <1>1, <1>2, <1>3, <1>4, <1>5, <1>6 DEF Next, Terminating

\* Every variable of an encoder context keeps its type, so that no index of
\* AML_MultiEncoder.c leaves its array and the firmware's queues keep to their depth.
THEOREM TypeCorrect == Spec => []TypeInv
<1>1. IInv => TypeInv
  BY DEF IInv
<1> QED
  BY <1>1, InitInv, NextInv, PTL DEF Spec

\* Until the firmware has encoded a picture, AML_MultiEncSetInput does not give its slot to
\* another frame, whatever fails, is refused, times out or is lost on the way.
THEOREM SlotsAreSafe == Spec => []PixelsIntact
<1>1. IInv => PixelsIntact
  BY DEF IInv, FrameInv, FlightInv, InFlight, PixelsIntact
<1> QED
  BY <1>1, InitInv, NextInv, PTL DEF Spec

\* The sources in flight differ and are all marked in use, so that srcBufUseIndex is enough
\* for VPU_EncStartOneFrame to refuse a source the firmware still has.
SourcesMarked == /\ DistinctInv
                 /\ \A p \in InFlight : p.src \in srcInUse

THEOREM SourcesAreSafe == Spec => []SourcesMarked
<1>1. IInv => SourcesMarked
  BY DEF IInv, FrameInv, FlightInv, SourcesMarked
<1> QED
  BY <1>1, InitInv, NextInv, PTL DEF Spec

(***************************************************************************)
(* What is given back                                                      *)
(***************************************************************************)

\* What a step of the firmware does with the pictures it chooses from: it encodes one,
\* fails to, or passes them on.
Coded(pics) == \E p \in Encodable(pics) : /\ held' = pics \ {p}
                                          /\ Complete(p)
                                          /\ bits' = [bits EXCEPT ![p.slot] = p.frame]
Failed(pics) == /\ Faults \cap {"encode", "vlc_full"} # {}
                /\ \E report \in Reports : report.kind \in {"fail", "vlc_full"} /\ Complete(report)
                /\ UNCHANGED bits
                /\ held' = pics \/ \E p \in Encodable(pics) : held' = pics \ {p}
Passed(pics) ==
    /\ held' = pics
    /\ \E report \in Reports : report.kind \in {"header", "change", "delay"} /\ Complete(report)
    /\ \/ UNCHANGED bits
       \/ Head(queue).kind = "header" /\ bits' = [bits EXCEPT ![0] = HeaderBits]

LEMMA EncodeDoes ==
  ASSUME NEW pics, Encode(pics)
  PROVE  Coded(pics) \/ Failed(pics)
<1>1. PICK p \in Encodable(pics) :
        /\ held' = pics \ {p}
        /\ \/ Complete(p) /\ bits' = [bits EXCEPT ![p.slot] = p.frame]
           \/ "encode" \in Faults /\ Complete([kind |-> "fail"]) /\ UNCHANGED bits
           \/ "vlc_full" \in Faults /\ Complete([kind |-> "vlc_full"]) /\ UNCHANGED bits
  BY DEF Encode
<1>2. CASE Complete(p) /\ bits' = [bits EXCEPT ![p.slot] = p.frame]
  BY <1>1, <1>2 DEF Coded
<1>3. CASE "encode" \in Faults /\ Complete([kind |-> "fail"]) /\ UNCHANGED bits
  <2> DEFINE fail == [kind |-> "fail"]
  <2>1. fail \in Reports /\ fail.kind = "fail" /\ Complete(fail)
    BY <1>3, PicturesTyped
  <2> HIDE DEF fail
  <2> QED
    BY <1>1, <1>3, <2>1 DEF Failed
<1>4. CASE "vlc_full" \in Faults /\ Complete([kind |-> "vlc_full"]) /\ UNCHANGED bits
  <2> DEFINE full == [kind |-> "vlc_full"]
  <2>1. full \in Reports /\ full.kind = "vlc_full" /\ Complete(full)
    BY <1>4, PicturesTyped
  <2> HIDE DEF full
  <2> QED
    BY <1>1, <1>4, <2>1 DEF Failed
<1> QED
  BY <1>1, <1>2, <1>3, <1>4

LEMMA FirmwareDoes ==
  ASSUME WorkTypes, Firmware
  PROVE  /\ queue # << >> /\ Len(reports) < QueueDepth
         /\ \E pics \in SUBSET Pictures : /\ Taken(pics)
                                          /\ Head(queue).kind = "pic" => Head(queue) \in pics
                                          /\ Coded(pics) \/ Failed(pics) \/ Passed(pics)
<1> DEFINE delay == [kind |-> "delay"]
           fail == [kind |-> "fail"]
<1>0. /\ delay \in Reports /\ delay.kind = "delay"
      /\ fail \in Reports /\ fail.kind = "fail"
      /\ Header \in Reports /\ Header.kind = "header"
      /\ Change \in Reports /\ Change.kind = "change"
  BY PicturesTyped DEF Header, Change
<1> HIDE DEF delay, fail
<1>1. CASE FwHeader
  <2>1. /\ held \in SUBSET Pictures /\ Taken(held) /\ queue # << >> /\ Len(reports) < QueueDepth
        /\ Head(queue).kind # "pic"
    BY <1>1, DoingTyped DEF FwHeader, Taken, WorkTypes
  <2>2. CASE Complete(Header) /\ bits' = [bits EXCEPT ![0] = HeaderBits]
    BY <1>0, <1>1, <2>1, <2>2, DoingTyped DEF FwHeader, Passed
  <2>3. CASE "encode" \in Faults /\ Complete(fail) /\ UNCHANGED bits
    BY <1>0, <1>1, <2>1, <2>3 DEF FwHeader, Failed
  <2> QED
    BY <1>1, <2>2, <2>3 DEF FwHeader, fail
<1>2. CASE FwChange
  <2>1. /\ held \in SUBSET Pictures /\ Taken(held) /\ queue # << >> /\ Len(reports) < QueueDepth
        /\ Head(queue).kind # "pic"
    BY <1>2, DoingTyped DEF FwChange, Taken, WorkTypes
  <2> QED
    BY <1>0, <1>2, <2>1 DEF FwChange, Passed
<1>3. CASE FwPicture
  <2> DEFINE pics == held \cup {Head(queue)}
  <2>1. /\ queue # << >> /\ Len(reports) < QueueDepth
        /\ pics \in SUBSET Pictures /\ Taken(pics) /\ Head(queue) \in pics
    BY <1>3, DoingTyped DEF FwPicture, Taken, WorkTypes
  <2>2. CASE Encode(pics)
    BY <2>1, <2>2, EncodeDoes
  <2>3. CASE held' = pics /\ Complete(delay) /\ UNCHANGED bits
    BY <1>0, <2>1, <2>3 DEF Passed
  <2> QED
    BY <1>3, <2>2, <2>3 DEF FwPicture, delay
<1>4. CASE FwFlush
  <2>1. /\ held \in SUBSET Pictures /\ Taken(held) /\ queue # << >> /\ Len(reports) < QueueDepth
        /\ Head(queue).kind # "pic"
    BY <1>4, DoingTyped DEF FwFlush, Taken, WorkTypes
  <2>2. CASE Encode(held)
    BY <2>1, <2>2, EncodeDoes
  <2>3. CASE Complete(delay) /\ UNCHANGED <<held, bits>>
    BY <1>0, <2>1, <2>3 DEF Passed
  <2> QED
    BY <1>4, <2>2, <2>3 DEF FwFlush, delay
<1> QED
  BY <1>1, <1>2, <1>3, <1>4 DEF Firmware

\* What any other step does with the work.
LEMMA OthersDo ==
  ASSUME [Next]_vars, ~Firmware, ~StartOneFrame
  PROVE  /\ UNCHANGED bits
         /\ \/ UNCHANGED workVars
            \/ LoseWork
            \/ HeaderIssue /\ Issue(Header)
            \/ Issue(Change)
            \/ FlushFrames /\ Issue(Flush)
            \/ reports # << >> /\ TakeReport
<1>1. CASE HeaderStep
  BY <1>1 DEF HeaderStep, HeaderCall, HeaderIssue, HeaderWait, HeaderFetch, SWReset,
     TakeReportAndReset, LoseWork, TakeReport, Issue, workVars
<1>2. CASE CallerStep \/ InterruptHandler \/ TimePasses \/ Terminating \/ UNCHANGED vars
  BY <1>2 DEF CallerStep, SetInput, SetInputRefused, ChangeParam, InterruptHandler, TimePasses,
     Terminating, vars, workVars
<1>3. CASE NALStep
  BY <1>3 DEF NALStep, SendChange, SendAgain, StartAgain, TryAgain, FetchUnmapFails,
     StartQueueFull, StartFailed, Wait, FetchNothing, FetchAgain, FetchDelay, FetchFailed,
     FetchPicture, Fetching, SWReset, TakeReportAndReset, LoseWork, TakeReport, Issue, workVars
<1>4. CASE ReleaseStep
  BY <1>4 DEF ReleaseStep, Release, FlushFrames, FlushAgain, TryAgain, CloseStillRunning,
     CloseDone, CloseWait, LoseWork, TakeReport, Issue, workVars
<1> QED
  BY <1>1, <1>2, <1>3, <1>4 DEF Next

\* A header command is made before the first frame.  One that is still queued then is before
\* all pictures, so that it overwrites nobody's bits.
HeadersLead ==
    /\ pc \in {"header", "header_wait", "header_fetch"} => ~headerDone
    /\ pc = "start" => headerDone
    /\ ~headerDone => InFlight = {}
    /\ \A i \in DOMAIN queue : queue[i].kind = "header" =>
          /\ held = {} /\ PicturesOf(reports) = {}
          /\ \A j \in 1 .. i : queue[j].kind # "pic"

LEMMA AppendAt ==
  ASSUME NEW S, NEW seq \in Seq(S), NEW x \in S
  PROVE  /\ DOMAIN Append(seq, x) = 1 .. Len(seq) + 1 /\ DOMAIN seq = 1 .. Len(seq)
         /\ Len(seq) \in Nat
         /\ \A i \in 1 .. Len(seq) : Append(seq, x)[i] = seq[i]
         /\ Append(seq, x)[Len(seq) + 1] = x
  BY AppendProperties, LenProperties

LEMMA TailAt ==
  ASSUME NEW S, NEW seq \in Seq(S), seq # << >>
  PROVE  /\ DOMAIN Tail(seq) = 1 .. Len(seq) - 1 /\ DOMAIN seq = 1 .. Len(seq)
         /\ Len(seq) \in Nat /\ Len(seq) > 0
         /\ \A i \in 1 .. Len(seq) - 1 : Tail(seq)[i] = seq[i + 1]
         /\ Head(seq) = seq[1]
  BY HeadTailProperties, LenProperties, EmptySeq

\* Before the header is received no picture is issued.
LEMMA HeaderCalls ==
  ASSUME HeadersLead, [Next]_vars
  PROVE  /\ pc' \in {"header", "header_wait", "header_fetch"} => ~headerDone'
         /\ pc' = "start" => headerDone'
         /\ ~headerDone' => ~headerDone /\ ~StartOneFrame
         /\ HeaderIssue => ~headerDone
<1> USE DEF HeadersLead
<1>1. CASE HeaderStep
  BY <1>1 DEF HeaderStep, HeaderCall, HeaderIssue, HeaderWait, HeaderFetch, HeaderAgain, GoTo,
     Return, StartOneFrame, Starting, callerVars
<1>2. CASE CallerStep
  BY <1>2 DEF CallerStep, SetInput, SetInputRefused, ChangeParam, CallerMayOffer, GoTo, callVars,
     StartOneFrame, Starting, HeaderIssue
<1>3. CASE NALStep
  BY <1>3 DEF NALStep, SendChange, SendAgain, StartAgain, TryAgain, FetchUnmapFails,
     StartOneFrame, StartQueueFull, StartFailed, Starting, Wait, FetchNothing, FetchAgain,
     FetchDelay, FetchFailed, FetchPicture, Fetching, GoTo, Return, callVars, callerVars,
     HeaderIssue
<1>4. CASE ReleaseStep
  BY <1>4 DEF ReleaseStep, Release, FlushFrames, FlushAgain, TryAgain, CloseStillRunning,
     CloseDone, CloseWait, GoTo, callerVars, HeaderIssue, StartOneFrame, Starting
<1>5. CASE Firmware \/ InterruptHandler \/ TimePasses \/ Terminating \/ UNCHANGED vars
  <2>1. UNCHANGED <<callVars, callerVars>>
    BY <1>5 DEF Firmware, InterruptHandler, TimePasses, Terminating, vars
  <2>2. UNCHANGED <<pc, tries, headerDone>>
    BY <2>1 DEF callVars, callerVars
  <2> QED
    BY <2>2 DEF HeaderIssue, StartOneFrame, Starting, GoTo
<1> QED
  BY <1>1, <1>2, <1>3, <1>4, <1>5 DEF Next

\* The queue of commands keeps its headers before its pictures.
LEMMA HeadersQueued ==
  ASSUME WorkTypes, DistinctInv, HeadersLead, [Next]_vars
  PROVE  \A i \in DOMAIN queue' : queue'[i].kind = "header" =>
            /\ held' = {} /\ PicturesOf(reports') = {}
            /\ \A j \in 1 .. i : queue'[j].kind # "pic"
<1> DEFINE Lead(q, h, r) == \A i \in DOMAIN q : q[i].kind = "header" =>
              /\ h = {} /\ PicturesOf(r) = {}
              /\ \A j \in 1 .. i : q[j].kind # "pic"
<1>0. Lead(queue, held, reports) /\ queue \in Seq(Commands)
  BY DEF HeadersLead, WorkTypes
<1>1. ASSUME NEW cmd \in Commands, Issue(cmd), cmd.kind # "header"
      PROVE  Lead(queue', held', reports')
  BY <1>0, <1>1, AppendAt DEF Issue
<1>2. CASE HeaderIssue /\ Issue(Header)
  <2>1. InFlight = {} /\ Header \in Commands
    BY <1>2, HeaderCalls, PicturesTyped DEF HeadersLead
  <2>2. /\ DOMAIN queue' = 1 .. Len(queue) + 1 /\ DOMAIN queue = 1 .. Len(queue)
        /\ Len(queue) \in Nat
        /\ \A i \in 1 .. Len(queue) : queue'[i] = queue[i]
        /\ queue'[Len(queue) + 1] = Header
    BY <1>0, <1>2, <2>1, AppendAt DEF Issue
  <2>3. held' = {} /\ PicturesOf(reports') = {} /\ \A j \in 1 .. Len(queue) : queue[j].kind # "pic"
    BY <1>2, <2>1, <2>2 DEF Issue, InFlight, Unread, PicturesOf
  <2>4. Header.kind # "pic"
    BY DEF Header
  <2> QED
    BY <2>2, <2>3, <2>4
<1>3. CASE Firmware
  <2>1. PICK pics \in SUBSET Pictures : /\ Taken(pics)
                                        /\ Coded(pics) \/ Failed(pics) \/ Passed(pics)
    BY <1>3, FirmwareDoes
  <2>2. queue' = Tail(queue) /\ queue # << >>
    BY <1>3, <2>1, FirmwareDoes DEF Coded, Failed, Passed, Complete
  <2>3. SUFFICES ASSUME NEW i \in DOMAIN queue', queue'[i].kind = "header"
                 PROVE  held' = {} /\ PicturesOf(reports') = {} /\ \A j \in 1 .. i : queue'[j].kind # "pic"
    OBVIOUS
  <2>4. /\ i \in Nat /\ i + 1 \in DOMAIN queue /\ queue[i + 1].kind = "header"
        /\ Head(queue) = queue[1] /\ 1 \in 1 .. i + 1
        /\ \A j \in 1 .. i : queue'[j] = queue[j + 1] /\ j + 1 \in 1 .. i + 1
    BY <1>0, <2>2, <2>3, TailAt
  <2>5. /\ held = {} /\ PicturesOf(reports) = {} /\ Head(queue).kind # "pic"
        /\ \A j \in 1 .. i : queue'[j].kind # "pic"
    BY <1>0, <2>4
  <2>6. pics = {} /\ Encodable(pics) = {}
    BY <2>1, <2>5 DEF Taken, Encodable
  <2>7. held' = {} /\ \E report \in Reports : report.kind # "pic" /\ Complete(report)
    BY <2>1, <2>6 DEF Coded, Failed, Passed
  <2>8. PicturesOf(reports') = {}
    BY <2>5, <2>7, AppendPictures DEF Complete, WorkTypes
  <2> QED
    BY <2>5, <2>7, <2>8
<1>4. CASE StartOneFrame
  <2> DEFINE n == [kind |-> "pic", src |-> srcIdx, slot |-> StartedSlot,
                   frame |-> frameIO[StartedSlot]]
  <2>1. queue' = Append(queue, n) /\ UNCHANGED <<held, reports>> /\ n.kind = "pic"
    BY <1>4 DEF StartOneFrame, Issue
  <2> HIDE DEF n
  <2>2. queue \in Seq(Commands \cup {n})
    BY <1>0
  <2> QED
    BY <1>0, <2>1, <2>2, AppendAt
<1>5. CASE ~Firmware /\ ~StartOneFrame
  <2>1. CASE UNCHANGED workVars
    BY <1>0, <2>1 DEF workVars
  <2>2. CASE LoseWork
    BY <2>2 DEF LoseWork
  <2>3. CASE Issue(Change) \/ Issue(Flush)
    BY <1>1, <2>3, PicturesTyped DEF Change, Flush
  <2>4. CASE reports # << >> /\ TakeReport
    BY <1>0, <2>4, TailPictures DEF TakeReport, WorkTypes
  <2> QED
    BY <1>2, <1>5, <2>1, <2>2, <2>3, <2>4, OthersDo
<1> QED
  BY <1>3, <1>4, <1>5

\* Nothing but the start of a frame adds to the pictures in flight.
LEMMA OnlyStartsAdd ==
  ASSUME WorkTypes, DistinctInv, [Next]_vars, ~StartOneFrame
  PROVE  InFlight' \subseteq InFlight
<1>1. CASE Firmware
  BY <1>1, FirmwareShrinks DEF WorkShrinks
<1>2. CASE UNCHANGED workVars \/ LoseWork
  BY <1>2, IdleShrinks, LoseShrinks DEF WorkShrinks
<1>3. CASE \E cmd \in {Header, Change, Flush} : Issue(cmd)
  BY <1>3, IssueShrinks, PicturesTyped DEF WorkShrinks, Header, Change, Flush
<1>4. CASE reports # << >> /\ TakeReport
  BY <1>4, TakeShrinks DEF WorkShrinks
<1> QED
  BY <1>1, <1>2, <1>3, <1>4, OthersDo

LEMMA HeadersKept ==
  WorkTypes /\ DistinctInv /\ HeadersLead /\ [Next]_vars => HeadersLead'
<1> SUFFICES ASSUME WorkTypes, DistinctInv, HeadersLead, [Next]_vars PROVE HeadersLead'
  OBVIOUS
<1>1. ~headerDone' => InFlight' = {}
  BY HeaderCalls, OnlyStartsAdd DEF HeadersLead
<1> QED
  BY <1>1, HeaderCalls, HeadersQueued DEF HeadersLead

\* Two pictures in flight with different sources have different slots.
LEMMA SlotsApart ==
  ASSUME FrameInv, NEW p \in InFlight, NEW q \in InFlight, p.src # q.src
  PROVE  p.slot # q.slot
  BY DEF FrameInv, LinkInv

LEMMA BitsKept ==
  IInv /\ HeadersLead /\ BitsIntact /\ [Next]_vars => BitsIntact'
<1> SUFFICES ASSUME WorkTypes, DistinctInv, FrameInv, HeadersLead, BitsIntact, [Next]_vars
             PROVE  BitsIntact'
  BY DEF IInv, TypeInv
<1>1. CASE Firmware
  <2>1. PICK pics \in SUBSET Pictures : /\ Taken(pics)
                                        /\ Coded(pics) \/ Failed(pics) \/ Passed(pics)
    BY <1>1, FirmwareDoes
  <2>2. queue # << >> /\ reports \in Seq(Reports) /\ bits \in [Slot -> Frame \cup {NoFrame, HeaderBits}]
    BY <1>1, FirmwareDoes DEF WorkTypes
  <2>3. CASE Coded(pics)
    <3>1. PICK p \in pics : Complete(p) /\ bits' = [bits EXCEPT ![p.slot] = p.frame]
      BY <2>3 DEF Coded, Encodable
    <3>2. PicturesOf(reports') \subseteq PicturesOf(reports) \cup {p} /\ p.slot \in Slot
      BY <2>2, <3>1, AppendPictures, PicturesTyped DEF Complete, Pictures
    <3>3. \A q \in PicturesOf(reports) : q.slot # p.slot
      <4>1. p \in Unread /\ \A q \in PicturesOf(reports) : p.src # q.src
        BY <2>1, <2>2, TakenApart DEF Disjoint
      <4> QED
        BY <4>1, SlotsApart DEF InFlight
    <3> QED
      BY <2>2, <3>1, <3>2, <3>3 DEF BitsIntact
  <2>4. CASE Failed(pics)
    <3>1. PicturesOf(reports') = PicturesOf(reports) /\ UNCHANGED bits
      BY <2>2, <2>4, AppendPictures DEF Complete, Failed
    <3> QED
      BY <3>1 DEF BitsIntact
  <2>5. CASE Passed(pics)
    <3>1. PicturesOf(reports') = PicturesOf(reports)
      BY <2>2, <2>5, AppendPictures DEF Complete, Passed
    <3>2. CASE UNCHANGED bits
      BY <3>1, <3>2 DEF BitsIntact
    <3>3. CASE Head(queue).kind = "header"
      <4>1. 1 \in DOMAIN queue /\ Head(queue) = queue[1]
        BY <2>2, TailAt DEF WorkTypes
      <4>2. PicturesOf(reports) = {}
        BY <3>3, <4>1 DEF HeadersLead
      <4> QED
        BY <3>1, <4>2 DEF BitsIntact
    <3> QED
      BY <2>5, <3>2, <3>3 DEF Passed
  <2> QED
    BY <2>1, <2>3, <2>4, <2>5
<1>2. CASE ~Firmware
  <2>1. UNCHANGED bits
    BY <1>2, OthersDo DEF StartOneFrame, Issue
  <2>2. PicturesOf(reports') \subseteq PicturesOf(reports)
    <3>1. CASE UNCHANGED reports
      BY <3>1
    <3>2. CASE LoseWork
      BY <3>2, NoPictures DEF LoseWork
    <3>3. CASE reports # << >> /\ TakeReport
      BY <3>3, TailPictures DEF WorkTypes, TakeReport
    <3> QED
      BY <1>2, <3>1, <3>2, <3>3, OthersDo DEF StartOneFrame, Issue, workVars
  <2> QED
    BY <2>1, <2>2 DEF BitsIntact
<1> QED
  BY <1>1, <1>2

\* Once a frame was started the link of LinkInv holds for the next source too: a frame that
\* was linked to a source in flight is refused, and no result is fetched before another one
\* is started.
ResultsLinked == pc \in {"wait", "fetch"} => \A p \in InFlight : memOf[p.src] = p.slot

LEMMA LinksKept ==
  IInv /\ ResultsLinked /\ [Next]_vars => ResultsLinked'
<1> SUFFICES ASSUME ContextTypes, WorkTypes, DistinctInv, FrameInv, ResultsLinked, [Next]_vars,
                    pc' \in {"wait", "fetch"}
             PROVE  \A p \in InFlight' : memOf'[p.src] = p.slot
  BY DEF IInv, TypeInv, ResultsLinked
<1>0. srcIdx \notin srcInUse => \A p \in InFlight : memOf[p.src] = p.slot
  BY DEF FrameInv, FlightInv, LinkInv
<1>1. CASE StartOneFrame
  <2> DEFINE n == [kind |-> "pic", src |-> srcIdx, slot |-> StartedSlot,
                   frame |-> frameIO[StartedSlot]]
  <2>1. n \in Pictures
    <3>1. frameIO[StartedSlot] \in Frame
      BY <1>1 DEF StartOneFrame, Starting, FrameInv, StartInv, StartedSlot, ContextTypes
    <3> QED
      BY <1>1, <3>1, StartedTyped
  <2>2. /\ queue' = Append(queue, n) /\ UNCHANGED <<held, reports, memOf>>
        /\ srcIdx \notin srcInUse /\ n.src = srcIdx /\ n.slot = memOf[srcIdx]
    BY <1>1 DEF StartOneFrame, Issue, SrcRefused, StartedSlot
  <2> HIDE DEF n
  <2>3. InFlight' \subseteq InFlight \cup {n}
    BY <2>1, <2>2, AppendPictures, PicturesTyped DEF WorkTypes, InFlight, Unread
  <2> QED
    BY <1>0, <2>2, <2>3
<1>2. CASE ~StartOneFrame
  <2>1. InFlight' \subseteq InFlight
    BY <1>2, OnlyStartsAdd
  <2>2. memOf' = memOf /\ (pc \in {"wait", "fetch"} \/ StartQueueFull)
    <3>1. CASE HeaderStep \/ CallerStep \/ ReleaseStep
      BY <3>1 DEF HeaderStep, HeaderCall, HeaderIssue, HeaderWait, HeaderFetch, HeaderAgain,
         CallerStep, SetInput, SetInputRefused, ChangeParam, CallerMayOffer, callVars,
         ReleaseStep, Release, FlushFrames, FlushAgain, TryAgain, CloseStillRunning, CloseDone,
         CloseWait, GoTo, Return
    <3>2. CASE NALStep
      BY <1>2, <3>2 DEF NALStep, SendChange, SendAgain, StartAgain, TryAgain, FetchUnmapFails,
         StartQueueFull, StartFailed, Wait, FetchNothing, FetchAgain, FetchDelay, FetchFailed,
         FetchPicture, Fetching, GoTo, Return, callVars, ctxVars
    <3>3. CASE Firmware \/ InterruptHandler \/ TimePasses \/ Terminating \/ UNCHANGED vars
      BY <3>3 DEF Firmware, InterruptHandler, TimePasses, Terminating, vars, callVars, ctxVars
    <3> QED
      BY <3>1, <3>2, <3>3 DEF Next
  <2>3. StartQueueFull => srcIdx \notin srcInUse
    BY DEF StartQueueFull, SrcRefused
  <2> QED
    BY <1>0, <2>1, <2>2, <2>3 DEF ResultsLinked
<1> QED
  BY <1>1, <1>2

LEMMA OutputKept ==
  IInv /\ ResultsLinked /\ BitsIntact /\ OutputMatches /\ [Next]_vars => OutputMatches'
<1> SUFFICES ASSUME WorkTypes, FrameInv, ResultsLinked, BitsIntact, OutputMatches, [Next]_vars
             PROVE  OutputMatches'
  BY DEF IInv, TypeInv
<1>1. CASE FetchPicture
  <2> DEFINE r == Head(reports)
  <2>1. r \in PicturesOf(reports) /\ pc = "fetch"
    BY <1>1, TailPictures DEF FetchPicture, Fetching, WorkTypes
  <2>2. memOf[r.src] = r.slot /\ frameIO[r.slot] = r.frame /\ bits[r.slot] = r.frame
    BY <2>1 DEF ResultsLinked, FrameInv, FlightInv, InFlight, BitsIntact
  <2>3. output' = [frame |-> frameIO[memOf[r.src]], coded |-> r.frame, bits |-> bits[r.slot]]
    BY <1>1 DEF FetchPicture, LinkedSlot
  <2> QED
    BY <2>2, <2>3 DEF OutputMatches
<1>2. CASE ~FetchPicture
  <2>1. output' = output
    <3>1. CASE HeaderStep \/ CallerStep \/ ReleaseStep
      BY <3>1 DEF HeaderStep, HeaderCall, HeaderIssue, HeaderWait, HeaderFetch, CallerStep,
         SetInput, SetInputRefused, ChangeParam, ReleaseStep, Release, FlushFrames, FlushAgain,
         TryAgain, CloseStillRunning, CloseDone, CloseWait, callerVars
    <3>2. CASE NALStep
      BY <1>2, <3>2 DEF NALStep, SendChange, SendAgain, StartAgain, TryAgain, FetchUnmapFails,
         StartOneFrame, StartQueueFull, StartFailed, Wait, FetchNothing, FetchAgain, FetchDelay,
         FetchFailed, callerVars
    <3>3. CASE Firmware \/ InterruptHandler \/ TimePasses \/ Terminating \/ UNCHANGED vars
      BY <3>3 DEF Firmware, InterruptHandler, TimePasses, Terminating, vars, callerVars
    <3> QED
      BY <3>1, <3>2, <3>3 DEF Next
  <2> QED
    BY <2>1 DEF OutputMatches
<1> QED
  BY <1>1, <1>2

ServedInv == IInv /\ HeadersLead /\ BitsIntact /\ ResultsLinked /\ OutputMatches

LEMMA ServedInit == Init => ServedInv
<1> SUFFICES ASSUME Init PROVE ServedInv OBVIOUS
<1>1. InFlight = {} /\ PicturesOf(reports) = {} /\ DOMAIN queue = {}
  BY NoPictures, EmptySeq DEF Init, InFlight, Unread
<1>2. HeadersLead /\ BitsIntact /\ ResultsLinked
  BY <1>1 DEF Init, HeadersLead, BitsIntact, ResultsLinked
<1>3. OutputMatches
  BY DEF Init, OutputMatches
<1> QED
  BY <1>2, <1>3, InitInv DEF ServedInv

LEMMA ServedNext == ServedInv /\ [Next]_vars => ServedInv'
<1> SUFFICES ASSUME ServedInv, [Next]_vars PROVE ServedInv'
  OBVIOUS
<1>1. IInv /\ WorkTypes /\ DistinctInv
  BY DEF ServedInv, IInv, TypeInv
<1> QED
  BY <1>1, NextInv, HeadersKept, BitsKept, LinksKept, OutputKept DEF ServedInv

LEMMA ServedAlways == Spec => []ServedInv
  BY ServedInit, ServedNext, PTL DEF Spec

\* The bits of an encoded picture stay in their bitstream buffer until they are asked for,
\* whatever is encoded meanwhile and however often the header was asked for
\* (AML_MultiEncoder.c:2102, :2121).
THEOREM BitsAreSafe == Spec => []BitsIntact
<1>1. ServedInv => BitsIntact
  BY DEF ServedInv
<1> QED
  BY <1>1, ServedAlways, PTL

\* Whatever the firmware reorders and whatever fails, AML_MultiEncNAL gives back one frame:
\* the one the firmware reported, with its bits.
THEOREM OutputsMatch == Spec => []OutputMatches
<1>1. ServedInv => OutputMatches
  BY DEF ServedInv
<1> QED
  BY <1>1, ServedAlways, PTL

(***************************************************************************)
(* The order of the frames in flight                                       *)
(***************************************************************************)

\* How many frames were started since the one with source x, going once round the sources.
Age(x) == IF x < srcIdx THEN srcIdx - 1 - x ELSE SrcNum + srcIdx - 1 - x

LEMMA AgeBounds ==
  ASSUME ContextTypes
  PROVE  /\ \A x \in Src : Age(x) \in Nat /\ Age(x) < SrcNum
         /\ \A x, y \in Src : Age(x) = Age(y) => x = y
<1>1. SrcNum \in Nat /\ SrcNum > 0 /\ Src = 0 .. SrcNum - 1 /\ srcIdx \in Src
  BY SourcesAreSlots DEF Src, ContextTypes
<1> QED
  BY <1>1 DEF Age

LEMMA Wrapped ==
  ASSUME NEW n \in Nat, NEW a \in Int, -n <= a, a < n, n > 0
  PROVE  a % n = IF a < 0 THEN a + n ELSE a
<1>1. CASE a >= 0
  <2>1. a = n * 0 + a
    OBVIOUS
  <2> QED
    BY <1>1, <2>1
<1>2. CASE a < 0
  <2>1. a = n * (-1) + (a + n) /\ a + n \in 0 .. n - 1
    BY <1>2
  <2> QED
    BY <1>2, <2>1
<1> QED
  BY <1>1, <1>2

\* The distance of two sources, as Overdue measures it, is the difference of their ages.
LEMMA AgeDistance ==
  ASSUME ContextTypes, NEW x \in Src, NEW y \in Src, Age(y) <= Age(x)
  PROVE  (y - x) % SrcNum = Age(x) - Age(y)
<1>1. /\ SrcNum \in Nat /\ SrcNum > 0 /\ Src = 0 .. SrcNum - 1 /\ srcIdx \in Src
      /\ x \in Nat /\ y \in Nat /\ srcIdx \in Nat
      /\ x < SrcNum /\ y < SrcNum /\ srcIdx < SrcNum
  BY SourcesAreSlots DEF Src, ContextTypes
<1>2. (y - x) % SrcNum = IF y < x THEN y - x + SrcNum ELSE y - x
  <2> DEFINE a == y - x
  <2>1. a \in Int /\ -SrcNum <= a /\ a < SrcNum
    BY <1>1
  <2>2. a % SrcNum = IF a < 0 THEN a + SrcNum ELSE a
    BY <1>1, <2>1, Wrapped
  <2> QED
    BY <1>1, <2>2
<1>3. Age(x) - Age(y) = IF y < x THEN y - x + SrcNum ELSE y - x
  BY <1>1 DEF Age
<1> QED
  BY <1>2, <1>3

LEMMA AgeAtStart ==
  ASSUME ContextTypes, srcIdx' = NextSrc(srcIdx)
  PROVE  \A x \in Src : Age(x)' = IF x = srcIdx THEN 0 ELSE Age(x) + 1
<1>1. SrcNum \in Nat /\ SrcNum > 0 /\ Src = 0 .. SrcNum - 1 /\ srcIdx \in Src
  BY SourcesAreSlots DEF Src, ContextTypes
<1> QED
  BY <1>1 DEF Age, NextSrc

LEMMA FlightTyped == WorkTypes => InFlight \subseteq Pictures /\ Unread \subseteq InFlight
  BY DEF WorkTypes, InFlight, Unread, PicturesOf, Commands, Reports, Pictures, Header, Change, Flush

LEMMA SameSource ==
  ASSUME WorkTypes, DistinctInv, NEW p \in InFlight, NEW q \in InFlight, p.src = q.src
  PROVE  p = q
<1>1. ASSUME NEW seq, DistinctIn(seq), p \in PicturesOf(seq), q \in PicturesOf(seq) PROVE p = q
  BY <1>1 DEF DistinctIn, PictureAt, PicturesOf
<1> QED
  BY <1>1 DEF InFlight, Unread, DistinctInv, Disjoint

\* Commands are taken in the order of the frames.
InOrder(seq) == \A i, j \in DOMAIN seq :
    PictureAt(seq, i) /\ PictureAt(seq, j) /\ i < j => seq[i].frame < seq[j].frame
QueueOrder == /\ InOrder(queue)
              /\ \A p \in held, q \in PicturesOf(queue) : p.frame < q.frame

\* The younger a source in flight, the later its frame.
AgeOrder == \A p, q \in InFlight : Age(q.src) < Age(p.src) => p.frame < q.frame

\* A picture is overtaken only by such as were started less than Window frames later.
Close(p, q) == p.frame < q.frame => Age(p.src) < Age(q.src) + Window
ReportOrder ==
    /\ \A p \in Unread, q \in PicturesOf(reports) : Close(p, q)
    /\ \A i, j \in DOMAIN reports :
          PictureAt(reports, i) /\ PictureAt(reports, j) /\ i < j => Close(reports[j], reports[i])

\* Hence the sources of later frames are in use as long as a picture is in flight.
UseOrder == \A p \in InFlight, y \in Src : Age(y) + Window <= Age(p.src) => y \in srcInUse

\* Frames are numbered as they are offered.
FrameOrder == /\ \A p \in InFlight : p.frame <= offered
              /\ pc = "start" => /\ frameIO[StartedSlot] = offered
                                 /\ \A p \in InFlight : p.frame < offered

OrderInv == QueueOrder /\ AgeOrder /\ ReportOrder /\ UseOrder /\ FrameOrder

LEMMA InOrderTail ==
  ASSUME NEW S, NEW seq \in Seq(S), seq # << >>, InOrder(seq)
  PROVE  /\ InOrder(Tail(seq))
         /\ Head(seq).kind = "pic" => \A q \in PicturesOf(Tail(seq)) : Head(seq).frame < q.frame
  BY TailAt, SMTT(30) DEF InOrder, PictureAt, PicturesOf

LEMMA InOrderAppend ==
  ASSUME NEW S, NEW seq \in Seq(S), NEW x \in S, InOrder(seq),
         x.kind = "pic" => \A p \in PicturesOf(seq) : p.frame < x.frame
  PROVE  InOrder(Append(seq, x))
  BY AppendAt, SMTT(30) DEF InOrder, PictureAt, PicturesOf

LEMMA TakenInOrder ==
  ASSUME WorkTypes, QueueOrder, queue # << >>, NEW pics, Taken(pics)
  PROVE  /\ InOrder(Tail(queue))
         /\ \A p \in pics, q \in PicturesOf(Tail(queue)) : p.frame < q.frame
<1>1. /\ InOrder(Tail(queue)) /\ PicturesOf(Tail(queue)) \subseteq PicturesOf(queue)
      /\ Head(queue).kind = "pic" => \A q \in PicturesOf(Tail(queue)) : Head(queue).frame < q.frame
  BY InOrderTail, TailPictures DEF WorkTypes, QueueOrder
<1> QED
  BY <1>1 DEF Taken, QueueOrder

\* Of two pictures in flight the earlier one is the older.
LEMMA EarlierIsOlder ==
  ASSUME ContextTypes, WorkTypes, DistinctInv, AgeOrder,
         NEW p \in InFlight, NEW q \in InFlight, p.frame < q.frame
  PROVE  Age(q.src) < Age(p.src)
<1>1. p.src \in Src /\ q.src \in Src /\ p.frame \in Nat /\ q.frame \in Nat
  BY FlightTyped DEF Pictures, Frame
<1>2. Age(p.src) \in Nat /\ Age(q.src) \in Nat
  BY <1>1, AgeBounds
<1>3. p.src # q.src
  BY <1>1, SameSource
<1>4. Age(p.src) # Age(q.src)
  BY <1>1, <1>3, AgeBounds
<1>5. ~(Age(p.src) < Age(q.src))
  BY <1>1 DEF AgeOrder
<1> QED
  BY <1>2, <1>4, <1>5

\* A picture that is encoded is close to those that are not yet.
LEMMA EncodedIsClose ==
  ASSUME ContextTypes, WorkTypes, DistinctInv, QueueOrder, AgeOrder, queue # << >>,
         NEW pics, Taken(pics), NEW q \in Encodable(pics),
         NEW p \in (pics \ {q}) \cup PicturesOf(Tail(queue))
  PROVE  Close(p, q)
<1>1. q \in pics /\ q \in InFlight /\ p \in InFlight
  BY TakenApart DEF Encodable, InFlight, Unread
<1>2. p.src \in Src /\ q.src \in Src /\ p.frame \in Nat /\ q.frame \in Nat
  BY <1>1, FlightTyped DEF Pictures, Frame
<1>3. SUFFICES ASSUME p.frame < q.frame PROVE Age(p.src) < Age(q.src) + Window
  BY DEF Close
<1>4. p \in pics
  <2>1. p \in PicturesOf(Tail(queue)) => q.frame < p.frame
    BY <1>1, TakenInOrder
  <2> QED
    BY <1>2, <1>3, <2>1
<1>5. ~((q.src - p.src) % SrcNum >= Window)
  BY <1>1, <1>3, <1>4 DEF Encodable, Overdue
<1>6. Age(q.src) < Age(p.src) /\ Age(p.src) \in Nat /\ Age(q.src) \in Nat
  BY <1>1, <1>2, <1>3, EarlierIsOlder, AgeBounds
<1>7. (q.src - p.src) % SrcNum = Age(p.src) - Age(q.src)
  BY <1>2, <1>6, AgeDistance
<1>8. Window \in Nat
  BY BoundsAssumption
<1> QED
  BY <1>5, <1>6, <1>7, <1>8

LEMMA OrderAtFirmware ==
  ASSUME ContextTypes, WorkTypes, DistinctInv, OrderInv, Firmware
  PROVE  OrderInv'
<1>1. PICK pics \in SUBSET Pictures : /\ Taken(pics)
                                      /\ Coded(pics) \/ Failed(pics) \/ Passed(pics)
  BY FirmwareDoes
<1>2. /\ queue # << >> /\ queue' = Tail(queue) /\ held' \subseteq pics
      /\ UNCHANGED <<frameIO, memOf, srcIdx, srcInUse, pc, offered>>
  BY <1>1, FirmwareDoes
  DEF Firmware, Coded, Failed, Passed, Complete, ctxVars, callVars, callerVars
<1>3. InFlight' \subseteq InFlight
  BY FirmwareShrinks DEF WorkShrinks
<1>4. \A x : Age(x)' = Age(x)
  BY <1>2 DEF Age
<1>5. QueueOrder'
  BY <1>1, <1>2, TakenInOrder DEF OrderInv, QueueOrder
<1>6. AgeOrder' /\ UseOrder'
  BY <1>2, <1>3, <1>4 DEF OrderInv, AgeOrder, UseOrder
<1>7. FrameOrder'
  BY <1>2, <1>3 DEF OrderInv, FrameOrder, StartedSlot
<1>8. Unread' \subseteq Unread
  BY <1>1, <1>2, TakenApart DEF Unread
<1>9. \A p, q : Close(p, q) => Close(p, q)'
  BY <1>4 DEF Close
<1>10. ReportOrder'
  <2>1. CASE Coded(pics)
    <3>1. PICK q \in Encodable(pics) : held' = pics \ {q} /\ Complete(q)
      BY <2>1 DEF Coded
    <3>2. q \in Unread /\ q \in Pictures
      BY <1>2, <1>1, TakenApart DEF Encodable
    <3>3. PicturesOf(reports') \subseteq PicturesOf(reports) \cup {q}
      BY <3>1, <3>2, AppendPictures, PicturesTyped DEF Complete, WorkTypes
    <3>4. \A p \in Unread' : Close(p, q)
      BY <1>1, <1>2, <3>1, EncodedIsClose DEF OrderInv, Unread
    <3>5. \A p \in Unread', r \in PicturesOf(reports') : Close(p, r)'
      BY <1>8, <1>9, <3>3, <3>4 DEF OrderInv, ReportOrder
    <3>6. /\ DOMAIN reports' = 1 .. Len(reports) + 1 /\ DOMAIN reports = 1 .. Len(reports)
          /\ Len(reports) \in Nat
          /\ \A i \in 1 .. Len(reports) : reports'[i] = reports[i]
          /\ reports'[Len(reports) + 1] = q
      BY <3>1, <3>2, AppendAt, PicturesTyped DEF Complete, WorkTypes
    <3>7. ASSUME NEW i \in DOMAIN reports', NEW j \in DOMAIN reports',
                 PictureAt(reports', i), PictureAt(reports', j), i < j
          PROVE  Close(reports'[j], reports'[i])
      <4>1. i \in DOMAIN reports /\ reports'[i] = reports[i] /\ PictureAt(reports, i)
        BY <3>6, <3>7 DEF PictureAt
      <4>2. CASE j \in DOMAIN reports
        BY <3>6, <3>7, <4>1, <4>2 DEF OrderInv, ReportOrder, PictureAt
      <4>3. CASE j \notin DOMAIN reports
        <5>1. reports'[j] = q
          BY <3>6, <4>3
        <5>2. reports[i] \in PicturesOf(reports)
          BY <4>1 DEF PictureAt, PicturesOf
        <5> QED
          BY <3>2, <4>1, <5>1, <5>2 DEF OrderInv, ReportOrder
      <4> QED
        BY <4>2, <4>3
    <3> QED
      BY <1>9, <3>5, <3>7 DEF ReportOrder
  <2>2. CASE Failed(pics) \/ Passed(pics)
    <3>1. PICK report \in Reports : report.kind # "pic" /\ Complete(report)
      BY <2>2 DEF Failed, Passed
    <3>2. PicturesOf(reports') = PicturesOf(reports)
      BY <3>1, AppendPictures DEF Complete, WorkTypes
    <3>3. /\ DOMAIN reports' = 1 .. Len(reports) + 1 /\ DOMAIN reports = 1 .. Len(reports)
          /\ Len(reports) \in Nat
          /\ \A i \in 1 .. Len(reports) : reports'[i] = reports[i]
          /\ reports'[Len(reports) + 1] = report
      BY <3>1, AppendAt DEF Complete, WorkTypes
    <3>4. \A i \in DOMAIN reports' : PictureAt(reports', i) =>
             i \in DOMAIN reports /\ PictureAt(reports, i) /\ reports'[i] = reports[i]
      BY <3>1, <3>3 DEF PictureAt
    <3> QED
      BY <1>8, <1>9, <3>2, <3>4 DEF OrderInv, ReportOrder
  <2> QED
    BY <1>1, <2>1, <2>2
<1> QED
  BY <1>5, <1>6, <1>7, <1>10 DEF OrderInv

LEMMA OrderAtStart ==
  ASSUME ContextTypes, WorkTypes, DistinctInv, FrameInv, OrderInv, StartOneFrame
  PROVE  OrderInv'
<1> DEFINE n == [kind |-> "pic", src |-> srcIdx, slot |-> StartedSlot,
                 frame |-> frameIO[StartedSlot]]
<1>1. n \in Pictures
  <2>1. frameIO[StartedSlot] \in Frame
    BY DEF StartOneFrame, Starting, FrameInv, StartInv, StartedSlot, ContextTypes
  <2> QED
    BY <2>1, StartedTyped
<1>2. /\ queue' = Append(queue, n) /\ UNCHANGED <<held, reports, offered>>
      /\ srcInUse' = srcInUse \cup {srcIdx} /\ srcIdx \notin srcInUse /\ srcIdx' = NextSrc(srcIdx)
      /\ pc = "start" /\ pc' = "wait" /\ n.src = srcIdx /\ n.frame = frameIO[StartedSlot]
  BY DEF StartOneFrame, Starting, Issue, SrcRefused, GoTo, callerVars
<1> HIDE DEF n
<1>3. PicturesOf(queue') \subseteq PicturesOf(queue) \cup {n}
  BY <1>1, <1>2, AppendPictures, PicturesTyped DEF WorkTypes
<1>4. /\ InFlight' \subseteq InFlight \cup {n} /\ Unread' \subseteq Unread \cup {n}
      /\ PicturesOf(queue) \subseteq InFlight /\ held \subseteq InFlight
      /\ PicturesOf(reports) \subseteq InFlight
      /\ Unread \subseteq InFlight
  BY <1>2, <1>3 DEF InFlight, Unread
<1>5. n.frame = offered /\ \A p \in InFlight : p.frame < offered
  BY <1>2 DEF OrderInv, FrameOrder
<1>6. \A p \in InFlight : p.src \in Src /\ p.src # srcIdx /\ p.frame \in Nat
  BY <1>2, FlightTyped DEF Pictures, Frame, FrameInv, FlightInv
<1>7. /\ \A x \in Src : Age(x)' = IF x = srcIdx THEN 0 ELSE Age(x) + 1
      /\ \A x \in Src : Age(x) \in Nat
      /\ srcIdx \in Src /\ n.frame \in Nat /\ Window \in Nat
  BY <1>1, <1>2, AgeAtStart, AgeBounds, BoundsAssumption DEF ContextTypes, Pictures, Frame
<1>8. QueueOrder'
  <2>1. InOrder(queue')
    <3>1. \A p \in PicturesOf(queue) : p.frame < n.frame
      BY <1>4, <1>5
    <3> QED
      BY <1>1, <1>2, <3>1, InOrderAppend, PicturesTyped DEF WorkTypes, OrderInv, QueueOrder
  <2>2. \A p \in held, q \in PicturesOf(queue) \cup {n} : p.frame < q.frame
    BY <1>4, <1>5 DEF OrderInv, QueueOrder
  <2> QED
    BY <1>2, <1>3, <2>1, <2>2 DEF QueueOrder
<1>9. AgeOrder'
  <2> SUFFICES ASSUME NEW p \in InFlight', NEW q \in InFlight', Age(q.src)' < Age(p.src)'
               PROVE  p.frame < q.frame
    BY DEF AgeOrder
  <2>1. CASE p = n
    <3>1. Age(p.src)' = 0
      BY <1>2, <1>7, <2>1
    <3>2. Age(q.src)' \in Nat
      BY <1>2, <1>4, <1>6, <1>7
    <3> QED
      BY <3>1, <3>2
  <2>2. CASE p \in InFlight /\ q = n
    BY <1>5, <2>2
  <2>3. CASE p \in InFlight /\ q \in InFlight
    <3>1. Age(q.src) < Age(p.src)
      BY <1>6, <1>7, <2>3
    <3> QED
      BY <2>3, <3>1 DEF OrderInv, AgeOrder
  <2> QED
    BY <1>4, <2>1, <2>2, <2>3
<1>10. UseOrder'
  <2> SUFFICES ASSUME NEW p \in InFlight', NEW y \in Src, Age(y)' + Window <= Age(p.src)'
               PROVE  y \in srcInUse'
    BY DEF UseOrder
  <2>1. CASE y = srcIdx
    BY <1>2, <2>1
  <2>2. CASE y # srcIdx /\ p = n
    <3>1. Age(p.src)' = 0 /\ Age(y)' = Age(y) + 1 /\ Age(y) \in Nat /\ Window \in Nat
      BY <1>2, <1>7, <2>2
    <3> QED
      BY <3>1
  <2>3. CASE y # srcIdx /\ p \in InFlight
    <3>1. Age(p.src)' = Age(p.src) + 1 /\ Age(y)' = Age(y) + 1
      BY <1>6, <1>7, <2>3
    <3>2. Age(y) \in Nat /\ Age(p.src) \in Nat
      BY <1>6, <1>7, <2>3
    <3>3. Age(y) + Window <= Age(p.src)
      BY <1>7, <3>1, <3>2
    <3> QED
      BY <1>2, <2>3, <3>3 DEF OrderInv, UseOrder
  <2> QED
    BY <1>4, <2>1, <2>2, <2>3
<1>11. \A p \in InFlight, q \in InFlight : Close(p, q) => Close(p, q)'
  BY <1>6, <1>7 DEF Close
<1>12. ReportOrder'
  <2>1. \A p, q : p = n /\ q \in PicturesOf(reports) => Close(p, q)'
    <3>1. \A q \in PicturesOf(reports) : ~(n.frame < q.frame)
      BY <1>4, <1>5, <1>6, <1>7
    <3> QED
      BY <3>1 DEF Close
  <2>2. \A p \in Unread', q \in PicturesOf(reports) : Close(p, q)'
    BY <1>4, <1>11, <2>1 DEF OrderInv, ReportOrder
  <2>3. \A p, q : \A i, j \in DOMAIN reports :
           PictureAt(reports, i) /\ PictureAt(reports, j) /\ i < j /\ p = reports[j] /\ q = reports[i]
           => Close(p, q)'
    <3>1. \A i \in DOMAIN reports : PictureAt(reports, i) => reports[i] \in InFlight
      BY DEF PictureAt, InFlight, PicturesOf
    <3> QED
      BY <1>11, <3>1 DEF OrderInv, ReportOrder
  <2> QED
    BY <1>2, <2>2, <2>3 DEF ReportOrder, Close
<1>13. FrameOrder'
  <2>1. \A p \in InFlight' : p.frame <= offered
    BY <1>4, <1>5, <1>6, <1>7
  <2> QED
    BY <1>2, <2>1 DEF FrameOrder
<1> QED
  BY <1>8, <1>9, <1>10, <1>12, <1>13 DEF OrderInv

\* What other steps do with the sources and with the numbers of the frames.
LEMMA OthersMove ==
  ASSUME ContextTypes, [Next]_vars, ~Firmware, ~StartOneFrame
  PROVE  /\ srcIdx' = srcIdx
         /\ \/ srcInUse \subseteq srcInUse'
            \/ /\ reports # << >> /\ Head(reports).kind = "pic" /\ TakeReport
               /\ srcInUse' = srcInUse \ {Head(reports).src}
            \/ LoseWork
         /\ \/ /\ offered' = offered
               /\ pc' = "start" => pc = "start" /\ UNCHANGED <<frameIO, memOf>>
            \/ /\ offered' = offered + 1 /\ UNCHANGED workVars
               /\ pc' = "start" => frameIO'[memOf'[srcIdx]] = offered'
<1>1. CASE HeaderStep
  BY <1>1 DEF HeaderStep, HeaderCall, HeaderIssue, HeaderWait, HeaderFetch, HeaderAgain, GoTo,
     Return, ctxVars, callerVars
<1>2. ASSUME NEW slot \in Slot, NEW copied \in BOOLEAN, SetInput(slot, copied)
      PROVE  /\ srcIdx' = srcIdx /\ srcInUse' = srcInUse
             /\ offered' = offered + 1 /\ UNCHANGED workVars
             /\ frameIO'[memOf'[srcIdx]] = offered'
  BY <1>2 DEF SetInput, Link, ContextTypes
<1>3. CASE SetInputRefused \/ ChangeParam
  BY <1>3 DEF SetInputRefused, ChangeParam, CallerMayOffer, ctxVars, callVars, callerVars
<1>4. CASE NALStep
  <2>1. CASE FetchPicture
    BY <2>1 DEF FetchPicture, Fetching, Retire, Return
  <2>2. CASE FetchUnmapFails
    BY <2>2 DEF FetchUnmapFails, Fetching, Retire, TakeReportAndReset, Return, ctxVars
  <2>3. CASE ~FetchPicture /\ ~FetchUnmapFails
    BY <1>4, <2>3 DEF NALStep, SendChange, SendAgain, StartAgain, TryAgain,
       StartQueueFull, StartFailed, Wait, FetchNothing, FetchAgain, FetchDelay, FetchFailed,
       GoTo, Return, ctxVars, callVars, callerVars
  <2> QED
    BY <2>1, <2>2, <2>3
<1>5. CASE ReleaseStep
  <2>1. CASE CloseWait
    BY <2>1 DEF CloseWait, Retire, GoTo, ctxVars, callerVars
  <2>2. CASE ~CloseWait
    BY <1>5, <2>2 DEF ReleaseStep, Release, FlushFrames, FlushAgain, TryAgain, CloseStillRunning,
       CloseDone, GoTo, ctxVars, callerVars
  <2> QED
    BY <2>1, <2>2
<1>6. CASE InterruptHandler \/ TimePasses \/ Terminating \/ UNCHANGED vars
  BY <1>6 DEF InterruptHandler, TimePasses, Terminating, vars, ctxVars, callVars, callerVars
<1> QED
  BY <1>1, <1>2, <1>3, <1>4, <1>5, <1>6 DEF Next, CallerStep

LEMMA OrderAtOthers ==
  ASSUME ContextTypes, CallTypes, WorkTypes, DistinctInv, FrameInv, OrderInv, [Next]_vars,
         ~Firmware, ~StartOneFrame
  PROVE  OrderInv'
<1>1. srcIdx' = srcIdx /\ InFlight' \subseteq InFlight /\ (\A x : Age(x)' = Age(x))
      /\ (\A p, q : Close(p, q) => Close(p, q)')
  BY OthersMove, OnlyStartsAdd DEF Age, Close
<1>2. QueueOrder' /\ ReportOrder'
  <2>1. CASE UNCHANGED workVars
    <3>1. UNCHANGED <<queue, held, reports>>
      BY <2>1 DEF workVars
    <3> QED
      BY <1>1, <3>1 DEF OrderInv, QueueOrder, ReportOrder, Unread
  <2>2. CASE LoseWork
    BY <2>2, NoPictures DEF LoseWork, QueueOrder, ReportOrder, InOrder
  <2>3. CASE \E cmd \in {Header, Change, Flush} : Issue(cmd)
    <3>1. PICK cmd \in Commands : cmd.kind # "pic" /\ Issue(cmd)
      BY <2>3, PicturesTyped DEF Header, Change, Flush
    <3>2. InOrder(queue') /\ PicturesOf(queue') = PicturesOf(queue) /\ UNCHANGED <<held, reports>>
      BY <3>1, InOrderAppend, AppendPictures DEF Issue, WorkTypes, OrderInv, QueueOrder
    <3> QED
      BY <1>1, <3>2 DEF OrderInv, QueueOrder, ReportOrder, Unread
  <2>4. CASE reports # << >> /\ TakeReport
    <3>1. PicturesOf(reports') \subseteq PicturesOf(reports) /\ UNCHANGED <<queue, held>>
      BY <2>4, TailPictures DEF TakeReport, WorkTypes
    <3>2. /\ DOMAIN reports' = 1 .. Len(reports) - 1 /\ DOMAIN reports = 1 .. Len(reports)
          /\ Len(reports) \in Nat
          /\ \A i \in 1 .. Len(reports) - 1 : reports'[i] = reports[i + 1]
      BY <2>4, TailAt DEF TakeReport, WorkTypes
    <3>3. ASSUME NEW i \in DOMAIN reports', NEW j \in DOMAIN reports',
                 PictureAt(reports', i), PictureAt(reports', j), i < j
          PROVE  Close(reports'[j], reports'[i])
      <4>1. /\ i + 1 \in DOMAIN reports /\ PictureAt(reports, i + 1) /\ reports'[i] = reports[i + 1]
            /\ j + 1 \in DOMAIN reports /\ PictureAt(reports, j + 1) /\ reports'[j] = reports[j + 1]
            /\ i + 1 < j + 1
        BY <3>2, <3>3 DEF PictureAt
      <4> QED
        BY <4>1 DEF OrderInv, ReportOrder
    <3> QED
      BY <1>1, <3>1, <3>3 DEF OrderInv, QueueOrder, ReportOrder, Unread
  <2> QED
    BY <2>1, <2>2, <2>3, <2>4, OthersDo
<1>3. AgeOrder'
  BY <1>1 DEF OrderInv, AgeOrder
<1>4. UseOrder'
  <2>1. CASE srcInUse \subseteq srcInUse'
    BY <1>1, <2>1 DEF OrderInv, UseOrder
  <2>2. CASE /\ reports # << >> /\ Head(reports).kind = "pic" /\ TakeReport
             /\ srcInUse' = srcInUse \ {Head(reports).src}
    <3> DEFINE r == Head(reports)
    <3>1. r \in PicturesOf(reports) /\ r \in InFlight
      BY <2>2, TailPictures DEF WorkTypes, InFlight
    <3>2. ASSUME NEW p \in InFlight' PROVE ~(Age(r.src) + Window <= Age(p.src))
      <4>1. p.src # r.src
        <5>1. \A q \in PicturesOf(reports') : q.src # r.src
          BY <2>2, DistinctTail DEF WorkTypes, DistinctInv, TakeReport
        <5>2. \A q \in Unread : q.src # r.src
          BY <3>1 DEF DistinctInv, Disjoint
        <5>3. Unread' = Unread
          BY <2>2 DEF TakeReport, Unread
        <5> QED
          BY <5>1, <5>2, <5>3 DEF InFlight
      <4>2. Close(p, r)
        <5>1. CASE p \in PicturesOf(reports')
          <6>1. /\ DOMAIN reports' = 1 .. Len(reports) - 1 /\ DOMAIN reports = 1 .. Len(reports)
                /\ Len(reports) \in Nat /\ r = reports[1]
                /\ \A i \in 1 .. Len(reports) - 1 : reports'[i] = reports[i + 1]
            BY <2>2, TailAt DEF TakeReport, WorkTypes
          <6>2. PICK i \in DOMAIN reports' : reports'[i].kind = "pic" /\ p = reports'[i]
            BY <5>1 DEF PicturesOf
          <6>3. /\ 1 \in DOMAIN reports /\ i + 1 \in DOMAIN reports /\ 1 < i + 1
                /\ PictureAt(reports, 1) /\ PictureAt(reports, i + 1) /\ p = reports[i + 1]
            BY <2>2, <6>1, <6>2 DEF PictureAt
          <6> HIDE DEF r
          <6> QED
            BY <6>1, <6>3 DEF OrderInv, ReportOrder
        <5>2. CASE p \in Unread
          BY <3>1, <5>2 DEF OrderInv, ReportOrder
        <5>3. Unread' = Unread
          BY <2>2 DEF TakeReport, Unread
        <5> QED
          BY <5>1, <5>2, <5>3 DEF InFlight
      <4> HIDE DEF r
      <4>3. /\ p \in InFlight /\ p.src \in Src /\ r.src \in Src
            /\ p.frame \in Nat /\ r.frame \in Nat
        BY <1>1, <3>1, FlightTyped DEF Pictures, Frame
      <4>4. Age(p.src) \in Nat /\ Age(r.src) \in Nat /\ Age(p.src) # Age(r.src) /\ Window \in Nat
        BY <4>1, <4>3, AgeBounds, BoundsAssumption
      <4>5. CASE p.frame < r.frame
        BY <4>2, <4>4, <4>5 DEF Close
      <4>6. CASE ~(p.frame < r.frame)
        <5>1. ~(Age(r.src) < Age(p.src))
          BY <3>1, <4>3, <4>6 DEF OrderInv, AgeOrder
        <5> QED
          BY <4>4, <5>1
      <4> QED
        BY <4>5, <4>6
    <3> HIDE DEF r
    <3>3. srcInUse' = srcInUse \ {r.src}
      BY <2>2 DEF r
    <3> QED
      BY <1>1, <3>2, <3>3 DEF OrderInv, UseOrder
  <2>3. CASE LoseWork
    <3>1. InFlight' = {}
      BY <2>3, NoPictures DEF LoseWork, InFlight, Unread
    <3> QED
      BY <3>1 DEF UseOrder
  <2> QED
    BY <2>1, <2>2, <2>3, OthersMove
<1>5. FrameOrder'
  <2>1. offered \in Nat /\ \A p \in InFlight : p.frame \in Nat /\ p.frame <= offered
    <3>1. offered \in Nat
      BY SourcesAreSlots DEF CallTypes
    <3> QED
      BY <3>1, FlightTyped DEF OrderInv, FrameOrder, Pictures, Frame
  <2>2. CASE /\ offered' = offered
             /\ pc' = "start" => pc = "start" /\ UNCHANGED <<frameIO, memOf>>
    BY <1>1, <2>1, <2>2 DEF OrderInv, FrameOrder, StartedSlot
  <2>3. CASE /\ offered' = offered + 1
             /\ pc' = "start" => frameIO'[memOf'[srcIdx]] = offered'
    <3>1. \A p \in InFlight' : p.frame < offered' /\ p.frame <= offered'
      BY <1>1, <2>1, <2>3
    <3> QED
      BY <1>1, <2>3, <3>1 DEF FrameOrder, StartedSlot
  <2> QED
    BY <2>2, <2>3, OthersMove
<1> QED
  BY <1>2, <1>3, <1>4, <1>5 DEF OrderInv

LEMMA OrderInit == Init => OrderInv
<1> SUFFICES ASSUME Init PROVE OrderInv OBVIOUS
<1>1. InFlight = {} /\ Unread = {} /\ PicturesOf(reports) = {} /\ DOMAIN queue = {} /\ DOMAIN reports = {}
  BY NoPictures, EmptySeq DEF Init, InFlight, Unread
<1> QED
  BY <1>1
    DEF Init, OrderInv, QueueOrder, InOrder, AgeOrder, ReportOrder, UseOrder, FrameOrder,
        InFlight, Unread

LEMMA OrderNext == IInv /\ OrderInv /\ [Next]_vars => OrderInv'
  BY OrderAtFirmware, OrderAtStart, OrderAtOthers DEF IInv, TypeInv

(***************************************************************************)
(* What becomes of the frames                                              *)
(***************************************************************************)

\* A frame offered has one fate, the frames in flight and the one being started are taken,
\* and no frame is in two slots.
FateInv ==
    /\ \A f \in Frame : fate[f] = "new" <=> f > offered
    /\ \A f \in Frame : fate[f] # "settled again"
    /\ \A p \in InFlight : fate[p.frame] = "taken"
    /\ pc = "start" => offered \in Frame /\ fate[offered] = "taken"
    /\ \A s \in Slot : frameIO[s] <= offered
    /\ \A s, t \in Slot : s # t /\ frameIO[s] = frameIO[t] => frameIO[s] = NoFrame
    /\ Abandoned \subseteq busy

\* The steps that tell the caller something, and the others.
LEMMA FateMoves ==
  ASSUME [Next]_vars
  PROVE  \/ /\ UNCHANGED <<fate, offered, frameIO>> /\ busy' = busy
            /\ pc' = "start" => pc = "start" /\ memOf' = memOf /\ srcIdx' = srcIdx
         \/ \E slot \in Slot, copied \in BOOLEAN : SetInput(slot, copied)
         \/ SetInputRefused
         \/ SendChange /\ Settle(frameIO[StartedSlot], "abandoned") /\ Return
         \/ StartFailed
         \/ FetchPicture
         \/ FetchUnmapFails
<1>1. CASE HeaderStep
  BY <1>1 DEF HeaderStep, HeaderCall, HeaderIssue, HeaderWait, HeaderFetch, HeaderAgain, GoTo,
     Return, ctxVars, callerVars
<1>2. CASE CallerStep
  BY <1>2 DEF CallerStep, ChangeParam, callVars
<1>3. CASE NALStep
  <2>1. CASE SendChange
    BY <2>1 DEF SendChange
  <2>2. CASE ~SendChange
    BY <1>3, <2>2 DEF NALStep, SendAgain, StartAgain, TryAgain, StartOneFrame, StartQueueFull,
       Wait, FetchNothing, FetchAgain, FetchDelay, FetchFailed, GoTo, Return, ctxVars, callVars,
       callerVars
  <2> QED
    BY <2>1, <2>2
<1>4. CASE ReleaseStep
  BY <1>4 DEF ReleaseStep, Release, FlushFrames, FlushAgain, TryAgain, CloseStillRunning,
     CloseDone, CloseWait, GoTo, ctxVars, callerVars
<1>5. CASE Firmware \/ InterruptHandler \/ TimePasses \/ Terminating \/ UNCHANGED vars
  BY <1>5
    DEF Firmware, InterruptHandler, TimePasses, Terminating, vars, ctxVars, callVars, callerVars
<1> QED
  BY <1>1, <1>2, <1>3, <1>4, <1>5 DEF Next

\* The frame being started, and the one a result is for.
LEMMA StartedFrame ==
  ASSUME ContextTypes, CallTypes, FrameInv, OrderInv, FateInv, pc = "start"
  PROVE  /\ frameIO[StartedSlot] = offered /\ offered \in Frame /\ StartedSlot \in Slot
         /\ fate[offered] = "taken" /\ StartedSlot \in busy
         /\ \A p \in InFlight : p.frame # offered /\ p.slot # StartedSlot
<1>1. \A p \in InFlight : p.frame < offered
  BY DEF OrderInv, FrameOrder
<1>2. frameIO[StartedSlot] = offered /\ offered \in Frame /\ fate[offered] = "taken"
  BY DEF OrderInv, FrameOrder, FateInv
<1>3. StartedSlot \in busy /\ StartedSlot \in Slot /\ \A p \in InFlight : p.slot # StartedSlot
  BY DEF FrameInv, StartInv, StartedSlot, ContextTypes
<1> QED
  BY <1>1, <1>2, <1>3 DEF Frame

LEMMA ReportedFrame ==
  ASSUME ContextTypes, WorkTypes, DistinctInv, FrameInv, ResultsLinked, FateInv, Fetching({"pic"}),
         TakeReport \/ LoseWork, NEW r, r = Head(reports)
  PROVE  /\ r \in InFlight /\ r \in Pictures /\ reports # << >> /\ r.kind = "pic" /\ pc = "fetch"
         /\ LinkedSlot(r) = r.slot /\ frameIO[r.slot] = r.frame /\ fate[r.frame] = "taken"
         /\ r.slot \in Slot /\ r.frame \in Frame /\ r.slot \in busy
         /\ \A p \in InFlight' : p \in InFlight /\ p.src # r.src /\ p.slot # r.slot
                                 /\ p.frame # r.frame
<1>1. reports # << >> /\ r.kind = "pic" /\ pc = "fetch"
  BY DEF Fetching
<1>2. r \in PicturesOf(reports) /\ r \in InFlight /\ r \in Pictures
  BY <1>1, TailPictures, FlightTyped DEF WorkTypes, InFlight
<1>3. /\ memOf[r.src] = r.slot /\ frameIO[r.slot] = r.frame /\ r.slot \in Slot
      /\ r.frame \in Frame /\ r.slot \in busy
  BY <1>1, <1>2 DEF ResultsLinked, FrameInv, FlightInv, Pictures
<1>4. fate[r.frame] = "taken"
  BY <1>2 DEF FateInv
<1>5. ASSUME NEW p \in InFlight' PROVE p \in InFlight /\ p.src # r.src
  <2>1. CASE TakeReport
    <3>1. \A q \in PicturesOf(reports') : q.src # r.src /\ q \in PicturesOf(reports)
      BY <1>1, <2>1, DistinctTail, TailPictures DEF WorkTypes, DistinctInv, TakeReport
    <3>2. \A q \in Unread : q.src # r.src
      BY <1>2 DEF DistinctInv, Disjoint
    <3>3. Unread' = Unread
      BY <2>1 DEF TakeReport, Unread
    <3> QED
      BY <3>1, <3>2, <3>3 DEF InFlight
  <2>2. CASE LoseWork
    BY <2>2, NoPictures DEF LoseWork, InFlight, Unread
  <2> QED
    BY <2>1, <2>2
<1>6. ASSUME NEW p \in InFlight' PROVE p.slot # r.slot /\ p.frame # r.frame
  <2>1. p \in InFlight /\ p.slot # r.slot
    BY <1>2, <1>5, SlotsApart
  <2>2. frameIO[p.slot] = p.frame /\ p.slot \in Slot /\ p.frame # NoFrame
    BY <2>1, FlightTyped DEF FrameInv, FlightInv, Pictures, Frame, NoFrame
  <2> QED
    BY <1>3, <2>1, <2>2 DEF FateInv
<1> QED
  BY <1>1, <1>2, <1>3, <1>4, <1>5, <1>6 DEF LinkedSlot

LEMMA FetchedFrame ==
  ASSUME ContextTypes, WorkTypes, DistinctInv, FrameInv, ResultsLinked, FateInv, FetchPicture,
         NEW r, r = Head(reports)
  PROVE  /\ r \in InFlight /\ r \in Pictures /\ reports # << >> /\ r.kind = "pic" /\ TakeReport
         /\ srcInUse' = srcInUse \ {r.src} /\ busy' = busy \ {r.slot}
         /\ frameIO[LinkedSlot(r)] = r.frame /\ fate[r.frame] = "taken"
         /\ fate' = [fate EXCEPT ![r.frame] = "returned"]
         /\ \A p \in InFlight' : p \in InFlight /\ p.src # r.src /\ p.slot # r.slot
                                 /\ p.frame # r.frame
<1>1. Fetching({"pic"}) /\ TakeReport
  BY DEF FetchPicture
<1>2. /\ r \in InFlight /\ r \in Pictures /\ reports # << >> /\ r.kind = "pic"
      /\ LinkedSlot(r) = r.slot /\ frameIO[r.slot] = r.frame /\ fate[r.frame] = "taken"
      /\ \A p \in InFlight' : p \in InFlight /\ p.src # r.src /\ p.slot # r.slot
                              /\ p.frame # r.frame
  BY <1>1, ReportedFrame
<1>3. /\ srcInUse' = srcInUse \ {r.src} /\ busy' = busy \ {r.slot}
      /\ fate' = [fate EXCEPT ![r.frame] = IF @ = "taken" THEN "returned" ELSE "settled again"]
  BY <1>2 DEF FetchPicture, Retire, FreeSlot, Settle
<1> QED
  BY <1>1, <1>2, <1>3

\* The frame whose buffer is not unmapped.
LEMMA LeakedFrame ==
  ASSUME ContextTypes, WorkTypes, DistinctInv, FrameInv, ResultsLinked, FateInv, FetchUnmapFails,
         NEW r, r = Head(reports)
  PROVE  /\ r \in InFlight /\ r \in Pictures
         /\ TakeReport \/ ("reset" \in Faults /\ LoseWork)
         /\ srcInUse' = srcInUse \ {r.src} /\ UNCHANGED <<ctxVars, offered>>
         /\ frameIO[r.slot] = r.frame /\ fate[r.frame] = "taken" /\ r.slot \in busy
         /\ r.slot \in Slot /\ r.frame \in Frame
         /\ fate' = [fate EXCEPT ![r.frame] = "abandoned"]
         /\ pc = "fetch" /\ pc' = "idle"
         /\ \A p \in InFlight' : p \in InFlight /\ p.frame # r.frame
<1>1. Fetching({"pic"}) /\ (TakeReport \/ ("reset" \in Faults /\ LoseWork))
  BY DEF FetchUnmapFails, TakeReportAndReset
<1>2. /\ r \in InFlight /\ r \in Pictures /\ pc = "fetch"
      /\ LinkedSlot(r) = r.slot /\ frameIO[r.slot] = r.frame /\ fate[r.frame] = "taken"
      /\ r.slot \in Slot /\ r.frame \in Frame /\ r.slot \in busy
      /\ \A p \in InFlight' : p \in InFlight /\ p.frame # r.frame
  BY <1>1, ReportedFrame
<1>3. /\ srcInUse' = srcInUse \ {r.src} /\ UNCHANGED <<ctxVars, offered>> /\ pc' = "idle"
      /\ fate' = [fate EXCEPT ![r.frame] = IF @ = "taken" THEN "abandoned" ELSE "settled again"]
  BY <1>2 DEF FetchUnmapFails, Retire, Settle, Return
<1> QED
  BY <1>1, <1>2, <1>3

LEMMA FateAtOffer ==
  ASSUME ContextTypes, CallTypes, WorkTypes, FrameInv, OrderInv, FateInv,
         UNCHANGED workVars, offered < FrameMax, offered' = offered + 1,
         NEW verdict \in {"taken", "refused"}, OfferedNow(verdict),
         pc' = "start" => verdict = "taken",
         \/ UNCHANGED frameIO /\ busy' = busy
         \/ \E slot \in Slot \ busy : /\ frameIO' = [frameIO EXCEPT ![slot] = offered + 1]
                                      /\ busy \subseteq busy'
  PROVE  FateInv'
<1>1. /\ offered \in Nat /\ offered + 1 \in Frame /\ fate \in [Frame -> Fates]
      /\ frameIO \in [Slot -> Frame \cup {NoFrame}] /\ FrameMax \in Nat
  BY SourcesAreSlots DEF CallTypes, ContextTypes, Frame
<1>2. fate' = [fate EXCEPT ![offered + 1] = verdict]
  BY DEF OfferedNow
<1>3. \A f \in Frame : f <= offered => fate'[f] = fate[f]
  BY <1>1, <1>2
<1>4. fate'[offered + 1] = verdict
  BY <1>1, <1>2
<1>5. \A f \in Frame : fate'[f] = "new" <=> f > offered'
  <2> SUFFICES ASSUME NEW f \in Frame PROVE fate'[f] = "new" <=> f > offered + 1
    OBVIOUS
  <2>1. CASE f = offered + 1
    BY <1>1, <1>4, <2>1
  <2>2. CASE f # offered + 1
    <3>1. fate'[f] = fate[f] /\ f \in Nat
      BY <1>1, <1>2, <2>2 DEF Frame
    <3>2. fate[f] = "new" <=> f > offered
      BY DEF FateInv
    <3>3. f > offered <=> f > offered + 1
      BY <1>1, <2>2, <3>1
    <3> QED
      BY <3>1, <3>2, <3>3
  <2> QED
    BY <2>1, <2>2
<1>6. \A f \in Frame : fate'[f] # "settled again"
  BY <1>1, <1>2 DEF FateInv
<1>7. InFlight' = InFlight
  BY DEF InFlight, Unread, workVars
<1>8. \A p \in InFlight' : fate'[p.frame] = "taken"
  BY <1>3, <1>7, FlightTyped DEF FateInv, OrderInv, FrameOrder, Pictures
<1>9. pc' = "start" => offered' \in Frame /\ fate'[offered'] = "taken"
  BY <1>1, <1>4
<1>10. \A s \in Slot : frameIO[s] <= offered /\ frameIO[s] # offered + 1 /\ frameIO[s] \in Nat
  <2>1. \A s \in Slot : frameIO[s] \in Nat
    BY <1>1 DEF Frame, NoFrame
  <2>2. \A s \in Slot : frameIO[s] <= offered
    BY DEF FateInv
  <2> QED
    BY <1>1, <2>1, <2>2
<1>11. CASE UNCHANGED frameIO /\ busy' = busy
  <2>1. \A s \in Slot : frameIO'[s] <= offered'
    BY <1>1, <1>10, <1>11
  <2>2. Abandoned' \subseteq busy'
    <3>1. \A s \in Slot : frameIO[s] # NoFrame => fate'[frameIO[s]] = fate[frameIO[s]]
      BY <1>1, <1>3, <1>10
    <3> QED
      BY <1>11, <3>1 DEF FateInv, Abandoned
  <2> QED
    BY <1>5, <1>6, <1>8, <1>9, <1>11, <2>1, <2>2 DEF FateInv
<1>12. ASSUME NEW slot \in Slot \ busy, frameIO' = [frameIO EXCEPT ![slot] = offered + 1],
              busy \subseteq busy'
       PROVE  FateInv'
  <2>1. \A s \in Slot : frameIO'[s] = IF s = slot THEN offered + 1 ELSE frameIO[s]
    BY <1>1, <1>12
  <2>2. \A s \in Slot : frameIO'[s] <= offered'
    BY <1>1, <1>10, <2>1
  <2>3. \A s, t \in Slot : s # t /\ frameIO'[s] = frameIO'[t] => frameIO'[s] = NoFrame
    BY <1>10, <2>1 DEF FateInv
  <2>4. Abandoned' \subseteq busy'
    <3> SUFFICES ASSUME NEW s \in Slot, frameIO'[s] # NoFrame, fate'[frameIO'[s]] = "abandoned"
                 PROVE  s \in busy'
      BY DEF Abandoned
    <3>1. s # slot
      BY <1>4, <2>1
    <3>2. frameIO'[s] = frameIO[s] /\ fate'[frameIO[s]] = fate[frameIO[s]]
      BY <1>1, <1>3, <1>10, <2>1, <3>1
    <3> QED
      BY <1>12, <3>2 DEF FateInv, Abandoned
  <2> QED
    BY <1>5, <1>6, <1>8, <1>9, <2>2, <2>3, <2>4 DEF FateInv
<1> QED
  BY <1>11, <1>12

\* A frame is settled: none in flight, none being started, and its slot is given free or left.
LEMMA FateAtSettling ==
  ASSUME ContextTypes, CallTypes, FateInv, UNCHANGED <<offered, frameIO>>, pc' # "start",
         NEW f \in Frame, fate[f] = "taken", NEW verdict \in {"refused", "abandoned", "returned"},
         fate' = [fate EXCEPT ![f] = verdict],
         NEW slot \in Slot, frameIO[slot] = f,
         IF verdict = "abandoned" THEN busy' = busy /\ slot \in busy ELSE busy' = busy \ {slot},
         InFlight' \subseteq InFlight, \A p \in InFlight' : p.frame # f,
         \A p \in InFlight : p.frame \in Frame
  PROVE  FateInv'
<1>1. fate \in [Frame -> Fates] /\ frameIO \in [Slot -> Frame \cup {NoFrame}]
  BY DEF CallTypes, ContextTypes
<1>2. \A g \in Frame : fate'[g] = IF g = f THEN verdict ELSE fate[g]
  BY <1>1
<1>3. \A g \in Frame : fate'[g] = "new" <=> g > offered'
  BY <1>2 DEF FateInv
<1>4. \A g \in Frame : fate'[g] # "settled again"
  BY <1>2 DEF FateInv
<1>5. \A p \in InFlight' : fate'[p.frame] = "taken"
  BY <1>2 DEF FateInv
<1>6. Abandoned' \subseteq busy'
  <2> SUFFICES ASSUME NEW s \in Slot, frameIO[s] # NoFrame, fate'[frameIO[s]] = "abandoned"
               PROVE  s \in busy'
    BY DEF Abandoned
  <2>1. CASE s = slot
    BY <1>2, <2>1
  <2>2. CASE s # slot
    <3>1. frameIO[s] # f /\ frameIO[s] \in Frame
      BY <1>1, <2>2 DEF FateInv
    <3>2. s \in busy
      <4>1. fate[frameIO[s]] = "abandoned"
        BY <1>2, <3>1
      <4> QED
        BY <4>1 DEF FateInv, Abandoned
    <3> QED
      BY <2>2, <3>2
  <2> QED
    BY <2>1, <2>2
<1> QED
  BY <1>3, <1>4, <1>5, <1>6 DEF FateInv

LEMMA FateNext ==
  ServedInv /\ OrderInv /\ FateInv /\ [Next]_vars => FateInv'
<1> SUFFICES ASSUME ContextTypes, CallTypes, WorkTypes, DistinctInv, FrameInv, ResultsLinked,
                    OrderInv, FateInv, [Next]_vars
             PROVE  FateInv'
  BY DEF ServedInv, IInv, TypeInv
<1>0. \A p \in InFlight : p.frame \in Frame /\ p.slot \in Slot
  BY FlightTyped DEF Pictures
<1>1. CASE /\ UNCHANGED <<fate, offered, frameIO>> /\ busy' = busy
           /\ pc' = "start" => pc = "start"
  <2>1. CASE StartOneFrame
    <3> DEFINE n == [kind |-> "pic", src |-> srcIdx, slot |-> StartedSlot,
                     frame |-> frameIO[StartedSlot]]
    <3>1. pc = "start" /\ queue' = Append(queue, n) /\ UNCHANGED <<held, reports>>
      BY <2>1 DEF StartOneFrame, Starting, Issue
    <3>2. frameIO[StartedSlot] = offered /\ fate[offered] = "taken" /\ offered \in Frame
      BY <3>1, StartedFrame
    <3>3. n \in Pictures /\ n.frame = offered
      BY <2>1, <3>2, StartedTyped
    <3> HIDE DEF n
    <3>4. InFlight' \subseteq InFlight \cup {n}
      BY <3>1, <3>3, AppendPictures, PicturesTyped DEF WorkTypes, InFlight, Unread
    <3> QED
      BY <1>1, <3>2, <3>3, <3>4 DEF FateInv, Abandoned
  <2>2. CASE ~StartOneFrame
    <3>1. InFlight' \subseteq InFlight
      BY <2>2, OnlyStartsAdd
    <3> QED
      BY <1>1, <3>1 DEF FateInv, Abandoned
  <2> QED
    BY <2>1, <2>2
<1>2. ASSUME NEW slot \in Slot, NEW copied \in BOOLEAN, SetInput(slot, copied) PROVE FateInv'
  <2>1. /\ UNCHANGED workVars /\ offered < FrameMax /\ offered' = offered + 1 /\ pc = "idle"
        /\ slot \in Slot \ busy /\ frameIO' = [frameIO EXCEPT ![slot] = offered + 1]
    BY <1>2 DEF SetInput, CallerMayOffer, Picks, FirstOf, FreeSlots
  <2>2. CASE busy' = busy \cup {slot} /\ OfferedNow("taken")
    BY <2>1, <2>2, FateAtOffer
  <2>3. CASE OfferedNow("refused") /\ UNCHANGED <<busy, callVars>>
    <3>1. pc' # "start" /\ busy' = busy
      BY <2>1, <2>3 DEF callVars
    <3> QED
      BY <2>1, <2>3, <3>1, FateAtOffer
  <2> QED
    BY <1>2, <2>2, <2>3 DEF SetInput
<1>3. CASE SetInputRefused
  <2>1. /\ UNCHANGED <<workVars, frameIO>> /\ busy' = busy /\ offered < FrameMax
        /\ offered' = offered + 1 /\ OfferedNow("refused") /\ pc' # "start"
    BY <1>3 DEF SetInputRefused, CallerMayOffer, ctxVars, callVars
  <2> QED
    BY <2>1, FateAtOffer
<1>4. CASE SendChange /\ Settle(frameIO[StartedSlot], "abandoned") /\ Return
  <2>1. pc = "start" /\ pc' # "start" /\ UNCHANGED <<offered, frameIO>> /\ busy' = busy
    BY <1>4 DEF SendChange, Return
  <2>2. /\ frameIO[StartedSlot] = offered /\ offered \in Frame /\ StartedSlot \in Slot
        /\ fate[offered] = "taken" /\ StartedSlot \in busy
        /\ \A p \in InFlight : p.frame # offered
    BY <2>1, StartedFrame
  <2>3. fate' = [fate EXCEPT ![offered] = "abandoned"]
    BY <1>4, <2>2 DEF Settle
  <2>4. InFlight' \subseteq InFlight
    <3>1. ~StartOneFrame
      BY <1>4 DEF SendChange, StartOneFrame, Starting
    <3> QED
      BY <3>1, OnlyStartsAdd
  <2> QED
    BY <1>0, <2>1, <2>2, <2>3, <2>4, FateAtSettling
<1>5. CASE StartFailed
  <2>1. /\ pc = "start" /\ pc' # "start" /\ UNCHANGED <<offered, frameIO, workVars>>
        /\ busy' = busy \ {StartedSlot} /\ Settle(frameIO[StartedSlot], "refused")
    BY <1>5 DEF StartFailed, Starting, FailedSlot, StartedSlot, FreeSlot, Return
  <2>2. /\ frameIO[StartedSlot] = offered /\ offered \in Frame /\ StartedSlot \in Slot
        /\ fate[offered] = "taken" /\ \A p \in InFlight : p.frame # offered
    BY <2>1, StartedFrame
  <2>3. fate' = [fate EXCEPT ![offered] = "refused"]
    BY <2>1, <2>2 DEF Settle
  <2>4. InFlight' = InFlight
    BY <2>1 DEF InFlight, Unread, workVars
  <2> QED
    BY <1>0, <2>1, <2>2, <2>3, <2>4, FateAtSettling
<1>6. CASE FetchPicture
  <2> DEFINE r == Head(reports)
  <2>1. /\ r \in InFlight /\ busy' = busy \ {r.slot} /\ fate[r.frame] = "taken"
        /\ fate' = [fate EXCEPT ![r.frame] = "returned"]
        /\ \A p \in InFlight' : p \in InFlight /\ p.frame # r.frame
    BY <1>6, FetchedFrame
  <2>2. frameIO[r.slot] = r.frame /\ r.slot \in Slot /\ r.frame \in Frame
    BY <1>0, <2>1 DEF FrameInv, FlightInv
  <2>3. pc' # "start" /\ UNCHANGED <<offered, frameIO>>
    BY <1>6 DEF FetchPicture, Return
  <2> HIDE DEF r
  <2> QED
    BY <1>0, <2>1, <2>2, <2>3, FateAtSettling
<1>7. CASE FetchUnmapFails
  <2> DEFINE r == Head(reports)
  <2>1. /\ busy' = busy /\ r.slot \in busy /\ fate[r.frame] = "taken"
        /\ fate' = [fate EXCEPT ![r.frame] = "abandoned"]
        /\ InFlight' \subseteq InFlight /\ \A p \in InFlight' : p.frame # r.frame
        /\ frameIO[r.slot] = r.frame /\ r.slot \in Slot /\ r.frame \in Frame
        /\ pc' # "start" /\ UNCHANGED <<offered, frameIO>>
    BY <1>7, LeakedFrame DEF ctxVars
  <2> HIDE DEF r
  <2> QED
    BY <1>0, <2>1, FateAtSettling
<1> QED
  BY <1>1, <1>2, <1>3, <1>4, <1>5, <1>6, <1>7, FateMoves

LEMMA FateInit == Init => FateInv
<1> SUFFICES ASSUME Init PROVE FateInv OBVIOUS
<1>1. InFlight = {}
  BY NoPictures DEF Init, InFlight, Unread
<1>2. \A f \in Frame : fate[f] = "new" /\ f > 0
  BY DEF Init, Frame
<1> QED
  BY <1>1, <1>2 DEF Init, FateInv, Abandoned, NoFrame

LEMMA FatesAlways == Spec => [](ServedInv /\ OrderInv /\ FateInv)
<1>1. Init => ServedInv /\ OrderInv /\ FateInv
  BY ServedInit, OrderInit, FateInit
<1>2. ServedInv /\ OrderInv /\ FateInv /\ [Next]_vars => (ServedInv /\ OrderInv /\ FateInv)'
  BY ServedNext, OrderNext, FateNext DEF ServedInv
<1> QED
  BY <1>1, <1>2, PTL DEF Spec

\* A frame that was refused, abandoned or given back is never heard of again, and a slot
\* that an abandoned frame left behind is never used for another one.
SettledOnce == /\ \A f \in Frame : fate[f] # "settled again"
               /\ Abandoned \subseteq busy

THEOREM FramesSettleOnce == Spec => []SettledOnce
<1>1. FateInv => SettledOnce
  BY DEF FateInv, SettledOnce
<1> QED
  BY <1>1, FatesAlways, PTL

(***************************************************************************)
(* How often a frame is overtaken                                          *)
(***************************************************************************)

\* The later frames that were given back or may yet be, before the picture p is.
Later(p) == {h \in Frame : /\ h > p.frame
                           /\ fate[h] = "returned" \/ \E q \in InFlight : q.frame = h}

\* Each of them was started after p.
CountInv == \A p \in InFlight : Cardinality(Later(p)) <= Age(p.src)

LEMMA FramesFinite == \A S : S \subseteq Frame => IsFiniteSet(S) /\ Cardinality(S) \in Nat
<1>1. IsFiniteSet(Frame)
  <2>1. 1 \in Int /\ FrameMax \in Int
    BY SourcesAreSlots
  <2> QED
    BY <2>1, FS_Interval DEF Frame
<1> QED
  BY <1>1, FS_Subset, FS_CardinalityType

LEMMA AddOne ==
  ASSUME NEW S, IsFiniteSet(S), NEW x
  PROVE  /\ IsFiniteSet(S \cup {x})
         /\ Cardinality(S \cup {x}) <= Cardinality(S) + 1
         /\ Cardinality(S \cup {x}) \in Nat
<1>1. Cardinality(S) \in Nat
  BY FS_CardinalityType
<1>2. /\ IsFiniteSet(S \cup {x})
      /\ Cardinality(S \cup {x}) = IF x \in S THEN Cardinality(S) ELSE Cardinality(S) + 1
  BY FS_AddElement
<1> QED
  BY <1>1, <1>2

LEMMA NewlyReturned ==
  ASSUME ContextTypes, CallTypes, WorkTypes, DistinctInv, FrameInv, ResultsLinked, FateInv,
         [Next]_vars, NEW h \in Frame, fate'[h] = "returned", fate[h] # "returned"
  PROVE  FetchPicture /\ Head(reports) \in InFlight /\ h = Head(reports).frame
<1>1. fate \in [Frame -> Fates]
  BY DEF CallTypes
<1>2. CASE \/ \E slot \in Slot, copied \in BOOLEAN : SetInput(slot, copied)
           \/ SetInputRefused
  <2>1. \E verdict \in {"taken", "refused"} : OfferedNow(verdict)
    BY <1>2 DEF SetInput, SetInputRefused
  <2> QED
    BY <1>1, <2>1 DEF OfferedNow
<1>3. CASE \/ SendChange /\ Settle(frameIO[StartedSlot], "abandoned")
           \/ StartFailed \/ FetchUnmapFails
  <2>1. \E f : Settle(f, "abandoned") \/ Settle(f, "refused")
    BY <1>3 DEF StartFailed, FetchUnmapFails
  <2> QED
    BY <1>1, <2>1 DEF Settle
<1>4. CASE FetchPicture
  <2>1. Head(reports) \in InFlight /\ fate' = [fate EXCEPT ![Head(reports).frame] = "returned"]
    BY <1>4, FetchedFrame
  <2> QED
    BY <1>1, <1>4, <2>1
<1>5. CASE fate' = fate
  BY <1>5
<1> QED
  BY <1>2, <1>3, <1>4, <1>5, FateMoves

LEMMA CountNext ==
  ServedInv /\ OrderInv /\ FateInv /\ CountInv /\ [Next]_vars => CountInv'
<1> SUFFICES ASSUME ContextTypes, CallTypes, WorkTypes, DistinctInv, FrameInv, ResultsLinked,
                    OrderInv, FateInv, CountInv, [Next]_vars
             PROVE  CountInv'
  BY DEF ServedInv, IInv, TypeInv
<1>1. \A p : Later(p) \subseteq Frame /\ Later(p)' \subseteq Frame
  BY DEF Later, Frame
<1>2. \A p \in InFlight : p.src \in Src /\ p.frame \in Frame
  BY FlightTyped DEF Pictures
<1>3. CASE StartOneFrame
  <2> DEFINE n == [kind |-> "pic", src |-> srcIdx, slot |-> StartedSlot,
                   frame |-> frameIO[StartedSlot]]
  <2>1. /\ pc = "start" /\ queue' = Append(queue, n) /\ UNCHANGED <<held, reports, fate, offered>>
        /\ srcIdx' = NextSrc(srcIdx) /\ srcIdx \notin srcInUse /\ n.src = srcIdx
    BY <1>3 DEF StartOneFrame, Starting, Issue, SrcRefused, callerVars
  <2>2. frameIO[StartedSlot] = offered /\ offered \in Frame
    BY <2>1, StartedFrame
  <2>3. n \in Pictures /\ n.frame = offered
    BY <1>3, <2>2, StartedTyped
  <2> HIDE DEF n
  <2>4. InFlight' \subseteq InFlight \cup {n}
    BY <2>1, <2>3, AppendPictures, PicturesTyped DEF WorkTypes, InFlight, Unread
  <2>5. \A x \in Src : Age(x)' = IF x = srcIdx THEN 0 ELSE Age(x) + 1
    BY <2>1, AgeAtStart
  <2>6. ASSUME NEW p \in InFlight PROVE Cardinality(Later(p)') <= Age(p.src)'
    <3>1. Later(p)' \subseteq Later(p) \cup {offered}
      BY <2>1, <2>3, <2>4 DEF Later
    <3>2. Age(p.src)' = Age(p.src) + 1 /\ Age(p.src) \in Nat
      BY <1>2, <2>1, <2>5, AgeBounds DEF FrameInv, FlightInv
    <3>3. Cardinality(Later(p)) <= Age(p.src)
      BY DEF CountInv
    <3>4. /\ IsFiniteSet(Later(p)) /\ Cardinality(Later(p)) \in Nat
          /\ IsFiniteSet(Later(p)') /\ Cardinality(Later(p)') \in Nat
      BY <1>1, FramesFinite
    <3>5. /\ IsFiniteSet(Later(p) \cup {offered})
          /\ Cardinality(Later(p) \cup {offered}) <= Cardinality(Later(p)) + 1
          /\ Cardinality(Later(p) \cup {offered}) \in Nat
      BY <3>4, AddOne
    <3>6. Cardinality(Later(p)') <= Cardinality(Later(p) \cup {offered})
      BY <3>1, <3>5, FS_Subset
    <3> QED
      BY <3>2, <3>3, <3>4, <3>5, <3>6
  <2>7. ASSUME NEW p, p = n PROVE Cardinality(Later(p)') <= Age(p.src)'
    <3>1. \A h \in Frame : h > offered => fate[h] = "new"
      BY DEF FateInv
    <3>2. \A q \in InFlight' : ~(q.frame > offered)
      <4>1. \A q \in InFlight : q.frame <= offered /\ q.frame \in Nat
        BY <1>2 DEF OrderInv, FrameOrder, Frame
      <4>2. offered \in Nat
        BY <2>2 DEF Frame
      <4> QED
        BY <2>3, <2>4, <4>1, <4>2
    <3>3. Later(p)' = {}
      <4>1. \A h \in Later(p)' : h > offered /\ (fate[h] = "returned" \/ \E q \in InFlight' : q.frame = h)
        BY <2>1, <2>3, <2>7 DEF Later
      <4> QED
        BY <1>1, <3>1, <3>2, <4>1
    <3>4. Age(p.src)' = 0
      BY <2>1, <2>5, <2>7 DEF ContextTypes
    <3> QED
      BY <3>3, <3>4, FS_EmptySet
  <2> QED
    BY <2>4, <2>6, <2>7 DEF CountInv
<1>4. CASE ~StartOneFrame
  <2>1. InFlight' \subseteq InFlight
    BY <1>4, OnlyStartsAdd
  <2>2. srcIdx' = srcIdx
    <3>1. CASE Firmware
      BY <3>1 DEF Firmware, ctxVars
    <3> QED
      BY <1>4, <3>1, OthersMove
  <2> SUFFICES ASSUME NEW p \in InFlight' PROVE Cardinality(Later(p)') <= Age(p.src)'
    BY DEF CountInv
  <2>3. Later(p)' \subseteq Later(p)
    <3> SUFFICES ASSUME NEW h \in Frame, h > p.frame,
                        fate'[h] = "returned" \/ \E q \in InFlight' : q.frame = h
                 PROVE  fate[h] = "returned" \/ \E q \in InFlight : q.frame = h
      BY DEF Later
    <3> QED
      BY <2>1, NewlyReturned
  <2>4. Age(p.src)' = Age(p.src) /\ Age(p.src) \in Nat
    BY <1>2, <2>1, <2>2, AgeBounds DEF Age
  <2>5. Cardinality(Later(p)') <= Cardinality(Later(p)) /\ Cardinality(Later(p)) \in Nat
        /\ Cardinality(Later(p)') \in Nat
    BY <1>1, <2>3, FramesFinite, FS_Subset
  <2>6. Cardinality(Later(p)) <= Age(p.src)
    BY <2>1 DEF CountInv
  <2> QED
    BY <2>4, <2>5, <2>6
<1> QED
  BY <1>3, <1>4

LEMMA CountInit == Init => CountInv
<1> SUFFICES ASSUME Init PROVE CountInv OBVIOUS
<1>1. InFlight = {}
  BY NoPictures DEF Init, InFlight, Unread
<1> QED
  BY <1>1 DEF CountInv

(***************************************************************************)
(* The account of slots, sources and frames                                *)
(***************************************************************************)

\* The environment loses no picture: what it may do beside leaves every result to be asked for.
Lossless == Faults \cap {"encode", "vlc_full", "reset", "time"} = {}

\* AML_MultiEncRelease was not called yet.
Serving == pc \notin {"flush", "close", "close_wait", "closed"}

\* As long as nothing is lost, a frame that is taken, a source in use and a busy slot all
\* belong to a picture in flight, but for the frame being started and the Abandoned slots.
FramesFound == \A f \in Frame : fate[f] = "taken" =>
    (\E p \in InFlight : p.frame = f) \/ (pc = "start" /\ f = offered)
SourcesFound == \A x \in srcInUse : \E p \in InFlight : p.src = x
SlotsFound == \A s \in busy :
    (\E p \in InFlight : p.slot = s) \/ s \in Abandoned \/ (pc = "start" /\ s = StartedSlot)

AccountInv ==
    /\ timer # "lapsed"
    /\ \A i \in DOMAIN reports : reports[i].kind \notin {"fail", "vlc_full"}
    /\ Serving => FramesFound /\ SourcesFound /\ SlotsFound

LEMMA TimerKept ==
  ASSUME Lossless, timer # "lapsed", [Next]_vars
  PROVE  timer' # "lapsed"
<1>1. CASE HeaderStep \/ CallerStep
  BY <1>1 DEF HeaderStep, HeaderCall, HeaderIssue, HeaderWait, HeaderFetch, CallerStep, SetInput,
     SetInputRefused, ChangeParam, TakeInterrupt, WaitInVain, TimedOut
<1>2. CASE NALStep
  BY <1>2 DEF NALStep, SendChange, SendAgain, StartAgain, TryAgain, FetchUnmapFails,
     StartOneFrame, StartQueueFull, StartFailed, Wait, FetchNothing, FetchAgain, FetchDelay,
     FetchFailed, FetchPicture, TakeInterrupt, WaitInVain, TimedOut
<1>3. CASE ReleaseStep
  BY <1>3 DEF ReleaseStep, Release, FlushFrames, FlushAgain, TryAgain, CloseStillRunning,
     CloseDone, CloseWait, TakeInterrupt, WaitInVain, TimedOut
<1>4. CASE Firmware \/ InterruptHandler \/ TimePasses \/ Terminating \/ UNCHANGED vars
  BY <1>4 DEF Firmware, InterruptHandler, TimePasses, Terminating, vars, Lossless
<1> QED
  BY <1>1, <1>2, <1>3, <1>4 DEF Next

\* No failure is reported.
LEMMA ReportsKept ==
  ASSUME Lossless, WorkTypes, AccountInv, [Next]_vars
  PROVE  \A i \in DOMAIN reports' : reports'[i].kind \notin {"fail", "vlc_full"}
<1>1. CASE Firmware
  <2>1. PICK pics \in SUBSET Pictures : Coded(pics) \/ Failed(pics) \/ Passed(pics)
    BY <1>1, FirmwareDoes
  <2>2. \E report \in Reports : report.kind \notin {"fail", "vlc_full"} /\ Complete(report)
    <3>1. CASE Coded(pics)
      <4>1. PICK p \in pics : Complete(p)
        BY <3>1 DEF Coded, Encodable
      <4>2. p \in Reports /\ p.kind = "pic"
        BY PicturesTyped DEF Pictures
      <4> QED
        BY <4>1, <4>2
    <3>2. CASE Passed(pics)
      BY <3>2 DEF Passed
    <3>3. ~Failed(pics)
      BY DEF Failed, Lossless
    <3> QED
      BY <2>1, <3>1, <3>2, <3>3
  <2> QED
    BY <2>2, AppendAt DEF Complete, WorkTypes, AccountInv
<1>2. CASE reports # << >> /\ TakeReport
  BY <1>2, TailAt DEF TakeReport, WorkTypes, AccountInv
<1>3. CASE reports' = reports
  BY <1>3 DEF AccountInv
<1>4. CASE LoseWork
  BY <1>4, EmptySeq DEF LoseWork
<1> QED
  BY <1>1, <1>2, <1>3, <1>4, OthersDo DEF StartOneFrame, Issue, workVars

\* Before a release only starting frames adds to the sources in use.
LEMMA ServingMoves ==
  ASSUME [Next]_vars, Serving'
  PROVE  /\ Serving
         /\ ~StartOneFrame => srcInUse' \subseteq srcInUse
<1>1. CASE HeaderStep \/ CallerStep
  BY <1>1 DEF HeaderStep, HeaderCall, HeaderIssue, HeaderWait, HeaderFetch, CallerStep, SetInput,
     SetInputRefused, ChangeParam, CallerMayOffer, Serving
<1>2. CASE NALStep
  BY <1>2 DEF NALStep, SendChange, SendAgain, StartAgain, TryAgain, FetchUnmapFails,
     StartQueueFull, StartFailed, Starting, Wait, FetchNothing, FetchAgain, FetchDelay,
     FetchFailed, FetchPicture, Fetching, Retire, Serving, StartOneFrame
<1>3. CASE ReleaseStep
  BY <1>3 DEF ReleaseStep, Release, FlushFrames, FlushAgain, TryAgain, CloseStillRunning,
     CloseDone, CloseWait, GoTo, Serving
<1>4. CASE Firmware \/ InterruptHandler \/ TimePasses \/ Terminating \/ UNCHANGED vars
  BY <1>4 DEF Firmware, InterruptHandler, TimePasses, Terminating, vars, callVars, Serving
<1> QED
  BY <1>1, <1>2, <1>3, <1>4 DEF Next

\* Before a release a picture leaves flight only when it is given back.
LEMMA FlightStays ==
  ASSUME Lossless, WorkTypes, DistinctInv, HeadersLead, AccountInv, [Next]_vars, Serving'
  PROVE  \/ InFlight \subseteq InFlight'
         \/ /\ FetchPicture \/ FetchUnmapFails
            /\ InFlight \ {Head(reports)} \subseteq InFlight'
<1>1. CASE Firmware
  <2>1. PICK pics \in SUBSET Pictures : /\ Taken(pics)
                                        /\ Head(queue).kind = "pic" => Head(queue) \in pics
                                        /\ Coded(pics) \/ Failed(pics) \/ Passed(pics)
    BY <1>1, FirmwareDoes
  <2>2. queue # << >> /\ queue' = Tail(queue) /\ ~Failed(pics) /\ held \subseteq pics
    BY <1>1, <2>1, FirmwareDoes DEF Coded, Failed, Passed, Complete, Lossless, Taken
  <2>3. PicturesOf(queue) \subseteq PicturesOf(queue') \cup pics
    <3>1. /\ DOMAIN queue' = 1 .. Len(queue) - 1 /\ DOMAIN queue = 1 .. Len(queue)
          /\ Len(queue) \in Nat
          /\ \A i \in 1 .. Len(queue) - 1 : queue'[i] = queue[i + 1]
          /\ Head(queue) = queue[1]
      BY <2>2, TailAt DEF WorkTypes
    <3> SUFFICES ASSUME NEW i \in DOMAIN queue, queue[i].kind = "pic", queue[i] \notin pics
                 PROVE  queue[i] \in PicturesOf(queue')
      BY DEF PicturesOf
    <3>2. i # 1
      BY <2>1, <3>1
    <3>3. i - 1 \in DOMAIN queue' /\ queue'[i - 1] = queue[i]
      BY <3>1, <3>2
    <3> QED
      BY <3>3 DEF PicturesOf
  <2>4. CASE Coded(pics)
    <3>1. PICK p \in pics : Complete(p) /\ held' = pics \ {p}
      BY <2>4 DEF Coded, Encodable
    <3>2. p \in Reports /\ p.kind = "pic"
      BY PicturesTyped DEF Pictures
    <3>3. /\ DOMAIN reports' = 1 .. Len(reports) + 1 /\ Len(reports) \in Nat
          /\ reports'[Len(reports) + 1] = p
          /\ PicturesOf(reports) \subseteq PicturesOf(reports')
      BY <3>1, <3>2, AppendAt, AppendPictures DEF Complete, WorkTypes
    <3>4. p \in PicturesOf(reports')
      BY <3>2, <3>3 DEF PicturesOf
    <3> QED
      BY <2>2, <2>3, <3>1, <3>3, <3>4 DEF InFlight, Unread
  <2>5. CASE Passed(pics)
    <3>1. held' = pics /\ PicturesOf(reports) \subseteq PicturesOf(reports')
      BY <2>5, AppendPictures DEF Passed, Complete, WorkTypes
    <3> QED
      BY <2>2, <2>3, <3>1 DEF InFlight, Unread
  <2> QED
    BY <2>1, <2>2, <2>4, <2>5
<1>2. CASE StartOneFrame \/ \E cmd : Issue(cmd)
  <2>1. PICK cmd : queue' = Append(queue, cmd) /\ UNCHANGED <<held, reports>>
    BY <1>2 DEF StartOneFrame, Issue
  <2>2. PicturesOf(queue) \subseteq PicturesOf(queue')
    <3>1. queue \in Seq(Commands \cup {cmd})
      BY DEF WorkTypes
    <3> QED
      BY <2>1, <3>1, AppendPictures
  <2> QED
    BY <2>1, <2>2 DEF InFlight, Unread
<1>3. CASE UNCHANGED workVars
  BY <1>3 DEF InFlight, Unread, workVars
<1>4. CASE HeaderWait \/ HeaderFetch
  BY <1>4 DEF HeaderWait, HeaderFetch, HeadersLead
<1>5. CASE /\ reports # << >> /\ TakeReport
           /\ Head(reports).kind # "pic" \/ FetchPicture \/ FetchUnmapFails
  <2>1. /\ DOMAIN reports' = 1 .. Len(reports) - 1 /\ DOMAIN reports = 1 .. Len(reports)
        /\ Len(reports) \in Nat
        /\ \A i \in 1 .. Len(reports) - 1 : reports'[i] = reports[i + 1]
        /\ Head(reports) = reports[1]
    BY <1>5, TailAt DEF TakeReport, WorkTypes
  <2>2. PicturesOf(reports) \ {Head(reports)} \subseteq PicturesOf(reports')
    <3> SUFFICES ASSUME NEW i \in DOMAIN reports, reports[i].kind = "pic", reports[i] # reports[1]
                 PROVE  reports[i] \in PicturesOf(reports')
      BY <2>1 DEF PicturesOf
    <3>1. i - 1 \in DOMAIN reports' /\ reports'[i - 1] = reports[i]
      BY <2>1
    <3> QED
      BY <3>1 DEF PicturesOf
  <2>3. Unread' = Unread
    BY <1>5 DEF TakeReport, Unread
  <2>4. Head(reports).kind # "pic" => Head(reports) \notin PicturesOf(reports)
    BY DEF PicturesOf
  <2> QED
    BY <1>5, <2>2, <2>3, <2>4 DEF InFlight
<1>6. CASE HeaderStep
  BY <1>2, <1>3, <1>4, <1>6 DEF HeaderStep, HeaderCall, HeaderIssue
<1>7. CASE CallerStep \/ InterruptHandler \/ TimePasses \/ Terminating \/ UNCHANGED vars
  BY <1>3, <1>7 DEF CallerStep, SetInput, SetInputRefused, ChangeParam, InterruptHandler,
     TimePasses, Terminating, vars
<1>8. CASE NALStep
  <2>1. CASE FetchFailed
    <3>1. reports # << >> /\ Head(reports).kind \in {"fail", "vlc_full"}
      BY <2>1 DEF FetchFailed, Fetching
    <3>2. 1 \in DOMAIN reports /\ Head(reports) = reports[1]
      BY <3>1, TailAt DEF WorkTypes
    <3> QED
      BY <3>1, <3>2 DEF AccountInv
  <2>2. CASE Wait
    <3>1. ~TimedOut
      BY DEF TimedOut, AccountInv
    <3> QED
      BY <1>3, <2>2, <3>1 DEF Wait
  <2>3. CASE FetchAgain \/ FetchDelay \/ FetchPicture
    BY <1>5, <2>3 DEF FetchAgain, FetchDelay, FetchPicture, Fetching
  <2>4. CASE FetchUnmapFails
    BY <1>5, <2>4 DEF FetchUnmapFails, Fetching, TakeReportAndReset, Lossless
  <2> QED
    BY <1>2, <1>3, <1>8, <2>1, <2>2, <2>3, <2>4 DEF NALStep, SendChange, SendAgain, StartAgain,
       TryAgain, StartOneFrame, StartQueueFull, StartFailed, FetchNothing
<1>9. CASE ReleaseStep
  BY <1>9 DEF ReleaseStep, Release, FlushFrames, FlushAgain, TryAgain, CloseStillRunning,
     CloseDone, CloseWait, GoTo, Serving
<1> QED
  BY <1>1, <1>6, <1>7, <1>8, <1>9 DEF Next

\* A frame being started is submitted, or the caller is told.
LEMMA StartLeft ==
  ASSUME [Next]_vars, ~StartQueueFull, pc = "start"
  PROVE  \/ pc' = "start"
         \/ StartOneFrame
         \/ SendChange /\ Settle(frameIO[StartedSlot], "abandoned") /\ Return
         \/ StartFailed
<1>1. CASE HeaderStep \/ CallerStep \/ ReleaseStep
  BY <1>1 DEF HeaderStep, HeaderCall, HeaderIssue, HeaderWait, HeaderFetch, CallerStep, SetInput,
     SetInputRefused, ChangeParam, CallerMayOffer, ReleaseStep, Release, FlushFrames, FlushAgain,
     TryAgain, CloseStillRunning, CloseDone, CloseWait
<1>2. CASE NALStep
  BY <1>2 DEF NALStep, SendChange, SendAgain, StartAgain, TryAgain, FetchUnmapFails, Wait,
     FetchNothing, FetchAgain, FetchDelay, FetchFailed, FetchPicture, Fetching, GoTo
<1>3. CASE Firmware \/ InterruptHandler \/ TimePasses \/ Terminating \/ UNCHANGED vars
  BY <1>3 DEF Firmware, InterruptHandler, TimePasses, Terminating, vars, callVars
<1> QED
  BY <1>1, <1>2, <1>3 DEF Next

\* A frame offered, and what is left of the slots that were busy.
LEMMA AccountAtOffer ==
  ASSUME ContextTypes, CallTypes, WorkTypes, FateInv, AccountInv, Serving, pc = "idle",
         UNCHANGED <<workVars, srcInUse, srcIdx>>, offered < FrameMax, offered' = offered + 1,
         NEW verdict \in {"taken", "refused"}, OfferedNow(verdict),
         \/ UNCHANGED frameIO
         \/ \E slot \in Slot \ busy : frameIO' = [frameIO EXCEPT ![slot] = offered + 1],
         IF verdict = "taken"
         THEN pc' = "start" /\ memOf'[srcIdx] \in Slot /\ busy' = busy \cup {memOf'[srcIdx]}
         ELSE busy' = busy
  PROVE  FramesFound' /\ SourcesFound' /\ SlotsFound'
<1>1. InFlight' = InFlight
  BY DEF InFlight, Unread, workVars
<1>2. /\ offered \in Nat /\ offered + 1 \in Frame /\ fate \in [Frame -> Fates]
      /\ frameIO \in [Slot -> Frame \cup {NoFrame}]
  BY SourcesAreSlots DEF CallTypes, ContextTypes, Frame
<1>3. \A f \in Frame : fate'[f] = IF f = offered + 1 THEN verdict ELSE fate[f]
  BY <1>2 DEF OfferedNow
<1>4. FramesFound'
  BY <1>1, <1>3 DEF AccountInv, FramesFound
<1>5. SourcesFound'
  BY <1>1 DEF AccountInv, SourcesFound
<1>6. ASSUME NEW s \in Abandoned PROVE s \in Abandoned'
  <2>1. s \in busy /\ s \in Slot /\ frameIO[s] # NoFrame /\ fate[frameIO[s]] = "abandoned"
    BY DEF FateInv, Abandoned
  <2>2. frameIO'[s] = frameIO[s]
    BY <1>2, <2>1
  <2>3. frameIO[s] \in Frame /\ frameIO[s] <= offered
    BY <1>2, <2>1 DEF FateInv
  <2>4. frameIO[s] # offered + 1
    BY <1>2, <2>3 DEF Frame
  <2> QED
    BY <1>3, <2>1, <2>2, <2>3, <2>4 DEF Abandoned
<1>7. ASSUME NEW s \in busy PROVE (\E p \in InFlight : p.slot = s) \/ s \in Abandoned
  BY DEF AccountInv, SlotsFound
<1>8. SlotsFound'
  <2> SUFFICES ASSUME NEW s \in busy', s \notin Abandoned', ~\E p \in InFlight : p.slot = s
               PROVE  pc' = "start" /\ s = memOf'[srcIdx']
    BY <1>1 DEF SlotsFound, StartedSlot
  <2>1. s \notin busy
    BY <1>6, <1>7
  <2> QED
    BY <2>1
<1> QED
  BY <1>4, <1>5, <1>8

\* A taken frame leaves pc = "start" or the pictures in flight only when its fate is settled.
LEMMA AccountAtSettling ==
  ASSUME ContextTypes, CallTypes, FateInv, AccountInv, Serving,
         UNCHANGED <<offered, frameIO, memOf, srcIdx>>, srcInUse' \subseteq srcInUse, pc' # "start",
         NEW f \in Frame, fate[f] = "taken", NEW verdict \in {"refused", "abandoned", "returned"},
         fate' = [fate EXCEPT ![f] = verdict],
         NEW slot \in Slot, frameIO[slot] = f,
         IF verdict = "abandoned" THEN busy' = busy ELSE busy' = busy \ {slot},
         pc = "start" => f = offered /\ slot = StartedSlot,
         \A p \in InFlight : p \in InFlight' \/ (p.frame = f /\ p.slot = slot /\ p.src \notin srcInUse')
  PROVE  FramesFound' /\ SourcesFound' /\ SlotsFound'
<1>1. fate \in [Frame -> Fates] /\ frameIO \in [Slot -> Frame \cup {NoFrame}]
  BY DEF CallTypes, ContextTypes
<1>2. \A g \in Frame : fate'[g] = IF g = f THEN verdict ELSE fate[g]
  BY <1>1
<1>3. FramesFound'
  <2> SUFFICES ASSUME NEW g \in Frame, fate'[g] = "taken" PROVE \E p \in InFlight' : p.frame = g
    BY DEF FramesFound
  <2>1. g # f /\ fate[g] = "taken"
    BY <1>2
  <2>2. \E p \in InFlight : p.frame = g
    BY <2>1 DEF AccountInv, FramesFound
  <2> QED
    BY <2>1, <2>2
<1>4. SourcesFound'
  BY DEF AccountInv, SourcesFound
<1>5. ASSUME NEW s \in Abandoned PROVE s \in Abandoned'
  <2>1. s \in Slot /\ frameIO[s] # NoFrame /\ fate[frameIO[s]] = "abandoned"
    BY DEF Abandoned
  <2>2. frameIO[s] # f /\ frameIO[s] \in Frame
    BY <1>1, <2>1
  <2> QED
    BY <1>2, <2>1, <2>2 DEF Abandoned
<1>6. verdict = "abandoned" => slot \in Abandoned'
  <2>1. f # NoFrame
    BY DEF Frame, NoFrame
  <2> QED
    BY <1>2, <2>1 DEF Abandoned
<1>7. SlotsFound'
  <2> SUFFICES ASSUME NEW s \in busy' PROVE (\E p \in InFlight' : p.slot = s) \/ s \in Abandoned'
    BY DEF SlotsFound
  <2>1. s \in busy /\ (verdict = "abandoned" \/ s # slot)
    OBVIOUS
  <2>2. \/ \E p \in InFlight : p.slot = s
        \/ s \in Abandoned
        \/ pc = "start" /\ s = slot
    BY <2>1 DEF AccountInv, SlotsFound
  <2> QED
    BY <1>5, <1>6, <2>1, <2>2
<1> QED
  BY <1>3, <1>4, <1>7

LEMMA AccountNext ==
  ASSUME Lossless, ServedInv, OrderInv, FateInv, AccountInv, [Next]_vars, ~StartQueueFull
  PROVE  AccountInv'
<1>0. ContextTypes /\ CallTypes /\ WorkTypes /\ DistinctInv /\ FrameInv /\ HeadersLead /\ ResultsLinked
  BY DEF ServedInv, IInv, TypeInv
<1> SUFFICES ASSUME Serving' PROVE FramesFound' /\ SourcesFound' /\ SlotsFound'
  BY <1>0, TimerKept, ReportsKept DEF AccountInv
<1>1. Serving /\ (~StartOneFrame => srcInUse' \subseteq srcInUse)
  BY ServingMoves
<1>2. FramesFound /\ SourcesFound /\ SlotsFound
  BY <1>1 DEF AccountInv
<1>3. CASE StartOneFrame
  <2> DEFINE n == [kind |-> "pic", src |-> srcIdx, slot |-> StartedSlot,
                   frame |-> frameIO[StartedSlot]]
  <2>1. /\ pc = "start" /\ queue' = Append(queue, n) /\ UNCHANGED <<fate, busy, frameIO>>
        /\ srcInUse' = srcInUse \cup {srcIdx}
    BY <1>3 DEF StartOneFrame, Starting, Issue, callerVars
  <2>2. frameIO[StartedSlot] = offered /\ offered \in Frame
    BY <1>0, <2>1, StartedFrame
  <2>3. n \in Pictures /\ n.frame = offered /\ n.slot = StartedSlot /\ n.src = srcIdx
        /\ n.kind = "pic"
    BY <1>0, <1>3, <2>2, StartedTyped DEF Pictures
  <2> HIDE DEF n
  <2>4. n \in InFlight'
    <3>1. queue'[Len(queue) + 1] = n /\ Len(queue) + 1 \in DOMAIN queue'
      BY <1>0, <2>1, <2>3, AppendAt, PicturesTyped DEF WorkTypes
    <3> QED
      BY <2>3, <3>1 DEF InFlight, Unread, PicturesOf
  <2>5. InFlight \subseteq InFlight'
    <3>1. ~FetchPicture /\ ~FetchUnmapFails
      BY <2>1 DEF FetchPicture, FetchUnmapFails, Fetching
    <3> QED
      BY <1>0, <3>1, FlightStays
  <2> QED
    BY <1>2, <2>1, <2>3, <2>4, <2>5 DEF FramesFound, SourcesFound, SlotsFound, Abandoned
<1>4. ASSUME NEW slot \in Slot, NEW copied \in BOOLEAN, SetInput(slot, copied)
      PROVE  FramesFound' /\ SourcesFound' /\ SlotsFound'
  <2>1. /\ UNCHANGED <<workVars, srcInUse, srcIdx>> /\ offered < FrameMax /\ offered' = offered + 1
        /\ slot \in Slot \ busy /\ frameIO' = [frameIO EXCEPT ![slot] = offered + 1] /\ pc = "idle"
        /\ memOf'[srcIdx] = slot
    BY <1>0, <1>4 DEF SetInput, CallerMayOffer, Picks, FirstOf, FreeSlots, Link, ContextTypes
  <2>2. \/ OfferedNow("taken") /\ busy' = busy \cup {slot} /\ pc' = "start"
        \/ OfferedNow("refused") /\ busy' = busy
    BY <1>4 DEF SetInput, GoTo
  <2> QED
    BY <1>0, <1>1, <2>1, <2>2, AccountAtOffer
<1>5. CASE SetInputRefused
  <2>1. /\ UNCHANGED <<workVars, srcInUse, srcIdx, frameIO>> /\ offered < FrameMax
        /\ offered' = offered + 1 /\ OfferedNow("refused") /\ busy' = busy /\ pc = "idle"
    BY <1>5 DEF SetInputRefused, CallerMayOffer, ctxVars
  <2> QED
    BY <1>0, <1>1, <2>1, AccountAtOffer
<1>6. CASE SendChange /\ Settle(frameIO[StartedSlot], "abandoned") /\ Return
  <2>1. /\ pc = "start" /\ pc' # "start" /\ UNCHANGED <<offered, frameIO, memOf, srcIdx>>
        /\ busy' = busy /\ ~StartOneFrame /\ ~FetchPicture /\ ~FetchUnmapFails
    BY <1>6 DEF SendChange, Return, StartOneFrame, Starting, FetchPicture, FetchUnmapFails, Fetching
  <2>2. /\ frameIO[StartedSlot] = offered /\ offered \in Frame /\ StartedSlot \in Slot
        /\ fate[offered] = "taken"
    BY <1>0, <2>1, StartedFrame
  <2>3. fate' = [fate EXCEPT ![offered] = "abandoned"]
    BY <1>6, <2>2 DEF Settle
  <2>4. InFlight \subseteq InFlight'
    BY <1>0, <2>1, FlightStays
  <2> QED
    BY <1>0, <1>1, <2>1, <2>2, <2>3, <2>4, AccountAtSettling
<1>7. CASE StartFailed
  <2>1. /\ pc = "start" /\ pc' # "start" /\ UNCHANGED <<offered, frameIO, memOf, srcIdx, workVars>>
        /\ busy' = busy \ {StartedSlot} /\ Settle(frameIO[StartedSlot], "refused")
        /\ srcInUse' = srcInUse
    BY <1>7 DEF StartFailed, Starting, FailedSlot, StartedSlot, FreeSlot, Return
  <2>2. /\ frameIO[StartedSlot] = offered /\ offered \in Frame /\ StartedSlot \in Slot
        /\ fate[offered] = "taken"
    BY <1>0, <2>1, StartedFrame
  <2>3. fate' = [fate EXCEPT ![offered] = "refused"]
    BY <2>1, <2>2 DEF Settle
  <2>4. InFlight' = InFlight
    BY <2>1 DEF InFlight, Unread, workVars
  <2> QED
    BY <1>0, <1>1, <2>1, <2>2, <2>3, <2>4, AccountAtSettling
<1>8. CASE FetchPicture
  <2> DEFINE r == Head(reports)
  <2>1. /\ r \in InFlight /\ busy' = busy \ {r.slot} /\ fate[r.frame] = "taken"
        /\ fate' = [fate EXCEPT ![r.frame] = "returned"] /\ srcInUse' = srcInUse \ {r.src}
    BY <1>0, <1>8, FetchedFrame
  <2>2. frameIO[r.slot] = r.frame /\ r.slot \in Slot /\ r.frame \in Frame
    BY <1>0, <2>1, FlightTyped DEF FrameInv, FlightInv, Pictures
  <2>3. pc # "start" /\ pc' # "start" /\ UNCHANGED <<offered, frameIO, memOf, srcIdx>>
    BY <1>8 DEF FetchPicture, Fetching, Return
  <2>4. InFlight \ {r} \subseteq InFlight'
    BY <1>0, FlightStays
  <2>5. \A p \in InFlight : p \in InFlight' \/ (p.frame = r.frame /\ p.slot = r.slot /\ p.src \notin srcInUse')
    BY <2>1, <2>4
  <2> HIDE DEF r
  <2> QED
    BY <1>0, <1>1, <2>1, <2>2, <2>3, <2>5, AccountAtSettling
<1>9. CASE ~StartOneFrame /\ ~StartFailed /\ ~FetchPicture /\ ~FetchUnmapFails
           /\ UNCHANGED <<fate, offered, frameIO>> /\ busy' = busy
           /\ (pc' = "start" => pc = "start" /\ memOf' = memOf /\ srcIdx' = srcIdx)
  <2>1. InFlight \subseteq InFlight'
    BY <1>0, <1>9, FlightStays
  <2>2. CASE pc = "start" /\ pc' # "start"
    <3>1. SendChange /\ Settle(frameIO[StartedSlot], "abandoned") /\ Return
      BY <1>9, <2>2, StartLeft
    <3> QED
      BY <1>6, <3>1
  <2>3. CASE pc = "start" => pc' = "start" /\ StartedSlot' = StartedSlot
    BY <1>1, <1>2, <1>9, <2>1, <2>3 DEF FramesFound, SourcesFound, SlotsFound, Abandoned
  <2> QED
    BY <1>9, <2>2, <2>3 DEF StartedSlot
<1>10. CASE FetchUnmapFails
  <2> DEFINE r == Head(reports)
  <2>1. /\ r \in InFlight /\ busy' = busy /\ fate[r.frame] = "taken"
        /\ fate' = [fate EXCEPT ![r.frame] = "abandoned"] /\ srcInUse' = srcInUse \ {r.src}
        /\ frameIO[r.slot] = r.frame /\ r.slot \in Slot /\ r.frame \in Frame
        /\ pc # "start" /\ pc' # "start" /\ UNCHANGED <<offered, frameIO, memOf, srcIdx>>
    BY <1>0, <1>10, LeakedFrame DEF ctxVars
  <2>2. InFlight \ {r} \subseteq InFlight'
    BY <1>0, FlightStays
  <2>3. \A p \in InFlight : p \in InFlight' \/ (p.frame = r.frame /\ p.slot = r.slot /\ p.src \notin srcInUse')
    BY <2>1, <2>2
  <2> HIDE DEF r
  <2> QED
    BY <1>0, <1>1, <2>1, <2>3, AccountAtSettling
<1> QED
  BY <1>3, <1>4, <1>5, <1>6, <1>7, <1>8, <1>9, <1>10, FateMoves

LEMMA AccountInit == Init => AccountInv
<1> SUFFICES ASSUME Init PROVE AccountInv OBVIOUS
<1>1. InFlight = {} /\ DOMAIN reports = {}
  BY NoPictures, EmptySeq DEF Init, InFlight, Unread
<1> QED
  BY <1>1 DEF Init, AccountInv, FramesFound, SourcesFound, SlotsFound

LEMMA Unstarted == UNCHANGED vars => ~StartQueueFull
  BY DEF StartQueueFull, Starting, GoTo, vars, callVars

LEMMA AccountAlways ==
  ASSUME Lossless
  PROVE  Spec /\ [][~StartQueueFull]_vars => [](ServedInv /\ OrderInv /\ FateInv /\ AccountInv)
<1>1. Init => AccountInv
  BY AccountInit
<1>2. ServedInv /\ OrderInv /\ FateInv /\ AccountInv /\ [Next]_vars /\ [~StartQueueFull]_vars
        => AccountInv'
  <2> SUFFICES ASSUME ServedInv, OrderInv, FateInv, AccountInv, [Next]_vars, [~StartQueueFull]_vars
               PROVE  AccountInv'
    OBVIOUS
  <2>1. ~StartQueueFull
    BY Unstarted
  <2> QED
    BY <2>1, AccountNext
<1>3. Spec => [](ServedInv /\ OrderInv /\ FateInv)
  BY FatesAlways
<1> QED
  BY <1>1, <1>2, <1>3, PTL DEF Spec

\* As long as the environment loses no picture and no frame meets a full command queue, no slot
\* and no source index is lost between calls, whatever else fails (allocations, submissions,
\* changes of parameters, interrupts that come twice or never, answers that come late), but the
\* slots of a refused change and of a buffer that is not unmapped, which Abandoned names
\* (AML_MultiEncoder.c:1595-1613, :2311, :2418; vpuapi.c:903, :982, :1043).
THEOREM NothingIsLost ==
  ASSUME Lossless
  PROVE  Spec /\ [][~StartQueueFull]_vars => []InFlightAccounted
<1>1. ServedInv /\ FateInv /\ AccountInv => InFlightAccounted
  <2> SUFFICES ASSUME FlightInv, FateInv, AccountInv, pc = "idle"
               PROVE  /\ busy = {p.slot : p \in InFlight} \cup Abandoned
                      /\ srcInUse = {p.src : p \in InFlight}
    BY DEF ServedInv, IInv, FrameInv, InFlightAccounted
  <2>1. SlotsFound /\ SourcesFound
    BY DEF AccountInv, Serving
  <2>2. busy \subseteq {p.slot : p \in InFlight} \cup Abandoned
    BY <2>1 DEF SlotsFound
  <2>3. {p.slot : p \in InFlight} \cup Abandoned \subseteq busy
    BY DEF FlightInv, FateInv
  <2>4. srcInUse \subseteq {p.src : p \in InFlight} /\ {p.src : p \in InFlight} \subseteq srcInUse
    BY <2>1 DEF SourcesFound, FlightInv
  <2> QED
    BY <2>2, <2>3, <2>4
<1> QED
  BY <1>1, AccountAlways, PTL DEF Spec

(***************************************************************************)
(* The ledger                                                              *)
(***************************************************************************)

\* The source started a frames ago.
SrcOf(a) == IF a < srcIdx THEN srcIdx - 1 - a ELSE SrcNum + srcIdx - 1 - a

LEMMA SrcOfAge ==
  ASSUME ContextTypes, NEW a \in Nat, a < SrcNum
  PROVE  SrcOf(a) \in Src /\ Age(SrcOf(a)) = a
<1>1. SrcNum \in Nat /\ SrcNum > 0 /\ Src = 0 .. SrcNum - 1 /\ srcIdx \in Src
  BY SourcesAreSlots DEF Src, ContextTypes
<1> QED
  BY <1>1 DEF Age, SrcOf

LEMMA CountBelow ==
  ASSUME NEW a \in Int, NEW b \in Nat, b > a
  PROVE  /\ IsFiniteSet((0 .. a) \cup {b})
         /\ Cardinality((0 .. a) \cup {b}) = IF 0 > a THEN 1 ELSE a + 2
<1>1. IsFiniteSet(0 .. a) /\ Cardinality(0 .. a) = IF 0 > a THEN 0 ELSE a + 1
  <2>1. 0 \in Int
    OBVIOUS
  <2>2. IsFiniteSet(0 .. a) /\ Cardinality(0 .. a) = IF 0 > a THEN 0 ELSE a - 0 + 1
    BY <2>1, FS_Interval
  <2> QED
    BY <2>2
<1>2. b \notin 0 .. a
  OBVIOUS
<1>3. IsFiniteSet((0 .. a) \cup {b}) /\ Cardinality((0 .. a) \cup {b}) = Cardinality(0 .. a) + 1
  BY <1>1, <1>2, FS_AddElement
<1> QED
  BY <1>1, <1>3

\* A frame waiting for its result when a later one is given back: all sources started at least
\* Window frames after it are in flight, so few of the later frames have come back.
LEMMA FewOvertake ==
  ASSUME ServedInv, OrderInv, FateInv, CountInv, AccountInv, FetchPicture,
         NEW g \in Frame, g < Head(reports).frame, fate[g] = "taken"
  PROVE  Cardinality({h \in Frame : h > g /\ fate[h] = "returned"}) < Window - 1
<1> DEFINE r == Head(reports)
           Over == {h \in Frame : h > g /\ fate[h] = "returned"}
<1>1. ContextTypes /\ CallTypes /\ WorkTypes /\ DistinctInv /\ FrameInv /\ ResultsLinked
  BY DEF ServedInv, IInv, TypeInv
<1>2. r \in InFlight /\ r \in Pictures /\ r.kind = "pic" /\ reports # << >> /\ pc = "fetch"
  BY <1>1, FetchedFrame DEF FetchPicture, Fetching
<1>3. PICK p \in InFlight : p.frame = g
  BY <1>2 DEF AccountInv, Serving, FramesFound
<1>4. \A q \in InFlight : q \in Pictures /\ q.src \in Src /\ q.frame \in Frame /\ q.frame \in Nat
  BY <1>1, FlightTyped DEF Pictures, Frame
<1>5. Close(p, r)
  <2>1. r = reports[1] /\ PictureAt(reports, 1) /\ \A i \in DOMAIN reports : i # 1 => 1 < i
    BY <1>1, <1>2, TailAt DEF WorkTypes, PictureAt
  <2>2. r \in PicturesOf(reports)
    BY <2>1 DEF PictureAt, PicturesOf
  <2>3. CASE p \in Unread
    BY <2>2, <2>3 DEF OrderInv, ReportOrder
  <2>4. ASSUME NEW i \in DOMAIN reports, reports[i].kind = "pic", p = reports[i] PROVE Close(p, r)
    <3>1. i # 1
      BY <1>3, <2>1, <2>4, <1>4, <1>2
    <3>2. 1 < i /\ PictureAt(reports, i) /\ 1 \in DOMAIN reports
      BY <2>1, <2>4, <3>1 DEF PictureAt
    <3> QED
      BY <2>1, <2>4, <3>2 DEF OrderInv, ReportOrder
  <2> QED
    BY <2>3, <2>4 DEF InFlight, PicturesOf
<1> HIDE DEF r
<1>6. p.frame < r.frame
  BY <1>3 DEF r
<1>7. PICK A \in Nat : A = Age(p.src) /\ A < SrcNum
  BY <1>1, <1>4, AgeBounds
<1>8. PICK b \in Nat : b = Age(r.src)
  BY <1>1, <1>2, <1>4, AgeBounds
<1>9. b < A /\ A < b + Window /\ Window \in Nat /\ SrcNum \in Nat
  <2>1. Age(r.src) < Age(p.src)
    BY <1>1, <1>2, <1>6, EarlierIsOlder DEF OrderInv
  <2> QED
    BY <1>5, <1>6, <1>7, <1>8, <2>1, BoundsAssumption DEF Close
<1> DEFINE E == (0 .. A - Window) \cup {b}
<1>10. \A a \in E : a \in Nat /\ a < A /\ a < SrcNum
  BY <1>7, <1>9
<1>11. ASSUME NEW a \in E PROVE \E q \in InFlight : Age(q.src) = a
  <2>1. CASE a = b
    BY <1>2, <1>8, <2>1
  <2>2. CASE a # b
    <3>1. a \in Nat /\ a < SrcNum /\ a + Window <= A
      BY <1>9, <1>10, <2>2
    <3>2. SrcOf(a) \in Src /\ Age(SrcOf(a)) = a
      BY <1>1, <3>1, SrcOfAge
    <3>3. SrcOf(a) \in srcInUse
      BY <1>7, <3>1, <3>2 DEF OrderInv, UseOrder
    <3>4. SourcesFound
      BY <1>2 DEF AccountInv, Serving
    <3> QED
      BY <3>2, <3>3, <3>4 DEF SourcesFound
  <2> QED
    BY <2>1, <2>2
<1> DEFINE pick == [a \in E |-> CHOOSE q \in InFlight : Age(q.src) = a]
           F == [a \in E |-> pick[a].frame]
<1>12. \A a \in E : pick[a] \in InFlight /\ Age(pick[a].src) = a
  BY <1>11
<1>13. \A a \in E : F[a] = pick[a].frame
  OBVIOUS
<1>14. DOMAIN F = E /\ F = [a \in E |-> F[a]]
  OBVIOUS
<1> HIDE DEF pick, F
<1>15. \A a \in E : F[a] \in Later(p) \ Over
  <2> SUFFICES ASSUME NEW a \in E PROVE F[a] \in Later(p) \ Over
    OBVIOUS
  <2>1. pick[a] \in InFlight /\ Age(pick[a].src) < Age(p.src)
    BY <1>7, <1>10, <1>12
  <2>2. p.frame < pick[a].frame
    BY <2>1 DEF OrderInv, AgeOrder
  <2>3. pick[a].frame \in Frame /\ fate[pick[a].frame] = "taken"
    BY <1>4, <2>1 DEF FateInv
  <2>4. pick[a].frame > p.frame
    BY <1>4, <2>1, <2>2
  <2> QED
    BY <1>13, <2>1, <2>3, <2>4 DEF Later
<1>16. \A a, c \in E : F[a] = F[c] => a = c
  <2> SUFFICES ASSUME NEW a \in E, NEW c \in E, a < c PROVE F[a] # F[c]
    BY <1>10
  <2>1. pick[c].frame < pick[a].frame
    BY <1>12 DEF OrderInv, AgeOrder
  <2> QED
    BY <1>4, <1>12, <1>13, <2>1
<1>17. Later(p) \subseteq Frame /\ Over \subseteq Later(p)
  BY <1>3 DEF Later
<1>18. /\ IsFiniteSet(Later(p)) /\ IsFiniteSet(Later(p) \ Over) /\ IsFiniteSet(Over)
       /\ Cardinality(Over) \in Nat /\ Cardinality(Later(p)) \in Nat
       /\ Cardinality(Later(p) \ Over) = Cardinality(Later(p)) - Cardinality(Over)
  <2>1. Over = Later(p) \cap Over /\ Later(p) \ Over \subseteq Frame /\ Over \subseteq Frame
    BY <1>17
  <2>2. /\ IsFiniteSet(Later(p)) /\ IsFiniteSet(Later(p) \ Over) /\ IsFiniteSet(Over)
        /\ Cardinality(Over) \in Nat /\ Cardinality(Later(p)) \in Nat
    BY <1>17, <2>1, FramesFinite
  <2>3. Cardinality(Later(p) \ Over) = Cardinality(Later(p)) - Cardinality(Later(p) \cap Over)
    BY <2>2, FS_Difference
  <2> QED
    BY <2>1, <2>2, <2>3
<1>19. Cardinality(E) <= Cardinality(Later(p) \ Over)
  <2>1. F \in Injection(E, Later(p) \ Over)
    <3>1. F \in [E -> Later(p) \ Over]
      BY <1>14, <1>15
    <3> QED
      BY <1>14, <1>16, <3>1 DEF Injection, IsInjective
  <2> QED
    BY <1>18, <2>1, FS_Injection
<1>20. Cardinality(E) = IF 0 > A - Window THEN 1 ELSE A - Window + 2
  <2>1. A - Window \in Int /\ b > A - Window
    BY <1>9
  <2> QED
    BY <2>1, CountBelow
<1>21. Cardinality(Later(p)) <= A
  BY <1>7 DEF CountInv
<1> HIDE DEF E, Over
<1>22. Cardinality(Over) < Window - 1
  BY <1>9, <1>18, <1>19, <1>20, <1>21
<1> QED
  BY <1>22 DEF Over

\* The fates as the ledger has them: to the caller an abandoned frame was refused.
Told == [f \in Frame |-> IF fate[f] = "abandoned" THEN "refused" ELSE fate[f]]

LEMMA ToldOf ==
  ASSUME CallTypes, NEW f \in Frame, NEW verdict, fate' = [fate EXCEPT ![f] = verdict]
  PROVE  Told' = [Told EXCEPT ![f] = IF verdict = "abandoned" THEN "refused" ELSE verdict]
<1>1. \A g \in Frame : fate'[g] = IF g = f THEN verdict ELSE fate[g]
  BY DEF CallTypes
<1>2. \A g \in Frame : Told'[g] = IF g = f THEN (IF verdict = "abandoned" THEN "refused" ELSE verdict)
                                  ELSE Told[g]
  BY <1>1 DEF Told
<1> QED
  BY <1>2 DEF Told

\* FrameLedger counts as this module does.
LEMMA SameCount == \A S : LedgerOf!Cardinality(S) = Cardinality(S)
  BY DEF LedgerOf!Cardinality, Cardinality

LEMMA LedgerNext ==
  ASSUME ServedInv, OrderInv, FateInv, CountInv, AccountInv, [Next]_vars
  PROVE  [LedgerOf!Next]_Told
<1>1. ContextTypes /\ CallTypes /\ WorkTypes /\ DistinctInv /\ FrameInv /\ ResultsLinked
  BY DEF ServedInv, IInv, TypeInv
<1>2. \A f \in Frame : Told[f] = IF fate[f] = "abandoned" THEN "refused" ELSE fate[f]
  BY DEF Told
<1>3. ASSUME NEW verdict \in {"taken", "refused"}, OfferedNow(verdict), offered < FrameMax
      PROVE  LedgerOf!Next
  <2>1. offered + 1 \in Frame /\ offered + 1 > offered
    BY <1>1, <1>3, SourcesAreSlots DEF CallTypes, Frame
  <2>2. fate[offered + 1] = "new"
    BY <2>1 DEF FateInv
  <2>3. Told' = [Told EXCEPT ![offered + 1] = verdict]
    BY <1>1, <1>3, <2>1, ToldOf DEF OfferedNow
  <2>4. LedgerOf!Offer(offered + 1, verdict)
    BY <1>2, <2>1, <2>2, <2>3 DEF LedgerOf!Offer, Told
  <2> QED
    BY <2>1, <2>4 DEF LedgerOf!Next
<1>4. ASSUME NEW verdict \in {"abandoned", "refused"}, pc = "start",
             Settle(frameIO[StartedSlot], verdict)
      PROVE  LedgerOf!Next
  <2>1. frameIO[StartedSlot] = offered /\ offered \in Frame /\ fate[offered] = "taken"
    BY <1>1, <1>4, StartedFrame
  <2>2. Told' = [Told EXCEPT ![offered] = "refused"]
    <3>1. fate' = [fate EXCEPT ![offered] = verdict]
      BY <1>4, <2>1 DEF Settle
    <3> QED
      BY <1>1, <2>1, <3>1, ToldOf
  <2>3. PICK f \in Frame : f = offered
    BY <2>1
  <2>4. LedgerOf!GiveUp(f)
    BY <1>2, <2>1, <2>2, <2>3 DEF LedgerOf!GiveUp, Told
  <2> QED
    BY <2>4 DEF LedgerOf!Next
<1>5. CASE FetchPicture
  <2>1. PICK f \in Frame : /\ f = Head(reports).frame /\ fate[f] = "taken"
                           /\ fate' = [fate EXCEPT ![f] = "returned"]
    BY <1>1, <1>5, FetchedFrame DEF Pictures
  <2>2. Told' = [Told EXCEPT ![f] = "returned"] /\ Told[f] = "taken"
    BY <1>1, <1>2, <2>1, ToldOf
  <2>3. ASSUME NEW g \in Frame, g < f, Told[g] = "taken"
        PROVE  Cardinality(LedgerOf!OvertakersOf(g)) < Window - 1
    <3>1. fate[g] = "taken"
      BY <1>2, <2>3
    <3>2. Cardinality({h \in Frame : h > g /\ fate[h] = "returned"}) < Window - 1
      BY <1>5, <2>1, <2>3, <3>1, FewOvertake
    <3>3. LedgerOf!OvertakersOf(g) = {h \in Frame : h > g /\ fate[h] = "returned"}
      BY DEF LedgerOf!OvertakersOf
    <3> QED
      BY <3>2, <3>3
  <2>4. LedgerOf!GiveBack(f)
    BY <2>2, <2>3, SameCount DEF LedgerOf!GiveBack, Told
  <2> QED
    BY <2>4 DEF LedgerOf!Next
<1>6. CASE fate' = fate
  BY <1>6 DEF Told
<1>7. CASE (\E slot \in Slot, copied \in BOOLEAN : SetInput(slot, copied)) \/ SetInputRefused
  BY <1>3, <1>7 DEF SetInput, SetInputRefused, CallerMayOffer
<1>8. CASE StartFailed
  BY <1>4, <1>8 DEF StartFailed, Starting, FailedSlot, StartedSlot
<1>9. CASE SendChange /\ Settle(frameIO[StartedSlot], "abandoned") /\ Return
  BY <1>4, <1>9 DEF SendChange
<1>10. CASE FetchUnmapFails
  <2>1. PICK f \in Frame : fate[f] = "taken" /\ fate' = [fate EXCEPT ![f] = "abandoned"]
    BY <1>1, <1>10, LeakedFrame
  <2>2. Told' = [Told EXCEPT ![f] = "refused"] /\ Told[f] = "taken"
    BY <1>1, <1>2, <2>1, ToldOf
  <2>3. LedgerOf!GiveUp(f)
    BY <2>2 DEF LedgerOf!GiveUp, Told
  <2> QED
    BY <2>3 DEF LedgerOf!Next
<1> QED
  BY <1>5, <1>6, <1>7, <1>8, <1>9, <1>10, FateMoves

LEMMA LedgerInit == Init => LedgerOf!Init
  BY DEF Init, LedgerOf!Init

\* As long as the environment loses no picture and no frame meets a full command queue, the
\* frames a caller hands in are accounted for as FrameLedger promises: each is taken or refused
\* once, only a frame taken and not yet given back is given back, and at most Window - 1 later
\* ones are given back before it (AML_MultiEncoder.c:1789, :2404-2418).
THEOREM LedgerIsKept ==
  ASSUME Lossless
  PROVE  Spec /\ [][~StartQueueFull]_vars => KeepsLedger
<1>1. CountInv /\ ServedInv /\ OrderInv /\ FateInv /\ [Next]_vars => CountInv'
  BY CountNext
<1>2. ServedInv /\ OrderInv /\ FateInv /\ CountInv /\ AccountInv /\ [Next]_vars
        => [LedgerOf!Next]_Told
  BY LedgerNext
<1> QED
  BY <1>1, <1>2, CountInit, LedgerInit, AccountAlways, PTL
     DEF Spec, KeepsLedger, LedgerOf!Spec, Told
=============================================================================
