---------------------------- MODULE Lookahead_proofs ----------------------------
(**********************************************************************************)
(* The lookahead pipeline, for every stream, GOP size, depth and pool: pass 1     *)
(* never overwrites CU information that is still to be read, and no picture comes *)
(* out after the flush was declared complete.  For the parameters with which the  *)
(* cuTree thread finds its GOPs whole (Regular): every job is in one place, a     *)
(* frame is written once, with its job, the pools of jobs and frames suffice, and *)
(* the application gets the pictures in encoding order, all of them when it       *)
(* flushes.  The argument goes along the pipeline: what the lookahead thread      *)
(* plans (Pass1Inv), how the threads stop and end (ControlInv), what the queue of *)
(* the cuTree thread holds (FramesInv), where each job is (TokenInv), how many    *)
(* there are (PoolInv, QueueInv), which stream pass 1 goes through (Planned,      *)
(* InStream), and how far what came out of it goes (EmittedInv, OutputInv,        *)
(* EndOfStream, ReturnedInv).                                                     *)
(**********************************************************************************)
EXTENDS Lookahead, FiniteSetTheorems, TLAPS

\* Neither argument depends on what the queues hold.
IsSeq(s) == \E S : s \in Seq(S)

\* Appending to a sequence gives a sequence that is longer by one.
LEMMA AppendIsSeq ==
    ASSUME NEW s, IsSeq(s), NEW e
    PROVE  /\ IsSeq(Append(s, e)) /\ Len(s) \in Nat /\ Len(Append(s, e)) = Len(s) + 1
           /\ \A i \in DOMAIN Append(s, e) : i \in DOMAIN s \/ i = Len(s) + 1
           /\ \A i \in DOMAIN s : i \in DOMAIN Append(s, e) /\ Append(s, e)[i] = s[i]
<1>1. PICK S : s \in Seq(S)
  BY DEF IsSeq
<1>2. s \in Seq(S \cup {e}) /\ e \in S \cup {e}
  BY <1>1
<1>3. Append(s, e) \in Seq(S \cup {e})
  BY <1>2
<1> QED
  BY <1>2, <1>3 DEF IsSeq

\* The tail of a sequence is a sequence, shorter by one, and shows only what was there.
LEMMA TailIsSeq ==
    ASSUME NEW s, IsSeq(s), s # <<>>
    PROVE  /\ IsSeq(Tail(s)) /\ Len(s) \in Nat \ {0} /\ Len(Tail(s)) = Len(s) - 1
           /\ \A i \in DOMAIN Tail(s) : i + 1 \in DOMAIN s /\ Tail(s)[i] = s[i + 1]
<1>1. PICK S : s \in Seq(S)
  BY DEF IsSeq
<1>2. Tail(s) \in Seq(S)
  BY <1>1
<1> QED
  BY <1>1, <1>2 DEF IsSeq

\* The empty sequence and sequences of one element.
LEMMA SmallSeqs == IsSeq(<<>>) /\ Len(<<>>) = 0 /\ \A e : IsSeq(<<e>>)
<1>1. <<>> \in Seq({}) /\ \A e : <<e>> \in Seq({e})
  OBVIOUS
<1> QED
  BY <1>1 DEF IsSeq
-----------------------------------------------------------------------------
(* CU information *)

\* CuInfoIntact by cases: n frames wait, and each thread may hold one more buffer.  The
\* cuTree thread has seen the frame it takes.
Fits(n) == /\ n <= cuInfo /\ cuInfo <= CuBufs
           /\ cpc = "handle" \/ lpc = "pass1" => n + 1 <= cuInfo
           /\ cpc = "handle" /\ lpc = "pass1" => n + 2 <= cuInfo
           /\ cpc = "taken" => n >= 1

CuInv == /\ cuInfo \in Nat /\ IsSeq(ctJobs) /\ Len(ctJobs) \in Nat
         /\ back \in {"process", "flush", "end"}
         /\ Fits(Len(ctJobs))

\* The cases add up to the sum that CuInfoIntact states.
LEMMA CuInvIntact == CuInv => CuInfoIntact
<1> SUFFICES ASSUME CuInv PROVE CuInfoIntact
  OBVIOUS
<1> DEFINE Sum(n) == n + (IF cpc = "handle" THEN 1 ELSE 0)
                       + (IF lpc = "pass1" THEN 1 ELSE 0) <= cuInfo
<1>1. PICK n \in Nat : n = Len(ctJobs)
  BY DEF CuInv
<1>2. cuInfo \in Nat /\ Fits(n)
  BY <1>1 DEF CuInv
<1>3. Sum(n)
  BY <1>2 DEF Fits
<1>4. Sum(Len(ctJobs))
  BY <1>1, <1>3, Zenon
<1> QED
  BY <1>2, <1>4, Zenon DEF CuInfoIntact, Fits

\* What waking a sleeper does not touch: nobody sleeps where he handles CU information.
LEMMA SignalsKeepPlaces ==
    ASSUME NEW pc
    PROVE  /\ (SignalJob(pc) = "pass1") = (pc = "pass1")
           /\ (SignalCutree(pc) = "handle") = (pc = "handle")
           /\ (SignalRoi(pc) = "handle") = (pc = "handle")
           /\ (SignalCutree(pc) = "taken") = (pc = "taken")
           /\ (SignalRoi(pc) = "taken") = (pc = "taken")
           /\ (Woken(pc, "cuInfoSleep", "cuInfo") = "pass1") = (pc = "pass1")
BY DEF SignalJob, SignalCutree, SignalRoi, Woken

\* The steps that leave the queue and the counter alone and nobody's place changes.
LEMMA CuInvKept ==
    ASSUME CuInv, UNCHANGED <<ctJobs, cuInfo, back>>,
           cpc' = "handle" => cpc = "handle", cpc' = "taken" => cpc = "taken",
           lpc' = "pass1" => lpc = "pass1"
    PROVE  CuInv'
<1>1. ctJobs' = ctJobs /\ cuInfo' = cuInfo /\ back' = back
  OBVIOUS
<1>2. IsSeq(ctJobs')
  BY <1>1 DEF CuInv, IsSeq
<1> QED
  BY <1>1, <1>2 DEF CuInv, Fits

LEMMA CuInvInit == Init => CuInv
BY SizesAssumption, SmallSeqs DEF Init, CuInv, Fits

LEMMA CuInvNext == CuInv /\ [Next]_vars => CuInv'
<1> SUFFICES ASSUME CuInv, [Next]_vars PROVE CuInv'
  OBVIOUS
<1> USE SignalsKeepPlaces
<1>1. ASSUME CallStep \/ AddPictureToLookahead \/ Flush \/ FlushNothing \/ Release PROVE CuInv'
  <2>1. UNCHANGED <<ctJobs, cuInfo, back>>
    BY <1>1 DEF CallStep, AddPictureToLookahead, Flush, FlushNothing, Release, GetLookaheadOutput,
       EncodePass2, StopLookaheadThread, StopCuTreeThread, TerminateLookaheadThread,
       TerminateCuTreeThread, MainElse, feedVars, ctVars
  <2>2. (cpc' = "handle") = (cpc = "handle") /\ (cpc' = "taken") = (cpc = "taken")
    BY <1>1 DEF CallStep, AddPictureToLookahead, Flush, FlushNothing, Release, GetLookaheadOutput,
       EncodePass2, StopLookaheadThread, StopCuTreeThread, TerminateLookaheadThread,
       TerminateCuTreeThread, ctVars
  <2>3. lpc' = "pass1" => lpc = "pass1"
    BY <1>1 DEF CallStep, AddPictureToLookahead, Flush, FlushNothing, Release, GetLookaheadOutput,
       EncodePass2, StopLookaheadThread, StopCuTreeThread, TerminateLookaheadThread,
       TerminateCuTreeThread, laVars
  <2> QED
    BY <2>1, <2>2, <2>3, CuInvKept
<1>2. ASSUME LookaheadLoop \/ AwaitAnyJob \/ AwaitJob \/ TakeJob \/ AfterAddFrame \/ EndLookahead
      PROVE CuInv'
  <2>1. UNCHANGED <<ctJobs, cuInfo, back>>
    BY <1>2 DEF LookaheadLoop, AwaitAnyJob, AwaitJob, TakeJob, AfterAddFrame, EndLookahead, CtElse
  <2>2. (cpc' = "handle") = (cpc = "handle") /\ (cpc' = "taken") = (cpc = "taken")
    BY <1>2 DEF LookaheadLoop, AwaitAnyJob, AwaitJob, TakeJob, AfterAddFrame, EndLookahead
  <2>3. lpc' # "pass1"
    BY <1>2 DEF LookaheadLoop, AwaitAnyJob, AwaitJob, TakeJob, AfterAddFrame, EndLookahead
  <2> QED
    BY <2>1, <2>2, <2>3, CuInvKept
<1>3. CASE WaitCuInfoBuf
  <2>1. ctJobs' = ctJobs /\ cpc' = cpc /\ back' = back
    BY <1>3 DEF WaitCuInfoBuf
  <2>2. CASE CuInfoFull
    <3>1. cuInfo' = cuInfo /\ lpc' # "pass1"
      BY <1>3, <2>2 DEF WaitCuInfoBuf
    <3> QED
      BY <2>1, <3>1, CuInvKept
  <2>3. CASE ~CuInfoFull
    <3>1. cuInfo' = cuInfo + 1 /\ cuInfo' <= CuBufs /\ lpc = "cuInfo" /\ lpc' = "pass1"
      BY <1>3, <2>3, SizesAssumption DEF WaitCuInfoBuf, ClaimCuInfo, CuInfoFull, CuInv, Fits
    <3> QED
      BY <2>1, <3>1 DEF CuInv, Fits, IsSeq
  <2> QED
    BY <2>2, <2>3
<1>4. CASE EncodePass1
  <2>1. /\ lpc = "pass1" /\ lpc' # "pass1" /\ cuInfo' = cuInfo /\ back' = back
        /\ (cpc' = "handle") = (cpc = "handle") /\ (cpc' = "taken") = (cpc = "taken")
    <3>1. lpc = "pass1" /\ lpc' \in {"added", "end"} /\ cuInfo' = cuInfo /\ back' = back
      BY <1>4 DEF EncodePass1
    <3>2. cpc' = SignalCutree(cpc) \/ cpc' = cpc
      BY <1>4 DEF EncodePass1
    <3> QED
      BY <3>1, <3>2
  <2>2. \/ ctJobs' = Append(ctJobs, want)
        \/ ctJobs' = ctJobs
    BY <1>4 DEF EncodePass1
  <2>3. IsSeq(ctJobs') /\ Len(ctJobs') \in {Len(ctJobs), Len(ctJobs) + 1} /\ Len(ctJobs) \in Nat
    <3>1. CASE ctJobs' = Append(ctJobs, want)
      <4>1. IsSeq(Append(ctJobs, want)) /\ Len(Append(ctJobs, want)) = Len(ctJobs) + 1
        BY AppendIsSeq DEF CuInv
      <4> QED
        BY <3>1, <4>1 DEF CuInv, IsSeq
    <3>2. CASE ctJobs' = ctJobs
      BY <3>2 DEF CuInv, IsSeq
    <3> QED
      BY <2>2, <3>1, <3>2
  <2> QED
    BY <2>1, <2>3 DEF CuInv, Fits
<1>5. ASSUME CuTreeLoop \/ Process \/ WriteFrame \/ RemoveFrames PROVE CuInv'
  <2>1. UNCHANGED <<ctJobs, cuInfo, lpc>>
    BY <1>5 DEF CuTreeLoop, Process, WriteFrame, RemoveFrames, feedVars
  <2>2. back' \in {"process", "flush", "end"}
    BY <1>5 DEF CuTreeLoop, Process, WriteFrame, RemoveFrames, ProcessOneFrame, CuInv
  <2>3. cpc # "handle" /\ cpc' # "handle" /\ cpc' # "taken"
    BY <1>5 DEF CuTreeLoop, Process, WriteFrame, RemoveFrames, ProcessOneFrame, CuInv
  <2>4. IsSeq(ctJobs')
    BY <2>1 DEF CuInv, IsSeq
  <2> QED
    BY <2>1, <2>2, <2>3, <2>4 DEF CuInv, Fits
<1>6. CASE AwaitFrame
  <2>1. cpc = "locked" /\ cpc' # "handle" /\ UNCHANGED <<lpc, cuInfo, back>>
    BY <1>6 DEF AwaitFrame
  <2>2. \/ ctJobs' = <<>> /\ cpc' # "taken"
        \/ ctJobs' = ctJobs /\ (cpc' = "taken" => ctJobs # <<>>)
    BY <1>6 DEF AwaitFrame
  <2>3. /\ IsSeq(ctJobs') /\ Len(ctJobs') \in Nat /\ Len(ctJobs') <= Len(ctJobs)
        /\ cpc' = "taken" => Len(ctJobs') >= 1
    <3>1. CASE ctJobs' = <<>> /\ cpc' # "taken"
      BY <3>1, SmallSeqs DEF CuInv, IsSeq
    <3>2. CASE ctJobs' = ctJobs /\ (cpc' = "taken" => ctJobs # <<>>)
      <4>1. ctJobs # <<>> => Len(ctJobs) \in Nat \ {0}
        BY TailIsSeq DEF CuInv
      <4> QED
        BY <3>2, <4>1 DEF CuInv, IsSeq
    <3> QED
      BY <2>2, <3>1, <3>2
  <2> QED
    BY <2>1, <2>3 DEF CuInv, Fits
<1>7. CASE TakeFrame
  <2>1. cpc = "taken" /\ ctJobs' = Tail(ctJobs) /\ UNCHANGED <<lpc, cuInfo, back>>
    BY <1>7 DEF TakeFrame
  <2>2. ctJobs # <<>>
    BY <2>1, SmallSeqs DEF CuInv, Fits
  <2>3. IsSeq(Tail(ctJobs)) /\ Len(ctJobs) \in Nat \ {0} /\ Len(Tail(ctJobs)) = Len(ctJobs) - 1
    BY <2>2, TailIsSeq DEF CuInv
  <2>4. PICK n \in Nat \ {0} : n = Len(ctJobs)
    BY <2>3
  <2>5. Fits(n) /\ cuInfo \in Nat /\ cpc' \in {"test", "handle"}
    BY <1>7, <2>4 DEF CuInv, TakeFrame
  <2>6. Fits(n - 1)'
    BY <2>1, <2>5, SizesAssumption DEF Fits
  <2>7. IsSeq(ctJobs') /\ Len(ctJobs') \in Nat /\ Len(ctJobs') = n - 1
    BY <2>1, <2>3, <2>4 DEF IsSeq
  <2>8. Fits(Len(ctJobs))'
    BY <2>6, <2>7
  <2> QED
    BY <2>1, <2>7, <2>8 DEF CuInv
<1>8. CASE HandleInputFrame
  <2>1. /\ cpc = "handle" /\ cpc' = "process" /\ cuInfo' = cuInfo - 1
        /\ ctJobs' = ctJobs /\ back' = back
        /\ (lpc' = "pass1") = (lpc = "pass1")
    BY <1>8 DEF HandleInputFrame
  <2>2. IsSeq(ctJobs') /\ Len(ctJobs') = Len(ctJobs) /\ Len(ctJobs) \in Nat
    BY <2>1 DEF CuInv, IsSeq
  <2>3. PICK n \in Nat : n = Len(ctJobs)
    BY <2>2
  <2>4. Fits(n) /\ cuInfo \in Nat
    BY <2>3 DEF CuInv
  <2>5. cuInfo' \in Nat /\ Fits(n)'
    BY <2>1, <2>4, SizesAssumption DEF Fits
  <2>6. Fits(Len(ctJobs))'
    BY <2>2, <2>3, <2>5
  <2>7. back' \in {"process", "flush", "end"}
    BY <2>1 DEF CuInv
  <2> QED
    BY <2>2, <2>5, <2>6, <2>7 DEF CuInv
<1>9. CASE EndCuTree
  <2>1. cpc # "handle" /\ cpc' # "handle" /\ cpc' # "taken" /\ UNCHANGED <<lpc, cuInfo, back>>
    BY <1>9 DEF EndCuTree
  <2>2. ctJobs' = <<>> \/ ctJobs' = ctJobs
    BY <1>9 DEF EndCuTree
  <2>3. IsSeq(ctJobs') /\ Len(ctJobs') \in Nat /\ Len(ctJobs') <= Len(ctJobs)
    BY <2>2, SmallSeqs DEF CuInv
  <2> QED
    BY <2>1, <2>3 DEF CuInv, Fits
<1>10. CASE UNCHANGED vars
  BY <1>10 DEF vars, CuInv, Fits, laVars, ctVars, feedVars, IsSeq
<1> QED
  BY <1>1, <1>2, <1>3, <1>4, <1>5, <1>6, <1>7, <1>8, <1>9, <1>10 DEF Next, LookaheadStep, CutreeStep

\* For every stream, GOP size and pool pass 1 claims a buffer of CU information only while
\* one is free, and cuInfoToRead counts all that are still to be read (waitCuInfoBufPass1).
THEOREM CuInfoNeverOverwritten == Spec => []CuInfoIntact
<1> QED
  BY CuInvInit, CuInvNext, CuInvIntact, PTL DEF Spec
-----------------------------------------------------------------------------
(* The end of the stream *)

Over == {"notify", "stopping", "ended"}

\* The cuTree thread sets CUTREE_FLUSH_END itself, when it has written its last frame.
EndInv == IsSeq(output) /\ (status = CutreeFlushEnd => cpc \in Over)

\* No signal wakes a cuTree thread that is over.
LEMMA SignalsKeepOver ==
    ASSUME NEW pc, pc \in Over
    PROVE  SignalCutree(pc) = pc /\ SignalRoi(pc) = pc
BY DEF Over, SignalCutree, SignalRoi, Woken

\* The outputs that are ready after the head was fetched were ready before.
LEMMA TailReady ==
    ASSUME NEW s, IsSeq(s), s # <<>>
    PROVE  Ready(Tail(s)) \subseteq Ready(s)
<1>1. \A i \in DOMAIN Tail(s) : i + 1 \in DOMAIN s /\ Tail(s)[i] = s[i + 1]
  BY TailIsSeq
<1> QED
  BY <1>1 DEF Ready

\* What the error of a picture leaves in the queue is not ready.
LEMMA ErrorNotReady == \A pic : Ready(<<[pic |-> pic, ok |-> FALSE]>>) = {}
BY DEF Ready

\* How the queue of outputs changes in a step: fetched from, emptied by an error, or, by
\* the cuTree thread before it is over, appended to.
OutputStep == \/ output' = output
              \/ output # <<>> /\ output' = Tail(output)
              \/ \E pic : output' = <<[pic |-> pic, ok |-> FALSE]>>
              \/ cpc = "write" /\ \E e : output' = Append(output, e)

LEMMA EndInvInit == Init => EndInv
BY SmallSeqs DEF Init, EndInv, Ok, CutreeFlushEnd

LEMMA OutputSteps == [Next]_vars => OutputStep
<1> SUFFICES ASSUME [Next]_vars PROVE OutputStep
  OBVIOUS
<1>1. ASSUME AddPictureToLookahead \/ Flush \/ FlushNothing \/ Release PROVE OutputStep
  BY <1>1 DEF AddPictureToLookahead, Flush, FlushNothing, Release, MainElse, outVars, OutputStep
<1>2. CASE CallStep
  BY <1>2 DEF CallStep, GetLookaheadOutput, EncodePass2, StopLookaheadThread, StopCuTreeThread,
     TerminateLookaheadThread, TerminateCuTreeThread, MainElse, outVars, OutputStep
<1>3. ASSUME LookaheadLoop \/ AwaitAnyJob \/ AwaitJob \/ TakeJob \/ WaitCuInfoBuf
             \/ AfterAddFrame \/ EndLookahead
      PROVE OutputStep
  BY <1>3 DEF LookaheadLoop, AwaitAnyJob, AwaitJob, TakeJob, WaitCuInfoBuf, AfterAddFrame,
     EndLookahead, LaElse, OutputStep
<1>4. CASE EncodePass1
  BY <1>4 DEF EncodePass1, Enqueue, OutputStep
<1>5. CASE WriteFrame
  BY <1>5 DEF WriteFrame, Enqueue, outVars, OutputStep
<1>6. ASSUME CuTreeLoop \/ AwaitFrame \/ TakeFrame \/ HandleInputFrame \/ Process
             \/ RemoveFrames \/ EndCuTree
      PROVE OutputStep
  BY <1>6 DEF CuTreeLoop, AwaitFrame, TakeFrame, HandleInputFrame, Process, RemoveFrames,
     EndCuTree, outVars, OutputStep
<1>7. CASE UNCHANGED vars
  BY <1>7 DEF vars, outVars, OutputStep
<1> QED
  BY <1>1, <1>2, <1>3, <1>4, <1>5, <1>6, <1>7 DEF Next, LookaheadStep, CutreeStep

LEMMA EndInvNext == EndInv /\ [Next]_vars => EndInv'
<1> SUFFICES ASSUME EndInv, [Next]_vars PROVE EndInv'
  OBVIOUS
<1>1. IsSeq(output')
  <2>1. \/ output' = output
        \/ output # <<>> /\ output' = Tail(output)
        \/ \E e : output' = <<e>>
        \/ \E e : output' = Append(output, e)
    BY OutputSteps DEF OutputStep
  <2>2. CASE output' = output
    BY <2>2 DEF EndInv, IsSeq
  <2>3. CASE output # <<>> /\ output' = Tail(output)
    BY <2>3, TailIsSeq DEF EndInv, IsSeq
  <2>4. CASE \E e : output' = <<e>>
    BY <2>4, SmallSeqs DEF IsSeq
  <2>5. CASE \E e : output' = Append(output, e)
    <3>1. PICK e : output' = Append(output, e)
      BY <2>5
    <3>2. IsSeq(Append(output, e))
      BY AppendIsSeq DEF EndInv
    <3> QED
      BY <3>1, <3>2 DEF IsSeq
  <2> QED
    BY <2>1, <2>2, <2>3, <2>4, <2>5
<1>2. status' = CutreeFlushEnd => cpc' \in Over
  <2> USE SignalsKeepOver DEF EndInv, Ok, MainStop, LookaheadFlush, CutreeFlush, CutreeFlushEnd,
          LookaheadError, CutreeError, MainError
  <2>1. ASSUME AddPictureToLookahead \/ Flush \/ FlushNothing \/ Release
        PROVE  status' = CutreeFlushEnd => cpc' \in Over
    <3>1. cpc' = cpc /\ (status' = CutreeFlushEnd => status = CutreeFlushEnd)
      BY <2>1 DEF AddPictureToLookahead, Flush, FlushNothing, Release, ctVars
    <3> QED
      BY <3>1
  <2>2. CASE CallStep
    <3>1. status' = CutreeFlushEnd => status = CutreeFlushEnd
      BY <2>2 DEF CallStep, GetLookaheadOutput, EncodePass2, StopLookaheadThread,
         StopCuTreeThread, TerminateLookaheadThread, TerminateCuTreeThread, TerminatedStatus
    <3>2. cpc' \in {cpc, SignalRoi(cpc), SignalCutree(cpc), SignalRoi(SignalCutree(cpc))}
      BY <2>2 DEF CallStep, GetLookaheadOutput, EncodePass2, StopLookaheadThread,
         StopCuTreeThread, TerminateLookaheadThread, TerminateCuTreeThread, ctVars
    <3> QED
      BY <3>1, <3>2
  <2>3. CASE LookaheadStep
    <3>1. status' = CutreeFlushEnd => status = CutreeFlushEnd
      <4>1. CASE EndLookahead
        BY <4>1 DEF EndLookahead, PassOneDone
      <4>2. CASE ~EndLookahead
        <5>1. status' = status
          BY <2>3, <4>2 DEF LookaheadStep, LookaheadLoop, AwaitAnyJob, AwaitJob, TakeJob,
             WaitCuInfoBuf, EncodePass1, AfterAddFrame
        <5> QED
          BY <5>1
      <4> QED
        BY <4>1, <4>2
    <3>2. cpc' \in {cpc, SignalRoi(cpc), SignalCutree(cpc), SignalRoi(SignalCutree(cpc))}
      BY <2>3 DEF LookaheadStep, LookaheadLoop, AwaitAnyJob, AwaitJob, TakeJob, WaitCuInfoBuf,
         EncodePass1, AfterAddFrame, EndLookahead, CtElse
    <3> QED
      BY <3>1, <3>2
  <2>4. ASSUME CuTreeLoop \/ AwaitFrame \/ TakeFrame \/ HandleInputFrame \/ Process
               \/ WriteFrame \/ RemoveFrames
        PROVE  status' = CutreeFlushEnd => cpc' \in Over
    <3>1. status' = status /\ cpc \notin Over
      BY <2>4 DEF CuTreeLoop, AwaitFrame, TakeFrame, HandleInputFrame, Process, WriteFrame,
         RemoveFrames, Over
    <3> QED
      BY <3>1
  <2>5. CASE EndCuTree
    <3>1. \/ cpc = "end" /\ status' = status
          \/ cpc' \in Over
      BY <2>5 DEF EndCuTree, Over
    <3> QED
      BY <3>1 DEF Over
  <2>6. CASE UNCHANGED vars
    BY <2>6 DEF vars, ctVars
  <2> QED
    BY <2>1, <2>2, <2>3, <2>4, <2>5, <2>6 DEF Next, CutreeStep
<1> QED
  BY <1>1, <1>2 DEF EndInv

LEMMA EndIsFinalStep ==
    EndInv /\ [Next]_vars => [status = CutreeFlushEnd => Ready(output') \subseteq Ready(output)]_vars
<1> SUFFICES ASSUME EndInv, [Next]_vars, status = CutreeFlushEnd
             PROVE Ready(output') \subseteq Ready(output)
  OBVIOUS
<1>1. cpc # "write"
  BY DEF EndInv, Over
<1>2. \/ output' = output
      \/ output # <<>> /\ output' = Tail(output)
      \/ \E pic : output' = <<[pic |-> pic, ok |-> FALSE]>>
  BY <1>1, OutputSteps DEF OutputStep
<1>3. CASE output' = output
  BY <1>3
<1>4. CASE output # <<>> /\ output' = Tail(output)
  BY <1>4, TailReady DEF EndInv
<1>5. CASE \E pic : output' = <<[pic |-> pic, ok |-> FALSE]>>
  BY <1>5, ErrorNotReady
<1> QED
  BY <1>2, <1>3, <1>4, <1>5

\* Once the status says CUTREE_FLUSH_END an application that finds the queue of outputs empty
\* misses no picture, whatever the threads still do.
THEOREM NothingAfterTheEnd == Spec => EndIsFinal
<1>1. Init => EndInv
  BY EndInvInit
<1>2. EndInv /\ [Next]_vars => EndInv'
  BY EndInvNext
<1>3. EndInv /\ [Next]_vars
        => [status = CutreeFlushEnd => Ready(output') \subseteq Ready(output)]_vars
  BY EndIsFinalStep
<1> QED
  BY <1>1, <1>2, <1>3, PTL DEF Spec, EndIsFinal

-----------------------------------------------------------------------------
(* Pass 1: what the lookahead thread has encoded and what it will find *)

\* The pictures of a GOP lie behind its base, the anchor of the GOP before, and end with its
\* own anchor.
Base(f) == f.pic - (IF f.ord = 0 THEN f.gop ELSE f.ord)
Top(f) == Base(f) + f.gop

\* g is encoded after f.
Follows(f, g) == IF EndsGop(f) THEN g.ord = 0 /\ Base(g) = Top(f)
                               ELSE g.ord = f.ord + 1 /\ g.gop = f.gop /\ Base(g) = Base(f)

Frame == [pic : Int, gop : 1 .. Gop, ord : Nat, out : BOOLEAN]
IsFrame(f) == f \in Frame /\ f.ord < f.gop
IsPic(f) == IsFrame(f) /\ Base(f) >= -1 /\ ~f.out
BeforeFirst == Picture(None, 1, 0)

\* The pictures of which pass 1 has encoded f as the last one are behind it, these are not.
Later(f, p) == p > Top(f) \/ (Base(f) + f.ord < p /\ p < Top(f) /\ ~EndsGop(f))

\* The last picture that went on to the cuTree thread.
Newest == IF lpc = "added" THEN want ELSE last
InPass1 == {"cuInfo", "cuInfoSleep", "pass1"}

LaTypes == /\ fed \in Nat /\ enqueued \in Nat /\ lastPic \in Int /\ idelay \in Nat
           /\ jobs \subseteq 0 .. fed - 1 /\ laJob \in Int
           /\ IsPic(want) /\ (IsPic(last) \/ last = BeforeFirst)
Plan == /\ Follows(last, want)
        /\ last = BeforeFirst => want = First
JobFound == /\ laJob # None => laJob = want.pic /\ laJob < fed /\ lpc \in {"second"} \cup InPass1
            /\ laJob = None => lpc \notin InPass1
            /\ lpc = "second" /\ laJob = None => want.pic \notin jobs
ToCome == /\ Top(Newest) < fed
          /\ ~laStop /\ lpc \notin {"end", "stopping"} =>
                 \A p \in 0 .. fed - 1 : Later(Newest, p) => p \in jobs \cup {laJob}
Flushed == (idelay > 0 => fed > 0) /\ (status = LookaheadFlush => fed > 0)

Pass1Inv == LaTypes /\ Plan /\ JobFound /\ ToCome /\ Flushed

\* What FindNextPic plans follows the picture it starts from, wherever the stream ends.
LEMMA NextFollows ==
    ASSUME NEW f, IsPic(f) \/ f = BeforeFirst, NEW end \in Int
    PROVE  /\ Follows(f, FindNextPic(f, end)) /\ IsPic(FindNextPic(f, end))
<1> USE SizesAssumption DEF None
<1>1. /\ f.pic \in Int /\ f.gop \in 1 .. Gop /\ f.ord \in Nat /\ f.ord < f.gop
      /\ EndsGop(f) \/ Base(f) >= -1
      /\ Top(f) >= -1
      /\ f.pic = -1 => f.ord = 0 /\ f.gop = 1
  BY DEF IsPic, IsFrame, Frame, BeforeFirst, Picture, Base, Top, EndsGop
<1> DEFINE anchor == f.pic - f.ord + (IF f.ord = 0 THEN 0 ELSE f.gop)
           left == end - anchor
           size == IF left >= Gop THEN Gop ELSE IF left < 1 THEN 1 ELSE Smaller(left, 4)
           next == IF EndsGop(f) THEN Picture(anchor + size, size, 0)
                   ELSE Picture(anchor - f.gop + f.ord + 1, f.gop, f.ord + 1)
<1>2. anchor \in Int /\ anchor = Top(f) /\ anchor >= -1
  BY <1>1 DEF Top, Base
<1>3. size \in 1 .. Gop
  BY <1>2 DEF Smaller
<1>4. FindNextPic(f, end) = next
  BY DEF FindNextPic
<1> HIDE DEF size, anchor
<1>5. CASE EndsGop(f)
  <2>1. next = Picture(anchor + size, size, 0)
    BY <1>5
  <2>2. IsPic(next)
    BY <1>1, <1>2, <1>3, <2>1 DEF IsPic, IsFrame, Frame, Picture, Base
  <2>3. Follows(f, next)
    BY <1>1, <1>2, <1>3, <1>5, <2>1 DEF Follows, Base, Picture
  <2> QED
    BY <1>4, <2>2, <2>3
<1>6. CASE ~EndsGop(f)
  <2>1. next = Picture(anchor - f.gop + f.ord + 1, f.gop, f.ord + 1)
    BY <1>6
  <2>2. IsPic(next)
    <3>1. Base(f) >= -1 /\ Base(f) = anchor - f.gop /\ f.ord + 1 < f.gop
      BY <1>1, <1>2, <1>6 DEF Top, EndsGop, Base
    <3> DEFINE p == anchor - f.gop + f.ord + 1
    <3>2. p \in Int /\ p - (f.ord + 1) >= -1
      BY <1>1, <1>2, <3>1
    <3> HIDE DEF p
    <3>3. next = Picture(p, f.gop, f.ord + 1)
      BY <2>1 DEF p
    <3> HIDE DEF next
    <3> QED
      BY <1>1, <3>1, <3>2, <3>3 DEF IsPic, IsFrame, Frame, Picture, Base
  <2>3. Follows(f, next)
    BY <1>1, <1>2, <1>6, <2>1 DEF Follows, Base, Top, Picture, EndsGop
  <2> QED
    BY <1>4, <2>2, <2>3
<1> QED
  BY <1>5, <1>6

LEMMA Pass1Init == Init => Pass1Inv
BY SizesAssumption
  DEF Init, Pass1Inv, LaTypes, Plan, JobFound, ToCome, Flushed, Newest, InPass1, IsPic,
   IsFrame, Frame, First, BeforeFirst, Picture, Follows, EndsGop, Base, Top, None, Ok, LookaheadFlush

\* Steps that take the thread to a place where it has no picture either, or leave it there.
Passes == \/ lpc' = lpc
          \/ /\ lpc \notin {"second", "added", "end", "stopping"} \cup InPass1
             /\ lpc' \notin {"second", "added"} \cup InPass1
          \/ /\ lpc \in {"cuInfo", "cuInfoSleep"}
             /\ lpc' \in InPass1
          \/ /\ lpc \in {"end", "stopping"}
             /\ lpc' = "stopping" \/ (lpc' = "flushing" /\ laStop')

LEMMA Pass1Kept ==
    ASSUME Pass1Inv, UNCHANGED <<fed, enqueued, lastPic, idelay, jobs, laJob, want, last>>,
           laStop => laStop', status' = LookaheadFlush => status = LookaheadFlush, Passes
    PROVE  Pass1Inv'
<1>1. Newest' = Newest
  BY DEF Passes, Newest, InPass1
<1>2. LaTypes' /\ Plan' /\ Flushed'
  BY DEF Pass1Inv, LaTypes, Plan, Flushed, IsPic, IsFrame, BeforeFirst, First
<1>3. JobFound'
  BY DEF Pass1Inv, JobFound, Passes, InPass1
<1>4. ToCome'
  <2>1. Top(Newest)' < fed'
    BY <1>1 DEF Pass1Inv, ToCome
  <2>2. ~laStop' /\ lpc' \notin {"end", "stopping"} => ~laStop /\ lpc \notin {"end", "stopping"}
    BY DEF Passes
  <2> QED
    BY <1>1, <2>1, <2>2 DEF Pass1Inv, ToCome
<1> QED
  BY <1>2, <1>3, <1>4 DEF Pass1Inv

\* What waking the lookahead thread does.
LEMMA WokenPasses ==
    /\ lpc' = SignalJob(lpc) => Passes
    /\ lpc' = Woken(lpc, "cuInfoSleep", "cuInfo") => Passes
<1>1. SignalJob(lpc) = IF lpc = "firstSleep" THEN "first"
                       ELSE IF lpc = "secondSleep" THEN "woken" ELSE lpc
  BY DEF SignalJob
<1>2. ASSUME lpc' = SignalJob(lpc) PROVE Passes
  BY <1>1, <1>2 DEF Passes, InPass1
<1>3. ASSUME lpc' = Woken(lpc, "cuInfoSleep", "cuInfo") PROVE Passes
  BY <1>3 DEF Passes, InPass1, Woken
<1> QED
  BY <1>2, <1>3

\* The steps that leave everything of pass 1 alone but the place of its thread.
LEMMA Pass1Others ==
    ASSUME Pass1Inv,
           \/ FlushNothing \/ Release \/ CallStep \/ CutreeStep \/ LookaheadLoop \/ WaitCuInfoBuf
           \/ EndLookahead \/ UNCHANGED vars
    PROVE  Pass1Inv'
<1> USE DEF Ok, MainStop, LookaheadFlush, CutreeFlush, CutreeFlushEnd, LookaheadError, CutreeError,
        MainError
<1>1. UNCHANGED <<fed, enqueued, lastPic, idelay, jobs, laJob, want, last>>
  BY
    DEF FlushNothing, Release, CallStep, CutreeStep, LookaheadLoop, WaitCuInfoBuf, EndLookahead,
        vars,
     GetLookaheadOutput, EncodePass2, StopLookaheadThread, StopCuTreeThread, TerminateLookaheadThread,
     TerminateCuTreeThread, CuTreeLoop, AwaitFrame, TakeFrame, HandleInputFrame, Process, WriteFrame,
     RemoveFrames, EndCuTree, MainElse, jobVars, laVars, mainVars, LaElse, CtKeeps
<1>2. laStop => laStop'
  BY
    DEF FlushNothing, Release, CallStep, CutreeStep, LookaheadLoop, WaitCuInfoBuf, EndLookahead,
        vars,
     GetLookaheadOutput, EncodePass2, StopLookaheadThread, StopCuTreeThread, TerminateLookaheadThread,
     TerminateCuTreeThread, CuTreeLoop, AwaitFrame, TakeFrame, HandleInputFrame, Process, WriteFrame,
     RemoveFrames, EndCuTree, CtKeeps
<1>3. status' = LookaheadFlush => status = LookaheadFlush
  <2>1. ASSUME FlushNothing \/ LookaheadLoop \/ WaitCuInfoBuf \/ UNCHANGED vars PROVE status' = status
    BY <2>1 DEF FlushNothing, LookaheadLoop, WaitCuInfoBuf, vars
  <2>2. ASSUME Release PROVE status' \in {status, MainStop, MainError}
    BY <2>2 DEF Release
  <2>3. ASSUME CallStep PROVE status' \in {status, MainStop, CutreeFlush, MainError}
    BY <2>3 DEF CallStep, GetLookaheadOutput, EncodePass2, StopLookaheadThread, StopCuTreeThread,
       TerminateLookaheadThread, TerminateCuTreeThread, TerminatedStatus
  <2>4. ASSUME CutreeStep PROVE status' \in {status, CutreeFlushEnd, CutreeError}
    <3>1. CASE EndCuTree
      BY <3>1 DEF EndCuTree
    <3>2. CASE ~EndCuTree
      BY <2>4, <3>2 DEF CutreeStep, CuTreeLoop, AwaitFrame, TakeFrame, HandleInputFrame, Process,
         WriteFrame, RemoveFrames
    <3> QED
      BY <3>1, <3>2
  <2>5. ASSUME EndLookahead PROVE status' \in {status, CutreeFlush, LookaheadError}
    BY <2>5 DEF EndLookahead, PassOneDone
  <2> QED
    BY <2>1, <2>2, <2>3, <2>4, <2>5
<1>4. Passes
  <2>1. ASSUME FlushNothing \/ Release \/ CallStep \/ CutreeStep \/ UNCHANGED vars PROVE Passes
    <3>1. \/ lpc' = lpc \/ lpc' = SignalJob(lpc) \/ lpc' = Woken(lpc, "cuInfoSleep", "cuInfo")
      BY <2>1
        DEF FlushNothing, Release, CallStep, CutreeStep, vars, GetLookaheadOutput, EncodePass2,
         StopLookaheadThread, StopCuTreeThread, TerminateLookaheadThread, TerminateCuTreeThread,
         CuTreeLoop, AwaitFrame, TakeFrame, HandleInputFrame, Process, WriteFrame, RemoveFrames,
         EndCuTree, laVars
    <3> QED
      BY <3>1, WokenPasses DEF Passes
  <2>2. ASSUME LookaheadLoop PROVE Passes
    BY <2>2 DEF LookaheadLoop, Passes, InPass1
  <2>3. ASSUME WaitCuInfoBuf PROVE Passes
    BY <2>3 DEF WaitCuInfoBuf, Passes, InPass1
  <2>4. ASSUME EndLookahead PROVE Passes
    <3>1. \/ lpc = "end" /\ lpc' = "stopping"
          \/ lpc = "stopping" /\ lpc' = "flushing" /\ laStop'
          \/ lpc = "flushing" /\ lpc' = "ended"
      BY <2>4 DEF EndLookahead
    <3> QED
      BY <3>1 DEF Passes, InPass1
  <2> QED
    BY <2>1, <2>2, <2>3, <2>4
<1> QED
  BY <1>1, <1>2, <1>3, <1>4, Pass1Kept

\* A job that is looked for is found if it is there.
LEMMA FindsJob ==
    ASSUME Pass1Inv, FindJob, lpc \in {"first", "woken"}, lpc' = "second",
           UNCHANGED <<fed, enqueued, lastPic, idelay, want, last, status>>, laStop => laStop'
    PROVE  Pass1Inv'
<1>1. LaTypes' /\ Plan' /\ Flushed'
  <2>1. jobs' \subseteq jobs /\ laJob' \in Int
    BY DEF Pass1Inv, LaTypes, FindJob, None, IsPic, IsFrame, Frame
  <2>2. IsPic(want)' /\ (IsPic(last)' \/ last' = BeforeFirst)
    BY DEF Pass1Inv, LaTypes, IsPic, IsFrame, BeforeFirst
  <2> QED
    BY <2>1, <2>2 DEF Pass1Inv, LaTypes, Plan, Flushed, BeforeFirst, First
<1>2. JobFound'
  BY DEF Pass1Inv, LaTypes, JobFound, FindJob, InPass1, IsPic, IsFrame, Frame
<1>3. Newest' = Newest
  BY DEF Newest
<1>4. jobs \subseteq jobs' \cup {laJob'} /\ laJob = None
  BY DEF FindJob, Pass1Inv, JobFound, InPass1
<1>5. ToCome'
  <2> DEFINE n == Newest
  <2>1. Top(n) < fed /\ (~laStop => \A p \in 0 .. fed - 1 : Later(n, p) => p \in jobs \cup {laJob})
    BY DEF Pass1Inv, ToCome
  <2>2. \A p \in Int : p \in 0 .. fed - 1 => p # None
    BY DEF None, Pass1Inv, LaTypes
  <2>3. ASSUME ~laStop', NEW p \in 0 .. fed - 1, Later(n, p) PROVE p \in jobs' \cup {laJob'}
    BY <1>4, <2>1, <2>2, <2>3
  <2>4. fed' = fed /\ Newest' = n
    BY <1>3
  <2> HIDE DEF n
  <2> QED
    BY <2>1, <2>3, <2>4 DEF ToCome
<1> QED
  BY <1>1, <1>2, <1>5 DEF Pass1Inv

\* The jobs are cleared only when the thread stops, at a place where it has no picture.
LEMMA Parked ==
    ASSUME Pass1Inv, jobs' = {}, enqueued' = 0, laStop', laJob' = None,
           lpc \notin {"added", "end", "stopping"} \cup InPass1,
           lpc' \notin {"second", "added", "end", "stopping"} \cup InPass1,
           UNCHANGED <<fed, lastPic, idelay, want, last, status>>
    PROVE  Pass1Inv'
<1>1. LaTypes' /\ Plan' /\ Flushed'
  BY DEF Pass1Inv, LaTypes, Plan, Flushed, IsPic, IsFrame, Frame, BeforeFirst, First, None
<1>2. JobFound'
  BY DEF JobFound, InPass1, None
<1>3. Newest' = Newest
  BY DEF Newest
<1>4. ToCome'
  BY <1>3 DEF Pass1Inv, ToCome
<1> QED
  BY <1>1, <1>2, <1>4 DEF Pass1Inv

\* One picture further in encoding order fewer pictures are to come.
LEMMA OneFurther ==
    ASSUME NEW f, IsPic(f) \/ f = BeforeFirst, NEW g, IsPic(g), Follows(f, g)
    PROVE  /\ \A p \in Int : Later(g, p) => Later(f, p) /\ p # g.pic
           /\ Top(g) = g.pic \/ Top(g) = Top(f)
<1>1. /\ f.pic \in Int /\ f.gop \in Nat \ {0} /\ f.ord \in Nat /\ f.ord < f.gop
      /\ g.pic \in Int /\ g.gop \in Nat \ {0} /\ g.ord \in Nat /\ g.ord < g.gop
  BY SizesAssumption DEF IsPic, IsFrame, Frame, BeforeFirst, Picture, None
<1>2. Follows(f, g)
  OBVIOUS
<1>3. CASE EndsGop(f)
  BY <1>1, <1>2, <1>3 DEF Follows, Later, Top, Base, EndsGop
<1>4. CASE ~EndsGop(f)
  <2>1. g.ord = f.ord + 1 /\ g.gop = f.gop /\ g.ord > 0 /\ Base(g) = Base(f)
    BY <1>1, <1>2, <1>4 DEF Follows
  <2>2. Top(g) = Top(f) /\ g.pic = Base(f) + f.ord + 1
    BY <1>1, <2>1 DEF Top, Base
  <2>3. Base(f) \in Int /\ f.ord + 1 < f.gop
    BY <1>1, <1>4 DEF EndsGop, Base
  <2>4. ASSUME NEW p \in Int, Later(g, p) PROVE Later(f, p) /\ p # g.pic
    BY <1>1, <1>4, <2>1, <2>2, <2>3, <2>4 DEF Later, Top
  <2> QED
    BY <2>2, <2>4
<1> QED
  BY <1>3, <1>4

LEMMA Pass1Next ==
    ASSUME "inner" \notin Faults
    PROVE  Pass1Inv /\ [Next]_vars => Pass1Inv'
<1> SUFFICES ASSUME Pass1Inv, [Next]_vars PROVE Pass1Inv'
  OBVIOUS
<1>1. CASE \/ FlushNothing \/ Release \/ CallStep \/ CutreeStep \/ LookaheadLoop \/ WaitCuInfoBuf
           \/ EndLookahead \/ UNCHANGED vars
  BY <1>1, Pass1Others
<1>2. CASE AddPictureToLookahead
  <2> USE <1>2 DEF AddPictureToLookahead
  <2>1. /\ fed' = fed + 1 /\ jobs' = jobs \cup {fed} /\ lpc # "second" /\ lpc' = SignalJob(lpc)
        /\ UNCHANGED <<laStop, laJob, want, last, lastPic, status>>
    BY DEF JobMutexFree
  <2>2. Passes /\ Newest' = Newest
    <3>1. Passes
      BY <2>1, WokenPasses
    <3> QED
      BY <2>1, <3>1 DEF Passes, Newest, InPass1
  <2>3. LaTypes'
    <3>1. fed' \in Nat /\ enqueued' \in Nat /\ idelay' \in Nat /\ jobs' \subseteq 0 .. fed' - 1
      BY SizesAssumption DEF Pass1Inv, LaTypes, Smaller
    <3>2. IsPic(want)' /\ (IsPic(last)' \/ last' = BeforeFirst)
      BY DEF Pass1Inv, LaTypes, IsPic, IsFrame, BeforeFirst
    <3> QED
      BY <3>1, <3>2 DEF Pass1Inv, LaTypes
  <2>4. Plan' /\ Flushed'
    BY DEF Pass1Inv, Plan, Flushed, LaTypes, BeforeFirst, First, LookaheadFlush, JobMutexFree
  <2>5. JobFound'
    BY <2>1, <2>2 DEF Pass1Inv, JobFound, LaTypes, Passes, InPass1
  <2>6. ToCome'
    <3> DEFINE n == Newest
    <3>1. Top(n) < fed /\ (~laStop /\ lpc \notin {"end", "stopping"} =>
                             \A p \in 0 .. fed - 1 : Later(n, p) => p \in jobs \cup {laJob})
      BY DEF Pass1Inv, ToCome
    <3>2. Top(n) \in Int
      BY DEF Pass1Inv, LaTypes, Newest, IsPic, IsFrame, Frame, Top, Base, BeforeFirst, Picture, None
    <3> HIDE DEF n
    <3>3. \A p \in 0 .. fed' - 1 : p \in 0 .. fed - 1 \/ p = fed
      BY <2>1 DEF Pass1Inv, LaTypes
    <3>4. lpc' \notin {"end", "stopping"} => lpc \notin {"end", "stopping"}
      BY <2>2, <2>1 DEF SignalJob, Woken
    <3>5. Newest' = n
      BY <2>2 DEF n
    <3>6. Top(n) < fed'
      BY <2>1, <3>1, <3>2 DEF Pass1Inv, LaTypes
    <3>7. ~laStop' /\ lpc' \notin {"end", "stopping"} =>
                \A p \in 0 .. fed' - 1 : Later(n, p) => p \in jobs' \cup {laJob'}
      BY <2>1, <3>1, <3>3, <3>4
    <3> QED
      BY <3>5, <3>6, <3>7 DEF ToCome
  <2> QED
    BY <2>3, <2>4, <2>5, <2>6 DEF Pass1Inv
<1>3. CASE Flush
  <2> USE <1>3 DEF Flush
  <2>1. /\ UNCHANGED <<fed, jobs, laStop, laJob, want, last, lastPic, enqueued>>
        /\ idelay > 0 /\ idelay' = Smaller(idelay + 1, Delay + 1)
    BY DEF jobVars
  <2>2. Passes /\ Newest' = Newest
    <3>1. Passes
      BY WokenPasses
    <3> QED
      BY <2>1, <3>1 DEF Passes, Newest, InPass1
  <2>3. LaTypes'
    BY <2>1, SizesAssumption DEF Pass1Inv, LaTypes, IsPic, IsFrame, Frame, BeforeFirst, Smaller
  <2>4. Plan' /\ Flushed'
    BY <2>1 DEF Pass1Inv, Plan, Flushed, BeforeFirst, First
  <2>5. JobFound'
    BY <2>1, <2>2 DEF Pass1Inv, JobFound, Passes, InPass1
  <2>6. ToCome'
    <3>1. lpc' \notin {"end", "stopping"} => lpc \notin {"end", "stopping"}
      BY DEF SignalJob, Woken
    <3> QED
      BY <2>1, <2>2, <3>1 DEF Pass1Inv, ToCome
  <2> QED
    BY <2>3, <2>4, <2>5, <2>6 DEF Pass1Inv
<1>4. CASE AwaitAnyJob
  <2>1. CASE lpc = "first" /\ status = MainStop
    <3>1. /\ jobs' = {} /\ enqueued' = 0 /\ laStop' /\ laJob' = laJob /\ lpc' = "firstGap"
          /\ UNCHANGED <<fed, lastPic, idelay, want, last, status>>
      BY <1>4, <2>1 DEF AwaitAnyJob, ParkLookahead, ClearJobs, LaElse
    <3>2. laJob = None
      BY <2>1 DEF Pass1Inv, JobFound, InPass1
    <3> QED
      BY <2>1, <3>1, <3>2, Parked DEF InPass1
  <2>2. CASE lpc = "first" /\ status # MainStop /\ lpc' = "firstGap"
    <3>1. lpc' = "firstGap" /\ UNCHANGED <<fed, enqueued, lastPic, idelay, jobs, laJob, want, last,
                                           laStop, status>>
      BY <1>4, <2>2 DEF AwaitAnyJob, jobVars, LaElse
    <3> QED
      BY <2>2, <3>1, Pass1Kept DEF Passes, InPass1
  <2>3. CASE lpc = "first" /\ status # MainStop /\ lpc' = "second"
    <3>1. FindJob /\ lpc' = "second" /\ UNCHANGED <<fed, enqueued, lastPic, idelay, want, last,
                                                    laStop, status>>
      BY <1>4, <2>3 DEF AwaitAnyJob, LaElse
    <3> QED
      BY <2>3, <3>1, FindsJob
  <2>4. CASE lpc = "firstGap"
    <3>1. lpc' = "firstSleep" /\ UNCHANGED <<fed, enqueued, lastPic, idelay, jobs, laJob, want, last,
                                             laStop, status>>
      BY <1>4, <2>4 DEF AwaitAnyJob, jobVars, LaElse
    <3> QED
      BY <2>4, <3>1, Pass1Kept DEF Passes, InPass1
  <2> QED
    BY <1>4, <2>1, <2>2, <2>3, <2>4 DEF AwaitAnyJob
<1>5. CASE AwaitJob
  <2>0. UNCHANGED <<fed, lastPic, idelay, want, last, status>>
    BY <1>5 DEF AwaitJob, LaElse
  <2>1. CASE lpc = "second" /\ status = MainStop
    <3>1. jobs' = {} /\ enqueued' = 0 /\ laStop' /\ laJob' = None /\ lpc' = "secondGap"
      BY <1>5, <2>1 DEF AwaitJob, ParkLookahead, ClearJobs
    <3> QED
      BY <2>0, <2>1, <3>1, Parked DEF InPass1
  <2>2. CASE lpc = "second" /\ status # MainStop
    <3>1. lpc' = "secondGap" /\ laJob = None /\ UNCHANGED <<enqueued, jobs, laJob, laStop>>
      BY <1>5, <2>2 DEF AwaitJob, jobVars
    <3>2. Newest' = Newest
      BY <2>0, <2>2, <3>1 DEF Newest
    <3>3. LaTypes' /\ Plan' /\ Flushed' /\ JobFound'
      BY <2>0, <2>2, <3>1 DEF Pass1Inv, LaTypes, Plan, Flushed, JobFound, InPass1, IsPic, IsFrame,
         BeforeFirst, First
    <3>4. ToCome'
      BY <2>0, <2>2, <3>1, <3>2 DEF Pass1Inv, ToCome
    <3> QED
      BY <3>3, <3>4 DEF Pass1Inv
  <2>3. CASE lpc = "secondGap"
    <3>1. lpc' = "secondSleep" /\ UNCHANGED <<enqueued, jobs, laJob, laStop>>
      BY <1>5, <2>3 DEF AwaitJob, jobVars
    <3> QED
      BY <2>0, <2>3, <3>1, Pass1Kept DEF Passes, InPass1
  <2>4. CASE lpc = "woken" /\ ~staleStop
    <3>1. FindJob /\ lpc' = "second" /\ UNCHANGED <<enqueued, laStop>>
      BY <1>5, <2>4 DEF AwaitJob
    <3> QED
      BY <2>0, <2>4, <3>1, FindsJob
  <2>5. CASE lpc = "woken" /\ staleStop
    <3>1. jobs' = {} /\ enqueued' = 0 /\ laStop' /\ laJob' = laJob /\ lpc' = "secondGap"
      BY <1>5, <2>5 DEF AwaitJob, ParkLookahead, ClearJobs
    <3>2. laJob = None
      BY <2>5 DEF Pass1Inv, JobFound, InPass1
    <3> QED
      BY <2>0, <2>5, <3>1, <3>2, Parked DEF InPass1
  <2> QED
    BY <1>5, <2>1, <2>2, <2>3, <2>4, <2>5 DEF AwaitJob
<1>6. CASE TakeJob
  <2>0. /\ lpc = "second"
        /\ UNCHANGED <<fed, idelay, last, status, jobs, enqueued, laStop, laJob>>
    BY <1>6 DEF TakeJob, LaElse, jobVars
  <2>1. CASE laJob # None
    <3>1. lpc' = "cuInfo" /\ UNCHANGED <<want, lastPic>>
      BY <1>6, <2>1 DEF TakeJob
    <3>2. Newest' = Newest
      BY <2>0, <3>1 DEF Newest
    <3>3. LaTypes' /\ Plan' /\ Flushed' /\ JobFound'
      BY <2>0, <2>1, <3>1 DEF Pass1Inv, LaTypes, Plan, Flushed, JobFound, InPass1, IsPic, IsFrame,
         BeforeFirst, First
    <3>4. ToCome'
      BY <2>0, <3>1, <3>2 DEF Pass1Inv, ToCome
    <3> QED
      BY <3>3, <3>4 DEF Pass1Inv
  <2>2. CASE laJob = None /\ lpc' = "end"
    <3>1. UNCHANGED <<want, lastPic>>
      BY <1>6, <2>2 DEF TakeJob
    <3>2. Newest' = Newest
      BY <2>0, <2>2 DEF Newest
    <3>3. LaTypes' /\ Plan' /\ Flushed' /\ JobFound'
      BY <2>0, <2>2, <3>1 DEF Pass1Inv, LaTypes, Plan, Flushed, JobFound, InPass1, IsPic, IsFrame,
         BeforeFirst, First
    <3>4. ToCome'
      BY <2>0, <2>2, <3>2 DEF Pass1Inv, ToCome
    <3> QED
      BY <3>3, <3>4 DEF Pass1Inv
  <2>3. CASE laJob = None /\ lpc' # "end"
    <3>1. /\ lpc' = "loop" /\ last.pic # None
          /\ lastPic' = enqueued - 1 /\ want' = FindNextPic(last, lastPic')
      BY <1>6, <2>3 DEF TakeJob
    <3>2. lastPic' \in Int
      BY <3>1 DEF Pass1Inv, LaTypes
    <3>3. Follows(last, want') /\ IsPic(want')
      BY <3>1, <3>2, NextFollows DEF Pass1Inv, LaTypes
    <3>4. last # BeforeFirst
      BY <3>1 DEF BeforeFirst, Picture
    <3>5. Newest' = Newest
      BY <2>0, <3>1 DEF Newest
    <3>6. IsPic(want)' /\ Follows(last, want)'
      BY <2>0, <3>3 DEF IsPic, IsFrame, Follows, Base, Top, EndsGop
    <3>7. LaTypes'
      BY <2>0, <3>2, <3>6 DEF Pass1Inv, LaTypes, IsPic, IsFrame, BeforeFirst
    <3>8. Plan' /\ Flushed'
      BY <2>0, <3>4, <3>6 DEF Pass1Inv, Plan, Flushed, BeforeFirst
    <3>9. JobFound'
      BY <2>0, <2>3, <3>1 DEF JobFound, InPass1
    <3>10. ToCome'
      BY <2>0, <3>1, <3>5 DEF Pass1Inv, ToCome
    <3> QED
      BY <3>7, <3>8, <3>9, <3>10 DEF Pass1Inv
  <2> QED
    BY <2>1, <2>2, <2>3
<1>7. CASE EncodePass1
  <2>0. /\ lpc = "pass1" /\ laJob' = None /\ lpc' \in {"added", "end"}
        /\ UNCHANGED <<fed, enqueued, lastPic, idelay, jobs, want, last, laStop, status>>
    BY <1>7 DEF EncodePass1, jobVars
  <2>1. LaTypes' /\ Plan' /\ Flushed'
    BY <2>0 DEF Pass1Inv, LaTypes, Plan, Flushed, IsPic, IsFrame, BeforeFirst, First, None
  <2>2. JobFound'
    BY <2>0 DEF JobFound, InPass1
  <2>3. laJob # None /\ laJob = want.pic /\ laJob < fed
    BY <2>0 DEF Pass1Inv, JobFound, InPass1
  <2>4. /\ \A p \in Int : Later(want, p) => Later(last, p) /\ p # want.pic
        /\ Top(want) = want.pic \/ Top(want) = Top(last)
    BY OneFurther DEF Pass1Inv, LaTypes, Plan
  <2>5. /\ Top(last) < fed
        /\ ~laStop => \A p \in 0 .. fed - 1 : Later(last, p) => p \in jobs \cup {laJob}
    BY <2>0 DEF Pass1Inv, ToCome, Newest
  <2>6. Top(want) < fed
    BY <2>3, <2>4, <2>5
  <2>7. ToCome'
    <3>1. CASE lpc' = "added"
      <4>1. Newest' = want
        BY <2>0, <3>1 DEF Newest
      <4>2. \A p \in 0 .. fed - 1 : p \in Int
        BY DEF Pass1Inv, LaTypes
      <4>3. ~laStop => \A p \in 0 .. fed - 1 : Later(want, p) => p \in jobs
        BY <2>3, <2>4, <2>5, <4>2
      <4> QED
        BY <2>0, <2>6, <4>1, <4>3 DEF ToCome
    <3>2. CASE lpc' = "end"
      <4>1. Newest' = last
        BY <2>0, <3>2 DEF Newest
      <4> QED
        BY <2>0, <2>5, <3>2, <4>1 DEF ToCome
    <3> QED
      BY <2>0, <3>1, <3>2
  <2> QED
    BY <2>1, <2>2, <2>7 DEF Pass1Inv
<1>8. CASE AfterAddFrame
  <2>0. /\ lpc = "added" /\ UNCHANGED <<fed, enqueued, lastPic, idelay, jobs, laJob, laStop, status>>
        /\ \/ lpc' = "end" /\ want' = want /\ last' = last
           \/ lpc' = "loop" /\ last' = want /\ want' = FindNextPic(want, lastPic)
    BY <1>8 DEF AfterAddFrame, LaElse, jobVars
  <2>1. laJob = None /\ Newest = want
    BY <2>0 DEF Pass1Inv, JobFound, InPass1, Newest
  <2>2. CASE lpc' = "end"
    <3>1. LaTypes' /\ Plan' /\ Flushed' /\ JobFound'
      BY <2>0, <2>1, <2>2 DEF Pass1Inv, LaTypes, Plan, Flushed, JobFound, InPass1, IsPic, IsFrame,
         BeforeFirst, First
    <3>2. Newest' = last
      BY <2>0, <2>2 DEF Newest
    <3>3. Top(last) < fed
      <4>1. Top(want) < fed
        BY <2>1 DEF Pass1Inv, ToCome
      <4>2. Top(last) <= Top(want)
        BY SizesAssumption DEF Pass1Inv, LaTypes, Plan, Follows, Top, Base, EndsGop, IsPic, IsFrame,
           Frame, BeforeFirst, Picture, None
      <4>3. Top(last) \in Int /\ Top(want) \in Int
        BY SizesAssumption
          DEF Pass1Inv, LaTypes, Top, Base, IsPic, IsFrame, Frame, BeforeFirst, Picture, None
      <4> QED
        BY <4>1, <4>2, <4>3 DEF Pass1Inv, LaTypes
    <3>4. ToCome'
      BY <2>0, <2>2, <3>2, <3>3 DEF ToCome
    <3> QED
      BY <3>1, <3>4 DEF Pass1Inv
  <2>3. CASE lpc' = "loop"
    <3>1. last' = want /\ want' = FindNextPic(want, lastPic)
      BY <2>0, <2>3
    <3>2. Follows(want, want') /\ IsPic(want')
      BY <3>1, NextFollows DEF Pass1Inv, LaTypes
    <3>3. IsPic(want)' /\ Follows(last, want)' /\ IsPic(last)' /\ last' # BeforeFirst
      <4>1. IsPic(want)
        BY DEF Pass1Inv, LaTypes
      <4>2. IsPic(want)' /\ Follows(last, want)'
        BY <3>1, <3>2 DEF IsPic, IsFrame, Follows, Base, Top, EndsGop
      <4>3. IsPic(last)'
        BY <3>1, <4>1 DEF IsPic, IsFrame, Base
      <4>4. want # BeforeFirst
        BY <4>1, SizesAssumption DEF IsPic, IsFrame, Frame, Base, BeforeFirst, Picture, None
      <4> QED
        BY <3>1, <4>2, <4>3, <4>4
    <3>4. LaTypes' /\ Plan' /\ Flushed'
      BY <2>0, <3>3 DEF Pass1Inv, LaTypes, Plan, Flushed, BeforeFirst
    <3>5. JobFound'
      BY <2>0, <2>1, <2>3 DEF JobFound, InPass1
    <3>6. Newest' = Newest
      BY <2>0, <2>1, <2>3, <3>1 DEF Newest
    <3>7. ToCome'
      BY <2>0, <2>3, <3>6 DEF Pass1Inv, ToCome
    <3> QED
      BY <3>4, <3>5, <3>7 DEF Pass1Inv
  <2> QED
    BY <2>0, <2>2, <2>3
<1> QED
  BY <1>1, <1>2, <1>3, <1>4, <1>5, <1>6, <1>7, <1>8 DEF Next, LookaheadStep

-----------------------------------------------------------------------------
(* The three threads: what the status, the flags and the places tell of each other *)

StopPhase == {"stopLookahead", "lookaheadStops", "laStopGap", "laStopSleep", "stopCutree",
              "cutreeStops", "ctStopSleep", "stopped"}
AfterCutree == {"stopped", "wakeLookahead", "joinLookahead", "wakeCutree", "joinCutree", "released"}
AfterLookahead == {"stopCutree", "cutreeStops", "ctStopSleep"} \cup AfterCutree
LaOver == {"stopping", "flushing", "ended"}
CtOver == {"end", "settle", "settleQuietly"} \cup Over

\* A stop is asked for by the application alone, and waits for both threads.
StopInv ==
    /\ status \in 0 .. 7 /\ ctSaw \in 0 .. 7
    /\ status = MainStop => mpc \in StopPhase /\ ~failing
    /\ status = MainError => ~BeforeStop
    /\ mpc \in AfterLookahead => laStop
    /\ mpc \in AfterCutree => ctStop
    /\ lpc \in {"flushing", "ended"} => laStop
    /\ cpc = "ended" => ctStop
\* A lookahead thread that has stopped has no job and finds none.
ParkInv ==
    /\ laStop => \/ lpc \in {"flushing", "ended"}
                 \/ ~BeforeStop /\ jobs = {} /\ laJob = None /\ lpc \notin InPass1 \cup {"added"}
    /\ staleStop /\ lpc \in {"secondGap", "secondSleep", "woken"} => laStop
    /\ laStop /\ lpc \notin {"flushing", "ended"} =>
           \/ status = MainStop \/ status >= LookaheadError
           \/ mpc \in AfterCutree /\ status >= CutreeFlush
    /\ ctStop /\ cpc \notin CtOver =>
           ~BeforeStop /\ (laStop \/ status = MainStop \/ lpc \in LaOver \cup {"end"})
\* The cuTree thread comes to its end when the lookahead thread has, or after a stop.
Ending == cpc \in {"rest", "flush"} \cup CtOver
          \/ (cpc \in {"write", "roiSleep"} /\ back # "process")
EndingInv ==
    /\ Ending \/ ctSaw >= CutreeFlush => status >= CutreeFlush \/ status = MainStop
    /\ cpc = "rest" => ctSaw >= CutreeFlush
    /\ status \in {CutreeFlush, CutreeFlushEnd} => lpc \in LaOver \/ mpc \in AfterCutree
\* The threads fail only after a stop of the application.
ErrorInv ==
    /\ laFailed => /\ lpc \in LaOver \cup {"end"} /\ ~BeforeStop
                   /\ \/ status >= LookaheadError
                      \/ mpc \in AfterCutree /\ status >= CutreeFlush
    /\ ctFailed => status >= LookaheadError /\ ~BeforeStop
    /\ BeforeStop => status < LookaheadError
\* The flush begins at the end of a GOP, when the lookahead thread adds nothing any more.
FlushInv ==
    /\ ~ctStop /\ status = CutreeFlush => lpc \in LaOver /\ EndsGop(last) /\ ~laFailed
    /\ lpc = "end" /\ ~laFailed /\ status < CutreeFlush /\ status # MainStop => EndsGop(last)
    /\ cpc = "rest" /\ ~ctStop => ctJobs = <<>> \/ status >= LookaheadError \/ status = MainStop
    /\ (cpc = "flush" \/ (cpc \in {"write", "roiSleep"} /\ back # "process")) /\ ~ctStop =>
           lpc \in LaOver /\ EndsGop(last) /\ ctJobs = <<>> /\ ~laFailed
\* A cuTree thread that has seen MAIN_STOP in passing sees it again before anything else.
SeenInv ==
    ctSaw = MainStop =>
        /\ ~BeforeStop
        /\ cpc \in {"test", "locked", "jobSleep"} \cup CtOver
        /\ ~ctStop => cpc \in CtOver \/ (cpc \in {"test", "locked"} /\ status = MainStop)

ControlInv == StopInv /\ ParkInv /\ EndingInv /\ ErrorInv /\ FlushInv /\ SeenInv

LEMMA ControlInit == Init => ControlInv
BY
  DEF Init, ControlInv, StopInv, ParkInv, EndingInv, Ending, ErrorInv, FlushInv, SeenInv,
      StopPhase,
   AfterCutree,
   AfterLookahead, LaOver, CtOver, Over, InPass1, BeforeStop, Ok, MainStop, CutreeFlush, CutreeFlushEnd,
   MainError, LookaheadError

\* Waking a thread takes it to a place of the same kind.
LEMMA WakesKeepPlace ==
    ASSUME NEW pc
    PROVE  /\ SignalJob(pc) = IF pc = "firstSleep" THEN "first"
                              ELSE IF pc = "secondSleep" THEN "woken" ELSE pc
           /\ SignalOutput(pc) = IF pc = "getSleep" THEN "get" ELSE pc
           /\ SignalCutree(pc) = IF pc = "jobSleep" THEN "locked" ELSE pc
           /\ SignalRoi(pc) = IF pc = "roiSleep" THEN "write" ELSE pc
BY DEF SignalJob, SignalOutput, SignalCutree, SignalRoi, Woken

LEMMA StopNext == StopInv /\ CuInv /\ [Next]_vars => StopInv'
<1> SUFFICES ASSUME StopInv, CuInv, [Next]_vars PROVE StopInv'
  OBVIOUS
<1> USE WakesKeepPlace DEF StopInv, StopPhase, AfterCutree, AfterLookahead, BeforeStop, Ok, MainStop,
        LookaheadFlush, CutreeFlush, CutreeFlushEnd, LookaheadError, CutreeError, MainError
<1>1. CASE AddPictureToLookahead
  BY <1>1 DEF AddPictureToLookahead, ctVars
<1>2. CASE Flush
  BY <1>2 DEF Flush, ctVars, laVars
<1>3. CASE FlushNothing
  BY <1>3 DEF FlushNothing, ctVars, laVars
<1>4. CASE Release
  BY <1>4 DEF Release, ctVars, laVars
<1>5. CASE GetLookaheadOutput
  BY <1>5 DEF GetLookaheadOutput, ctVars, laVars
<1>6. CASE EncodePass2
  BY <1>6 DEF EncodePass2, laVars
<1>7. CASE StopLookaheadThread
  BY <1>7 DEF StopLookaheadThread, ctVars
<1>8. CASE StopCuTreeThread
  BY <1>8 DEF StopCuTreeThread, laVars
<1>9. CASE TerminateLookaheadThread
  BY <1>9 DEF TerminateLookaheadThread, TerminatedStatus, ctVars
<1>10. CASE TerminateCuTreeThread
  BY <1>10 DEF TerminateCuTreeThread, TerminatedStatus, laVars
<1>11. CASE LookaheadLoop
  BY <1>11 DEF LookaheadLoop, LaElse, CtElse
<1>12. CASE AwaitAnyJob
  BY <1>12 DEF AwaitAnyJob, ParkLookahead, Woken, LaElse, CtElse
<1>13. CASE AwaitJob
  BY <1>13 DEF AwaitJob, ParkLookahead, Woken, LaElse, CtElse
<1>14. CASE TakeJob
  BY <1>14 DEF TakeJob, LaElse, CtElse
<1>15. CASE WaitCuInfoBuf
  BY <1>15 DEF WaitCuInfoBuf, LaElse
<1>16. CASE EncodePass1
  BY <1>16 DEF EncodePass1, Enqueue
<1>17. CASE AfterAddFrame
  BY <1>17 DEF AfterAddFrame, LaElse, CtElse
<1>18. CASE EndLookahead
  BY <1>18 DEF EndLookahead, PassOneDone, Woken, LaElse, CtElse
<1>19. CASE CuTreeLoop
  BY <1>19 DEF CuTreeLoop, CtKeeps
<1>20. CASE AwaitFrame
  BY <1>20 DEF AwaitFrame, Woken, CtKeeps
<1>21. CASE TakeFrame
  BY <1>21 DEF TakeFrame, CtKeeps
<1>22. CASE HandleInputFrame
  BY <1>22 DEF HandleInputFrame, Woken, CtKeeps
<1>23. CASE Process
  BY <1>23 DEF Process, ProcessOneFrame, CtKeeps
<1>24. CASE WriteFrame
  BY <1>24 DEF WriteFrame, Enqueue, CtKeeps
<1>25. CASE RemoveFrames
  BY <1>25 DEF RemoveFrames, CtKeeps, CuInv
<1>26. CASE EndCuTree
  BY <1>26 DEF EndCuTree, Woken, CtKeeps
<1>27. CASE UNCHANGED vars
  BY <1>27 DEF vars, mainVars, laVars, ctVars
<1> QED
  BY <1>1, <1>2, <1>3, <1>4, <1>5, <1>6, <1>7, <1>8, <1>9, <1>10, <1>11, <1>12, <1>13, <1>14, <1>15,
     <1>16, <1>17, <1>18, <1>19, <1>20, <1>21, <1>22, <1>23, <1>24, <1>25, <1>26, <1>27
     DEF Next, CallStep, LookaheadStep, CutreeStep

LEMMA ParkNext == StopInv /\ Pass1Inv /\ CuInv /\ ErrorInv /\ ParkInv /\ [Next]_vars => ParkInv'
<1> SUFFICES ASSUME StopInv, Pass1Inv, CuInv, ErrorInv, ParkInv, [Next]_vars PROVE ParkInv'
  OBVIOUS
<1> USE WakesKeepPlace DEF StopInv, ParkInv, StopPhase, AfterCutree, AfterLookahead, LaOver, CtOver,
        Over, InPass1, BeforeStop, None, Ok, MainStop,
        LookaheadFlush, CutreeFlush, CutreeFlushEnd, LookaheadError, CutreeError, MainError
<1>1. CASE AddPictureToLookahead
  BY <1>1 DEF AddPictureToLookahead, ctVars, laVars, jobVars, feedVars, JobMutexFree
<1>2. CASE Flush
  BY <1>2 DEF Flush, ctVars, laVars, jobVars, feedVars
<1>3. CASE FlushNothing
  BY <1>3 DEF FlushNothing, ctVars, laVars, jobVars, feedVars
<1>4. CASE Release
  BY <1>4 DEF Release, MainElse, ctVars, laVars, jobVars, feedVars
<1>5. CASE GetLookaheadOutput
  BY <1>5 DEF GetLookaheadOutput, ctVars, laVars, jobVars, feedVars
<1>6. CASE EncodePass2
  BY <1>6 DEF EncodePass2, laVars, jobVars, feedVars
<1>7. CASE StopLookaheadThread
  BY <1>7 DEF StopLookaheadThread, MainElse, ctVars, jobVars, feedVars
<1>8. CASE StopCuTreeThread
  BY <1>8 DEF StopCuTreeThread, MainElse, laVars, jobVars, feedVars
<1>9. CASE TerminateLookaheadThread
  BY <1>9 DEF TerminateLookaheadThread, TerminatedStatus, MainElse, ctVars, jobVars, feedVars
<1>10. CASE TerminateCuTreeThread
  BY <1>10 DEF TerminateCuTreeThread, TerminatedStatus, MainElse, laVars, jobVars, feedVars
<1>11. CASE LookaheadLoop
  BY <1>11 DEF LookaheadLoop, LaElse, CtElse, jobVars
<1>12. CASE AwaitAnyJob
  BY <1>12
    DEF AwaitAnyJob, ParkLookahead, ClearJobs, FindJob, Woken, LaElse, CtElse, jobVars,
        Pass1Inv,
     JobFound
<1>13. CASE AwaitJob
  BY <1>13 DEF AwaitJob, ParkLookahead, ClearJobs, FindJob, Woken, LaElse, CtElse, jobVars
<1>14. CASE TakeJob
  BY <1>14 DEF TakeJob, LaElse, CtElse, jobVars, Pass1Inv, JobFound
<1>15. CASE WaitCuInfoBuf
  BY <1>15 DEF WaitCuInfoBuf, LaElse, jobVars
<1>16. CASE EncodePass1
  BY <1>16 DEF EncodePass1, Enqueue, jobVars
<1>17. CASE AfterAddFrame
  BY <1>17 DEF AfterAddFrame, LaElse, CtElse, jobVars
<1>18. CASE EndLookahead
  BY <1>18 DEF EndLookahead, PassOneDone, Woken, LaElse, CtElse, jobVars, ErrorInv
<1>19. CASE CuTreeLoop
  BY <1>19 DEF CuTreeLoop, CtKeeps, jobVars, feedVars
<1>20. CASE AwaitFrame
  BY <1>20 DEF AwaitFrame, Woken, CtKeeps, jobVars
<1>21. CASE TakeFrame
  BY <1>21 DEF TakeFrame, CtKeeps, jobVars
<1>22. CASE HandleInputFrame
  BY <1>22 DEF HandleInputFrame, Woken, CtKeeps, jobVars
<1>23. CASE Process
  BY <1>23 DEF Process, ProcessOneFrame, CtKeeps, jobVars, feedVars
<1>24. CASE WriteFrame
  BY <1>24 DEF WriteFrame, Enqueue, CtKeeps, jobVars, feedVars
<1>25. CASE RemoveFrames
  BY <1>25 DEF RemoveFrames, CtKeeps, jobVars, feedVars, CuInv
<1>26. CASE EndCuTree
  BY <1>26 DEF EndCuTree, RemovesFrame, Woken, CtKeeps, jobVars
<1>27. CASE UNCHANGED vars
  BY <1>27 DEF vars, mainVars, laVars, ctVars, jobVars, feedVars
<1> QED
  BY <1>1, <1>2, <1>3, <1>4, <1>5, <1>6, <1>7, <1>8, <1>9, <1>10, <1>11, <1>12, <1>13, <1>14,
     <1>15, <1>16,
     <1>17, <1>18, <1>19, <1>20, <1>21, <1>22, <1>23, <1>24, <1>25, <1>26, <1>27
     DEF Next, CallStep, LookaheadStep, CutreeStep

LEMMA EndingNext == StopInv /\ CuInv /\ EndInv /\ EndingInv /\ [Next]_vars => EndingInv'
<1> SUFFICES ASSUME StopInv, CuInv, EndInv, EndingInv, [Next]_vars PROVE EndingInv'
  OBVIOUS
<1> USE WakesKeepPlace DEF StopInv, EndingInv, Ending, StopPhase, AfterCutree, AfterLookahead, LaOver, CtOver,
        Over, BeforeStop, Ok, MainStop,
        LookaheadFlush, CutreeFlush, CutreeFlushEnd, LookaheadError, CutreeError, MainError
<1>1. CASE AddPictureToLookahead
  BY <1>1 DEF AddPictureToLookahead, ctVars, laVars, jobVars, feedVars
<1>2. CASE Flush
  BY <1>2 DEF Flush, ctVars, laVars, jobVars, feedVars
<1>3. CASE FlushNothing
  BY <1>3 DEF FlushNothing, ctVars, laVars, jobVars, feedVars
<1>4. CASE Release
  BY <1>4 DEF Release, MainElse, ctVars, laVars, jobVars, feedVars
<1>5. CASE GetLookaheadOutput
  BY <1>5 DEF GetLookaheadOutput, ctVars, laVars, jobVars, feedVars
<1>6. CASE EncodePass2
  BY <1>6 DEF EncodePass2, laVars, jobVars, feedVars
<1>7. CASE StopLookaheadThread
  BY <1>7 DEF StopLookaheadThread, MainElse, ctVars, jobVars, feedVars
<1>8. CASE StopCuTreeThread
  BY <1>8 DEF StopCuTreeThread, MainElse, laVars, jobVars, feedVars
<1>9. CASE TerminateLookaheadThread
  BY <1>9 DEF TerminateLookaheadThread, TerminatedStatus, MainElse, ctVars, jobVars, feedVars
<1>10. CASE TerminateCuTreeThread
  BY <1>10 DEF TerminateCuTreeThread, TerminatedStatus, MainElse, laVars, jobVars, feedVars
<1>11. CASE LookaheadLoop
  BY <1>11 DEF LookaheadLoop, LaElse, CtElse, jobVars
<1>12. CASE AwaitAnyJob
  BY <1>12 DEF AwaitAnyJob, ParkLookahead, ClearJobs, FindJob, Woken, LaElse, CtElse, jobVars
<1>13. CASE AwaitJob
  BY <1>13 DEF AwaitJob, ParkLookahead, ClearJobs, FindJob, Woken, LaElse, CtElse, jobVars
<1>14. CASE TakeJob
  BY <1>14 DEF TakeJob, LaElse, CtElse, jobVars
<1>15. CASE WaitCuInfoBuf
  BY <1>15 DEF WaitCuInfoBuf, LaElse, jobVars
<1>16. CASE EncodePass1
  BY <1>16 DEF EncodePass1, Enqueue, jobVars
<1>17. CASE AfterAddFrame
  BY <1>17 DEF AfterAddFrame, LaElse, CtElse, jobVars
<1>18. CASE EndLookahead
  BY <1>18 DEF EndLookahead, PassOneDone, Woken, LaElse, CtElse, jobVars
<1>19. CASE CuTreeLoop
  BY <1>19 DEF CuTreeLoop, CtKeeps, jobVars, feedVars
<1>20. CASE AwaitFrame
  BY <1>20 DEF AwaitFrame, Woken, CtKeeps, jobVars
<1>21. CASE TakeFrame
  BY <1>21 DEF TakeFrame, CtKeeps, jobVars
<1>22. CASE HandleInputFrame
  BY <1>22 DEF HandleInputFrame, Woken, CtKeeps, jobVars
<1>23. CASE Process
  BY <1>23 DEF Process, ProcessOneFrame, CtKeeps, jobVars, feedVars
<1>24. CASE WriteFrame
  BY <1>24 DEF WriteFrame, Enqueue, CtKeeps, jobVars, feedVars
<1>25. CASE RemoveFrames
  BY <1>25 DEF RemoveFrames, CtKeeps, jobVars, feedVars, CuInv
<1>26. CASE EndCuTree
  BY <1>26 DEF EndCuTree, RemovesFrame, Woken, CtKeeps, jobVars
<1>27. CASE UNCHANGED vars
  BY <1>27 DEF vars, mainVars, laVars, ctVars, jobVars, feedVars
<1> QED
  BY <1>1, <1>2, <1>3, <1>4, <1>5, <1>6, <1>7, <1>8, <1>9, <1>10, <1>11, <1>12, <1>13, <1>14,
     <1>15, <1>16,
     <1>17, <1>18, <1>19, <1>20, <1>21, <1>22, <1>23, <1>24, <1>25, <1>26, <1>27
     DEF Next, CallStep, LookaheadStep, CutreeStep

LEMMA ErrorNext == StopInv /\ Pass1Inv /\ CuInv /\ ParkInv /\ EndingInv /\ ErrorInv /\ [Next]_vars => ErrorInv'
<1> SUFFICES ASSUME StopInv, Pass1Inv, CuInv, ParkInv, EndingInv, ErrorInv, [Next]_vars PROVE ErrorInv'
  OBVIOUS
<1> USE WakesKeepPlace DEF StopInv, ErrorInv, StopPhase, AfterCutree, AfterLookahead, LaOver, BeforeStop,
        Ok, MainStop,
        LookaheadFlush, CutreeFlush, CutreeFlushEnd, LookaheadError, CutreeError, MainError
<1>1. CASE AddPictureToLookahead
  BY <1>1 DEF AddPictureToLookahead, ctVars, laVars, jobVars, feedVars
<1>2. CASE Flush
  BY <1>2 DEF Flush, ctVars, laVars, jobVars, feedVars
<1>3. CASE FlushNothing
  BY <1>3 DEF FlushNothing, ctVars, laVars, jobVars, feedVars
<1>4. CASE Release
  BY <1>4 DEF Release, MainElse, ctVars, laVars, jobVars, feedVars
<1>5. CASE GetLookaheadOutput
  BY <1>5 DEF GetLookaheadOutput, ctVars, laVars, jobVars, feedVars
<1>6. CASE EncodePass2
  BY <1>6 DEF EncodePass2, laVars, jobVars, feedVars
<1>7. CASE StopLookaheadThread
  BY <1>7 DEF StopLookaheadThread, MainElse, ctVars, jobVars, feedVars
<1>8. CASE StopCuTreeThread
  BY <1>8 DEF StopCuTreeThread, MainElse, laVars, jobVars, feedVars
<1>9. CASE TerminateLookaheadThread
  BY <1>9 DEF TerminateLookaheadThread, TerminatedStatus, MainElse, ctVars, jobVars, feedVars
<1>10. CASE TerminateCuTreeThread
  BY <1>10 DEF TerminateCuTreeThread, TerminatedStatus, MainElse, laVars, jobVars, feedVars
<1>11. CASE LookaheadLoop
  BY <1>11 DEF LookaheadLoop, LaElse, CtElse, jobVars
<1>12. CASE AwaitAnyJob
  BY <1>12 DEF AwaitAnyJob, ParkLookahead, ClearJobs, FindJob, Woken, LaElse, CtElse, jobVars
<1>13. CASE AwaitJob
  BY <1>13 DEF AwaitJob, ParkLookahead, ClearJobs, FindJob, Woken, LaElse, CtElse, jobVars
<1>14. CASE TakeJob
  <2>1. /\ lpc = "second" /\ status >= LookaheadFlush /\ last.pic = None /\ laJob = None
        \/ laFailed' = laFailed
    BY <1>14 DEF TakeJob
  <2>2. CASE laFailed' = laFailed
    BY <1>14, <2>2 DEF TakeJob, LaElse, CtElse
  <2>3. CASE lpc = "second" /\ status >= LookaheadFlush /\ last.pic = None /\ laJob = None
    <3>1. CASE laStop
      BY <1>14, <2>3, <3>1 DEF TakeJob, LaElse, CtElse, ParkInv
    <3>2. CASE ~laStop
      <4>1. last = BeforeFirst /\ want = First
        BY <2>3 DEF Pass1Inv, LaTypes, Plan, IsPic, IsFrame, Frame, Base, BeforeFirst, None, Picture
      <4>2. Newest = last /\ Top(last) = None - 1 + 1
        BY <2>3, <4>1 DEF Newest, Top, Base, BeforeFirst, Picture, None
      <4>3. 0 \notin jobs
        BY <2>3, <4>1 DEF Pass1Inv, JobFound, First, Picture
      <4>4. \A p \in 0 .. fed - 1 : p > -1 => p \in jobs
        BY <2>3, <3>2, <4>2 DEF Pass1Inv, ToCome, Later, None, LaTypes
      <4>5. fed = 0
        BY <4>3, <4>4 DEF Pass1Inv, LaTypes
      <4>6. status # LookaheadFlush
        BY <4>5 DEF Pass1Inv, Flushed
      <4>7. status \notin {CutreeFlush, CutreeFlushEnd}
        BY <2>3, <3>2 DEF EndingInv, LaOver
      <4>8. status >= LookaheadError
        BY <2>3, <4>6, <4>7
      <4> QED
        BY <1>14, <4>8 DEF TakeJob, LaElse, CtElse
    <3> QED
      BY <3>1, <3>2
  <2> QED
    BY <2>1, <2>2, <2>3
<1>15. CASE WaitCuInfoBuf
  BY <1>15 DEF WaitCuInfoBuf, LaElse, jobVars
<1>16. CASE EncodePass1
  BY <1>16 DEF EncodePass1, Enqueue, jobVars
<1>17. CASE AfterAddFrame
  BY <1>17 DEF AfterAddFrame, LaElse, CtElse, jobVars
<1>18. CASE EndLookahead
  BY <1>18 DEF EndLookahead, PassOneDone, Woken, LaElse, CtElse, jobVars
<1>19. CASE CuTreeLoop
  BY <1>19 DEF CuTreeLoop, CtKeeps, jobVars, feedVars
<1>20. CASE AwaitFrame
  BY <1>20 DEF AwaitFrame, Woken, CtKeeps, jobVars
<1>21. CASE TakeFrame
  BY <1>21 DEF TakeFrame, CtKeeps, jobVars
<1>22. CASE HandleInputFrame
  BY <1>22 DEF HandleInputFrame, Woken, CtKeeps, jobVars
<1>23. CASE Process
  BY <1>23 DEF Process, ProcessOneFrame, CtKeeps, jobVars, feedVars
<1>24. CASE WriteFrame
  BY <1>24 DEF WriteFrame, Enqueue, CtKeeps, jobVars, feedVars
<1>25. CASE RemoveFrames
  BY <1>25 DEF RemoveFrames, CtKeeps, jobVars, feedVars
<1>26. CASE EndCuTree
  BY <1>26 DEF EndCuTree, RemovesFrame, Woken, CtKeeps, jobVars
<1>27. CASE UNCHANGED vars
  BY <1>27 DEF vars, mainVars, laVars, ctVars, jobVars, feedVars
<1> QED
  BY <1>1, <1>2, <1>3, <1>4, <1>5, <1>6, <1>7, <1>8, <1>9, <1>10, <1>11, <1>12, <1>13, <1>14,
     <1>15, <1>16,
     <1>17, <1>18, <1>19, <1>20, <1>21, <1>22, <1>23, <1>24, <1>25, <1>26, <1>27
     DEF Next, CallStep, LookaheadStep, CutreeStep

\* A lookahead thread that finds no job in the middle of a stream has encoded whole GOPs.
LEMMA EndOfGop ==
    ASSUME Pass1Inv, lpc = "second", laJob = None, ~laStop
    PROVE  EndsGop(last)
<1> SUFFICES ASSUME ~EndsGop(last) PROVE FALSE
  OBVIOUS
<1>1. Follows(last, want) /\ IsPic(want) /\ Newest = last
  BY DEF Pass1Inv, Plan, LaTypes, Newest
<1>2. IsPic(last)
  BY DEF Pass1Inv, LaTypes, BeforeFirst, EndsGop, Picture
<1>3. want.ord = last.ord + 1 /\ want.gop = last.gop /\ Base(want) = Base(last)
  BY <1>1 DEF Follows
<1>4. last.ord \in Nat /\ last.gop \in Nat /\ last.ord + 1 < last.gop /\ Base(last) \in Int /\ Base(last) >= -1
  BY <1>2, SizesAssumption DEF IsPic, IsFrame, Frame, EndsGop, Base
<1>5. want.pic = Base(last) + last.ord + 1 /\ want.pic \in Int
  BY <1>1, <1>3, <1>4 DEF Base, IsPic, IsFrame, Frame
<1>6. Later(last, want.pic) /\ want.pic < Top(last) /\ want.pic >= 0 /\ Top(last) \in Int
  BY <1>4, <1>5 DEF Later, Top
<1>7. Top(last) < fed /\ \A p \in 0 .. fed - 1 : Later(last, p) => p \in jobs \cup {laJob}
  BY <1>1 DEF Pass1Inv, ToCome
<1>8. want.pic \in jobs \cup {laJob}
  BY <1>5, <1>6, <1>7 DEF Pass1Inv, LaTypes
<1> QED
  BY <1>5, <1>6, <1>8 DEF Pass1Inv, JobFound, None


LEMMA FlushNext ==
    ASSUME "inner" \notin Faults
    PROVE  StopInv /\ Pass1Inv /\ CuInv /\ ParkInv /\ EndingInv
            /\ EndInv /\ ErrorInv /\ FlushInv /\ [Next]_vars => FlushInv'
<1> SUFFICES ASSUME StopInv, Pass1Inv, CuInv, ParkInv, EndingInv, EndInv, ErrorInv, FlushInv, [Next]_vars
             PROVE FlushInv'
  OBVIOUS
<1> USE WakesKeepPlace DEF StopInv, FlushInv, StopPhase, AfterCutree, AfterLookahead, LaOver, CtOver,
        Over, InPass1, BeforeStop, Ok, MainStop,
        LookaheadFlush, CutreeFlush, CutreeFlushEnd, LookaheadError, CutreeError, MainError
<1>1. CASE AddPictureToLookahead
  BY <1>1 DEF AddPictureToLookahead, ctVars, laVars, jobVars, feedVars
<1>2. CASE Flush
  BY <1>2 DEF Flush, ctVars, laVars, jobVars, feedVars
<1>3. CASE FlushNothing
  BY <1>3 DEF FlushNothing, ctVars, laVars, jobVars, feedVars
<1>4. CASE Release
  BY <1>4 DEF Release, MainElse, ctVars, laVars, jobVars, feedVars
<1>5. CASE GetLookaheadOutput
  BY <1>5 DEF GetLookaheadOutput, ctVars, laVars, jobVars, feedVars
<1>6. CASE EncodePass2
  BY <1>6 DEF EncodePass2, laVars, jobVars, feedVars
<1>7. CASE StopLookaheadThread
  BY <1>7 DEF StopLookaheadThread, MainElse, ctVars, jobVars, feedVars
<1>8. CASE StopCuTreeThread
  BY <1>8 DEF StopCuTreeThread, MainElse, laVars, jobVars, feedVars
<1>9. CASE TerminateLookaheadThread
  BY <1>9 DEF TerminateLookaheadThread, TerminatedStatus, MainElse, ctVars, jobVars, feedVars
<1>10. CASE TerminateCuTreeThread
  BY <1>10 DEF TerminateCuTreeThread, TerminatedStatus, MainElse, laVars, jobVars, feedVars
<1>11. CASE LookaheadLoop
  BY <1>11 DEF LookaheadLoop, LaElse, CtElse, jobVars
<1>12. CASE AwaitAnyJob
  BY <1>12 DEF AwaitAnyJob, ParkLookahead, ClearJobs, FindJob, Woken, LaElse, CtElse, jobVars
<1>13. CASE AwaitJob
  BY <1>13 DEF AwaitJob, ParkLookahead, ClearJobs, FindJob, Woken, LaElse, CtElse, jobVars
<1>14. CASE TakeJob
  <2>1. lpc' = "end" /\ ~laFailed' => EndsGop(last) \/ status >= CutreeFlush \/ status = MainStop
    <3>1. CASE laStop
      BY <1>14, <3>1 DEF TakeJob, ParkInv
    <3>2. CASE ~laStop
      BY <1>14, <3>2, EndOfGop DEF TakeJob
    <3> QED
      BY <3>1, <3>2
  <2> QED
    BY <1>14, <2>1 DEF TakeJob, LaElse, CtElse
<1>15. CASE WaitCuInfoBuf
  BY <1>15 DEF WaitCuInfoBuf, LaElse, jobVars
<1>16. CASE EncodePass1
  <2>1. lpc' = "end" => EndsGop(last)
    <3>1. lpc' = "end" => IsAnchor(want)
      BY <1>16 DEF EncodePass1
    <3> QED
      BY <3>1, SizesAssumption
        DEF Pass1Inv, Plan, LaTypes, Follows, IsAnchor, IsPic, IsFrame, Frame,
         BeforeFirst,
         EndsGop, Picture
  <2> QED
    BY <1>16, <2>1 DEF EncodePass1, Enqueue, EndingInv, jobVars
<1>17. CASE AfterAddFrame
  BY <1>17 DEF AfterAddFrame, LaElse, CtElse, jobVars
<1>18. CASE EndLookahead
  BY <1>18 DEF EndLookahead, PassOneDone, Woken, LaElse, CtElse, jobVars
<1>19. CASE CuTreeLoop
  BY <1>19 DEF CuTreeLoop, CtKeeps, jobVars, feedVars, EndingInv
<1>20. CASE AwaitFrame
  BY <1>20 DEF AwaitFrame, Woken, CtKeeps, jobVars
<1>21. CASE TakeFrame
  BY <1>21 DEF TakeFrame, CtKeeps, jobVars
<1>22. CASE HandleInputFrame
  BY <1>22 DEF HandleInputFrame, Woken, CtKeeps, jobVars
<1>23. CASE Process
  BY <1>23 DEF Process, ProcessOneFrame, CtKeeps, jobVars, feedVars, EndingInv, Ending, EndInv
<1>24. CASE WriteFrame
  BY <1>24 DEF WriteFrame, Enqueue, CtKeeps, jobVars, feedVars
<1>25. CASE RemoveFrames
  BY <1>25 DEF RemoveFrames, CtKeeps, jobVars, feedVars, CuInv
<1>26. CASE EndCuTree
  BY <1>26 DEF EndCuTree, RemovesFrame, Woken, CtKeeps, jobVars
<1>27. CASE UNCHANGED vars
  BY <1>27 DEF vars, mainVars, laVars, ctVars, jobVars, feedVars
<1> QED
  BY <1>1, <1>2, <1>3, <1>4, <1>5, <1>6, <1>7, <1>8, <1>9, <1>10, <1>11, <1>12, <1>13, <1>14,
     <1>15, <1>16,
     <1>17, <1>18, <1>19, <1>20, <1>21, <1>22, <1>23, <1>24, <1>25, <1>26, <1>27
     DEF Next, CallStep, LookaheadStep, CutreeStep

LEMMA SeenNext == StopInv /\ CuInv /\ ErrorInv /\ SeenInv /\ [Next]_vars => SeenInv'
<1> SUFFICES ASSUME StopInv, CuInv, ErrorInv, SeenInv, [Next]_vars PROVE SeenInv'
  OBVIOUS
<1> USE WakesKeepPlace DEF StopInv, SeenInv, StopPhase, AfterCutree, AfterLookahead, LaOver, CtOver,
        Over, BeforeStop, Ok, MainStop,
        LookaheadFlush, CutreeFlush, CutreeFlushEnd, LookaheadError, CutreeError, MainError
<1>1. CASE AddPictureToLookahead
  BY <1>1 DEF AddPictureToLookahead, ctVars, laVars, jobVars, feedVars
<1>2. CASE Flush
  BY <1>2 DEF Flush, ctVars, laVars, jobVars, feedVars
<1>3. CASE FlushNothing
  BY <1>3 DEF FlushNothing, ctVars, laVars, jobVars, feedVars
<1>4. CASE Release
  BY <1>4 DEF Release, MainElse, ctVars, laVars, jobVars, feedVars
<1>5. CASE GetLookaheadOutput
  BY <1>5 DEF GetLookaheadOutput, ctVars, laVars, jobVars, feedVars
<1>6. CASE EncodePass2
  BY <1>6 DEF EncodePass2, laVars, jobVars, feedVars
<1>7. CASE StopLookaheadThread
  BY <1>7 DEF StopLookaheadThread, MainElse, ctVars, jobVars, feedVars
<1>8. CASE StopCuTreeThread
  BY <1>8 DEF StopCuTreeThread, MainElse, laVars, jobVars, feedVars
<1>9. CASE TerminateLookaheadThread
  BY <1>9 DEF TerminateLookaheadThread, TerminatedStatus, MainElse, ctVars, jobVars, feedVars
<1>10. CASE TerminateCuTreeThread
  BY <1>10 DEF TerminateCuTreeThread, TerminatedStatus, MainElse, laVars, jobVars, feedVars
<1>11. CASE LookaheadLoop
  BY <1>11 DEF LookaheadLoop, LaElse, CtElse, jobVars
<1>12. CASE AwaitAnyJob
  BY <1>12 DEF AwaitAnyJob, ParkLookahead, ClearJobs, FindJob, Woken, LaElse, CtElse, jobVars
<1>13. CASE AwaitJob
  BY <1>13 DEF AwaitJob, ParkLookahead, ClearJobs, FindJob, Woken, LaElse, CtElse, jobVars
<1>14. CASE TakeJob
  BY <1>14 DEF TakeJob, LaElse, CtElse, jobVars
<1>15. CASE WaitCuInfoBuf
  BY <1>15 DEF WaitCuInfoBuf, LaElse, jobVars
<1>16. CASE EncodePass1
  BY <1>16 DEF EncodePass1, Enqueue, jobVars
<1>17. CASE AfterAddFrame
  BY <1>17 DEF AfterAddFrame, LaElse, CtElse, jobVars
<1>18. CASE EndLookahead
  BY <1>18 DEF EndLookahead, PassOneDone, Woken, LaElse, CtElse, jobVars, ErrorInv
<1>19. CASE CuTreeLoop
  BY <1>19 DEF CuTreeLoop, CtKeeps, jobVars, feedVars
<1>20. CASE AwaitFrame
  BY <1>20 DEF AwaitFrame, Woken, CtKeeps, jobVars
<1>21. CASE TakeFrame
  BY <1>21 DEF TakeFrame, CtKeeps, jobVars
<1>22. CASE HandleInputFrame
  BY <1>22 DEF HandleInputFrame, Woken, CtKeeps, jobVars
<1>23. CASE Process
  BY <1>23 DEF Process, ProcessOneFrame, CtKeeps, jobVars, feedVars
<1>24. CASE WriteFrame
  BY <1>24 DEF WriteFrame, Enqueue, CtKeeps, jobVars, feedVars
<1>25. CASE RemoveFrames
  BY <1>25 DEF RemoveFrames, CtKeeps, jobVars, feedVars, CuInv
<1>26. CASE EndCuTree
  BY <1>26 DEF EndCuTree, RemovesFrame, Woken, CtKeeps, jobVars
<1>27. CASE UNCHANGED vars
  BY <1>27 DEF vars, mainVars, laVars, ctVars, jobVars, feedVars
<1> QED
  BY <1>1, <1>2, <1>3, <1>4, <1>5, <1>6, <1>7, <1>8, <1>9, <1>10, <1>11, <1>12, <1>13, <1>14,
     <1>15, <1>16,
     <1>17, <1>18, <1>19, <1>20, <1>21, <1>22, <1>23, <1>24, <1>25, <1>26, <1>27
     DEF Next, CallStep, LookaheadStep, CutreeStep

-----------------------------------------------------------------------------
(* The queue of the cuTree thread *)

\* What the operators on sequences return, element by element.
LEMMA AppendElements ==
    ASSUME NEW S, NEW s \in Seq(S), NEW e \in S
    PROVE  /\ Append(s, e) \in Seq(S) /\ Len(Append(s, e)) = Len(s) + 1
           /\ \A i \in 1 .. Len(s) : Append(s, e)[i] = s[i]
           /\ Append(s, e)[Len(s) + 1] = e
  OBVIOUS

LEMMA TailElements ==
    ASSUME NEW S, NEW s \in Seq(S), s # <<>>
    PROVE  /\ Tail(s) \in Seq(S) /\ Len(Tail(s)) = Len(s) - 1 /\ Len(s) \in Nat \ {0}
           /\ \A i \in 1 .. Len(s) - 1 : Tail(s)[i] = s[i + 1]
           /\ Head(s) = s[1] /\ Head(s) \in S
  OBVIOUS

LEMMA SuffixElements ==
    ASSUME NEW S, NEW s \in Seq(S), NEW n \in 0 .. Len(s)
    PROVE  /\ SubSeq(s, n + 1, Len(s)) \in Seq(S) /\ Len(SubSeq(s, n + 1, Len(s))) = Len(s) - n
           /\ \A i \in 1 .. Len(s) - n : SubSeq(s, n + 1, Len(s))[i] = s[n + i]
  OBVIOUS

LEMMA PrefixElements ==
    ASSUME NEW S, NEW s \in Seq(S), NEW n \in 0 .. Len(s)
    PROVE  /\ SubSeq(s, 1, n) \in Seq(S) /\ Len(SubSeq(s, 1, n)) = n
           /\ \A i \in 1 .. n : SubSeq(s, 1, n)[i] = s[i]
  OBVIOUS

LEMMA ConcatElements ==
    ASSUME NEW S, NEW s \in Seq(S), NEW t \in Seq(S)
    PROVE  /\ s \o t \in Seq(S) /\ Len(s \o t) = Len(s) + Len(t)
           /\ \A i \in 1 .. Len(s) : (s \o t)[i] = s[i]
           /\ \A i \in 1 .. Len(t) : (s \o t)[Len(s) + i] = t[i]
  OBVIOUS

LEMMA InsertElements ==
    ASSUME NEW S, NEW s \in Seq(S), NEW e \in S, NEW n \in 1 .. Len(s) + 1
    PROVE  /\ InsertAt(s, n, e) \in Seq(S) /\ Len(InsertAt(s, n, e)) = Len(s) + 1
           /\ \A i \in 1 .. n - 1 : InsertAt(s, n, e)[i] = s[i]
           /\ InsertAt(s, n, e)[n] = e
           /\ \A i \in n + 1 .. Len(s) + 1 : InsertAt(s, n, e)[i] = s[i - 1]
<1> DEFINE a == SubSeq(s, 1, n - 1)
           b == SubSeq(s, n, Len(s))
<1>1. a \in Seq(S) /\ Len(a) = n - 1 /\ \A i \in 1 .. n - 1 : a[i] = s[i]
  <2>1. n - 1 \in 0 .. Len(s)
    OBVIOUS
  <2> QED
    BY <2>1, PrefixElements
<1>2. b \in Seq(S) /\ Len(b) = Len(s) - (n - 1) /\ \A i \in 1 .. Len(s) - (n - 1) : b[i] = s[n - 1 + i]
  <2>1. n - 1 \in 0 .. Len(s) /\ (n - 1) + 1 = n
    OBVIOUS
  <2>2. b = SubSeq(s, (n - 1) + 1, Len(s))
    BY <2>1
  <2> QED
    BY <2>1, <2>2, SuffixElements
<1>3. InsertAt(s, n, e) = (a \o <<e>>) \o b
  BY DEF InsertAt
<1> HIDE DEF a, b
<1> DEFINE c == a \o <<e>>
<1>4. c \in Seq(S) /\ Len(c) = n /\ (\A i \in 1 .. n - 1 : c[i] = a[i]) /\ c[n] = e
  BY <1>1
<1> HIDE DEF c
<1>5. InsertAt(s, n, e) = c \o b
  BY <1>3 DEF c
<1>6. /\ c \o b \in Seq(S) /\ Len(c \o b) = Len(s) + 1
      /\ \A i \in 1 .. n : (c \o b)[i] = c[i]
      /\ \A i \in n + 1 .. Len(s) + 1 : (c \o b)[i] = b[i - n]
  <2>1. /\ c \o b \in Seq(S) /\ Len(c \o b) = Len(c) + Len(b)
        /\ \A i \in 1 .. Len(c) : (c \o b)[i] = c[i]
        /\ \A i \in 1 .. Len(b) : (c \o b)[Len(c) + i] = b[i]
    <3>1. c \in Seq(S) /\ b \in Seq(S)
      BY <1>2, <1>4
    <3> QED
      BY ONLY <3>1, ConcatElements
  <2>2. Len(c) = n /\ Len(b) = Len(s) - (n - 1) /\ Len(s) \in Nat
    BY <1>2, <1>4
  <2>3. \A i \in 1 .. n : (c \o b)[i] = c[i]
    BY <2>1, <2>2
  <2>4. ASSUME NEW i \in n + 1 .. Len(s) + 1 PROVE (c \o b)[i] = b[i - n]
    <3>1. i - n \in 1 .. Len(b) /\ Len(c) + (i - n) = i
      BY <2>2
    <3>2. (c \o b)[Len(c) + (i - n)] = b[i - n]
      BY <2>1, <3>1
    <3> QED
      BY <3>1, <3>2
  <2>5. c \o b \in Seq(S) /\ Len(c \o b) = Len(s) + 1
    BY <2>1, <2>2
  <2> QED
    BY <2>3, <2>4, <2>5
<1> DEFINE d == c \o b
<1> HIDE DEF d
<1>7. InsertAt(s, n, e) = d /\ d \in Seq(S) /\ Len(d) = Len(s) + 1
  BY <1>5, <1>6 DEF d
<1>8. \A i \in 1 .. n - 1 : d[i] = s[i]
  <2>1. \A i \in 1 .. n : d[i] = c[i]
    BY <1>6 DEF d
  <2> QED
    BY <1>1, <1>4, <2>1
<1>9. d[n] = e
  BY <1>4, <1>6 DEF d
<1>10. \A i \in n + 1 .. Len(s) + 1 : d[i] = s[i - 1]
  <2>1. ASSUME NEW i \in n + 1 .. Len(s) + 1 PROVE d[i] = s[i - 1]
    <3>1. d[i] = b[i - n]
      BY <1>6 DEF d
    <3>2. i - n \in 1 .. Len(s) - (n - 1) /\ n - 1 + (i - n) = i - 1
      OBVIOUS
    <3>3. b[i - n] = s[n - 1 + (i - n)]
      BY <1>2, <3>2
    <3> QED
      BY <3>1, <3>2, <3>3
  <2> QED
    BY <2>1
<1> QED
  BY ONLY <1>7, <1>8, <1>9, <1>10

\* The frames up to e are whole GOPs in display order: the anchor a GOP starts from is b, its
\* own one gop places further.
Gops(q, e) == \A i \in 2 .. e :
    LET b == Base(q[i]) - q[1].pic + 1
    IN /\ b \in 1 .. i - 1 /\ b + q[i].gop \in i .. e
       /\ q[b].ord = 0 /\ q[b + q[i].gop].ord = 0
       /\ \A j \in b + 1 .. b + q[i].gop - 1 : q[j].ord # 0
Whole(q, e) == /\ q[1].ord = 0 /\ q[e].ord = 0 /\ q[1].pic >= 0
               /\ \A i \in 1 .. e : q[i].pic = q[1].pic + i - 1
               /\ Gops(q, e)
\* Behind them the GOP that is coming: its first frames and, last of n, its anchor.
Begun(q, e, n) == n > e =>
    /\ q[n].ord = 0 /\ q[n].gop > n - e /\ Base(q[n]) = q[e].pic
    /\ \A k \in e + 1 .. n - 1 : q[k].ord = k - e /\ q[k].gop = q[n].gop /\ Base(q[k]) = q[e].pic
Shape(q, e, n) == /\ n \in Nat /\ e \in 1 .. n
                  /\ \A i \in 1 .. n : IsFrame(q[i])
                  /\ Whole(q, e) /\ Begun(q, e, n)

\* The frame that came last into the queue, and the one that comes next.
CameLast(f, q, e, n) == IF n = e THEN EndsGop(f) /\ Top(f) = q[e].pic
                        ELSE f.ord = n - e - 1 /\ f.gop = q[n].gop /\ Base(f) = q[e].pic
ComesNext(f, q, e, n) == /\ f.ord = n - e /\ Base(f) = q[e].pic
                         /\ n > e => f.gop = q[n].gop

LEMMA FrameFields ==
    ASSUME NEW f, IsFrame(f)
    PROVE  /\ f.pic \in Int /\ f.ord \in Nat /\ f.gop \in Nat /\ f.gop > 0 /\ f.ord < f.gop
           /\ f.gop <= Gop /\ f.out \in BOOLEAN /\ Base(f) \in Int /\ Top(f) \in Int
           /\ Base(f) < f.pic /\ f.pic <= Top(f)
           /\ IF f.ord = 0 THEN f.pic = Base(f) + f.gop ELSE f.pic = Base(f) + f.ord
BY SizesAssumption DEF IsFrame, Frame, Base, Top

LEMMA NextComes ==
    ASSUME NEW q, NEW e, NEW n, Shape(q, e, n), NEW f, NEW g, IsFrame(f), IsFrame(g),
           CameLast(f, q, e, n), Follows(f, g)
    PROVE  ComesNext(g, q, e, n)
<1>1. n \in Nat /\ e \in Nat /\ e <= n
  BY DEF Shape
<1>2. f.gop \in Nat /\ f.ord \in Nat /\ g.gop \in Nat /\ g.ord \in Nat
  BY FrameFields
<1>3. CASE n = e
  BY <1>1, <1>3 DEF CameLast, ComesNext, Follows
<1>4. CASE n # e
  <2>1. f.ord = n - e - 1 /\ f.gop = q[n].gop /\ Base(f) = q[e].pic
    BY <1>4 DEF CameLast
  <2>2. q[n].gop > n - e
    BY <1>1, <1>4 DEF Shape, Begun
  <2>3. ~EndsGop(f)
    BY <1>1, <1>2, <2>1, <2>2 DEF EndsGop
  <2>4. g.ord = f.ord + 1 /\ g.gop = f.gop /\ Base(g) = Base(f)
    BY <2>3 DEF Follows
  <2> QED
    BY <1>1, <1>2, <2>1, <2>4 DEF ComesNext
<1> QED
  BY <1>3, <1>4

\* The pictures of the queue, place by place.
LEMMA QueuePics ==
    ASSUME NEW q, NEW e, NEW n, Shape(q, e, n)
    PROVE  /\ \A i \in 1 .. n : q[i].pic \in Int
           /\ q[1].pic \in Nat /\ q[e].pic = q[1].pic + e - 1
           /\ \A i \in 1 .. e : q[i].pic = q[1].pic + i - 1
           /\ \A i \in e + 1 .. n - 1 : q[i].pic = q[1].pic + i - 1
           /\ n > e => q[n].pic = q[e].pic + q[n].gop /\ q[n].pic > q[1].pic + n - 1
<1>1. n \in Nat /\ e \in Nat /\ 1 <= e /\ e <= n
  BY DEF Shape
<1>2. \A i \in 1 .. n : q[i].pic \in Int
  BY FrameFields DEF Shape
<1>3. q[1].pic \in Nat
  BY <1>1, <1>2 DEF Shape, Whole
<1>4. \A i \in 1 .. e : q[i].pic = q[1].pic + i - 1
  BY DEF Shape, Whole
<1>5. q[e].pic = q[1].pic + e - 1
  BY <1>1, <1>4
<1>6. ASSUME NEW i \in e + 1 .. n - 1 PROVE q[i].pic = q[1].pic + i - 1
  <2>1. i \in 1 .. n /\ i \in Int /\ i - e > 0
    BY <1>1
  <2>2. q[i].ord = i - e /\ Base(q[i]) = q[e].pic
    BY <1>1 DEF Shape, Begun
  <2>3. q[i].pic = Base(q[i]) + q[i].ord
    BY <2>1, <2>2, FrameFields DEF Shape
  <2> QED
    BY <1>1, <1>3, <1>5, <2>1, <2>2, <2>3
<1>7. ASSUME n > e PROVE q[n].pic = q[e].pic + q[n].gop /\ q[n].pic > q[1].pic + n - 1
  <2>1. q[n].ord = 0 /\ q[n].gop > n - e /\ Base(q[n]) = q[e].pic
    BY <1>7 DEF Shape, Begun
  <2>2. IsFrame(q[n])
    BY <1>1 DEF Shape
  <2>3. q[n].pic = Base(q[n]) + q[n].gop /\ q[n].gop \in Nat
    BY <2>1, <2>2, FrameFields
  <2> QED
    BY <1>1, <1>3, <1>5, <2>1, <2>3
<1> QED
  BY <1>2, <1>3, <1>4, <1>5, <1>6, <1>7

\* Where the frame goes: behind everything, or before the anchor of its GOP.
LEMMA InsertBehind ==
    ASSUME NEW q, NEW e, NEW n, Shape(q, e, n), NEW f, IsFrame(f), ComesNext(f, q, e, n)
    PROVE  LET a == IF n = e THEN n ELSE n - 1
           IN /\ ~IsIntra(f) /\ a \in 0 .. n /\ f.pic \in Int
              /\ \A i \in 1 .. n : q[i].pic \in Int /\ (q[i].pic <= f.pic <=> i <= a)
<1> DEFINE a == IF n = e THEN n ELSE n - 1
<1>1. n \in Nat /\ e \in Nat /\ 1 <= e /\ e <= n
  BY DEF Shape
<1>2. f.pic \in Int /\ f.pic = q[e].pic + (IF n = e THEN f.gop ELSE n - e) /\ f.gop \in Nat /\ f.gop > 0
  <2>1. f.ord = n - e /\ Base(f) = q[e].pic
    BY DEF ComesNext
  <2> QED
    BY <1>1, <2>1, FrameFields
<1>3. /\ \A i \in 1 .. n : q[i].pic \in Int
      /\ q[1].pic \in Nat /\ q[e].pic = q[1].pic + e - 1
      /\ \A i \in 1 .. e : q[i].pic = q[1].pic + i - 1
      /\ \A i \in e + 1 .. n - 1 : q[i].pic = q[1].pic + i - 1
      /\ n > e => q[n].pic = q[e].pic + q[n].gop /\ q[n].pic > q[1].pic + n - 1
  BY QueuePics
<1>4. f.pic > 0 /\ f.pic >= q[1].pic + a /\ (n > e => f.pic = q[1].pic + n - 1)
  <2>1. PICK x \in Nat : x = q[1].pic
    BY <1>3
  <2>2. q[e].pic = x + e - 1
    BY <1>3, <2>1
  <2>3. CASE n = e
    BY <1>1, <1>2, <2>1, <2>2, <2>3
  <2>4. CASE n > e
    BY <1>1, <1>2, <2>1, <2>2, <2>4
  <2> QED
    BY <1>1, <2>3, <2>4
<1>5. ~IsIntra(f)
  BY <1>4 DEF IsIntra
<1>6. \A i \in 1 .. a : q[i].pic <= f.pic
  <2>1. \A i \in 1 .. a : q[i].pic = q[1].pic + i - 1
    <3>1. \A i \in 1 .. a : i \in 1 .. e \/ i \in e + 1 .. n - 1
      BY <1>1
    <3> QED
      BY <1>3, <3>1
  <2>2. a \in Nat
    BY <1>1
  <2> HIDE DEF a
  <2> QED
    BY <1>2, <1>3, <1>4, <2>1, <2>2
<1>7. n > e => q[n].pic > f.pic
  BY <1>1, <1>2, <1>3, <1>4
<1>8. a \in Nat /\ a <= n
  BY <1>1
<1>9. ASSUME NEW i \in 1 .. n, i > a PROVE q[i].pic > f.pic
  <2>1. n > e /\ i = n
    BY <1>1, <1>9
  <2> QED
    BY <1>7, <2>1
<1>10. ASSUME NEW i \in 1 .. n PROVE q[i].pic \in Int /\ (q[i].pic <= f.pic <=> i <= a)
  <2>1. i <= a \/ i > a
    BY <1>8
  <2>2. i <= a => i \in 1 .. a
    BY <1>8
  <2>3. q[i].pic \in Int /\ f.pic \in Int
    BY <1>2, <1>3
  <2> HIDE DEF a
  <2> QED
    BY <1>6, <1>8, <1>9, <2>1, <2>2, <2>3
<1> QED
  BY <1>1, <1>2, <1>5, <1>8, <1>10

LEMMA InsertPlace ==
    ASSUME NEW q, q \in Seq(Frame), NEW e, NEW n, Shape(q, e, n), n = Len(q), NEW f, IsFrame(f),
           ComesNext(f, q, e, n)
    PROVE  Insert(q, f) = InsertAt(q, IF n = e THEN n + 1 ELSE n, f)
<1> DEFINE a == IF n = e THEN n ELSE n - 1
           S == {0} \cup {i \in DOMAIN q : q[i].pic <= f.pic}
<1>1. /\ ~IsIntra(f) /\ a \in 0 .. n
      /\ \A i \in 1 .. n : q[i].pic <= f.pic <=> i <= a
  BY InsertBehind
<1>2. DOMAIN q = 1 .. n /\ n \in Nat
  OBVIOUS
<1>3. S = 0 .. a
  <2> HIDE DEF a
  <2> QED
    BY <1>1, <1>2
<1>4. Max(S) = a
  <2> HIDE DEF a
  <2>1. \A x \in 0 .. a : (\A y \in 0 .. a : x >= y) => x = a
    BY <1>1, <1>2
  <2>2. a \in 0 .. a /\ \A y \in 0 .. a : a >= y
    BY <1>1, <1>2
  <2> QED
    BY <1>3, <2>1, <2>2 DEF Max
<1>5. Insert(q, f) = InsertAt(q, a + 1, f)
  <2> HIDE DEF a
  <2> QED
    BY <1>1, <1>4 DEF Insert
<1>6. a + 1 = IF n = e THEN n + 1 ELSE n
  BY <1>2
<1> QED
  BY <1>5, <1>6

\* What the insertion makes of the queue: it stays in order, and a GOP that is complete joins
\* the whole ones.
LEMMA Inserted ==
    ASSUME NEW q, NEW e, NEW n, Shape(q, e, n), NEW f, IsFrame(f), ComesNext(f, q, e, n), NEW r,
           \A i \in 1 .. (IF n = e THEN n ELSE n - 1) : r[i] = q[i],
           r[IF n = e THEN n + 1 ELSE n] = f, n > e => r[n + 1] = q[n]
    PROVE  LET d == IF EndsGop(f) THEN n + 1 ELSE e
           IN Shape(r, d, n + 1) /\ CameLast(f, r, d, n + 1)
<1>1. n \in Nat /\ e \in Nat /\ 1 <= e /\ e <= n
  BY DEF Shape
<1>2. /\ f.pic \in Int /\ f.ord \in Nat /\ f.gop \in Nat /\ f.gop > 0 /\ f.ord < f.gop
      /\ f.ord = n - e /\ Base(f) = q[e].pic
      /\ f.pic = q[e].pic + (IF n = e THEN f.gop ELSE n - e)
  <2>1. f.ord = n - e /\ Base(f) = q[e].pic
    BY DEF ComesNext
  <2> QED
    BY <1>1, <2>1, FrameFields
<1>3. /\ \A i \in 1 .. n : q[i].pic \in Int
      /\ q[1].pic \in Nat /\ q[e].pic = q[1].pic + e - 1
      /\ \A i \in 1 .. e : q[i].pic = q[1].pic + i - 1
      /\ \A i \in e + 1 .. n - 1 : q[i].pic = q[1].pic + i - 1
      /\ n > e => q[n].pic = q[e].pic + q[n].gop /\ q[n].pic > q[1].pic + n - 1
  BY QueuePics
<1>4. /\ q[1].ord = 0 /\ q[e].ord = 0 /\ Gops(q, e)
      /\ \A i \in 1 .. n : IsFrame(q[i])
  BY DEF Shape, Whole
<1>5. \A i \in 1 .. e : r[i] = q[i]
  BY <1>1
<1>6. \A i \in 1 .. n + 1 : IsFrame(r[i])
  <2>1. ASSUME NEW i \in 1 .. n + 1 PROVE IsFrame(r[i])
    <3>1. CASE i \in 1 .. (IF n = e THEN n ELSE n - 1)
      BY <1>1, <1>4, <3>1
    <3>2. CASE i = IF n = e THEN n + 1 ELSE n
      BY <3>2
    <3>3. CASE n > e /\ i = n + 1
      BY <1>1, <1>4, <3>3
    <3> QED
      BY <1>1, <3>1, <3>2, <3>3
  <2> QED
    BY <2>1
<1>7. r[1] = q[1] /\ r[e] = q[e]
  BY <1>1, <1>5
<1>8. ASSUME NEW i \in 2 .. e
      PROVE LET b == Base(r[i]) - r[1].pic + 1
            IN /\ b \in 1 .. i - 1 /\ b + r[i].gop \in i .. e
               /\ r[b].ord = 0 /\ r[b + r[i].gop].ord = 0
               /\ \A j \in b + 1 .. b + r[i].gop - 1 : r[j].ord # 0
  <2> DEFINE b == Base(q[i]) - q[1].pic + 1
  <2>1. /\ b \in 1 .. i - 1 /\ b + q[i].gop \in i .. e
        /\ q[b].ord = 0 /\ q[b + q[i].gop].ord = 0
        /\ \A j \in b + 1 .. b + q[i].gop - 1 : q[j].ord # 0
    BY <1>4 DEF Gops
  <2>2. r[i] = q[i] /\ b = Base(r[i]) - r[1].pic + 1
    BY <1>1, <1>5, <1>7
  <2>3. q[i].gop \in Nat
    BY <1>1, <1>4, FrameFields
  <2> HIDE DEF b
  <2>4. b \in 1 .. e /\ b + q[i].gop \in 1 .. e /\ \A j \in b + 1 .. b + q[i].gop - 1 : j \in 1 .. e
    BY <1>1, <2>1, <2>3
  <2>5. r[b] = q[b] /\ r[b + q[i].gop] = q[b + q[i].gop]
        /\ \A j \in b + 1 .. b + q[i].gop - 1 : r[j] = q[j]
    BY <1>5, <2>4
  <2> QED
    BY <2>1, <2>2, <2>5
<1>9. CASE n = e /\ EndsGop(f)
  <2>1. f.gop = 1 /\ r[n + 1] = f /\ f.ord = 0
    BY <1>1, <1>2, <1>9 DEF EndsGop
  <2>2. \A i \in 1 .. n + 1 : r[i].pic = r[1].pic + i - 1
    BY <1>1, <1>2, <1>3, <1>5, <1>7, <1>9, <2>1
  <2>3. Gops(r, n + 1)
    <3>1. LET b == Base(r[n + 1]) - r[1].pic + 1
          IN /\ b \in 1 .. n /\ b + r[n + 1].gop \in n + 1 .. n + 1
             /\ r[b].ord = 0 /\ r[b + r[n + 1].gop].ord = 0
             /\ \A j \in b + 1 .. b + r[n + 1].gop - 1 : r[j].ord # 0
      BY <1>1, <1>2, <1>3, <1>4, <1>7, <1>9, <2>1
    <3>2. ASSUME NEW i \in 2 .. n + 1
          PROVE LET b == Base(r[i]) - r[1].pic + 1
                IN /\ b \in 1 .. i - 1 /\ b + r[i].gop \in i .. n + 1
                   /\ r[b].ord = 0 /\ r[b + r[i].gop].ord = 0
                   /\ \A j \in b + 1 .. b + r[i].gop - 1 : r[j].ord # 0
      <4>1. CASE i = n + 1
        BY <1>1, <3>1, <4>1
      <4>2. CASE i \in 2 .. e
        <5>1. r[i].gop \in Nat /\ Base(r[i]) \in Int /\ r[1].pic \in Int
          BY <1>1, <1>3, <1>6, <1>7, <4>2, FrameFields
        <5> QED
          BY <1>1, <1>8, <1>9, <4>2, <5>1
      <4> QED
        BY <1>1, <1>9, <4>1, <4>2
    <3> QED
      BY <3>2 DEF Gops
  <2>4. Whole(r, n + 1)
    BY <1>3, <1>4, <1>7, <2>1, <2>2, <2>3 DEF Whole
  <2>5. Shape(r, n + 1, n + 1)
    BY <1>1, <1>6, <2>4 DEF Shape, Begun
  <2>6. CameLast(f, r, n + 1, n + 1)
    BY <1>1, <1>2, <1>9, <2>1 DEF CameLast, Top
  <2> QED
    BY <1>9, <2>5, <2>6
<1>10. Whole(r, e)
  BY <1>1, <1>3, <1>4, <1>5, <1>7, <1>8 DEF Whole, Gops
<1>11. CASE n = e /\ ~EndsGop(f)
  <2>1. f.gop > 1 /\ r[n + 1] = f /\ f.ord = 0
    BY <1>1, <1>2, <1>11 DEF EndsGop
  <2>2. Begun(r, e, n + 1)
    BY <1>1, <1>2, <1>7, <1>11, <2>1 DEF Begun
  <2>3. CameLast(f, r, e, n + 1)
    BY <1>1, <1>2, <1>7, <1>11, <2>1 DEF CameLast
  <2> QED
    BY <1>1, <1>6, <1>10, <1>11, <2>2, <2>3 DEF Shape
<1>12. CASE n > e
  <2>1. /\ q[n].ord = 0 /\ q[n].gop > n - e /\ Base(q[n]) = q[e].pic /\ f.gop = q[n].gop
        /\ \A k \in e + 1 .. n - 1 : q[k].ord = k - e /\ q[k].gop = q[n].gop /\ Base(q[k]) = q[e].pic
    BY <1>12 DEF Shape, Begun, ComesNext
  <2>2. r[n] = f /\ r[n + 1] = q[n] /\ \A i \in 1 .. n - 1 : r[i] = q[i]
    BY <1>1, <1>12
  <2>3. \A k \in e + 1 .. n : r[k].ord = k - e /\ r[k].gop = r[n + 1].gop /\ Base(r[k]) = r[e].pic
    <3>1. ASSUME NEW k \in e + 1 .. n
          PROVE r[k].ord = k - e /\ r[k].gop = r[n + 1].gop /\ Base(r[k]) = r[e].pic
      <4>1. CASE k = n
        BY <1>2, <1>7, <2>1, <2>2, <4>1
      <4>2. CASE k \in e + 1 .. n - 1
        BY <1>1, <1>7, <2>1, <2>2, <4>2
      <4> QED
        BY <1>1, <4>1, <4>2
    <3> QED
      BY <3>1
  <2>4. CASE ~EndsGop(f)
    <3>1. r[n + 1].gop > n + 1 - e
      BY <1>1, <1>2, <2>1, <2>2, <2>4 DEF EndsGop
    <3>2. Begun(r, e, n + 1)
      BY <1>1, <1>7, <2>1, <2>2, <2>3, <3>1 DEF Begun
    <3>3. CameLast(f, r, e, n + 1)
      BY <1>1, <1>2, <1>7, <1>12, <2>1, <2>2 DEF CameLast
    <3> QED
      BY <1>1, <1>6, <1>10, <2>4, <3>2, <3>3 DEF Shape
  <2>5. CASE EndsGop(f)
    <3>1. f.gop = n - e + 1 /\ r[n + 1].gop = n - e + 1 /\ r[n + 1].pic = r[1].pic + n
      BY <1>1, <1>2, <1>3, <1>7, <1>12, <2>1, <2>2, <2>5 DEF EndsGop
    <3>2. \A i \in 1 .. n + 1 : r[i].pic = r[1].pic + i - 1
      <4>1. ASSUME NEW i \in 1 .. n + 1 PROVE r[i].pic = r[1].pic + i - 1
        <5>1. CASE i = n + 1
          BY <1>1, <1>3, <1>7, <3>1, <5>1
        <5>2. CASE i = n
          BY <1>1, <1>2, <1>3, <1>7, <1>12, <2>2, <5>2
        <5>3. CASE i \in 1 .. e
          BY <1>3, <1>5, <1>7, <5>3
        <5>4. CASE i \in e + 1 .. n - 1
          BY <1>1, <1>3, <1>7, <2>2, <5>4
        <5> QED
          BY <1>1, <5>1, <5>2, <5>3, <5>4
      <4> QED
        BY <4>1
    <3>3. Gops(r, n + 1)
      <4>1. ASSUME NEW i \in 2 .. n + 1
            PROVE LET b == Base(r[i]) - r[1].pic + 1
                  IN /\ b \in 1 .. i - 1 /\ b + r[i].gop \in i .. n + 1
                     /\ r[b].ord = 0 /\ r[b + r[i].gop].ord = 0
                     /\ \A j \in b + 1 .. b + r[i].gop - 1 : r[j].ord # 0
        <5>1. CASE i \in 2 .. e
          <6>1. r[i].gop \in Nat /\ Base(r[i]) \in Int /\ r[1].pic \in Int
            BY <1>1, <1>3, <1>6, <1>7, <5>1, FrameFields
          <6> QED
            BY <1>1, <1>8, <1>12, <5>1, <6>1
        <5>2. CASE i \in e + 1 .. n + 1
          <6>1. Base(r[i]) = r[e].pic /\ r[i].gop = n - e + 1
            BY <1>1, <1>7, <2>1, <2>2, <2>3, <3>1, <5>2
          <6>2. Base(r[i]) - r[1].pic + 1 = e
            BY <1>1, <1>3, <1>7, <6>1
          <6>3. \A j \in e + 1 .. n : r[j].ord # 0
            BY <1>1, <2>3
          <6> QED
            BY <1>1, <1>4, <1>7, <2>1, <2>2, <5>2, <6>1, <6>2, <6>3
        <5> QED
          BY <1>1, <5>1, <5>2
      <4> QED
        BY <4>1 DEF Gops
    <3>4. Shape(r, n + 1, n + 1)
      BY <1>1, <1>3, <1>4, <1>6, <1>7, <2>1, <2>2, <3>2, <3>3 DEF Shape, Whole, Begun
    <3>5. CameLast(f, r, n + 1, n + 1)
      <4>1. Top(f) = q[e].pic + f.gop
        BY <1>2 DEF Top
      <4> QED
        BY <1>1, <1>3, <1>12, <2>1, <2>2, <2>5, <4>1 DEF CameLast
    <3> QED
      BY <2>5, <3>4, <3>5
  <2> QED
    BY <2>4, <2>5
<1> QED
  BY <1>1, <1>9, <1>11, <1>12

\* Frames that leave the queue before the anchor of a GOP leave whole GOPs behind.
LEMMA Removed ==
    ASSUME NEW q, NEW e, NEW n, Shape(q, e, n), NEW a \in 1 .. e, q[a].ord = 0, NEW r,
           \A i \in 1 .. n - a + 1 : r[i] = q[i + a - 1], NEW f
    PROVE  /\ Shape(r, e - a + 1, n - a + 1)
           /\ r[1].pic = q[1].pic + a - 1
           /\ CameLast(f, q, e, n) => CameLast(f, r, e - a + 1, n - a + 1)
<1>1. n \in Nat /\ e \in Nat /\ 1 <= e /\ e <= n /\ a \in Nat /\ 1 <= a /\ a <= e
  BY DEF Shape
<1>2. /\ \A i \in 1 .. n : q[i].pic \in Int
      /\ q[1].pic \in Nat
      /\ \A i \in 1 .. e : q[i].pic = q[1].pic + i - 1
  BY QueuePics
<1>3. q[e].ord = 0 /\ Gops(q, e) /\ \A i \in 1 .. n : IsFrame(q[i])
  BY DEF Shape, Whole
<1> DEFINE d == e - a + 1
           m == n - a + 1
<1>4. d \in Nat /\ m \in Nat /\ 1 <= d /\ d <= m
  BY <1>1
<1>5. r[1] = q[a] /\ r[d] = q[e] /\ r[m] = q[n]
  BY <1>1
<1>6. \A i \in 1 .. m : IsFrame(r[i])
  BY <1>1, <1>3
<1>7. r[1].pic = q[1].pic + a - 1
  BY <1>1, <1>2, <1>5
<1>8. \A i \in 1 .. d : r[i].pic = r[1].pic + i - 1
  BY <1>1, <1>2, <1>7
<1>9. Gops(r, d)
  <2>1. ASSUME NEW i \in 2 .. d
        PROVE LET b == Base(r[i]) - r[1].pic + 1
              IN /\ b \in 1 .. i - 1 /\ b + r[i].gop \in i .. d
                 /\ r[b].ord = 0 /\ r[b + r[i].gop].ord = 0
                 /\ \A j \in b + 1 .. b + r[i].gop - 1 : r[j].ord # 0
    <3> DEFINE h == i + a - 1
               c == Base(q[h]) - q[1].pic + 1
               b == c - a + 1
               g == q[h].gop
    <3>1. h \in 2 .. e /\ h > a /\ h \in 1 .. n /\ r[i] = q[h]
      BY <1>1
    <3>2. /\ c \in 1 .. h - 1 /\ c + g \in h .. e /\ q[c].ord = 0 /\ q[c + g].ord = 0
          /\ \A j \in c + 1 .. c + g - 1 : q[j].ord # 0
      BY <1>3, <3>1 DEF Gops
    <3>3. g \in Nat /\ Base(q[h]) \in Int
      BY <1>3, <3>1, FrameFields
    <3>4. b = Base(r[i]) - r[1].pic + 1
      BY <1>1, <1>2, <1>7, <3>1, <3>3
    <3> HIDE DEF c, g
    <3>5. c >= a
      <4> SUFFICES ASSUME c < a PROVE FALSE
        BY <1>1, <3>1, <3>2
      <4>1. a \in c + 1 .. c + g - 1
        BY <1>1, <3>1, <3>2, <3>3
      <4> QED
        BY <3>2, <4>1
    <3>6. /\ b \in 1 .. i - 1 /\ b + g \in i .. d
      BY <1>1, <3>1, <3>2, <3>3, <3>5
    <3>7. r[b] = q[c] /\ r[b + g] = q[c + g]
      <4>1. b \in 1 .. m /\ b + g \in 1 .. m /\ b + a - 1 = c /\ (b + g) + a - 1 = c + g
        BY <1>1, <3>1, <3>2, <3>3, <3>6
      <4> QED
        BY <4>1
    <3>8. \A j \in b + 1 .. b + g - 1 : r[j].ord # 0
      <4>1. ASSUME NEW j \in b + 1 .. b + g - 1 PROVE r[j].ord # 0
        <5>1. j \in 1 .. m /\ j + a - 1 \in c + 1 .. c + g - 1
          BY <1>1, <3>1, <3>2, <3>3, <3>6
        <5>2. r[j] = q[j + a - 1]
          BY <5>1
        <5> QED
          BY <3>2, <5>1, <5>2
      <4> QED
        BY <4>1
    <3>9. r[i].gop = g
      BY <3>1 DEF g
    <3> HIDE DEF b
    <3> QED
      BY <3>2, <3>4, <3>6, <3>7, <3>8, <3>9
  <2> HIDE DEF d
  <2> QED
    BY <2>1 DEF Gops
<1>10. Whole(r, d)
  <2>1. r[1].ord = 0 /\ r[d].ord = 0 /\ r[1].pic >= 0
    BY <1>1, <1>2, <1>3, <1>5, <1>7
  <2> HIDE DEF d
  <2> QED
    BY <1>8, <1>9, <2>1 DEF Whole
<1>11. Begun(r, d, m)
  <2> SUFFICES ASSUME m > d
               PROVE /\ r[m].ord = 0 /\ r[m].gop > m - d /\ Base(r[m]) = r[d].pic
                     /\ \A k \in d + 1 .. m - 1 : /\ r[k].ord = k - d /\ r[k].gop = r[m].gop
                                                  /\ Base(r[k]) = r[d].pic
    BY DEF Begun
  <2>1. n > e /\ m - d = n - e
    BY <1>1
  <2>2. /\ q[n].ord = 0 /\ q[n].gop > n - e /\ Base(q[n]) = q[e].pic
        /\ \A k \in e + 1 .. n - 1 : q[k].ord = k - e /\ q[k].gop = q[n].gop /\ Base(q[k]) = q[e].pic
    BY <2>1 DEF Shape, Begun
  <2>3. ASSUME NEW k \in d + 1 .. m - 1
        PROVE r[k].ord = k - d /\ r[k].gop = r[m].gop /\ Base(r[k]) = r[d].pic
    <3>1. k \in 1 .. m /\ k + a - 1 \in e + 1 .. n - 1 /\ (k + a - 1) - e = k - d
      BY <1>1
    <3>2. r[k] = q[k + a - 1]
      BY <3>1
    <3> QED
      BY <1>5, <2>2, <3>1, <3>2
  <2> QED
    BY <1>5, <2>1, <2>2, <2>3
<1>12. Shape(r, d, m)
  <2>1. d \in 1 .. m
    BY <1>4
  <2> HIDE DEF d, m
  <2> QED
    BY <1>4, <1>6, <1>10, <1>11, <2>1 DEF Shape
<1>13. CameLast(f, q, e, n) => CameLast(f, r, d, m)
  <2>1. (m = d) = (n = e) /\ m - d - 1 = n - e - 1
    BY <1>1
  <2> QED
    BY <1>5, <2>1 DEF CameLast
<1> QED
  BY <1>7, <1>12, <1>13

\* Nothing of this depends on who has the jobs of the frames.
LEMMA SameFrames ==
    ASSUME NEW q, NEW e, NEW n, Shape(q, e, n), NEW r,
           \A i \in 1 .. n : /\ IsFrame(r[i]) /\ r[i].pic = q[i].pic /\ r[i].gop = q[i].gop
                             /\ r[i].ord = q[i].ord,
           NEW f
    PROVE  /\ Shape(r, e, n)
           /\ CameLast(f, q, e, n) => CameLast(f, r, e, n)
           /\ ComesNext(f, q, e, n) => ComesNext(f, r, e, n)
<1>1. n \in Nat /\ e \in Nat /\ 1 <= e /\ e <= n
  BY DEF Shape
<1>2. \A i \in 1 .. n : Base(r[i]) = Base(q[i])
  BY DEF Base
<1>3. Gops(r, e)
  <2>1. ASSUME NEW i \in 2 .. e
        PROVE LET b == Base(r[i]) - r[1].pic + 1
              IN /\ b \in 1 .. i - 1 /\ b + r[i].gop \in i .. e
                 /\ r[b].ord = 0 /\ r[b + r[i].gop].ord = 0
                 /\ \A j \in b + 1 .. b + r[i].gop - 1 : r[j].ord # 0
    <3> DEFINE b == Base(q[i]) - q[1].pic + 1
               g == q[i].gop
    <3>1. /\ b \in 1 .. i - 1 /\ b + g \in i .. e /\ q[b].ord = 0 /\ q[b + g].ord = 0
          /\ \A j \in b + 1 .. b + g - 1 : q[j].ord # 0
      BY DEF Shape, Whole, Gops
    <3>2. b = Base(r[i]) - r[1].pic + 1 /\ g = r[i].gop
      BY <1>1, <1>2
    <3>3. g \in Nat
      BY <1>1, FrameFields DEF Shape
    <3> HIDE DEF b, g
    <3>4. b \in 1 .. n /\ b + g \in 1 .. n /\ \A j \in b + 1 .. b + g - 1 : j \in 1 .. n
      BY <1>1, <3>1, <3>3
    <3>5. r[b].ord = 0 /\ r[b + g].ord = 0 /\ \A j \in b + 1 .. b + g - 1 : r[j].ord # 0
      BY <3>1, <3>4
    <3> QED
      BY <3>1, <3>2, <3>5
  <2> QED
    BY <2>1 DEF Gops
<1>4. 1 \in 1 .. n /\ e \in 1 .. n /\ \A i \in 1 .. e : i \in 1 .. n
  BY <1>1
<1>5. Whole(r, e)
  BY <1>3, <1>4 DEF Shape, Whole
<1>6. Begun(r, e, n)
  <2>1. n > e => n \in 1 .. n /\ \A i \in e + 1 .. n - 1 : i \in 1 .. n
    BY <1>1
  <2> QED
    BY <1>2, <1>4, <2>1 DEF Shape, Begun
<1>7. n \in 1 .. n
  BY <1>1
<1> QED
  BY <1>4, <1>5, <1>6, <1>7 DEF Shape, CameLast, ComesNext

-----------------------------------------------------------------------------
(* The frames on their way through the cuTree thread *)

\* The parameters for which the GOPs are always found in the queue.
Regular == "inner" \notin Faults /\ Depth >= 2 /\ Gop <= Depth + (Gop \div 2)

ThreadsInv == Pass1Inv /\ CuInv /\ EndInv /\ ControlInv

LEMMA ThreadsInit == Init => ThreadsInv
BY Pass1Init, CuInvInit, EndInvInit, ControlInit DEF ThreadsInv

LEMMA ThreadsNext ==
    ASSUME "inner" \notin Faults
    PROVE  ThreadsInv /\ [Next]_vars => ThreadsInv'
<1> SUFFICES ASSUME ThreadsInv, [Next]_vars PROVE ThreadsInv'
  OBVIOUS
<1>1. Pass1Inv' /\ CuInv' /\ EndInv'
  BY Pass1Next, CuInvNext, EndInvNext DEF ThreadsInv
<1>2. StopInv' /\ ParkInv' /\ EndingInv' /\ ErrorInv' /\ FlushInv' /\ SeenInv'
  BY StopNext, ParkNext, EndingNext, ErrorNext, FlushNext, SeenNext DEF ThreadsInv, ControlInv
<1> QED
  BY <1>1, <1>2 DEF ThreadsInv, ControlInv

\* The cuTree thread analyses the stream: no stop has taken its frames away, or one has.
Normal == ~ctStop /\ ctSaw # MainStop /\ cpc \notin CtOver
Late == ctStop /\ cpc \notin CtOver
Writing == cpc \in {"write", "roiSleep"}
\* No frame has come to it.
Empty == queue = <<>> /\ cpc # "handle"

FramesTyped == /\ ctJobs \in Seq(Frame) /\ \A i \in 1 .. Len(ctJobs) : IsPic(ctJobs[i])
               /\ IsPic(frame)
               /\ queue \in Seq(Frame) /\ \A i \in 1 .. Len(queue) : IsFrame(queue[i])
               /\ lastGopEnd \in Int /\ pops \in Nat
\* The frames come in encoding order, from the first to the last of pass 1.
Chain == /\ \A i \in 1 .. Len(ctJobs) - 1 : Follows(ctJobs[i], ctJobs[i + 1])
         /\ ctJobs # <<>> => /\ ~laFailed => ctJobs[Len(ctJobs)] = Newest
                             /\ IF Empty THEN ctJobs[1] = First ELSE Follows(frame, ctJobs[1])
         /\ ctJobs = <<>> /\ ~laFailed => IF Empty THEN Newest = BeforeFirst ELSE frame = Newest
\* The queue is in display order.  A frame that is not at its head has its job.
InQueue ==
    /\ queue = <<>> => /\ lastGopEnd = 0 /\ cpc # "process" /\ ~Writing
                       /\ cpc = "handle" => frame = First
    /\ queue # <<>> =>
           /\ Shape(queue, lastGopEnd, Len(queue))
           /\ IF cpc = "handle" THEN ComesNext(frame, queue, lastGopEnd, Len(queue))
              ELSE CameLast(frame, queue, lastGopEnd, Len(queue))
    /\ ~Writing => \A i \in 1 .. Len(queue) : i > 1 \/ queue[1].pic = 0 => ~queue[i].out
\* What is to be written has its job and leaves the queue afterwards, up to the anchor that
\* is the new head.
ToBeWritten ==
    /\ pops + 1 <= Len(queue) /\ todo \in Seq(Int)
    /\ \A x \in 1 .. Len(todo) : \E j \in 1 .. pops + 1 : queue[j].pic = todo[x] /\ ~queue[j].out
    /\ \A x, y \in 1 .. Len(todo) : x # y => todo[x] # todo[y]
    /\ Normal => /\ pops + 1 <= lastGopEnd /\ queue[pops + 1].ord = 0
                 /\ pops = 0 => back = "end"
                 /\ \A i \in pops + 2 .. Len(queue) : ~queue[i].out
\* After a stop at most one frame more comes.
LateFrame ==
    /\ Len(ctJobs) <= 1 /\ Len(queue) <= 1
    /\ ctJobs # <<>> \/ lpc \in InPass1 => queue = <<>> /\ cpc # "handle"
    /\ lpc \in InPass1 => ctJobs = <<>>
    /\ cpc = "handle" => queue = <<>>
    /\ Writing => pops = 0 /\ back = "end"
    /\ ~Writing => \A i \in 1 .. Len(queue) : ~queue[i].out

FramesInv == /\ FramesTyped
             /\ Normal => Chain /\ InQueue
             /\ Writing => ToBeWritten
             /\ Late => LateFrame

LEMMA FramesInit == Init => FramesInv
BY SizesAssumption
  DEF Init, FramesInv, FramesTyped, Normal, Late, Chain, Empty, InQueue, Writing, Newest,
   IsPic, IsFrame, Frame, First, BeforeFirst, Picture, Base, None

\* Nothing happens to the frames, and the cuTree thread stays in the same kind of place.
Resting == {"test", "locked", "jobSleep", "taken", "rest", "flush"}
CtSame == /\ UNCHANGED <<ctJobs, queue, lastGopEnd, frame, todo, pops, back>>
          /\ laFailed => laFailed'
          /\ laFailed' \/ Newest' = Newest
          /\ Late' => Late /\ (lpc' \in InPass1 => lpc \in InPass1)
          /\ Normal' => Normal
          /\ \/ cpc' = cpc
             \/ cpc = "roiSleep" /\ cpc' = "write"
             \/ cpc = "write" /\ cpc' = "roiSleep"
             \/ cpc \in Resting \cup {"process"} /\ cpc' \in Resting
             \/ cpc' \in CtOver

LEMMA FramesKept ==
    ASSUME FramesInv, CtSame
    PROVE  FramesInv'
<1>1. UNCHANGED <<ctJobs, queue, lastGopEnd, frame, todo, pops, back>>
  BY DEF CtSame
<1>2. FramesTyped'
  BY <1>1 DEF FramesInv, FramesTyped, IsPic, IsFrame
<1>3. ASSUME Normal' PROVE Chain' /\ InQueue'
  <2>1. Normal /\ Chain /\ InQueue
    BY <1>3 DEF CtSame, FramesInv
  <2>2. /\ (cpc' = "handle") = (cpc = "handle")
        /\ cpc' = "process" => cpc = "process"
        /\ Writing' = Writing
    BY <1>3 DEF CtSame, Resting, Writing, Normal, CtOver, Over
  <2>3. Empty' = Empty
    BY <1>1, <2>2 DEF Empty
  <2>4. (laFailed => laFailed') /\ (laFailed' \/ Newest' = Newest)
    BY DEF CtSame
  <2>5. Chain'
    BY <1>1, <2>1, <2>3, <2>4 DEF Chain, Follows, Base, Top, EndsGop, First, BeforeFirst
  <2>6. InQueue'
    BY <1>1, <2>1, <2>2
      DEF InQueue, Shape, Whole, Begun, Gops, ComesNext, CameLast, Base, Top, EndsGop,
       First, IsFrame
  <2> QED
    BY <2>5, <2>6
<1>4. ASSUME Writing' PROVE ToBeWritten'
  <2>1. Writing
    BY <1>4 DEF CtSame, Writing, Resting, CtOver, Over
  <2>2. ToBeWritten
    BY <2>1 DEF FramesInv
  <2> QED
    <3>1. Normal' => Normal
      BY DEF CtSame
    <3>2. todo' = todo /\ pops' = pops /\ queue' = queue /\ lastGopEnd' = lastGopEnd /\ back' = back
      BY <1>1
    <3> QED
      BY <2>2, <3>1, <3>2 DEF ToBeWritten
<1>5. ASSUME Late' PROVE LateFrame'
  <2>1. LateFrame /\ (lpc' \in InPass1 => lpc \in InPass1)
    BY <1>5 DEF CtSame, FramesInv
  <2>2. /\ cpc' = "handle" => cpc = "handle"
        /\ Writing' = Writing
    BY <1>5 DEF CtSame, Resting, Writing, Late, CtOver, Over
  <2> QED
    BY <1>1, <2>1, <2>2 DEF LateFrame
<1> QED
  BY <1>2, <1>3, <1>4, <1>5 DEF FramesInv

LEMMA NormalStays == StopInv /\ SeenInv /\ CuInv /\ Normal' /\ [Next]_vars => Normal
<1> SUFFICES ASSUME StopInv, SeenInv, CuInv, Normal', [Next]_vars PROVE Normal
  OBVIOUS
<1> USE WakesKeepPlace DEF StopInv, SeenInv, Normal, CtOver, Over, Ok, MainStop,
        LookaheadFlush, CutreeFlush, CutreeFlushEnd, LookaheadError, CutreeError, MainError
<1>1. CASE AddPictureToLookahead
  BY <1>1 DEF AddPictureToLookahead, ctVars, laVars, jobVars, feedVars
<1>2. CASE Flush
  BY <1>2 DEF Flush, ctVars, laVars, jobVars, feedVars
<1>3. CASE FlushNothing
  BY <1>3 DEF FlushNothing, ctVars, laVars, jobVars, feedVars
<1>4. CASE Release
  BY <1>4 DEF Release, MainElse, ctVars, laVars, jobVars, feedVars
<1>5. CASE GetLookaheadOutput
  BY <1>5 DEF GetLookaheadOutput, ctVars, laVars, jobVars, feedVars
<1>6. CASE EncodePass2
  BY <1>6 DEF EncodePass2, laVars, jobVars, feedVars
<1>7. CASE StopLookaheadThread
  BY <1>7 DEF StopLookaheadThread, MainElse, ctVars, jobVars, feedVars
<1>8. CASE StopCuTreeThread
  BY <1>8 DEF StopCuTreeThread, MainElse, laVars, jobVars, feedVars
<1>9. CASE TerminateLookaheadThread
  BY <1>9 DEF TerminateLookaheadThread, TerminatedStatus, MainElse, ctVars, jobVars, feedVars
<1>10. CASE TerminateCuTreeThread
  BY <1>10 DEF TerminateCuTreeThread, TerminatedStatus, MainElse, laVars, jobVars, feedVars
<1>11. CASE LookaheadLoop
  BY <1>11 DEF LookaheadLoop, LaElse, CtElse, jobVars
<1>12. CASE AwaitAnyJob
  BY <1>12 DEF AwaitAnyJob, ParkLookahead, ClearJobs, FindJob, Woken, LaElse, CtElse, jobVars
<1>13. CASE AwaitJob
  BY <1>13 DEF AwaitJob, ParkLookahead, ClearJobs, FindJob, Woken, LaElse, CtElse, jobVars
<1>14. CASE TakeJob
  BY <1>14 DEF TakeJob, LaElse, CtElse, jobVars
<1>15. CASE WaitCuInfoBuf
  BY <1>15 DEF WaitCuInfoBuf, LaElse, jobVars
<1>16. CASE EncodePass1
  BY <1>16 DEF EncodePass1, Enqueue, jobVars
<1>17. CASE AfterAddFrame
  BY <1>17 DEF AfterAddFrame, LaElse, CtElse, jobVars
<1>18. CASE EndLookahead
  BY <1>18 DEF EndLookahead, PassOneDone, Woken, LaElse, CtElse, jobVars
<1>19. CASE CuTreeLoop
  BY <1>19 DEF CuTreeLoop, CtKeeps, jobVars, feedVars
<1>20. CASE AwaitFrame
  BY <1>20 DEF AwaitFrame, Woken, CtKeeps, jobVars
<1>21. CASE TakeFrame
  BY <1>21 DEF TakeFrame, CtKeeps, jobVars
<1>22. CASE HandleInputFrame
  BY <1>22 DEF HandleInputFrame, Woken, CtKeeps, jobVars
<1>23. CASE Process
  BY <1>23 DEF Process, ProcessOneFrame, CtKeeps, jobVars, feedVars
<1>24. CASE WriteFrame
  BY <1>24 DEF WriteFrame, Enqueue, CtKeeps, jobVars, feedVars
<1>25. CASE RemoveFrames
  BY <1>25 DEF RemoveFrames, CtKeeps, jobVars, feedVars, CuInv
<1>26. CASE EndCuTree
  BY <1>26 DEF EndCuTree, RemovesFrame, Woken, CtKeeps, jobVars
<1>27. CASE UNCHANGED vars
  BY <1>27 DEF vars, mainVars, laVars, ctVars, jobVars, feedVars
<1> QED
  BY <1>1, <1>2, <1>3, <1>4, <1>5, <1>6, <1>7, <1>8, <1>9, <1>10, <1>11, <1>12, <1>13, <1>14,
     <1>15, <1>16,
     <1>17, <1>18, <1>19, <1>20, <1>21, <1>22, <1>23, <1>24, <1>25, <1>26, <1>27
     DEF Next, CallStep, LookaheadStep, CutreeStep

\* The steps of the application and most of the lookahead thread.
LEMMA FramesOthers ==
    ASSUME ThreadsInv, FramesInv, [Next]_vars, ~EncodePass1, ~CutreeStep
    PROVE  FramesInv'
<1>0. StopInv /\ SeenInv /\ CuInv /\ ParkInv /\ Pass1Inv
  BY DEF ThreadsInv, ControlInv
<1>1. Normal' => Normal
  BY <1>0, NormalStays
<1>2. UNCHANGED <<ctJobs, queue, lastGopEnd, frame, todo, pops, back, ctStop>>
  BY
    DEF Next, CallStep, LookaheadStep, AddPictureToLookahead, Flush, FlushNothing, Release,
        LookaheadLoop,
     AwaitAnyJob, AwaitJob, TakeJob, AfterAddFrame,
     WaitCuInfoBuf, EndLookahead, vars, GetLookaheadOutput, EncodePass2, StopLookaheadThread,
     StopCuTreeThread, TerminateLookaheadThread, TerminateCuTreeThread, MainElse, feedVars, laVars,
     ctVars, LaElse, CtElse
<1>3. \/ cpc' = cpc
      \/ cpc = "jobSleep" /\ cpc' = "locked"
      \/ cpc = "roiSleep" /\ cpc' = "write"
  BY WakesKeepPlace
    DEF Next, CallStep, LookaheadStep, AddPictureToLookahead, Flush, FlushNothing, Release,
     LookaheadLoop,
     AwaitAnyJob, AwaitJob, TakeJob, AfterAddFrame,
     WaitCuInfoBuf, EndLookahead, vars, GetLookaheadOutput, EncodePass2, StopLookaheadThread,
     StopCuTreeThread, TerminateLookaheadThread, TerminateCuTreeThread, laVars,
     ctVars, LaElse, CtElse
<1>4. (laFailed => laFailed') /\ (laFailed' \/ Newest' = Newest)
  <2>1. CASE AfterAddFrame
    BY <2>1 DEF AfterAddFrame, Newest
  <2>2. CASE TakeJob
    BY <2>2 DEF TakeJob, Newest
  <2>3. CASE ~AfterAddFrame /\ ~TakeJob
    <3>1. UNCHANGED <<last, want, laFailed>>
      BY <2>3
        DEF Next, CallStep, LookaheadStep, AddPictureToLookahead, Flush, FlushNothing, Release,
         LookaheadLoop,
         AwaitAnyJob, AwaitJob, WaitCuInfoBuf, EndLookahead, vars, GetLookaheadOutput, EncodePass2,
         StopLookaheadThread, StopCuTreeThread, TerminateLookaheadThread, TerminateCuTreeThread, laVars
    <3>2. (lpc' = "added") = (lpc = "added")
      BY <2>3, WakesKeepPlace
        DEF Next, CallStep, LookaheadStep, AddPictureToLookahead, Flush, FlushNothing,
         Release, LookaheadLoop,
         AwaitAnyJob, AwaitJob, WaitCuInfoBuf, EndLookahead, vars, GetLookaheadOutput, EncodePass2,
         StopLookaheadThread, StopCuTreeThread, TerminateLookaheadThread, TerminateCuTreeThread, laVars
    <3> QED
      BY <3>1, <3>2 DEF Newest
  <2> QED
    BY <2>1, <2>2, <2>3
<1>5. Late' => Late /\ (lpc' \in InPass1 => lpc \in InPass1)
  <2>1. ASSUME Late' PROVE Late
    BY <2>1, <1>2, <1>3 DEF Late, CtOver, Over
  <2>2. CASE TakeJob
    <3>1. ASSUME Late PROVE lpc' \notin InPass1
      BY <2>2, <1>0, <3>1 DEF TakeJob, InPass1, Late, ParkInv, LaOver
    <3> QED
      BY <2>1, <3>1
  <2>3. CASE ~TakeJob
    <3>1. lpc' \in InPass1 => lpc \in InPass1
      BY <2>3, WakesKeepPlace
        DEF Next, CallStep, LookaheadStep, AddPictureToLookahead, Flush, FlushNothing,
         Release, LookaheadLoop,
         AwaitAnyJob, AwaitJob, WaitCuInfoBuf, AfterAddFrame, EndLookahead, vars, GetLookaheadOutput, EncodePass2,
         StopLookaheadThread, StopCuTreeThread, TerminateLookaheadThread, TerminateCuTreeThread, laVars, InPass1
    <3> QED
      BY <2>1, <3>1
  <2> QED
    BY <2>2, <2>3
<1>6. CtSame
  BY <1>1, <1>2, <1>3, <1>4, <1>5 DEF CtSame, Resting
<1> QED
  BY <1>6, FramesKept

LEMMA FramesPass1 ==
    ASSUME ThreadsInv, FramesInv, [Next]_vars, EncodePass1
    PROVE  FramesInv'
<1>0. StopInv /\ SeenInv /\ CuInv /\ ParkInv /\ Pass1Inv
  BY DEF ThreadsInv, ControlInv
<1>1. Normal' => Normal
  BY <1>0, NormalStays
<1>2. /\ UNCHANGED <<queue, lastGopEnd, frame, todo, pops, back, ctStop, ctSaw, laFailed, last, want>>
      /\ lpc = "pass1" /\ lpc' \in {"added", "end"}
      /\ \/ lpc' = "added" /\ ctJobs' = Append(ctJobs, want)
         \/ lpc' = "end" /\ ctJobs' = ctJobs
      /\ cpc' = cpc \/ (cpc = "jobSleep" /\ cpc' = "locked")
  BY WakesKeepPlace DEF EncodePass1
<1>3. CASE lpc' = "end"
  <2>1. CtSame
    BY <1>1, <1>2, <1>3 DEF CtSame, Resting, Late, CtOver, Over, InPass1, Newest
  <2> QED
    BY <2>1, FramesKept
<1>4. CASE lpc' = "added"
  <2>1. ctJobs' = Append(ctJobs, want)
    BY <1>2, <1>4
  <2>2. ctJobs \in Seq(Frame) /\ want \in Frame /\ IsPic(want)
        /\ (\A i \in 1 .. Len(ctJobs) : IsPic(ctJobs[i])) /\ Len(ctJobs) \in Nat
    BY <1>0 DEF FramesInv, FramesTyped, Pass1Inv, LaTypes, IsPic, IsFrame
  <2>3. /\ ctJobs' \in Seq(Frame) /\ Len(ctJobs') = Len(ctJobs) + 1 /\ ctJobs' # <<>>
        /\ \A i \in 1 .. Len(ctJobs) : ctJobs'[i] = ctJobs[i]
        /\ ctJobs'[Len(ctJobs) + 1] = want
    BY <2>1, <2>2, AppendElements
  <2>4. \A i \in 1 .. Len(ctJobs') : IsPic(ctJobs'[i])
    BY <2>2, <2>3
  <2>5. FramesTyped'
    <3>1. (\A i \in 1 .. Len(ctJobs) : IsPic(ctJobs[i]))' /\ IsPic(frame)'
          /\ (\A i \in 1 .. Len(queue) : IsFrame(queue[i]))'
      BY <2>4, <1>2 DEF FramesInv, FramesTyped, IsPic, IsFrame, Base
    <3> QED
      BY <3>1, <2>3, <1>2 DEF FramesInv, FramesTyped
  <2>6. ASSUME Normal' PROVE Chain' /\ InQueue'
    <3>1. Normal /\ Chain /\ InQueue
      BY <1>1, <2>6 DEF FramesInv
    <3>2. Newest = last /\ Newest' = want /\ ~laFailed
      <4>1. ~laFailed
        BY <1>2 DEF ThreadsInv, ControlInv, ErrorInv, LaOver
      <4> QED
        BY <4>1, <1>2, <1>4 DEF Newest
    <3>3. /\ (cpc' = "handle") = (cpc = "handle") /\ (cpc' = "process") = (cpc = "process") /\ Writing' = Writing
      BY <1>2 DEF Writing
    <3>4. Empty' = Empty
      BY <1>2, <3>3 DEF Empty
    <3>5. InQueue'
      BY <1>2, <3>1, <3>3
        DEF InQueue, Shape, Whole, Begun, Gops, ComesNext, CameLast, Base, Top, EndsGop,
         First, IsFrame
    <3>6. Follows(last, want) /\ (last = BeforeFirst => want = First)
      BY <1>0 DEF Pass1Inv, Plan
    <3>7. \A i \in 1 .. Len(ctJobs') - 1 : Follows(ctJobs'[i], ctJobs'[i + 1])
      <4>1. ASSUME NEW i \in 1 .. Len(ctJobs') - 1 PROVE Follows(ctJobs'[i], ctJobs'[i + 1])
        <5>1. CASE i = Len(ctJobs)
          <6>1. ctJobs[i] = last
            BY <2>2, <3>1, <3>2, <4>1, <5>1 DEF Chain
          <6> QED
            BY <2>2, <2>3, <3>6, <4>1, <5>1, <6>1
        <5>2. CASE i # Len(ctJobs)
          <6>1. i \in 1 .. Len(ctJobs) - 1 /\ i \in 1 .. Len(ctJobs) /\ i + 1 \in 1 .. Len(ctJobs)
            BY <2>2, <2>3, <4>1, <5>2
          <6> QED
            BY <2>3, <3>1, <6>1 DEF Chain
        <5> QED
          BY <5>1, <5>2
      <4> QED
        BY <4>1
    <3>8. IF Empty THEN ctJobs'[1] = First ELSE Follows(frame, ctJobs'[1])
      <4>1. CASE ctJobs = <<>>
        BY <2>3, <3>1, <3>2, <3>6, <4>1 DEF Chain
      <4>2. CASE ctJobs # <<>>
        <5>1. 1 \in 1 .. Len(ctJobs)
          BY <2>2, <4>2
        <5> QED
          BY <2>3, <3>1, <4>2, <5>1 DEF Chain
      <4> QED
        BY <4>1, <4>2
    <3>9. Follows(frame, ctJobs'[1]) = Follows(frame, ctJobs[1])' /\ First' = First
      BY <1>2 DEF Follows, Base, Top, EndsGop, First, Picture
    <3>10. (\A i \in 1 .. Len(ctJobs) - 1 : Follows(ctJobs[i], ctJobs[i + 1]))'
      BY <3>7 DEF Follows, Base, Top, EndsGop
    <3>11. (ctJobs[Len(ctJobs)])' = want
      BY <2>3
    <3> QED
      BY <2>3, <3>2, <3>4, <3>5, <3>8, <3>9, <3>10, <3>11 DEF Chain
  <2>7. ASSUME Writing' PROVE ToBeWritten'
    <3>1. Writing /\ ToBeWritten
      BY <2>7, <1>2 DEF Writing, FramesInv
    <3> QED
      BY <3>1, <1>1, <1>2 DEF ToBeWritten
  <2>8. ASSUME Late' PROVE LateFrame'
    <3>1. Late /\ LateFrame
      BY <2>8, <1>2 DEF Late, FramesInv, CtOver, Over
    <3>2. ctJobs = <<>> /\ queue = <<>> /\ cpc # "handle"
      BY <3>1, <1>2 DEF LateFrame, InPass1
    <3>3. Len(ctJobs') = 1
      BY <2>3, <3>2
    <3>4. cpc' # "handle" /\ lpc' \notin InPass1 /\ Writing' = Writing
      BY <1>2, <1>4, <3>2 DEF InPass1, Writing
    <3> QED
      BY <3>1, <3>2, <3>3, <3>4, <1>2 DEF LateFrame
  <2> QED
    BY <2>5, <2>6, <2>7, <2>8 DEF FramesInv
<1> QED
  BY <1>2, <1>3, <1>4

LEMMA EmptyQueue == /\ <<>> \in Seq(Frame) /\ Len(<<>>) = 0
                    /\ \A s \in Seq(Frame) : (s = <<>>) = (Len(s) = 0)
  OBVIOUS

LEMMA FramesAwait ==
    ASSUME ThreadsInv, FramesInv, [Next]_vars, CuTreeLoop \/ AwaitFrame
    PROVE  FramesInv'
<1>0. StopInv /\ SeenInv /\ CuInv /\ ParkInv /\ Pass1Inv
  BY DEF ThreadsInv, ControlInv
<1>1. Normal' => Normal
  BY <1>0, NormalStays
<1>2. UNCHANGED <<frame, todo, pops, back, laFailed, last, want, lpc>>
  BY DEF CuTreeLoop, AwaitFrame, CtKeeps
<1>3. Newest' = Newest
  BY <1>2 DEF Newest
<1>4. CASE UNCHANGED <<ctJobs, queue, lastGopEnd, ctStop>>
  <2>1. \/ cpc \in Resting /\ cpc' \in Resting
        \/ cpc' \in CtOver
    BY DEF CuTreeLoop, AwaitFrame, Resting, CtOver
  <2>2. CtSame
    BY <1>1, <1>2, <1>3, <1>4, <2>1 DEF CtSame, Late, Resting, CtOver, Over
  <2> QED
    BY <2>2, FramesKept
<1>5. CASE ~UNCHANGED <<ctJobs, queue, lastGopEnd, ctStop>>
  <2>1. ctJobs' = <<>> /\ queue' = <<>> /\ lastGopEnd' = 0 /\ ctStop' = TRUE /\ cpc' = "jobSleep"
    BY <1>5 DEF CuTreeLoop, AwaitFrame, feedVars, ctVars
  <2>2. FramesTyped'
    <3>1. (\A i \in 1 .. Len(ctJobs) : IsPic(ctJobs[i]))' /\ (\A i \in 1 .. Len(queue) : IsFrame(queue[i]))'
      BY <2>1, EmptyQueue
    <3>2. IsPic(frame)' /\ pops' \in Nat
      BY <1>2 DEF FramesInv, FramesTyped, IsPic, IsFrame, Base
    <3> QED
      BY <2>1, <3>1, <3>2, EmptyQueue DEF FramesTyped
  <2>3. ~Normal' /\ ~Writing'
    BY <2>1 DEF Normal, Writing
  <2>4. LateFrame'
    BY <2>1, <2>3, EmptyQueue DEF LateFrame
  <2> QED
    BY <2>2, <2>3, <2>4 DEF FramesInv
<1> QED
  BY <1>4, <1>5

LEMMA FramesTaken ==
    ASSUME ThreadsInv, FramesInv, [Next]_vars, TakeFrame
    PROVE  FramesInv'
<1>0. StopInv /\ SeenInv /\ CuInv /\ ParkInv /\ Pass1Inv
  BY DEF ThreadsInv, ControlInv
<1>1. Normal' => Normal
  BY <1>0, NormalStays
<1>2. /\ UNCHANGED <<queue, lastGopEnd, todo, pops, back, laFailed, last, want, lpc, ctStop>>
      /\ cpc = "taken" /\ ctJobs' = Tail(ctJobs)
      /\ \/ cpc' = "test" /\ ctSaw' = MainStop /\ frame' = frame
         \/ cpc' = "handle" /\ frame' = Head(ctJobs)
  BY DEF TakeFrame, CtKeeps, Ok, MainStop
<1>3. Newest' = Newest
  BY <1>2 DEF Newest
<1>4. ctJobs # <<>>
  <2>1. cpc = "taken" => Len(ctJobs) >= 1
    BY <1>0 DEF CuInv, Fits
  <2> QED
    BY <1>2, <2>1, EmptyQueue
<1>5. ctJobs \in Seq(Frame) /\ (\A i \in 1 .. Len(ctJobs) : IsPic(ctJobs[i])) /\ Len(ctJobs) \in Nat
  BY DEF FramesInv, FramesTyped
<1>6. /\ ctJobs' \in Seq(Frame) /\ Len(ctJobs') = Len(ctJobs) - 1 /\ Len(ctJobs) \in Nat \ {0}
      /\ \A i \in 1 .. Len(ctJobs) - 1 : ctJobs'[i] = ctJobs[i + 1]
      /\ Head(ctJobs) = ctJobs[1]
  BY <1>2, <1>4, <1>5, TailElements
<1>7. FramesTyped'
  <2>1. (\A i \in 1 .. Len(ctJobs) : IsPic(ctJobs[i]))'
    <3>1. ASSUME NEW i \in 1 .. Len(ctJobs') PROVE IsPic(ctJobs'[i])
      <4>1. i + 1 \in 1 .. Len(ctJobs) /\ ctJobs'[i] = ctJobs[i + 1]
        BY <1>6, <3>1
      <4> QED
        BY <1>5, <4>1
    <3> QED
      BY <3>1
  <2>2. IsPic(frame')
    BY <1>2, <1>5, <1>6 DEF FramesInv, FramesTyped
  <2> QED
    BY <1>2, <1>6, <2>1, <2>2 DEF FramesInv, FramesTyped
<1>8. ASSUME Normal' PROVE Chain' /\ InQueue'
  <2>1. Normal /\ Chain /\ InQueue
    BY <1>1, <1>8 DEF FramesInv
  <2>2. cpc' = "handle" /\ frame' = ctJobs[1]
    BY <1>2, <1>6, <1>8 DEF Normal
  <2>3. \A i \in 1 .. Len(ctJobs') - 1 : Follows(ctJobs'[i], ctJobs'[i + 1])
    <3>1. ASSUME NEW i \in 1 .. Len(ctJobs') - 1 PROVE Follows(ctJobs'[i], ctJobs'[i + 1])
      <4>1. i + 1 \in 1 .. Len(ctJobs) - 1 /\ ctJobs'[i] = ctJobs[i + 1] /\ ctJobs'[i + 1] = ctJobs[i + 2]
            /\ (i + 1) + 1 = i + 2
        BY <1>6, <3>1
      <4>2. Follows(ctJobs[i + 1], ctJobs[(i + 1) + 1])
        BY <2>1, <4>1 DEF Chain
      <4> QED
        BY <4>1, <4>2
    <3> QED
      BY <3>1
  <2>4. (\A i \in 1 .. Len(ctJobs) - 1 : Follows(ctJobs[i], ctJobs[i + 1]))'
    BY <2>3 DEF Follows, Base, Top, EndsGop
  <2>5. ASSUME ctJobs' = <<>> PROVE Chain'
    <3>1. Len(ctJobs) = 1
      BY <1>6, <2>5, EmptyQueue
    <3>2. ~laFailed => ctJobs[1] = Newest
      BY <1>4, <2>1, <3>1 DEF Chain
    <3> QED
      <4>1. (ctJobs = <<>>)' /\ (~laFailed => frame = Newest)'
        BY <1>2, <1>3, <2>2, <2>5, <3>2
      <4> QED
        BY <2>2, <2>4, <4>1 DEF Chain, Empty
  <2>6. ASSUME ctJobs' # <<>> PROVE Chain'
    <3>1. Len(ctJobs) - 1 \in 1 .. Len(ctJobs) - 1 /\ 1 \in 1 .. Len(ctJobs) - 1
      BY <1>6, <2>6, EmptyQueue
    <3>2. ctJobs'[Len(ctJobs')] = ctJobs[Len(ctJobs)]
      <4>1. ctJobs'[Len(ctJobs) - 1] = ctJobs[(Len(ctJobs) - 1) + 1]
        BY <1>6, <3>1
      <4>2. (Len(ctJobs) - 1) + 1 = Len(ctJobs)
        BY <1>6
      <4> QED
        BY <1>6, <4>1, <4>2
    <3>3. Follows(frame', ctJobs'[1])
      <4>1. ctJobs'[1] = ctJobs[1 + 1] /\ Follows(ctJobs[1], ctJobs[1 + 1])
        BY <1>6, <2>1, <3>1 DEF Chain
      <4> QED
        BY <2>2, <4>1
    <3>4. ~laFailed => ctJobs'[Len(ctJobs')] = Newest
      BY <1>4, <2>1, <3>2 DEF Chain
    <3>5. Follows(frame, ctJobs[1])'
      BY <3>3 DEF Follows, Base, Top, EndsGop
    <3>6. (ctJobs[Len(ctJobs)])' = ctJobs'[Len(ctJobs')]
      OBVIOUS
    <3>7. (~laFailed => ctJobs[Len(ctJobs)] = Newest)'
      BY <1>2, <1>3, <3>4, <3>6
    <3>8. (ctJobs # <<>>)'
      BY <2>6
    <3> QED
      BY <2>2, <2>4, <3>5, <3>7, <3>8 DEF Chain, Empty
  <2>7. InQueue'
    <3>1. ~Writing' /\ ~Writing /\ cpc # "handle" /\ cpc' # "process"
      BY <1>2, <2>2 DEF Writing
    <3>2. queue = <<>> => ctJobs[1] = First
      BY <1>2, <1>4, <2>1 DEF Chain, Empty
    <3>3. ASSUME queue # <<>> PROVE ComesNext(ctJobs[1], queue, lastGopEnd, Len(queue))
      <4>1. Shape(queue, lastGopEnd, Len(queue)) /\ CameLast(frame, queue, lastGopEnd, Len(queue))
        BY <2>1, <3>1, <3>3 DEF InQueue
      <4>2. Follows(frame, ctJobs[1])
        BY <1>4, <2>1, <3>3 DEF Chain, Empty
      <4>3. IsFrame(frame) /\ IsFrame(ctJobs[1])
        BY <1>4, <1>5, <1>6 DEF FramesInv, FramesTyped, IsPic
      <4> QED
        BY <4>1, <4>2, <4>3, NextComes
    <3>4. queue # <<>> => /\ Shape(queue, lastGopEnd, Len(queue))'
                          /\ ComesNext(frame, queue, lastGopEnd, Len(queue))'
      <4>1. queue # <<>> => Shape(queue, lastGopEnd, Len(queue))
        BY <2>1 DEF InQueue
      <4> QED
        BY <1>2, <2>2, <3>3, <4>1 DEF Shape, Whole, Begun, Gops, ComesNext, Base, IsFrame
    <3>5. \A i \in 1 .. Len(queue) : i > 1 \/ queue[1].pic = 0 => ~queue[i].out
      BY <2>1, <3>1 DEF InQueue
    <3>6. queue = <<>> => lastGopEnd = 0
      BY <2>1 DEF InQueue
    <3> QED
      BY <1>2, <2>2, <3>1, <3>2, <3>4, <3>5, <3>6 DEF InQueue, First
  <2> QED
    BY <2>5, <2>6, <2>7
<1>9. ~Writing'
  BY <1>2 DEF Writing
<1>10. ASSUME Late' PROVE LateFrame'
  <2>1. Late /\ LateFrame
    BY <1>2, <1>10 DEF Late, FramesInv, CtOver, Over
  <2>2. Len(ctJobs) = 1 /\ queue = <<>> /\ lpc \notin InPass1
    BY <1>4, <1>6, <2>1 DEF LateFrame
  <2>3. ctJobs' = <<>>
    BY <1>6, <2>2, EmptyQueue
  <2> QED
    <3>1. cpc' = "handle" \/ cpc' = "test"
      BY <1>2
    <3>2. queue' = <<>> /\ Len(queue') = 0 /\ Len(ctJobs') = 0 /\ lpc' \notin InPass1
      BY <1>2, <2>2, <2>3, EmptyQueue
    <3> QED
      BY <1>9, <2>3, <3>1, <3>2 DEF LateFrame
<1> QED
  BY <1>7, <1>8, <1>9, <1>10 DEF FramesInv

LEMMA FramesEnd ==
    ASSUME ThreadsInv, FramesInv, [Next]_vars, EndCuTree
    PROVE  FramesInv'
<1>1. /\ UNCHANGED <<frame, pops>>
      /\ ctJobs' = <<>> \/ ctJobs' = ctJobs
      /\ \/ queue' = <<>> /\ lastGopEnd' = lastGopEnd - Len(queue)
         \/ queue' = queue /\ lastGopEnd' = lastGopEnd
      /\ cpc' \in CtOver
  BY DEF EndCuTree, CtOver, Over
<1>2. FramesTyped'
  <2>1. ctJobs \in Seq(Frame) /\ queue \in Seq(Frame) /\ Len(queue) \in Nat
    BY DEF FramesInv, FramesTyped
  <2>2. lastGopEnd' \in Int /\ pops' \in Nat /\ IsPic(frame')
    BY <1>1, <2>1 DEF FramesInv, FramesTyped
  <2>3. ctJobs' \in Seq(Frame) /\ \A i \in 1 .. Len(ctJobs') : IsPic(ctJobs'[i])
    <3>1. CASE ctJobs' = <<>>
      BY <3>1, EmptyQueue
    <3>2. CASE ctJobs' = ctJobs
      BY <3>2 DEF FramesInv, FramesTyped
    <3> QED
      BY <1>1, <3>1, <3>2
  <2>4. queue' \in Seq(Frame) /\ \A i \in 1 .. Len(queue') : IsFrame(queue'[i])
    <3>1. CASE queue' = <<>>
      BY <3>1, EmptyQueue
    <3>2. CASE queue' = queue
      BY <3>2 DEF FramesInv, FramesTyped
    <3> QED
      BY <1>1, <3>1, <3>2
  <2> QED
    BY <2>2, <2>3, <2>4 DEF FramesTyped
<1>3. ~Normal' /\ ~Late' /\ ~Writing'
  BY <1>1 DEF Normal, Late, Writing, CtOver, Over
<1> QED
  BY <1>2, <1>3 DEF FramesInv

\* The first frame of all finds an empty queue.
LEMMA InsertFirst ==
    ASSUME NEW f, f \in Frame
    PROVE  /\ Insert(<<>>, f) \in Seq(Frame) /\ Len(Insert(<<>>, f)) = 1
           /\ Insert(<<>>, f)[1] = f
<1>1. Max({0} \cup {i \in DOMAIN <<>> : <<>>[i].pic <= f.pic}) = 0
  <2>1. {i \in DOMAIN <<>> : <<>>[i].pic <= f.pic} = {}
    OBVIOUS
  <2>2. \A x \in {0} \cup {} : (\A y \in {0} \cup {} : x >= y) => x = 0
    OBVIOUS
  <2>3. 0 \in {0} \cup {} /\ \A y \in {0} \cup {} : 0 >= y
    OBVIOUS
  <2> QED
    BY <2>1, <2>2, <2>3 DEF Max
<1>2. Insert(<<>>, f) = InsertAt(<<>>, 1, f)
  BY <1>1 DEF Insert
<1>3. ASSUME NEW s \in Seq(Frame), Len(s) = 0
      PROVE  InsertAt(s, 1, f) \in Seq(Frame) /\ Len(InsertAt(s, 1, f)) = 1 /\ InsertAt(s, 1, f)[1] = f
  <2>1. 1 \in 1 .. Len(s) + 1
    BY <1>3
  <2>2. /\ InsertAt(s, 1, f) \in Seq(Frame) /\ Len(InsertAt(s, 1, f)) = Len(s) + 1
        /\ InsertAt(s, 1, f)[1] = f
    BY <2>1, InsertElements
  <2> QED
    BY <1>3, <2>2
<1>4. InsertAt(<<>>, 1, f) \in Seq(Frame) /\ Len(InsertAt(<<>>, 1, f)) = 1 /\ InsertAt(<<>>, 1, f)[1] = f
  BY <1>3, EmptyQueue
<1> QED
  BY <1>2, <1>4

LEMMA ChainKept ==
    ASSUME Chain, UNCHANGED <<ctJobs, frame, laFailed>>, Newest' = Newest, Empty' <=> Empty
    PROVE  Chain'
BY DEF Chain, Follows, Base, Top, EndsGop, First, BeforeFirst

LEMMA FramesHandled ==
    ASSUME ThreadsInv, FramesInv, [Next]_vars, HandleInputFrame
    PROVE  FramesInv'
<1>0. StopInv /\ SeenInv /\ CuInv /\ ParkInv /\ Pass1Inv
  BY DEF ThreadsInv, ControlInv
<1>1. Normal' => Normal
  BY <1>0, NormalStays
<1>2. /\ UNCHANGED <<ctJobs, frame, todo, pops, back, laFailed, last, want, ctStop, ctSaw>>
      /\ lpc' = lpc \/ (lpc = "cuInfoSleep" /\ lpc' = "cuInfo")
      /\ cpc = "handle" /\ cpc' = "process" /\ queue' = Insert(queue, frame)
      /\ lastGopEnd' = IF EndsGop(frame) THEN Len(queue) + 1 ELSE lastGopEnd
  BY DEF HandleInputFrame, CtKeeps, Woken
<1>3. Newest' = Newest
  BY <1>2 DEF Newest
<1>4. queue \in Seq(Frame) /\ (\A i \in 1 .. Len(queue) : IsFrame(queue[i])) /\ Len(queue) \in Nat
      /\ IsPic(frame) /\ IsFrame(frame) /\ frame \in Frame /\ ~frame.out /\ lastGopEnd \in Int
  BY DEF FramesInv, FramesTyped, IsPic, IsFrame
<1>5. Normal \/ Late
  BY <1>0, <1>2 DEF Normal, Late, SeenInv, CtOver, Over
<1>6. lastGopEnd' \in Int
  BY <1>2, <1>4
<1>7. CASE queue = <<>>
  <2>1. queue' \in Seq(Frame) /\ Len(queue') = 1 /\ queue'[1] = frame
    BY <1>2, <1>4, <1>7, InsertFirst
  <2>2. \A i \in 1 .. Len(queue') : i = 1
    BY <2>1
  <2>3. FramesTyped'
    <3>1. (\A i \in 1 .. Len(queue) : IsFrame(queue[i]))'
      BY <1>4, <2>1, <2>2
    <3>2. IsPic(frame)' /\ (ctJobs \in Seq(Frame) /\ \A i \in 1 .. Len(ctJobs) : IsPic(ctJobs[i]))' /\ pops' \in Nat
      BY <1>2 DEF FramesInv, FramesTyped
    <3> QED
      BY <1>6, <2>1, <3>1, <3>2 DEF FramesTyped
  <2>4. ASSUME Normal' PROVE Chain' /\ InQueue'
    <3>1. Normal /\ Chain /\ frame = First /\ lastGopEnd = 0
      BY <1>1, <1>2, <1>7, <2>4 DEF FramesInv, InQueue
    <3>2. frame.pic = 0 /\ frame.ord = 0 /\ frame.gop = 1 /\ Base(frame) = -1 /\ Top(frame) = 0 /\ EndsGop(frame)
      BY <3>1 DEF First, Picture, Base, Top, EndsGop
    <3>3. lastGopEnd' = 1
      BY <1>2, <1>7, <3>2, EmptyQueue
    <3>4. queue' # <<>>
      <4> SUFFICES ASSUME queue' = <<>> PROVE FALSE
        OBVIOUS
      <4> QED
        BY <2>1, EmptyQueue
    <3>5. Shape(queue', 1, 1)
      BY <1>4, <2>1, <3>2 DEF Shape, Whole, Gops, Begun
    <3>6. CameLast(frame, queue', 1, 1)
      BY <2>1, <3>2 DEF CameLast
    <3>7. \A i \in 1 .. Len(queue') : ~queue'[i].out
      BY <1>4, <2>1, <2>2
    <3>8. Shape(queue, lastGopEnd, Len(queue))' /\ CameLast(frame, queue, lastGopEnd, Len(queue))'
      BY <1>2, <2>1, <3>3, <3>5, <3>6
    <3>9. InQueue'
      BY <1>2, <3>4, <3>7, <3>8 DEF InQueue
    <3>10. ~Empty' /\ ~Empty
      BY <1>2, <3>4 DEF Empty
    <3>11. Chain'
      BY <1>2, <1>3, <3>1, <3>10, ChainKept
    <3> QED
      BY <3>9, <3>11
  <2>5. ASSUME Late' PROVE LateFrame'
    <3>1. LateFrame
      BY <1>2, <2>5 DEF Late, FramesInv, CtOver, Over
    <3>2. ctJobs = <<>> /\ lpc \notin InPass1 /\ lpc' \notin InPass1 /\ Len(ctJobs) <= 1
      BY <1>2, <3>1 DEF LateFrame, InPass1
    <3>3. \A i \in 1 .. Len(queue') : ~queue'[i].out
      BY <1>4, <2>1, <2>2
    <3> QED
      BY <1>2, <2>1, <3>2, <3>3 DEF LateFrame, Writing
  <2>6. ~Writing'
    BY <1>2 DEF Writing
  <2> QED
    BY <2>3, <2>4, <2>5, <2>6 DEF FramesInv
<1>8. CASE queue # <<>>
  <2>1. Normal /\ ~Late /\ ~Late'
    BY <1>2, <1>5, <1>8 DEF Late, Normal, FramesInv, LateFrame
  <2>2. Chain /\ InQueue
    BY <2>1 DEF FramesInv
  <2> DEFINE k == IF Len(queue) = lastGopEnd THEN Len(queue) + 1 ELSE Len(queue)
  <2>3. Shape(queue, lastGopEnd, Len(queue)) /\ ComesNext(frame, queue, lastGopEnd, Len(queue))
    BY <1>2, <1>8, <2>2 DEF InQueue
  <2>4. lastGopEnd \in 1 .. Len(queue) /\ Len(queue) \in Nat \ {0} /\ k \in 2 .. Len(queue) + 1
    BY <2>3, <1>4 DEF Shape
  <2>5. queue' = InsertAt(queue, k, frame)
    BY <1>2, <1>4, <2>3, InsertPlace
  <2>6. /\ queue' \in Seq(Frame) /\ Len(queue') = Len(queue) + 1
        /\ \A i \in 1 .. k - 1 : queue'[i] = queue[i]
        /\ queue'[k] = frame
        /\ \A i \in k + 1 .. Len(queue) + 1 : queue'[i] = queue[i - 1]
    <3>1. k \in 1 .. Len(queue) + 1
      BY <2>4
    <3> HIDE DEF k
    <3>2. queue \in Seq(Frame) /\ frame \in Frame
      BY <1>4
    <3>3. LET r == InsertAt(queue, k, frame)
          IN /\ r \in Seq(Frame) /\ Len(r) = Len(queue) + 1
             /\ \A i \in 1 .. k - 1 : r[i] = queue[i]
             /\ r[k] = frame
             /\ \A i \in k + 1 .. Len(queue) + 1 : r[i] = queue[i - 1]
      BY <3>1, <3>2, InsertElements
    <3> QED
      BY <2>5, <3>3
  <2>7. /\ Shape(queue', lastGopEnd', Len(queue) + 1)
        /\ CameLast(frame, queue', lastGopEnd', Len(queue) + 1)
    <3>1. \A i \in 1 .. (IF Len(queue) = lastGopEnd THEN Len(queue) ELSE Len(queue) - 1) : queue'[i] = queue[i]
      BY <2>4, <2>6
    <3>2. queue'[IF Len(queue) = lastGopEnd THEN Len(queue) + 1 ELSE Len(queue)] = frame
      BY <2>6
    <3>3. Len(queue) > lastGopEnd => queue'[Len(queue) + 1] = queue[Len(queue)]
      BY <2>4, <2>6
    <3>4. LET d == IF EndsGop(frame) THEN Len(queue) + 1 ELSE lastGopEnd
          IN Shape(queue', d, Len(queue) + 1) /\ CameLast(frame, queue', d, Len(queue) + 1)
      BY <1>4, <2>3, <3>1, <3>2, <3>3, Inserted
    <3> QED
      BY <1>2, <3>4
  <2>8. FramesTyped'
    <3>1. (\A i \in 1 .. Len(queue) : IsFrame(queue[i]))'
      BY <2>6, <2>7 DEF Shape
    <3>2. IsPic(frame)' /\ (ctJobs \in Seq(Frame) /\ \A i \in 1 .. Len(ctJobs) : IsPic(ctJobs[i]))' /\ pops' \in Nat
      BY <1>2 DEF FramesInv, FramesTyped
    <3> QED
      BY <1>6, <2>6, <3>1, <3>2 DEF FramesTyped
  <2>9. (\A i \in 1 .. Len(queue) : i > 1 \/ queue[1].pic = 0 => ~queue[i].out)'
    <3>1. \A i \in 1 .. Len(queue) : i > 1 \/ queue[1].pic = 0 => ~queue[i].out
      BY <1>2, <2>2 DEF InQueue, Writing
    <3> HIDE DEF k
    <3>2. queue'[1] = queue[1]
      BY <2>4, <2>6
    <3>3. ASSUME NEW i \in 1 .. Len(queue'), i > 1 \/ queue'[1].pic = 0 PROVE ~queue'[i].out
      <4>1. CASE i < k
        <5>1. i \in 1 .. Len(queue) /\ queue'[i] = queue[i]
          BY <2>4, <2>6, <3>3, <4>1
        <5> QED
          BY <3>1, <3>2, <3>3, <5>1
      <4>2. CASE i = k
        BY <1>4, <2>6, <4>2
      <4>3. CASE i > k
        <5>1. i - 1 \in 1 .. Len(queue) /\ i - 1 > 1 /\ queue'[i] = queue[i - 1]
          BY <2>4, <2>6, <3>3, <4>3
        <5> QED
          BY <3>1, <5>1
      <4> QED
        BY <2>4, <2>6, <4>1, <4>2, <4>3
    <3> QED
      BY <3>3
  <2>10. queue' # <<>>
    BY <2>4, <2>6, EmptyQueue
  <2>11. Shape(queue, lastGopEnd, Len(queue))' /\ CameLast(frame, queue, lastGopEnd, Len(queue))'
    BY <1>2, <2>6, <2>7
  <2>12. InQueue'
    BY <1>2, <2>9, <2>10, <2>11 DEF InQueue
  <2>13. Empty' <=> Empty
    BY <1>2, <2>10 DEF Empty
  <2>14. Chain'
    <3>1. UNCHANGED <<ctJobs, frame, laFailed>>
      BY <1>2
    <3> QED
      BY <1>3, <2>2, <2>13, <3>1, ChainKept
  <2>15. ~Writing'
    BY <1>2 DEF Writing
  <2> QED
    BY <2>1, <2>8, <2>12, <2>14, <2>15 DEF FramesInv
<1> QED
  BY <1>7, <1>8

\* The GOP behind the head: its own anchor is the next one, before it lie its other frames in
\* encoding order.
LEMMA FirstGop ==
    ASSUME NEW q, NEW e, NEW n, Shape(q, e, n), e >= 2, NEW p, p = q[2].gop
    PROVE  /\ p \in Nat \ {0} /\ p + 1 <= e /\ q[p + 1].ord = 0 /\ Base(q[p + 1]) = q[1].pic
           /\ \A j \in 2 .. p : q[j].ord = j - 1 /\ Base(q[j]) = q[1].pic
<1>1. n \in Nat /\ e \in Nat /\ 2 <= e /\ e <= n /\ q[1].ord = 0 /\ q[1].pic \in Int
  BY QueuePics DEF Shape, Whole
<1>2. \A i \in 1 .. n : IsFrame(q[i])
  BY DEF Shape
<1>3. p \in Nat /\ p > 0
  BY <1>1, <1>2, FrameFields
<1>4. \A i \in 2 .. e : LET b == Base(q[i]) - q[1].pic + 1
                        IN /\ b \in 1 .. i - 1 /\ b + q[i].gop \in i .. e
                           /\ q[b].ord = 0 /\ q[b + q[i].gop].ord = 0
                           /\ \A j \in b + 1 .. b + q[i].gop - 1 : q[j].ord # 0
  BY DEF Shape, Whole, Gops
<1>5. /\ 1 + p \in 2 .. e /\ q[1 + p].ord = 0
      /\ \A j \in 2 .. p : q[j].ord # 0
  <2> DEFINE b == Base(q[2]) - q[1].pic + 1
  <2>1. /\ b \in 1 .. 2 - 1 /\ b + p \in 2 .. e
        /\ q[b + p].ord = 0
        /\ \A j \in b + 1 .. b + p - 1 : q[j].ord # 0
    BY <1>1, <1>4
  <2>2. b = 1
    BY <2>1
  <2> HIDE DEF b
  <2> QED
    BY <1>3, <2>1, <2>2
<1>6. ASSUME NEW j \in 2 .. p + 1 PROVE Base(q[j]) = q[1].pic
  <2> DEFINE b == Base(q[j]) - q[1].pic + 1
  <2>1. j \in 2 .. e /\ j \in 1 .. n
    BY <1>1, <1>3, <1>5
  <2>2. b \in 1 .. j - 1 /\ q[b].ord = 0
    BY <1>4, <2>1
  <2>3. b \notin 2 .. p
    BY <1>5, <2>2
  <2>4. b = 1
    BY <1>3, <2>2, <2>3
  <2>5. Base(q[j]) \in Int
    BY <1>2, <2>1, FrameFields
  <2> QED
    BY <1>1, <2>4, <2>5
<1>7. ASSUME NEW j \in 2 .. p PROVE q[j].ord = j - 1
  <2>1. j \in 1 .. n /\ j \in 1 .. e /\ j \in 2 .. p + 1
    BY <1>1, <1>3, <1>5
  <2>2. q[j].ord # 0 /\ Base(q[j]) = q[1].pic /\ q[j].pic = q[1].pic + j - 1
    BY <1>5, <1>6, <2>1 DEF Shape, Whole
  <2>3. q[j].pic = Base(q[j]) + q[j].ord /\ q[j].ord \in Nat
    BY <1>2, <2>1, <2>2, FrameFields
  <2> QED
    BY <1>1, <2>2, <2>3
<1>8. p + 1 \in 2 .. p + 1 /\ 1 + p = p + 1 /\ \A j \in 2 .. p : j \in 2 .. p + 1
  BY <1>3
<1> QED
  BY <1>3, <1>5, <1>6, <1>7, <1>8

\* The place in the queue of the frame that is written n-th of a GOP of p.
Spot(p, n) == IF n = 1 THEN p + 1 ELSE n

LEMMA FunctionIsSeq ==
    ASSUME NEW S, NEW n \in Nat, NEW f \in [1 .. n -> S]
    PROVE  f \in Seq(S) /\ Len(f) = n
  OBVIOUS

\* What process_one_frame finds behind the head.
LEMMA GopIsFound ==
    ASSUME queue \in Seq(Frame), Shape(queue, lastGopEnd, Len(queue)), lastGopEnd >= 2,
           NEW p, p = queue[2].gop
    PROVE  /\ GopLength = p
           /\ GopFrames \in Seq(Frame) /\ Len(GopFrames) = p
           /\ \A n \in 1 .. p : Spot(p, n) \in 2 .. p + 1 /\ GopFrames[n] = queue[Spot(p, n)]
<1>1. /\ p \in Nat \ {0} /\ p + 1 <= lastGopEnd /\ queue[p + 1].ord = 0
      /\ \A j \in 2 .. p : queue[j].ord = j - 1
  BY FirstGop
<1>2. lastGopEnd \in Nat /\ lastGopEnd <= Len(queue) /\ Len(queue) \in Nat
  BY DEF Shape
<1>3. p + 1 \in NextAnchor /\ \A i \in NextAnchor : p + 1 <= i /\ i \in Nat
  BY <1>1, <1>2 DEF NextAnchor, IsAnchor
<1>4. GopLength = p
  <2>1. p \in 1 .. Len(queue)
    BY <1>1, <1>2
  <2>2. \A n \in 1 .. Len(queue) : n + 1 \in NextAnchor /\ (\A i \in NextAnchor : n + 1 <= i) => n = p
    BY <1>1, <1>3
  <2> QED
    BY <1>3, <2>1, <2>2 DEF GopLength
<1>5. ASSUME NEW n \in 1 .. p
      PROVE (CHOOSE i \in 2 .. p + 1 : queue[i].ord = n - 1) = IF n = 1 THEN p + 1 ELSE n
  <2>1. CASE n = 1
    <3>1. \A i \in 2 .. p + 1 : queue[i].ord = n - 1 => i = p + 1
      BY <1>1, <2>1
    <3>2. p + 1 \in 2 .. p + 1 /\ queue[p + 1].ord = n - 1
      BY <1>1, <2>1
    <3> QED
      BY <2>1, <3>1, <3>2
  <2>2. CASE n # 1
    <3>1. ASSUME NEW i \in 2 .. p + 1, queue[i].ord = n - 1 PROVE i = n
      <4>0. queue[p + 1].ord = 0 /\ n - 1 # 0
        BY <1>1, <2>2
      <4>1. i # p + 1
        BY <3>1, <4>0
      <4>2. i \in 2 .. p
        <5>1. p \in Nat
          BY <1>1
        <5>2. i \in Int /\ 2 <= i /\ i <= p + 1
          BY <5>1
        <5> QED
          BY <4>1, <5>1, <5>2
      <4>3. queue[i].ord = i - 1
        BY <1>1, <4>2
      <4> QED
        BY <1>1, <3>1, <4>2, <4>3
    <3>2. n \in 2 .. p + 1 /\ queue[n].ord = n - 1
      BY <1>1, <1>5, <2>2
    <3> QED
      BY <2>2, <3>1, <3>2
  <2> QED
    BY <2>1, <2>2
<1> DEFINE c(n) == CHOOSE i \in 2 .. GopLength + 1 : queue[i].ord = n - 1
<1>6. GopFrames = [n \in 1 .. GopLength |-> queue[c(n)]]
  BY DEF GopFrames
<1>7. \A n \in 1 .. p : c(n) = IF n = 1 THEN p + 1 ELSE n
  BY <1>4, <1>5
<1> HIDE DEF c
<1>8. \A n \in 1 .. p : Spot(p, n) = c(n) /\ Spot(p, n) \in 2 .. p + 1 /\ queue[c(n)] \in Frame
  BY <1>1, <1>2, <1>7 DEF Spot
<1>9. GopFrames = [n \in 1 .. p |-> queue[c(n)]]
  BY <1>4, <1>6
<1>10. GopFrames \in [1 .. p -> Frame]
  BY <1>8, <1>9
<1>11. GopFrames \in Seq(Frame) /\ Len(GopFrames) = p
  <2>1. p \in Nat
    BY <1>1
  <2> QED
    BY ONLY <1>10, <2>1, FunctionIsSeq
<1> QED
  BY <1>4, <1>8, <1>9, <1>11

\* What is written: an intra frame at the head, then the frames of the GOP.
LEMMA WrittenFrames ==
    ASSUME queue \in Seq(Frame), queue # <<>>, NEW p \in Nat, GopFrames \in Seq(Frame), Len(GopFrames) = p,
           NEW h, h = IF queue[1].pic = 0 THEN 1 ELSE 0
    PROVE  /\ ToWrite \in Seq(Int) /\ Len(ToWrite) = h + p
           /\ h = 1 => ToWrite[1] = queue[1].pic
           /\ \A n \in 1 .. p : ToWrite[h + n] = GopFrames[n].pic
<1> DEFINE I == IF IsIntra(Head(queue)) THEN <<Head(queue)>> ELSE <<>>
           frames == I \o GopFrames
<1>1. I \in Seq(Frame) /\ Len(I) = h /\ (h = 1 => I[1] = queue[1])
  BY DEF IsIntra
<1> HIDE DEF I
<1>2. /\ frames \in Seq(Frame) /\ Len(frames) = Len(I) + Len(GopFrames)
      /\ \A i \in 1 .. Len(I) : frames[i] = I[i]
      /\ \A i \in 1 .. Len(GopFrames) : frames[Len(I) + i] = GopFrames[i]
  <2>1. I \in Seq(Frame) /\ GopFrames \in Seq(Frame)
    BY <1>1
  <2> QED
    BY ONLY <2>1, ConcatElements
<1>3. ToWrite = [i \in DOMAIN frames |-> frames[i].pic]
  BY DEF ToWrite, I
<1> HIDE DEF frames
<1>4. h \in {0, 1}
  OBVIOUS
<1>5. /\ frames \in Seq(Frame) /\ Len(frames) = h + p
      /\ h = 1 => frames[1] = queue[1]
      /\ \A n \in 1 .. p : frames[h + n] = GopFrames[n]
  BY <1>1, <1>2, <1>4
<1>6. DOMAIN frames = 1 .. h + p /\ \A i \in 1 .. h + p : frames[i].pic \in Int
  <2>1. DOMAIN frames = 1 .. h + p /\ \A i \in 1 .. h + p : frames[i] \in Frame
    BY <1>4, <1>5
  <2> QED
    BY <2>1 DEF Frame
<1>7. ToWrite \in [1 .. h + p -> Int] /\ \A i \in 1 .. h + p : ToWrite[i] = frames[i].pic
  BY <1>3, <1>6
<1>8. ToWrite \in Seq(Int) /\ Len(ToWrite) = h + p
  BY <1>4, <1>7
<1>9. (h = 1 => 1 \in 1 .. h + p) /\ \A n \in 1 .. p : h + n \in 1 .. h + p
  BY <1>4
<1>10. h = 1 => ToWrite[1] = queue[1].pic
  BY <1>5, <1>7, <1>9
<1>11. ASSUME NEW n \in 1 .. p PROVE ToWrite[h + n] = GopFrames[n].pic
  <2>1. h + n \in 1 .. h + p
    BY <1>9
  <2>2. ToWrite[h + n] = frames[h + n].pic
    BY <1>7, <2>1
  <2>3. frames[h + n] = GopFrames[n]
    BY <1>5
  <2> QED
    BY <2>2, <2>3
<1> QED
  BY <1>8, <1>10, <1>11

HasJobs(q) == \A i \in 1 .. Len(q) : i > 1 \/ q[1].pic = 0 => ~q[i].out

\* What process_one_frame decides to write when whole GOPs are there.
LEMMA GopToWrite ==
    ASSUME queue \in Seq(Frame), Shape(queue, lastGopEnd, Len(queue)), lastGopEnd >= 2,
           NEW h, h = IF queue[1].pic = 0 THEN 1 ELSE 0
    PROVE  LET p == GopLength
           IN /\ p = queue[2].gop /\ p \in Nat \ {0} /\ p + 1 <= lastGopEnd /\ p + 1 <= Len(queue)
              /\ queue[p + 1].ord = 0
              /\ ToWrite \in Seq(Int) /\ Len(ToWrite) = h + p
              /\ h = 1 => ToWrite[1] = queue[1].pic
              /\ \A n \in 1 .. p : Spot(p, n) \in 2 .. p + 1 /\ ToWrite[h + n] = queue[Spot(p, n)].pic
<1> DEFINE p == queue[2].gop
<1>1. p \in Nat \ {0} /\ p + 1 <= lastGopEnd /\ queue[p + 1].ord = 0
  BY FirstGop
<1>2. lastGopEnd \in Nat /\ lastGopEnd <= Len(queue) /\ Len(queue) \in Nat
  BY DEF Shape
<1>3. /\ GopLength = p
      /\ GopFrames \in Seq(Frame) /\ Len(GopFrames) = p
      /\ \A n \in 1 .. p : Spot(p, n) \in 2 .. p + 1 /\ GopFrames[n] = queue[Spot(p, n)]
  BY GopIsFound
<1> HIDE DEF p
<1>4. p + 1 <= Len(queue) /\ p \in Nat /\ queue # <<>>
  BY <1>1, <1>2, EmptyQueue
<1>5. /\ ToWrite \in Seq(Int) /\ Len(ToWrite) = h + p
      /\ h = 1 => ToWrite[1] = queue[1].pic
      /\ \A n \in 1 .. p : ToWrite[h + n] = GopFrames[n].pic
  <2>1. GopFrames \in Seq(Frame) /\ Len(GopFrames) = p
    BY <1>3
  <2> QED
    BY <1>4, <2>1, WrittenFrames, SMTT(20)
<1> QED
  BY <1>1, <1>3, <1>4, <1>5 DEF p

\* Each of them has its job and none is written twice.
LEMMA GopHasJobs ==
    ASSUME queue \in Seq(Frame), Shape(queue, lastGopEnd, Len(queue)), lastGopEnd >= 2, HasJobs(queue)
    PROVE  /\ \A x \in 1 .. Len(ToWrite) : \E j \in 1 .. GopLength + 1 : queue[j].pic = ToWrite[x] /\ ~queue[j].out
           /\ \A x, y \in 1 .. Len(ToWrite) : x # y => ToWrite[x] # ToWrite[y]
<1> DEFINE h == IF queue[1].pic = 0 THEN 1 ELSE 0
           p == GopLength
           K(x) == IF x <= h THEN 1 ELSE Spot(p, x - h)
<1>1. /\ p \in Nat \ {0} /\ p + 1 <= lastGopEnd /\ p + 1 <= Len(queue)
      /\ Len(ToWrite) = h + p
      /\ h = 1 => ToWrite[1] = queue[1].pic
      /\ \A n \in 1 .. p : Spot(p, n) \in 2 .. p + 1 /\ ToWrite[h + n] = queue[Spot(p, n)].pic
  BY GopToWrite
<1>2. h \in {0, 1} /\ (h = 1 => queue[1].pic = 0)
  OBVIOUS
<1> HIDE DEF h, p
<1>3. ASSUME NEW x \in 1 .. h + p
      PROVE /\ K(x) \in 1 .. p + 1 /\ ToWrite[x] = queue[K(x)].pic
            /\ K(x) = 1 => queue[1].pic = 0
  <2>1. CASE x <= h
    BY <1>1, <1>2, <2>1
  <2>2. CASE x > h
    <3>1. x - h \in 1 .. p /\ h + (x - h) = x
      BY <1>1, <1>2, <2>2
    <3>2. Spot(p, x - h) \in 2 .. p + 1 /\ ToWrite[h + (x - h)] = queue[Spot(p, x - h)].pic
      BY <1>1, <3>1
    <3> QED
      BY <1>1, <1>2, <2>2, <3>1, <3>2
  <2> QED
    BY <1>1, <1>2, <2>1, <2>2
<1>4. ASSUME NEW x \in 1 .. h + p, NEW y \in 1 .. h + p, x # y PROVE K(x) # K(y)
  BY <1>1, <1>2, <1>4 DEF Spot
<1>5. \A i \in 1 .. p + 1 : queue[i].pic = queue[1].pic + i - 1 /\ queue[1].pic \in Nat /\ i \in 1 .. Len(queue)
  <2>1. /\ \A i \in 1 .. lastGopEnd : queue[i].pic = queue[1].pic + i - 1
        /\ queue[1].pic \in Nat
    BY QueuePics
  <2>2. lastGopEnd \in Nat /\ Len(queue) \in Nat
    BY DEF Shape
  <2> QED
    BY <1>1, <2>1, <2>2
<1>6. ASSUME NEW x \in 1 .. h + p PROVE \E j \in 1 .. p + 1 : queue[j].pic = ToWrite[x] /\ ~queue[j].out
  <2>1. K(x) \in 1 .. p + 1 /\ ToWrite[x] = queue[K(x)].pic /\ (K(x) = 1 => queue[1].pic = 0)
    BY <1>3
  <2> HIDE DEF K
  <2>2. PICK k : k = K(x)
    OBVIOUS
  <2>3. k \in 1 .. p + 1 /\ k \in 1 .. Len(queue) /\ (k > 1 \/ queue[1].pic = 0)
    BY <1>1, <1>5, <2>1, <2>2
  <2>4. ~queue[k].out
    BY <2>3 DEF HasJobs
  <2> QED
    BY <2>1, <2>2, <2>3, <2>4
<1>7. ASSUME NEW x \in 1 .. h + p, NEW y \in 1 .. h + p, x # y PROVE ToWrite[x] # ToWrite[y]
  <2>1. K(x) \in 1 .. p + 1 /\ ToWrite[x] = queue[K(x)].pic /\ K(y) \in 1 .. p + 1 /\ ToWrite[y] = queue[K(y)].pic
    BY <1>3
  <2>2. K(x) # K(y)
    BY <1>4, <1>7
  <2> HIDE DEF K
  <2>3. PICK k, l : k = K(x) /\ l = K(y)
    OBVIOUS
  <2>4. k \in 1 .. p + 1 /\ l \in 1 .. p + 1 /\ k # l
    BY <2>1, <2>2, <2>3
  <2>5. queue[k].pic # queue[l].pic
    <3>1. queue[k].pic = queue[1].pic + k - 1 /\ queue[l].pic = queue[1].pic + l - 1 /\ queue[1].pic \in Nat
      BY <1>5, <2>4
    <3>2. k \in Int /\ l \in Int /\ k # l
      BY <2>4
    <3> QED
      BY <3>1, <3>2
  <2> QED
    BY <2>1, <2>3, <2>5
<1> QED
  BY <1>1, <1>6, <1>7 DEF p

\* A queue of one frame has no GOP behind its head.
LEMMA NoGop ==
    ASSUME Len(queue) = 1, queue \in Seq(Frame), IsIntra(Head(queue))
    PROVE  GopLength = 0 /\ ToWrite \in Seq(Int) /\ Len(ToWrite) = 1 /\ ToWrite[1] = queue[1].pic
<1>1. NextAnchor = {}
  BY DEF NextAnchor
<1>2. GopLength = 0
  BY <1>1 DEF GopLength
<1>3. GopFrames \in Seq(Frame) /\ Len(GopFrames) = 0
  BY <1>2 DEF GopFrames
<1>4. Head(queue) = queue[1] /\ queue[1].pic = 0 /\ queue # <<>>
  BY EmptyQueue DEF IsIntra
<1>5. 1 = IF queue[1].pic = 0 THEN 1 ELSE 0
  BY <1>4
<1>6. ToWrite \in Seq(Int) /\ Len(ToWrite) = 1 + 0 /\ (1 = 1 => ToWrite[1] = queue[1].pic)
  BY <1>3, <1>4, <1>5, WrittenFrames
<1> QED
  BY <1>2, <1>6

\* When process_one_frame is due, or in the flush, the next anchor is in the queue.
LEMMA GopIsThere ==
    ASSUME Regular, NEW n \in Nat, NEW e, Shape(queue, e, n), NEW f, IsFrame(f), CameLast(f, queue, e, n),
           \/ n >= Depth /\ EndsGop(f)
           \/ n >= Depth + 1 + (f.gop \div 2)
           \/ n > 1 /\ EndsGop(f)
    PROVE  e >= 2
<1>1. e \in Nat /\ 1 <= e /\ e <= n
  BY DEF Shape
<1>2. f.gop \in Nat /\ f.ord \in Nat /\ f.gop > 0 /\ f.gop <= Gop
  BY FrameFields
<1>3. Gop \in Nat /\ Depth \in Nat /\ Depth >= 2 /\ Gop <= Depth + (Gop \div 2)
  BY SizesAssumption DEF Regular
<1>4. CASE n = e
  BY <1>1, <1>2, <1>3, <1>4
<1>5. CASE n > e
  <2>1. f.ord = n - e - 1 /\ f.gop = queue[n].gop /\ queue[n].gop > n - e
    BY <1>1, <1>5 DEF Shape, Begun, CameLast
  <2>2. ~EndsGop(f)
    BY <1>1, <1>2, <2>1 DEF EndsGop
  <2>3. n >= Depth + 1 + (f.gop \div 2) /\ f.gop > n - e
    BY <2>1, <2>2
  <2> QED
    BY <1>1, <1>2, <1>3, <2>3
<1> QED
  BY <1>1, <1>4, <1>5

\* Under which conditions the cuTree thread starts to write.
LEMMA StartsToWrite ==
    ASSUME Regular, ThreadsInv, FramesInv, Process, cpc' = "write"
    PROVE  /\ todo' = ToWrite /\ pops' = GopLength /\ queue # <<>>
           /\ \/ Normal /\ lastGopEnd >= 2 /\ back' \in {"process", "flush"}
              \/ Len(queue) = 1 /\ IsIntra(Head(queue)) /\ back' = "end" /\ cpc = "flush"
<1>0. StopInv /\ SeenInv /\ CuInv /\ ParkInv /\ Pass1Inv /\ FlushInv
  BY DEF ThreadsInv, ControlInv
<1>1. queue \in Seq(Frame) /\ Len(queue) \in Nat /\ IsFrame(frame) /\ (queue = <<>>) = (Len(queue) = 0)
  BY EmptyQueue DEF FramesInv, FramesTyped, IsPic
<1>2. \/ cpc = "process" /\ GopIsDue /\ ProcessOneFrame("process")
      \/ cpc = "flush" /\ Len(queue) > 1 /\ ProcessOneFrame("flush")
      \/ cpc = "flush" /\ Len(queue) = 1 /\ IsIntra(Head(queue)) /\ ProcessOneFrame("end")
  BY <1>1 DEF Process
<1>3. Normal \/ Late
  BY <1>0, <1>2 DEF Normal, Late, SeenInv, CtOver, Over
<1>4. Late => Len(queue) <= 1
  BY DEF FramesInv, LateFrame
<1>5. Normal /\ queue # <<>> => Shape(queue, lastGopEnd, Len(queue)) /\ CameLast(frame, queue, lastGopEnd, Len(queue))
  BY <1>2 DEF FramesInv, InQueue
<1>6. CASE cpc = "process" /\ GopIsDue /\ ProcessOneFrame("process")
  <2>1. \/ Len(queue) >= Depth /\ EndsGop(frame)
        \/ Len(queue) >= Depth + 1 + (frame.gop \div 2)
    BY <1>6 DEF GopIsDue
  <2>2. frame.gop \in Nat /\ frame.gop > 0 /\ Depth \in Nat /\ Depth >= 2
    BY <1>1, FrameFields, SizesAssumption DEF Regular
  <2>3. Len(queue) >= 2
    BY <1>1, <2>1, <2>2
  <2>4. Normal /\ queue # <<>>
    BY <1>1, <1>3, <1>4, <2>3
  <2>5. lastGopEnd >= 2
    BY <1>1, <1>5, <2>1, <2>4, GopIsThere
  <2> QED
    BY <1>6, <2>4, <2>5 DEF ProcessOneFrame
<1>7. CASE cpc = "flush" /\ Len(queue) > 1 /\ ProcessOneFrame("flush")
  <2>1. Normal /\ queue # <<>>
    BY <1>1, <1>3, <1>4, <1>7
  <2>2. EndsGop(last) /\ ctJobs = <<>> /\ ~laFailed /\ lpc \in LaOver
    BY <1>0, <1>7, <2>1 DEF FlushInv, Normal
  <2>3. EndsGop(frame)
    BY <2>1, <2>2 DEF FramesInv, Chain, Empty, Newest, LaOver
  <2>4. lastGopEnd >= 2
    BY <1>1, <1>5, <1>7, <2>1, <2>3, GopIsThere
  <2> QED
    BY <1>7, <2>1, <2>4 DEF ProcessOneFrame
<1>8. CASE cpc = "flush" /\ Len(queue) = 1 /\ IsIntra(Head(queue)) /\ ProcessOneFrame("end")
  BY <1>1, <1>8 DEF ProcessOneFrame
<1> QED
  BY <1>2, <1>6, <1>7, <1>8

LEMMA FramesProcessed ==
    ASSUME Regular, ThreadsInv, FramesInv, [Next]_vars, Process
    PROVE  FramesInv'
<1>0. StopInv /\ SeenInv /\ CuInv /\ ParkInv /\ Pass1Inv
  BY DEF ThreadsInv, ControlInv
<1>1. Normal' => Normal
  BY <1>0, NormalStays
<1>2. /\ UNCHANGED <<ctJobs, queue, lastGopEnd, frame, laFailed, last, want, lpc, ctStop>>
      /\ cpc \in {"process", "rest", "flush"} /\ cpc' \in {"write", "test", "flush", "end"}
      /\ cpc' # "write" => UNCHANGED <<todo, pops, back>>
  BY DEF Process, ProcessOneFrame, CtKeeps, feedVars
<1>3. Newest' = Newest
  BY <1>2 DEF Newest
<1>4. CASE cpc' # "write"
  <2>1. \/ cpc \in Resting \cup {"process"} /\ cpc' \in Resting
        \/ cpc' \in CtOver
    BY <1>2, <1>4 DEF Resting, CtOver
  <2>2. CtSame
    BY <1>1, <1>2, <1>3, <1>4, <2>1 DEF CtSame, Late, CtOver, Over
  <2> QED
    BY <2>2, FramesKept
<1>5. CASE cpc' = "write"
  <2>1. /\ todo' = ToWrite /\ pops' = GopLength /\ queue # <<>>
        /\ \/ Normal /\ lastGopEnd >= 2 /\ back' \in {"process", "flush"}
           \/ Len(queue) = 1 /\ IsIntra(Head(queue)) /\ back' = "end" /\ cpc = "flush"
    BY <1>5, StartsToWrite
  <2>2. queue \in Seq(Frame) /\ Len(queue) \in Nat
    BY DEF FramesInv, FramesTyped
  <2>3. Normal => HasJobs(queue) /\ Shape(queue, lastGopEnd, Len(queue))
    BY <1>2, <2>1 DEF FramesInv, InQueue, HasJobs, Writing
  <2>4. /\ pops' \in Nat /\ pops' + 1 <= Len(queue) /\ todo' \in Seq(Int)
        /\ \A x \in 1 .. Len(todo') : \E j \in 1 .. pops' + 1 : queue[j].pic = todo'[x] /\ ~queue[j].out
        /\ \A x, y \in 1 .. Len(todo') : x # y => todo'[x] # todo'[y]
        /\ Normal => /\ pops' + 1 <= lastGopEnd /\ queue[pops' + 1].ord = 0
                     /\ pops' = 0 => back' = "end"
                     /\ \A i \in pops' + 2 .. Len(queue) : ~queue[i].out
        /\ Late => pops' = 0 /\ back' = "end"
    <3>1. CASE Normal /\ lastGopEnd >= 2 /\ back' \in {"process", "flush"}
      <4>1. /\ pops' \in Nat \ {0} /\ pops' + 1 <= lastGopEnd /\ pops' + 1 <= Len(queue) /\ queue[pops' + 1].ord = 0
            /\ todo' \in Seq(Int)
        BY <2>1, <2>2, <2>3, <3>1, GopToWrite
      <4>2. /\ \A x \in 1 .. Len(todo') : \E j \in 1 .. pops' + 1 : queue[j].pic = todo'[x] /\ ~queue[j].out
            /\ \A x, y \in 1 .. Len(todo') : x # y => todo'[x] # todo'[y]
        BY <2>1, <2>2, <2>3, <3>1, GopHasJobs
      <4>3. \A i \in pops' + 2 .. Len(queue) : ~queue[i].out
        BY <2>2, <2>3, <3>1, <4>1 DEF HasJobs
      <4>4. ~Late
        BY <3>1 DEF Late, Normal
      <4> QED
        BY <4>1, <4>2, <4>3, <4>4
    <3>2. CASE Len(queue) = 1 /\ IsIntra(Head(queue)) /\ back' = "end" /\ cpc = "flush"
      <4>1. pops' = 0 /\ todo' \in Seq(Int) /\ Len(todo') = 1 /\ todo'[1] = queue[1].pic
        BY <2>1, <2>2, <3>2, NoGop
      <4>2. queue[1].pic = 0
        BY <3>2, <2>2 DEF IsIntra
      <4>3. Normal \/ Late
        BY <1>0, <3>2 DEF Normal, Late, SeenInv, CtOver, Over
      <4>4. ~queue[1].out
        <5>1. CASE Normal
          BY <2>3, <3>2, <4>2, <5>1 DEF HasJobs
        <5>2. CASE Late
          BY <3>2, <5>2 DEF FramesInv, LateFrame, Writing
        <5> QED
          BY <4>3, <5>1, <5>2
      <4>5. Normal => lastGopEnd >= 1 /\ queue[1].ord = 0
        BY <2>3 DEF Shape, Whole
      <4>6. \A x \in 1 .. Len(todo') : x = 1
        BY <4>1
      <4>7. 1 \in 1 .. pops' + 1 /\ pops' + 1 = 1 /\ \A i \in pops' + 2 .. Len(queue) : FALSE
        BY <3>2, <4>1
      <4> QED
        BY <3>2, <4>1, <4>4, <4>5, <4>6, <4>7
    <3> QED
      BY <2>1, <3>1, <3>2
  <2>5. ToBeWritten'
    BY <1>1, <1>2, <2>4 DEF ToBeWritten
  <2>6. FramesTyped'
    BY <1>2, <2>4 DEF FramesInv, FramesTyped, IsPic, IsFrame
  <2>7. ASSUME Normal' PROVE Chain' /\ InQueue'
    <3>1. Normal /\ Chain /\ InQueue
      BY <1>1, <2>7 DEF FramesInv
    <3>2. Empty' <=> Empty
      BY <1>2 DEF Empty
    <3>3. Chain'
      BY <1>2, <1>3, <3>1, <3>2, ChainKept
    <3>4. Shape(queue, lastGopEnd, Len(queue)) /\ CameLast(frame, queue, lastGopEnd, Len(queue))
      BY <1>2, <2>1, <3>1 DEF InQueue
    <3>5. Shape(queue, lastGopEnd, Len(queue))' /\ CameLast(frame, queue, lastGopEnd, Len(queue))'
      BY <1>2, <3>4 DEF Shape, Whole, Begun, Gops, CameLast, Base, Top, EndsGop, IsFrame
    <3>6. InQueue'
      BY <1>2, <1>5, <2>1, <3>5 DEF InQueue, Writing
    <3> QED
      BY <3>3, <3>6
  <2>8. ASSUME Late' PROVE LateFrame'
    <3>1. Late /\ LateFrame
      BY <1>2, <2>8 DEF Late, FramesInv, CtOver, Over
    <3>2. Writing' /\ cpc' # "handle"
      BY <1>5 DEF Writing
    <3>3. queue # <<>>
      BY <2>1
    <3> QED
      BY <1>2, <2>4, <3>1, <3>2, <3>3 DEF LateFrame
  <2> QED
    BY <2>5, <2>6, <2>7, <2>8 DEF FramesInv
<1> QED
  BY <1>4, <1>5

\* No picture is twice in the queue.
LEMMA QueueDistinct ==
    ASSUME NEW q, NEW e, NEW n, Shape(q, e, n), NEW i \in 1 .. n, NEW j \in 1 .. n, i # j
    PROVE  q[i].pic # q[j].pic
<1>1. n \in Nat /\ e \in Nat /\ 1 <= e /\ e <= n
  BY DEF Shape
<1>2. /\ q[1].pic \in Nat
      /\ \A k \in 1 .. e : q[k].pic = q[1].pic + k - 1
      /\ \A k \in e + 1 .. n - 1 : q[k].pic = q[1].pic + k - 1
      /\ n > e => q[n].pic \in Int /\ q[n].pic > q[1].pic + n - 1
  BY <1>1, QueuePics
<1>3. \A k \in 1 .. n : q[k].pic = q[1].pic + k - 1 \/ (k = n /\ q[n].pic \in Int /\ q[n].pic > q[1].pic + n - 1)
  <2>1. ASSUME NEW k \in 1 .. n
        PROVE q[k].pic = q[1].pic + k - 1 \/ (k = n /\ q[n].pic \in Int /\ q[n].pic > q[1].pic + n - 1)
    <3>1. k \in 1 .. e \/ k \in e + 1 .. n - 1 \/ (k = n /\ n > e)
      BY <1>1
    <3> QED
      BY <1>2, <3>1
  <2> QED
    BY <2>1
<1> QED
  BY <1>1, <1>2, <1>3

\* What handing over a job does to the queue.
LEMMA Handed ==
    ASSUME queue \in Seq(Frame), \A i \in 1 .. Len(queue) : IsFrame(queue[i]), NEW pic, Hand(pic)
    PROVE  /\ queue' \in Seq(Frame) /\ Len(queue') = Len(queue)
           /\ \A i \in 1 .. Len(queue) :
                  /\ IsFrame(queue'[i]) /\ queue'[i].pic = queue[i].pic /\ queue'[i].gop = queue[i].gop
                  /\ queue'[i].ord = queue[i].ord
                  /\ queue'[i].out <=> queue[i].out \/ queue[i].pic = pic
<1> DEFINE g(i) == [queue[i] EXCEPT !.out = @ \/ queue[i].pic = pic]
<1>1. ASSUME NEW i \in 1 .. Len(queue)
      PROVE /\ g(i) \in Frame /\ IsFrame(g(i)) /\ g(i).pic = queue[i].pic /\ g(i).gop = queue[i].gop
            /\ g(i).ord = queue[i].ord
            /\ g(i).out <=> queue[i].out \/ queue[i].pic = pic
  <2>1. IsFrame(queue[i]) /\ queue[i] \in Frame
    BY DEF IsFrame
  <2> QED
    BY <2>1 DEF IsFrame, Frame
<1>2. queue' = [i \in 1 .. Len(queue) |-> g(i)]
  BY DEF Hand
<1> HIDE DEF g
<1>3. queue' \in [1 .. Len(queue) -> Frame] /\ \A i \in 1 .. Len(queue) : queue'[i] = g(i)
  BY <1>1, <1>2
<1>4. queue' \in Seq(Frame) /\ Len(queue') = Len(queue)
  <2>1. Len(queue) \in Nat
    OBVIOUS
  <2> QED
    BY <1>3, <2>1, FunctionIsSeq
<1> QED
  BY <1>1, <1>3, <1>4

LEMMA FramesWritten ==
    ASSUME ThreadsInv, FramesInv, [Next]_vars, WriteFrame
    PROVE  FramesInv'
<1>0. StopInv /\ SeenInv /\ CuInv /\ ParkInv /\ Pass1Inv
  BY DEF ThreadsInv, ControlInv
<1>1. Normal' => Normal
  BY <1>0, NormalStays
<1>2. /\ UNCHANGED <<ctJobs, lastGopEnd, frame, pops, back, laFailed, last, want, lpc, ctStop, ctSaw>>
      /\ cpc = "write" /\ todo # <<>>
      /\ \/ cpc' = "write" /\ Hand(Head(todo)) /\ todo' = Tail(todo)
         \/ cpc' = "roiSleep" /\ queue' = queue /\ todo' = todo
         \/ cpc' = "end" /\ Hand(Head(todo))
  BY DEF WriteFrame, CtKeeps, feedVars
<1>3. Newest' = Newest
  BY <1>2 DEF Newest
<1>4. CASE cpc' = "roiSleep"
  <2>1. CtSame
    BY <1>1, <1>2, <1>3, <1>4 DEF CtSame, Late, CtOver, Over
  <2> QED
    BY <2>1, FramesKept
<1>5. CASE cpc' # "roiSleep"
  <2>1. queue \in Seq(Frame) /\ (\A i \in 1 .. Len(queue) : IsFrame(queue[i])) /\ Len(queue) \in Nat
    BY DEF FramesInv, FramesTyped
  <2>2. /\ queue' \in Seq(Frame) /\ Len(queue') = Len(queue)
        /\ \A i \in 1 .. Len(queue) :
                  /\ IsFrame(queue'[i]) /\ queue'[i].pic = queue[i].pic /\ queue'[i].gop = queue[i].gop
                  /\ queue'[i].ord = queue[i].ord
                  /\ queue'[i].out <=> queue[i].out \/ queue[i].pic = Head(todo)
    <3>1. Hand(Head(todo))
      BY <1>2, <1>5
    <3> QED
      BY <2>1, <3>1, Handed
  <2>3. FramesTyped'
    BY <1>2, <2>1, <2>2 DEF FramesInv, FramesTyped, IsPic, IsFrame
  <2>4. ToBeWritten
    BY <1>2 DEF FramesInv, Writing
  <2>5. todo \in Seq(Int) /\ pops \in Nat /\ pops + 1 <= Len(queue) /\ Len(todo) \in Nat \ {0} /\ Head(todo) = todo[1]
    BY <1>2, <2>4, TailElements DEF ToBeWritten, FramesInv, FramesTyped
  <2>6. Normal => \A i, j \in 1 .. Len(queue) : i # j => queue[i].pic # queue[j].pic
    <3>1. Normal => Shape(queue, lastGopEnd, Len(queue))
      BY <2>1, <2>5, EmptyQueue DEF FramesInv, InQueue
    <3> QED
      BY <3>1, QueueDistinct
  <2>7. ASSUME Writing' PROVE ToBeWritten'
    <3>1. cpc' = "write" /\ todo' = Tail(todo)
      BY <1>2, <1>5, <2>7 DEF Writing
    <3>2. todo' \in Seq(Int) /\ Len(todo') = Len(todo) - 1 /\ \A x \in 1 .. Len(todo) - 1 : todo'[x] = todo[x + 1]
      BY <1>2, <2>5, <3>1, TailElements
    <3>3. ASSUME NEW x \in 1 .. Len(todo')
          PROVE \E j \in 1 .. pops + 1 : queue'[j].pic = todo'[x] /\ ~queue'[j].out
      <4>1. x + 1 \in 1 .. Len(todo) /\ todo'[x] = todo[x + 1] /\ 1 \in 1 .. Len(todo) /\ x + 1 # 1
        BY <2>5, <3>2, <3>3
      <4>2. PICK j \in 1 .. pops + 1 : queue[j].pic = todo[x + 1] /\ ~queue[j].out
        BY <2>4, <4>1 DEF ToBeWritten
      <4>3. todo[x + 1] # todo[1]
        BY <2>4, <4>1 DEF ToBeWritten
      <4>4. j \in 1 .. Len(queue)
        BY <2>1, <2>5
      <4>5. queue'[j].pic = todo'[x] /\ ~queue'[j].out
        BY <2>2, <2>5, <4>1, <4>2, <4>3, <4>4
      <4> QED
        BY <4>5
    <3>4. \A x, y \in 1 .. Len(todo') : x # y => todo'[x] # todo'[y]
      <4>1. ASSUME NEW x \in 1 .. Len(todo'), NEW y \in 1 .. Len(todo'), x # y PROVE todo'[x] # todo'[y]
        <5>1. /\ x + 1 \in 1 .. Len(todo) /\ y + 1 \in 1 .. Len(todo) /\ x + 1 # y + 1
              /\ x \in 1 .. Len(todo) - 1 /\ y \in 1 .. Len(todo) - 1
          BY <2>5, <3>2, <4>1
        <5>2. todo'[x] = todo[x + 1] /\ todo'[y] = todo[y + 1]
          BY <3>2, <5>1
        <5> QED
          BY <2>4, <5>1, <5>2 DEF ToBeWritten
      <4> QED
        BY <4>1
    <3>5. Normal => \A i \in pops + 2 .. Len(queue') : ~queue'[i].out
      <4>1. ASSUME Normal, NEW i \in pops + 2 .. Len(queue) PROVE ~queue'[i].out
        <5>1. i \in 1 .. Len(queue) /\ ~queue[i].out /\ 1 \in 1 .. Len(todo)
          BY <2>1, <2>4, <2>5, <4>1 DEF ToBeWritten
        <5>2. PICK j \in 1 .. pops + 1 : queue[j].pic = todo[1]
          BY <2>4, <5>1 DEF ToBeWritten
        <5>3. j \in 1 .. Len(queue) /\ i # j
          BY <2>1, <2>5, <4>1
        <5>4. queue[i].pic # todo[1]
          BY <2>6, <4>1, <5>1, <5>2, <5>3
        <5> QED
          BY <2>2, <2>5, <5>1, <5>4
      <4> QED
        BY <2>2, <4>1
    <3>6. Normal => pops + 1 <= lastGopEnd /\ (pops = 0 => back = "end") /\ queue'[pops + 1].ord = 0
      <4>1. pops + 1 \in 1 .. Len(queue)
        BY <2>1, <2>5
      <4> QED
        BY <2>2, <2>4, <4>1 DEF ToBeWritten
    <3>7. pops + 1 <= Len(queue')
      BY <2>2, <2>5
    <3>8. pops' = pops /\ lastGopEnd' = lastGopEnd /\ back' = back
      BY <1>2
    <3> QED
      BY <1>1, <3>2, <3>3, <3>4, <3>5, <3>6, <3>7, <3>8 DEF ToBeWritten
  <2>8. ASSUME Normal' PROVE Chain' /\ InQueue'
    <3>1. Normal /\ Chain /\ InQueue /\ cpc' = "write"
      BY <1>1, <1>2, <1>5, <2>8 DEF FramesInv, Normal, CtOver
    <3>2. queue # <<>> /\ queue' # <<>>
      <4>1. Len(queue') > 0 /\ Len(queue) > 0
        BY <2>2, <2>5, <2>1
      <4> QED
        BY <2>1, <2>2, <4>1, EmptyQueue
    <3>3. Empty' <=> Empty
      BY <3>2 DEF Empty
    <3>4. Chain'
      BY <1>2, <1>3, <3>1, <3>3, ChainKept
    <3>5. Shape(queue, lastGopEnd, Len(queue)) /\ CameLast(frame, queue, lastGopEnd, Len(queue))
      BY <1>2, <3>1, <3>2 DEF InQueue
    <3>6. Shape(queue', lastGopEnd, Len(queue)) /\ CameLast(frame, queue', lastGopEnd, Len(queue))
      BY <2>2, <3>5, SameFrames
    <3>7. Shape(queue, lastGopEnd, Len(queue))' /\ CameLast(frame, queue, lastGopEnd, Len(queue))'
      BY <1>2, <2>2, <3>6
    <3>8. Writing'
      BY <3>1 DEF Writing
    <3>9. InQueue'
      BY <3>1, <3>2, <3>7, <3>8 DEF InQueue
    <3> QED
      BY <3>4, <3>9
  <2>9. ASSUME Late' PROVE LateFrame'
    <3>1. Late /\ LateFrame /\ cpc' = "write"
      BY <1>2, <1>5, <2>9 DEF Late, FramesInv, CtOver, Over
    <3>2. queue # <<>> /\ Writing /\ Writing'
      <4>1. Len(queue) > 0
        BY <2>1, <2>5
      <4> QED
        BY <1>2, <3>1, <4>1, EmptyQueue DEF Writing
    <3> QED
      BY <1>2, <2>2, <3>1, <3>2 DEF LateFrame
  <2> QED
    BY <2>3, <2>7, <2>8, <2>9 DEF FramesInv
<1> QED
  BY <1>4, <1>5

LEMMA FramesRemoved ==
    ASSUME ThreadsInv, FramesInv, [Next]_vars, RemoveFrames
    PROVE  FramesInv'
<1>0. StopInv /\ SeenInv /\ CuInv /\ ParkInv /\ Pass1Inv
  BY DEF ThreadsInv, ControlInv
<1>1. Normal' => Normal
  BY <1>0, NormalStays
<1>2. /\ UNCHANGED <<ctJobs, frame, pops, back, laFailed, last, want, lpc, ctStop, ctSaw>>
      /\ cpc = "write" /\ cpc' = back /\ back \in {"process", "flush", "end"}
      /\ queue' = SubSeq(queue, pops + 1, Len(queue)) /\ lastGopEnd' = lastGopEnd - pops
  BY <1>0 DEF RemoveFrames, CtKeeps, feedVars, CuInv
<1>3. Newest' = Newest
  BY <1>2 DEF Newest
<1>4. queue \in Seq(Frame) /\ (\A i \in 1 .. Len(queue) : IsFrame(queue[i])) /\ Len(queue) \in Nat
      /\ pops \in Nat /\ lastGopEnd \in Int
  BY DEF FramesInv, FramesTyped
<1>5. ToBeWritten
  BY <1>2 DEF FramesInv, Writing
<1>6. pops + 1 <= Len(queue) /\ pops \in 0 .. Len(queue)
  BY <1>4, <1>5 DEF ToBeWritten
<1>7. /\ queue' \in Seq(Frame) /\ Len(queue') = Len(queue) - pops
      /\ \A i \in 1 .. Len(queue) - pops : queue'[i] = queue[pops + i]
  BY <1>2, <1>4, <1>6, SuffixElements
<1>8. FramesTyped'
  <2>1. (\A i \in 1 .. Len(queue) : IsFrame(queue[i]))'
    <3>1. ASSUME NEW i \in 1 .. Len(queue') PROVE IsFrame(queue'[i])
      <4>1. pops + i \in 1 .. Len(queue) /\ queue'[i] = queue[pops + i]
        BY <1>4, <1>6, <1>7, <3>1
      <4> QED
        BY <1>4, <4>1
    <3> QED
      BY <3>1
  <2>2. lastGopEnd' \in Int /\ pops' \in Nat
    BY <1>2, <1>4
  <2>3. IsPic(frame)' /\ (ctJobs \in Seq(Frame) /\ \A i \in 1 .. Len(ctJobs) : IsPic(ctJobs[i]))'
    BY <1>2 DEF FramesInv, FramesTyped
  <2> QED
    BY <1>7, <2>1, <2>2, <2>3 DEF FramesTyped
<1>9. ~Writing'
  BY <1>2 DEF Writing
<1>10. ~Late'
  <2>1. Late => back = "end"
    BY <1>2 DEF FramesInv, LateFrame, Writing
  <2> QED
    BY <1>2, <2>1 DEF Late, CtOver, Over
<1>11. ASSUME Normal' PROVE Chain' /\ InQueue'
  <2>1. Normal /\ Chain /\ InQueue /\ cpc' \in {"process", "flush"}
    BY <1>1, <1>2, <1>11 DEF FramesInv, Normal, CtOver
  <2>2. pops > 0 /\ pops + 1 <= lastGopEnd /\ queue[pops + 1].ord = 0
        /\ \A i \in pops + 2 .. Len(queue) : ~queue[i].out
    BY <1>2, <1>4, <1>5, <2>1 DEF ToBeWritten
  <2>3. queue # <<>> /\ queue' # <<>>
    <3>1. Len(queue') > 0 /\ Len(queue) > 0
      BY <1>4, <1>6, <1>7
    <3> QED
      BY <1>4, <1>7, <3>1, EmptyQueue
  <2>4. Empty' <=> Empty
    BY <2>3 DEF Empty
  <2>5. Chain'
    BY <1>2, <1>3, <2>1, <2>4, ChainKept
  <2>6. Shape(queue, lastGopEnd, Len(queue)) /\ CameLast(frame, queue, lastGopEnd, Len(queue))
    BY <1>2, <2>1, <2>3 DEF InQueue
  <2> DEFINE a == pops + 1
  <2>7. a \in 1 .. lastGopEnd /\ queue[a].ord = 0 /\ lastGopEnd - a + 1 = lastGopEnd - pops
        /\ Len(queue) - a + 1 = Len(queue) - pops
        /\ \A i \in 1 .. Len(queue) - a + 1 : queue'[i] = queue[i + a - 1]
    <3>1. ASSUME NEW i \in 1 .. Len(queue) - pops PROVE queue'[i] = queue[i + a - 1]
      <4>1. pops + i = i + a - 1
        BY <1>4, <3>1
      <4> QED
        BY <1>7, <3>1, <4>1
    <3> QED
      BY <1>4, <2>2, <3>1
  <2>8. /\ Shape(queue', lastGopEnd - a + 1, Len(queue) - a + 1)
        /\ queue'[1].pic = queue[1].pic + a - 1
        /\ CameLast(frame, queue', lastGopEnd - a + 1, Len(queue) - a + 1)
    <3>1. PICK q, e, n, b, r : q = queue /\ e = lastGopEnd /\ n = Len(queue) /\ b = a /\ r = queue'
      OBVIOUS
    <3> HIDE DEF a
    <3>2. Shape(q, e, n) /\ CameLast(frame, q, e, n)
      BY <2>6, <3>1
    <3>3. b \in 1 .. e /\ q[b].ord = 0
      BY <2>7, <3>1
    <3>4. \A i \in 1 .. n - b + 1 : r[i] = q[i + b - 1]
      BY <2>7, <3>1
    <3>5. /\ Shape(r, e - b + 1, n - b + 1) /\ r[1].pic = q[1].pic + b - 1
          /\ CameLast(frame, r, e - b + 1, n - b + 1)
      BY ONLY <3>2, <3>3, <3>4, Removed
    <3> QED
      BY <3>1, <3>5
  <2>9. Shape(queue, lastGopEnd, Len(queue))' /\ CameLast(frame, queue, lastGopEnd, Len(queue))'
    BY <1>2, <1>7, <2>7, <2>8
  <2>10. queue'[1].pic > 0
    BY <1>4, <2>2, <2>6, <2>8, QueuePics
  <2>11. \A i \in 1 .. Len(queue') : i > 1 => ~queue'[i].out
    <3>1. ASSUME NEW i \in 1 .. Len(queue'), i > 1 PROVE ~queue'[i].out
      <4>1. pops + i \in pops + 2 .. Len(queue) /\ queue'[i] = queue[pops + i]
        BY <1>4, <1>6, <1>7, <3>1
      <4> QED
        BY <2>2, <4>1
    <3> QED
      BY <3>1
  <2>12. InQueue'
    BY <1>9, <2>1, <2>3, <2>9, <2>10, <2>11 DEF InQueue
  <2> QED
    BY <2>5, <2>12
<1> QED
  BY <1>8, <1>9, <1>10, <1>11 DEF FramesInv

LEMMA FramesNext ==
    ASSUME Regular
    PROVE  ThreadsInv /\ FramesInv /\ [Next]_vars => FramesInv'
<1> SUFFICES ASSUME ThreadsInv, FramesInv, [Next]_vars PROVE FramesInv'
  OBVIOUS
<1>1. CASE ~EncodePass1 /\ ~CutreeStep
  BY <1>1, FramesOthers
<1>2. CASE EncodePass1
  BY <1>2, FramesPass1
<1>3. CASE CutreeStep
  <2>1. CASE CuTreeLoop \/ AwaitFrame
    BY <2>1, FramesAwait
  <2>2. CASE TakeFrame
    BY <2>2, FramesTaken
  <2>3. CASE HandleInputFrame
    BY <2>3, FramesHandled
  <2>4. CASE Process
    BY <2>4, FramesProcessed
  <2>5. CASE WriteFrame
    BY <2>5, FramesWritten
  <2>6. CASE RemoveFrames
    BY <2>6, FramesRemoved
  <2>7. CASE EndCuTree
    BY <2>7, FramesEnd
  <2> QED
    BY <1>3, <2>1, <2>2, <2>3, <2>4, <2>5, <2>6, <2>7 DEF CutreeStep
<1> QED
  BY <1>1, <1>2, <1>3

\* A frame has its job when it is written: the GOP behind the head of the queue is found whole
\* and none of its frames was written before, whatever stops and failures come in between
\* (write_cutree_file, which uses the job unchecked).
THEOREM WrittenWithItsJob ==
    ASSUME Regular
    PROVE  Spec => []WrittenOnce
<1>1. Init => ThreadsInv /\ FramesInv
  BY ThreadsInit, FramesInit
<1>2. ThreadsInv /\ FramesInv /\ [Next]_vars => ThreadsInv' /\ FramesInv'
  BY ThreadsNext, FramesNext DEF Regular
<1>3. ThreadsInv /\ FramesInv => WrittenOnce
  <2> SUFFICES ASSUME FramesInv, cpc = "write", NEW i \in DOMAIN todo
               PROVE \E j \in DOMAIN queue : queue[j].pic = todo[i] /\ ~queue[j].out
    BY DEF WrittenOnce
  <2>1. ToBeWritten /\ queue \in Seq(Frame) /\ pops \in Nat
    BY DEF FramesInv, FramesTyped, Writing
  <2>2. PICK j \in 1 .. pops + 1 : queue[j].pic = todo[i] /\ ~queue[j].out
    BY <2>1 DEF ToBeWritten
  <2>3. j \in DOMAIN queue
    BY <2>1, <2>2 DEF ToBeWritten
  <2> QED
    BY <2>2, <2>3
<1> QED
  BY <1>1, <1>2, <1>3, PTL DEF Spec

-----------------------------------------------------------------------------
(* The jobs of the pictures *)

LEMMA HasJob ==
    ASSUME NEW s \in Seq(Frame), NEW p
    PROVE  p \in JobsOf(s) <=> \E i \in 1 .. Len(s) : ~s[i].out /\ s[i].pic = p
BY DEF JobsOf

LEMMA JobsOfNone == JobsOf(<<>>) = {}
BY DEF JobsOf

LEMMA JobsOfAppend ==
    ASSUME NEW s \in Seq(Frame), NEW f \in Frame, ~f.out
    PROVE  JobsOf(Append(s, f)) = JobsOf(s) \cup {f.pic}
<1>1. /\ Append(s, f) \in Seq(Frame) /\ Len(Append(s, f)) = Len(s) + 1
      /\ \A i \in 1 .. Len(s) : Append(s, f)[i] = s[i]
      /\ Append(s, f)[Len(s) + 1] = f
  BY AppendElements
<1> DEFINE t == Append(s, f)
<1> HIDE DEF t
<1>2. ASSUME NEW p, p \in JobsOf(t) PROVE p \in JobsOf(s) \cup {f.pic}
  <2>1. PICK i \in 1 .. Len(t) : ~t[i].out /\ t[i].pic = p
    BY <1>1, <1>2, HasJob DEF t
  <2>2. i \in 1 .. Len(s) \/ i = Len(s) + 1
    BY <1>1 DEF t
  <2> QED
    BY <1>1, <2>1, <2>2, HasJob DEF t
<1>3. ASSUME NEW p, p \in JobsOf(s) PROVE p \in JobsOf(t)
  <2>1. PICK i \in 1 .. Len(s) : ~s[i].out /\ s[i].pic = p
    BY <1>3, HasJob
  <2>2. i \in 1 .. Len(t) /\ t[i] = s[i]
    BY <1>1 DEF t
  <2> QED
    BY <1>1, <2>1, <2>2, HasJob DEF t
<1>4. f.pic \in JobsOf(t)
  <2>1. Len(s) + 1 \in 1 .. Len(t) /\ t[Len(s) + 1] = f
    BY <1>1 DEF t
  <2> QED
    BY <1>1, <2>1, HasJob DEF t
<1> QED
  BY <1>2, <1>3, <1>4 DEF t

LEMMA JobsOfInsert ==
    ASSUME NEW s \in Seq(Frame), NEW f \in Frame, ~f.out, NEW n \in 1 .. Len(s) + 1
    PROVE  JobsOf(InsertAt(s, n, f)) = JobsOf(s) \cup {f.pic}
<1>0. /\ InsertAt(s, n, f) \in Seq(Frame) /\ Len(InsertAt(s, n, f)) = Len(s) + 1
      /\ \A i \in 1 .. n - 1 : InsertAt(s, n, f)[i] = s[i]
      /\ InsertAt(s, n, f)[n] = f
      /\ \A i \in n + 1 .. Len(s) + 1 : InsertAt(s, n, f)[i] = s[i - 1]
  <2>1. PICK S : S = Frame
    OBVIOUS
  <2>2. s \in Seq(S) /\ f \in S
    BY <2>1
  <2>3. n \in 1 .. Len(s) + 1
    OBVIOUS
  <2>4. /\ InsertAt(s, n, f) \in Seq(S) /\ Len(InsertAt(s, n, f)) = Len(s) + 1
        /\ \A i \in 1 .. n - 1 : InsertAt(s, n, f)[i] = s[i]
        /\ InsertAt(s, n, f)[n] = f
        /\ \A i \in n + 1 .. Len(s) + 1 : InsertAt(s, n, f)[i] = s[i - 1]
    BY ONLY <2>2, <2>3, InsertElements
  <2> QED
    BY <2>1, <2>4
<1>5. PICK t : t = InsertAt(s, n, f)
  OBVIOUS
<1>1. /\ t \in Seq(Frame) /\ Len(t) = Len(s) + 1
      /\ \A i \in 1 .. n - 1 : t[i] = s[i]
      /\ t[n] = f
      /\ \A i \in n + 1 .. Len(s) + 1 : t[i] = s[i - 1]
  BY <1>0, <1>5
<1>2. ASSUME NEW p, p \in JobsOf(t) PROVE p \in JobsOf(s) \cup {f.pic}
  <2>1. PICK i \in 1 .. Len(t) : ~t[i].out /\ t[i].pic = p
    BY <1>1, <1>2, HasJob
  <2>2. \/ i \in 1 .. Len(s) /\ t[i] = s[i]
        \/ i = n
        \/ i - 1 \in 1 .. Len(s) /\ t[i] = s[i - 1]
    <3>1. i \in 1 .. n - 1 \/ i = n \/ i \in n + 1 .. Len(s) + 1
      BY <1>1
    <3>2. Len(s) \in Nat /\ n \in Nat /\ 1 <= n /\ n <= Len(s) + 1
      OBVIOUS
    <3>3. CASE i \in 1 .. n - 1
      BY <1>1, <3>2, <3>3
    <3>4. CASE i \in n + 1 .. Len(s) + 1
      BY <1>1, <3>2, <3>4
    <3> QED
      BY <3>1, <3>3, <3>4
  <2> QED
    BY <1>1, <2>1, <2>2, HasJob
<1>3. ASSUME NEW p, p \in JobsOf(s) PROVE p \in JobsOf(t)
  <2>1. PICK i \in 1 .. Len(s) : ~s[i].out /\ s[i].pic = p
    BY <1>3, HasJob
  <2>2. \/ i \in 1 .. Len(t) /\ t[i] = s[i]
        \/ i + 1 \in 1 .. Len(t) /\ t[i + 1] = s[i]
    <3>1. CASE i < n
      BY <1>1, <3>1
    <3>2. CASE i >= n
      <4>1. i + 1 \in n + 1 .. Len(s) + 1 /\ (i + 1) - 1 = i
        BY <3>2
      <4> QED
        BY <1>1, <4>1
    <3> QED
      BY <3>1, <3>2
  <2> QED
    BY <1>1, <2>1, <2>2, HasJob
<1>4. f.pic \in JobsOf(t)
  BY <1>1, HasJob
<1> QED
  BY <1>2, <1>3, <1>4, <1>5

LEMMA JobsOfTail ==
    ASSUME NEW s \in Seq(Frame), s # <<>>, ~s[1].out,
           \A i, j \in 1 .. Len(s) : i # j => s[i].pic # s[j].pic
    PROVE  /\ JobsOf(s) = JobsOf(Tail(s)) \cup {s[1].pic}
           /\ s[1].pic \notin JobsOf(Tail(s))
<1> DEFINE t == Tail(s)
<1>1. /\ t \in Seq(Frame) /\ Len(t) = Len(s) - 1 /\ Len(s) \in Nat \ {0}
      /\ \A i \in 1 .. Len(s) - 1 : t[i] = s[i + 1]
  BY TailElements
<1> HIDE DEF t
<1>2. ASSUME NEW p, p \in JobsOf(t) PROVE p \in JobsOf(s) /\ p # s[1].pic
  <2>1. PICK i \in 1 .. Len(t) : ~t[i].out /\ t[i].pic = p
    BY <1>1, <1>2, HasJob
  <2>2. i + 1 \in 1 .. Len(s) /\ 1 \in 1 .. Len(s) /\ i + 1 # 1 /\ t[i] = s[i + 1]
    BY <1>1
  <2> QED
    BY <2>1, <2>2, HasJob
<1>3. ASSUME NEW p, p \in JobsOf(s), p # s[1].pic PROVE p \in JobsOf(t)
  <2>1. PICK i \in 1 .. Len(s) : ~s[i].out /\ s[i].pic = p
    BY <1>3, HasJob
  <2>2. i # 1
    BY <1>3, <2>1
  <2>3. i - 1 \in 1 .. Len(t) /\ (i - 1) + 1 = i
    BY <1>1, <2>2
  <2>4. t[i - 1] = s[i]
    BY <1>1, <2>3
  <2> QED
    BY <1>1, <2>1, <2>3, <2>4, HasJob
<1>4. s[1].pic \in JobsOf(s)
  BY <1>1, HasJob
<1> QED
  BY <1>2, <1>3, <1>4 DEF t

\* The jobs of the frames that leave the queue, and of those that stay.
LEMMA JobsOfParts ==
    ASSUME NEW s \in Seq(Frame), NEW n \in 0 .. Len(s)
    PROVE  LET a == JobsOf(SubSeq(s, 1, n))
               b == JobsOf(SubSeq(s, n + 1, Len(s)))
           IN /\ JobsOf(s) = a \cup b
              /\ n = 0 \/ (\A i, j \in 1 .. Len(s) : i # j => s[i].pic # s[j].pic) => a \cap b = {}
<1> DEFINE q == SubSeq(s, 1, n)
           r == SubSeq(s, n + 1, Len(s))
<1>1. /\ q \in Seq(Frame) /\ Len(q) = n /\ \A i \in 1 .. n : q[i] = s[i]
      /\ r \in Seq(Frame) /\ Len(r) = Len(s) - n /\ \A i \in 1 .. Len(s) - n : r[i] = s[n + i]
  BY PrefixElements, SuffixElements
<1> HIDE DEF q, r
<1>2. ASSUME NEW p, p \in JobsOf(q) PROVE \E i \in 1 .. n : ~s[i].out /\ s[i].pic = p
  BY <1>1, <1>2, HasJob
<1>3. ASSUME NEW p, p \in JobsOf(r) PROVE \E i \in n + 1 .. Len(s) : ~s[i].out /\ s[i].pic = p
  <2>1. PICK i \in 1 .. Len(r) : ~r[i].out /\ r[i].pic = p
    BY <1>1, <1>3, HasJob
  <2>2. n + i \in n + 1 .. Len(s) /\ r[i] = s[n + i]
    BY <1>1
  <2> QED
    BY <2>1, <2>2
<1>4. ASSUME NEW p, p \in JobsOf(s) PROVE p \in JobsOf(q) \cup JobsOf(r)
  <2>1. PICK i \in 1 .. Len(s) : ~s[i].out /\ s[i].pic = p
    BY <1>4, HasJob
  <2>2. CASE i <= n
    <3>1. i \in 1 .. Len(q) /\ q[i] = s[i]
      BY <1>1, <2>2
    <3> QED
      BY <1>1, <2>1, <3>1, HasJob
  <2>3. CASE i > n
    <3>1. i - n \in 1 .. Len(r) /\ n + (i - n) = i
      BY <1>1, <2>3
    <3>2. r[i - n] = s[i]
      BY <1>1, <3>1
    <3> QED
      BY <1>1, <2>1, <3>1, <3>2, HasJob
  <2> QED
    BY <2>2, <2>3
<1>5. JobsOf(s) = JobsOf(q) \cup JobsOf(r)
  <2>1. ASSUME NEW p, p \in JobsOf(q) \cup JobsOf(r) PROVE p \in JobsOf(s)
    <3>1. PICK i \in 1 .. Len(s) : ~s[i].out /\ s[i].pic = p
      <4>1. n \in Nat /\ n <= Len(s) /\ Len(s) \in Nat
        OBVIOUS
      <4> QED
        BY <1>2, <1>3, <2>1, <4>1
    <3> QED
      BY <3>1, HasJob
  <2> QED
    BY <1>4, <2>1
<1>6. ASSUME n = 0 PROVE JobsOf(q) = {}
  <2>1. \A i \in 1 .. n : FALSE
    BY <1>6
  <2> QED
    BY <1>2, <2>1
<1>7. ASSUME \A i, j \in 1 .. Len(s) : i # j => s[i].pic # s[j].pic
      PROVE JobsOf(q) \cap JobsOf(r) = {}
  <2> SUFFICES ASSUME NEW p, p \in JobsOf(q), p \in JobsOf(r) PROVE FALSE
    OBVIOUS
  <2>1. PICK i \in 1 .. n : ~s[i].out /\ s[i].pic = p
    BY <1>2
  <2>2. PICK j \in n + 1 .. Len(s) : ~s[j].out /\ s[j].pic = p
    BY <1>3
  <2>3. i \in 1 .. Len(s) /\ j \in 1 .. Len(s) /\ i # j
    OBVIOUS
  <2> QED
    BY <1>7, <2>1, <2>2, <2>3
<1> QED
  BY <1>5, <1>6, <1>7 DEF q, r

LEMMA JobsHanded ==
    ASSUME queue \in Seq(Frame), \A i \in 1 .. Len(queue) : IsFrame(queue[i]), NEW pic, Hand(pic)
    PROVE  JobsOf(queue') = JobsOf(queue) \ {pic}
<1>1. /\ queue' \in Seq(Frame) /\ Len(queue') = Len(queue)
      /\ \A i \in 1 .. Len(queue) :
             /\ queue'[i].pic = queue[i].pic
             /\ queue'[i].out <=> queue[i].out \/ queue[i].pic = pic
  BY Handed
<1>2. \A s \in Seq(Frame) : \A p : p \in JobsOf(s) <=> \E i \in 1 .. Len(s) : ~s[i].out /\ s[i].pic = p
  BY HasJob
<1> DEFINE q == queue
           r == queue'
<1>3. q \in Seq(Frame) /\ r \in Seq(Frame)
  BY <1>1
<1>4. ASSUME NEW p PROVE p \in JobsOf(r) <=> p \in JobsOf(q) \ {pic}
  <2>1. p \in JobsOf(q) <=> \E i \in 1 .. Len(q) : ~q[i].out /\ q[i].pic = p
    BY ONLY <1>2, <1>3
  <2>2. p \in JobsOf(r) <=> \E i \in 1 .. Len(r) : ~r[i].out /\ r[i].pic = p
    BY ONLY <1>2, <1>3
  <2> QED
    BY <1>1, <2>1, <2>2
<1> QED
  BY <1>4

Out == [pic : Nat, ok : BOOLEAN]
Pics(out) == {out[i].pic : i \in DOMAIN out}
Distinct(s) == \A i, j \in 1 .. Len(s) : i # j => s[i].pic # s[j].pic

LEMMA DistinctAppend ==
    ASSUME NEW S, NEW s \in Seq(S), Distinct(s), NEW e \in S,
           \A i \in 1 .. Len(s) : s[i].pic # e.pic
    PROVE  Distinct(Append(s, e))
<1>1. /\ Len(s) \in Nat /\ Len(Append(s, e)) = Len(s) + 1
      /\ \A i \in 1 .. Len(s) : Append(s, e)[i] = s[i]
      /\ Append(s, e)[Len(s) + 1] = e
  BY AppendElements
<1> DEFINE t == Append(s, e)
<1> HIDE DEF t
<1>2. ASSUME NEW i \in 1 .. Len(t), NEW j \in 1 .. Len(t), i # j PROVE t[i].pic # t[j].pic
  <2>1. (i \in 1 .. Len(s) \/ i = Len(s) + 1) /\ (j \in 1 .. Len(s) \/ j = Len(s) + 1)
    BY <1>1 DEF t
  <2> QED
    BY <1>1, <1>2, <2>1 DEF t, Distinct
<1> QED
  BY <1>2 DEF t, Distinct

LEMMA DistinctTail ==
    ASSUME NEW S, NEW s \in Seq(S), s # <<>>, Distinct(s)
    PROVE  Distinct(Tail(s)) /\ \A i \in 1 .. Len(Tail(s)) : Tail(s)[i].pic # s[1].pic
<1>1. /\ Len(s) \in Nat \ {0} /\ Len(Tail(s)) = Len(s) - 1
      /\ \A i \in 1 .. Len(s) - 1 : Tail(s)[i] = s[i + 1]
  BY TailElements
<1> DEFINE t == Tail(s)
<1> HIDE DEF t
<1>2. \A i \in 1 .. Len(t) : i + 1 \in 1 .. Len(s) /\ t[i] = s[i + 1] /\ i + 1 # 1 /\ 1 \in 1 .. Len(s)
  BY <1>1 DEF t
<1>3. ASSUME NEW i \in 1 .. Len(t) PROVE t[i].pic # s[1].pic
  BY <1>2 DEF Distinct
<1>4. ASSUME NEW i \in 1 .. Len(t), NEW j \in 1 .. Len(t), i # j PROVE t[i].pic # t[j].pic
  <2>1. i + 1 # j + 1
    BY <1>1, <1>4 DEF t
  <2> QED
    BY <1>2, <2>1 DEF Distinct
<1> QED
  BY <1>3, <1>4 DEF t, Distinct

LEMMA IsOutput ==
    ASSUME NEW s \in Seq(Out), NEW p
    PROVE  /\ p \in Pics(s) <=> \E i \in 1 .. Len(s) : s[i].pic = p
           /\ p \in Ready(s) <=> \E i \in 1 .. Len(s) : s[i].ok /\ s[i].pic = p
BY DEF Pics, Ready

LEMMA OutputAppend ==
    ASSUME NEW s \in Seq(Out), Distinct(s), NEW pic \in Nat, pic \notin Pics(s)
    PROVE  LET t == Append(s, [pic |-> pic, ok |-> TRUE])
           IN /\ t \in Seq(Out) /\ Distinct(t)
              /\ Pics(t) = Pics(s) \cup {pic} /\ Ready(t) = Ready(s) \cup {pic}
<1> DEFINE e == [pic |-> pic, ok |-> TRUE]
           t == Append(s, e)
<1>1. e \in Out /\ e.pic = pic /\ e.ok
  BY DEF Out
<1> HIDE DEF e
<1>2. /\ Append(s, e) \in Seq(Out) /\ Len(Append(s, e)) = Len(s) + 1
      /\ \A i \in 1 .. Len(s) : Append(s, e)[i] = s[i]
      /\ Append(s, e)[Len(s) + 1] = e
  BY <1>1, AppendElements
<1>3. Distinct(Append(s, e))
  <2>1. \A i \in 1 .. Len(s) : s[i].pic # e.pic
    BY <1>1, IsOutput
  <2> QED
    BY <1>1, <2>1, DistinctAppend
<1> HIDE DEF t
<1>4. t \in Seq(Out) /\ Len(t) = Len(s) + 1 /\ Len(s) \in Nat
  BY <1>2 DEF t
<1>5. \A i \in 1 .. Len(t) : (i \in 1 .. Len(s) /\ t[i] = s[i]) \/ (i = Len(s) + 1 /\ t[i] = e)
  BY <1>2, <1>4 DEF t
<1>6. \A i \in 1 .. Len(s) : i \in 1 .. Len(t) /\ t[i] = s[i]
  BY <1>2, <1>4 DEF t
<1>7. Len(s) + 1 \in 1 .. Len(t) /\ t[Len(s) + 1] = e
  BY <1>2, <1>4 DEF t
<1>8. Pics(t) = Pics(s) \cup {pic}
  <2>1. ASSUME NEW p PROVE p \in Pics(t) <=> p \in Pics(s) \cup {pic}
    <3>1. p \in Pics(t) <=> \E i \in 1 .. Len(t) : t[i].pic = p
      BY <1>4, IsOutput
    <3>2. p \in Pics(s) <=> \E i \in 1 .. Len(s) : s[i].pic = p
      BY IsOutput
    <3> QED
      BY <1>1, <1>5, <1>6, <1>7, <3>1, <3>2
  <2> QED
    BY <2>1
<1>9. Ready(t) = Ready(s) \cup {pic}
  <2>1. ASSUME NEW p PROVE p \in Ready(t) <=> p \in Ready(s) \cup {pic}
    <3>1. p \in Ready(t) <=> \E i \in 1 .. Len(t) : t[i].ok /\ t[i].pic = p
      BY <1>4, IsOutput
    <3>2. p \in Ready(s) <=> \E i \in 1 .. Len(s) : s[i].ok /\ s[i].pic = p
      BY IsOutput
    <3> QED
      BY <1>1, <1>5, <1>6, <1>7, <3>1, <3>2
  <2> QED
    BY <2>1
<1> QED
  BY <1>3, <1>4, <1>8, <1>9 DEF t, e

LEMMA OutputAlone ==
    ASSUME NEW pic \in Nat
    PROVE  LET t == <<[pic |-> pic, ok |-> FALSE]>>
           IN t \in Seq(Out) /\ Distinct(t) /\ Pics(t) = {pic} /\ Ready(t) = {}
<1> DEFINE e == [pic |-> pic, ok |-> FALSE]
<1>1. e \in Out /\ e.pic = pic /\ ~e.ok
  BY DEF Out
<1> HIDE DEF e
<1>2. <<e>> \in Seq(Out) /\ Len(<<e>>) = 1 /\ <<e>>[1] = e
  BY <1>1
<1>3. Distinct(<<e>>)
  BY <1>2 DEF Distinct
<1> DEFINE t == <<e>>
<1> HIDE DEF t
<1>4. t \in Seq(Out) /\ (\A i \in 1 .. Len(t) : t[i] = e) /\ 1 \in 1 .. Len(t)
  BY <1>2 DEF t
<1>5. ASSUME NEW p PROVE (p \in Pics(t) <=> p = pic) /\ p \notin Ready(t)
  <2>1. p \in Pics(t) <=> \E i \in 1 .. Len(t) : t[i].pic = p
    BY <1>4, IsOutput
  <2>2. p \in Ready(t) <=> \E i \in 1 .. Len(t) : t[i].ok /\ t[i].pic = p
    BY <1>4, IsOutput
  <2> QED
    BY <1>1, <1>4, <2>1, <2>2
<1>6. Pics(t) = {pic} /\ Ready(t) = {}
  BY <1>5
<1> QED
  BY <1>2, <1>3, <1>6 DEF t, e

LEMMA OutputTail ==
    ASSUME NEW s \in Seq(Out), s # <<>>, Distinct(s)
    PROVE  /\ Tail(s) \in Seq(Out) /\ Distinct(Tail(s)) /\ Head(s) \in Out
           /\ Pics(s) = Pics(Tail(s)) \cup {Head(s).pic} /\ Head(s).pic \notin Pics(Tail(s))
           /\ Ready(Tail(s)) \subseteq Ready(s)
           /\ Head(s).ok => Head(s).pic \in Ready(s)
<1>1. /\ Tail(s) \in Seq(Out) /\ Len(Tail(s)) = Len(s) - 1 /\ Len(s) \in Nat \ {0}
      /\ \A i \in 1 .. Len(s) - 1 : Tail(s)[i] = s[i + 1]
      /\ Head(s) = s[1] /\ Head(s) \in Out
  BY TailElements
<1>2. Distinct(Tail(s)) /\ \A i \in 1 .. Len(Tail(s)) : Tail(s)[i].pic # s[1].pic
  BY DistinctTail
<1> DEFINE t == Tail(s)
           h == Head(s)
<1> HIDE DEF t, h
<1>3. t \in Seq(Out) /\ h = s[1]
  BY <1>1 DEF t, h
<1>4. \A i \in 1 .. Len(t) : i + 1 \in 1 .. Len(s) /\ t[i] = s[i + 1] /\ t[i].pic # s[1].pic
  BY <1>1, <1>2 DEF t
<1>5. \A i \in 1 .. Len(s) : i = 1 \/ (i - 1 \in 1 .. Len(t) /\ t[i - 1] = s[i])
  <2>1. ASSUME NEW i \in 1 .. Len(s), i # 1 PROVE i - 1 \in 1 .. Len(t) /\ t[i - 1] = s[i]
    <3>1. i - 1 \in 1 .. Len(s) - 1 /\ (i - 1) + 1 = i
      BY <1>1, <2>1
    <3> QED
      BY <1>1, <3>1 DEF t
  <2> QED
    BY <2>1
<1>6. 1 \in 1 .. Len(s)
  BY <1>1
<1>7. ASSUME NEW p
      PROVE /\ p \in Pics(s) <=> p \in Pics(t) \cup {h.pic}
            /\ p \in Ready(t) => p \in Ready(s)
  <2>1. /\ p \in Pics(t) <=> \E i \in 1 .. Len(t) : t[i].pic = p
        /\ p \in Ready(t) <=> \E i \in 1 .. Len(t) : t[i].ok /\ t[i].pic = p
    BY <1>3, IsOutput
  <2>2. /\ p \in Pics(s) <=> \E i \in 1 .. Len(s) : s[i].pic = p
        /\ p \in Ready(s) <=> \E i \in 1 .. Len(s) : s[i].ok /\ s[i].pic = p
    BY IsOutput
  <2>3. p \in Pics(s) => p \in Pics(t) \cup {h.pic}
    BY <1>3, <1>5, <2>1, <2>2
  <2>4. p \in Pics(t) \cup {h.pic} => p \in Pics(s)
    BY <1>3, <1>4, <1>6, <2>1, <2>2
  <2>5. p \in Ready(t) => p \in Ready(s)
    BY <1>3, <1>4, <2>1, <2>2
  <2> QED
    BY <2>3, <2>4, <2>5
<1>8. Pics(s) = Pics(t) \cup {h.pic}
  BY <1>7
<1>9. Ready(t) \subseteq Ready(s)
  BY <1>7
<1>10. h.pic \notin Pics(t)
  BY <1>3, <1>4, IsOutput
<1>11. h.ok => h.pic \in Ready(s)
  BY <1>3, <1>6, IsOutput
<1> QED
  BY <1>1, <1>2, <1>8, <1>9, <1>10, <1>11 DEF t, h

\* The places of a job: the queue of the application, the lookahead thread, the cuTree thread
\* (its input, its hand, its queue), the output queue and pass 2.
LaHas == {laJob} \ {None}
Handled == IF cpc = "handle" THEN {frame.pic} ELSE {}
AppHas == {held} \ {None}
InPlaces == jobs \cup LaHas \cup JobsOf(ctJobs) \cup Handled \cup JobsOf(queue) \cup Pics(output) \cup AppHas
Apart(a, b, c, d, e, f, g) == /\ a \cap (b \cup c \cup d \cup e \cup f \cup g) = {}
                              /\ b \cap (c \cup d \cup e \cup f \cup g) = {}
                              /\ c \cap (d \cup e \cup f \cup g) = {}
                              /\ d \cap (e \cup f \cup g) = {}
                              /\ e \cap (f \cup g) = {}
                              /\ f \cap g = {}
TokenInv ==
    /\ output \in Seq(Out) /\ Distinct(output) /\ Distinct(ctJobs)
    /\ Apart(jobs, LaHas, JobsOf(ctJobs), Handled, JobsOf(queue), Pics(output), AppHas)
    /\ inUse \subseteq 0 .. fed - 1 /\ InPlaces \subseteq inUse
    /\ BeforeStop => inUse = InPlaces
    /\ Ready(output) \subseteq roi /\ AppHas \subseteq roi
    /\ held \in Int /\ (held # None <=> mpc = "pass2")

LEMMA TokenInit == Init => TokenInv
<1> SUFFICES ASSUME Init PROVE TokenInv
  OBVIOUS
<1>1. JobsOf(ctJobs) = {} /\ JobsOf(queue) = {} /\ Pics(output) = {} /\ Ready(output) = {}
  BY DEF Init, JobsOf, Pics, Ready
<1>2. jobs = {} /\ LaHas = {} /\ Handled = {} /\ AppHas = {} /\ inUse = {} /\ roi = {} /\ held = None /\ mpc = "ready"
  BY DEF Init, LaHas, Handled, AppHas
<1>3. Distinct(output) /\ Distinct(ctJobs) /\ output \in Seq(Out)
  BY DEF Init, Distinct
<1> QED
  BY <1>1, <1>2, <1>3 DEF TokenInv, Apart, InPlaces, None

\* Three sets change at most; the invariant is about the new ones.
LEMMA TokenKept ==
    ASSUME TokenInv, UNCHANGED <<fed, jobs, laJob, ctJobs, queue, frame, output, roi, inUse, held>>,
           cpc' = "handle" <=> cpc = "handle", mpc' = "pass2" <=> mpc = "pass2", BeforeStop' => BeforeStop
    PROVE  TokenInv'
<1>1. LaHas' = LaHas /\ Handled' = Handled /\ AppHas' = AppHas /\ JobsOf(ctJobs)' = JobsOf(ctJobs)
      /\ JobsOf(queue)' = JobsOf(queue) /\ Pics(output)' = Pics(output) /\ Ready(output)' = Ready(output)
  BY DEF LaHas, Handled, AppHas, JobsOf, Pics, Ready
<1>2. Distinct(output)' /\ Distinct(ctJobs)'
  BY DEF TokenInv, Distinct
<1> QED
  BY <1>1, <1>2 DEF TokenInv, InPlaces

LEMMA TokenOthers ==
    ASSUME StopInv, ParkInv, TokenInv, [Next]_vars, ~AddPictureToLookahead, ~GetLookaheadOutput, ~EncodePass2,
           ~AwaitAnyJob, ~AwaitJob, ~EncodePass1, ~AwaitFrame, ~TakeFrame, ~HandleInputFrame,
           ~WriteFrame, ~RemoveFrames, ~EndCuTree
    PROVE  TokenInv'
<1> USE WakesKeepPlace
<1>1. CASE Flush
  <2>1. UNCHANGED <<fed, jobs, laJob, ctJobs, queue, frame, output, roi, inUse, held>>
    BY <1>1 DEF Flush, ctVars, laVars, jobVars, feedVars, outVars
  <2>2. (cpc' = "handle" <=> cpc = "handle") /\ (mpc' = "pass2" <=> mpc = "pass2") /\ (BeforeStop' => BeforeStop)
    BY <1>1 DEF Flush, ctVars, laVars, jobVars, feedVars, outVars, BeforeStop
  <2> QED
    BY <2>1, <2>2, TokenKept
<1>2. CASE FlushNothing
  <2>1. UNCHANGED <<fed, jobs, laJob, ctJobs, queue, frame, output, roi, inUse, held>>
    BY <1>2 DEF FlushNothing, ctVars, laVars, jobVars, feedVars, outVars
  <2>2. (cpc' = "handle" <=> cpc = "handle") /\ (mpc' = "pass2" <=> mpc = "pass2") /\ (BeforeStop' => BeforeStop)
    BY <1>2 DEF FlushNothing, ctVars, laVars, jobVars, feedVars, outVars, BeforeStop
  <2> QED
    BY <2>1, <2>2, TokenKept
<1>3. CASE Release
  <2>1. UNCHANGED <<fed, jobs, laJob, ctJobs, queue, frame, output, roi, inUse, held>>
    BY <1>3 DEF Release, MainElse, ctVars, laVars, jobVars, feedVars, outVars
  <2>2. (cpc' = "handle" <=> cpc = "handle") /\ (mpc' = "pass2" <=> mpc = "pass2") /\ (BeforeStop' => BeforeStop)
    BY <1>3 DEF Release, MainElse, ctVars, laVars, jobVars, feedVars, outVars, BeforeStop
  <2> QED
    BY <2>1, <2>2, TokenKept
<1>4. CASE StopLookaheadThread
  <2>1. UNCHANGED <<fed, jobs, laJob, ctJobs, queue, frame, output, roi, inUse, held>>
    BY <1>4 DEF StopLookaheadThread, MainElse, ctVars, jobVars, feedVars, outVars
  <2>2. (cpc' = "handle" <=> cpc = "handle") /\ (mpc' = "pass2" <=> mpc = "pass2") /\ (BeforeStop' => BeforeStop)
    BY <1>4 DEF StopLookaheadThread, MainElse, ctVars, jobVars, feedVars, outVars, BeforeStop
  <2> QED
    BY <2>1, <2>2, TokenKept
<1>5. CASE StopCuTreeThread
  <2>1. UNCHANGED <<fed, jobs, laJob, ctJobs, queue, frame, output, roi, inUse, held>>
    BY <1>5 DEF StopCuTreeThread, MainElse, laVars, jobVars, feedVars, outVars
  <2>2. (cpc' = "handle" <=> cpc = "handle") /\ (mpc' = "pass2" <=> mpc = "pass2") /\ (BeforeStop' => BeforeStop)
    BY <1>5 DEF StopCuTreeThread, MainElse, laVars, jobVars, feedVars, outVars, BeforeStop
  <2> QED
    BY <2>1, <2>2, TokenKept
<1>6. CASE TerminateLookaheadThread
  <2>1. UNCHANGED <<fed, jobs, laJob, ctJobs, queue, frame, output, roi, inUse, held>>
    BY <1>6
      DEF TerminateLookaheadThread, TerminatedStatus, MainElse, ctVars, jobVars, feedVars,
          outVars
  <2>2. (cpc' = "handle" <=> cpc = "handle") /\ (mpc' = "pass2" <=> mpc = "pass2") /\ (BeforeStop' => BeforeStop)
    BY <1>6
      DEF TerminateLookaheadThread, TerminatedStatus, MainElse, ctVars, jobVars, feedVars,
          outVars,
       BeforeStop
  <2> QED
    BY <2>1, <2>2, TokenKept
<1>7. CASE TerminateCuTreeThread
  <2>1. UNCHANGED <<fed, jobs, laJob, ctJobs, queue, frame, output, roi, inUse, held>>
    BY <1>7
      DEF TerminateCuTreeThread, TerminatedStatus, MainElse, laVars, jobVars, feedVars, outVars
  <2>2. (cpc' = "handle" <=> cpc = "handle") /\ (mpc' = "pass2" <=> mpc = "pass2") /\ (BeforeStop' => BeforeStop)
    BY <1>7
      DEF TerminateCuTreeThread, TerminatedStatus, MainElse, laVars, jobVars, feedVars, outVars,
       BeforeStop
  <2> QED
    BY <2>1, <2>2, TokenKept
<1>8. CASE LookaheadLoop
  <2>1. UNCHANGED <<fed, jobs, laJob, ctJobs, queue, frame, output, roi, inUse, held>>
    BY <1>8 DEF LookaheadLoop, LaElse, CtElse, jobVars, outVars
  <2>2. (cpc' = "handle" <=> cpc = "handle") /\ (mpc' = "pass2" <=> mpc = "pass2") /\ (BeforeStop' => BeforeStop)
    BY <1>8 DEF LookaheadLoop, LaElse, CtElse, jobVars, outVars, BeforeStop
  <2> QED
    BY <2>1, <2>2, TokenKept
<1>9. CASE TakeJob
  <2>1. UNCHANGED <<fed, jobs, laJob, ctJobs, queue, frame, output, roi, inUse, held>>
    BY <1>9 DEF TakeJob, LaElse, CtElse, jobVars, outVars
  <2>2. (cpc' = "handle" <=> cpc = "handle") /\ (mpc' = "pass2" <=> mpc = "pass2") /\ (BeforeStop' => BeforeStop)
    BY <1>9 DEF TakeJob, LaElse, CtElse, jobVars, outVars, BeforeStop
  <2> QED
    BY <2>1, <2>2, TokenKept
<1>10. CASE WaitCuInfoBuf
  <2>1. UNCHANGED <<fed, jobs, laJob, ctJobs, queue, frame, output, roi, inUse, held>>
    BY <1>10 DEF WaitCuInfoBuf, LaElse, jobVars, outVars
  <2>2. (cpc' = "handle" <=> cpc = "handle") /\ (mpc' = "pass2" <=> mpc = "pass2") /\ (BeforeStop' => BeforeStop)
    BY <1>10 DEF WaitCuInfoBuf, LaElse, jobVars, outVars, BeforeStop
  <2> QED
    BY <2>1, <2>2, TokenKept
<1>11. CASE AfterAddFrame
  <2>1. UNCHANGED <<fed, jobs, laJob, ctJobs, queue, frame, output, roi, inUse, held>>
    BY <1>11 DEF AfterAddFrame, LaElse, CtElse, jobVars, outVars
  <2>2. (cpc' = "handle" <=> cpc = "handle") /\ (mpc' = "pass2" <=> mpc = "pass2") /\ (BeforeStop' => BeforeStop)
    BY <1>11 DEF AfterAddFrame, LaElse, CtElse, jobVars, outVars, BeforeStop
  <2> QED
    BY <2>1, <2>2, TokenKept
<1>12. CASE EndLookahead
  <2>1. UNCHANGED <<fed, jobs, laJob, ctJobs, queue, frame, output, roi, inUse, held>>
    BY <1>12 DEF EndLookahead, PassOneDone, Woken, LaElse, CtElse, jobVars, outVars
  <2>2. (cpc' = "handle" <=> cpc = "handle") /\ (mpc' = "pass2" <=> mpc = "pass2") /\ (BeforeStop' => BeforeStop)
    BY <1>12 DEF EndLookahead, PassOneDone, Woken, LaElse, CtElse, jobVars, outVars, BeforeStop
  <2> QED
    BY <2>1, <2>2, TokenKept
<1>13. CASE CuTreeLoop
  <2>1. UNCHANGED <<fed, jobs, laJob, ctJobs, queue, frame, output, roi, inUse, held>>
    BY <1>13 DEF CuTreeLoop, CtKeeps, jobVars, feedVars, outVars
  <2>2. (cpc' = "handle" <=> cpc = "handle") /\ (mpc' = "pass2" <=> mpc = "pass2") /\ (BeforeStop' => BeforeStop)
    BY <1>13 DEF CuTreeLoop, CtKeeps, jobVars, feedVars, outVars, BeforeStop
  <2> QED
    BY <2>1, <2>2, TokenKept
<1>14. CASE Process
  <2>1. UNCHANGED <<fed, jobs, laJob, ctJobs, queue, frame, output, roi, inUse, held>>
    BY <1>14 DEF Process, ProcessOneFrame, CtKeeps, jobVars, feedVars, outVars
  <2>2. (cpc' = "handle" <=> cpc = "handle") /\ (mpc' = "pass2" <=> mpc = "pass2") /\ (BeforeStop' => BeforeStop)
    BY <1>14 DEF Process, ProcessOneFrame, CtKeeps, jobVars, feedVars, outVars, BeforeStop
  <2> QED
    BY <2>1, <2>2, TokenKept
<1>15. CASE UNCHANGED vars
  <2>1. UNCHANGED <<fed, jobs, laJob, ctJobs, queue, frame, output, roi, inUse, held>>
    BY <1>15 DEF vars, mainVars, laVars, ctVars, jobVars, feedVars, outVars
  <2>2. (cpc' = "handle" <=> cpc = "handle") /\ (mpc' = "pass2" <=> mpc = "pass2") /\ (BeforeStop' => BeforeStop)
    BY <1>15 DEF vars, mainVars, laVars, ctVars, jobVars, feedVars, outVars, BeforeStop
  <2> QED
    BY <2>1, <2>2, TokenKept
<1> QED
  BY <1>1, <1>2, <1>3, <1>4, <1>5, <1>6, <1>7, <1>8, <1>9, <1>10, <1>11, <1>12, <1>13, <1>14,
     <1>15 DEF Next, CallStep, LookaheadStep, CutreeStep

\* The application and the lookahead thread: a job moves to the next place, or a place is
\* cleared and its jobs go back to the pool.
LEMMA TokenFed ==
    ASSUME Pass1Inv, TokenInv, AddPictureToLookahead
    PROVE  TokenInv'
<1>1. /\ UNCHANGED <<laJob, ctJobs, queue, frame, output, roi, held, cpc>>
      /\ jobs' = jobs \cup {fed} /\ inUse' = inUse \cup {fed} /\ fed' = fed + 1
      /\ mpc = "ready" /\ mpc' \in {"get", "ready"}
  BY DEF AddPictureToLookahead, ctVars, feedVars
<1>2. /\ LaHas' = LaHas /\ Handled' = Handled /\ AppHas' = AppHas /\ JobsOf(ctJobs)' = JobsOf(ctJobs)
      /\ JobsOf(queue)' = JobsOf(queue) /\ Pics(output)' = Pics(output) /\ Ready(output)' = Ready(output)
      /\ Distinct(output)' /\ Distinct(ctJobs)'
  <2>1. Distinct(output)' /\ Distinct(ctJobs)'
    BY <1>1 DEF TokenInv, Distinct
  <2> QED
    BY <1>1, <2>1 DEF LaHas, Handled, AppHas, JobsOf, Pics, Ready
<1>3. fed \in Nat /\ fed \notin inUse /\ inUse' \subseteq 0 .. fed' - 1
  BY <1>1 DEF TokenInv, Pass1Inv, LaTypes
<1>4. InPlaces' = InPlaces \cup {fed}
  BY <1>1, <1>2 DEF InPlaces
<1>5. Apart(jobs, LaHas, JobsOf(ctJobs), Handled, JobsOf(queue), Pics(output), AppHas)'
  BY <1>1, <1>2, <1>3 DEF TokenInv, Apart, InPlaces
<1>6. BeforeStop
  BY <1>1 DEF BeforeStop
<1> QED
  BY <1>1, <1>2, <1>3, <1>4, <1>5, <1>6 DEF TokenInv

LEMMA TokenSought ==
    ASSUME StopInv, ParkInv, Pass1Inv, TokenInv, AwaitAnyJob \/ AwaitJob
    PROVE  TokenInv'
<1> USE WakesKeepPlace
<1>1. /\ UNCHANGED <<fed, ctJobs, queue, frame, output, roi, held, cpc>>
      /\ (mpc' = "pass2" <=> mpc = "pass2") /\ (BeforeStop' => BeforeStop)
  BY DEF AwaitAnyJob, AwaitJob, ParkLookahead, Woken, LaElse, CtElse, BeforeStop
<1>2. /\ Handled' = Handled /\ AppHas' = AppHas /\ JobsOf(ctJobs)' = JobsOf(ctJobs)
      /\ JobsOf(queue)' = JobsOf(queue) /\ Pics(output)' = Pics(output) /\ Ready(output)' = Ready(output)
      /\ Distinct(output)' /\ Distinct(ctJobs)'
  BY <1>1 DEF Handled, AppHas, JobsOf, Pics, Ready, TokenInv, Distinct
<1>3. \/ UNCHANGED <<jobs, laJob, inUse>>
      \/ FindJob /\ laJob = None /\ inUse' = inUse
      \/ jobs' = {} /\ inUse' = inUse \ jobs /\ laJob' = laJob /\ ~BeforeStop
      \/ jobs' = {} /\ inUse' = inUse \ (jobs \cup {laJob}) /\ laJob' = None /\ ~BeforeStop
  BY
    DEF AwaitAnyJob, AwaitJob, ParkLookahead, ClearJobs, jobVars, Pass1Inv, JobFound, InPass1,
        StopInv,
     ParkInv,
     StopPhase, BeforeStop
<1>5. CASE UNCHANGED <<jobs, laJob, inUse>>
  BY <1>1, <1>5, TokenKept
<1>6. CASE FindJob /\ laJob = None /\ inUse' = inUse
  <2>1. jobs' \cup LaHas' = jobs \cup LaHas /\ jobs' \cap LaHas' = {} /\ LaHas = {}
    <3>1. None \notin jobs
      BY DEF Pass1Inv, LaTypes, None
    <3> QED
      BY <1>6, <3>1 DEF FindJob, LaHas
  <2>2. InPlaces' = InPlaces
    BY <1>2, <2>1 DEF InPlaces
  <2>3. Apart(jobs, LaHas, JobsOf(ctJobs), Handled, JobsOf(queue), Pics(output), AppHas)'
    BY <1>2, <2>1 DEF TokenInv, Apart
  <2> QED
    BY <1>1, <1>2, <1>6, <2>2, <2>3 DEF TokenInv
<1>7. CASE jobs' = {} /\ inUse' = inUse \ jobs /\ laJob' = laJob /\ ~BeforeStop
  <2>1. LaHas' = LaHas
    BY <1>7 DEF LaHas
  <2>2. InPlaces' = InPlaces \ jobs
    BY <1>2, <1>7, <2>1 DEF InPlaces, TokenInv, Apart
  <2>3. Apart(jobs, LaHas, JobsOf(ctJobs), Handled, JobsOf(queue), Pics(output), AppHas)'
    BY <1>2, <1>7, <2>1 DEF TokenInv, Apart
  <2> QED
    BY <1>1, <1>2, <1>7, <2>2, <2>3 DEF TokenInv
<1>8. CASE jobs' = {} /\ inUse' = inUse \ (jobs \cup {laJob}) /\ laJob' = None /\ ~BeforeStop
  <2>1. LaHas' = {}
    BY <1>8 DEF LaHas
  <2>2. InPlaces' = InPlaces \ (jobs \cup LaHas)
    BY <1>2, <1>8, <2>1 DEF InPlaces, TokenInv, Apart
  <2>3. Apart(jobs, LaHas, JobsOf(ctJobs), Handled, JobsOf(queue), Pics(output), AppHas)'
    BY <1>2, <1>8, <2>1 DEF TokenInv, Apart
  <2>4. InPlaces \subseteq inUse /\ inUse \subseteq 0 .. fed - 1 /\ -1 \notin 0 .. fed - 1 /\ None = -1
    BY DEF TokenInv, None
  <2>5. InPlaces' \subseteq inUse'
    BY <1>8, <2>2, <2>4 DEF LaHas
  <2> QED
    BY <1>1, <1>2, <1>8, <2>3, <2>5 DEF TokenInv
<1> QED
  BY <1>3, <1>5, <1>6, <1>7, <1>8

LEMMA TokenPass1 ==
    ASSUME Pass1Inv, FramesInv, TokenInv, EncodePass1
    PROVE  TokenInv'
<1> USE WakesKeepPlace
<1>1. /\ UNCHANGED <<fed, jobs, queue, frame, roi, held>> /\ lpc = "pass1" /\ laJob' = None
      /\ (cpc' = "handle" <=> cpc = "handle") /\ (mpc' = "pass2" <=> mpc = "pass2") /\ (BeforeStop' => BeforeStop)
  BY DEF EncodePass1, jobVars, Enqueue, BeforeStop
<1>2. Handled' = Handled /\ AppHas' = AppHas /\ JobsOf(queue)' = JobsOf(queue) /\ LaHas' = {}
  BY <1>1 DEF Handled, AppHas, JobsOf, LaHas
<1>3. laJob = want.pic /\ laJob \in Nat /\ LaHas = {laJob} /\ laJob \in InPlaces
  <2>1. laJob = want.pic /\ laJob # None
    BY <1>1 DEF Pass1Inv, JobFound, InPass1
  <2>2. LaHas = {laJob} /\ laJob \in InPlaces
    BY <2>1 DEF LaHas, InPlaces
  <2>3. InPlaces \subseteq inUse /\ inUse \subseteq 0 .. fed - 1 /\ fed \in Nat
    BY DEF TokenInv, Pass1Inv, LaTypes
  <2> QED
    BY <2>1, <2>2, <2>3
<1>4. want \in Frame /\ ~want.out /\ ctJobs \in Seq(Frame)
  BY DEF Pass1Inv, LaTypes, IsPic, IsFrame, FramesInv, FramesTyped
<1>5. CASE ctJobs' = Append(ctJobs, want) /\ UNCHANGED <<mpc, output, inUse>>
  <2>1. JobsOf(ctJobs)' = JobsOf(ctJobs) \cup {laJob}
    BY <1>3, <1>4, <1>5, JobsOfAppend
  <2>2. Pics(output)' = Pics(output) /\ Ready(output)' = Ready(output) /\ Distinct(output)'
    BY <1>5 DEF Pics, Ready, TokenInv, Distinct
  <2>3. Distinct(ctJobs)'
    <3>1. laJob \notin JobsOf(ctJobs)
      BY <1>3 DEF TokenInv, Apart
    <3>2. \A i \in 1 .. Len(ctJobs) : ctJobs[i].pic # want.pic
      BY <1>3, <1>4, <3>1, HasJob DEF FramesInv, FramesTyped, IsPic
    <3>3. Distinct(ctJobs) /\ Distinct(Append(ctJobs, want))
      BY <1>4, <3>2, DistinctAppend DEF TokenInv
    <3>4. (Len(ctJobs))' = Len(Append(ctJobs, want)) /\ ctJobs' = Append(ctJobs, want)
      BY <1>5
    <3> QED
      BY <3>3, <3>4 DEF Distinct
  <2>4. InPlaces' = InPlaces
    BY <1>1, <1>2, <1>3, <2>1, <2>2 DEF InPlaces
  <2>5. Apart(jobs, LaHas, JobsOf(ctJobs), Handled, JobsOf(queue), Pics(output), AppHas)'
    BY <1>1, <1>2, <1>3, <2>1, <2>2 DEF TokenInv, Apart
  <2> QED
    BY <1>1, <1>2, <1>5, <2>2, <2>3, <2>4, <2>5 DEF TokenInv
<1>6. CASE Enqueue(laJob, FALSE) /\ ctJobs' = ctJobs
  <2>1. output' = <<[pic |-> laJob, ok |-> FALSE]>> /\ inUse' = inUse \ Pics(output)
    BY <1>6 DEF Enqueue, Pics
  <2>2. output' \in Seq(Out) /\ Distinct(output') /\ Pics(output') = {laJob} /\ Ready(output') = {}
    BY <1>3, <2>1, OutputAlone
  <2>3. JobsOf(ctJobs)' = JobsOf(ctJobs) /\ Distinct(ctJobs)' /\ Pics(output)' = {laJob} /\ Distinct(output)'
        /\ Ready(output)' = {}
    <3>1. JobsOf(ctJobs)' = JobsOf(ctJobs)
      BY <1>6 DEF JobsOf
    <3>2. Distinct(ctJobs)'
      BY <1>6 DEF Distinct, TokenInv
    <3>3. Pics(output)' = Pics(output') /\ Ready(output)' = Ready(output')
      BY DEF Pics, Ready
    <3>4. Distinct(output)'
      BY <2>2 DEF Distinct
    <3> QED
      BY <2>2, <3>1, <3>2, <3>3, <3>4
  <2>4. InPlaces' = InPlaces \ Pics(output)
    BY <1>1, <1>2, <1>3, <2>3 DEF InPlaces, TokenInv, Apart
  <2>5. Apart(jobs, LaHas, JobsOf(ctJobs), Handled, JobsOf(queue), Pics(output), AppHas)'
    BY <1>1, <1>2, <1>3, <2>3 DEF TokenInv, Apart
  <2> QED
    BY <1>1, <1>2, <2>1, <2>2, <2>3, <2>4, <2>5 DEF TokenInv
<1> QED
  BY <1>5, <1>6 DEF EncodePass1

\* What stays the same when the cuTree thread takes, handles and writes frames.
LEMMA TokenTaken ==
    ASSUME StopInv, CuInv, FramesInv, TokenInv, AwaitFrame \/ TakeFrame
    PROVE  TokenInv'
<1> USE WakesKeepPlace
<1>1. /\ UNCHANGED <<fed, jobs, laJob, roi, held, output>>
      /\ (mpc' = "pass2" <=> mpc = "pass2") /\ (BeforeStop' => BeforeStop)
      /\ cpc # "handle"
  BY DEF AwaitFrame, TakeFrame, CtKeeps, jobVars, outVars, Woken, BeforeStop
<1>2. AppHas' = AppHas /\ LaHas' = LaHas /\ Pics(output)' = Pics(output) /\ Ready(output)' = Ready(output)
      /\ Handled = {}
  BY <1>1 DEF AppHas, LaHas, Pics, Ready, Handled
<1>3. Distinct(output)'
  BY <1>1 DEF TokenInv, Distinct
<1>4. ctJobs \in Seq(Frame) /\ \A i \in 1 .. Len(ctJobs) : ~ctJobs[i].out
  BY DEF FramesInv, FramesTyped, IsPic
<1>5. CASE AwaitFrame /\ status = MainStop
  <2>1. ctJobs' = <<>> /\ queue' = <<>> /\ inUse' = inUse \ JobsOf(queue) /\ ~BeforeStop /\ Handled' = {}
    BY <1>5
      DEF AwaitFrame, Handled, StopInv, StopPhase, BeforeStop, MainStop, LookaheadError,
          CutreeFlush,
       CutreeFlushEnd
  <2>2. JobsOf(ctJobs)' = {} /\ JobsOf(queue)' = {}
    BY <2>1, JobsOfNone DEF JobsOf
  <2>3. Distinct(ctJobs)'
    BY <2>1 DEF Distinct
  <2>4. InPlaces' = InPlaces \ (JobsOf(ctJobs) \cup JobsOf(queue))
    BY <1>1, <1>2, <2>1, <2>2 DEF InPlaces, TokenInv, Apart
  <2>5. Apart(jobs, LaHas, JobsOf(ctJobs), Handled, JobsOf(queue), Pics(output), AppHas)'
    BY <1>1, <1>2, <2>1, <2>2 DEF TokenInv, Apart
  <2> QED
    BY <1>1, <1>2, <1>3, <2>1, <2>3, <2>4, <2>5 DEF TokenInv
<1>6. CASE AwaitFrame /\ status # MainStop
  <2>1. UNCHANGED <<ctJobs, queue, inUse, frame>> /\ cpc' # "handle"
    BY <1>6 DEF AwaitFrame
  <2> QED
    BY <1>1, <2>1, TokenKept
<1>7. CASE TakeFrame
  <2>1. ctJobs # <<>>
    BY <1>4, <1>7, EmptyQueue DEF TakeFrame, CuInv, Fits
  <2>2. /\ JobsOf(ctJobs) = JobsOf(Tail(ctJobs)) \cup {ctJobs[1].pic}
        /\ ctJobs[1].pic \notin JobsOf(Tail(ctJobs))
        /\ Distinct(Tail(ctJobs)) /\ Head(ctJobs) = ctJobs[1]
    <3>1. ~ctJobs[1].out /\ Head(ctJobs) = ctJobs[1]
      BY <1>4, <2>1, TailElements
    <3>2. Distinct(ctJobs) /\ \A i, j \in 1 .. Len(ctJobs) : i # j => ctJobs[i].pic # ctJobs[j].pic
      BY DEF TokenInv, Distinct
    <3> QED
      BY <1>4, <2>1, <3>1, <3>2, JobsOfTail, DistinctTail
  <2>3. /\ UNCHANGED <<queue, inUse>> /\ ctJobs' = Tail(ctJobs)
        /\ Handled' \in {{}, {ctJobs[1].pic}} /\ (BeforeStop => Handled' = {ctJobs[1].pic})
    BY <1>7, <2>2 DEF TakeFrame, outVars, Handled, StopInv, StopPhase, BeforeStop
  <2>4. JobsOf(ctJobs)' = JobsOf(Tail(ctJobs)) /\ JobsOf(queue)' = JobsOf(queue)
    BY <2>3 DEF JobsOf
  <2>5. Distinct(ctJobs)'
    BY <2>2, <2>3 DEF Distinct
  <2>6. InPlaces' \subseteq InPlaces /\ (BeforeStop => InPlaces' = InPlaces)
    BY <1>1, <1>2, <2>2, <2>3, <2>4 DEF InPlaces
  <2>7. Apart(jobs, LaHas, JobsOf(ctJobs), Handled, JobsOf(queue), Pics(output), AppHas)'
    BY <1>1, <1>2, <2>2, <2>3, <2>4 DEF TokenInv, Apart
  <2> QED
    BY <1>1, <1>2, <1>3, <2>3, <2>5, <2>6, <2>7 DEF TokenInv
<1> QED
  BY <1>5, <1>6, <1>7

LEMMA InsertedSomewhere ==
    ASSUME StopInv, SeenInv, FramesInv, cpc = "handle"
    PROVE  /\ JobsOf(Insert(queue, frame)) = JobsOf(queue) \cup {frame.pic}
           /\ Insert(queue, frame) \in Seq(Frame) /\ Len(Insert(queue, frame)) = Len(queue) + 1
<1>1. queue \in Seq(Frame) /\ frame \in Frame /\ IsFrame(frame) /\ ~frame.out /\ Len(queue) \in Nat
  BY DEF FramesInv, FramesTyped, IsPic, IsFrame
<1>2. Normal \/ Late
  BY DEF Normal, Late, SeenInv, CtOver, Over
<1>3. CASE queue # <<>>
  <2>1. Normal /\ Shape(queue, lastGopEnd, Len(queue)) /\ ComesNext(frame, queue, lastGopEnd, Len(queue))
    BY <1>2, <1>3 DEF FramesInv, InQueue, LateFrame
  <2> DEFINE k == IF Len(queue) = lastGopEnd THEN Len(queue) + 1 ELSE Len(queue)
  <2>2. Insert(queue, frame) = InsertAt(queue, k, frame)
    <3>1. PICK n : n = Len(queue)
      OBVIOUS
    <3>2. Insert(queue, frame) = InsertAt(queue, IF n = lastGopEnd THEN n + 1 ELSE n, frame)
      BY <1>1, <2>1, <3>1, InsertPlace
    <3> QED
      BY <3>1, <3>2
  <2>3. k \in 1 .. Len(queue) + 1
    <3>1. Len(queue) > 0
      BY <1>1, <1>3, EmptyQueue
    <3> QED
      BY <1>1, <3>1
  <2> HIDE DEF k
  <2> QED
    BY <1>1, <2>2, <2>3, JobsOfInsert, InsertElements
<1>4. CASE queue = <<>>
  <2>1. /\ Insert(<<>>, frame) \in Seq(Frame) /\ Len(Insert(<<>>, frame)) = 1
        /\ Insert(<<>>, frame)[1] = frame
    BY <1>1, InsertFirst
  <2> DEFINE t == Insert(<<>>, frame)
  <2> HIDE DEF t
  <2>2. t \in Seq(Frame) /\ 1 \in 1 .. Len(t) /\ \A i \in 1 .. Len(t) : i = 1 /\ t[i] = frame
    <3>1. t \in Seq(Frame) /\ Len(t) = 1 /\ t[1] = frame
      BY <2>1 DEF t
    <3> QED
      BY <3>1
  <2>3. ASSUME NEW p PROVE p \in JobsOf(t) <=> p = frame.pic
    <3>1. p \in JobsOf(t) <=> \E i \in 1 .. Len(t) : ~t[i].out /\ t[i].pic = p
      BY <2>2, HasJob
    <3> QED
      BY <1>1, <2>2, <3>1
  <2>4. JobsOf(t) = {frame.pic}
    BY <2>3
  <2> QED
    BY <1>4, <2>1, <2>4, JobsOfNone, EmptyQueue DEF t
<1> QED
  BY <1>3, <1>4

LEMMA TokenHandled ==
    ASSUME StopInv, SeenInv, FramesInv, TokenInv, HandleInputFrame
    PROVE  TokenInv'
<1>1. /\ UNCHANGED <<fed, jobs, laJob, ctJobs, roi, held, output, inUse, mpc>>
      /\ cpc = "handle" /\ cpc' = "process" /\ queue' = Insert(queue, frame)
  BY DEF HandleInputFrame, CtKeeps, jobVars, outVars
<1>2. /\ AppHas' = AppHas /\ LaHas' = LaHas /\ Pics(output)' = Pics(output) /\ Ready(output)' = Ready(output)
      /\ JobsOf(ctJobs)' = JobsOf(ctJobs) /\ Handled' = {} /\ Handled = {frame.pic}
  BY <1>1 DEF AppHas, LaHas, Pics, Ready, Handled, JobsOf
<1>3. Distinct(output)' /\ Distinct(ctJobs)'
  BY <1>1 DEF TokenInv, Distinct
<1>4. JobsOf(queue)' = JobsOf(queue) \cup Handled
  BY <1>1, <1>2, InsertedSomewhere
<1>5. InPlaces' = InPlaces
  BY <1>1, <1>2, <1>4 DEF InPlaces
<1>6. Apart(jobs, LaHas, JobsOf(ctJobs), Handled, JobsOf(queue), Pics(output), AppHas)'
  BY <1>1, <1>2, <1>4 DEF TokenInv, Apart
<1>7. BeforeStop' <=> BeforeStop
  BY <1>1 DEF BeforeStop
<1> QED
  BY <1>1, <1>2, <1>3, <1>5, <1>6, <1>7 DEF TokenInv

LEMMA TokenWritten ==
    ASSUME FramesInv, TokenInv, WriteFrame
    PROVE  TokenInv'
<1> USE WakesKeepPlace
<1>1. /\ UNCHANGED <<fed, jobs, laJob, ctJobs, held, frame>> /\ cpc = "write" /\ cpc' # "handle" /\ todo # <<>>
      /\ (mpc' = "pass2" <=> mpc = "pass2") /\ (BeforeStop' => BeforeStop)
  BY DEF WriteFrame, CtKeeps, feedVars, jobVars, outVars, Enqueue, BeforeStop
<1>2. /\ AppHas' = AppHas /\ LaHas' = LaHas /\ JobsOf(ctJobs)' = JobsOf(ctJobs) /\ Handled' = {} /\ Handled = {}
  BY <1>1 DEF AppHas, LaHas, Handled, JobsOf
<1>3. Distinct(ctJobs)'
  BY <1>1 DEF TokenInv, Distinct
<1>4. /\ queue \in Seq(Frame) /\ (\A i \in 1 .. Len(queue) : IsFrame(queue[i])) /\ Len(queue) \in Nat /\ pops \in Nat
      /\ ToBeWritten
  BY <1>1 DEF FramesInv, FramesTyped, Writing
<1> DEFINE pic == Head(todo)
<1> HIDE DEF pic
<1>5. pic \in JobsOf(queue)
  <2>1. todo \in Seq(Int) /\ Len(todo) \in Nat \ {0} /\ Head(todo) = todo[1]
    BY <1>1, <1>4, TailElements DEF ToBeWritten
  <2>2. 1 \in 1 .. Len(todo)
    BY <2>1
  <2>3. PICK j \in 1 .. pops + 1 : queue[j].pic = todo[1] /\ ~queue[j].out
    BY <1>4, <2>2 DEF ToBeWritten
  <2>4. j \in 1 .. Len(queue)
    BY <1>4, <2>3 DEF ToBeWritten
  <2> QED
    BY <1>4, <2>1, <2>3, <2>4, HasJob DEF pic
<1>6. pic \in Nat
  <2>1. pic \in InPlaces
    BY <1>5 DEF InPlaces
  <2> QED
    BY <2>1 DEF TokenInv
<1>7. CASE UNCHANGED <<queue, outVars>>
  <2>1. (cpc' = "handle" <=> cpc = "handle") /\ UNCHANGED <<queue, output, roi, inUse>>
    BY <1>1, <1>7 DEF outVars
  <2> QED
    BY <1>1, <2>1, TokenKept
<1>8. ASSUME Hand(pic) PROVE JobsOf(queue)' = JobsOf(queue) \ {pic}
  <2>1. JobsOf(queue') = JobsOf(queue) \ {pic}
    BY <1>4, <1>8, JobsHanded
  <2> QED
    BY <2>1 DEF JobsOf
<1>9. CASE Enqueue(pic, TRUE) /\ Hand(pic) /\ roi' = roi \cup {pic}
  <2>1. pic \notin Pics(output)
    BY <1>5 DEF TokenInv, Apart
  <2>2. output' = Append(output, [pic |-> pic, ok |-> TRUE]) /\ inUse' = inUse
    BY <1>9 DEF Enqueue
  <2>3. /\ output' \in Seq(Out) /\ Distinct(output') /\ Pics(output') = Pics(output) \cup {pic}
        /\ Ready(output') = Ready(output) \cup {pic}
    <3>1. output \in Seq(Out) /\ Distinct(output)
      BY DEF TokenInv
    <3>2. LET t == Append(output, [pic |-> pic, ok |-> TRUE])
          IN /\ t \in Seq(Out) /\ Distinct(t)
             /\ Pics(t) = Pics(output) \cup {pic} /\ Ready(t) = Ready(output) \cup {pic}
      BY <1>6, <2>1, <3>1, OutputAppend
    <3> QED
      BY <2>2, <3>2
  <2>4. /\ Pics(output)' = Pics(output) \cup {pic} /\ Ready(output)' = Ready(output) \cup {pic}
        /\ Distinct(output)'
    <3>1. Pics(output)' = Pics(output') /\ Ready(output)' = Ready(output')
      BY DEF Pics, Ready
    <3>2. Distinct(output)'
      BY <2>3 DEF Distinct
    <3> QED
      BY <2>3, <3>1, <3>2
  <2>5. JobsOf(queue)' = JobsOf(queue) \ {pic}
    BY <1>8, <1>9
  <2>6. InPlaces' = InPlaces
    BY <1>1, <1>2, <1>5, <2>4, <2>5 DEF InPlaces
  <2>7. Apart(jobs, LaHas, JobsOf(ctJobs), Handled, JobsOf(queue), Pics(output), AppHas)'
    BY <1>1, <1>2, <1>5, <2>4, <2>5 DEF TokenInv, Apart
  <2> QED
    BY <1>1, <1>2, <1>3, <1>9, <2>2, <2>3, <2>4, <2>6, <2>7 DEF TokenInv
<1>10. CASE Enqueue(pic, FALSE) /\ Hand(pic) /\ roi' = roi
  <2>1. output' = <<[pic |-> pic, ok |-> FALSE]>> /\ inUse' = inUse \ Pics(output)
    BY <1>10 DEF Enqueue, Pics
  <2>2. output' \in Seq(Out) /\ Distinct(output') /\ Pics(output') = {pic} /\ Ready(output') = {}
    BY <1>6, <2>1, OutputAlone
  <2>3. Pics(output)' = {pic} /\ Ready(output)' = {} /\ Distinct(output)'
    <3>1. Pics(output)' = Pics(output') /\ Ready(output)' = Ready(output')
      BY DEF Pics, Ready
    <3>2. Distinct(output)'
      BY <2>2 DEF Distinct
    <3> QED
      BY <2>2, <3>1, <3>2
  <2>4. JobsOf(queue)' = JobsOf(queue) \ {pic}
    BY <1>8, <1>10
  <2>5. InPlaces' = InPlaces \ Pics(output)
    BY <1>1, <1>2, <1>5, <2>3, <2>4 DEF InPlaces, TokenInv, Apart
  <2>6. Apart(jobs, LaHas, JobsOf(ctJobs), Handled, JobsOf(queue), Pics(output), AppHas)'
    BY <1>1, <1>2, <1>5, <2>3, <2>4 DEF TokenInv, Apart
  <2> QED
    BY <1>1, <1>2, <1>3, <1>10, <2>1, <2>2, <2>3, <2>5, <2>6 DEF TokenInv
<1> QED
  BY <1>7, <1>9, <1>10 DEF WriteFrame, pic

LEMMA TokenRemoved ==
    ASSUME SeenInv, FramesInv, TokenInv, CuInv, RemoveFrames
    PROVE  TokenInv'
<1>1. /\ UNCHANGED <<fed, jobs, laJob, ctJobs, held, frame, output, roi, mpc>> /\ cpc = "write" /\ cpc' # "handle"
      /\ queue' = SubSeq(queue, pops + 1, Len(queue)) /\ inUse' = inUse \ JobsOf(SubSeq(queue, 1, pops))
  BY DEF RemoveFrames, CtKeeps, feedVars, jobVars, CuInv
<1>2. /\ AppHas' = AppHas /\ LaHas' = LaHas /\ JobsOf(ctJobs)' = JobsOf(ctJobs) /\ Handled' = {} /\ Handled = {}
      /\ Pics(output)' = Pics(output) /\ Ready(output)' = Ready(output)
  BY <1>1 DEF AppHas, LaHas, Handled, JobsOf, Pics, Ready
<1>3. Distinct(ctJobs)' /\ Distinct(output)'
  BY <1>1 DEF TokenInv, Distinct
<1>4. /\ queue \in Seq(Frame) /\ Len(queue) \in Nat /\ pops \in Nat /\ ToBeWritten
  BY <1>1 DEF FramesInv, FramesTyped, Writing
<1>5. pops \in 0 .. Len(queue) /\ queue # <<>>
  <2>1. pops + 1 <= Len(queue)
    BY <1>4 DEF ToBeWritten
  <2>2. Len(queue) # 0
    BY <1>4, <2>1
  <2> QED
    BY <1>4, <2>1, <2>2, EmptyQueue
<1>6. pops = 0 \/ (\A i, j \in 1 .. Len(queue) : i # j => queue[i].pic # queue[j].pic)
  <2>1. Normal \/ Late
    BY <1>1 DEF Normal, Late, SeenInv, CtOver, Over
  <2>2. CASE Late
    BY <1>1, <2>2 DEF FramesInv, LateFrame, Writing
  <2>3. CASE Normal
    <3>1. Shape(queue, lastGopEnd, Len(queue))
      BY <1>5, <2>3 DEF FramesInv, InQueue
    <3> QED
      BY <3>1, QueueDistinct
  <2> QED
    BY <2>1, <2>2, <2>3
<1>7. LET a == JobsOf(SubSeq(queue, 1, pops))
          b == JobsOf(SubSeq(queue, pops + 1, Len(queue)))
      IN JobsOf(queue) = a \cup b /\ a \cap b = {}
  BY <1>4, <1>5, <1>6, JobsOfParts
<1>8. JobsOf(queue)' = JobsOf(SubSeq(queue, pops + 1, Len(queue)))
  BY <1>1 DEF JobsOf
<1>9. PICK a, b : JobsOf(queue) = a \cup b /\ a \cap b = {} /\ JobsOf(queue)' = b /\ inUse' = inUse \ a
  BY <1>1, <1>7, <1>8
<1>10. InPlaces' = InPlaces \ a
  BY <1>1, <1>2, <1>9 DEF InPlaces, TokenInv, Apart
<1>11. Apart(jobs, LaHas, JobsOf(ctJobs), Handled, JobsOf(queue), Pics(output), AppHas)'
  BY <1>1, <1>2, <1>9 DEF TokenInv, Apart
<1>12. BeforeStop' <=> BeforeStop
  BY <1>1 DEF BeforeStop
<1> QED
  BY <1>1, <1>2, <1>3, <1>9, <1>10, <1>11, <1>12 DEF TokenInv

LEMMA TokenEnd ==
    ASSUME StopInv, ErrorInv, EndingInv, TokenInv, FramesInv, FlushInv, EndCuTree
    PROVE  TokenInv'
<1> USE WakesKeepPlace
<1>1. /\ UNCHANGED <<fed, jobs, laJob, held, frame, output, roi>> /\ cpc # "handle" /\ cpc' # "handle"
      /\ (mpc' = "pass2" <=> mpc = "pass2") /\ (BeforeStop' => BeforeStop)
  BY DEF EndCuTree, CtKeeps, jobVars, Woken, BeforeStop
<1>2. /\ AppHas' = AppHas /\ LaHas' = LaHas /\ Handled' = {} /\ Handled = {}
      /\ Pics(output)' = Pics(output) /\ Ready(output)' = Ready(output)
  BY <1>1 DEF AppHas, LaHas, Handled, Pics, Ready
<1>3. Distinct(output)'
  BY <1>1 DEF TokenInv, Distinct
<1>4. CASE cpc # "end"
  <2>1. UNCHANGED <<ctJobs, queue, inUse>> /\ (cpc' = "handle" <=> cpc = "handle")
    BY <1>1, <1>4 DEF EndCuTree
  <2> QED
    BY <1>1, <2>1, TokenKept
<1>5. CASE cpc = "end" /\ ctSaw >= LookaheadError
  <2>1. ctJobs' = <<>> /\ queue' = <<>> /\ inUse' = inUse \ (JobsOf(ctJobs) \cup JobsOf(queue))
    BY <1>5 DEF EndCuTree
  <2>2. JobsOf(ctJobs)' = {} /\ JobsOf(queue)' = {} /\ Distinct(ctJobs)'
    BY <2>1, JobsOfNone DEF JobsOf, Distinct
  <2>3. InPlaces' = InPlaces \ (JobsOf(ctJobs) \cup JobsOf(queue))
    BY <1>1, <1>2, <2>2 DEF InPlaces, TokenInv, Apart
  <2>4. Apart(jobs, LaHas, JobsOf(ctJobs), Handled, JobsOf(queue), Pics(output), AppHas)'
    BY <1>1, <1>2, <2>2 DEF TokenInv, Apart
  <2> QED
    BY <1>1, <1>2, <1>3, <2>1, <2>2, <2>3, <2>4 DEF TokenInv
<1>6. CASE cpc = "end" /\ ~(ctSaw >= LookaheadError)
  <2>1. ctJobs' = ctJobs /\ queue' = <<>> /\ inUse' = inUse \ JobsOf(queue)
    BY <1>6 DEF EndCuTree
  <2>2. JobsOf(ctJobs)' = JobsOf(ctJobs) /\ JobsOf(queue)' = {}
    BY <2>1, JobsOfNone DEF JobsOf
  <2>3. Distinct(ctJobs)'
    BY <2>1 DEF TokenInv, Distinct
  <2>4. InPlaces' = InPlaces \ JobsOf(queue)
    BY <1>1, <1>2, <2>2 DEF InPlaces, TokenInv, Apart
  <2>5. Apart(jobs, LaHas, JobsOf(ctJobs), Handled, JobsOf(queue), Pics(output), AppHas)'
    BY <1>1, <1>2, <2>2 DEF TokenInv, Apart
  <2> QED
    BY <1>1, <1>2, <1>3, <2>1, <2>3, <2>4, <2>5 DEF TokenInv
<1> QED
  BY <1>4, <1>5, <1>6

LEMMA TokenOut ==
    ASSUME TokenInv, GetLookaheadOutput
    PROVE  TokenInv'
<1>1. /\ UNCHANGED <<fed, jobs, laJob, ctJobs, queue, frame, cpc, roi>> /\ mpc = "get"
      /\ (BeforeStop' <=> BeforeStop)
  BY DEF GetLookaheadOutput, jobVars, feedVars, ctVars, laVars, BeforeStop
<1>2. /\ LaHas' = LaHas /\ JobsOf(ctJobs)' = JobsOf(ctJobs) /\ Handled' = Handled /\ JobsOf(queue)' = JobsOf(queue)
      /\ AppHas = {} /\ held = None
  BY <1>1 DEF LaHas, Handled, JobsOf, AppHas, TokenInv
<1>3. Distinct(ctJobs)'
  BY <1>1 DEF TokenInv, Distinct
<1>4. CASE UNCHANGED <<held, output, inUse>> /\ mpc' # "pass2"
  BY <1>1, <1>4, TokenKept
<1>5. CASE output # <<>> /\ output' = Tail(output)
  <2>1. /\ Tail(output) \in Seq(Out) /\ Distinct(Tail(output)) /\ Head(output) \in Out
        /\ Pics(output) = Pics(Tail(output)) \cup {Head(output).pic} /\ Head(output).pic \notin Pics(Tail(output))
        /\ Ready(Tail(output)) \subseteq Ready(output)
        /\ Head(output).ok => Head(output).pic \in Ready(output)
    BY <1>5, OutputTail DEF TokenInv
  <2> DEFINE p == Head(output).pic
  <2>2. p \in Nat /\ p # None
    BY <2>1 DEF Out, None
  <2>3. Pics(output)' = Pics(Tail(output)) /\ Ready(output)' = Ready(Tail(output))
    BY <1>5 DEF Pics, Ready
  <2>4. Distinct(output)' /\ output' \in Seq(Out)
    BY <1>5, <2>1 DEF Distinct
  <2>5. \/ Head(output).ok /\ mpc' = "pass2" /\ held' = p /\ inUse' = inUse
        \/ mpc' = "failed" /\ held' = held /\ inUse' = inUse \ {p}
    BY <1>5 DEF GetLookaheadOutput
  <2> HIDE DEF p
  <2>6. Pics(output) = Pics(output)' \cup {p} /\ p \notin Pics(output)' /\ Ready(output)' \subseteq Ready(output)
        /\ (Head(output).ok => p \in Ready(output))
    BY <2>1, <2>3 DEF p
  <2>7. CASE Head(output).ok /\ mpc' = "pass2" /\ held' = p /\ inUse' = inUse
    <3>1. AppHas' = {p}
      BY <2>2, <2>7 DEF AppHas
    <3>2. InPlaces' = InPlaces
      BY <1>1, <1>2, <2>6, <3>1 DEF InPlaces
    <3>3. Apart(jobs, LaHas, JobsOf(ctJobs), Handled, JobsOf(queue), Pics(output), AppHas)'
      BY <1>1, <1>2, <2>6, <3>1 DEF TokenInv, Apart
    <3> QED
      BY <1>1, <1>2, <1>3, <2>2, <2>4, <2>6, <2>7, <3>1, <3>2, <3>3 DEF TokenInv
  <2>8. CASE mpc' = "failed" /\ held' = held /\ inUse' = inUse \ {p}
    <3>1. AppHas' = {}
      BY <1>2, <2>8 DEF AppHas
    <3>2. InPlaces' = InPlaces \ {p}
      BY <1>1, <1>2, <2>6, <3>1 DEF InPlaces, TokenInv, Apart
    <3>3. Apart(jobs, LaHas, JobsOf(ctJobs), Handled, JobsOf(queue), Pics(output), AppHas)'
      BY <1>1, <1>2, <2>6, <3>1 DEF TokenInv, Apart
    <3> QED
      BY <1>1, <1>2, <1>3, <2>4, <2>6, <2>8, <3>1, <3>2, <3>3 DEF TokenInv
  <2> QED
    BY <2>5, <2>7, <2>8
<1> QED
  BY <1>4, <1>5 DEF GetLookaheadOutput

LEMMA TokenPass2 ==
    ASSUME TokenInv, EncodePass2
    PROVE  TokenInv'
<1> USE WakesKeepPlace
<1>1. /\ UNCHANGED <<fed, jobs, laJob, ctJobs, queue, frame, output>> /\ mpc = "pass2" /\ mpc' # "pass2"
      /\ (BeforeStop' <=> BeforeStop) /\ (cpc' = "handle" <=> cpc = "handle")
      /\ held' = None /\ roi' = roi \ {held} /\ inUse' = inUse \ {held}
  BY DEF EncodePass2, jobVars, feedVars, laVars, BeforeStop
<1>2. /\ LaHas' = LaHas /\ JobsOf(ctJobs)' = JobsOf(ctJobs) /\ Handled' = Handled /\ JobsOf(queue)' = JobsOf(queue)
      /\ Pics(output)' = Pics(output) /\ Ready(output)' = Ready(output) /\ Ready(output) \subseteq Pics(output)
      /\ AppHas = {held} /\ AppHas' = {}
  BY <1>1 DEF LaHas, Handled, JobsOf, AppHas, TokenInv, Pics, Ready
<1>3. Distinct(ctJobs)' /\ Distinct(output)'
  BY <1>1 DEF TokenInv, Distinct
<1>4. InPlaces' = InPlaces \ {held}
  BY <1>1, <1>2 DEF InPlaces, TokenInv, Apart
<1>5. Apart(jobs, LaHas, JobsOf(ctJobs), Handled, JobsOf(queue), Pics(output), AppHas)'
  BY <1>1, <1>2 DEF TokenInv, Apart
<1>6. (Ready(output) \subseteq roi)'
  BY <1>1, <1>2 DEF TokenInv, Apart
<1>7. None \in Int
  BY DEF None
<1> QED
  BY <1>1, <1>2, <1>3, <1>4, <1>5, <1>6, <1>7 DEF TokenInv

LEMMA TokenNext == ThreadsInv /\ FramesInv /\ TokenInv /\ [Next]_vars => TokenInv'
<1> SUFFICES ASSUME ThreadsInv, FramesInv, TokenInv, [Next]_vars PROVE TokenInv'
  OBVIOUS
<1>0. Pass1Inv /\ CuInv /\ StopInv /\ ParkInv /\ EndingInv /\ ErrorInv /\ FlushInv /\ SeenInv
  BY DEF ThreadsInv, ControlInv
<1>1. CASE AddPictureToLookahead
  BY <1>0, <1>1, TokenFed
<1>2. CASE AwaitAnyJob \/ AwaitJob
  BY <1>0, <1>2, TokenSought
<1>3. CASE EncodePass1
  BY <1>0, <1>3, TokenPass1
<1>4. CASE AwaitFrame \/ TakeFrame
  BY <1>0, <1>4, TokenTaken
<1>5. CASE HandleInputFrame
  BY <1>0, <1>5, TokenHandled
<1>6. CASE WriteFrame
  BY <1>0, <1>6, TokenWritten
<1>7. CASE RemoveFrames
  BY <1>0, <1>7, TokenRemoved
<1>8. CASE EndCuTree
  BY <1>0, <1>8, TokenEnd
<1>9. CASE GetLookaheadOutput
  BY <1>0, <1>9, TokenOut
<1>10. CASE EncodePass2
  BY <1>0, <1>10, TokenPass2
<1> QED
  BY <1>0, <1>1, <1>2, <1>3, <1>4, <1>5, <1>6, <1>7, <1>8, <1>9, <1>10, TokenOthers

\* Every job is in one place: none is used after its node went back to the pool, none is
\* lost before a stop, and a picture on its way to pass 2 has its map of QP offsets.
THEOREM JobsAreAccounted ==
    ASSUME Regular
    PROVE  Spec => []JobsAccounted
<1>1. Init => ThreadsInv /\ FramesInv /\ TokenInv
  BY ThreadsInit, FramesInit, TokenInit
<1>2. ThreadsInv /\ FramesInv /\ TokenInv /\ [Next]_vars => ThreadsInv' /\ FramesInv' /\ TokenInv'
  BY ThreadsNext, FramesNext, TokenNext DEF Regular
<1>3. ThreadsInv /\ FramesInv /\ TokenInv => JobsAccounted
  <2> SUFFICES ASSUME ThreadsInv, FramesInv, TokenInv PROVE JobsAccounted
    OBVIOUS
  <2> DEFINE A == jobs
             B == {laJob}
             C == JobsOf(ctJobs)
             D == IF cpc = "handle" THEN {frame.pic} ELSE {}
             E == JobsOf(queue)
             F == {output[i].pic : i \in DOMAIN output}
             G == {held}
  <2>1. Places = <<A, B, C, D, E, F, G>>
    BY DEF Places
  <2>2. LaHas = B \ {None} /\ D = Handled /\ F = Pics(output) /\ AppHas = G \ {None}
    BY DEF LaHas, Handled, Pics, AppHas
  <2>3. Apart(A, B \ {None}, C, D, E, F, G \ {None})
    BY <2>2 DEF TokenInv
  <2>4. InPlaces = A \cup (B \ {None}) \cup C \cup D \cup E \cup F \cup (G \ {None})
    BY <2>2 DEF InPlaces
  <2>5. None \notin InPlaces
    BY DEF TokenInv, None
  <2> HIDE DEF A, B, C, D, E, F, G
  <2>6. \A i, j \in DOMAIN Places : i # j => Places[i] \cap Places[j] \subseteq {None}
    <3>1. DOMAIN Places = 1 .. 7 /\ Places[1] = A /\ Places[2] = B /\ Places[3] = C /\ Places[4] = D
          /\ Places[5] = E /\ Places[6] = F /\ Places[7] = G
      BY <2>1
    <3>2. \A i \in 1 .. 7 : i = 1 \/ i = 2 \/ i = 3 \/ i = 4 \/ i = 5 \/ i = 6 \/ i = 7
      OBVIOUS
    <3>3. ASSUME NEW i \in 1 .. 7, NEW j \in 1 .. 7, i # j, NEW p, p \in Places[i], p \in Places[j]
          PROVE p = None
      BY <2>3, <3>1, <3>2, <3>3 DEF Apart
    <3> QED
      BY <3>1, <3>3
  <2>7. Found = InPlaces
    <3>1. Range(Places) = {A, B, C, D, E, F, G}
      BY <2>1 DEF Range
    <3>2. UNION Range(Places) = A \cup B \cup C \cup D \cup E \cup F \cup G
      BY <3>1
    <3>3. None \notin A /\ None \notin C /\ None \notin D /\ None \notin E /\ None \notin F
      BY <2>4, <2>5
    <3>4. (A \cup B \cup C \cup D \cup E \cup F \cup G) \ {None} = InPlaces
      BY ONLY <2>4, <3>3
    <3> QED
      BY <3>2, <3>4 DEF Found
  <2>8. held # None => held \in roi
    BY DEF TokenInv, AppHas
  <2> QED
    BY <2>6, <2>7, <2>8 DEF JobsAccounted, TokenInv
<1> QED
  BY <1>1, <1>2, <1>3, PTL DEF Spec

-----------------------------------------------------------------------------
(* The pools *)

\* The application has at most lookaheadDelay + 1 pictures inside, one less between its
\* calls, and every job in use belongs to one of them.
PoolInv ==
    /\ returned \in Seq(Int) /\ IsFiniteSet(inUse)
    /\ Cardinality(inUse) + Len(returned) <= fed
    /\ fed - Len(returned) <= Delay + 1
    /\ ~bFlush => idelay = Smaller(fed, Delay + 1)
    /\ mpc = "ready" /\ ~bFlush => fed - Len(returned) <= Delay
\* The cuTree thread takes the next frame when its queue is short.
QueueIsShort == cpc \in Resting \cup {"handle"} \/ (Writing /\ back # "process")
QueueInv == /\ Len(queue) <= Depth + (Gop \div 2) + 1
            /\ QueueIsShort => Len(queue) <= Depth + (Gop \div 2)

LEMMA PoolInit == Init => PoolInv /\ QueueInv
<1> SUFFICES ASSUME Init PROVE PoolInv /\ QueueInv
  OBVIOUS
<1>1. returned = <<>> /\ inUse = {} /\ fed = 0 /\ idelay = 0 /\ queue = <<>>
  BY DEF Init
<1>2. Len(<<>>) = 0 /\ <<>> \in Seq(Int)
  OBVIOUS
<1>3. Cardinality({}) = 0 /\ IsFiniteSet({})
  BY FS_EmptySet
<1>4. Smaller(0, Delay + 1) = 0
  BY SizesAssumption DEF Smaller
<1>5. Gop \div 2 \in Nat
  BY SizesAssumption
<1>6. QueueInv
  BY <1>1, <1>2, <1>5, SizesAssumption DEF QueueInv
<1> QED
  BY <1>1, <1>2, <1>3, <1>4, <1>6, SizesAssumption DEF PoolInv

LEMMA PoolKept ==
    ASSUME PoolInv, fed \in Nat, UNCHANGED <<fed, returned, idelay>>, inUse' \subseteq inUse,
           ~bFlush' => ~bFlush, mpc' = "ready" => mpc = "ready"
    PROVE  PoolInv'
<1>1. IsFiniteSet(inUse') /\ Cardinality(inUse') <= Cardinality(inUse)
  BY FS_Subset DEF PoolInv
<1>2. Cardinality(inUse) \in Nat /\ Cardinality(inUse') \in Nat /\ Len(returned) \in Nat
  BY <1>1, FS_CardinalityType DEF PoolInv
<1>3. Cardinality(inUse') + Len(returned) <= fed
  BY <1>1, <1>2 DEF PoolInv
<1> QED
  BY <1>1, <1>3 DEF PoolInv

LEMMA PoolFed ==
    ASSUME Pass1Inv, TokenInv, PoolInv, AddPictureToLookahead
    PROVE  PoolInv'
<1>1. /\ UNCHANGED <<returned, bFlush>> /\ inUse' = inUse \cup {fed} /\ fed' = fed + 1
      /\ mpc = "ready" /\ ~bFlush /\ idelay' = Smaller(idelay + 1, Delay + 1)
      /\ mpc' = IF QueueIsFull(idelay') THEN "get" ELSE "ready"
  BY DEF AddPictureToLookahead
<1>2. fed \in Nat /\ fed \notin inUse
  BY DEF TokenInv, Pass1Inv, LaTypes
<1>3. IsFiniteSet(inUse') /\ Cardinality(inUse') = Cardinality(inUse) + 1
  BY <1>1, <1>2, FS_AddElement DEF PoolInv
<1>4. Cardinality(inUse) \in Nat /\ Len(returned) \in Nat
  BY FS_CardinalityType DEF PoolInv
<1>5. Cardinality(inUse) + Len(returned) <= fed /\ fed - Len(returned) <= Delay /\ idelay = Smaller(fed, Delay + 1)
  BY <1>1 DEF PoolInv
<1>6. Cardinality(inUse') + Len(returned) <= fed + 1 /\ fed + 1 - Len(returned) <= Delay + 1
  BY <1>2, <1>3, <1>4, <1>5, SizesAssumption
<1>7. idelay' = Smaller(fed + 1, Delay + 1)
  BY <1>1, <1>2, <1>5, SizesAssumption DEF Smaller
<1>8. mpc' = "ready" => fed + 1 - Len(returned) <= Delay
  BY <1>1, <1>2, <1>4, <1>7, SizesAssumption DEF Smaller, QueueIsFull
<1>9. returned' \in Seq(Int)
  BY <1>1 DEF PoolInv
<1>10. fed' = fed + 1 /\ returned' = returned
  BY <1>1
<1>11. Cardinality(inUse') + Len(returned') <= fed' /\ fed' - Len(returned') <= Delay + 1
  BY <1>2, <1>4, <1>6, <1>10, SizesAssumption
<1>12. idelay' = Smaller(fed', Delay + 1) /\ (mpc' = "ready" => fed' - Len(returned') <= Delay)
  BY <1>2, <1>4, <1>7, <1>8, <1>10, SizesAssumption
<1> QED
  BY <1>3, <1>9, <1>11, <1>12 DEF PoolInv

LEMMA PoolReturned ==
    ASSUME Pass1Inv, TokenInv, PoolInv, EncodePass2
    PROVE  PoolInv'
<1>1. /\ UNCHANGED <<fed, idelay, bFlush>> /\ inUse' = inUse \ {held} /\ mpc = "pass2"
      /\ \/ mpc' = "ready" /\ returned' = Append(returned, held)
         \/ mpc' = "failed" /\ returned' = returned
  BY DEF EncodePass2
<1>2. held \in inUse /\ held \in Int /\ fed \in Nat
  BY <1>1 DEF TokenInv, InPlaces, AppHas, Pass1Inv, LaTypes
<1>3. IsFiniteSet(inUse') /\ Cardinality(inUse') = Cardinality(inUse) - 1
  BY <1>1, <1>2, FS_RemoveElement DEF PoolInv
<1>4. Cardinality(inUse) \in Nat /\ Len(returned) \in Nat
  BY FS_CardinalityType DEF PoolInv
<1>5. returned' \in Seq(Int) /\ Len(returned') \in {Len(returned), Len(returned) + 1}
      /\ (mpc' = "ready" => Len(returned') = Len(returned) + 1)
  <2>1. returned \in Seq(Int)
    BY DEF PoolInv
  <2>2. Append(returned, held) \in Seq(Int) /\ Len(Append(returned, held)) = Len(returned) + 1
    BY <1>2, <2>1, AppendElements
  <2> QED
    BY <1>1, <2>1, <2>2
<1>6. Cardinality(inUse) + Len(returned) <= fed /\ fed - Len(returned) <= Delay + 1
  BY DEF PoolInv
<1>7. Cardinality(inUse') + Len(returned') <= fed /\ fed - Len(returned') <= Delay + 1
      /\ (mpc' = "ready" => fed - Len(returned') <= Delay)
  BY <1>2, <1>3, <1>4, <1>5, <1>6, SizesAssumption
<1>8. ~bFlush => idelay = Smaller(fed, Delay + 1)
  BY DEF PoolInv
<1> QED
  BY <1>1, <1>3, <1>5, <1>7, <1>8 DEF PoolInv

LEMMA PoolNext == Pass1Inv /\ TokenInv /\ PoolInv /\ [Next]_vars => PoolInv'
<1> SUFFICES ASSUME Pass1Inv, TokenInv, PoolInv, [Next]_vars PROVE PoolInv'
  OBVIOUS
<1>0. fed \in Nat
  BY DEF Pass1Inv, LaTypes
<1> USE WakesKeepPlace
<1>1. CASE AddPictureToLookahead
  BY <1>1, PoolFed
<1>2. CASE Flush
  <2>1. UNCHANGED <<fed, returned, inUse>> /\ bFlush' /\ mpc' = "get"
    BY <1>2 DEF Flush, outVars
  <2> QED
    BY <2>1 DEF PoolInv
<1>3. CASE FlushNothing
  <2>1. UNCHANGED <<fed, returned, idelay>> /\ inUse' \subseteq inUse /\ (~bFlush' => ~bFlush)
        /\ (mpc' = "ready" => mpc = "ready")
    BY <1>3 DEF FlushNothing, ctVars, laVars, jobVars, feedVars, outVars
  <2> QED
    BY <1>0, <2>1, PoolKept
<1>4. CASE Release
  <2>1. UNCHANGED <<fed, returned, idelay>> /\ inUse' \subseteq inUse /\ (~bFlush' => ~bFlush)
        /\ (mpc' = "ready" => mpc = "ready")
    BY <1>4 DEF Release, MainElse, ctVars, laVars, jobVars, feedVars, outVars
  <2> QED
    BY <1>0, <2>1, PoolKept
<1>5. CASE GetLookaheadOutput
  <2>1. UNCHANGED <<fed, returned, idelay>> /\ inUse' \subseteq inUse /\ (~bFlush' => ~bFlush)
        /\ (mpc' = "ready" => mpc = "ready")
    BY <1>5 DEF GetLookaheadOutput, ctVars, laVars, jobVars, feedVars, outVars
  <2> QED
    BY <1>0, <2>1, PoolKept
<1>6. CASE EncodePass2
  BY <1>6, PoolReturned
<1>7. CASE StopLookaheadThread
  <2>1. UNCHANGED <<fed, returned, idelay>> /\ inUse' \subseteq inUse /\ (~bFlush' => ~bFlush)
        /\ (mpc' = "ready" => mpc = "ready")
    BY <1>7 DEF StopLookaheadThread, MainElse, ctVars, jobVars, feedVars, outVars
  <2> QED
    BY <1>0, <2>1, PoolKept
<1>8. CASE StopCuTreeThread
  <2>1. UNCHANGED <<fed, returned, idelay>> /\ inUse' \subseteq inUse /\ (~bFlush' => ~bFlush)
        /\ (mpc' = "ready" => mpc = "ready")
    BY <1>8 DEF StopCuTreeThread, MainElse, laVars, jobVars, feedVars, outVars
  <2> QED
    BY <1>0, <2>1, PoolKept
<1>9. CASE TerminateLookaheadThread
  <2>1. UNCHANGED <<fed, returned, idelay>> /\ inUse' \subseteq inUse /\ (~bFlush' => ~bFlush)
        /\ (mpc' = "ready" => mpc = "ready")
    BY <1>9
      DEF TerminateLookaheadThread, TerminatedStatus, MainElse, ctVars, jobVars, feedVars,
          outVars
  <2> QED
    BY <1>0, <2>1, PoolKept
<1>10. CASE TerminateCuTreeThread
  <2>1. UNCHANGED <<fed, returned, idelay>> /\ inUse' \subseteq inUse /\ (~bFlush' => ~bFlush)
        /\ (mpc' = "ready" => mpc = "ready")
    BY <1>10
      DEF TerminateCuTreeThread, TerminatedStatus, MainElse, laVars, jobVars, feedVars, outVars
  <2> QED
    BY <1>0, <2>1, PoolKept
<1>11. CASE LookaheadLoop
  <2>1. UNCHANGED <<fed, returned, idelay>> /\ inUse' \subseteq inUse /\ (~bFlush' => ~bFlush)
        /\ (mpc' = "ready" => mpc = "ready")
    BY <1>11 DEF LookaheadLoop, LaElse, CtElse, jobVars, outVars
  <2> QED
    BY <1>0, <2>1, PoolKept
<1>12. CASE AwaitAnyJob
  <2>1. UNCHANGED <<fed, returned, idelay>> /\ inUse' \subseteq inUse /\ (~bFlush' => ~bFlush)
        /\ (mpc' = "ready" => mpc = "ready")
    BY <1>12
      DEF AwaitAnyJob, ParkLookahead, ClearJobs, FindJob, Woken, LaElse, CtElse, jobVars,
          outVars
  <2> QED
    BY <1>0, <2>1, PoolKept
<1>13. CASE AwaitJob
  <2>1. UNCHANGED <<fed, returned, idelay>> /\ inUse' \subseteq inUse /\ (~bFlush' => ~bFlush)
        /\ (mpc' = "ready" => mpc = "ready")
    BY <1>13
      DEF AwaitJob, ParkLookahead, ClearJobs, FindJob, Woken, LaElse, CtElse, jobVars, outVars
  <2> QED
    BY <1>0, <2>1, PoolKept
<1>14. CASE TakeJob
  <2>1. UNCHANGED <<fed, returned, idelay>> /\ inUse' \subseteq inUse /\ (~bFlush' => ~bFlush)
        /\ (mpc' = "ready" => mpc = "ready")
    BY <1>14 DEF TakeJob, LaElse, CtElse, jobVars, outVars
  <2> QED
    BY <1>0, <2>1, PoolKept
<1>15. CASE WaitCuInfoBuf
  <2>1. UNCHANGED <<fed, returned, idelay>> /\ inUse' \subseteq inUse /\ (~bFlush' => ~bFlush)
        /\ (mpc' = "ready" => mpc = "ready")
    BY <1>15 DEF WaitCuInfoBuf, LaElse, jobVars, outVars
  <2> QED
    BY <1>0, <2>1, PoolKept
<1>16. CASE EncodePass1
  <2>1. UNCHANGED <<fed, returned, idelay>> /\ inUse' \subseteq inUse /\ (~bFlush' => ~bFlush)
        /\ (mpc' = "ready" => mpc = "ready")
    BY <1>16 DEF EncodePass1, Enqueue, jobVars, outVars
  <2> QED
    BY <1>0, <2>1, PoolKept
<1>17. CASE AfterAddFrame
  <2>1. UNCHANGED <<fed, returned, idelay>> /\ inUse' \subseteq inUse /\ (~bFlush' => ~bFlush)
        /\ (mpc' = "ready" => mpc = "ready")
    BY <1>17 DEF AfterAddFrame, LaElse, CtElse, jobVars, outVars
  <2> QED
    BY <1>0, <2>1, PoolKept
<1>18. CASE EndLookahead
  <2>1. UNCHANGED <<fed, returned, idelay>> /\ inUse' \subseteq inUse /\ (~bFlush' => ~bFlush)
        /\ (mpc' = "ready" => mpc = "ready")
    BY <1>18 DEF EndLookahead, PassOneDone, Woken, LaElse, CtElse, jobVars, outVars
  <2> QED
    BY <1>0, <2>1, PoolKept
<1>19. CASE CuTreeLoop
  <2>1. UNCHANGED <<fed, returned, idelay>> /\ inUse' \subseteq inUse /\ (~bFlush' => ~bFlush)
        /\ (mpc' = "ready" => mpc = "ready")
    BY <1>19 DEF CuTreeLoop, CtKeeps, jobVars, feedVars, outVars
  <2> QED
    BY <1>0, <2>1, PoolKept
<1>20. CASE AwaitFrame
  <2>1. UNCHANGED <<fed, returned, idelay>> /\ inUse' \subseteq inUse /\ (~bFlush' => ~bFlush)
        /\ (mpc' = "ready" => mpc = "ready")
    BY <1>20 DEF AwaitFrame, Woken, CtKeeps, jobVars, outVars
  <2> QED
    BY <1>0, <2>1, PoolKept
<1>21. CASE TakeFrame
  <2>1. UNCHANGED <<fed, returned, idelay>> /\ inUse' \subseteq inUse /\ (~bFlush' => ~bFlush)
        /\ (mpc' = "ready" => mpc = "ready")
    BY <1>21 DEF TakeFrame, CtKeeps, jobVars, outVars
  <2> QED
    BY <1>0, <2>1, PoolKept
<1>22. CASE HandleInputFrame
  <2>1. UNCHANGED <<fed, returned, idelay>> /\ inUse' \subseteq inUse /\ (~bFlush' => ~bFlush)
        /\ (mpc' = "ready" => mpc = "ready")
    BY <1>22 DEF HandleInputFrame, Woken, CtKeeps, jobVars, outVars
  <2> QED
    BY <1>0, <2>1, PoolKept
<1>23. CASE Process
  <2>1. UNCHANGED <<fed, returned, idelay>> /\ inUse' \subseteq inUse /\ (~bFlush' => ~bFlush)
        /\ (mpc' = "ready" => mpc = "ready")
    BY <1>23 DEF Process, ProcessOneFrame, CtKeeps, jobVars, feedVars, outVars
  <2> QED
    BY <1>0, <2>1, PoolKept
<1>24. CASE WriteFrame
  <2>1. UNCHANGED <<fed, returned, idelay>> /\ inUse' \subseteq inUse /\ (~bFlush' => ~bFlush)
        /\ (mpc' = "ready" => mpc = "ready")
    BY <1>24 DEF WriteFrame, Enqueue, CtKeeps, jobVars, feedVars, outVars
  <2> QED
    BY <1>0, <2>1, PoolKept
<1>25. CASE RemoveFrames
  <2>1. UNCHANGED <<fed, returned, idelay>> /\ inUse' \subseteq inUse /\ (~bFlush' => ~bFlush)
        /\ (mpc' = "ready" => mpc = "ready")
    BY <1>25 DEF RemoveFrames, CtKeeps, jobVars, feedVars, outVars
  <2> QED
    BY <1>0, <2>1, PoolKept
<1>26. CASE EndCuTree
  <2>1. UNCHANGED <<fed, returned, idelay>> /\ inUse' \subseteq inUse /\ (~bFlush' => ~bFlush)
        /\ (mpc' = "ready" => mpc = "ready")
    BY <1>26 DEF EndCuTree, RemovesFrame, Woken, CtKeeps, jobVars, outVars
  <2> QED
    BY <1>0, <2>1, PoolKept
<1>27. CASE UNCHANGED vars
  <2>1. UNCHANGED <<fed, returned, idelay>> /\ inUse' \subseteq inUse /\ (~bFlush' => ~bFlush)
        /\ (mpc' = "ready" => mpc = "ready")
    BY <1>27 DEF vars, mainVars, laVars, ctVars, jobVars, feedVars, outVars
  <2> QED
    BY <1>0, <2>1, PoolKept
<1> QED
  BY <1>1, <1>2, <1>3, <1>4, <1>5, <1>6, <1>7, <1>8, <1>9, <1>10, <1>11, <1>12, <1>13, <1>14,
     <1>15, <1>16,
     <1>17, <1>18, <1>19, <1>20, <1>21, <1>22, <1>23, <1>24, <1>25, <1>26, <1>27 DEF Next, CallStep,
     LookaheadStep, CutreeStep

LEMMA QueueKept ==
    ASSUME QueueInv, Len(queue') <= Len(queue), Len(queue) \in Nat, Len(queue') \in Nat,
           QueueIsShort' => QueueIsShort
    PROVE  QueueInv'
<1>1. Gop \div 2 \in Nat
  BY SizesAssumption
<1> QED
  BY <1>1, SizesAssumption DEF QueueInv

LEMMA QueueHandled ==
    ASSUME StopInv, SeenInv, FramesInv, QueueInv, HandleInputFrame
    PROVE  QueueInv'
<1>1. cpc = "handle" /\ cpc' = "process" /\ queue' = Insert(queue, frame)
  BY DEF HandleInputFrame
<1>2. Len(queue') = Len(queue) + 1 /\ ~QueueIsShort' /\ QueueIsShort
  BY <1>1, InsertedSomewhere DEF QueueIsShort, Writing, Resting
<1>3. Len(queue) \in Nat /\ Gop \div 2 \in Nat
  BY SizesAssumption DEF FramesInv, FramesTyped
<1> QED
  BY <1>2, <1>3, SizesAssumption DEF QueueInv

LEMMA QueueProcessed ==
    ASSUME FramesInv, QueueInv, Process
    PROVE  QueueInv'
<1>1. UNCHANGED <<queue, frame>> /\ Len(queue) \in Nat /\ frame.gop \in 1 .. Gop
  BY DEF Process, CtKeeps, FramesInv, FramesTyped, IsPic, IsFrame, Frame
<1>2. CASE cpc = "process"
  <2>1. ~QueueIsShort' \/ ~GopIsDue
    BY <1>2 DEF Process, ProcessOneFrame, QueueIsShort, Writing, Resting
  <2>2. CASE ~QueueIsShort'
    BY <1>1, <2>2 DEF QueueInv
  <2>3. CASE ~GopIsDue
    <3>1. frame.gop \div 2 \in Nat /\ frame.gop \div 2 <= Gop \div 2 /\ Gop \div 2 \in Nat
      BY <1>1, SizesAssumption
    <3>2. Len(queue) <= Depth + (Gop \div 2)
      BY <1>1, <2>3, <3>1, SizesAssumption DEF GopIsDue
    <3> QED
      BY <1>1, <3>1, <3>2, SizesAssumption DEF QueueInv
  <2> QED
    BY <2>1, <2>2, <2>3
<1>3. CASE cpc # "process"
  <2>1. QueueIsShort
    BY <1>3 DEF Process, QueueIsShort, Resting
  <2> QED
    BY <1>1, <2>1, QueueKept
<1> QED
  BY <1>2, <1>3

LEMMA QueueNext == ThreadsInv /\ FramesInv /\ FramesInv' /\ QueueInv /\ [Next]_vars => QueueInv'
<1> SUFFICES ASSUME ThreadsInv, FramesInv, FramesInv', QueueInv, [Next]_vars PROVE QueueInv'
  OBVIOUS
<1>a. StopInv /\ SeenInv /\ CuInv
  BY DEF ThreadsInv, ControlInv
<1>b. queue \in Seq(Frame) /\ (\A i \in 1 .. Len(queue) : IsFrame(queue[i])) /\ Len(queue) \in Nat /\ Len(queue') \in Nat
  <2>1. queue \in Seq(Frame) /\ (\A i \in 1 .. Len(queue) : IsFrame(queue[i])) /\ queue' \in Seq(Frame)
    BY DEF FramesInv, FramesTyped
  <2> QED
    BY <2>1
<1> USE WakesKeepPlace
<1>1. CASE AddPictureToLookahead
  <2>1. queue' = queue /\ (QueueIsShort' => QueueIsShort)
    BY <1>1
      DEF AddPictureToLookahead, ctVars, laVars, jobVars, feedVars, QueueIsShort, Resting,
          Writing
  <2> QED
    BY <1>b, <2>1, QueueKept
<1>2. CASE Flush
  <2>1. queue' = queue /\ (QueueIsShort' => QueueIsShort)
    BY <1>2 DEF Flush, ctVars, laVars, jobVars, feedVars, QueueIsShort, Resting, Writing
  <2> QED
    BY <1>b, <2>1, QueueKept
<1>3. CASE FlushNothing
  <2>1. queue' = queue /\ (QueueIsShort' => QueueIsShort)
    BY <1>3 DEF FlushNothing, ctVars, laVars, jobVars, feedVars, QueueIsShort, Resting, Writing
  <2> QED
    BY <1>b, <2>1, QueueKept
<1>4. CASE Release
  <2>1. queue' = queue /\ (QueueIsShort' => QueueIsShort)
    BY <1>4 DEF Release, MainElse, ctVars, laVars, jobVars, feedVars, QueueIsShort, Resting, Writing
  <2> QED
    BY <1>b, <2>1, QueueKept
<1>5. CASE GetLookaheadOutput
  <2>1. queue' = queue /\ (QueueIsShort' => QueueIsShort)
    BY <1>5
      DEF GetLookaheadOutput, ctVars, laVars, jobVars, feedVars, QueueIsShort, Resting, Writing
  <2> QED
    BY <1>b, <2>1, QueueKept
<1>6. CASE EncodePass2
  <2>1. queue' = queue /\ (QueueIsShort' => QueueIsShort)
    BY <1>6 DEF EncodePass2, laVars, jobVars, feedVars, QueueIsShort, Resting, Writing
  <2> QED
    BY <1>b, <2>1, QueueKept
<1>7. CASE StopLookaheadThread
  <2>1. queue' = queue /\ (QueueIsShort' => QueueIsShort)
    BY <1>7
      DEF StopLookaheadThread, MainElse, ctVars, jobVars, feedVars, QueueIsShort, Resting,
          Writing
  <2> QED
    BY <1>b, <2>1, QueueKept
<1>8. CASE StopCuTreeThread
  <2>1. queue' = queue /\ (QueueIsShort' => QueueIsShort)
    BY <1>8
      DEF StopCuTreeThread, MainElse, laVars, jobVars, feedVars, QueueIsShort, Resting, Writing
  <2> QED
    BY <1>b, <2>1, QueueKept
<1>9. CASE TerminateLookaheadThread
  <2>1. queue' = queue /\ (QueueIsShort' => QueueIsShort)
    BY <1>9 DEF TerminateLookaheadThread, TerminatedStatus, MainElse, ctVars, jobVars, feedVars,
       QueueIsShort, Resting, Writing
  <2> QED
    BY <1>b, <2>1, QueueKept
<1>10. CASE TerminateCuTreeThread
  <2>1. queue' = queue /\ (QueueIsShort' => QueueIsShort)
    BY <1>10
      DEF TerminateCuTreeThread, TerminatedStatus, MainElse, laVars, jobVars, feedVars,
          QueueIsShort,
       Resting, Writing
  <2> QED
    BY <1>b, <2>1, QueueKept
<1>11. CASE LookaheadLoop
  <2>1. queue' = queue /\ (QueueIsShort' => QueueIsShort)
    BY <1>11 DEF LookaheadLoop, LaElse, CtElse, jobVars, QueueIsShort, Resting, Writing
  <2> QED
    BY <1>b, <2>1, QueueKept
<1>12. CASE AwaitAnyJob
  <2>1. queue' = queue /\ (QueueIsShort' => QueueIsShort)
    BY <1>12 DEF AwaitAnyJob, ParkLookahead, ClearJobs, FindJob, Woken, LaElse, CtElse, jobVars,
       QueueIsShort, Resting, Writing
  <2> QED
    BY <1>b, <2>1, QueueKept
<1>13. CASE AwaitJob
  <2>1. queue' = queue /\ (QueueIsShort' => QueueIsShort)
    BY <1>13
      DEF AwaitJob, ParkLookahead, ClearJobs, FindJob, Woken, LaElse, CtElse, jobVars,
          QueueIsShort,
       Resting, Writing
  <2> QED
    BY <1>b, <2>1, QueueKept
<1>14. CASE TakeJob
  <2>1. queue' = queue /\ (QueueIsShort' => QueueIsShort)
    BY <1>14 DEF TakeJob, LaElse, CtElse, jobVars, QueueIsShort, Resting, Writing
  <2> QED
    BY <1>b, <2>1, QueueKept
<1>15. CASE WaitCuInfoBuf
  <2>1. queue' = queue /\ (QueueIsShort' => QueueIsShort)
    BY <1>15 DEF WaitCuInfoBuf, LaElse, jobVars, QueueIsShort, Resting, Writing
  <2> QED
    BY <1>b, <2>1, QueueKept
<1>16. CASE EncodePass1
  <2>1. queue' = queue /\ (QueueIsShort' => QueueIsShort)
    BY <1>16 DEF EncodePass1, Enqueue, jobVars, QueueIsShort, Resting, Writing
  <2> QED
    BY <1>b, <2>1, QueueKept
<1>17. CASE AfterAddFrame
  <2>1. queue' = queue /\ (QueueIsShort' => QueueIsShort)
    BY <1>17 DEF AfterAddFrame, LaElse, CtElse, jobVars, QueueIsShort, Resting, Writing
  <2> QED
    BY <1>b, <2>1, QueueKept
<1>18. CASE EndLookahead
  <2>1. queue' = queue /\ (QueueIsShort' => QueueIsShort)
    BY <1>18
      DEF EndLookahead, PassOneDone, Woken, LaElse, CtElse, jobVars, QueueIsShort, Resting,
          Writing
  <2> QED
    BY <1>b, <2>1, QueueKept
<1>19. CASE CuTreeLoop
  <2>1. queue' = queue /\ (QueueIsShort' => QueueIsShort)
    BY <1>19 DEF CuTreeLoop, CtKeeps, jobVars, feedVars, QueueIsShort, Resting, Writing
  <2> QED
    BY <1>b, <2>1, QueueKept
<1>20. CASE AwaitFrame
  <2>1. queue' = queue \/ queue' = <<>>
    BY <1>20 DEF AwaitFrame
  <2>2. QueueIsShort' => QueueIsShort
    BY <1>20 DEF AwaitFrame, QueueIsShort, Resting, Writing
  <2>3. Len(queue') <= Len(queue)
    BY <1>b, <2>1, EmptyQueue
  <2> QED
    BY <1>b, <2>2, <2>3, QueueKept
<1>21. CASE TakeFrame
  <2>1. queue' = queue /\ (QueueIsShort' => QueueIsShort)
    BY <1>21 DEF TakeFrame, CtKeeps, jobVars, QueueIsShort, Resting, Writing
  <2> QED
    BY <1>b, <2>1, QueueKept
<1>22. CASE HandleInputFrame
  BY <1>a, <1>22, QueueHandled
<1>23. CASE Process
  BY <1>23, QueueProcessed
<1>24. CASE WriteFrame
  <2>1. Len(queue') = Len(queue)
    BY <1>b, <1>24, Handed DEF WriteFrame
  <2>2. QueueIsShort' => QueueIsShort
    BY <1>24 DEF WriteFrame, QueueIsShort, Resting, Writing
  <2> QED
    BY <1>b, <2>1, <2>2, QueueKept
<1>25. CASE RemoveFrames
  <2>1. queue' = SubSeq(queue, pops + 1, Len(queue)) /\ pops \in 0 .. Len(queue)
    <3>1. cpc = "write" /\ pops \in Nat
      BY <1>25 DEF RemoveFrames, FramesInv, FramesTyped
    <3>2. pops + 1 <= Len(queue)
      BY <3>1 DEF FramesInv, Writing, ToBeWritten
    <3> QED
      BY <1>b, <1>25, <3>1, <3>2 DEF RemoveFrames
  <2>2. Len(queue') = Len(queue) - pops
    BY <1>b, <2>1, SuffixElements
  <2>3. QueueIsShort' => QueueIsShort
    BY <1>a, <1>25 DEF RemoveFrames, QueueIsShort, Resting, Writing, CuInv
  <2>4. Len(queue') <= Len(queue)
    BY <1>b, <2>1, <2>2
  <2> QED
    BY <1>b, <2>3, <2>4, QueueKept
<1>26. CASE EndCuTree
  <2>1. queue' = queue \/ queue' = <<>>
    BY <1>26 DEF EndCuTree
  <2>2. QueueIsShort' => QueueIsShort
    BY <1>26 DEF EndCuTree, QueueIsShort, Resting, Writing
  <2>3. Len(queue') <= Len(queue)
    BY <1>b, <2>1, EmptyQueue
  <2> QED
    BY <1>b, <2>2, <2>3, QueueKept
<1>27. CASE UNCHANGED vars
  <2>1. queue' = queue /\ (QueueIsShort' => QueueIsShort)
    BY <1>27 DEF vars, mainVars, laVars, ctVars, jobVars, feedVars, QueueIsShort, Resting, Writing
  <2> QED
    BY <1>b, <2>1, QueueKept
<1> QED
  BY <1>1, <1>2, <1>3, <1>4, <1>5, <1>6, <1>7, <1>8, <1>9, <1>10, <1>11, <1>12, <1>13, <1>14,
     <1>15, <1>16,
     <1>17, <1>18, <1>19, <1>20, <1>21, <1>22, <1>23, <1>24, <1>25, <1>26, <1>27 DEF Next, CallStep,
     LookaheadStep, CutreeStep

\* The pool of VCEncGetEncodeMaxDelay + 1 jobs and the frames of the cuTree thread suffice,
\* whatever the threads overtake and fail.
THEOREM ThePoolsSuffice ==
    ASSUME Regular
    PROVE  Spec => []PoolsSuffice
<1> DEFINE Inv == ThreadsInv /\ FramesInv /\ TokenInv /\ PoolInv /\ QueueInv
<1>1. Init => Inv
  BY ThreadsInit, FramesInit, TokenInit, PoolInit
<1>2. Inv /\ [Next]_vars => Inv'
  <2> SUFFICES ASSUME Inv, [Next]_vars PROVE Inv'
    OBVIOUS
  <2>1. ThreadsInv' /\ FramesInv' /\ TokenInv'
    BY ThreadsNext, FramesNext, TokenNext DEF Regular
  <2>2. PoolInv'
    BY PoolNext DEF ThreadsInv
  <2>3. QueueInv'
    BY <2>1, QueueNext
  <2> QED
    BY <2>1, <2>2, <2>3
<1>3. Inv => PoolsSuffice
  <2> SUFFICES ASSUME Inv PROVE PoolsSuffice
    OBVIOUS
  <2>1. Cardinality(inUse) <= Delay + 1
    <3>1. /\ Cardinality(inUse) \in Nat /\ Len(returned) \in Nat /\ fed \in Nat
          /\ Cardinality(inUse) + Len(returned) <= fed /\ fed - Len(returned) <= Delay + 1
      BY FS_CardinalityType DEF PoolInv, ThreadsInv, Pass1Inv, LaTypes
    <3> QED
      BY <3>1, SizesAssumption
  <2>2. Len(queue) \in Nat /\ Len(queue) <= Depth + (Gop \div 2) + 1
    BY DEF FramesInv, FramesTyped, QueueInv
  <2>3. Len(ctJobs) \in Nat /\ cuInfo \in Nat /\ cuInfo <= CuBufs /\ Len(ctJobs) <= cuInfo
        /\ (cpc = "handle" => Len(ctJobs) + 1 <= cuInfo)
    BY DEF ThreadsInv, CuInv, Fits
  <2>4. Gop \div 2 \in Nat
    BY SizesAssumption
  <2>5. Len(ctJobs) + Len(queue) + (IF cpc = "handle" THEN 1 ELSE 0) <= Delay + 1
    <3>1. CASE cpc = "handle"
      BY <2>2, <2>3, <2>4, <3>1, DelayAssumption, SizesAssumption
    <3>2. CASE cpc # "handle"
      BY <2>2, <2>3, <2>4, <3>2, DelayAssumption, SizesAssumption
    <3> QED
      BY <3>1, <3>2
  <2> QED
    BY <2>1, <2>5 DEF PoolsSuffice
<1> QED
  BY <1>1, <1>2, <1>3, PTL DEF Spec

-----------------------------------------------------------------------------
(* The encoding order *)

\* The GOPs of a stream of n pictures, as FindNextPic cuts it: s pictures behind picture b.
\* The first picture is a GOP of its own, then come GOPs of Gop as long as they fit, and GOPs
\* of 4 and of what is left.
FirstCut(b, s, n) == b = -1 /\ s = 1 /\ n >= 1
WholeCut(b, s, n) == \E m \in Nat : b = m * Gop /\ s = Gop /\ b + Gop <= n - 1
RestCut(b, s, n) == \E m, j \in Nat : /\ m * Gop <= n - 1 /\ n - 1 < m * Gop + Gop
                                      /\ b = m * Gop + 4 * j /\ b < n - 1
                                      /\ s = Smaller(4, n - 1 - b)
Cut(b, s, n) == FirstCut(b, s, n) \/ WholeCut(b, s, n) \/ RestCut(b, s, n)

\* Division by the size of a GOP.
LEMMA Quotient ==
    ASSUME NEW k \in Nat, NEW m \in Nat, m * Gop <= k, k < m * Gop + Gop
    PROVE  k \div Gop = m
BY SizesAssumption, SMTT(30)

LEMMA Multiple ==
    ASSUME NEW m \in Nat
    PROVE  m * Gop \in Nat
BY SizesAssumption

LEMMA NextMultiple ==
    ASSUME NEW k \in Nat, NEW m \in Nat, k < m
    PROVE  k * Gop + Gop <= m * Gop
BY SizesAssumption, SMTT(30)

\* Each number lies in one multiple.
LEMMA Division ==
    ASSUME NEW k \in Nat
    PROVE  k \div Gop \in Nat /\ (k \div Gop) * Gop <= k /\ k < (k \div Gop) * Gop + Gop
BY SizesAssumption, SMTT(30)

\* Where the whole GOPs end in a stream of n pictures.
WholeEnd(n) == ((n - 1) \div Gop) * Gop

LEMMA WholeEnds ==
    ASSUME NEW n \in Nat, n >= 1
    PROVE  WholeEnd(n) \in Nat /\ WholeEnd(n) <= n - 1 /\ n - 1 < WholeEnd(n) + Gop
<1>1. n - 1 \in Nat
  OBVIOUS
<1>2. (n - 1) \div Gop \in Nat /\ ((n - 1) \div Gop) * Gop <= n - 1 /\ n - 1 < ((n - 1) \div Gop) * Gop + Gop
  BY <1>1, Division
<1> QED
  BY <1>2, Multiple DEF WholeEnd

LEMMA WholeEndIs ==
    ASSUME NEW n \in Nat, n >= 1, NEW m \in Nat, m * Gop <= n - 1, n - 1 < m * Gop + Gop
    PROVE  WholeEnd(n) = m * Gop
<1>1. n - 1 \in Nat
  OBVIOUS
<1>2. (n - 1) \div Gop = m
  BY <1>1, Quotient
<1> QED
  BY <1>2 DEF WholeEnd

\* A multiple that fits lies before that end.
LEMMA MultipleFits ==
    ASSUME NEW n \in Nat, n >= 1, NEW m \in Nat, m * Gop + Gop <= n - 1
    PROVE  m * Gop + Gop <= WholeEnd(n)
<1> DEFINE w == (n - 1) \div Gop
<1>1. w \in Nat /\ w * Gop <= n - 1 /\ n - 1 < w * Gop + Gop
  <2>1. n - 1 \in Nat
    OBVIOUS
  <2> QED
    BY <2>1, Division
<1> HIDE DEF w
<1>2. m * Gop \in Nat /\ w * Gop \in Nat /\ Gop \in Nat
  BY <1>1, Multiple, SizesAssumption
<1>3. m < w
  <2> SUFFICES ASSUME w <= m PROVE FALSE
    BY <1>1
  <2>1. w * Gop <= m * Gop
    <3>1. CASE w = m
      BY <1>2, <3>1
    <3>2. CASE w < m
      BY <1>1, <1>2, <3>2, NextMultiple, SizesAssumption
    <3> QED
      BY <1>1, <3>1, <3>2
  <2> QED
    BY <1>1, <1>2, <2>1
<1>4. m * Gop + Gop <= w * Gop
  BY <1>1, <1>3, NextMultiple
<1> QED
  BY <1>4 DEF WholeEnd, w

\* What is known of a GOP.
LEMMA CutBounds ==
    ASSUME NEW n \in Nat, NEW b \in Int, NEW s \in Int, Cut(b, s, n)
    PROVE  b >= -1 /\ s >= 1 /\ b + s <= n - 1 /\ n >= 1
<1>1. CASE FirstCut(b, s, n)
  BY <1>1 DEF FirstCut
<1>2. CASE WholeCut(b, s, n)
  <2>1. PICK m \in Nat : b = m * Gop /\ s = Gop /\ b + Gop <= n - 1
    BY <1>2 DEF WholeCut
  <2>2. m * Gop \in Nat
    BY Multiple
  <2> QED
    BY <2>1, <2>2, SizesAssumption
<1>3. CASE RestCut(b, s, n)
  <2>1. PICK m \in Nat, j \in Nat : b = m * Gop + 4 * j /\ b < n - 1 /\ s = Smaller(4, n - 1 - b)
    BY <1>3 DEF RestCut
  <2>2. m * Gop \in Nat
    BY Multiple
  <2>3. b >= 0
    BY <2>1, <2>2
  <2> QED
    BY <2>1, <2>3 DEF Smaller
<1> QED
  BY <1>1, <1>2, <1>3 DEF Cut

\* The picture at a place of the encoding order, found through the GOP it belongs to.
LEMMA CutOrder ==
    ASSUME NEW n \in Nat, NEW b \in Int, NEW s \in Int, Cut(b, s, n), NEW o \in Nat, o < s
    PROVE  Encoded(n, b + 2 + o) = IF o = 0 THEN b + s ELSE b + o
<1> DEFINE i == b + 2 + o
           k == i - 2
           start == IF k < WholeEnd(n) THEN (k \div Gop) * Gop ELSE WholeEnd(n) + ((k - WholeEnd(n)) \div 4) * 4
           size == IF k < WholeEnd(n) THEN Gop ELSE Smaller(4, n - 1 - start)
<1>1. Encoded(n, i) = IF i = 1 THEN 0 ELSE IF k = start THEN start + size ELSE k
  BY DEF Encoded, WholeEnd
<1>2. n >= 1 /\ b >= -1
  BY CutBounds
<1>3. WholeEnd(n) \in Nat /\ WholeEnd(n) <= n - 1 /\ n - 1 < WholeEnd(n) + Gop
  BY <1>2, WholeEnds
<1>4. k = b + o /\ i = b + 2 + o /\ Gop \in Nat /\ Gop > 0
  BY SizesAssumption
<1> HIDE DEF i
<1>5. CASE FirstCut(b, s, n)
  BY <1>1, <1>4, <1>5 DEF FirstCut, i
<1>6. CASE WholeCut(b, s, n)
  <2>1. PICK m \in Nat : b = m * Gop /\ s = Gop /\ b + Gop <= n - 1
    BY <1>6 DEF WholeCut
  <2>2. m * Gop \in Nat /\ m * Gop + Gop <= WholeEnd(n)
    BY <1>2, <2>1, Multiple, MultipleFits
  <2>3. k \in Nat /\ k < WholeEnd(n) /\ m * Gop <= k /\ k < m * Gop + Gop
    BY <1>3, <1>4, <2>1, <2>2
  <2>4. k \div Gop = m
    BY <2>3, Quotient
  <2>5. start = b /\ size = Gop
    BY <2>1, <2>3, <2>4
  <2>6. i # 1 /\ (k = b <=> o = 0)
    BY <1>2, <1>4, <2>1, <2>2
  <2> QED
    BY <1>1, <1>4, <2>1, <2>5, <2>6 DEF i
<1>7. CASE RestCut(b, s, n)
  <2>1. PICK m \in Nat, j \in Nat : /\ m * Gop <= n - 1 /\ n - 1 < m * Gop + Gop
                                   /\ b = m * Gop + 4 * j /\ b < n - 1 /\ s = Smaller(4, n - 1 - b)
    BY <1>7 DEF RestCut
  <2>2. WholeEnd(n) = m * Gop
    BY <1>2, <2>1, WholeEndIs
  <2>3. b = WholeEnd(n) + 4 * j /\ s <= 4 /\ s \in Int
    BY <1>2, <2>1, <2>2 DEF Smaller
  <2>4. ~(k < WholeEnd(n)) /\ k - WholeEnd(n) = 4 * j + o /\ k \in Int
    BY <1>3, <1>4, <2>3
  <2>5. (4 * j + o) \div 4 = j
    BY <2>3
  <2>8. start = b
    <3>1. start = WholeEnd(n) + ((k - WholeEnd(n)) \div 4) * 4
      BY <2>4
    <3>2. (k - WholeEnd(n)) \div 4 = j
      BY <2>4, <2>5
    <3> HIDE DEF start, k
    <3> QED
      BY <2>1, <2>3, <3>1, <3>2, <1>3
  <2>6. size = s
    <3>1. size = Smaller(4, n - 1 - start)
      BY <2>4
    <3> HIDE DEF start, k, size
    <3> QED
      BY <2>1, <2>8, <3>1
  <2> HIDE DEF start, size
  <2>7. i # 1 /\ (k = b <=> o = 0)
    BY <1>2, <1>3, <1>4, <2>3
  <2> QED
    BY <1>1, <1>4, <2>6, <2>7, <2>8 DEF i
<1> QED
  BY <1>5, <1>6, <1>7 DEF Cut, i

LEMMA OneMore ==
    ASSUME NEW m \in Nat
    PROVE  (m + 1) * Gop = m * Gop + Gop
BY SizesAssumption, SMTT(30)

\* The GOP behind a GOP that is not the last.
LEMMA CutAfter ==
    ASSUME NEW n \in Nat, NEW b \in Int, NEW s \in Int, Cut(b, s, n), NEW left \in Int,
           left = n - 1 - (b + s), left >= 1
    PROVE  Cut(b + s, IF left >= Gop THEN Gop ELSE Smaller(left, 4), n)
<1> DEFINE size == IF left >= Gop THEN Gop ELSE Smaller(left, 4)
<1>1. Gop \in Nat /\ Gop > 0
  BY SizesAssumption
<1>2. ASSUME NEW m \in Nat, b + s = m * Gop PROVE Cut(b + s, size, n)
  <2>1. m * Gop \in Nat
    BY Multiple
  <2>2. CASE left >= Gop
    <3>1. b + s + Gop <= n - 1
      BY <1>1, <2>2
    <3>2. WholeCut(b + s, Gop, n)
      BY <1>2, <3>1 DEF WholeCut
    <3> QED
      BY <2>2, <3>2 DEF Cut
  <2>3. CASE ~(left >= Gop)
    <3>1. m * Gop <= n - 1 /\ n - 1 < m * Gop + Gop /\ b + s < n - 1 /\ b + s = m * Gop + 4 * 0
      BY <1>1, <1>2, <2>1, <2>3
    <3>2. Smaller(left, 4) = Smaller(4, n - 1 - (b + s))
      BY DEF Smaller
    <3>3. RestCut(b + s, Smaller(left, 4), n)
      BY <3>1, <3>2 DEF RestCut
    <3> QED
      BY <2>3, <3>3 DEF Cut
  <2> QED
    BY <2>2, <2>3
<1>3. CASE FirstCut(b, s, n)
  <2>1. b + s = 0 * Gop
    BY <1>1, <1>3 DEF FirstCut
  <2> QED
    BY <2>1, <1>2
<1>4. CASE WholeCut(b, s, n)
  <2>1. PICK m \in Nat : b = m * Gop /\ s = Gop
    BY <1>4 DEF WholeCut
  <2>2. b + s = (m + 1) * Gop /\ m + 1 \in Nat
    BY <2>1, OneMore
  <2> QED
    BY <2>2, <1>2
<1>5. CASE RestCut(b, s, n)
  <2>1. PICK m \in Nat, j \in Nat : /\ m * Gop <= n - 1 /\ n - 1 < m * Gop + Gop
                                    /\ b = m * Gop + 4 * j /\ b < n - 1 /\ s = Smaller(4, n - 1 - b)
    BY <1>5 DEF RestCut
  <2>2. s = 4
    BY <2>1 DEF Smaller
  <2>3. m * Gop \in Nat
    BY Multiple
  <2>4. b + s = m * Gop + 4 * (j + 1) /\ b + s < n - 1 /\ j + 1 \in Nat
    BY <2>1, <2>2, <2>3
  <2>5. ~(left >= Gop)
    BY <1>1, <2>1, <2>2, <2>3
  <2>6. size = Smaller(4, n - 1 - (b + s))
    BY <2>5 DEF Smaller
  <2>7. RestCut(b + s, size, n)
    BY <2>1, <2>4, <2>6 DEF RestCut
  <2> QED
    BY <2>7 DEF Cut
<1> QED
  BY <1>3, <1>4, <1>5 DEF Cut

\* A stream that turns out shorter keeps the GOPs that lie within it.
LEMMA CutShorter ==
    ASSUME NEW n \in Nat, NEW k \in Nat, k <= n, NEW b \in Int, NEW s \in Int, Cut(b, s, n), b + s < k
    PROVE  Cut(b, s, k)
<1>1. Gop \in Nat /\ Gop > 0
  BY SizesAssumption
<1>2. CASE FirstCut(b, s, n)
  BY <1>2 DEF FirstCut, Cut
<1>3. CASE WholeCut(b, s, n)
  <2>1. PICK m \in Nat : b = m * Gop /\ s = Gop
    BY <1>3 DEF WholeCut
  <2>2. b + Gop <= k - 1
    BY <2>1
  <2>3. WholeCut(b, s, k)
    BY <2>1, <2>2 DEF WholeCut
  <2> QED
    BY <2>3 DEF Cut
<1>4. CASE RestCut(b, s, n)
  <2>1. PICK m \in Nat, j \in Nat : /\ m * Gop <= n - 1 /\ n - 1 < m * Gop + Gop
                                    /\ b = m * Gop + 4 * j /\ b < n - 1 /\ s = Smaller(4, n - 1 - b)
    BY <1>4 DEF RestCut
  <2>2. m * Gop \in Nat
    BY Multiple
  <2>3. s >= 1 /\ s \in Int
    BY <2>1 DEF Smaller
  <2>4. m * Gop <= k - 1 /\ k - 1 < m * Gop + Gop /\ b < k - 1
    BY <1>1, <2>1, <2>2, <2>3
  <2>5. s = Smaller(4, k - 1 - b)
    BY <2>1, <2>3, <2>4 DEF Smaller
  <2>6. RestCut(b, s, k)
    BY <2>1, <2>4, <2>5 DEF RestCut
  <2> QED
    BY <2>6 DEF Cut
<1> QED
  BY <1>2, <1>3, <1>4 DEF Cut

\* The picture at the place of a frame.
LEMMA CutPlace ==
    ASSUME NEW f, IsFrame(f), NEW n \in Nat, Cut(Base(f), f.gop, n)
    PROVE  Encoded(n, Base(f) + 2 + f.ord) = f.pic
<1>1. f.ord \in Nat /\ f.gop \in Int /\ Base(f) \in Int /\ f.ord < f.gop
  BY FrameFields
<1>2. Encoded(n, Base(f) + 2 + f.ord) = IF f.ord = 0 THEN Base(f) + f.gop ELSE Base(f) + f.ord
  BY <1>1, CutOrder
<1> QED
  BY <1>2, FrameFields

\* What FindNextPic plans belongs to the GOPs of the stream, or the stream is over.
LEMMA NextCut ==
    ASSUME NEW n \in Nat, NEW f, IsPic(f), Cut(Base(f), f.gop, n)
    PROVE  LET g == FindNextPic(f, n - 1)
           IN Cut(Base(g), g.gop, n) \/ (g.ord = 0 /\ Base(g) >= n - 1)
<1> DEFINE g == FindNextPic(f, n - 1)
           anchor == f.pic - f.ord + (IF f.ord = 0 THEN 0 ELSE f.gop)
           left == n - 1 - anchor
           size == IF left >= Gop THEN Gop ELSE IF left < 1 THEN 1 ELSE Smaller(left, 4)
<1>1. /\ f.ord \in Nat /\ f.gop \in Nat /\ f.pic \in Int /\ Base(f) \in Int /\ Top(f) \in Int
      /\ IsFrame(f)
  BY FrameFields DEF IsPic
<1>2. g = IF EndsGop(f) THEN Picture(anchor + size, size, 0)
          ELSE Picture(anchor - f.gop + f.ord + 1, f.gop, f.ord + 1)
  BY DEF FindNextPic
<1>3. Follows(f, g) /\ IsPic(g)
  <2>1. n - 1 \in Int
    OBVIOUS
  <2> QED
    BY <2>1, NextFollows
<1>4. anchor = Top(f)
  BY <1>1 DEF Top, Base
<1>5. CASE ~EndsGop(f)
  <2>1. g.gop = f.gop /\ Base(g) = Base(f)
    BY <1>3, <1>5 DEF Follows
  <2> QED
    BY <2>1
<1>6. CASE EndsGop(f)
  <2>1. g.ord = 0 /\ Base(g) = Top(f)
    BY <1>3, <1>6 DEF Follows
  <2>2. g.gop = size
    BY <1>2, <1>6 DEF Picture
  <2> HIDE DEF g, anchor
  <2>3. left = n - 1 - (Base(f) + f.gop) /\ left \in Int
    BY <1>1, <1>4 DEF Top
  <2>4. CASE left < 1
    BY <1>1, <2>1, <2>3, <2>4 DEF Top, g
  <2>5. CASE left >= 1
    <3>1. size = IF left >= Gop THEN Gop ELSE Smaller(left, 4)
      BY <2>3, <2>5
    <3> HIDE DEF left, size
    <3>2. Cut(Base(f) + f.gop, IF left >= Gop THEN Gop ELSE Smaller(left, 4), n)
      BY <1>1, <2>3, <2>5, CutAfter
    <3>3. Base(g) = Base(f) + f.gop
      BY <2>1 DEF Top
    <3> QED
      BY <2>2, <3>1, <3>2, <3>3 DEF g
  <2> QED
    BY <2>3, <2>4, <2>5
<1> QED
  BY <1>5, <1>6

\* The order of the pictures within those GOPs stays as well.
LEMMA OrderShorter ==
    ASSUME NEW n \in Nat, NEW k \in Nat, k <= n, NEW b \in Int, NEW s \in Int, Cut(b, s, n), b + s < k,
           NEW i \in Nat, i >= 1, i <= b + s + 1
    PROVE  Encoded(k, i) = Encoded(n, i)
<1> DEFINE p == i - 2
           w == WholeEnd(n)
           v == WholeEnd(k)
           startN == IF p < w THEN (p \div Gop) * Gop ELSE w + ((p - w) \div 4) * 4
           sizeN == IF p < w THEN Gop ELSE Smaller(4, n - 1 - startN)
           startK == IF p < v THEN (p \div Gop) * Gop ELSE v + ((p - v) \div 4) * 4
           sizeK == IF p < v THEN Gop ELSE Smaller(4, k - 1 - startK)
<1>1. Encoded(n, i) = IF i = 1 THEN 0 ELSE IF p = startN THEN startN + sizeN ELSE p
  BY DEF Encoded, WholeEnd
<1>2. Encoded(k, i) = IF i = 1 THEN 0 ELSE IF p = startK THEN startK + sizeK ELSE p
  BY DEF Encoded, WholeEnd
<1>3. b >= -1 /\ s >= 1 /\ b + s <= n - 1 /\ n >= 1 /\ k >= 1
  <2>1. b >= -1 /\ s >= 1 /\ b + s <= n - 1 /\ n >= 1
    BY CutBounds
  <2> QED
    BY <2>1
<1>4. /\ w \in Nat /\ w <= n - 1 /\ n - 1 < w + Gop
      /\ v \in Nat /\ v <= k - 1 /\ k - 1 < v + Gop
      /\ Gop \in Nat /\ Gop > 0
  BY <1>3, WholeEnds, SizesAssumption
<1>5. CASE i = 1
  BY <1>1, <1>2, <1>5
<1> SUFFICES ASSUME i # 1 PROVE Encoded(k, i) = Encoded(n, i)
  BY <1>5
<1>6. p \in Nat /\ p < b + s
  BY <1>3
<1>7. p >= v => /\ ~WholeCut(b, s, n) /\ ~FirstCut(b, s, n)
  <2> SUFFICES ASSUME p >= v PROVE ~WholeCut(b, s, n) /\ ~FirstCut(b, s, n)
    OBVIOUS
  <2>1. ~FirstCut(b, s, n)
    BY <1>6 DEF FirstCut
  <2>2. ASSUME NEW m \in Nat, b = m * Gop, s = Gop PROVE FALSE
    <3>1. m * Gop + Gop <= k - 1
      BY <2>2, <1>4
    <3>2. m * Gop + Gop <= v
      BY <1>3, <3>1, MultipleFits
    <3> QED
      BY <1>4, <1>6, <2>2, <3>2
  <2> QED
    BY <2>1, <2>2 DEF WholeCut
<1>8. CASE p < v
  <2>1. v <= w
    <3>1. PICK m \in Nat : v = m * Gop
      <4>1. k - 1 \in Nat
        BY <1>3
      <4> QED
        BY <4>1, Division DEF WholeEnd
    <3>2. CASE m = 0
      BY <1>4, <3>1, <3>2
    <3>3. CASE m # 0
      <4>1. PICK l \in Nat : m = l + 1
        <5>1. m - 1 \in Nat /\ m = (m - 1) + 1
          BY <3>3
        <5> QED
          BY <5>1
      <4>2. l * Gop + Gop <= n - 1 /\ v = l * Gop + Gop
        <5>1. v = l * Gop + Gop
          BY <3>1, <4>1, OneMore
        <5> QED
          BY <1>4, <5>1
      <4> QED
        BY <1>3, <4>2, MultipleFits
    <3> QED
      BY <3>2, <3>3
  <2>2. p < w
    BY <1>4, <1>6, <1>8, <2>1
  <2>3. startN = startK /\ sizeN = sizeK
    BY <1>8, <2>2
  <2> HIDE DEF startN, startK, sizeN, sizeK
  <2> QED
    BY <1>1, <1>2, <2>3
<1>9. CASE p >= v
  <2>1. PICK m \in Nat, j \in Nat : /\ m * Gop <= n - 1 /\ n - 1 < m * Gop + Gop
                                    /\ b = m * Gop + 4 * j /\ b < n - 1 /\ s = Smaller(4, n - 1 - b)
    BY <1>7, <1>9 DEF Cut, RestCut
  <2>2. w = m * Gop
    BY <1>3, <2>1, WholeEndIs
  <2>3. v = w
    <3>1. m * Gop <= k - 1 /\ k - 1 < m * Gop + Gop
      BY <1>3, <1>4, <2>1, <2>2
    <3> QED
      BY <1>3, <2>2, <3>1, WholeEndIs
  <2>4. startN = startK /\ startN = w + ((p - w) \div 4) * 4
    BY <1>9, <2>3, <1>4, <1>6
  <2>5. PICK q \in Nat : (p - w) \div 4 = q
    <3>1. p - w \in Nat
      BY <1>4, <1>6, <1>9, <2>3
    <3> QED
      BY <3>1
  <2>6. sizeN = Smaller(4, n - 1 - startN) /\ sizeK = Smaller(4, k - 1 - startN)
    BY <1>4, <1>6, <1>9, <2>3, <2>4
  <2> HIDE DEF startN, startK, sizeN, sizeK
  <2>7. ASSUME p = startN PROVE sizeN = sizeK
    <3>1. p = w + 4 * q /\ b = w + 4 * j
      BY <2>1, <2>2, <2>4, <2>5, <2>7, <1>4
    <3>2. s = IF 4 < n - 1 - b THEN 4 ELSE n - 1 - b
      BY <2>1 DEF Smaller
    <3>3. q <= j
      BY <1>4, <1>6, <3>1, <3>2
    <3>4. CASE q = j
      <4>1. startN = b
        BY <2>7, <3>1, <3>4
      <4> QED
        BY <2>6, <4>1, <3>2, <1>3 DEF Smaller
    <3>5. CASE q < j
      <4>1. startN \in Int /\ startN + 4 <= b
        BY <1>4, <2>7, <3>1, <3>5
      <4> QED
        BY <2>6, <4>1, <1>3 DEF Smaller
    <3> QED
      BY <3>3, <3>4, <3>5
  <2> QED
    BY <1>1, <1>2, <2>4, <2>7
<1> QED
  BY <1>4, <1>6, <1>8, <1>9

-----------------------------------------------------------------------------
(* The stream that pass 1 encodes *)

OnCut(f) == Cut(Base(f), f.gop, lastPic + 1)

\* Before a stop pass 1 goes through the GOPs of the stream of the announced pictures or,
\* once it is flushed, of those that came.
Planned ==
    BeforeStop =>
        /\ enqueued = fed /\ fed <= lastPic + 1 /\ lastPic <= LastPic /\ (~bFlush => lastPic = LastPic)
        /\ status = LookaheadFlush => bFlush
        /\ last = BeforeFirst \/ OnCut(last)
        /\ OnCut(want) \/ (IsAnchor(want) /\ Base(want) >= lastPic)
        /\ lpc = "added" => OnCut(want)

LEMMA PlannedInit == Init => Planned
<1> SUFFICES ASSUME Init PROVE Planned
  OBVIOUS
<1>1. LastPic \in Nat
  BY SizesAssumption
<1>2. /\ want = First /\ last = BeforeFirst /\ lastPic = LastPic /\ fed = 0 /\ enqueued = 0
      /\ status = Ok /\ lpc = "loop" /\ bFlush = FALSE
  BY DEF Init, BeforeFirst
<1>3. Base(want) = -1 /\ want.gop = 1
  BY <1>2 DEF First, Picture, Base
<1>4. FirstCut(-1, 1, lastPic + 1)
  BY <1>1, <1>2 DEF FirstCut
<1>5. OnCut(want)
  BY <1>3, <1>4 DEF OnCut, Cut
<1> QED
  BY <1>1, <1>2, <1>5 DEF Planned, Ok, LookaheadFlush

LEMMA StopLasts == [Next]_vars /\ BeforeStop' => BeforeStop
<1> SUFFICES ASSUME [Next]_vars, BeforeStop' PROVE BeforeStop
  OBVIOUS
<1>1. CASE CutreeStep
  <2>1. mpc' = mpc \/ mpc' = SignalOutput(mpc) \/ mpc' = Woken(mpc, "ctStopSleep", "cutreeStops")
    BY <1>1
      DEF CutreeStep, CuTreeLoop, AwaitFrame, TakeFrame, HandleInputFrame, Process, WriteFrame,
       RemoveFrames, EndCuTree, Enqueue
  <2> QED
    BY <2>1 DEF SignalOutput, Woken, BeforeStop
<1>2. CASE LookaheadStep
  <2>1. mpc' = mpc \/ mpc' = SignalOutput(mpc) \/ mpc' = Woken(mpc, "laStopSleep", "lookaheadStops")
    BY <1>2
      DEF LookaheadStep, LookaheadLoop, AwaitAnyJob, AwaitJob, TakeJob, WaitCuInfoBuf,
          EncodePass1,
       AfterAddFrame, EndLookahead, Enqueue, ParkLookahead
  <2> QED
    BY <2>1 DEF SignalOutput, Woken, BeforeStop
<1>3. CASE CallStep
  BY <1>3 DEF CallStep, GetLookaheadOutput, EncodePass2, StopLookaheadThread, StopCuTreeThread,
     TerminateLookaheadThread, TerminateCuTreeThread, BeforeStop
<1>4. CASE AddPictureToLookahead \/ Flush \/ FlushNothing
  BY <1>4 DEF AddPictureToLookahead, Flush, FlushNothing, BeforeStop
<1>5. CASE Release
  BY <1>5 DEF Release, BeforeStop
<1>6. CASE UNCHANGED vars
  BY <1>6 DEF vars, mainVars, BeforeStop
<1> QED
  BY <1>1, <1>2, <1>3, <1>4, <1>5, <1>6 DEF Next

LEMMA PlannedKept ==
    ASSUME Planned,
           BeforeStop' => /\ BeforeStop /\ UNCHANGED <<enqueued, fed, lastPic, last, want>>
                          /\ bFlush => bFlush'
                          /\ status' = LookaheadFlush => status = LookaheadFlush \/ bFlush'
                          /\ lpc' = "added" => lpc = "added"
    PROVE  Planned'
<1> SUFFICES ASSUME BeforeStop' PROVE Planned'
  BY DEF Planned
<1>1. OnCut(last)' = OnCut(last) /\ OnCut(want)' = OnCut(want) /\ Base(want)' = Base(want)
  BY DEF OnCut, Base
<1> QED
  BY <1>1 DEF Planned, IsAnchor

\* What the places of the threads mean before a stop.
LEMMA Running ==
    ASSUME ThreadsInv, BeforeStop
    PROVE  /\ status \in {Ok, LookaheadFlush, CutreeFlush, CutreeFlushEnd}
           /\ ~laFailed /\ ~ctFailed
           /\ laStop => lpc \in {"flushing", "ended"}
           /\ lpc = "woken" => ~staleStop
           /\ lpc \notin LaOver => status \in {Ok, LookaheadFlush}
           /\ cpc \notin CtOver => Normal
<1>1. StopInv /\ ParkInv /\ EndingInv /\ ErrorInv /\ SeenInv
  BY DEF ThreadsInv, ControlInv
<1>2. status \in {Ok, LookaheadFlush, CutreeFlush, CutreeFlushEnd}
  <2>1. status \in 0 .. 7 /\ status < LookaheadError /\ status # MainStop
    BY <1>1 DEF StopInv, ErrorInv, StopPhase, BeforeStop
  <2> QED
    BY <2>1 DEF Ok, MainStop, LookaheadFlush, CutreeFlush, CutreeFlushEnd, LookaheadError
<1>3. ~laFailed /\ ~ctFailed
  BY <1>1 DEF ErrorInv
<1>4. laStop => lpc \in {"flushing", "ended"}
  BY <1>1 DEF ParkInv
<1>5. lpc = "woken" => ~staleStop
  BY <1>1, <1>4 DEF ParkInv
<1>6. lpc \notin LaOver => status \in {Ok, LookaheadFlush}
  BY <1>1, <1>2 DEF EndingInv, BeforeStop, AfterCutree
<1>7. cpc \notin CtOver => Normal
  BY <1>1 DEF ParkInv, SeenInv, Normal
<1> QED
  BY <1>2, <1>3, <1>4, <1>5, <1>6, <1>7

LEMMA PlannedFed ==
    ASSUME Pass1Inv, Planned, AddPictureToLookahead
    PROVE  Planned'
<1>1. /\ mpc = "ready" /\ ~bFlush /\ fed < Frames /\ enqueued' = enqueued + 1 /\ fed' = fed + 1
      /\ UNCHANGED <<lastPic, last, want, status, bFlush>> /\ (lpc' = "added" => lpc = "added")
  BY WakesKeepPlace DEF AddPictureToLookahead
<1>2. /\ enqueued = fed /\ fed <= lastPic + 1 /\ lastPic <= LastPic /\ (~bFlush => lastPic = LastPic)
      /\ status = LookaheadFlush => bFlush
      /\ last = BeforeFirst \/ OnCut(last)
      /\ OnCut(want) \/ (IsAnchor(want) /\ Base(want) >= lastPic)
      /\ lpc = "added" => OnCut(want)
  BY <1>1 DEF Planned, BeforeStop
<1>3. OnCut(last)' = OnCut(last) /\ OnCut(want)' = OnCut(want) /\ Base(want)' = Base(want)
  BY <1>1 DEF OnCut, Base
<1>4. fed' <= lastPic' + 1
  BY <1>1, <1>2, SizesAssumption DEF Pass1Inv, LaTypes
<1> QED
  BY <1>1, <1>2, <1>3, <1>4 DEF Planned, IsAnchor

\* The stream is planned again: what was encoded keeps its place.
LEMMA PlannedAgain ==
    ASSUME ThreadsInv, Planned, TakeJob, lastPic' # lastPic \/ want' # want, BeforeStop
    PROVE  /\ bFlush /\ lastPic' = fed - 1 /\ fed <= lastPic /\ Top(last) < fed /\ last # BeforeFirst
           /\ want' = FindNextPic(last, fed - 1) /\ IsPic(last) /\ EndsGop(last)
<1>1. /\ lpc = "second" /\ laJob = None /\ ~EndsNormally /\ last.pic # None /\ status >= LookaheadFlush
      /\ lastPic' = enqueued - 1 /\ want' = FindNextPic(last, lastPic') /\ status # MainStop
  BY DEF TakeJob
<1>2. enqueued = fed /\ (status = LookaheadFlush => bFlush)
  BY DEF Planned
<1>3. bFlush /\ ~laStop
  BY <1>1, <1>2, Running DEF LaOver, Ok, LookaheadFlush
<1>4. Pass1Inv
  BY DEF ThreadsInv
<1>5. EndsGop(last) /\ Newest = last
  BY <1>1, <1>3, <1>4, EndOfGop DEF Newest
<1>6. Top(last) < fed /\ fed \in Nat /\ lastPic \in Int /\ (IsPic(last) \/ last = BeforeFirst)
  BY <1>4, <1>5 DEF Pass1Inv, ToCome, LaTypes
<1>7. last # BeforeFirst
  BY <1>1 DEF BeforeFirst, Picture
<1> QED
  BY <1>1, <1>2, <1>3, <1>5, <1>6, <1>7 DEF EndsNormally

LEMMA PlannedTaken ==
    ASSUME ThreadsInv, Planned, TakeJob
    PROVE  Planned'
<1> SUFFICES ASSUME BeforeStop' PROVE Planned'
  BY DEF Planned
<1>1. /\ UNCHANGED <<enqueued, fed, last, bFlush, status, mpc>> /\ lpc = "second" /\ lpc' # "added"
  BY DEF TakeJob, LaElse, jobVars
<1>2. BeforeStop
  BY <1>1 DEF BeforeStop
<1>3. CASE lastPic' = lastPic /\ want' = want
  BY <1>1, <1>2, <1>3, PlannedKept
<1>4. CASE lastPic' # lastPic \/ want' # want
  <2>1. /\ bFlush /\ lastPic' = fed - 1 /\ fed <= lastPic /\ Top(last) < fed /\ last # BeforeFirst
        /\ want' = FindNextPic(last, fed - 1) /\ IsPic(last)
    BY <1>2, <1>4, PlannedAgain
  <2>2. fed \in Nat /\ lastPic \in Int /\ IsFrame(last)
    BY <2>1 DEF ThreadsInv, Pass1Inv, LaTypes, IsPic
  <2>3. enqueued = fed /\ lastPic <= LastPic /\ OnCut(last)
    BY <1>2, <2>1 DEF Planned
  <2>4. Base(last) \in Int /\ last.gop \in Int /\ Top(last) = Base(last) + last.gop
    BY <2>2, FrameFields DEF Top
  <2>5. Cut(Base(last), last.gop, fed)
    <3>1. lastPic + 1 \in Nat /\ fed <= lastPic + 1 /\ Base(last) + last.gop < fed
      BY <2>1, <2>2, <2>4
    <3>2. Cut(Base(last), last.gop, lastPic + 1)
      BY <2>3 DEF OnCut
    <3> QED
      BY <2>2, <2>4, <3>1, <3>2, CutShorter
  <2> DEFINE g == FindNextPic(last, fed - 1)
  <2>6. Cut(Base(g), g.gop, fed) \/ (g.ord = 0 /\ Base(g) >= fed - 1)
    BY <2>1, <2>2, <2>5, NextCut
  <2> HIDE DEF g
  <2>7. lastPic' + 1 = fed /\ want' = g /\ lastPic' = fed - 1
    BY <2>1, <2>2 DEF g
  <2>8. OnCut(last)'
    BY <1>1, <2>5, <2>7 DEF OnCut, Base
  <2>9. OnCut(want)' \/ (IsAnchor(want) /\ Base(want) >= lastPic)'
    BY <2>6, <2>7 DEF OnCut, Base, IsAnchor
  <2>10. lastPic' <= LastPic
    BY <2>1, <2>2, <2>3, SizesAssumption
  <2> QED
    BY <1>1, <2>1, <2>2, <2>3, <2>7, <2>8, <2>9, <2>10 DEF Planned
<1> QED
  BY <1>3, <1>4

\* What is encoded is a picture of the stream.
LEMMA WantedIsThere ==
    ASSUME Pass1Inv, Planned, BeforeStop, lpc = "pass1"
    PROVE  OnCut(want)
<1>1. laJob = want.pic /\ laJob < fed /\ IsFrame(want) /\ fed \in Nat /\ lastPic \in Int
  BY DEF Pass1Inv, JobFound, LaTypes, InPass1, IsPic
<1>2. Base(want) < want.pic /\ Base(want) \in Int /\ want.pic \in Int
  BY <1>1, FrameFields
<1>3. fed <= lastPic + 1 /\ (OnCut(want) \/ Base(want) >= lastPic)
  BY DEF Planned
<1> QED
  BY <1>1, <1>2, <1>3

LEMMA PlannedPass1 ==
    ASSUME Pass1Inv, Planned, EncodePass1
    PROVE  Planned'
<1> SUFFICES ASSUME BeforeStop' PROVE Planned'
  BY DEF Planned
<1>1. /\ UNCHANGED <<enqueued, fed, lastPic, last, want, bFlush, status>> /\ lpc = "pass1"
      /\ mpc' = mpc \/ mpc' = SignalOutput(mpc)
  BY DEF EncodePass1, jobVars, Enqueue
<1>2. BeforeStop
  BY <1>1 DEF BeforeStop, SignalOutput, Woken
<1>3. OnCut(want)
  BY <1>1, <1>2, WantedIsThere
<1>4. OnCut(last)' = OnCut(last) /\ OnCut(want)' = OnCut(want)
  BY <1>1 DEF OnCut, Base
<1> QED
  BY <1>1, <1>2, <1>3, <1>4 DEF Planned

LEMMA PlannedAdded ==
    ASSUME ThreadsInv, Planned, AfterAddFrame
    PROVE  Planned'
<1> SUFFICES ASSUME BeforeStop' PROVE Planned'
  BY DEF Planned
<1>1. /\ UNCHANGED <<enqueued, fed, lastPic, bFlush, status, mpc>> /\ lpc = "added" /\ lpc' # "added"
  BY DEF AfterAddFrame, LaElse, jobVars
<1>2. BeforeStop
  BY <1>1 DEF BeforeStop
<1>3. status < LookaheadError
  BY <1>2 DEF ThreadsInv, ControlInv, ErrorInv
<1>4. last' = want /\ want' = FindNextPic(want, lastPic)
  BY <1>2, Running
    DEF AfterAddFrame, Ok, LookaheadFlush, CutreeFlush, CutreeFlushEnd, LookaheadError
<1>5. /\ enqueued = fed /\ fed <= lastPic + 1 /\ lastPic <= LastPic /\ (~bFlush => lastPic = LastPic)
      /\ status = LookaheadFlush => bFlush
      /\ OnCut(want)
  BY <1>1, <1>2 DEF Planned
<1>6. fed \in Nat /\ lastPic \in Int /\ IsPic(want)
  BY DEF ThreadsInv, Pass1Inv, LaTypes
<1> DEFINE n == lastPic + 1
           g == FindNextPic(want, n - 1)
<1>7. n \in Nat /\ n - 1 = lastPic
  BY <1>5, <1>6
<1>8. Cut(Base(want), want.gop, n)
  BY <1>5 DEF OnCut
<1> HIDE DEF n
<1>9. Cut(Base(g), g.gop, n) \/ (g.ord = 0 /\ Base(g) >= n - 1)
  BY <1>6, <1>7, <1>8, NextCut
<1>10. want' = g
  BY <1>4, <1>7
<1> HIDE DEF g
<1>11. OnCut(last)'
  BY <1>1, <1>4, <1>8 DEF OnCut, Base, n
<1>12. OnCut(want)' \/ (IsAnchor(want) /\ Base(want) >= lastPic)'
  BY <1>1, <1>7, <1>9, <1>10 DEF OnCut, Base, IsAnchor, n
<1> QED
  BY <1>1, <1>5, <1>11, <1>12 DEF Planned

LEMMA PlannedNext == ThreadsInv /\ Planned /\ [Next]_vars => Planned'
<1> SUFFICES ASSUME ThreadsInv, Planned, [Next]_vars, BeforeStop' PROVE Planned'
  BY DEF Planned
<1>1. Pass1Inv
  BY DEF ThreadsInv
<1>2. BeforeStop
  BY StopLasts
<1>3. CASE AddPictureToLookahead
  BY <1>1, <1>3, PlannedFed
<1>4. CASE TakeJob
  BY <1>4, PlannedTaken
<1>5. CASE EncodePass1
  BY <1>1, <1>5, PlannedPass1
<1>6. CASE AfterAddFrame
  BY <1>6, PlannedAdded
<1>7. CASE Flush \/ FlushNothing
  <2>1. /\ UNCHANGED <<enqueued, fed, lastPic, last, want>> /\ bFlush'
        /\ lpc' = lpc \/ lpc' = SignalJob(lpc)
    BY <1>7 DEF Flush, FlushNothing, jobVars, laVars
  <2>2. lpc' = "added" => lpc = "added"
    BY <2>1, WakesKeepPlace
  <2> QED
    BY <1>2, <2>1, <2>2, PlannedKept
<1>8. CASE AwaitAnyJob \/ AwaitJob
  <2>1. UNCHANGED <<fed, lastPic, last, want, bFlush, status>> /\ lpc' # "added"
    BY <1>8 DEF AwaitAnyJob, AwaitJob, LaElse
  <2>2. status # MainStop /\ ~(lpc = "woken" /\ staleStop)
    BY <1>2, Running DEF MainStop, Ok, LookaheadFlush, CutreeFlush, CutreeFlushEnd
  <2>3. enqueued' = enqueued
    BY <1>8, <2>2 DEF AwaitAnyJob, AwaitJob, jobVars
  <2> QED
    BY <1>2, <2>1, <2>3, PlannedKept
<1>9. CASE LookaheadLoop \/ WaitCuInfoBuf \/ EndLookahead
  <2>1. UNCHANGED <<enqueued, fed, lastPic, last, want, bFlush>> /\ lpc' # "added"
    BY <1>9 DEF LookaheadLoop, WaitCuInfoBuf, EndLookahead, jobVars, LaElse
  <2>2. status' = LookaheadFlush => status = LookaheadFlush
    BY <1>9
      DEF LookaheadLoop, WaitCuInfoBuf, EndLookahead, PassOneDone, LookaheadError,
          LookaheadFlush,
       CutreeFlush
  <2> QED
    BY <1>2, <2>1, <2>2, PlannedKept
<1>10. CASE CutreeStep
  <2>1. UNCHANGED <<enqueued, fed, lastPic, last, want, bFlush>>
    BY <1>10
      DEF CutreeStep, CuTreeLoop, AwaitFrame, TakeFrame, HandleInputFrame, Process, WriteFrame,
       RemoveFrames, EndCuTree, CtKeeps, jobVars
  <2>2. status' = LookaheadFlush => status = LookaheadFlush
    <3>1. CASE EndCuTree
      BY <3>1 DEF EndCuTree, CutreeError, CutreeFlushEnd, LookaheadFlush
    <3>2. CASE ~EndCuTree
      BY <1>10, <3>2
        DEF CutreeStep, CuTreeLoop, AwaitFrame, TakeFrame, HandleInputFrame, Process,
            WriteFrame,
         RemoveFrames
    <3> QED
      BY <3>1, <3>2
  <2>3. lpc' = lpc \/ lpc' = Woken(lpc, "cuInfoSleep", "cuInfo")
    BY <1>10
      DEF CutreeStep, CuTreeLoop, AwaitFrame, TakeFrame, HandleInputFrame, Process, WriteFrame,
       RemoveFrames, EndCuTree
  <2>4. lpc' = "added" => lpc = "added"
    BY <2>3 DEF Woken
  <2> QED
    BY <1>2, <2>1, <2>2, <2>4, PlannedKept
<1>11. CASE GetLookaheadOutput \/ EncodePass2
  <2>1. UNCHANGED <<enqueued, fed, lastPic, last, want, bFlush, status, lpc>>
    BY <1>11 DEF GetLookaheadOutput, EncodePass2, jobVars, laVars
  <2> QED
    BY <1>2, <2>1, PlannedKept
<1>12. CASE \/ Release \/ StopLookaheadThread \/ StopCuTreeThread
            \/ TerminateLookaheadThread \/ TerminateCuTreeThread
  BY <1>2, <1>12 DEF Release, StopLookaheadThread, StopCuTreeThread, TerminateLookaheadThread,
     TerminateCuTreeThread, BeforeStop
<1>13. CASE UNCHANGED vars
  <2>1. UNCHANGED <<enqueued, fed, lastPic, last, want, bFlush, status, lpc>>
    BY <1>13 DEF vars, mainVars, jobVars, laVars
  <2> QED
    BY <1>2, <2>1, PlannedKept
<1> QED
  BY <1>3, <1>4, <1>5, <1>6, <1>7, <1>8, <1>9, <1>10, <1>11, <1>12, <1>13
    DEF Next, CallStep, LookaheadStep

\* The frames of the cuTree thread are GOPs of that stream, up to the newest one.
Inside(f) == OnCut(f) /\ Top(f) <= Top(Newest)
InStream ==
    BeforeStop => /\ \A i \in 1 .. Len(ctJobs) : Inside(ctJobs[i])
                  /\ cpc = "handle" => Inside(frame)
                  /\ \A i \in 1 .. Len(queue) : Inside(queue[i])

LEMMA InStreamInit == Init => InStream
<1> SUFFICES ASSUME Init PROVE InStream
  OBVIOUS
<1>1. ctJobs = <<>> /\ queue = <<>> /\ cpc = "test"
  BY DEF Init
<1> QED
  BY <1>1, EmptyQueue DEF InStream

LEMMA InStreamKept ==
    ASSUME InStream, ctJobs \in Seq(Frame), queue \in Seq(Frame),
           BeforeStop' =>
               /\ BeforeStop /\ lastPic' = lastPic /\ Newest' = Newest
               /\ \A i \in 1 .. Len(ctJobs') : \E j \in 1 .. Len(ctJobs) : ctJobs'[i] = ctJobs[j]
               /\ cpc' = "handle" => \/ cpc = "handle" /\ frame' = frame
                                     \/ \E j \in 1 .. Len(ctJobs) : frame' = ctJobs[j]
               /\ \A i \in 1 .. Len(queue') :
                      \/ cpc = "handle" /\ queue'[i] = frame
                      \/ \E j \in 1 .. Len(queue) :
                             /\ queue'[i].pic = queue[j].pic /\ queue'[i].gop = queue[j].gop
                             /\ queue'[i].ord = queue[j].ord
    PROVE  InStream'
<1> SUFFICES ASSUME BeforeStop' PROVE InStream'
  BY DEF InStream
<1>1. /\ \A i \in 1 .. Len(ctJobs) : Inside(ctJobs[i])
      /\ cpc = "handle" => Inside(frame)
      /\ \A i \in 1 .. Len(queue) : Inside(queue[i])
  BY DEF InStream
<1>2. lastPic' = lastPic /\ Newest' = Newest
  OBVIOUS
<1>3. ASSUME NEW f, NEW g, f.pic = g.pic, f.gop = g.gop, f.ord = g.ord, Inside(g)
      PROVE  Cut(Base(f), f.gop, lastPic' + 1) /\ Top(f) <= Top(Newest')
  <2>1. Base(f) = Base(g) /\ Top(f) = Top(g)
    BY <1>3 DEF Base, Top
  <2> QED
    BY <1>2, <1>3, <2>1 DEF Inside, OnCut
<1>4. ASSUME NEW i \in 1 .. Len(ctJobs') PROVE Inside(ctJobs[i])'
  <2>1. PICK j \in 1 .. Len(ctJobs) : ctJobs'[i] = ctJobs[j]
    BY <1>4
  <2>2. Cut(Base(ctJobs'[i]), ctJobs'[i].gop, lastPic' + 1) /\ Top(ctJobs'[i]) <= Top(Newest')
    BY <1>1, <1>3, <2>1
  <2> QED
    BY <2>2 DEF Inside, OnCut, Base, Top
<1>5. ASSUME cpc' = "handle" PROVE Inside(frame)'
  <2>1. PICK g : frame' = g /\ Inside(g)
    BY <1>1, <1>5
  <2>2. Cut(Base(frame'), frame'.gop, lastPic' + 1) /\ Top(frame') <= Top(Newest')
    BY <1>3, <2>1
  <2> QED
    BY <2>2 DEF Inside, OnCut, Base, Top
<1>6. ASSUME NEW i \in 1 .. Len(queue') PROVE Inside(queue[i])'
  <2>1. PICK g : /\ queue'[i].pic = g.pic /\ queue'[i].gop = g.gop /\ queue'[i].ord = g.ord
                 /\ Inside(g)
    BY <1>1, <1>6
  <2>2. Cut(Base(queue'[i]), queue'[i].gop, lastPic' + 1) /\ Top(queue'[i]) <= Top(Newest')
    BY <1>3, <2>1
  <2> QED
    BY <2>2 DEF Inside, OnCut, Base, Top
<1> QED
  BY <1>4, <1>5, <1>6 DEF InStream

\* What the insertion makes of the queue, frame by frame.
LEMMA InsertedFrames ==
    ASSUME Normal, FramesInv, cpc = "handle"
    PROVE  /\ Insert(queue, frame) \in Seq(Frame) /\ Len(Insert(queue, frame)) = Len(queue) + 1
           /\ \A i \in 1 .. Len(queue) + 1 :
                  \/ Insert(queue, frame)[i] = frame
                  \/ \E j \in 1 .. Len(queue) : Insert(queue, frame)[i] = queue[j]
           /\ Insert(queue, frame)[1] = IF queue = <<>> THEN frame ELSE queue[1]
<1>1. queue \in Seq(Frame) /\ frame \in Frame /\ IsFrame(frame) /\ Len(queue) \in Nat
  BY DEF FramesInv, FramesTyped, IsPic, IsFrame
<1>2. CASE queue # <<>>
  <2>1. Shape(queue, lastGopEnd, Len(queue)) /\ ComesNext(frame, queue, lastGopEnd, Len(queue))
    BY <1>2 DEF FramesInv, InQueue
  <2> DEFINE k == IF Len(queue) = lastGopEnd THEN Len(queue) + 1 ELSE Len(queue)
             t == Insert(queue, frame)
  <2>2. t = InsertAt(queue, k, frame)
    <3>1. PICK n : n = Len(queue)
      OBVIOUS
    <3>2. Insert(queue, frame) = InsertAt(queue, IF n = lastGopEnd THEN n + 1 ELSE n, frame)
      BY <1>1, <2>1, <3>1, InsertPlace
    <3> QED
      BY <3>1, <3>2
  <2>3. k \in 2 .. Len(queue) + 1
    <3>1. lastGopEnd \in 1 .. Len(queue)
      BY <2>1 DEF Shape
    <3> QED
      BY <1>1, <3>1
  <2> HIDE DEF k, t
  <2>4. /\ t \in Seq(Frame) /\ Len(t) = Len(queue) + 1
        /\ \A i \in 1 .. k - 1 : t[i] = queue[i]
        /\ t[k] = frame
        /\ \A i \in k + 1 .. Len(queue) + 1 : t[i] = queue[i - 1]
    <3>1. k \in 1 .. Len(queue) + 1
      BY <1>1, <2>3
    <3>2. /\ InsertAt(queue, k, frame) \in Seq(Frame) /\ Len(InsertAt(queue, k, frame)) = Len(queue) + 1
          /\ \A i \in 1 .. k - 1 : InsertAt(queue, k, frame)[i] = queue[i]
          /\ InsertAt(queue, k, frame)[k] = frame
          /\ \A i \in k + 1 .. Len(queue) + 1 : InsertAt(queue, k, frame)[i] = queue[i - 1]
      BY ONLY <1>1, <3>1, InsertElements
    <3> QED
      BY <2>2, <3>2
  <2>5. ASSUME NEW i \in 1 .. Len(queue) + 1
        PROVE  t[i] = frame \/ \E j \in 1 .. Len(queue) : t[i] = queue[j]
    <3>1. CASE i < k
      <4>1. i \in 1 .. k - 1 /\ i \in 1 .. Len(queue)
        BY <1>1, <2>3, <3>1
      <4> QED
        BY <2>4, <4>1
    <3>2. CASE i = k
      BY <2>4, <3>2
    <3>3. CASE i > k
      <4>1. i \in k + 1 .. Len(queue) + 1 /\ i - 1 \in 1 .. Len(queue)
        BY <1>1, <2>3, <3>3
      <4> QED
        BY <2>4, <4>1
    <3> QED
      BY <1>1, <2>3, <3>1, <3>2, <3>3
  <2>6. t[1] = queue[1]
    <3>1. 1 \in 1 .. k - 1
      BY <1>1, <2>3
    <3> QED
      BY <2>4, <3>1
  <2> QED
    BY <1>2, <2>4, <2>5, <2>6 DEF t
<1>3. CASE queue = <<>>
  <2> DEFINE t == Insert(<<>>, frame)
  <2>1. t \in Seq(Frame) /\ Len(t) = 1 /\ t[1] = frame
    BY <1>1, InsertFirst
  <2> HIDE DEF t
  <2>2. Len(queue) = 0 /\ t = Insert(queue, frame)
    BY <1>3, EmptyQueue DEF t
  <2>3. \A i \in 1 .. Len(queue) + 1 : t[i] = frame
    BY <2>1, <2>2
  <2>4. Len(t) = Len(queue) + 1
    BY <2>1, <2>2
  <2> QED
    BY <1>3, <2>1, <2>2, <2>3, <2>4
<1> QED
  BY <1>2, <1>3

\* Steps that leave the frames alone.
LEMMA InStreamSame ==
    ASSUME InStream, ctJobs \in Seq(Frame), queue \in Seq(Frame),
           BeforeStop' => /\ BeforeStop /\ lastPic' = lastPic /\ Newest' = Newest
                          /\ UNCHANGED <<ctJobs, queue, frame>> /\ (cpc' = "handle" => cpc = "handle")
    PROVE  InStream'
BY InStreamKept

\* What the application and the lookahead thread leave alone.
LEMMA FramesAlone ==
    ASSUME [Next]_vars, ~CutreeStep, ~EncodePass1
    PROVE  /\ UNCHANGED <<ctJobs, queue, frame, todo, pops, back>>
           /\ cpc' = cpc \/ (cpc = "jobSleep" /\ cpc' = "locked") \/ (cpc = "roiSleep" /\ cpc' = "write")
<1>1. UNCHANGED <<ctJobs, queue, frame, todo, pops, back>>
  BY
    DEF Next, CallStep, LookaheadStep, AddPictureToLookahead, Flush, FlushNothing, Release,
        LookaheadLoop,
     AwaitAnyJob, AwaitJob, TakeJob, AfterAddFrame,
     WaitCuInfoBuf, EndLookahead, vars, GetLookaheadOutput, EncodePass2, StopLookaheadThread,
     StopCuTreeThread, TerminateLookaheadThread, TerminateCuTreeThread, MainElse, feedVars, laVars,
     ctVars, LaElse, CtElse
<1>2. cpc' = cpc \/ (cpc = "jobSleep" /\ cpc' = "locked") \/ (cpc = "roiSleep" /\ cpc' = "write")
  BY WakesKeepPlace
    DEF Next, CallStep, LookaheadStep, AddPictureToLookahead, Flush, FlushNothing, Release,
     LookaheadLoop, AwaitAnyJob, AwaitJob, TakeJob, AfterAddFrame,
     WaitCuInfoBuf, EndLookahead, vars, GetLookaheadOutput, EncodePass2, StopLookaheadThread,
     StopCuTreeThread, TerminateLookaheadThread, TerminateCuTreeThread, laVars, ctVars, LaElse, CtElse
<1> QED
  BY <1>1, <1>2

\* What leaves the plan of pass 1 alone.
LEMMA PlanAlone ==
    ASSUME [Next]_vars, ~TakeJob, ~AfterAddFrame, ~EncodePass1
    PROVE  UNCHANGED <<last, want, lastPic>> /\ Newest' = Newest
<1>1. UNCHANGED <<last, want, lastPic>>
  BY
    DEF Next, CallStep, LookaheadStep, CutreeStep, AddPictureToLookahead, Flush, FlushNothing,
        Release,
     LookaheadLoop, AwaitAnyJob, AwaitJob, WaitCuInfoBuf, EndLookahead, vars, GetLookaheadOutput, EncodePass2,
     StopLookaheadThread, StopCuTreeThread, TerminateLookaheadThread, TerminateCuTreeThread, laVars,
     CuTreeLoop, AwaitFrame, TakeFrame, HandleInputFrame, Process, WriteFrame, RemoveFrames, EndCuTree, CtKeeps
<1>2. (lpc' = "added") = (lpc = "added")
  BY WakesKeepPlace
    DEF Next, CallStep, LookaheadStep, CutreeStep, AddPictureToLookahead, Flush, FlushNothing,
     Release, LookaheadLoop, AwaitAnyJob, AwaitJob, WaitCuInfoBuf, EndLookahead, vars, GetLookaheadOutput,
     EncodePass2, StopLookaheadThread, StopCuTreeThread, TerminateLookaheadThread, TerminateCuTreeThread,
     laVars,
     CuTreeLoop, AwaitFrame, TakeFrame, HandleInputFrame, Process, WriteFrame, RemoveFrames, EndCuTree, Woken
<1> QED
  BY <1>1, <1>2 DEF Newest

\* One picture further the stream reaches at least as far.
LEMMA TopGrows ==
    ASSUME Pass1Inv
    PROVE  Top(last) <= Top(want) /\ Top(last) \in Int /\ Top(want) \in Int
<1>1. IsFrame(want) /\ (IsFrame(last) \/ last = BeforeFirst) /\ Follows(last, want)
  BY DEF Pass1Inv, LaTypes, Plan, IsPic
<1>2. want.gop \in Nat /\ want.gop > 0 /\ Base(want) \in Int /\ Top(want) \in Int
  BY <1>1, FrameFields
<1>3. Top(last) \in Int
  <2>1. CASE IsFrame(last)
    BY <2>1, FrameFields
  <2>2. CASE last = BeforeFirst
    BY <2>2 DEF BeforeFirst, Picture, None, Top, Base
  <2> QED
    BY <1>1, <2>1, <2>2
<1>4. CASE EndsGop(last)
  <2>1. Base(want) = Top(last)
    BY <1>1, <1>4 DEF Follows
  <2>2. Top(want) = Base(want) + want.gop
    BY DEF Top
  <2> QED
    BY <1>2, <1>3, <2>1, <2>2
<1>5. CASE ~EndsGop(last)
  <2>1. Top(want) = Top(last)
    BY <1>1, <1>5 DEF Follows, Top
  <2> QED
    BY <1>3, <2>1
<1> QED
  BY <1>4, <1>5

LEMMA InStreamPass1 ==
    ASSUME ThreadsInv, FramesInv, Planned, InStream, [Next]_vars, EncodePass1
    PROVE  InStream'
<1> SUFFICES ASSUME BeforeStop' PROVE InStream'
  BY DEF InStream
<1>1. /\ UNCHANGED <<queue, frame, lastPic, last, want>> /\ lpc = "pass1"
      /\ \/ lpc' = "added" /\ ctJobs' = Append(ctJobs, want)
         \/ lpc' = "end" /\ ctJobs' = ctJobs
      /\ cpc' = "handle" => cpc = "handle"
  BY WakesKeepPlace DEF EncodePass1
<1>2. BeforeStop /\ Pass1Inv
  BY StopLasts DEF ThreadsInv
<1>3. ctJobs \in Seq(Frame) /\ queue \in Seq(Frame) /\ Len(ctJobs) \in Nat
      /\ (\A i \in 1 .. Len(ctJobs) : IsFrame(ctJobs[i])) /\ IsFrame(frame)
      /\ (\A i \in 1 .. Len(queue) : IsFrame(queue[i]))
  BY DEF FramesInv, FramesTyped, IsPic
<1>4. CASE lpc' = "end"
  <2>1. Newest' = Newest /\ ctJobs' = ctJobs
    BY <1>1, <1>4 DEF Newest
  <2> QED
    BY <1>1, <1>2, <1>3, <2>1, InStreamSame
<1>5. CASE lpc' = "added"
  <2>1. Newest = last /\ Newest' = want
    BY <1>1, <1>5 DEF Newest
  <2>2. want \in Frame
    BY <1>2 DEF Pass1Inv, LaTypes, IsPic, IsFrame
  <2>3. /\ Len(ctJobs') = Len(ctJobs) + 1 /\ ctJobs'[Len(ctJobs) + 1] = want
        /\ \A i \in 1 .. Len(ctJobs) : ctJobs'[i] = ctJobs[i]
    BY <1>1, <1>3, <1>5, <2>2, AppendElements
  <2>4. Top(last) <= Top(want) /\ Top(last) \in Int /\ Top(want) \in Int
    BY <1>2, TopGrows
  <2>5. Cut(Base(want), want.gop, lastPic' + 1) /\ Top(want) <= Top(Newest')
    <3>1. OnCut(want)
      BY <1>1, <1>2, WantedIsThere
    <3> QED
      BY <1>1, <2>1, <2>4, <3>1 DEF OnCut
  <2>6. ASSUME NEW f, IsFrame(f), Inside(f)
        PROVE  Cut(Base(f), f.gop, lastPic' + 1) /\ Top(f) <= Top(Newest')
    <3>1. Top(f) \in Int /\ Top(f) <= Top(last) /\ OnCut(f)
      BY <2>1, <2>6, FrameFields DEF Inside
    <3> QED
      BY <1>1, <2>1, <2>4, <3>1 DEF OnCut
  <2>7. /\ \A i \in 1 .. Len(ctJobs) : Inside(ctJobs[i])
        /\ cpc = "handle" => Inside(frame)
        /\ \A i \in 1 .. Len(queue) : Inside(queue[i])
    BY <1>2 DEF InStream
  <2>8. ASSUME NEW i \in 1 .. Len(ctJobs') PROVE Inside(ctJobs[i])'
    <3>1. Cut(Base(ctJobs'[i]), ctJobs'[i].gop, lastPic' + 1) /\ Top(ctJobs'[i]) <= Top(Newest')
      <4>1. CASE i \in 1 .. Len(ctJobs)
        BY <1>3, <2>3, <2>6, <2>7, <4>1
      <4>2. CASE i = Len(ctJobs) + 1
        BY <2>3, <2>5, <4>2
      <4> QED
        BY <1>3, <2>3, <4>1, <4>2
    <3> QED
      BY <3>1 DEF Inside, OnCut, Base, Top
  <2>9. ASSUME cpc' = "handle" PROVE Inside(frame)'
    <3>1. Cut(Base(frame), frame.gop, lastPic' + 1) /\ Top(frame) <= Top(Newest')
      BY <1>1, <1>3, <2>6, <2>7, <2>9
    <3> QED
      BY <1>1, <3>1 DEF Inside, OnCut, Base, Top
  <2>10. ASSUME NEW i \in 1 .. Len(queue') PROVE Inside(queue[i])'
    <3>1. Cut(Base(queue[i]), queue[i].gop, lastPic' + 1) /\ Top(queue[i]) <= Top(Newest')
      BY <1>1, <1>3, <2>6, <2>7
    <3> QED
      BY <1>1, <3>1 DEF Inside, OnCut, Base, Top
  <2> QED
    BY <2>8, <2>9, <2>10 DEF InStream
<1> QED
  BY <1>1, <1>4, <1>5

\* The stream is planned again: its frames keep their GOPs.
LEMMA InStreamAgain ==
    ASSUME ThreadsInv, FramesInv, Planned, InStream, [Next]_vars, TakeJob
    PROVE  InStream'
<1> SUFFICES ASSUME BeforeStop' PROVE InStream'
  BY DEF InStream
<1>1. BeforeStop /\ Pass1Inv
  BY StopLasts DEF ThreadsInv
<1>2. UNCHANGED <<ctJobs, queue, frame, cpc, last>> /\ lpc = "second" /\ lpc' # "added"
  BY DEF TakeJob, LaElse, CtElse
<1>3. Newest' = last /\ Newest = last
  BY <1>2 DEF Newest
<1>4. ctJobs \in Seq(Frame) /\ queue \in Seq(Frame)
      /\ (\A i \in 1 .. Len(ctJobs) : IsFrame(ctJobs[i])) /\ IsFrame(frame)
      /\ (\A i \in 1 .. Len(queue) : IsFrame(queue[i]))
  BY DEF FramesInv, FramesTyped, IsPic
<1>5. CASE lastPic' = lastPic
  BY <1>1, <1>2, <1>3, <1>4, <1>5, InStreamSame
<1>6. CASE lastPic' # lastPic
  <2>1. lastPic' = fed - 1 /\ fed <= lastPic /\ Top(last) < fed /\ IsPic(last)
    BY <1>1, <1>6, PlannedAgain
  <2>2. fed \in Nat /\ lastPic \in Int /\ Top(last) \in Int
    BY <1>1, TopGrows DEF Pass1Inv, LaTypes
  <2>3. ASSUME NEW f, IsFrame(f), Inside(f)
        PROVE  Cut(Base(f), f.gop, lastPic' + 1) /\ Top(f) <= Top(Newest')
    <3>1. /\ Base(f) \in Int /\ f.gop \in Int /\ Top(f) = Base(f) + f.gop
          /\ Top(f) <= Top(last) /\ Cut(Base(f), f.gop, lastPic + 1)
      BY <1>3, <2>3, FrameFields DEF Inside, OnCut, Top
    <3>2. lastPic + 1 \in Nat /\ fed <= lastPic + 1 /\ Base(f) + f.gop < fed
      BY <2>1, <2>2, <3>1
    <3>3. Cut(Base(f), f.gop, fed)
      BY <2>2, <3>1, <3>2, CutShorter
    <3>4. lastPic' + 1 = fed
      BY <2>1, <2>2
    <3> QED
      BY <1>3, <3>1, <3>3, <3>4
  <2>4. /\ \A i \in 1 .. Len(ctJobs) : Inside(ctJobs[i])
        /\ cpc = "handle" => Inside(frame)
        /\ \A i \in 1 .. Len(queue) : Inside(queue[i])
    BY <1>1 DEF InStream
  <2>5. ASSUME NEW i \in 1 .. Len(ctJobs') PROVE Inside(ctJobs[i])'
    <3>1. Cut(Base(ctJobs[i]), ctJobs[i].gop, lastPic' + 1) /\ Top(ctJobs[i]) <= Top(Newest')
      BY <1>2, <1>4, <2>3, <2>4
    <3> QED
      BY <1>2, <3>1 DEF Inside, OnCut, Base, Top
  <2>6. ASSUME cpc' = "handle" PROVE Inside(frame)'
    <3>1. Cut(Base(frame), frame.gop, lastPic' + 1) /\ Top(frame) <= Top(Newest')
      BY <1>2, <1>4, <2>3, <2>4, <2>6
    <3> QED
      BY <1>2, <3>1 DEF Inside, OnCut, Base, Top
  <2>7. ASSUME NEW i \in 1 .. Len(queue') PROVE Inside(queue[i])'
    <3>1. Cut(Base(queue[i]), queue[i].gop, lastPic' + 1) /\ Top(queue[i]) <= Top(Newest')
      BY <1>2, <1>4, <2>3, <2>4
    <3> QED
      BY <1>2, <3>1 DEF Inside, OnCut, Base, Top
  <2> QED
    BY <2>5, <2>6, <2>7 DEF InStream
<1> QED
  BY <1>5, <1>6

LEMMA InStreamAdded ==
    ASSUME ThreadsInv, FramesInv, InStream, [Next]_vars, AfterAddFrame
    PROVE  InStream'
<1>1. UNCHANGED <<ctJobs, queue, frame, cpc, lastPic, status>> /\ lpc = "added" /\ lpc' # "added"
  BY DEF AfterAddFrame, LaElse, CtElse
<1>2. ctJobs \in Seq(Frame) /\ queue \in Seq(Frame)
  BY DEF FramesInv, FramesTyped
<1>3. ASSUME BeforeStop' PROVE BeforeStop /\ Newest' = Newest
  <2>1. BeforeStop
    BY <1>3, StopLasts
  <2>2. last' = want
    BY <2>1, Running
      DEF AfterAddFrame, Ok, LookaheadFlush, CutreeFlush, CutreeFlushEnd, LookaheadError
  <2> QED
    BY <1>1, <2>1, <2>2 DEF Newest
<1> QED
  BY <1>1, <1>2, <1>3, InStreamSame

\* The cuTree thread passes the frames on.
LEMMA InStreamCutree ==
    ASSUME ThreadsInv, FramesInv, InStream, [Next]_vars, CutreeStep, lastPic' = lastPic, Newest' = Newest
    PROVE  InStream'
<1> SUFFICES ASSUME BeforeStop' PROVE InStream'
  BY DEF InStream
<1>1. BeforeStop
  BY StopLasts
<1>2. /\ ctJobs \in Seq(Frame) /\ queue \in Seq(Frame) /\ Len(queue) \in Nat /\ Len(ctJobs) \in Nat
      /\ \A i \in 1 .. Len(queue) : IsFrame(queue[i])
  BY DEF FramesInv, FramesTyped
<1>3. status # MainStop
  BY <1>1, Running DEF MainStop, Ok, LookaheadFlush, CutreeFlush, CutreeFlushEnd
<1>4. CASE CuTreeLoop \/ Process \/ AwaitFrame
  <2>1. UNCHANGED <<ctJobs, queue, frame>> /\ (cpc' = "handle" => cpc = "handle")
    BY <1>3, <1>4 DEF CuTreeLoop, Process, ProcessOneFrame, AwaitFrame, feedVars
  <2> QED
    BY <1>1, <1>2, <2>1, InStreamSame
<1>5. CASE TakeFrame
  <2>1. /\ cpc = "taken" /\ ctJobs' = Tail(ctJobs) /\ frame' = Head(ctJobs) /\ queue' = queue
    BY <1>3, <1>5 DEF TakeFrame
  <2>2. ctJobs # <<>>
    <3>1. cpc = "taken" => Len(ctJobs) >= 1
      BY DEF ThreadsInv, CuInv, Fits
    <3> QED
      BY <2>1, <3>1, EmptyQueue
  <2>3. /\ Len(ctJobs') = Len(ctJobs) - 1 /\ Len(ctJobs) \in Nat \ {0} /\ frame' = ctJobs[1]
        /\ \A i \in 1 .. Len(ctJobs) - 1 : ctJobs'[i] = ctJobs[i + 1]
    BY <1>2, <2>1, <2>2, TailElements
  <2>4. ASSUME NEW i \in 1 .. Len(ctJobs') PROVE \E j \in 1 .. Len(ctJobs) : ctJobs'[i] = ctJobs[j]
    <3>1. i + 1 \in 1 .. Len(ctJobs) /\ ctJobs'[i] = ctJobs[i + 1]
      BY <2>3
    <3> QED
      BY <3>1
  <2>5. \E j \in 1 .. Len(ctJobs) : frame' = ctJobs[j]
    <3>1. 1 \in 1 .. Len(ctJobs)
      BY <2>3
    <3> QED
      BY <2>3, <3>1
  <2> QED
    BY <1>1, <1>2, <2>1, <2>4, <2>5, InStreamKept
<1>6. CASE HandleInputFrame
  <2>1. cpc = "handle" /\ cpc' # "handle" /\ queue' = Insert(queue, frame) /\ ctJobs' = ctJobs
    BY <1>6 DEF HandleInputFrame
  <2>2. Normal
    BY <1>1, <2>1, Running DEF CtOver, Over
  <2>3. /\ Len(queue') = Len(queue) + 1
        /\ \A i \in 1 .. Len(queue) + 1 : queue'[i] = frame \/ \E j \in 1 .. Len(queue) : queue'[i] = queue[j]
    BY <2>1, <2>2, InsertedFrames
  <2> QED
    BY <1>1, <1>2, <2>1, <2>3, InStreamKept
<1>7. CASE WriteFrame
  <2>1. UNCHANGED <<ctJobs, frame>> /\ cpc' # "handle" /\ (queue' = queue \/ Hand(Head(todo)))
    BY <1>7 DEF WriteFrame, feedVars
  <2>2. CASE queue' = queue
    BY <1>1, <1>2, <2>1, <2>2, InStreamSame
  <2>3. CASE Hand(Head(todo))
    <3>1. /\ Len(queue') = Len(queue)
          /\ \A i \in 1 .. Len(queue) : /\ queue'[i].pic = queue[i].pic /\ queue'[i].gop = queue[i].gop
                                        /\ queue'[i].ord = queue[i].ord
      BY <1>2, <2>3, Handed
    <3> QED
      BY <1>1, <1>2, <2>1, <3>1, InStreamKept
  <2> QED
    BY <2>1, <2>2, <2>3
<1>8. CASE RemoveFrames
  <2>1. /\ UNCHANGED <<ctJobs, frame>> /\ cpc = "write" /\ cpc' = back
        /\ queue' = SubSeq(queue, pops + 1, Len(queue))
    BY <1>8 DEF RemoveFrames, feedVars
  <2>2. back # "handle" /\ pops \in 0 .. Len(queue)
    <3>1. back # "handle"
      BY <2>1 DEF ThreadsInv, CuInv
    <3>2. pops + 1 <= Len(queue) /\ pops \in Nat
      BY <2>1 DEF FramesInv, FramesTyped, ToBeWritten, Writing
    <3> QED
      BY <1>2, <3>1, <3>2
  <2>3. Len(queue') = Len(queue) - pops /\ \A i \in 1 .. Len(queue) - pops : queue'[i] = queue[pops + i]
    BY <1>2, <2>1, <2>2, SuffixElements
  <2>4. ASSUME NEW i \in 1 .. Len(queue')
        PROVE  \E j \in 1 .. Len(queue) : /\ queue'[i].pic = queue[j].pic /\ queue'[i].gop = queue[j].gop
                                          /\ queue'[i].ord = queue[j].ord
    <3>1. pops + i \in 1 .. Len(queue) /\ queue'[i] = queue[pops + i]
      BY <1>2, <2>2, <2>3
    <3> QED
      BY <3>1
  <2> QED
    BY <1>1, <1>2, <2>1, <2>2, <2>4, InStreamKept
<1>9. CASE EndCuTree
  <2>1. /\ queue' = queue \/ queue' = <<>>
        /\ ctJobs' = ctJobs \/ ctJobs' = <<>>
        /\ cpc' # "handle"
    BY <1>9 DEF EndCuTree
  <2>2. Len(<<>>) = 0
    BY EmptyQueue
  <2>3. /\ \A i \in 1 .. Len(ctJobs') : \E j \in 1 .. Len(ctJobs) : ctJobs'[i] = ctJobs[j]
        /\ \A i \in 1 .. Len(queue') : \E j \in 1 .. Len(queue) : queue'[i] = queue[j]
    BY <1>2, <2>1, <2>2
  <2> QED
    BY <1>1, <1>2, <2>1, <2>3, InStreamKept
<1> QED
  BY <1>4, <1>5, <1>6, <1>7, <1>8, <1>9 DEF CutreeStep

LEMMA InStreamNext == ThreadsInv /\ FramesInv /\ Planned /\ InStream /\ [Next]_vars => InStream'
<1> SUFFICES ASSUME ThreadsInv, FramesInv, Planned, InStream, [Next]_vars PROVE InStream'
  OBVIOUS
<1>1. CASE TakeJob
  BY <1>1, InStreamAgain
<1>2. CASE AfterAddFrame
  BY <1>2, InStreamAdded
<1>3. CASE EncodePass1
  BY <1>3, InStreamPass1
<1>4. CASE ~TakeJob /\ ~AfterAddFrame /\ ~EncodePass1
  <2>1. lastPic' = lastPic /\ Newest' = Newest
    BY <1>4, PlanAlone
  <2>2. CASE CutreeStep
    BY <2>1, <2>2, InStreamCutree
  <2>3. CASE ~CutreeStep
    <3>1. UNCHANGED <<ctJobs, queue, frame>> /\ (cpc' = "handle" => cpc = "handle")
      BY <1>4, <2>3, FramesAlone
    <3>2. ctJobs \in Seq(Frame) /\ queue \in Seq(Frame)
      BY DEF FramesInv, FramesTyped
    <3> QED
      BY <2>1, <3>1, <3>2, StopLasts, InStreamSame
  <2> QED
    BY <2>2, <2>3
<1> QED
  BY <1>1, <1>2, <1>3, <1>4

-----------------------------------------------------------------------------
(* What the application gets back *)

\* Nothing has failed so far, for all the application can see.
Sound == BeforeStop /\ mpc # "failed" /\ \A i \in 1 .. Len(output) : output[i].ok

\* The pictures that came out of the cuTree thread.
InPass2 == IF mpc = "pass2" THEN 1 ELSE 0
Emitted == Len(returned) + InPass2 + Len(output)

\* The output queue goes on in encoding order, and only its head can be an error.
OutputInv ==
    /\ \A i \in 2 .. Len(output) : output[i].ok
    /\ Sound => \A i \in 1 .. Len(output) : output[i].pic = Encoded(lastPic + 1, Len(returned) + InPass2 + i)

\* What is written continues it, up to the head of the queue.
EmittedInv ==
    Sound =>
        /\ cpc \in CtOver => Emitted = Top(last) + 1
        /\ Writing => /\ Emitted + Len(todo) = queue[pops + 1].pic + 1
                      /\ \A x \in 1 .. Len(todo) : todo[x] = Encoded(lastPic + 1, Emitted + x)
                      /\ back = "end" => Len(queue) = 1 /\ pops = 0
        /\ cpc \notin CtOver /\ ~Writing =>
               Emitted = IF queue = <<>> THEN 0 ELSE IF queue[1].pic = 0 THEN 0 ELSE queue[1].pic + 1

\* Pass 1 ends with the last picture that came.
EndOfStream ==
    Sound /\ lpc \in {"end"} \cup LaOver => bFlush /\ Top(last) = lastPic /\ lastPic + 1 = fed

LEMMA OrderInit == Init => OutputInv /\ EmittedInv /\ EndOfStream
<1> SUFFICES ASSUME Init PROVE OutputInv /\ EmittedInv /\ EndOfStream
  OBVIOUS
<1>1. /\ output = <<>> /\ returned = <<>> /\ queue = <<>> /\ cpc = "test" /\ lpc = "loop"
      /\ mpc = "ready"
  BY DEF Init
<1>2. Len(output) = 0 /\ Len(returned) = 0 /\ InPass2 = 0
  BY <1>1, EmptyQueue DEF InPass2
<1>3. Emitted = 0
  BY <1>2 DEF Emitted
<1>4. OutputInv
  BY <1>2 DEF OutputInv
<1> QED
  BY <1>1, <1>3, <1>4 DEF EmittedInv, EndOfStream, LaOver, CtOver, Over, Writing

\* What the steps do to the output queue.
LEMMA OutputChanges ==
    ASSUME [Next]_vars
    PROVE  \/ output' = output
           \/ GetLookaheadOutput /\ output # <<>> /\ output' = Tail(output)
           \/ WriteFrame /\ todo # <<>> /\ output' = Append(output, [pic |-> Head(todo), ok |-> TRUE])
              /\ mpc' = SignalOutput(mpc)
           \/ \E pic : output' = <<[pic |-> pic, ok |-> FALSE]>>
<1>1. CASE GetLookaheadOutput
  BY <1>1 DEF GetLookaheadOutput
<1>2. CASE WriteFrame
  BY <1>2 DEF WriteFrame, Enqueue, outVars
<1>3. CASE EncodePass1
  BY <1>3 DEF EncodePass1, Enqueue
<1>4. CASE ~GetLookaheadOutput /\ ~WriteFrame /\ ~EncodePass1
  BY <1>4
    DEF Next, CallStep, LookaheadStep, CutreeStep, AddPictureToLookahead, Flush, FlushNothing,
        Release,
     LookaheadLoop, AwaitAnyJob, AwaitJob, TakeJob, AfterAddFrame, WaitCuInfoBuf, EndLookahead, vars,
     EncodePass2, StopLookaheadThread, StopCuTreeThread, TerminateLookaheadThread, TerminateCuTreeThread,
     MainElse, LaElse, CuTreeLoop, AwaitFrame, TakeFrame, HandleInputFrame, Process, RemoveFrames, EndCuTree,
     outVars
<1> QED
  BY <1>1, <1>2, <1>3, <1>4

LEMMA FailedStays ==
    ASSUME [Next]_vars, mpc = "failed", BeforeStop'
    PROVE  mpc' = "failed"
<1>1. CASE CutreeStep
  <2>1. mpc' = mpc \/ mpc' = SignalOutput(mpc) \/ mpc' = Woken(mpc, "ctStopSleep", "cutreeStops")
    BY <1>1
      DEF CutreeStep, CuTreeLoop, AwaitFrame, TakeFrame, HandleInputFrame, Process, WriteFrame,
       RemoveFrames, EndCuTree, Enqueue
  <2> QED
    BY <2>1 DEF SignalOutput, Woken
<1>2. CASE LookaheadStep
  <2>1. mpc' = mpc \/ mpc' = SignalOutput(mpc) \/ mpc' = Woken(mpc, "laStopSleep", "lookaheadStops")
    BY <1>2
      DEF LookaheadStep, LookaheadLoop, AwaitAnyJob, AwaitJob, TakeJob, WaitCuInfoBuf,
          EncodePass1,
       AfterAddFrame, EndLookahead, Enqueue, ParkLookahead
  <2> QED
    BY <2>1 DEF SignalOutput, Woken
<1>3. CASE CallStep
  BY <1>3 DEF CallStep, GetLookaheadOutput, EncodePass2, StopLookaheadThread, StopCuTreeThread,
     TerminateLookaheadThread, TerminateCuTreeThread
<1>4. CASE AddPictureToLookahead \/ Flush \/ FlushNothing
  BY <1>4 DEF AddPictureToLookahead, Flush, FlushNothing
<1>5. CASE Release
  BY <1>5 DEF Release, BeforeStop
<1>6. CASE UNCHANGED vars
  BY <1>6 DEF vars, mainVars
<1> QED
  BY <1>1, <1>2, <1>3, <1>4, <1>5, <1>6 DEF Next

\* A failure that the application has not seen yet stays in the output queue.
LEMMA SoundLasts ==
    ASSUME TokenInv, [Next]_vars, Sound'
    PROVE  Sound
<1>1. BeforeStop /\ mpc # "failed" /\ BeforeStop' /\ mpc' # "failed"
  <2>1. BeforeStop' /\ mpc' # "failed"
    BY DEF Sound
  <2> QED
    BY <2>1, StopLasts, FailedStays
<1>2. output \in Seq(Out) /\ Len(output) \in Nat
  BY DEF TokenInv
<1>3. \A i \in 1 .. Len(output') : output'[i].ok
  BY DEF Sound
<1>4. ASSUME NEW i \in 1 .. Len(output) PROVE output[i].ok
  <2>1. CASE output' = output
    BY <1>3, <2>1
  <2>2. CASE GetLookaheadOutput /\ output # <<>> /\ output' = Tail(output)
    <3>1. /\ Len(output') = Len(output) - 1 /\ Head(output) = output[1]
          /\ \A k \in 1 .. Len(output) - 1 : output'[k] = output[k + 1]
      BY <1>2, <2>2, TailElements
    <3>2. CASE i = 1
      BY <1>1, <2>2, <3>1, <3>2 DEF GetLookaheadOutput
    <3>3. CASE i # 1
      <4>1. i - 1 \in 1 .. Len(output') /\ output'[i - 1] = output[i]
        <5>1. i - 1 \in 1 .. Len(output) - 1 /\ (i - 1) + 1 = i
          BY <1>2, <3>3
        <5> QED
          BY <3>1, <5>1
      <4> QED
        BY <1>3, <4>1
    <3> QED
      BY <3>2, <3>3
  <2>3. CASE WriteFrame /\ todo # <<>> /\ output' = Append(output, [pic |-> Head(todo), ok |-> TRUE])
    <3>1. i \in 1 .. Len(output') /\ output'[i] = output[i]
      BY <1>2, <2>3
    <3> QED
      BY <1>3, <3>1
  <2>4. CASE \E pic : output' = <<[pic |-> pic, ok |-> FALSE]>>
    <3>1. Len(output') = 1 /\ ~output'[1].ok
      BY <2>4
    <3> QED
      BY <1>3, <3>1
  <2> QED
    BY <2>1, <2>2, <2>3, <2>4, OutputChanges
<1> QED
  BY <1>1, <1>4 DEF Sound

LEMMA EndsWithPass1 ==
    ASSUME ThreadsInv, BeforeStop, cpc \in CtOver
    PROVE  lpc \in LaOver
<1>1. status >= CutreeFlush
  <2>1. status >= CutreeFlush \/ status = MainStop
    BY DEF ThreadsInv, ControlInv, EndingInv, Ending
  <2>2. status # MainStop
    BY Running DEF MainStop, Ok, LookaheadFlush, CutreeFlush, CutreeFlushEnd
  <2> QED
    BY <2>1, <2>2
<1> QED
  BY <1>1, Running DEF Ok, LookaheadFlush, CutreeFlush

LEMMA EmittedIsNat ==
    ASSUME TokenInv, PoolInv
    PROVE  /\ Emitted \in Nat /\ InPass2 \in Nat /\ Len(output) \in Nat /\ Len(returned) \in Nat
           /\ Emitted = Len(returned) + InPass2 + Len(output)
<1>1. Len(output) \in Nat /\ Len(returned) \in Nat
  BY DEF TokenInv, PoolInv
<1>2. InPass2 \in Nat
  BY DEF InPass2
<1> QED
  BY <1>1, <1>2 DEF Emitted

\* Nothing comes out that pass 1 has not encoded.
LEMMA NotAhead ==
    ASSUME ThreadsInv, FramesInv, TokenInv, PoolInv, InStream, EmittedInv, Sound
    PROVE  /\ Emitted <= Top(Newest) + 1
           /\ Writing => Emitted + Len(todo) <= Top(Newest) + 1
<1>1. BeforeStop /\ Pass1Inv
  BY DEF Sound, ThreadsInv
<1>2. Emitted \in Nat
  BY EmittedIsNat
<1>3. Top(last) \in Int /\ Top(want) \in Int /\ Top(last) <= Top(want) /\ Top(last) >= -1
  <2>1. Top(last) \in Int /\ Top(want) \in Int /\ Top(last) <= Top(want)
    BY <1>1, TopGrows
  <2>2. Top(last) >= -1
    <3>1. CASE IsPic(last)
      <4>1. IsFrame(last) /\ Base(last) >= -1
        BY <3>1 DEF IsPic
      <4>2. Base(last) \in Int /\ last.gop \in Nat
        BY <4>1, FrameFields
      <4> QED
        BY <4>1, <4>2 DEF Top
    <3>2. CASE last = BeforeFirst
      BY <3>2 DEF BeforeFirst, Picture, None, Top, Base
    <3> QED
      BY <1>1, <3>1, <3>2 DEF Pass1Inv, LaTypes
  <2> QED
    BY <2>1, <2>2
<1>4. Top(Newest) \in Int /\ Top(Newest) >= -1
  BY <1>3 DEF Newest
<1>5. queue \in Seq(Frame) /\ Len(queue) \in Nat /\ \A i \in 1 .. Len(queue) : IsFrame(queue[i])
  BY DEF FramesInv, FramesTyped
<1>6. ASSUME NEW i \in 1 .. Len(queue) PROVE queue[i].pic \in Int /\ queue[i].pic <= Top(Newest)
  <2>1. IsFrame(queue[i]) /\ Inside(queue[i])
    BY <1>1, <1>5, <1>6 DEF InStream
  <2>2. queue[i].pic \in Int /\ queue[i].pic <= Top(queue[i]) /\ Top(queue[i]) \in Int
    BY <2>1, FrameFields
  <2> QED
    BY <1>4, <2>1, <2>2 DEF Inside
<1>7. CASE cpc \in CtOver
  <2>1. lpc \in LaOver /\ ~Writing
    BY <1>1, <1>7, EndsWithPass1 DEF Writing, CtOver, Over
  <2>2. Newest = last /\ Emitted = Top(last) + 1
    BY <1>7, <2>1 DEF Newest, LaOver, EmittedInv
  <2> QED
    BY <1>3, <2>1, <2>2
<1>8. CASE Writing
  <2>1. pops + 1 \in 1 .. Len(queue) /\ todo \in Seq(Int)
    BY <1>5, <1>8 DEF FramesInv, ToBeWritten, FramesTyped
  <2>2. Emitted + Len(todo) = queue[pops + 1].pic + 1
    BY <1>8 DEF EmittedInv
  <2>3. Len(todo) \in Nat /\ queue[pops + 1].pic \in Int /\ queue[pops + 1].pic <= Top(Newest)
    BY <1>6, <2>1
  <2> QED
    BY <1>2, <1>4, <2>2, <2>3
<1>9. CASE cpc \notin CtOver /\ ~Writing
  <2>1. Emitted = IF queue = <<>> THEN 0 ELSE IF queue[1].pic = 0 THEN 0 ELSE queue[1].pic + 1
    BY <1>9 DEF EmittedInv
  <2>2. queue # <<>> => 1 \in 1 .. Len(queue)
    BY <1>5, EmptyQueue
  <2>3. queue # <<>> => queue[1].pic \in Int /\ queue[1].pic <= Top(Newest)
    BY <1>6, <2>2
  <2> QED
    BY <1>4, <1>9, <2>1, <2>3
<1> QED
  BY <1>7, <1>8, <1>9

\* The lookahead thread finds nothing more when everything has come.
LEMMA NothingMore ==
    ASSUME ThreadsInv, Planned, BeforeStop, lpc = "second", laJob = None, EndsNormally, status >= LookaheadFlush
    PROVE  bFlush /\ Top(last) = lastPic /\ lastPic + 1 = fed
<1>1. Pass1Inv
  BY DEF ThreadsInv
<1>2. ~laStop /\ status = LookaheadFlush
  BY Running DEF LaOver, Ok, LookaheadFlush
<1>3. enqueued = fed /\ fed <= lastPic + 1 /\ bFlush
  BY <1>2 DEF Planned
<1>4. fed \in Nat /\ lastPic \in Int /\ lastPic + 1 = fed
  BY <1>1, <1>3 DEF EndsNormally, Pass1Inv, LaTypes
<1>5. EndsGop(last) /\ Newest = last
  BY <1>1, <1>2, EndOfGop DEF Newest
<1>6. Top(last) < fed /\ Top(last) \in Int
  BY <1>1, <1>5, TopGrows DEF Pass1Inv, ToCome
<1>7. Base(want) = Top(last) /\ IsFrame(want) /\ Base(want) >= -1
  BY <1>1, <1>5 DEF Pass1Inv, Plan, Follows, LaTypes, IsPic
<1>8. want.pic \in Int /\ Base(want) \in Int /\ Base(want) < want.pic /\ want.pic <= Top(want)
      /\ want.gop \in Int
  BY <1>7, FrameFields
<1>9. ASSUME Top(last) < lastPic PROVE FALSE
  <2>1. OnCut(want)
    BY <1>4, <1>6, <1>7, <1>9 DEF Planned
  <2>2. lastPic + 1 \in Nat /\ Cut(Base(want), want.gop, lastPic + 1)
    BY <1>4, <2>1 DEF OnCut
  <2>3. Base(want) + want.gop <= (lastPic + 1) - 1
    BY <1>8, <2>2, CutBounds
  <2>4. want.pic \in 0 .. fed - 1
    BY <1>4, <1>7, <1>8, <2>3 DEF Top
  <2>5. Later(last, want.pic)
    BY <1>7, <1>8 DEF Later
  <2>6. want.pic \in jobs \cup {laJob}
    BY <1>1, <1>2, <1>5, <2>4, <2>5 DEF Pass1Inv, ToCome
  <2>7. want.pic \notin jobs /\ want.pic # None
    BY <1>1, <2>4 DEF Pass1Inv, JobFound, None
  <2> QED
    BY <2>6, <2>7
<1> QED
  BY <1>3, <1>4, <1>6, <1>9

LEMMA EndOfStreamNext ==
    ASSUME ThreadsInv, ThreadsInv', TokenInv, Planned, EndOfStream, [Next]_vars
    PROVE  EndOfStream'
<1> SUFFICES ASSUME Sound', lpc' \in {"end"} \cup LaOver
             PROVE  bFlush' /\ Top(last') = lastPic' /\ lastPic' + 1 = fed'
  BY DEF EndOfStream, Top, Base
<1>1. Sound /\ BeforeStop /\ Pass1Inv
  BY SoundLasts DEF Sound, ThreadsInv
<1>2. ~laFailed' /\ ~(status >= LookaheadError)
  <2>1. BeforeStop'
    BY DEF Sound
  <2>2. ~laFailed'
    BY <2>1 DEF ThreadsInv, ControlInv, ErrorInv
  <2> QED
    BY <1>1, <2>2, Running DEF Ok, LookaheadFlush, CutreeFlush, CutreeFlushEnd, LookaheadError
<1>3. CASE lpc \in {"end"} \cup LaOver
  <2>1. bFlush /\ Top(last) = lastPic /\ lastPic + 1 = fed
    BY <1>1, <1>3 DEF EndOfStream
  <2>2. ~TakeJob /\ ~AfterAddFrame /\ ~EncodePass1
    BY <1>3 DEF TakeJob, AfterAddFrame, EncodePass1, LaOver
  <2>3. UNCHANGED <<last, lastPic>>
    BY <2>2, PlanAlone
  <2>4. bFlush' /\ fed' = fed
    BY <2>1, <2>2
      DEF Next, CallStep, LookaheadStep, CutreeStep, AddPictureToLookahead, Flush, FlushNothing,
       Release,
       LookaheadLoop, AwaitAnyJob, AwaitJob, WaitCuInfoBuf, EndLookahead, vars, GetLookaheadOutput, EncodePass2,
       StopLookaheadThread, StopCuTreeThread, TerminateLookaheadThread, TerminateCuTreeThread, mainVars,
       CuTreeLoop, AwaitFrame, TakeFrame, HandleInputFrame, Process, WriteFrame, RemoveFrames, EndCuTree,
       CtKeeps,
       MainElse, LaElse
  <2> QED
    BY <2>1, <2>3, <2>4
<1>4. CASE lpc \notin {"end"} \cup LaOver
  <2>1. CASE TakeJob
    <3>1. /\ UNCHANGED <<bFlush, fed, last, lastPic>> /\ lpc = "second" /\ laJob = None /\ EndsNormally
          /\ status >= LookaheadFlush
      BY <1>2, <2>1 DEF TakeJob, LaElse, LaOver
    <3> QED
      BY <1>1, <3>1, NothingMore
  <2>2. CASE AfterAddFrame
    BY <1>2, <2>2 DEF AfterAddFrame, LaOver
  <2>3. CASE EncodePass1
    <3>1. lpc' = "end" /\ \E pic : output' = <<[pic |-> pic, ok |-> FALSE]>>
      BY <2>3 DEF EncodePass1, LaOver, Enqueue
    <3>2. Len(output') = 1 /\ ~output'[1].ok
      BY <3>1
    <3> QED
      BY <3>2 DEF Sound
  <2>4. CASE LookaheadLoop
    BY <1>2, <2>4 DEF LookaheadLoop, LaOver
  <2>5. CASE CutreeStep
    <3>1. lpc' = lpc \/ lpc' = Woken(lpc, "cuInfoSleep", "cuInfo")
      BY <2>5
        DEF CutreeStep, CuTreeLoop, AwaitFrame, TakeFrame, HandleInputFrame, Process,
            WriteFrame,
         RemoveFrames, EndCuTree
    <3> QED
      BY <1>4, <3>1 DEF Woken, LaOver
  <2>6. CASE AwaitAnyJob \/ AwaitJob \/ WaitCuInfoBuf \/ EndLookahead
    BY <1>4, <2>6 DEF AwaitAnyJob, AwaitJob, WaitCuInfoBuf, EndLookahead, LaOver
  <2>7. CASE AddPictureToLookahead \/ Flush \/ FlushNothing \/ Release \/ CallStep \/ UNCHANGED vars
    <3>1. lpc' = lpc \/ lpc' = SignalJob(lpc)
      BY <2>7 DEF CallStep, AddPictureToLookahead, Flush, FlushNothing, Release, GetLookaheadOutput,
         EncodePass2,
         StopLookaheadThread, StopCuTreeThread, TerminateLookaheadThread, TerminateCuTreeThread, vars, laVars
    <3> QED
      BY <1>4, <3>1, WakesKeepPlace DEF LaOver
  <2> QED
    BY <2>1, <2>2, <2>3, <2>4, <2>5, <2>6, <2>7 DEF Next, LookaheadStep
<1> QED
  BY <1>3, <1>4

\* The ways of a picture to the application.
Stays == UNCHANGED <<output, returned, held>> /\ (mpc' = "pass2" <=> mpc = "pass2")
GoesToPass2 == /\ GetLookaheadOutput /\ output # <<>> /\ output' = Tail(output) /\ Head(output).ok
               /\ returned' = returned /\ held' = Head(output).pic
               /\ mpc = "get" /\ mpc' = "pass2"
Returns == /\ EncodePass2 /\ output' = output /\ returned' = Append(returned, held)
           /\ mpc = "pass2" /\ mpc' = "ready"
ComesOut == /\ WriteFrame /\ todo # <<>> /\ output' = Append(output, [pic |-> Head(todo), ok |-> TRUE])
            /\ UNCHANGED <<returned, held>> /\ (mpc' = "pass2" <=> mpc = "pass2")

\* What changes otherwise is lost in an error.
LEMMA OnTheWay ==
    ASSUME [Next]_vars
    PROVE  \/ Stays \/ GoesToPass2 \/ Returns \/ ComesOut
           \/ mpc' = "failed" /\ returned' = returned
           \/ /\ \E pic : output' = <<[pic |-> pic, ok |-> FALSE]>>
              /\ UNCHANGED <<returned, held>> /\ (mpc' = "pass2" <=> mpc = "pass2")
<1>1. CASE GetLookaheadOutput
  BY <1>1 DEF GetLookaheadOutput, Stays, GoesToPass2
<1>2. CASE EncodePass2
  BY <1>2 DEF EncodePass2, Returns
<1>3. CASE WriteFrame
  <2>1. UNCHANGED <<returned, held>>
    BY <1>3 DEF WriteFrame, CtKeeps
  <2>2. mpc' = mpc \/ mpc' = SignalOutput(mpc)
    BY <1>3 DEF WriteFrame, Enqueue
  <2>3. mpc' = "pass2" <=> mpc = "pass2"
    BY <2>2, WakesKeepPlace
  <2>4. \/ output' = output
        \/ todo # <<>> /\ output' = Append(output, [pic |-> Head(todo), ok |-> TRUE])
        \/ \E pic : output' = <<[pic |-> pic, ok |-> FALSE]>>
    BY <1>3 DEF WriteFrame, Enqueue, outVars
  <2> QED
    BY <1>3, <2>1, <2>3, <2>4 DEF Stays, ComesOut
<1>4. CASE EncodePass1
  <2>1. UNCHANGED <<returned, held>> /\ (mpc' = mpc \/ mpc' = SignalOutput(mpc))
    BY <1>4 DEF EncodePass1, Enqueue
  <2>2. mpc' = "pass2" <=> mpc = "pass2"
    BY <2>1, WakesKeepPlace
  <2>3. output' = output \/ \E pic : output' = <<[pic |-> pic, ok |-> FALSE]>>
    BY <1>4 DEF EncodePass1, Enqueue
  <2> QED
    BY <2>1, <2>2, <2>3 DEF Stays
<1>5. CASE CutreeStep /\ ~WriteFrame
  <2>1. UNCHANGED <<output, returned, held>>
    BY <1>5 DEF CutreeStep, CuTreeLoop, AwaitFrame, TakeFrame, HandleInputFrame, Process,
       RemoveFrames, EndCuTree, CtKeeps, outVars
  <2>2. mpc' = mpc \/ mpc' = SignalOutput(mpc) \/ mpc' = Woken(mpc, "ctStopSleep", "cutreeStops")
    BY <1>5 DEF CutreeStep, CuTreeLoop, AwaitFrame, TakeFrame, HandleInputFrame, Process,
       RemoveFrames, EndCuTree
  <2>3. mpc' = "pass2" <=> mpc = "pass2"
    BY <2>2 DEF SignalOutput, Woken
  <2> QED
    BY <2>1, <2>3 DEF Stays
<1>6. CASE LookaheadStep /\ ~EncodePass1
  <2>1. UNCHANGED <<output, returned, held>>
    BY <1>6 DEF LookaheadStep, LookaheadLoop, AwaitAnyJob, AwaitJob, TakeJob, WaitCuInfoBuf,
       AfterAddFrame, EndLookahead, LaElse
  <2>2. mpc' = mpc \/ mpc' = Woken(mpc, "laStopSleep", "lookaheadStops")
    BY <1>6 DEF LookaheadStep, LookaheadLoop, AwaitAnyJob, AwaitJob, TakeJob, WaitCuInfoBuf,
       AfterAddFrame, EndLookahead, ParkLookahead
  <2>3. mpc' = "pass2" <=> mpc = "pass2"
    BY <2>2 DEF Woken
  <2> QED
    BY <2>1, <2>3 DEF Stays
<1>7. CASE AddPictureToLookahead \/ Flush \/ FlushNothing \/ Release
  BY <1>7 DEF AddPictureToLookahead, Flush, FlushNothing, Release, MainElse, outVars, Stays
<1>8. CASE StopLookaheadThread \/ StopCuTreeThread \/ TerminateLookaheadThread \/ TerminateCuTreeThread
  BY <1>8
    DEF StopLookaheadThread, StopCuTreeThread, TerminateLookaheadThread, TerminateCuTreeThread,
        MainElse,
     outVars, Stays
<1>9. CASE UNCHANGED vars
  BY <1>9 DEF vars, mainVars, outVars, Stays
<1> QED
  BY <1>1, <1>2, <1>3, <1>4, <1>5, <1>6, <1>7, <1>8, <1>9 DEF Next, CallStep

\* A step with each of these ways, and where it leaves the pictures that came out.
StaysInLine == Stays /\ InPass2' = InPass2 /\ Emitted' = Emitted
GoesInLine == /\ GoesToPass2 /\ InPass2 = 0 /\ InPass2' = 1 /\ Emitted' = Emitted
              /\ Len(output') = Len(output) - 1 /\ Len(output) >= 1 /\ Head(output) = output[1]
              /\ \A i \in 1 .. Len(output) - 1 : output'[i] = output[i + 1]
ReturnsInLine == /\ Returns /\ InPass2 = 1 /\ InPass2' = 0 /\ Emitted' = Emitted
                 /\ Len(returned') = Len(returned) + 1
                 /\ \A i \in 1 .. Len(returned) : returned'[i] = returned[i]
                 /\ returned'[Len(returned) + 1] = held
ComesInLine == /\ ComesOut /\ InPass2' = InPass2 /\ Emitted' = Emitted + 1
               /\ Len(output') = Len(output) + 1
               /\ \A i \in 1 .. Len(output) : output'[i] = output[i]
               /\ output'[Len(output) + 1] = [pic |-> Head(todo), ok |-> TRUE]

LEMMA InLine ==
    ASSUME TokenInv, TokenInv', PoolInv, PoolInv', [Next]_vars, Sound'
    PROVE  Sound /\ (StaysInLine \/ GoesInLine \/ ReturnsInLine \/ ComesInLine)
<1>1. Sound
  BY SoundLasts
<1>2. mpc' # "failed" /\ \A i \in 1 .. Len(output') : output'[i].ok
  BY DEF Sound
<1>3. ~\E pic : output' = <<[pic |-> pic, ok |-> FALSE]>>
  <2> SUFFICES ASSUME NEW pic, output' = <<[pic |-> pic, ok |-> FALSE]>> PROVE FALSE
    OBVIOUS
  <2>1. Len(output') = 1 /\ ~output'[1].ok
    OBVIOUS
  <2> QED
    BY <1>2, <2>1
<1>4. /\ output \in Seq(Out) /\ output' \in Seq(Out) /\ returned \in Seq(Int) /\ held \in Int
      /\ Len(output) \in Nat /\ Len(returned) \in Nat /\ InPass2 \in Nat
  BY DEF TokenInv, PoolInv, InPass2
<1>5. Emitted = Len(returned) + InPass2 + Len(output) /\ Emitted' = Len(returned') + InPass2' + Len(output')
  BY DEF Emitted
<1>6. CASE Stays
  <2>1. InPass2' = InPass2
    BY <1>6 DEF Stays, InPass2
  <2>2. Len(returned') = Len(returned) /\ Len(output') = Len(output)
    BY <1>6 DEF Stays
  <2> QED
    BY <1>1, <1>5, <1>6, <2>1, <2>2 DEF StaysInLine
<1>7. CASE GoesToPass2
  <2>1. InPass2 = 0 /\ InPass2' = 1
    BY <1>7 DEF GoesToPass2, InPass2
  <2>2. output # <<>> /\ output' = Tail(output) /\ returned' = returned
    BY <1>7 DEF GoesToPass2
  <2>3. /\ Len(output') = Len(output) - 1 /\ Len(output) >= 1 /\ Head(output) = output[1]
        /\ \A i \in 1 .. Len(output) - 1 : output'[i] = output[i + 1]
    BY <1>4, <2>2, TailElements
  <2>4. Emitted' = Emitted
    BY <1>4, <1>5, <2>1, <2>2, <2>3
  <2> QED
    BY <1>1, <1>7, <2>1, <2>3, <2>4 DEF GoesInLine
<1>8. CASE Returns
  <2>1. InPass2 = 1 /\ InPass2' = 0
    BY <1>8 DEF Returns, InPass2
  <2>2. output' = output /\ returned' = Append(returned, held)
    BY <1>8 DEF Returns
  <2>3. /\ Len(returned') = Len(returned) + 1 /\ returned'[Len(returned) + 1] = held
        /\ \A i \in 1 .. Len(returned) : returned'[i] = returned[i]
    BY <1>4, <2>2, AppendElements
  <2>4. Emitted' = Emitted
    BY <1>4, <1>5, <2>1, <2>2, <2>3
  <2> QED
    BY <1>1, <1>8, <2>1, <2>3, <2>4 DEF ReturnsInLine
<1>9. CASE ComesOut
  <2>1. InPass2' = InPass2 /\ returned' = returned
    BY <1>9 DEF ComesOut, InPass2
  <2>2. output' = Append(output, [pic |-> Head(todo), ok |-> TRUE])
    BY <1>9 DEF ComesOut
  <2>3. /\ Len(output') = Len(output) + 1 /\ output'[Len(output) + 1] = [pic |-> Head(todo), ok |-> TRUE]
        /\ \A i \in 1 .. Len(output) : output'[i] = output[i]
    BY <1>4, <2>2
  <2>4. Emitted' = Emitted + 1
    BY <1>4, <1>5, <2>1, <2>3
  <2> QED
    BY <1>1, <1>9, <2>1, <2>3, <2>4 DEF ComesInLine
<1> QED
  BY <1>2, <1>3, <1>6, <1>7, <1>8, <1>9, OnTheWay
LEMMA NothingOut ==
    ASSUME TokenInv, TokenInv', PoolInv, PoolInv', [Next]_vars, Sound', ~ComesOut
    PROVE  Sound /\ Emitted' = Emitted
BY InLine DEF StaysInLine, GoesInLine, ReturnsInLine, ComesInLine

\* Planning again does not change the order of what was encoded.
LEMMA SameOrder ==
    ASSUME ThreadsInv, Planned, Sound, [Next]_vars, NEW i \in Nat, i >= 1, i <= Top(Newest) + 1
    PROVE  Encoded(lastPic' + 1, i) = Encoded(lastPic + 1, i)
<1>1. BeforeStop /\ Pass1Inv
  BY DEF Sound, ThreadsInv
<1>2. CASE lastPic' = lastPic
  BY <1>2
<1>3. CASE lastPic' # lastPic
  <2>1. TakeJob
    <3> SUFFICES ASSUME ~TakeJob PROVE lastPic' = lastPic
      BY <1>3
    <3>1. CASE EncodePass1 \/ AfterAddFrame
      BY <3>1 DEF EncodePass1, AfterAddFrame
    <3> QED
      BY <3>1, PlanAlone
  <2>2. lastPic' = fed - 1 /\ fed <= lastPic /\ Top(last) < fed /\ last # BeforeFirst /\ IsPic(last)
    BY <1>1, <1>3, <2>1, PlannedAgain
  <2>3. lpc = "second" /\ Newest = last
    BY <2>1 DEF TakeJob, Newest
  <2>4. fed \in Nat /\ lastPic \in Int /\ IsFrame(last) /\ OnCut(last)
    BY <1>1, <2>2 DEF Pass1Inv, LaTypes, IsPic, Planned
  <2>5. /\ Base(last) \in Int /\ last.gop \in Int /\ Top(last) = Base(last) + last.gop
        /\ Cut(Base(last), last.gop, lastPic + 1)
    BY <2>4, FrameFields DEF Top, OnCut
  <2>6. lastPic + 1 \in Nat /\ fed <= lastPic + 1 /\ Base(last) + last.gop < fed
        /\ i <= Base(last) + last.gop + 1
    BY <2>2, <2>3, <2>4, <2>5
  <2>7. Encoded(fed, i) = Encoded(lastPic + 1, i)
    <3>1. PICK n \in Nat, b \in Int, s \in Int : n = lastPic + 1 /\ b = Base(last) /\ s = last.gop
      BY <2>5, <2>6
    <3>2. fed <= n /\ Cut(b, s, n) /\ b + s < fed /\ i <= b + s + 1
      BY <2>5, <2>6, <3>1
    <3>3. Encoded(fed, i) = Encoded(n, i)
      BY <2>4, <3>2, OrderShorter
    <3> QED
      BY <3>1, <3>3
  <2>8. lastPic' + 1 = fed
    BY <2>2, <2>4
  <2> QED
    BY <2>7, <2>8
<1> QED
  BY <1>2, <1>3

LEMMA EmittedKept ==
    ASSUME EmittedInv,
           Sound' => /\ Sound /\ Emitted' = Emitted /\ UNCHANGED <<queue, todo, pops, back>>
                     /\ cpc' \in CtOver => cpc \in CtOver /\ last' = last
                     /\ cpc \in CtOver => cpc' \in CtOver
                     /\ Writing' <=> Writing
                     /\ Writing => \A x \in 1 .. Len(todo) :
                            Encoded(lastPic' + 1, Emitted + x) = Encoded(lastPic + 1, Emitted + x)
    PROVE  EmittedInv'
<1> SUFFICES ASSUME Sound' PROVE EmittedInv'
  BY DEF EmittedInv
<1>1. cpc' \in CtOver => Emitted' = Top(last') + 1
  BY DEF EmittedInv
<1>2. ASSUME Writing'
      PROVE  /\ Emitted' + Len(todo') = queue'[pops' + 1].pic + 1
             /\ \A x \in 1 .. Len(todo') : todo'[x] = Encoded(lastPic' + 1, Emitted' + x)
             /\ back' = "end" => Len(queue') = 1 /\ pops' = 0
  BY <1>2 DEF EmittedInv
<1>3. cpc' \notin CtOver /\ ~Writing' =>
          Emitted' = IF queue' = <<>> THEN 0 ELSE IF queue'[1].pic = 0 THEN 0 ELSE queue'[1].pic + 1
  BY DEF EmittedInv
<1>4. Top(last)' = Top(last')
  BY DEF Top, Base
<1> QED
  BY <1>1, <1>2, <1>3, <1>4 DEF EmittedInv

\* The application and the lookahead thread.
LEMMA EmittedOthers ==
    ASSUME ThreadsInv, FramesInv, TokenInv, TokenInv', PoolInv, PoolInv', Planned, InStream, EmittedInv,
           [Next]_vars,
           ~CutreeStep
    PROVE  EmittedInv'
<1> SUFFICES ASSUME Sound' PROVE EmittedInv'
  BY DEF EmittedInv
<1>1. Sound /\ Emitted' = Emitted
  <2>1. ~ComesOut
    BY DEF ComesOut, CutreeStep
  <2> QED
    BY <2>1, NothingOut
<1>2. /\ UNCHANGED <<queue, todo, pops, back>>
      /\ cpc' = cpc \/ (cpc = "jobSleep" /\ cpc' = "locked") \/ (cpc = "roiSleep" /\ cpc' = "write")
  <2>1. CASE EncodePass1
    BY <2>1, WakesKeepPlace DEF EncodePass1
  <2>2. CASE ~EncodePass1
    BY <2>2, FramesAlone
  <2> QED
    BY <2>1, <2>2
<1>3. /\ Writing' <=> Writing
      /\ cpc' \in CtOver <=> cpc \in CtOver
  BY <1>2 DEF Writing, CtOver, Over
<1>4. ASSUME cpc \in CtOver PROVE last' = last
  <2>1. lpc \in LaOver
    BY <1>1, <1>4, EndsWithPass1 DEF Sound
  <2>2. ~TakeJob /\ ~AfterAddFrame /\ ~EncodePass1
    BY <2>1 DEF TakeJob, AfterAddFrame, EncodePass1, LaOver
  <2> QED
    BY <2>2, PlanAlone
<1>5. ASSUME Writing, NEW x \in 1 .. Len(todo)
      PROVE  Encoded(lastPic' + 1, Emitted + x) = Encoded(lastPic + 1, Emitted + x)
  <2>1. Emitted + Len(todo) <= Top(Newest) + 1
    BY <1>1, <1>5, NotAhead
  <2>2. Emitted \in Nat /\ Len(todo) \in Nat
    BY <1>5, EmittedIsNat DEF FramesInv, ToBeWritten
  <2>3. Top(Newest) \in Int
    BY TopGrows DEF ThreadsInv, Newest
  <2>4. Emitted + x \in Nat /\ Emitted + x >= 1 /\ Emitted + x <= Top(Newest) + 1
    BY <2>1, <2>2, <2>3
  <2> QED
    BY <1>1, <2>4, SameOrder
<1> QED
  BY <1>1, <1>2, <1>3, <1>4, <1>5, EmittedKept

\* All that is known of the threads, the frames, the jobs and the stream.
OrderKnown == ThreadsInv /\ FramesInv /\ TokenInv /\ PoolInv /\ Planned /\ InStream /\ EmittedInv

LEMMA CutreeKeeps ==
    ASSUME CutreeStep
    PROVE  UNCHANGED <<fed, bFlush, returned, held, want, last, lastPic, laFailed>>
BY
  DEF CutreeStep, CuTreeLoop, AwaitFrame, TakeFrame, HandleInputFrame, Process, WriteFrame,
      RemoveFrames,
   EndCuTree, CtKeeps

\* The cuTree thread takes a frame and inserts it: the head of its queue stays.
LEMMA EmittedInserted ==
    ASSUME OrderKnown, TokenInv', PoolInv', [Next]_vars,
           CuTreeLoop \/ AwaitFrame \/ TakeFrame \/ HandleInputFrame
    PROVE  EmittedInv'
<1> SUFFICES ASSUME Sound' PROVE EmittedInv'
  BY DEF EmittedInv
<1>0. CutreeStep /\ ~WriteFrame
  BY DEF CutreeStep, CuTreeLoop, AwaitFrame, TakeFrame, HandleInputFrame, WriteFrame
<1>1. Sound /\ Emitted' = Emitted
  <2>1. ~ComesOut
    BY <1>0 DEF ComesOut
  <2> QED
    BY <2>1, NothingOut DEF OrderKnown
<1>2. BeforeStop /\ ThreadsInv /\ FramesInv
  BY <1>1 DEF Sound, OrderKnown
<1>3. status # MainStop /\ ~(status >= LookaheadError)
  BY <1>2, Running DEF MainStop, Ok, LookaheadFlush, CutreeFlush, CutreeFlushEnd, LookaheadError
<1>4. CASE CuTreeLoop \/ AwaitFrame \/ TakeFrame
  <2>1. /\ UNCHANGED <<queue, todo, pops, back>> /\ cpc \notin CtOver /\ cpc' \notin CtOver
        /\ ~Writing /\ ~Writing'
    BY <1>3, <1>4 DEF CuTreeLoop, AwaitFrame, TakeFrame, CtOver, Over, Writing
  <2>2. EmittedInv
    BY DEF OrderKnown
  <2> QED
    BY <1>1, <2>1, <2>2, EmittedKept
<1>5. CASE HandleInputFrame
  <2>1. /\ queue' = Insert(queue, frame) /\ cpc = "handle" /\ cpc' = "process"
    BY <1>5 DEF HandleInputFrame
  <2>2. Normal
    BY <1>2, <2>1, Running DEF CtOver, Over
  <2>3. /\ queue' \in Seq(Frame) /\ Len(queue') = Len(queue) + 1
        /\ queue'[1] = IF queue = <<>> THEN frame ELSE queue[1]
    BY <1>2, <2>1, <2>2, InsertedFrames
  <2>4. queue' # <<>>
    <3>1. Len(queue) \in Nat
      BY <1>2 DEF FramesInv, FramesTyped
    <3> QED
      BY <2>3, <3>1, EmptyQueue
  <2>5. queue = <<>> => frame.pic = 0
    BY <1>2, <2>1, <2>2 DEF FramesInv, InQueue, First, Picture
  <2>6. Emitted = IF queue = <<>> THEN 0 ELSE IF queue[1].pic = 0 THEN 0 ELSE queue[1].pic + 1
    BY <1>1, <2>1 DEF OrderKnown, EmittedInv, CtOver, Over, Writing
  <2>7. Emitted' = IF queue'[1].pic = 0 THEN 0 ELSE queue'[1].pic + 1
    BY <1>1, <2>3, <2>5, <2>6
  <2>8. cpc' \notin CtOver /\ ~Writing'
    BY <2>1 DEF CtOver, Over, Writing
  <2> QED
    BY <2>4, <2>7, <2>8 DEF EmittedInv
<1> QED
  BY <1>4, <1>5

\* The frames that were written leave the queue before the anchor that is written next.
LEMMA EmittedRemoved ==
    ASSUME OrderKnown, TokenInv', PoolInv', [Next]_vars, RemoveFrames
    PROVE  EmittedInv'
<1> SUFFICES ASSUME Sound' PROVE EmittedInv'
  BY DEF EmittedInv
<1>0. CutreeStep /\ ~WriteFrame
  BY DEF CutreeStep, RemoveFrames, WriteFrame
<1>1. Sound /\ Emitted' = Emitted
  <2>1. ~ComesOut
    BY <1>0 DEF ComesOut
  <2> QED
    BY <2>1, NothingOut DEF OrderKnown
<1>2. BeforeStop /\ ThreadsInv /\ FramesInv
  BY <1>1 DEF Sound, OrderKnown
<1>3. /\ cpc = "write" /\ todo = <<>> /\ cpc' = back /\ last' = last
      /\ queue' = SubSeq(queue, pops + 1, Len(queue))
  BY DEF RemoveFrames, CtKeeps
<1>4. Normal /\ Writing
  BY <1>2, <1>3, Running DEF CtOver, Over, Writing
<1>5. queue \in Seq(Frame) /\ Len(queue) \in Nat /\ pops \in Nat /\ pops + 1 <= Len(queue)
      /\ pops + 1 <= lastGopEnd /\ (pops = 0 => back = "end") /\ back \in {"process", "flush", "end"}
      /\ lastGopEnd \in Int
  BY <1>2, <1>4 DEF FramesInv, FramesTyped, ToBeWritten, ThreadsInv, CuInv
<1>6. queue # <<>>
  BY <1>5, EmptyQueue
<1>7. Shape(queue, lastGopEnd, Len(queue)) /\ CameLast(frame, queue, lastGopEnd, Len(queue))
  BY <1>2, <1>3, <1>4, <1>6 DEF FramesInv, InQueue
<1>8. Emitted + Len(todo) = queue[pops + 1].pic + 1 /\ (back = "end" => Len(queue) = 1 /\ pops = 0)
  BY <1>1, <1>4 DEF OrderKnown, EmittedInv
<1>9. Emitted = queue[pops + 1].pic + 1
  <2>1. Len(todo) = 0 /\ Emitted \in Nat
    BY <1>3, EmptyQueue, EmittedIsNat DEF OrderKnown
  <2> QED
    BY <1>8, <2>1
<1>10. /\ queue[1].pic \in Nat
       /\ \A i \in 1 .. lastGopEnd : queue[i].pic = queue[1].pic + i - 1
  BY <1>7, QueuePics
<1>11. CASE back = "end"
  <2>1. lastGopEnd = Len(queue) /\ pops = 0 /\ Len(queue) = 1
    <3>1. lastGopEnd \in 1 .. Len(queue)
      BY <1>7 DEF Shape
    <3>2. Len(queue) = 1 /\ pops = 0
      BY <1>8, <1>11
    <3> QED
      BY <3>1, <3>2
  <2>2. Top(frame) = queue[1].pic
    BY <1>7, <2>1 DEF CameLast
  <2>3. lpc \in LaOver /\ ctJobs = <<>> /\ ~laFailed
    BY <1>2, <1>3, <1>4, <1>11 DEF ThreadsInv, ControlInv, FlushInv, Normal
  <2>4. frame = last
    BY <1>2, <1>4, <1>6, <2>3 DEF FramesInv, Chain, Empty, Newest, LaOver
  <2>5. Emitted' = Top(last) + 1
    BY <1>1, <1>9, <2>1, <2>2, <2>4
  <2>6. cpc' \in CtOver /\ ~Writing' /\ Top(last)' = Top(last)
    BY <1>3, <1>11 DEF CtOver, Writing, Top, Base
  <2> QED
    BY <2>5, <2>6 DEF EmittedInv
<1>12. CASE back # "end"
  <2>1. pops + 1 \in 1 .. lastGopEnd /\ pops >= 1 /\ pops \in 0 .. Len(queue)
    BY <1>5, <1>12
  <2>2. queue[pops + 1].pic # 0 /\ queue[pops + 1].pic = queue[1].pic + pops
    BY <1>10, <2>1, <1>5
  <2>3. /\ queue' \in Seq(Frame) /\ Len(queue') = Len(queue) - pops
        /\ \A i \in 1 .. Len(queue) - pops : queue'[i] = queue[pops + i]
    BY <1>3, <1>5, <2>1, SuffixElements
  <2>4. 1 \in 1 .. Len(queue) - pops
    BY <1>5
  <2>5. queue'[1] = queue[pops + 1] /\ queue' # <<>>
    BY <1>5, <2>3, <2>4, EmptyQueue
  <2>6. cpc' \notin CtOver /\ ~Writing'
    BY <1>3, <1>5, <1>12 DEF CtOver, Over, Writing
  <2> QED
    BY <1>1, <1>9, <2>2, <2>5, <2>6 DEF EmittedInv
<1> QED
  BY <1>11, <1>12

\* The GOP that is written next continues the encoding order.
LEMMA GopContinues ==
    ASSUME OrderKnown, Sound, Normal, queue # <<>>, lastGopEnd >= 2, ~Writing
    PROVE  /\ Emitted + Len(ToWrite) = queue[GopLength + 1].pic + 1
           /\ \A x \in 1 .. Len(ToWrite) : ToWrite[x] = Encoded(lastPic + 1, Emitted + x)
<1>1. BeforeStop /\ ThreadsInv /\ FramesInv /\ InStream /\ EmittedInv /\ Planned
  BY DEF Sound, OrderKnown
<1>2. queue \in Seq(Frame) /\ Shape(queue, lastGopEnd, Len(queue)) /\ Len(queue) \in Nat
      /\ \A i \in 1 .. Len(queue) : IsFrame(queue[i]) /\ Inside(queue[i])
  BY <1>1 DEF FramesInv, FramesTyped, InQueue, InStream
<1>3. lastGopEnd \in 1 .. Len(queue)
  BY <1>2 DEF Shape
<1>4. PICK h \in {0, 1} : h = IF queue[1].pic = 0 THEN 1 ELSE 0
  OBVIOUS
<1> DEFINE p == GopLength
<1>5. /\ p = queue[2].gop /\ p \in Nat \ {0} /\ p + 1 <= lastGopEnd /\ p + 1 <= Len(queue)
      /\ queue[p + 1].ord = 0
      /\ ToWrite \in Seq(Int) /\ Len(ToWrite) = h + p
      /\ h = 1 => ToWrite[1] = queue[1].pic
      /\ \A n \in 1 .. p : Spot(p, n) \in 2 .. p + 1 /\ ToWrite[h + n] = queue[Spot(p, n)].pic
  BY <1>2, <1>4, GopToWrite
<1> HIDE DEF p
<1>13. /\ h \in Nat /\ h <= 1 /\ p \in Nat /\ p >= 1 /\ p + 1 <= lastGopEnd /\ p + 1 <= Len(queue)
       /\ Len(ToWrite) = h + p
  BY <1>4, <1>5
<1>6. /\ queue[1].pic \in Nat
      /\ \A i \in 1 .. lastGopEnd : queue[i].pic = queue[1].pic + i - 1
  BY <1>2, QueuePics
<1>7. Emitted = queue[1].pic + 1 - h
  <2>1. Emitted = IF queue[1].pic = 0 THEN 0 ELSE queue[1].pic + 1
    BY <1>1 DEF EmittedInv, Normal
  <2> QED
    BY <1>4, <1>6, <2>1
<1>8. Emitted + Len(ToWrite) = queue[p + 1].pic + 1
  <2>1. queue[p + 1].pic = queue[1].pic + p
    <3>1. p + 1 \in 1 .. lastGopEnd
      BY <1>3, <1>13
    <3>2. queue[p + 1].pic = queue[1].pic + (p + 1) - 1
      BY <1>6, <3>1
    <3> QED
      BY <1>6, <1>13, <3>2
  <2> QED
    BY <1>6, <1>7, <1>13, <2>1
<1>9. /\ Base(queue[p + 1]) = queue[1].pic
      /\ \A j \in 2 .. p : queue[j].ord = j - 1 /\ Base(queue[j]) = queue[1].pic
  BY <1>2, <1>5, FirstGop
<1>10. lastPic + 1 \in Nat
  BY <1>1 DEF Planned, ThreadsInv, Pass1Inv, LaTypes
<1>11. ASSUME NEW n \in 1 .. p
       PROVE  ToWrite[h + n] = Encoded(lastPic + 1, queue[1].pic + 1 + n)
  <2> DEFINE f == queue[Spot(p, n)]
  <2>1. Spot(p, n) \in 2 .. p + 1 /\ ToWrite[h + n] = f.pic
    BY <1>5, <1>11
  <2>2. Spot(p, n) \in 1 .. Len(queue)
    BY <1>2, <1>13, <2>1
  <2>3. IsFrame(f) /\ Cut(Base(f), f.gop, lastPic + 1)
    BY <1>2, <2>2 DEF Inside, OnCut
  <2>4. Base(f) = queue[1].pic /\ f.ord = n - 1
    <3>1. CASE n = 1
      BY <1>5, <1>9, <3>1 DEF Spot
    <3>2. CASE n # 1
      <4>1. Spot(p, n) = n /\ n \in 2 .. p
        BY <1>5, <1>11, <3>2 DEF Spot
      <4> QED
        BY <1>9, <4>1
    <3> QED
      BY <3>1, <3>2
  <2> HIDE DEF f
  <2>5. Encoded(lastPic + 1, Base(f) + 2 + f.ord) = f.pic
    BY <1>10, <2>3, CutPlace
  <2>6. Base(f) + 2 + f.ord = queue[1].pic + 1 + n
    BY <1>5, <1>6, <1>11, <2>4
  <2> QED
    BY <2>1, <2>5, <2>6
<1>12. ASSUME NEW x \in 1 .. Len(ToWrite) PROVE ToWrite[x] = Encoded(lastPic + 1, Emitted + x)
  <2>1. CASE h = 1 /\ x = 1
    <3>1. ToWrite[1] = 0 /\ Emitted + x = 1
      BY <1>4, <1>5, <1>6, <1>7, <2>1
    <3> QED
      BY <2>1, <3>1 DEF Encoded
  <2>2. CASE ~(h = 1 /\ x = 1)
    <3>1. x - h \in 1 .. p /\ h + (x - h) = x /\ queue[1].pic + 1 + (x - h) = Emitted + x
      BY <1>6, <1>7, <1>12, <1>13, <2>2
    <3>2. ToWrite[h + (x - h)] = Encoded(lastPic + 1, queue[1].pic + 1 + (x - h))
      BY <1>11, <3>1
    <3> QED
      BY <3>1, <3>2
  <2> QED
    BY <2>1, <2>2
<1> QED
  BY <1>8, <1>12 DEF p

\* The cuTree thread begins to write, or has nothing left.
LEMMA EmittedProcessed ==
    ASSUME Regular, OrderKnown, TokenInv', PoolInv', [Next]_vars, Process
    PROVE  EmittedInv'
<1> SUFFICES ASSUME Sound' PROVE EmittedInv'
  BY DEF EmittedInv
<1>0. CutreeStep /\ ~WriteFrame
  BY DEF CutreeStep, Process, WriteFrame
<1>1. Sound /\ Emitted' = Emitted
  <2>1. ~ComesOut
    BY <1>0 DEF ComesOut
  <2> QED
    BY <2>1, NothingOut DEF OrderKnown
<1>2. BeforeStop /\ ThreadsInv /\ FramesInv /\ EmittedInv
  BY <1>1 DEF Sound, OrderKnown
<1>3. UNCHANGED <<queue, last, lastPic>> /\ cpc \in {"process", "rest", "flush"}
      /\ cpc' \in {"write", "test", "flush", "end"}
  BY DEF Process, ProcessOneFrame, CtKeeps
<1>4. Normal /\ ~Writing /\ cpc \notin CtOver
  BY <1>2, <1>3, Running DEF CtOver, Over, Writing
<1>5. Emitted = IF queue = <<>> THEN 0 ELSE IF queue[1].pic = 0 THEN 0 ELSE queue[1].pic + 1
  BY <1>1, <1>2, <1>4 DEF EmittedInv
<1>6. queue \in Seq(Frame) /\ Len(queue) \in Nat
  BY <1>2 DEF FramesInv, FramesTyped
<1>7. CASE cpc' \in {"test", "flush"}
  <2>1. cpc' \notin CtOver /\ ~Writing'
    BY <1>7 DEF CtOver, Over, Writing
  <2> QED
    BY <1>1, <1>3, <1>5, <2>1 DEF EmittedInv
<1>8. CASE cpc' = "write"
  <2>1. /\ todo' = ToWrite /\ pops' = GopLength /\ queue # <<>>
        /\ \/ Normal /\ lastGopEnd >= 2 /\ back' \in {"process", "flush"}
           \/ Len(queue) = 1 /\ IsIntra(Head(queue)) /\ back' = "end" /\ cpc = "flush"
    BY <1>2, <1>8, StartsToWrite
  <2>2. /\ Emitted + Len(ToWrite) = queue[GopLength + 1].pic + 1
        /\ \A x \in 1 .. Len(ToWrite) : ToWrite[x] = Encoded(lastPic + 1, Emitted + x)
        /\ back' = "end" => Len(queue) = 1 /\ pops' = 0
    <3>1. CASE Normal /\ lastGopEnd >= 2 /\ back' \in {"process", "flush"}
      BY <1>1, <1>4, <2>1, <3>1, GopContinues
    <3>2. CASE Len(queue) = 1 /\ IsIntra(Head(queue)) /\ back' = "end" /\ cpc = "flush"
      <4>1. GopLength = 0 /\ ToWrite \in Seq(Int) /\ Len(ToWrite) = 1 /\ ToWrite[1] = queue[1].pic
        BY <1>6, <3>2, NoGop
      <4>2. queue[1].pic = 0
        BY <1>6, <3>2 DEF IsIntra
      <4>3. Emitted = 0
        BY <1>5, <2>1, <4>2
      <4>4. Encoded(lastPic + 1, 1) = 0
        BY DEF Encoded
      <4> QED
        BY <2>1, <3>2, <4>1, <4>2, <4>3, <4>4
    <3> QED
      BY <2>1, <3>1, <3>2
  <2>3. cpc' \notin CtOver /\ Writing'
    BY <1>8 DEF CtOver, Over, Writing
  <2> QED
    BY <1>1, <1>3, <2>1, <2>2, <2>3 DEF EmittedInv
<1>9. CASE cpc' = "end"
  <2>1. cpc = "flush" /\ ~(Len(queue) > 1)
    <3>1. status \in {Ok, LookaheadFlush, CutreeFlush, CutreeFlushEnd}
      BY <1>2, Running
    <3>2. status # CutreeFlushEnd
      BY <1>2, <1>3 DEF ThreadsInv, EndInv, Over
    <3> QED
      BY <1>6, <1>9, <3>1, <3>2 DEF Process, ProcessOneFrame, Ok, LookaheadFlush, CutreeFlush,
         CutreeFlushEnd, MainStop
  <2>2. Len(queue) = 0 \/ (Len(queue) = 1 /\ ~IsIntra(Head(queue)))
    <3>1. (CASE Len(queue) > 1 -> ProcessOneFrame("flush")
             [] Len(queue) = 1 /\ IsIntra(Head(queue)) -> ProcessOneFrame("end")
             [] OTHER -> cpc' = "end" /\ UNCHANGED <<todo, pops, back>>)
      BY <2>1 DEF Process
    <3>2. ~(Len(queue) = 1 /\ IsIntra(Head(queue)))
      BY <1>9, <2>1, <3>1 DEF ProcessOneFrame
    <3>3. Len(queue) = 0 \/ Len(queue) = 1
      <4>1. PICK n \in Nat : n = Len(queue)
        BY <1>6
      <4>2. ~(n > 1)
        BY <2>1, <4>1
      <4>3. n = 0 \/ n = 1
        BY <4>2
      <4> QED
        BY <4>1, <4>3
    <3> QED
      BY <3>2, <3>3
  <2>3. lpc \in LaOver /\ ctJobs = <<>> /\ ~laFailed
    BY <1>2, <1>4, <2>1 DEF ThreadsInv, ControlInv, FlushInv, Normal
  <2>4. Newest = last /\ (IF Empty THEN Newest = BeforeFirst ELSE frame = Newest)
    BY <1>2, <1>4, <2>3 DEF FramesInv, Chain, Newest, LaOver
  <2>5. Emitted = Top(last) + 1
    <3>1. CASE queue = <<>>
      <4>1. last = BeforeFirst
        BY <2>1, <2>4, <3>1 DEF Empty
      <4>2. Top(last) = -1
        BY <4>1 DEF BeforeFirst, Picture, None, Top, Base
      <4> QED
        BY <1>5, <3>1, <4>2
    <3>2. CASE queue # <<>>
      <4>1. Len(queue) = 1 /\ queue[1].pic # 0 /\ frame = last
        BY <1>6, <2>2, <2>4, <3>2, EmptyQueue DEF IsIntra, Empty
      <4>2. Shape(queue, lastGopEnd, Len(queue)) /\ CameLast(frame, queue, lastGopEnd, Len(queue))
        BY <1>2, <1>4, <2>1, <3>2 DEF FramesInv, InQueue
      <4>3. lastGopEnd = 1
        <5>1. lastGopEnd \in 1 .. Len(queue)
          BY <4>2 DEF Shape
        <5> QED
          BY <4>1, <5>1
      <4>4. Top(last) = queue[1].pic
        BY <4>1, <4>2, <4>3 DEF CameLast
      <4> QED
        BY <1>5, <3>2, <4>1, <4>4
    <3> QED
      BY <3>1, <3>2
  <2>6. cpc' \in CtOver /\ ~Writing' /\ Top(last)' = Top(last)
    BY <1>3, <1>9 DEF CtOver, Writing, Top, Base
  <2> QED
    BY <1>1, <2>5, <2>6 DEF EmittedInv
<1> QED
  BY <1>3, <1>7, <1>8, <1>9

\* A picture comes out of the cuTree thread: what is to be written goes on behind it.
LEMMA EmittedWritten ==
    ASSUME OrderKnown, TokenInv', PoolInv', [Next]_vars, WriteFrame
    PROVE  EmittedInv'
<1> SUFFICES ASSUME Sound' PROVE EmittedInv'
  BY DEF EmittedInv
<1>1. Sound
  BY SoundLasts DEF OrderKnown
<1>2. BeforeStop /\ ThreadsInv /\ FramesInv /\ TokenInv /\ PoolInv /\ EmittedInv
  BY <1>1 DEF Sound, OrderKnown
<1>3. /\ cpc = "write" /\ todo # <<>> /\ pops' = pops /\ back' = back
      /\ UNCHANGED <<returned, last, lastPic>>
  BY DEF WriteFrame, CtKeeps
<1>4. mpc' = "pass2" <=> mpc = "pass2"
  <2>1. mpc' = mpc \/ mpc' = SignalOutput(mpc)
    BY DEF WriteFrame, Enqueue
  <2> QED
    BY <2>1, WakesKeepPlace
<1>5. InPass2' = InPass2
  BY <1>4 DEF InPass2
<1>6. Writing /\ cpc \notin CtOver
  BY <1>3 DEF Writing, CtOver, Over
<1>7. /\ Emitted + Len(todo) = queue[pops + 1].pic + 1
      /\ \A x \in 1 .. Len(todo) : todo[x] = Encoded(lastPic + 1, Emitted + x)
      /\ back = "end" => Len(queue) = 1 /\ pops = 0
  BY <1>1, <1>2, <1>6 DEF EmittedInv
<1>8. CASE output' = Append(output, [pic |-> Head(todo), ok |-> TRUE]) /\ Hand(Head(todo))
           /\ todo' = Tail(todo) /\ cpc' = cpc
  <2>1. /\ Emitted \in Nat /\ InPass2 \in Nat /\ Len(output) \in Nat /\ Len(returned) \in Nat
        /\ Emitted = Len(returned) + InPass2 + Len(output)
    BY <1>2, EmittedIsNat
  <2>2. Len(output') = Len(output) + 1
    BY <1>2, <1>8 DEF TokenInv
  <2>3. Emitted' = Emitted + 1
    <3>1. Emitted' = Len(returned') + InPass2' + Len(output')
      BY DEF Emitted
    <3>2. Len(returned') = Len(returned)
      BY <1>3
    <3> QED
      BY <1>5, <2>1, <2>2, <3>1, <3>2
  <2>4. todo \in Seq(Int) /\ pops + 1 \in 1 .. Len(queue)
        /\ queue \in Seq(Frame) /\ \A i \in 1 .. Len(queue) : IsFrame(queue[i])
    <3>1. todo \in Seq(Int) /\ pops + 1 <= Len(queue)
      BY <1>2, <1>6 DEF FramesInv, ToBeWritten
    <3>2. pops \in Nat /\ Len(queue) \in Nat
          /\ queue \in Seq(Frame) /\ \A i \in 1 .. Len(queue) : IsFrame(queue[i])
      BY <1>2 DEF FramesInv, FramesTyped
    <3> QED
      BY <3>1, <3>2
  <2>5. /\ Len(todo') = Len(todo) - 1 /\ Len(todo) \in Nat
        /\ \A x \in 1 .. Len(todo) - 1 : todo'[x] = todo[x + 1]
    BY <1>3, <1>8, <2>4, TailElements
  <2>6. Len(queue') = Len(queue) /\ queue'[pops + 1].pic = queue[pops + 1].pic
    BY <1>8, <2>4, Handed
  <2>7. Emitted' + Len(todo') = queue'[pops' + 1].pic + 1
    <3>1. Emitted' + Len(todo') = Emitted + Len(todo)
      BY <2>1, <2>3, <2>5
    <3> QED
      BY <1>3, <1>7, <2>6, <3>1
  <2>8. ASSUME NEW x \in 1 .. Len(todo') PROVE todo'[x] = Encoded(lastPic' + 1, Emitted' + x)
    <3>1. x \in 1 .. Len(todo) - 1 /\ x + 1 \in 1 .. Len(todo) /\ Emitted + (x + 1) = Emitted' + x
      BY <2>1, <2>3, <2>5, <2>8
    <3>2. todo'[x] = todo[x + 1]
      BY <2>5, <3>1
    <3>3. todo[x + 1] = Encoded(lastPic + 1, Emitted + (x + 1))
      BY <1>7, <3>1
    <3> QED
      BY <1>3, <3>1, <3>2, <3>3
  <2>9. back' = "end" => Len(queue') = 1 /\ pops' = 0
    BY <1>3, <1>7, <2>6
  <2>10. Writing' /\ cpc' \notin CtOver
    BY <1>3, <1>8 DEF Writing, CtOver, Over
  <2> QED
    BY <2>7, <2>8, <2>9, <2>10 DEF EmittedInv
<1>9. CASE cpc' = "roiSleep" /\ UNCHANGED <<mpc, queue, todo, outVars>>
  <2>1. Emitted' = Emitted
    BY <1>3, <1>5, <1>9 DEF Emitted, outVars
  <2>2. Writing' /\ cpc' \notin CtOver
    BY <1>9 DEF Writing, CtOver, Over
  <2> QED
    BY <1>1, <1>2, <1>3, <1>6, <1>9, <2>1, <2>2, EmittedKept
<1>10. CASE output' = <<[pic |-> Head(todo), ok |-> FALSE]>>
  <2>1. Len(output') = 1 /\ ~output'[1].ok
    BY <1>10
  <2>2. \A i \in 1 .. Len(output') : output'[i].ok
    BY DEF Sound
  <2> QED
    BY <2>1, <2>2
<1> QED
  BY <1>8, <1>9, <1>10 DEF WriteFrame, Enqueue

\* When the cuTree thread has come to its end, all of pass 1 has come out.
LEMMA EmittedEnd ==
    ASSUME OrderKnown, TokenInv', PoolInv', [Next]_vars, EndCuTree
    PROVE  EmittedInv'
<1> SUFFICES ASSUME Sound' PROVE EmittedInv'
  BY DEF EmittedInv
<1>1. CutreeStep /\ ~WriteFrame
  BY DEF CutreeStep, EndCuTree, WriteFrame
<1>2. Sound /\ Emitted' = Emitted
  <2>1. ~ComesOut
    BY <1>1 DEF ComesOut
  <2> QED
    BY <2>1, NothingOut DEF OrderKnown
<1>3. cpc \in CtOver /\ cpc' \in CtOver /\ ~Writing' /\ last' = last
  BY DEF EndCuTree, CtKeeps, CtOver, Over, Writing
<1>4. Emitted = Top(last) + 1
  BY <1>2, <1>3 DEF OrderKnown, EmittedInv
<1>5. Top(last)' = Top(last)
  BY <1>3 DEF Top, Base
<1> QED
  BY <1>2, <1>3, <1>4, <1>5 DEF EmittedInv

LEMMA EmittedNext ==
    ASSUME Regular, OrderKnown, TokenInv', PoolInv', [Next]_vars
    PROVE  EmittedInv'
<1>1. CASE CuTreeLoop \/ AwaitFrame \/ TakeFrame \/ HandleInputFrame
  BY <1>1, EmittedInserted
<1>2. CASE Process
  BY <1>2, EmittedProcessed
<1>3. CASE WriteFrame
  BY <1>3, EmittedWritten
<1>4. CASE RemoveFrames
  BY <1>4, EmittedRemoved
<1>5. CASE EndCuTree
  BY <1>5, EmittedEnd
<1>6. CASE ~CutreeStep
  BY <1>6, EmittedOthers DEF OrderKnown
<1> QED
  BY <1>1, <1>2, <1>3, <1>4, <1>5, <1>6 DEF CutreeStep

\* What came out keeps its place.
LEMMA OrderStays ==
    ASSUME OrderKnown, Sound, [Next]_vars, NEW i \in Nat, i >= 1, i <= Emitted
    PROVE  Encoded(lastPic' + 1, i) = Encoded(lastPic + 1, i)
<1>1. Emitted <= Top(Newest) + 1
  BY NotAhead DEF OrderKnown
<1>2. Emitted \in Nat
  BY EmittedIsNat DEF OrderKnown
<1>3. Top(Newest) \in Int
  BY TopGrows DEF OrderKnown, ThreadsInv, Newest
<1>4. i <= Top(Newest) + 1
  BY <1>1, <1>2, <1>3
<1> QED
  BY <1>4, SameOrder DEF OrderKnown

LEMMA OutputNext ==
    ASSUME OrderKnown, TokenInv', PoolInv', OutputInv, [Next]_vars
    PROVE  OutputInv'
<1>1. output \in Seq(Out) /\ Len(output) \in Nat
  BY DEF OrderKnown, TokenInv
<1>2. ASSUME NEW i \in 2 .. Len(output') PROVE output'[i].ok
  <2>1. CASE output' = output
    BY <1>2, <2>1 DEF OutputInv
  <2>2. CASE output # <<>> /\ output' = Tail(output)
    <3>1. /\ Len(output') = Len(output) - 1
          /\ \A k \in 1 .. Len(output) - 1 : output'[k] = output[k + 1]
      BY <1>1, <2>2, TailElements
    <3>2. i \in 1 .. Len(output) - 1 /\ i + 1 \in 2 .. Len(output)
      BY <1>1, <1>2, <3>1
    <3> QED
      BY <3>1, <3>2 DEF OutputInv
  <2>3. CASE output' = Append(output, [pic |-> Head(todo), ok |-> TRUE])
    <3>1. /\ Len(output') = Len(output) + 1 /\ output'[Len(output) + 1] = [pic |-> Head(todo), ok |-> TRUE]
          /\ \A k \in 1 .. Len(output) : output'[k] = output[k]
      BY <1>1, <2>3
    <3>2. i = Len(output) + 1 \/ (i \in 1 .. Len(output) /\ i \in 2 .. Len(output))
      BY <1>1, <1>2, <3>1
    <3>3. CASE i = Len(output) + 1
      BY <3>1, <3>3
    <3>4. CASE i \in 1 .. Len(output) /\ i \in 2 .. Len(output)
      BY <3>1, <3>4 DEF OutputInv
    <3> QED
      BY <3>2, <3>3, <3>4
  <2>4. CASE \E pic : output' = <<[pic |-> pic, ok |-> FALSE]>>
    <3>1. Len(output') = 1
      BY <2>4
    <3> QED
      BY <1>2, <3>1
  <2> QED
    BY <2>1, <2>2, <2>3, <2>4, OutputChanges
<1>3. ASSUME Sound', NEW i \in 1 .. Len(output')
      PROVE  output'[i].pic = Encoded(lastPic' + 1, Len(returned') + InPass2' + i)
  <2>1. Sound /\ TokenInv /\ PoolInv
    BY <1>3, SoundLasts DEF OrderKnown
  <2>2. \A k \in 1 .. Len(output) : output[k].pic = Encoded(lastPic + 1, Len(returned) + InPass2 + k)
    BY <2>1 DEF OutputInv
  <2>3. /\ Emitted \in Nat /\ InPass2 \in Nat /\ Len(output) \in Nat /\ Len(returned) \in Nat
        /\ Emitted = Len(returned) + InPass2 + Len(output)
    BY <2>1, EmittedIsNat
  <2>4. ASSUME NEW k \in 1 .. Len(output)
        PROVE  output[k].pic = Encoded(lastPic' + 1, Len(returned) + InPass2 + k)
    <3>1. PICK p \in Nat : p = Len(returned) + InPass2 + k /\ p >= 1 /\ p <= Emitted
      BY <2>3
    <3>2. Encoded(lastPic' + 1, p) = Encoded(lastPic + 1, p)
      BY <2>1, <3>1, OrderStays
    <3> QED
      BY <2>2, <3>1, <3>2
  <2>5. CASE StaysInLine
    <3>1. output' = output /\ returned' = returned
      BY <2>5 DEF Stays, StaysInLine
    <3> QED
      BY <1>3, <2>4, <2>5, <3>1 DEF StaysInLine
  <2>6. CASE GoesInLine
    <3>1. Len(returned') = Len(returned)
      BY <2>6 DEF GoesToPass2, GoesInLine
    <3>5. InPass2 = 0 /\ InPass2' = 1 /\ Len(output') = Len(output) - 1
      BY <2>6 DEF GoesInLine
    <3>2. i \in 1 .. Len(output) - 1 /\ i + 1 \in 1 .. Len(output)
          /\ Len(returned) + InPass2 + (i + 1) = Len(returned') + InPass2' + i
      BY <1>3, <2>3, <3>1, <3>5
    <3>3. output'[i] = output[i + 1]
      BY <2>6, <3>2 DEF GoesInLine
    <3>4. output[i + 1].pic = Encoded(lastPic' + 1, Len(returned) + InPass2 + (i + 1))
      BY <2>4, <3>2
    <3> QED
      BY <3>2, <3>3, <3>4
  <2>7. CASE ReturnsInLine
    <3>1. output' = output
      BY <2>7 DEF Returns, ReturnsInLine
    <3>2. Len(returned') + InPass2' + i = Len(returned) + InPass2 + i
      BY <1>3, <2>3, <2>7 DEF ReturnsInLine
    <3> QED
      BY <1>3, <2>4, <3>1, <3>2
  <2>8. CASE ComesInLine
    <3>1. returned' = returned /\ cpc = "write" /\ todo # <<>> /\ CutreeStep
      BY <2>8 DEF ComesOut, WriteFrame, CutreeStep, ComesInLine
    <3>2. CASE i \in 1 .. Len(output)
      BY <2>4, <2>8, <3>1, <3>2 DEF ComesInLine
    <3>3. CASE i = Len(output) + 1
      <4>1. Writing /\ lastPic' = lastPic
        BY <3>1, CutreeKeeps DEF Writing
      <4>2. todo \in Seq(Int) /\ \A x \in 1 .. Len(todo) : todo[x] = Encoded(lastPic + 1, Emitted + x)
        BY <2>1, <4>1 DEF OrderKnown, FramesInv, ToBeWritten, EmittedInv
      <4>3. Len(todo) \in Nat \ {0} /\ Head(todo) = todo[1]
        BY <3>1, <4>2, TailElements
      <4>4. todo[1] = Encoded(lastPic + 1, Emitted + 1)
        BY <4>2, <4>3
      <4>5. Emitted + 1 = Len(returned') + InPass2' + i
        BY <2>3, <2>8, <3>1, <3>3 DEF ComesInLine
      <4>6. output'[i].pic = Head(todo)
        BY <2>8, <3>3 DEF ComesInLine
      <4> QED
        BY <4>1, <4>3, <4>4, <4>5, <4>6
    <3>4. i \in 1 .. Len(output) \/ i = Len(output) + 1
      BY <1>3, <2>3, <2>8 DEF ComesInLine
    <3> QED
      BY <3>2, <3>3, <3>4
  <2> QED
    BY <1>3, <2>1, <2>5, <2>6, <2>7, <2>8, InLine DEF ComesInLine
<1> QED
  BY <1>2, <1>3 DEF OutputInv

\* What the application got is the beginning of a stream of n pictures: those announced or,
\* when nothing has failed, those that pass 1 goes through.
Beginning(n) ==
    /\ \A i \in 1 .. Len(returned) : returned[i] = Encoded(n, i)
    /\ mpc = "pass2" => held = Encoded(n, Len(returned) + 1)
ReturnedInv ==
    \E n \in fed .. LastPic + 1 :
        /\ BeforeStop /\ ~bFlush => n = LastPic + 1
        /\ Sound => n = lastPic + 1
        /\ Beginning(n)
        /\ mpc = "drained" => n = fed /\ Len(returned) = fed

LEMMA ReturnedInit == Init => ReturnedInv
<1> SUFFICES ASSUME Init PROVE ReturnedInv
  OBVIOUS
<1>1. /\ returned = <<>> /\ mpc = "ready" /\ fed = 0 /\ lastPic = LastPic
  BY DEF Init
<1>2. Len(returned) = 0
  BY <1>1, EmptyQueue
<1>3. Beginning(LastPic + 1)
  BY <1>1, <1>2 DEF Beginning
<1>4. LastPic + 1 \in fed .. LastPic + 1
  BY <1>1, SizesAssumption
<1> QED
  BY <1>1, <1>3, <1>4 DEF ReturnedInv

LEMMA FedAlone ==
    ASSUME [Next]_vars
    PROVE  (AddPictureToLookahead \/ fed' = fed) /\ (bFlush => bFlush')
<1>1. AddPictureToLookahead \/ fed' = fed
  BY DEF Next, CallStep, LookaheadStep, CutreeStep, Flush, FlushNothing, Release,
     LookaheadLoop, AwaitAnyJob, AwaitJob, TakeJob, EncodePass1, AfterAddFrame, WaitCuInfoBuf, EndLookahead,
     vars, mainVars, GetLookaheadOutput, EncodePass2, StopLookaheadThread, StopCuTreeThread,
     TerminateLookaheadThread, TerminateCuTreeThread, MainElse, LaElse, CuTreeLoop, AwaitFrame, TakeFrame,
     HandleInputFrame, Process, WriteFrame, RemoveFrames, EndCuTree, CtKeeps
<1>2. bFlush' = bFlush \/ bFlush' = TRUE
  BY
    DEF Next, CallStep, LookaheadStep, CutreeStep, Flush, FlushNothing, Release,
        AddPictureToLookahead,
     LookaheadLoop, AwaitAnyJob, AwaitJob, TakeJob, EncodePass1, AfterAddFrame, WaitCuInfoBuf, EndLookahead,
     vars, mainVars, GetLookaheadOutput, EncodePass2, StopLookaheadThread, StopCuTreeThread,
     TerminateLookaheadThread, TerminateCuTreeThread, MainElse, LaElse, CuTreeLoop, AwaitFrame, TakeFrame,
     HandleInputFrame, Process, WriteFrame, RemoveFrames, EndCuTree, CtKeeps
<1> QED
  BY <1>1, <1>2

\* VCEncFlush says VCENC_OK when the output queue is empty and the cuTree thread has ended.
LEMMA Drains ==
    ASSUME [Next]_vars, mpc' = "drained"
    PROVE  \/ mpc = "drained"
           \/ /\ mpc = "get" /\ output = <<>> /\ bFlush /\ status >= CutreeFlushEnd
              /\ UNCHANGED <<output, returned, fed, lastPic>>
<1>1. CASE CutreeStep
  <2>1. mpc' = mpc \/ mpc' = SignalOutput(mpc) \/ mpc' = Woken(mpc, "ctStopSleep", "cutreeStops")
    BY <1>1
      DEF CutreeStep, CuTreeLoop, AwaitFrame, TakeFrame, HandleInputFrame, Process, WriteFrame,
       RemoveFrames, EndCuTree, Enqueue
  <2> QED
    BY <2>1 DEF SignalOutput, Woken
<1>2. CASE LookaheadStep
  <2>1. mpc' = mpc \/ mpc' = SignalOutput(mpc) \/ mpc' = Woken(mpc, "laStopSleep", "lookaheadStops")
    BY <1>2
      DEF LookaheadStep, LookaheadLoop, AwaitAnyJob, AwaitJob, TakeJob, WaitCuInfoBuf,
          EncodePass1,
       AfterAddFrame, EndLookahead, Enqueue, ParkLookahead
  <2> QED
    BY <2>1 DEF SignalOutput, Woken
<1>3. CASE GetLookaheadOutput
  BY <1>3 DEF GetLookaheadOutput, laVars
<1>4. CASE EncodePass2 \/ StopLookaheadThread \/ StopCuTreeThread \/ TerminateLookaheadThread
           \/ TerminateCuTreeThread
  BY <1>4 DEF EncodePass2, StopLookaheadThread, StopCuTreeThread, TerminateLookaheadThread,
     TerminateCuTreeThread
<1>5. CASE AddPictureToLookahead \/ Flush \/ FlushNothing \/ Release
  BY <1>5 DEF AddPictureToLookahead, Flush, FlushNothing, Release
<1>6. CASE UNCHANGED vars
  BY <1>6 DEF vars, mainVars
<1> QED
  BY <1>1, <1>2, <1>3, <1>4, <1>5, <1>6 DEF Next, CallStep

\* A step goes on with the same stream.
LEMMA BeginningStays ==
    ASSUME TokenInv, PoolInv, OutputInv, [Next]_vars, NEW n \in Int, Sound => n = lastPic + 1, Beginning(n)
    PROVE  Beginning(n)'
<1>1. /\ returned \in Seq(Int) /\ held \in Int /\ Len(returned) \in Nat
      /\ output \in Seq(Out) /\ Len(output) \in Nat
  BY DEF TokenInv, PoolInv
<1>2. CASE UNCHANGED <<returned, held>> /\ (mpc' = "pass2" <=> mpc = "pass2")
  BY <1>2 DEF Beginning
<1>3. CASE GoesToPass2
  <2>1. /\ output # <<>> /\ Head(output).ok /\ returned' = returned /\ held' = Head(output).pic
        /\ mpc = "get"
    BY <1>3 DEF GoesToPass2
  <2>2. Head(output) = output[1] /\ Len(output) \in Nat \ {0}
    BY <1>1, <2>1, TailElements
  <2>3. ASSUME NEW i \in 1 .. Len(output) PROVE output[i].ok
    <3>1. CASE i = 1
      BY <2>1, <2>2, <3>1
    <3>2. CASE i # 1
      <4>1. i \in 2 .. Len(output)
        BY <1>1, <3>2
      <4> QED
        BY <4>1 DEF OutputInv
    <3> QED
      BY <3>1, <3>2
  <2>4. Sound
    BY <2>1, <2>3 DEF Sound, BeforeStop
  <2>5. InPass2 = 0 /\ Len(returned) + InPass2 + 1 = Len(returned) + 1
    BY <1>1, <2>1 DEF InPass2
  <2>6. 1 \in 1 .. Len(output)
    BY <2>2
  <2>7. output[1].pic = Encoded(lastPic + 1, Len(returned) + InPass2 + 1)
    BY <2>4, <2>6 DEF OutputInv
  <2>8. held' = Encoded(n, Len(returned') + 1)
    BY <2>1, <2>2, <2>4, <2>5, <2>7
  <2> QED
    BY <2>1, <2>8 DEF Beginning
<1>4. CASE Returns
  <2>1. mpc = "pass2" /\ mpc' = "ready" /\ returned' = Append(returned, held)
    BY <1>4 DEF Returns
  <2>2. /\ Len(returned') = Len(returned) + 1 /\ returned'[Len(returned) + 1] = held
        /\ \A i \in 1 .. Len(returned) : returned'[i] = returned[i]
    BY <1>1, <2>1, AppendElements
  <2>3. ASSUME NEW i \in 1 .. Len(returned') PROVE returned'[i] = Encoded(n, i)
    <3>1. i \in 1 .. Len(returned) \/ i = Len(returned) + 1
      BY <1>1, <2>2
    <3>2. CASE i \in 1 .. Len(returned)
      BY <2>2, <3>2 DEF Beginning
    <3>3. CASE i = Len(returned) + 1
      BY <2>1, <2>2, <3>3 DEF Beginning
    <3> QED
      BY <3>1, <3>2, <3>3
  <2> QED
    BY <2>1, <2>3 DEF Beginning
<1>5. CASE mpc' = "failed" /\ returned' = returned
  BY <1>5 DEF Beginning
<1> QED
  BY <1>2, <1>3, <1>4, <1>5, OnTheWay DEF Stays, ComesOut

\* When VCEncFlush says VCENC_OK, the application has got every picture.
LEMMA DrainedIsAll ==
    ASSUME OrderKnown, EndOfStream, [Next]_vars, mpc = "get", output = <<>>, status >= CutreeFlushEnd
    PROVE  Sound /\ Len(returned) = fed /\ lastPic + 1 = fed
<1>1. Len(output) = 0 /\ InPass2 = 0
  BY EmptyQueue DEF InPass2
<1>2. Sound /\ ThreadsInv /\ BeforeStop
  BY <1>1 DEF OrderKnown, Sound, BeforeStop
<1>3. status = CutreeFlushEnd
  BY <1>2, Running DEF Ok, LookaheadFlush, CutreeFlush, CutreeFlushEnd
<1>4. cpc \in CtOver
  BY <1>2, <1>3 DEF ThreadsInv, EndInv, CtOver
<1>5. lpc \in LaOver
  BY <1>2, <1>4, EndsWithPass1
<1>6. Emitted = Top(last) + 1 /\ Top(last) = lastPic /\ lastPic + 1 = fed
  BY <1>2, <1>4, <1>5 DEF OrderKnown, EmittedInv, EndOfStream
<1>7. Emitted = Len(returned) + 0 + 0 /\ Len(returned) \in Nat
  BY <1>1, EmittedIsNat DEF OrderKnown
<1> QED
  BY <1>2, <1>6, <1>7

LEMMA Replans ==
    ASSUME [Next]_vars, lastPic' # lastPic
    PROVE  TakeJob
<1> SUFFICES ASSUME ~TakeJob PROVE lastPic' = lastPic
  OBVIOUS
<1>1. CASE EncodePass1 \/ AfterAddFrame
  BY <1>1 DEF EncodePass1, AfterAddFrame
<1> QED
  BY <1>1, PlanAlone

\* Planning again does not change what the application got.
LEMMA BeginningAgain ==
    ASSUME OrderKnown, Sound, [Next]_vars, NEW n \in Int, n = lastPic + 1, Beginning(n)',
           lastPic' # lastPic, NEW m \in Int, m = lastPic' + 1
    PROVE  Beginning(m)'
<1>1. returned' = returned /\ mpc' = mpc
  BY Replans DEF TakeJob, LaElse
<1>2. /\ Emitted \in Nat /\ InPass2 \in Nat /\ Len(output) \in Nat /\ Len(returned) \in Nat
      /\ Emitted = Len(returned) + InPass2 + Len(output)
  BY EmittedIsNat DEF OrderKnown
<1>3. ASSUME NEW i \in Nat, i >= 1, i <= Emitted PROVE Encoded(m, i) = Encoded(n, i)
  BY <1>3, OrderStays
<1>4. ASSUME NEW i \in 1 .. Len(returned') PROVE returned'[i] = Encoded(m, i)
  <2>1. i \in Nat /\ i >= 1 /\ i <= Emitted
    BY <1>1, <1>2, <1>4
  <2>2. returned'[i] = Encoded(n, i)
    BY <1>4 DEF Beginning
  <2> QED
    BY <1>3, <2>1, <2>2
<1>5. ASSUME mpc' = "pass2" PROVE held' = Encoded(m, Len(returned') + 1)
  <2>1. InPass2 = 1
    BY <1>1, <1>5 DEF InPass2
  <2>2. Len(returned) + 1 \in Nat /\ Len(returned) + 1 >= 1 /\ Len(returned) + 1 <= Emitted
    BY <1>2, <2>1
  <2>3. held' = Encoded(n, Len(returned) + 1)
    BY <1>1, <1>5 DEF Beginning
  <2> QED
    BY <1>1, <1>3, <2>2, <2>3
<1> QED
  BY <1>4, <1>5 DEF Beginning

LEMMA ReturnedNext ==
    ASSUME OrderKnown, ThreadsInv', TokenInv', PoolInv', Planned', OutputInv, EndOfStream, ReturnedInv,
           [Next]_vars
    PROVE  ReturnedInv'
<1>1. PICK n \in fed .. LastPic + 1 :
          /\ BeforeStop /\ ~bFlush => n = LastPic + 1
          /\ Sound => n = lastPic + 1
          /\ Beginning(n)
          /\ mpc = "drained" => n = fed /\ Len(returned) = fed
  BY DEF ReturnedInv
<1>2. fed \in Nat /\ lastPic \in Int /\ lastPic' \in Int /\ LastPic \in Nat /\ n \in Int
      /\ fed <= n /\ n <= LastPic + 1
  <2>1. fed \in Nat /\ lastPic \in Int /\ lastPic' \in Int /\ LastPic \in Nat
    BY SizesAssumption DEF OrderKnown, ThreadsInv, Pass1Inv, LaTypes
  <2> QED
    BY <1>1, <2>1
<1>3. n \in fed' .. LastPic + 1
  <2>1. CASE fed' = fed
    BY <1>1, <2>1
  <2>2. CASE AddPictureToLookahead
    <3>1. n = LastPic + 1
      BY <1>1, <2>2 DEF AddPictureToLookahead, BeforeStop
    <3>2. fed' = fed + 1 /\ fed < Frames
      BY <2>2 DEF AddPictureToLookahead
    <3> QED
      BY <1>2, <3>1, <3>2, SizesAssumption
  <2> QED
    BY <2>1, <2>2, FedAlone
<1>4. Beginning(n)'
  BY <1>1, <1>2, BeginningStays DEF OrderKnown
<1>5. BeforeStop' /\ ~bFlush' => n = LastPic + 1
  BY <1>1, StopLasts, FedAlone
<1>6. ASSUME mpc = "drained", mpc' = "drained"
      PROVE  n = fed' /\ Len(returned') = fed'
  <2>1. fed' = fed
    BY <1>6, FedAlone DEF AddPictureToLookahead
  <2>2. returned' = returned
    BY <1>6, OnTheWay DEF Stays, GoesToPass2, Returns, ComesOut
  <2> QED
    BY <1>1, <1>6, <2>1, <2>2
<1>7. CASE ~Sound'
  <2>1. ASSUME mpc' = "drained" PROVE mpc = "drained"
    <3> SUFFICES ASSUME mpc # "drained" PROVE FALSE
      OBVIOUS
    <3>1. output' = <<>>
      BY <2>1, Drains
    <3>2. Len(output') = 0
      BY <3>1, EmptyQueue
    <3>3. Sound'
      BY <2>1, <3>2 DEF Sound, BeforeStop
    <3> QED
      BY <1>7, <3>3
  <2> QED
    BY <1>3, <1>4, <1>5, <1>6, <1>7, <2>1 DEF ReturnedInv, Beginning
<1>8. CASE Sound'
  <2>1. Sound /\ BeforeStop /\ BeforeStop' /\ n = lastPic + 1
    BY <1>1, <1>8, SoundLasts DEF OrderKnown, Sound
  <2>2. PICK m \in Int : m = lastPic' + 1
    <3>1. lastPic' + 1 \in Int
      BY <1>2
    <3> QED
      BY ONLY <3>1
  <2>3. fed' <= m /\ m <= LastPic + 1 /\ (~bFlush' => m = LastPic + 1) /\ m \in fed' .. LastPic + 1
    <3>1. fed' <= lastPic' + 1 /\ lastPic' <= LastPic /\ (~bFlush' => lastPic' = LastPic)
      BY <2>1 DEF Planned
    <3>2. fed' \in Nat
      BY DEF ThreadsInv, Pass1Inv, LaTypes
    <3>3. lastPic' = LastPic => m = LastPic + 1
      BY <2>2
    <3>4. fed' <= m /\ m <= LastPic + 1 /\ m \in fed' .. LastPic + 1
      <4>1. fed' <= lastPic' + 1 /\ lastPic' <= LastPic
        BY <3>1
      <4>2. lastPic' \in Int /\ LastPic \in Nat
        BY <1>2
      <4>3. PICK x \in Nat, y \in Int, z \in Nat : x = fed' /\ y = lastPic' /\ z = LastPic
        BY <3>2, <4>2
      <4>4. m = y + 1 /\ x <= y + 1 /\ y <= z
        BY <2>2, <4>1, <4>3
      <4>5. m \in x .. z + 1 /\ x <= m /\ m <= z + 1
        BY <4>4
      <4> QED
        BY <4>3, <4>5
    <3> QED
      BY <3>1, <3>3, <3>4
  <2>4. Beginning(m)'
    <3>1. CASE lastPic' = lastPic
      BY <1>4, <2>1, <2>2, <3>1
    <3>2. CASE lastPic' # lastPic
      BY <1>2, <1>4, <2>1, <2>2, <3>2, BeginningAgain
    <3> QED
      BY <3>1, <3>2
  <2>5. ASSUME mpc' = "drained" PROVE m = fed' /\ Len(returned') = fed'
    <3>1. CASE mpc = "drained"
      <4>1. n = fed' /\ Len(returned') = fed' /\ n = fed
        BY <1>1, <1>6, <2>5, <3>1
      <4>2. lastPic' = lastPic
        <5> SUFFICES ASSUME lastPic' # lastPic PROVE FALSE
          OBVIOUS
        <5>1. fed <= lastPic
          BY <2>1, Replans, PlannedAgain DEF OrderKnown
        <5> QED
          BY <1>2, <2>1, <4>1, <5>1
      <4> QED
        BY <2>1, <2>2, <4>1, <4>2
    <3>2. CASE mpc # "drained"
      <4>1. /\ mpc = "get" /\ output = <<>> /\ status >= CutreeFlushEnd
            /\ UNCHANGED <<returned, fed, lastPic>>
        BY <2>5, <3>2, Drains
      <4>2. Len(returned) = fed /\ lastPic + 1 = fed
        BY <4>1, DrainedIsAll
      <4> QED
        BY <2>2, <4>1, <4>2
    <3> QED
      BY <3>1, <3>2
  <2> QED
    BY <1>8, <2>1, <2>2, <2>3, <2>4, <2>5 DEF ReturnedInv, Beginning
<1> QED
  BY <1>7, <1>8

-----------------------------------------------------------------------------
\* The inductive invariant of the encoding order.
OrderInv == OrderKnown /\ OutputInv /\ EndOfStream /\ ReturnedInv

LEMMA OrderInvInit == Init => OrderInv
BY ThreadsInit, FramesInit, TokenInit, PoolInit, PlannedInit, InStreamInit, OrderInit, ReturnedInit
   DEF OrderInv, OrderKnown

LEMMA OrderInvNext ==
    ASSUME Regular
    PROVE  OrderInv /\ [Next]_vars => OrderInv'
<1> SUFFICES ASSUME OrderInv, [Next]_vars PROVE OrderInv'
  OBVIOUS
<1>1. OrderKnown /\ OutputInv /\ EndOfStream /\ ReturnedInv
  BY DEF OrderInv
<1>2. ThreadsInv /\ FramesInv /\ TokenInv /\ PoolInv /\ Planned /\ InStream
  BY <1>1 DEF OrderKnown
<1>3. ThreadsInv' /\ FramesInv' /\ TokenInv'
  BY <1>2, ThreadsNext, FramesNext, TokenNext DEF Regular
<1>4. PoolInv'
  BY <1>2, PoolNext DEF ThreadsInv
<1>5. Planned' /\ InStream'
  BY <1>2, PlannedNext, InStreamNext
<1>6. EmittedInv'
  BY <1>1, <1>3, <1>4, EmittedNext
<1>7. OutputInv'
  BY <1>1, <1>3, <1>4, OutputNext
<1>8. EndOfStream'
  BY <1>1, <1>2, <1>3, EndOfStreamNext
<1>9. ReturnedInv'
  BY <1>1, <1>3, <1>4, <1>5, ReturnedNext
<1> QED
  BY <1>3, <1>4, <1>5, <1>6, <1>7, <1>8, <1>9 DEF OrderInv, OrderKnown

LEMMA SameSequence ==
    ASSUME NEW S, NEW T, NEW s \in Seq(S), NEW t \in Seq(T), Len(s) = Len(t),
           \A i \in 1 .. Len(s) : s[i] = t[i]
    PROVE  s = t
<1>1. DOMAIN s = 1 .. Len(s) /\ DOMAIN t = 1 .. Len(s)
  OBVIOUS
<1>2. s = [i \in 1 .. Len(s) |-> s[i]] /\ t = [i \in 1 .. Len(s) |-> t[i]]
  OBVIOUS
<1> QED
  BY <1>2

LEMMA OrderElements ==
    ASSUME NEW n \in Nat, NEW s \in Seq(Int), Len(s) <= n,
           \A i \in 1 .. Len(s) : s[i] = Encoded(n, i)
    PROVE  /\ s = SubSeq(EncodeOrder(n), 1, Len(s))
           /\ Len(s) = n => s = EncodeOrder(n)
<1>0. PICK k \in 0 .. n : k = Len(s)
  OBVIOUS
<1> DEFINE S == {Encoded(n, i) : i \in 1 .. n}
           o == EncodeOrder(n)
<1>1. o \in [1 .. n -> S] /\ \A i \in 1 .. n : o[i] = Encoded(n, i)
  BY DEF EncodeOrder
<1> HIDE DEF S, o
<1>2. o \in Seq(S) /\ Len(o) = n
  BY <1>1, FunctionIsSeq
<1>3. k \in 0 .. Len(o)
  BY <1>2
<1>4. /\ SubSeq(o, 1, k) \in Seq(S) /\ Len(SubSeq(o, 1, k)) = k
      /\ \A i \in 1 .. k : SubSeq(o, 1, k)[i] = o[i]
  BY ONLY <1>2, <1>3, PrefixElements
<1>5. ASSUME NEW i \in 1 .. k PROVE s[i] = o[i] /\ s[i] = SubSeq(o, 1, k)[i]
  <2>1. i \in 1 .. n /\ i \in 1 .. Len(s)
    BY <1>0
  <2> QED
    BY <1>1, <1>4, <2>1
<1>6. s = SubSeq(o, 1, k)
  BY <1>0, <1>4, <1>5, SameSequence
<1>7. ASSUME k = n PROVE s = o
  BY <1>0, <1>2, <1>5, <1>7, SameSequence
<1> QED
  BY <1>0, <1>6, <1>7 DEF o

LEMMA ReturnedIsOrder == OrderInv => InEncodeOrder /\ FlushIsComplete
<1> SUFFICES ASSUME OrderInv PROVE InEncodeOrder /\ FlushIsComplete
  OBVIOUS
<1>1. PICK n \in fed .. LastPic + 1 :
          /\ Beginning(n)
          /\ mpc = "drained" => n = fed /\ Len(returned) = fed
  BY DEF OrderInv, ReturnedInv
<1>2. returned \in Seq(Int) /\ fed \in Nat /\ LastPic \in Nat
  BY SizesAssumption DEF OrderInv, OrderKnown, PoolInv, ThreadsInv, Pass1Inv, LaTypes
<1>3. Len(returned) \in Nat /\ Len(returned) <= fed
  <2>1. /\ Cardinality(inUse) \in Nat /\ Len(returned) \in Nat
        /\ Cardinality(inUse) + Len(returned) <= fed
    BY FS_CardinalityType DEF OrderInv, OrderKnown, PoolInv
  <2> QED
    BY <1>2, <2>1
<1>4. n \in Nat /\ Len(returned) <= n
  BY <1>1, <1>2, <1>3
<1>5. \A i \in 1 .. Len(returned) : returned[i] = Encoded(n, i)
  BY <1>1 DEF Beginning
<1>6. /\ returned = SubSeq(EncodeOrder(n), 1, Len(returned))
      /\ Len(returned) = n => returned = EncodeOrder(n)
  BY ONLY <1>2, <1>4, <1>5, OrderElements
<1>7. InEncodeOrder
  BY <1>1, <1>6 DEF InEncodeOrder
<1>8. ASSUME mpc = "drained" PROVE returned = EncodeOrder(fed)
  <2>1. n = fed /\ Len(returned) = n
    BY <1>1, <1>8
  <2> QED
    BY <1>6, <2>1
<1> QED
  BY <1>7, <1>8 DEF FlushIsComplete

\* The application gets the pictures in encoding order, whatever the three threads overtake and
\* however many pictures it gives before it flushes (VCEncStrmEncodeExt and VCEncFlush).
THEOREM ComesInOrder ==
    ASSUME Regular
    PROVE  Spec => []InEncodeOrder
<1>1. Init => OrderInv
  BY OrderInvInit
<1>2. OrderInv /\ [Next]_vars => OrderInv'
  BY OrderInvNext
<1>3. OrderInv => InEncodeOrder
  BY ReturnedIsOrder
<1> QED
  BY <1>1, <1>2, <1>3, PTL DEF Spec

\* When VCEncFlush says VCENC_OK, the application has got every picture it gave, in encoding
\* order: CUTREE_FLUSH_END is not seen with pictures still on their way.
THEOREM FlushGivesAll ==
    ASSUME Regular
    PROVE  Spec => []FlushIsComplete
<1>1. Init => OrderInv
  BY OrderInvInit
<1>2. OrderInv /\ [Next]_vars => OrderInv'
  BY OrderInvNext
<1>3. OrderInv => FlushIsComplete
  BY ReturnedIsOrder
<1> QED
  BY <1>1, <1>2, <1>3, PTL DEF Spec
=============================================================================
