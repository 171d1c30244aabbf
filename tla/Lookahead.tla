------------------------------- MODULE Lookahead -------------------------------
(***************************************************************************)
(* Two-pass encoding of the VeriSilicon encoder (vcenc/source/hevc).       *)
(*                                                                         *)
(* The application's thread puts pictures into a queue of jobs, the        *)
(* lookahead thread encodes them once at low quality in encoding order,    *)
(* the cuTree thread analyses them GOP by GOP and queues them with a map   *)
(* of QP offsets, and the application's thread encodes those.  The three   *)
(* threads share one status word and wait on one condition variable for    *)
(* each queue.                                                             *)
(*                                                                         *)
(* A label ending in Gap is a thread that has decided to wait and has not  *)
(* reached pthread_cond_wait yet: it holds the mutex of the condition, but *)
(* the other side does not always take that mutex before it signals.       *)
(***************************************************************************)
EXTENDS Integers, Sequences, FiniteSets, SequencesExt

CONSTANTS Frames,   \* bound: pictures the application has
          LastPic,  \* gopConfig.lastPic, the last picture it announced
          Gop,      \* size of a GOP: one anchor, the rest B pictures
          Depth,    \* lookaheadDepth
          Delay,    \* lookaheadDelay
          CuBufs,   \* numCuInfoBuf
          RoiBufs,  \* CUTREE_BUFFER_NUM
          Faults    \* what may go wrong, and what the application may do

\* anchor, inner: pass 1 of the first picture of a GOP fails, of another one.  pass2: pass 2
\* fails.  quit, abort: the application releases the encoder in the middle of a stream, after
\* VCEncSetError in the second case.
FaultKinds == {"anchor", "inner", "pass2", "quit", "abort"}

ASSUME SizesAssumption == /\ Frames \in Nat /\ LastPic \in Nat /\ Delay \in Nat
                          /\ Frames <= LastPic + 1
                          /\ Gop \in Nat \ {0} /\ Depth \in Nat \ {0}
                          /\ CuBufs \in Nat \ {0} /\ RoiBufs \in Nat \ {0}
\* EncInitLookAheadBufCnt: its GOP size of 8 or 16 stands for Gop here.
ASSUME DelayAssumption == /\ Delay + 1 >= Depth + (Gop \div 2) + Gop
                          /\ Delay + 1 >= Depth + (Gop \div 2) + CuBufs + 1
ASSUME FaultsAssumption == Faults \subseteq FaultKinds

VARIABLES
    status,     \* cuTreeCtr.bStatus
    \* the application's thread
    mpc, fed,   \* fed: pictures given to VCEncStrmEncode
    idelay, bFlush,
    failing,    \* encStatus = VCENCSTAT_ERROR
    held,       \* the picture in pass 2, or none
    returned,   \* pictures the application got back, in this order
    \* shared by the application and the lookahead thread
    jobs,       \* VCEncLookahead.jobs: a picture is looked for by its number
    enqueued,   \* enqueueJobcnt
    laStop,     \* VCEncLookahead.bStop
    \* the lookahead thread
    lpc, want, last, lastPic, laJob,
    staleStop,  \* its copy of bStatus is MAIN_STOP
    laFailed,   \* ret < VCENC_OK
    \* shared by the lookahead and the cuTree thread
    ctJobs,     \* cuTreeCtr.jobs
    total,      \* total_frames
    cuInfo,     \* cuInfoToRead
    \* the cuTree thread
    cpc, ctSaw, \* ctSaw: its copy of bStatus
    queue,      \* lookaheadFrames, in display order
    lastGopEnd,
    frame,      \* the frame it handles
    todo, pops, \* frames a step has still to write, frames it removes then
    back,       \* where it goes on after the step
    ctFailed, ctStop,
    \* shared by the cuTree and the application's thread
    output,     \* VCEncLookahead.output
    roi,        \* pictures that hold a buffer for the map of QP offsets
    inUse       \* pictures that hold a node of jobBufferPool

mainVars == <<mpc, fed, idelay, bFlush, failing, held, returned>>
laVars == <<lpc, want, last, lastPic, laJob, staleStop, laFailed>>
jobVars == <<jobs, enqueued>>
feedVars == <<ctJobs, total, cuInfo>>
ctVars == <<cpc, ctSaw, queue, lastGopEnd, frame, todo, pops, back, ctFailed>>
outVars == <<output, roi, inUse>>
vars == <<status, mainVars, jobVars, laStop, laVars, feedVars, ctVars, ctStop, outVars>>
-----------------------------------------------------------------------------
\* thread_status_enum
Ok == 0
MainStop == 1
LookaheadFlush == 2
CutreeFlush == 3
CutreeFlushEnd == 4
LookaheadError == 5
CutreeError == 6
MainError == 7

None == -1
Smaller(a, b) == IF a < b THEN a ELSE b

\* A picture in encoding order: the size of its GOP and its place in it.
\* "out": its job went to the application (Lowres.job is NULL).
Picture(pic, gop, ord) == [pic |-> pic, gop |-> gop, ord |-> ord, out |-> FALSE]
First == Picture(0, 1, 0)
IsIntra(f) == f.pic = 0
IsAnchor(f) == f.ord = 0
EndsGop(f) == f.ord = f.gop - 1

\* What is encoded after f if "end" is the last picture: the anchor of a GOP comes first,
\* the last GOP is made to fit.
FindNextPic(f, end) ==
    LET anchor == f.pic - f.ord + (IF f.ord = 0 THEN 0 ELSE f.gop)
        left == end - anchor
        size == IF left >= Gop THEN Gop ELSE IF left < 1 THEN 1 ELSE Smaller(left, 4)
    IN IF EndsGop(f) THEN Picture(anchor + size, size, 0)
                     ELSE Picture(anchor - f.gop + f.ord + 1, f.gop, f.ord + 1)

Init == /\ status = Ok
        /\ mpc = "ready" /\ fed = 0 /\ idelay = 0 /\ bFlush = FALSE /\ failing = FALSE
        /\ held = None /\ returned = <<>>
        /\ jobs = {} /\ enqueued = 0 /\ laStop = FALSE
        /\ lpc = "loop" /\ want = First /\ last = Picture(None, 1, 0) /\ lastPic = LastPic
        /\ laJob = None /\ staleStop = FALSE /\ laFailed = FALSE
        /\ ctJobs = <<>> /\ total = 0 /\ cuInfo = 0
        /\ cpc = "test" /\ ctSaw = Ok /\ queue = <<>> /\ lastGopEnd = 0 /\ frame = First
        /\ todo = <<>> /\ pops = 0 /\ back = "process" /\ ctFailed = FALSE /\ ctStop = FALSE
        /\ output = <<>> /\ roi = {} /\ inUse = {}
-----------------------------------------------------------------------------
\* A signal wakes the one thread that can sleep on the condition, if it does.
Woken(pc, asleep, awake) == IF pc = asleep THEN awake ELSE pc
SignalOutput(pc) == Woken(pc, "getSleep", "get")
SignalCutree(pc) == Woken(pc, "jobSleep", "locked")
SignalRoi(pc) == Woken(pc, "roiSleep", "write")
SignalJob(pc) == CASE pc = "firstSleep" -> "first"
                   [] pc = "secondSleep" -> "woken"
                   [] OTHER -> pc
JobMutexFree == lpc \notin {"firstGap", "second", "secondGap"}

\* LookaheadEnqueueOutput: an error empties the queue first.
Enqueue(pic, ok) ==
    /\ output' = IF ok THEN Append(output, [pic |-> pic, ok |-> TRUE])
                 ELSE <<[pic |-> pic, ok |-> FALSE]>>
    /\ inUse' = IF ok THEN inUse ELSE inUse \ {output[i].pic : i \in DOMAIN output}
    /\ mpc' = SignalOutput(mpc)
-----------------------------------------------------------------------------
(* The application's thread *)

\* An application that is lookaheadDelay pictures ahead waits for an output each time.
QueueIsFull_Never(delay) == FALSE
QueueIsFull(delay) == delay > Delay

\* VCEncStrmEncodeExt of a new picture, up to the point where it needs an output
AddPictureToLookahead ==
    /\ mpc = "ready" /\ ~bFlush /\ fed < Frames /\ JobMutexFree
    /\ jobs' = jobs \cup {fed} /\ enqueued' = enqueued + 1 /\ inUse' = inUse \cup {fed}
    /\ fed' = fed + 1
    /\ lpc' = SignalJob(lpc)
    /\ idelay' = Smaller(idelay + 1, Delay + 1)
    /\ mpc' = IF QueueIsFull(idelay') THEN "get" ELSE "ready"
    /\ UNCHANGED <<status, bFlush, failing, held, returned, laStop, want, last, lastPic,
                   laJob, staleStop, laFailed, feedVars, ctVars, ctStop, output, roi>>

\* VCEncFlush with pictures inside: the signal is sent without job_mutex
Flush ==
    /\ mpc = "ready" /\ idelay > 0
    /\ bFlush' = TRUE
    /\ idelay' = Smaller(idelay + 1, Delay + 1)
    /\ status' = IF status < LookaheadFlush THEN LookaheadFlush ELSE status
    /\ lpc' = SignalJob(lpc)
    /\ mpc' = "get"
    /\ UNCHANGED <<fed, failing, held, returned, jobVars, laStop, want, last, lastPic,
                   laJob, staleStop, laFailed, feedVars, ctVars, ctStop, outVars>>

\* VCEncFlush before any picture
FlushNothing == /\ mpc = "ready" /\ idelay = 0
                /\ bFlush' = TRUE /\ mpc' = "failed" /\ failing' = TRUE
                /\ UNCHANGED <<status, fed, idelay, held, returned, jobVars, laStop, laVars,
                               feedVars, ctVars, ctStop, outVars>>

\* GetLookaheadOutput, and what VCEncStrmEncodeExt does with an output that is no picture
GetLookaheadOutput ==
    /\ mpc = "get"
    /\ \/ /\ output = <<>> /\ status < CutreeFlushEnd
          /\ mpc' = "getSleep"
          /\ UNCHANGED <<held, failing, output, inUse>>
       \/ /\ output = <<>> /\ status >= CutreeFlushEnd
          /\ mpc' = IF bFlush THEN "drained" ELSE "failed"
          /\ failing' = ~bFlush
          /\ UNCHANGED <<held, output, inUse>>
       \/ /\ output # <<>> /\ Head(output).ok
          /\ mpc' = "pass2"
          /\ held' = Head(output).pic /\ output' = Tail(output)
          /\ UNCHANGED <<failing, inUse>>
       \/ /\ output # <<>> /\ ~Head(output).ok
          /\ mpc' = "failed" /\ failing' = TRUE
          /\ output' = Tail(output) /\ inUse' = inUse \ {Head(output).pic}
          /\ UNCHANGED held
    /\ UNCHANGED <<status, fed, idelay, bFlush, returned, jobVars, laStop, laVars, feedVars,
                   ctVars, ctStop, roi>>

\* The rest of VCEncStrmEncodeExt.  A caller that sees an error gives up.
EncodePass2 ==
    /\ mpc = "pass2"
    /\ \/ mpc' = "ready" /\ returned' = Append(returned, held) /\ UNCHANGED failing
       \/ "pass2" \in Faults /\ mpc' = "failed" /\ failing' = TRUE /\ UNCHANGED returned
    /\ roi' = roi \ {held} /\ cpc' = SignalRoi(cpc)
    /\ inUse' = inUse \ {held}
    /\ held' = None
    /\ UNCHANGED <<status, fed, idelay, bFlush, jobVars, laStop, laVars, feedVars, ctSaw,
                   queue, lastGopEnd, frame, todo, pops, back, ctFailed, ctStop, output>>

MainElse == <<fed, idelay, bFlush, held, returned, jobVars, feedVars, outVars>>

\* VCEncStop within VCEncRelease: the status is set at once, the thread woken after it.
Release ==
    /\ \/ mpc \in {"drained", "failed"} /\ UNCHANGED failing
       \/ mpc = "ready" /\ "quit" \in Faults /\ UNCHANGED failing
       \/ mpc = "ready" /\ "abort" \in Faults /\ failing' = TRUE
    /\ status' = IF failing' THEN MainError
                 ELSE IF status <= CutreeFlush THEN MainStop ELSE status
    /\ mpc' = "stopLookahead"
    /\ UNCHANGED <<MainElse, laStop, laVars, ctVars, ctStop>>

StopLookaheadThread ==
    /\ \/ /\ mpc = "stopLookahead" /\ JobMutexFree
          /\ lpc' = SignalJob(lpc)
          /\ mpc' = "lookaheadStops"
          /\ UNCHANGED status
       \/ /\ mpc = "lookaheadStops" /\ ~laStop
          /\ mpc' = "laStopGap"
          /\ UNCHANGED <<lpc, status>>
       \/ /\ mpc = "laStopGap"
          /\ mpc' = "laStopSleep"
          /\ UNCHANGED <<lpc, status>>
       \/ /\ mpc = "lookaheadStops" /\ laStop
          /\ status' = IF failing THEN MainError
                       ELSE IF status <= CutreeFlush THEN MainStop ELSE status
          /\ mpc' = "stopCutree"
          /\ UNCHANGED lpc
    /\ UNCHANGED <<MainElse, failing, laStop, want, last, lastPic, laJob, staleStop, laFailed,
                   ctVars, ctStop>>

StopCuTreeThread ==
    /\ \/ /\ mpc = "stopCutree"
          /\ cpc' = SignalCutree(cpc)
          /\ mpc' = "cutreeStops"
       \/ /\ mpc = "cutreeStops" /\ ~ctStop
          /\ mpc' = "ctStopSleep"
          /\ UNCHANGED cpc
       \/ /\ mpc = "cutreeStops" /\ ctStop
          /\ mpc' = "stopped"
          /\ UNCHANGED cpc
    /\ UNCHANGED <<status, MainElse, failing, laStop, laVars, ctSaw, queue, lastGopEnd, frame,
                   todo, pops, back, ctFailed, ctStop>>

\* TerminateLookaheadThread and TerminateCuTreeThread set the status, wake and join.
TerminatedStatus == IF failing THEN MainError
                    ELSE IF status < CutreeFlush THEN CutreeFlush ELSE status

TerminateLookaheadThread ==
    /\ \/ /\ mpc = "stopped"
          /\ status' = TerminatedStatus
          /\ mpc' = "wakeLookahead"
          /\ UNCHANGED lpc
       \/ /\ mpc = "wakeLookahead" /\ JobMutexFree
          /\ lpc' = SignalJob(lpc)
          /\ mpc' = "joinLookahead"
          /\ UNCHANGED status
    /\ UNCHANGED <<MainElse, failing, laStop, want, last, lastPic, laJob, staleStop, laFailed,
                   ctVars, ctStop>>

TerminateCuTreeThread ==
    /\ \/ /\ mpc = "joinLookahead" /\ lpc = "ended"
          /\ status' = TerminatedStatus
          /\ mpc' = "wakeCutree"
          /\ UNCHANGED cpc
       \/ /\ mpc = "wakeCutree"
          /\ cpc' = SignalRoi(SignalCutree(cpc))
          /\ mpc' = "joinCutree"
          /\ UNCHANGED status
       \/ /\ mpc = "joinCutree" /\ cpc = "ended"
          /\ mpc' = "released"
          /\ UNCHANGED <<cpc, status>>
    /\ UNCHANGED <<MainElse, failing, laStop, laVars, ctSaw, queue, lastGopEnd, frame, todo,
                   pops, back, ctFailed, ctStop>>

InCall == mpc \notin {"ready", "drained", "failed", "released"}
CallStep == \/ GetLookaheadOutput \/ EncodePass2 \/ StopLookaheadThread \/ StopCuTreeThread
            \/ TerminateLookaheadThread \/ TerminateCuTreeThread
-----------------------------------------------------------------------------
(* The lookahead thread *)

CtElse == <<total, cuInfo, ctSaw, queue, lastGopEnd, frame, todo, pops, back, ctFailed, ctStop>>
LaElse == <<fed, idelay, bFlush, failing, held, returned, output, roi>>

\* lookaheadClear
ClearJobs == jobs' = {} /\ enqueued' = 0

\* What the thread does when it finds MAIN_STOP: lookaheadClear of its jobs, then bStop and
\* the signal, both without stop_mutex.
ParkLookahead(alsoFreed) ==
    /\ ClearJobs
    /\ inUse' = inUse \ (jobs \cup alsoFreed)
    /\ laStop' = TRUE
    /\ mpc' = Woken(mpc, "laStopSleep", "lookaheadStops")

\* queue_remove of the job of the wanted picture
FindJob == /\ laJob' = IF want.pic \in jobs THEN want.pic ELSE None
           /\ jobs' = jobs \ {want.pic}

LookaheadLoop == /\ lpc = "loop"
                 /\ lpc' = IF status >= LookaheadError THEN "end" ELSE "first"
                 /\ UNCHANGED <<status, mpc, LaElse, jobVars, laStop, want, last, lastPic,
                                laJob, staleStop, laFailed, ctJobs, cpc, CtElse, inUse>>

\* The first loop of GetLookaheadJob waits for any job at all.
AwaitAnyJob ==
    /\ \/ /\ lpc = "first" /\ status = MainStop
          /\ ParkLookahead({})
          /\ lpc' = "firstGap"
          /\ UNCHANGED laJob
       \/ /\ lpc = "first" /\ jobs = {} /\ status < LookaheadFlush /\ status # MainStop
          /\ lpc' = "firstGap"
          /\ UNCHANGED <<mpc, jobVars, laStop, laJob, inUse>>
       \/ /\ lpc = "first" /\ (jobs # {} \/ status >= LookaheadFlush) /\ status # MainStop
          /\ FindJob
          /\ lpc' = "second"
          /\ UNCHANGED <<mpc, enqueued, laStop, inUse>>
       \/ /\ lpc = "firstGap"
          /\ lpc' = "firstSleep"
          /\ UNCHANGED <<mpc, jobVars, laStop, laJob, inUse>>
    /\ UNCHANGED <<status, LaElse, want, last, lastPic, staleStop, laFailed, ctJobs, cpc,
                   CtElse>>

\* Its second loop waits for the job of the wanted picture.
AwaitJob ==
    /\ \/ /\ lpc = "second" /\ status = MainStop
          /\ ParkLookahead({laJob})
          /\ laJob' = None
          /\ staleStop' = TRUE
          /\ lpc' = "secondGap"
       \/ /\ lpc = "second" /\ laJob = None /\ status < LookaheadFlush /\ status # MainStop
          /\ staleStop' = FALSE
          /\ lpc' = "secondGap"
          /\ UNCHANGED <<mpc, jobVars, laStop, laJob, inUse>>
       \/ /\ lpc = "secondGap"
          /\ lpc' = "secondSleep"
          /\ UNCHANGED <<mpc, jobVars, laStop, laJob, staleStop, inUse>>
       \/ /\ lpc = "woken" /\ ~staleStop
          /\ FindJob
          /\ lpc' = "second"
          /\ UNCHANGED <<mpc, enqueued, laStop, staleStop, inUse>>
       \* the status it waited with is not read again
       \/ /\ lpc = "woken" /\ staleStop
          /\ ParkLookahead({})
          /\ lpc' = "secondGap"
          /\ UNCHANGED <<laJob, staleStop>>
    /\ UNCHANGED <<status, LaElse, want, last, lastPic, laFailed, ctJobs, cpc, CtElse>>

\* Every picture the application announced has come.
EndsNormally_Always == TRUE
EndsNormally == lastPic + 1 <= enqueued

\* GetLookaheadJob returns: with a job, or because the stream is flushed.
TakeJob ==
    /\ lpc = "second" /\ status # MainStop
    /\ \/ /\ laJob # None
          /\ lpc' = "cuInfo"
          /\ UNCHANGED <<want, lastPic, laFailed>>
       \/ /\ laJob = None /\ status >= LookaheadFlush /\ EndsNormally
          /\ lpc' = "end"
          /\ UNCHANGED <<want, lastPic, laFailed>>
       \/ /\ laJob = None /\ status >= LookaheadFlush /\ ~EndsNormally
          /\ last.pic = None
          /\ laFailed' = TRUE
          /\ lpc' = "end"
          /\ UNCHANGED <<want, lastPic>>
       \* fewer pictures came than were announced: plan again from the last one encoded
       \/ /\ laJob = None /\ status >= LookaheadFlush /\ ~EndsNormally
          /\ last.pic # None
          /\ lastPic' = enqueued - 1
          /\ want' = FindNextPic(last, lastPic')
          /\ lpc' = "loop"
          /\ UNCHANGED laFailed
    /\ UNCHANGED <<status, mpc, LaElse, jobVars, laStop, last, laJob, staleStop, ctJobs, cpc,
                   CtElse, inUse>>

\* waitCuInfoBufPass1
ClaimCuInfo == cuInfo' = cuInfo + 1
CuInfoFull_OneMore == cuInfo = CuBufs + 1
CuInfoFull == cuInfo = CuBufs

WaitCuInfoBuf ==
    /\ lpc = "cuInfo"
    /\ IF CuInfoFull THEN lpc' = "cuInfoSleep" /\ UNCHANGED cuInfo
                     ELSE lpc' = "pass1" /\ ClaimCuInfo
    /\ UNCHANGED <<status, mpc, LaElse, jobVars, laStop, want, last, lastPic, laJob, staleStop,
                   laFailed, ctJobs, cpc, total, ctSaw, queue, lastGopEnd, frame, todo, pops, back,
                   ctFailed, ctStop, inUse>>

\* VCEncStrmEncode of pass 1; a picture goes on to the cuTree thread by cuTreeAddFrame.
EncodePass1 ==
    /\ lpc = "pass1"
    /\ \/ /\ ctJobs' = Append(ctJobs, want) /\ total' = total + 1
          /\ cpc' = SignalCutree(cpc)
          /\ lpc' = "added"
          /\ UNCHANGED <<mpc, output, inUse>>
       \* the job carries the error, ret does not
       \/ /\ (IF IsAnchor(want) THEN "anchor" ELSE "inner") \in Faults
          /\ Enqueue(laJob, FALSE)
          /\ lpc' = "end"
          /\ UNCHANGED <<ctJobs, total, cpc>>
    /\ laJob' = None
    /\ UNCHANGED <<status, fed, idelay, bFlush, failing, held, returned, roi, jobVars, laStop,
                   want, last, lastPic, staleStop, laFailed, cuInfo, ctSaw, queue, lastGopEnd,
                   frame, todo, pops, back, ctFailed, ctStop>>

\* The end of cuTreeAddFrame looks at the status once more.
AfterAddFrame ==
    /\ lpc = "added"
    /\ IF status >= LookaheadError /\ total < Depth + (Gop \div 2) + 1
       THEN lpc' = "end" /\ laFailed' = TRUE /\ UNCHANGED <<want, last>>
       ELSE /\ lpc' = "loop"
            /\ last' = want /\ want' = FindNextPic(want, lastPic)
            /\ UNCHANGED laFailed
    /\ UNCHANGED <<status, mpc, LaElse, jobVars, laStop, lastPic, laJob, staleStop, ctJobs,
                   cpc, CtElse, inUse>>

\* The status that tells the cuTree thread that nothing follows.
PassOneDone_AsEnd == CutreeFlushEnd
PassOneDone == CutreeFlush

EndLookahead ==
    /\ \/ /\ lpc = "end"
          /\ status' = IF laFailed THEN LookaheadError
                       ELSE IF status < CutreeFlush /\ status # MainStop THEN PassOneDone
                       ELSE status
          /\ lpc' = "stopping"
          /\ UNCHANGED <<mpc, laStop, cpc>>
       \/ /\ lpc = "stopping"
          /\ laStop' = TRUE
          /\ mpc' = Woken(mpc, "laStopSleep", "lookaheadStops")
          /\ lpc' = "flushing"
          /\ UNCHANGED <<status, cpc>>
       \* cuTreeFlush
       \/ /\ lpc = "flushing"
          /\ cpc' = SignalRoi(SignalCutree(cpc))
          /\ lpc' = "ended"
          /\ UNCHANGED <<status, mpc, laStop>>
    /\ UNCHANGED <<LaElse, jobVars, want, last, lastPic, laJob, staleStop, laFailed, ctJobs,
                   CtElse, inUse>>

LookaheadStep == \/ LookaheadLoop \/ AwaitAnyJob \/ AwaitJob \/ TakeJob \/ WaitCuInfoBuf
                 \/ EncodePass1 \/ AfterAddFrame \/ EndLookahead
-----------------------------------------------------------------------------
(* The cuTree thread *)

CtKeeps == <<fed, idelay, bFlush, failing, held, returned, jobVars, laStop, want, last,
             lastPic, laJob, staleStop, laFailed>>

\* insertion in display order; an intra frame stays where it came
Insert(q, f) ==
    LET ahead == IF IsIntra(f) THEN Len(q)
                 ELSE Max({0} \cup {i \in DOMAIN q : q[i].pic <= f.pic})
    IN InsertAt(q, ahead + 1, f)

\* Where process_one_frame finds the next anchor, counted from the head of the queue.
NextAnchor == {i \in 2..Len(queue) : i <= lastGopEnd /\ IsAnchor(queue[i])}
GopLength == IF NextAnchor = {} THEN 0
             ELSE CHOOSE n \in 1..Len(queue) : /\ n + 1 \in NextAnchor
                                               /\ \A i \in NextAnchor : n + 1 <= i
\* write_gop_cutree: the GOP behind the head in encoding order
GopFrames_AsQueued == SubSeq(queue, 2, GopLength + 1)
GopFrames == [n \in 1..GopLength |-> queue[CHOOSE i \in 2..GopLength + 1 : queue[i].ord = n - 1]]

\* The frames it writes: an intra frame at the head, then the GOP.
ToWrite == LET frames == (IF IsIntra(Head(queue)) THEN <<Head(queue)>> ELSE <<>>) \o GopFrames
           IN [i \in DOMAIN frames |-> frames[i].pic]

\* The start of process_one_frame; "next" is where its caller goes on.
ProcessOneFrame(next) == /\ todo' = ToWrite /\ pops' = GopLength /\ back' = next
                         /\ cpc' = "write"

CuTreeLoop == /\ cpc = "test"
              /\ cpc' = IF ctSaw < CutreeFlush \/ ctJobs # <<>> THEN "locked" ELSE "rest"
              /\ UNCHANGED <<status, mpc, lpc, CtKeeps, feedVars, ctSaw, queue, lastGopEnd,
                             frame, todo, pops, back, ctFailed, ctStop, outVars>>

\* What releaseFrame gives back to jobBufferPool: the jobs the frames still have.
JobsOf(frames) == {frames[i].pic : i \in {j \in DOMAIN frames : ~frames[j].out}}

\* Under cutree_mutex.  On MAIN_STOP cuTreeClear frees the frames of the job queue but not
\* their jobs.
AwaitFrame ==
    /\ cpc = "locked"
    /\ ctSaw' = status
    /\ \/ /\ status = MainStop
          /\ ctJobs' = <<>> /\ total' = 0 /\ queue' = <<>> /\ lastGopEnd' = 0
          /\ inUse' = inUse \ JobsOf(queue)
          /\ ctStop' = TRUE /\ mpc' = Woken(mpc, "ctStopSleep", "cutreeStops")
          /\ cpc' = "jobSleep"
       \/ /\ status < CutreeFlush /\ status # MainStop /\ ctJobs = <<>>
          /\ cpc' = "jobSleep"
          /\ UNCHANGED <<mpc, ctJobs, total, queue, lastGopEnd, ctStop, inUse>>
       \/ /\ status >= LookaheadError
          /\ cpc' = "end"
          /\ UNCHANGED <<mpc, ctJobs, total, queue, lastGopEnd, ctStop, inUse>>
       \/ /\ status < LookaheadError /\ status # MainStop /\ ctJobs # <<>>
          /\ cpc' = "taken"
          /\ UNCHANGED <<mpc, ctJobs, total, queue, lastGopEnd, ctStop, inUse>>
       \/ /\ status \in {CutreeFlush, CutreeFlushEnd} /\ ctJobs = <<>>
          /\ cpc' = "test"
          /\ UNCHANGED <<mpc, ctJobs, total, queue, lastGopEnd, ctStop, inUse>>
    /\ UNCHANGED <<status, lpc, CtKeeps, cuInfo, frame, todo, pops, back, ctFailed, output, roi>>

TakeFrame ==
    /\ cpc = "taken"
    /\ ctJobs' = Tail(ctJobs)
    /\ ctSaw' = status
    /\ \/ status = MainStop /\ cpc' = "test" /\ UNCHANGED frame
       \/ status # MainStop /\ cpc' = "handle" /\ frame' = Head(ctJobs)
    /\ UNCHANGED <<status, mpc, lpc, CtKeeps, total, cuInfo, queue, lastGopEnd, todo, pops,
                   back, ctFailed, ctStop, outVars>>

\* cuTreeHandleInputFrame
HandleInputFrame ==
    /\ cpc = "handle"
    /\ queue' = Insert(queue, frame)
    /\ lastGopEnd' = IF EndsGop(frame) THEN Len(queue) + 1 ELSE lastGopEnd
    /\ cuInfo' = cuInfo - 1 /\ lpc' = Woken(lpc, "cuInfoSleep", "cuInfo")
    /\ cpc' = "process"
    /\ UNCHANGED <<status, mpc, CtKeeps, ctJobs, total, ctSaw, frame, todo, pops, back,
                   ctFailed, ctStop, outVars>>

\* Enough frames wait behind the head.
GopIsDue_OneEarly == \/ Len(queue) >= Depth /\ EndsGop(frame)
                     \/ Len(queue) >= Depth + (frame.gop \div 2)
GopIsDue == \/ Len(queue) >= Depth /\ EndsGop(frame)
            \/ Len(queue) >= Depth + 1 + (frame.gop \div 2)

\* its loop, and the two of cuTreeThread that flush
Process ==
    /\ \/ /\ cpc = "process"
          /\ IF GopIsDue THEN ProcessOneFrame("process")
                         ELSE cpc' = "test" /\ UNCHANGED <<todo, pops, back>>
          /\ UNCHANGED ctSaw
       \/ /\ cpc = "rest"
          /\ ctSaw' = status
          /\ cpc' = IF status <= CutreeFlush /\ status # MainStop THEN "flush" ELSE "end"
          /\ UNCHANGED <<todo, pops, back>>
       \/ /\ cpc = "flush"
          /\ CASE Len(queue) > 1 -> ProcessOneFrame("flush")
               [] Len(queue) = 1 /\ IsIntra(Head(queue)) -> ProcessOneFrame("end")
               [] OTHER -> cpc' = "end" /\ UNCHANGED <<todo, pops, back>>
          /\ UNCHANGED ctSaw
    /\ UNCHANGED <<status, mpc, lpc, CtKeeps, feedVars, queue, lastGopEnd, frame, ctFailed,
                   ctStop, outVars>>

\* The job of a frame goes to the application: Lowres.job = NULL.
Hand_KeepsJob(pic) == UNCHANGED queue
Hand(pic) == queue' = [i \in DOMAIN queue |->
                          [queue[i] EXCEPT !.out = @ \/ queue[i].pic = pic]]

\* write_cutree_file takes a buffer for the QP offsets, waits for one or, after an error of
\* another thread, gives up.
WriteFrame ==
    /\ cpc = "write" /\ todo # <<>>
    /\ \/ /\ Cardinality(roi) < RoiBufs
          /\ roi' = roi \cup {Head(todo)}
          /\ Enqueue(Head(todo), TRUE)
          /\ Hand(Head(todo))
          /\ todo' = Tail(todo)
          /\ UNCHANGED <<cpc, ctFailed>>
       \/ /\ Cardinality(roi) >= RoiBufs /\ status < LookaheadError
          /\ cpc' = "roiSleep"
          /\ UNCHANGED <<mpc, queue, todo, ctFailed, outVars>>
       \/ /\ Cardinality(roi) >= RoiBufs /\ status >= LookaheadError
          /\ Enqueue(Head(todo), FALSE)
          /\ Hand(Head(todo))
          /\ ctFailed' = TRUE
          /\ cpc' = "end"
          /\ UNCHANGED <<roi, todo>>
    /\ UNCHANGED <<status, lpc, CtKeeps, feedVars, ctSaw, lastGopEnd, frame, pops, back,
                   ctStop>>

\* The frames before the anchor of the GOP that was written leave the queue.
RemoveFrames ==
    /\ cpc = "write" /\ todo = <<>>
    /\ queue' = SubSeq(queue, pops + 1, Len(queue))
    /\ lastGopEnd' = lastGopEnd - pops
    /\ inUse' = inUse \ JobsOf(SubSeq(queue, 1, pops))
    /\ cpc' = back
    /\ UNCHANGED <<status, mpc, lpc, CtKeeps, feedVars, ctSaw, frame, todo, pops, back,
                   ctFailed, ctStop, output, roi>>

\* remove_frame_happened: the last frames, whose job nobody else has, leave the queue
RemovesFrame_Unseen == FALSE
RemovesFrame == queue # <<>>

EndCuTree ==
    /\ \/ /\ cpc = "end"
          /\ IF ctSaw >= LookaheadError
             THEN ctJobs' = <<>> /\ inUse' = inUse \ (JobsOf(ctJobs) \cup JobsOf(queue))
             ELSE UNCHANGED ctJobs /\ inUse' = inUse \ JobsOf(queue)
          /\ queue' = <<>> /\ lastGopEnd' = lastGopEnd - Len(queue)
          /\ cpc' = IF RemovesFrame THEN "settle" ELSE "settleQuietly"
          /\ UNCHANGED <<status, mpc, ctStop>>
       \/ /\ cpc \in {"settle", "settleQuietly"}
          /\ status' = IF ctFailed THEN CutreeError
                       ELSE IF status < CutreeFlushEnd /\ status # MainStop
                            THEN CutreeFlushEnd ELSE status
          /\ cpc' = IF cpc = "settle" THEN "notify" ELSE "stopping"
          /\ UNCHANGED <<mpc, ctJobs, queue, lastGopEnd, ctStop, inUse>>
       \/ /\ cpc = "notify"
          /\ mpc' = SignalOutput(mpc)
          /\ cpc' = "stopping"
          /\ UNCHANGED <<status, ctJobs, queue, lastGopEnd, ctStop, inUse>>
       \/ /\ cpc = "stopping"
          /\ ctStop' = TRUE
          /\ mpc' = Woken(mpc, "ctStopSleep", "cutreeStops")
          /\ cpc' = "ended"
          /\ UNCHANGED <<status, ctJobs, queue, lastGopEnd, inUse>>
    /\ UNCHANGED <<lpc, CtKeeps, total, cuInfo, ctSaw, frame, todo, pops, back, ctFailed,
                   output, roi>>

CutreeStep == \/ CuTreeLoop \/ AwaitFrame \/ TakeFrame \/ HandleInputFrame \/ Process
              \/ WriteFrame \/ RemoveFrames \/ EndCuTree
-----------------------------------------------------------------------------
Next == \/ AddPictureToLookahead \/ Flush \/ FlushNothing \/ Release
        \/ CallStep \/ LookaheadStep \/ CutreeStep

\* Each thread is scheduled, and the hardware finishes what it encodes.  What the
\* application calls next is its own affair.
Spec == /\ Init /\ [][Next]_vars
        /\ WF_vars(CallStep) /\ WF_vars(LookaheadStep) /\ WF_vars(CutreeStep)
-----------------------------------------------------------------------------
\* The picture that is encoded i-th in a stream of n: the first one, then GOPs of Gop pictures
\* as long as they fit, then GOPs of 4 and of what is left, each with its anchor first.
Encoded(n, i) ==
    LET k == i - 2
        whole == ((n - 1) \div Gop) * Gop
        start == IF k < whole THEN (k \div Gop) * Gop ELSE whole + ((k - whole) \div 4) * 4
        size == IF k < whole THEN Gop ELSE Smaller(4, n - 1 - start)
    IN IF i = 1 THEN 0 ELSE IF k = start THEN start + size ELSE k
EncodeOrder(n) == [i \in 1..n |-> Encoded(n, i)]

\* What the application got back is the beginning of the stream in encoding order,
\* whatever the two threads overtake (VCEncStrmEncodeExt and VCEncFlush).
InEncodeOrder == \E n \in fed..LastPic + 1 : returned = SubSeq(EncodeOrder(n), 1, Len(returned))

\* An application that flushed until VCEncFlush said VCENC_OK got every picture back.
FlushIsComplete == mpc = "drained" => returned = EncodeOrder(fed)

\* Where the node of a job can be found: one bag of pictures, place by place.
Places == << jobs, {laJob}, JobsOf(ctJobs), IF cpc = "handle" THEN {frame.pic} ELSE {},
             JobsOf(queue), {output[i].pic : i \in DOMAIN output}, {held} >>
Found == (UNION Range(Places)) \ {None}
BeforeStop == mpc \in {"ready", "get", "getSleep", "pass2", "drained", "failed"}

\* The pictures in the output queue that are ready for pass 2.
Ready(out) == {out[i].pic : i \in {j \in DOMAIN out : out[j].ok}}

\* No job is in two places, none is used after its node went back to the pool, and before
\* a stop none is lost; a picture on its way to pass 2 has its map of QP offsets.
JobsAccounted ==
    /\ \A i, j \in DOMAIN Places : i # j => Places[i] \cap Places[j] \subseteq {None}
    /\ Found \subseteq inUse
    /\ BeforeStop => inUse = Found
    /\ Ready(output) \subseteq roi
    /\ held # None => held \in roi

\* The pool of VCEncGetEncodeMaxDelay + 1 jobs and the frames of the cuTree thread suffice.
PoolsSuffice ==
    /\ Cardinality(inUse) <= Delay + 1
    /\ Len(ctJobs) + Len(queue) + (IF cpc = "handle" THEN 1 ELSE 0)
           <= Delay + 1

\* cuInfoToRead counts every buffer of CU information that pass 1 writes or the cuTree thread
\* has still to read, and there are that many.
CuInfoIntact == /\ Len(ctJobs) + (IF cpc = "handle" THEN 1 ELSE 0)
                               + (IF lpc = "pass1" THEN 1 ELSE 0) <= cuInfo
                /\ cuInfo <= CuBufs

\* A frame is written while it still has its job (write_cutree_file uses it unchecked).
WrittenOnce == cpc = "write" => \A i \in DOMAIN todo : \E j \in DOMAIN queue :
                                   queue[j].pic = todo[i] /\ ~queue[j].out

\* After CUTREE_FLUSH_END, which makes an empty output the end of the stream, no picture
\* comes out any more.
EndIsFinal == [][status = CutreeFlushEnd => Ready(output') \subseteq Ready(output)]_vars

\* The ways the three threads can wait for ever.
FlushUnheard == mpc = "getSleep" /\ status >= LookaheadFlush
                /\ lpc \in {"firstSleep", "secondSleep"}
StopUnheard == mpc = "laStopSleep" /\ laStop
StopForgotten == mpc = "joinLookahead" /\ lpc = "secondSleep" /\ staleStop
CuInfoStarved == lpc = "cuInfoSleep" /\ cpc \in {"jobSleep", "ended"}
RoiStarved == mpc = "ctStopSleep" /\ cpc = "roiSleep"
Stuck == FlushUnheard \/ StopUnheard \/ StopForgotten \/ CuInfoStarved \/ RoiStarved

\* A call of the application returns, unless the threads got stuck in one of these five ways
\* (VCEncStrmEncodeExt, VCEncFlush and VCEncRelease).
CallsReturn == InCall ~> (~InCall \/ Stuck)
=============================================================================
