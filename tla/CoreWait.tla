------------------------------- MODULE CoreWait -------------------------------
(***************************************************************************)
(* The encoder wrapper layer of vcenc/linux_reference/ewl/ewl.c without a  *)
(* command buffer, and the callers in vcenc/source/hevc that keep several  *)
(* cores busy with consecutive frames of one stream.                       *)
(*                                                                         *)
(* A caller reserves a core, starts it, leaves a job with the core wait    *)
(* thread and either goes on with the next frame or waits for the oldest   *)
(* one.  One thread of the process waits for all cores of all instances,   *)
(* gives a core back when its frame is done and moves the job from jobs to *)
(* out, where the caller looks for it by its id.                           *)
(*                                                                         *)
(* Each instance has one caller.  The kernel is the environment: it numbers *)
(* the jobs, lends the cores and tells once what a core has reported.      *)
(***************************************************************************)
EXTENDS Integers, Sequences, FiniteSets, SequencesExt

CONSTANTS Inst,             \* the instances the process ever has
          Core,             \* the cores of the encoder
          ParallelCoreNum,  \* by instance: frames it keeps in flight
          Sliced,           \* the instances told of finished slices
          SliceMax,         \* bound: slices of a frame that wait to be taken
          Slicing,          \* bound: the jobs whose slices are told of
          JobMax,           \* bound: jobs the kernel numbers
          Failing,          \* bound: the jobs whose frame may fail
          Faults            \* what may go wrong

\* slow: a core works for longer than the 20 rounds of EWLWaitHwRdy; early: a core is done
\* before its job is left with the wait thread; ioctl: the kernel refuses to wait.
FaultKinds == {"slow", "early", "ioctl"}

ASSUME BoundsAssumption == /\ JobMax \in Nat \ {0} /\ SliceMax \in Nat
                           /\ IsFiniteSet(Inst) /\ IsFiniteSet(Core)
                           /\ ParallelCoreNum \in [Inst -> Nat \ {0}]
ASSUME FaultsAssumption ==
    Sliced \subseteq Inst /\ Faults \subseteq FaultKinds /\ Failing \subseteq 1 .. JobMax

NoCore == -1                        \* core_id of a register set that is not in use
ASSUME CoresAssumption == NoCore \notin Core

JobId == 1 .. JobMax
NoJob == 0                          \* waitJobid before the first job, and a free core
Final == {"ready", "failed", "error"}
Job == [id : JobId, core : Core, inst : Inst]
Quiet == [id \in JobId |-> "none"]  \* no core has anything to tell

VARIABLES
    \* coreWait
    referCounter, bFlush,
    jobs,       \* the jobs the thread waits for; their order is never made use of
    out,        \* by job: its reports not yet taken, oldest first
    \* vc8000_cwl_t
    workers,    \* by instance: its cores, from workers.tail to workers.head
    reg,        \* by instance: reg.core_id, the core last lent or none
    \* EWLCoreWaitThread
    at,         \* where it is
    todo,       \* the jobs its walk has not come to
    job,        \* the job it is at, or none
    waitOut,    \* what the kernel told it, by job
    waitError, hasOutput,
    \* struct vcenc_instance, by instance
    pc,         \* where its caller is
    call,       \* what it does there
    cur,        \* waitCoreJobid: the job of the frame being submitted
    waitJobid,  \* the ring of jobs in flight
    jobCnt,     \* modulo the size of the ring
    reservedCore,
    \* the kernel
    owner,      \* by core: the job it was reserved for
    running,    \* the cores at work
    pending,    \* by job: what its core reports and nobody was told
    nextJob,
    \* history
    flight,     \* by instance: the jobs left with the thread and not answered
    verdict,    \* by job: how its frame ended
    cutShort,   \* VCEncClear took the report of a slice for the last one of its frame
    gone        \* the process has used a NULL pointer, or an instance that was freed

ewl == <<referCounter, bFlush, jobs, out>>
told == <<waitOut, waitError, hasOutput>>
thread == <<at, todo, job, told>>
ring == <<waitJobid, jobCnt, reservedCore>>
caller == <<pc, call, cur, ring>>
kernel == <<owner, running, pending, nextJob>>
cwl == <<workers, reg>>
outcome == <<cutShort, gone>>
history == <<flight, verdict, outcome>>
vars == <<ewl, cwl, thread, caller, kernel, history>>

FIRST_CORE_Newest(i) == Last(workers[i])
FIRST_CORE(i) == Head(workers[i])
LAST_CORE(i) == Last(workers[i])
NextIndex_Same(i) == jobCnt[i]
NextIndex(i) == (jobCnt[i] + 1) % ParallelCoreNum[i]
Awaited(i) == waitJobid[i][NextIndex(i)]
NoOne == [id |-> NoJob]

Init ==
    /\ referCounter = 0 /\ bFlush = FALSE /\ jobs = {} /\ out = [id \in JobId |-> <<>>]
    /\ workers = [i \in Inst |-> <<>>] /\ reg = [i \in Inst |-> NoCore]
    /\ at = "none" /\ todo = {} /\ job = NoOne /\ waitOut = Quiet
    /\ waitError = FALSE /\ hasOutput = FALSE
    /\ pc = [i \in Inst |-> "none"] /\ call = [i \in Inst |-> "none"]
    /\ cur = [i \in Inst |-> NoJob] /\ jobCnt = [i \in Inst |-> 0]
    /\ waitJobid = [i \in Inst |-> [k \in 0 .. ParallelCoreNum[i] - 1 |-> NoJob]]
    /\ reservedCore = [i \in Inst |-> 0]
    /\ owner = [c \in Core |-> NoJob] /\ running = {} /\ pending = Quiet /\ nextJob = 1
    /\ flight = [i \in Inst |-> {}] /\ verdict = Quiet /\ cutShort = FALSE /\ gone = FALSE

-------------------------------------------------------------------------------
\* Opening and closing.

\* The first instance starts the thread. Nobody opens one after the last was released: bFlush
\* stays what the release made it, and no call would get an answer.
EWLInit(i) ==
    /\ pc[i] = "none"
    /\ ~bFlush
    /\ referCounter > 0 \/ at = "none"
    /\ referCounter' = referCounter + 1
    /\ pc' = [pc EXCEPT ![i] = "idle"]
    /\ IF referCounter = 0
       THEN /\ jobs' = {} /\ out' = [id \in JobId |-> <<>>]
            /\ at' = "dequeue" /\ waitError' = FALSE
       ELSE UNCHANGED <<jobs, out, at, waitError>>
    /\ UNCHANGED <<bFlush, cwl, todo, job, waitOut, hasOutput, call, cur, ring, kernel, history>>

\* job_mutex is held from the thread's lock to the end of its walk.
JobMutexFree == at \notin {"visit", "finish", "give", "move"}
Signalled == IF at = "asleep" THEN "dequeue" ELSE at

\* VCEncShutdown: the instance is gone, and with the last one the thread has to end.
EWLRelease(i) ==
    /\ pc[i] = "cleared"
    /\ referCounter = 1 => JobMutexFree
    /\ referCounter' = referCounter - 1
    /\ IF referCounter = 1 THEN bFlush' = TRUE /\ at' = Signalled ELSE UNCHANGED <<bFlush, at>>
    /\ pc' = [pc EXCEPT ![i] = "released"]
    /\ workers' = [workers EXCEPT ![i] = <<>>]
    /\ waitJobid' = [waitJobid EXCEPT ![i] = [k \in DOMAIN @ |-> NoJob]]
    /\ jobCnt' = [jobCnt EXCEPT ![i] = 0] /\ reservedCore' = [reservedCore EXCEPT ![i] = 0]
    /\ cur' = [cur EXCEPT ![i] = NoJob] /\ flight' = [flight EXCEPT ![i] = {}]
    /\ UNCHANGED <<jobs, out, reg, todo, job, told, call, kernel, verdict, outcome>>

\* The last one joins the thread and empties the queues.
EwlReleaseCoreWait(i) ==
    /\ pc[i] = "released"
    /\ pc' = [pc EXCEPT ![i] = "closed"]
    /\ \/ /\ referCounter = 0 /\ at = "ended"
          /\ at' = "none" /\ jobs' = {} /\ out' = [id \in JobId |-> <<>>]
       \/ (referCounter > 0 \/ at = "none") /\ UNCHANGED <<at, jobs, out>>
    /\ UNCHANGED <<referCounter, bFlush, cwl, todo, job, told, call, cur,
                   ring, kernel, history>>

-------------------------------------------------------------------------------
\* A frame: VCEncStrmEncodeExt up to VCEncStrmWaitReady.

Encode(i) ==
    /\ pc[i] = "idle"
    /\ nextJob + Cardinality({k \in Inst : pc[k] = "reserving"}) <= JobMax
    /\ pc' = [pc EXCEPT ![i] = "reserving"]
    /\ UNCHANGED <<ewl, cwl, thread, call, cur, ring, kernel, history>>

\* The kernel lets it wait for a core and numbers the job. Which of the free cores it lends
\* does not matter: they are alike. The core is noted in the registers of the instance.
EWLReserveHw(i) ==
    /\ pc[i] = "reserving" /\ nextJob <= JobMax
    /\ \E c \in Core : owner[c] = NoJob
    /\ LET core == CHOOSE c \in Core : owner[c] = NoJob
       IN /\ owner' = [owner EXCEPT ![core] = nextJob]
          /\ reg' = [reg EXCEPT ![i] = core]
    /\ cur' = [cur EXCEPT ![i] = nextJob]
    /\ nextJob' = nextJob + 1
    /\ pc' = [pc EXCEPT ![i] = "lent"]
    /\ UNCHANGED <<ewl, workers, thread, call, ring, running, pending, history>>

\* Then it is looked for by that note, without which a NULL pointer joins the workers.
FindWorker(i) ==
    /\ pc[i] = "lent"
    /\ IF reg[i] # NoCore
       THEN /\ workers' = [workers EXCEPT ![i] = Append(@, reg[i])]
            /\ pc' = [pc EXCEPT ![i] = "reserved"] /\ UNCHANGED gone
       ELSE gone' = TRUE /\ UNCHANGED <<workers, pc>>
    /\ UNCHANGED <<ewl, reg, thread, call, cur, ring, kernel, flight, verdict, cutShort>>

\* The registers are written to, and the encoder is enabled on, the last core.
EncAsicFrameStart(i) ==
    /\ pc[i] = "reserved"
    /\ running' = running \cup {LAST_CORE(i)}
    /\ pc' = [pc EXCEPT ![i] = "started"]
    /\ UNCHANGED <<ewl, cwl, thread, call, cur, ring, owner, pending, nextJob, history>>

AllBusy(i) == reservedCore[i] + 1 = ParallelCoreNum[i]

\* The caller takes the frame into its ring. With all its cores busy it waits for the
\* frame the next index names, else it returns VCENC_FRAME_ENQUEUE.
KeepInFlight(i) ==
    /\ waitJobid' = [waitJobid EXCEPT ![i][jobCnt[i]] = cur[i]]
    /\ reservedCore' = [reservedCore EXCEPT ![i] = @ + 1]
    /\ flight' = [flight EXCEPT ![i] = @ \cup {cur[i]}]
    /\ IF AllBusy(i)
       THEN /\ pc' = [pc EXCEPT ![i] = "search"] /\ call' = [call EXCEPT ![i] = "encode"]
            /\ UNCHANGED jobCnt
       ELSE /\ pc' = [pc EXCEPT ![i] = "idle"] /\ jobCnt' = [jobCnt EXCEPT ![i] = NextIndex(i)]
            /\ UNCHANGED call

EWLEnqueueWaitjob(i) ==
    /\ pc[i] = "started" /\ JobMutexFree
    /\ jobs' = jobs \cup {[id |-> cur[i], core |-> LAST_CORE(i), inst |-> i]}
    /\ at' = Signalled
    /\ KeepInFlight(i)
    /\ cur' = [cur EXCEPT ![i] = NoJob]
    /\ UNCHANGED <<referCounter, bFlush, out, cwl, todo, job, told,
                   kernel, verdict, outcome>>

\* VCEncMultiCoreFlush: the caller asks for a frame in flight without giving a new one.
VCEncMultiCoreFlush(i) ==
    /\ pc[i] = "idle" /\ reservedCore[i] > 0
    /\ pc' = [pc EXCEPT ![i] = "search"] /\ call' = [call EXCEPT ![i] = "flush"]
    /\ UNCHANGED <<ewl, cwl, thread, cur, ring, kernel, history>>

NothingInFlight_Assumed(i) == TRUE
NothingInFlight(i) == reservedCore[i] = 0

\* VCEncStop and VCEncRelease, which wait for what is in flight in VCEncClear.
VCEncClear(i) ==
    /\ pc[i] = "idle"
    /\ IF NothingInFlight(i) THEN pc' = [pc EXCEPT ![i] = "cleared"] /\ UNCHANGED call
       ELSE pc' = [pc EXCEPT ![i] = "search"] /\ call' = [call EXCEPT ![i] = "clear"]
    /\ UNCHANGED <<ewl, cwl, thread, cur, ring, kernel, history>>

-------------------------------------------------------------------------------
\* Waiting for an answer: EWLDequeueCoreOutJob and what follows it.

Return(i, where) ==
    /\ pc' = [pc EXCEPT ![i] = where]
    /\ call' = [call EXCEPT ![i] = "none"]

\* The frame leaves the ring; its index moves on unless a flush met a failure.
LeaveFlight(i, moves) ==
    /\ reservedCore' = [reservedCore EXCEPT ![i] = @ - 1]
    /\ jobCnt' = IF moves THEN [jobCnt EXCEPT ![i] = NextIndex(i)] ELSE jobCnt
    /\ flight' = [flight EXCEPT ![i] = @ \ {Awaited(i)}]
    /\ verdict' = [verdict EXCEPT ![Awaited(i)] = "none"]
    /\ IF call[i] # "clear" THEN Return(i, "idle")
       ELSE IF reservedCore[i] = 1 THEN Return(i, "cleared")
       ELSE UNCHANGED <<pc, call>>

\* VCEncStrmWaitReady goes on after a slice; VCEncClear takes any report for the last one.
TakeReport(i) ==
    /\ pc[i] = "search" /\ ~bFlush
    /\ Awaited(i) \in JobId /\ out[Awaited(i)] # <<>>
    /\ LET status == Head(out[Awaited(i)])
       IN /\ out' = [out EXCEPT ![Awaited(i)] = Tail(@)]
          /\ IF status \in Final \/ call[i] = "clear"
             THEN LeaveFlight(i, call[i] = "flush" => status = "ready")
             ELSE UNCHANGED <<reservedCore, jobCnt, pc, call, flight, verdict>>
          /\ cutShort' = (cutShort \/ (status \notin Final /\ call[i] = "clear"))
    /\ UNCHANGED <<referCounter, bFlush, jobs, cwl, thread, cur, waitJobid, kernel, gone>>

\* Not there: asleep on out_cond.
WaitForOutput(i) ==
    /\ pc[i] = "search" /\ ~bFlush
    /\ Awaited(i) \in JobId => out[Awaited(i)] = <<>>
    /\ pc' = [pc EXCEPT ![i] = "asleep"]
    /\ UNCHANGED <<ewl, cwl, thread, call, cur, ring, kernel, history>>

-------------------------------------------------------------------------------
\* EWLCoreWaitThread.

\* EWLDequeueCoreWaitJob with nothing to wait for.
NoJobs ==
    /\ at = "dequeue" /\ jobs = {}
    /\ at' = IF bFlush THEN "ended" ELSE "asleep"
    /\ UNCHANGED <<ewl, cwl, todo, job, told, caller, kernel, history>>

\* With a job, which it leaves in the queue, EWLWaitHwRdy without job_mutex: the kernel
\* tells what any core has reported.
CoresReport ==
    /\ at = "dequeue" /\ jobs # {} /\ ~waitError
    /\ pending # Quiet
    /\ waitOut' = pending /\ pending' = Quiet
    /\ at' = "lock"
    /\ UNCHANGED <<ewl, cwl, todo, job, waitError, hasOutput, caller,
                   owner, running, nextJob, history>>

\* Nothing for as many rounds as it has patience for, or an error.
WaitFails ==
    /\ at = "dequeue" /\ jobs # {} /\ ~waitError
    /\ \/ pending = Quiet /\ (running = {} \/ "slow" \in Faults)
       \/ "ioctl" \in Faults
    /\ waitError' = TRUE
    /\ at' = "lock"
    /\ UNCHANGED <<ewl, cwl, todo, job, waitOut, hasOutput, caller, kernel, history>>

\* After a wait that failed it never waits again.
LockJobs ==
    /\ \/ at = "lock"
       \/ at = "dequeue" /\ jobs # {} /\ waitError
    /\ todo' = jobs /\ at' = "visit"
    /\ UNCHANGED <<ewl, cwl, job, told, caller, kernel, history>>

\* The workers with the core first; those that came before it move up.
ToTail_InPlace(i, core) == workers[i]
ToTail(i, core) ==
    LET w == workers[i]
        place == CHOOSE n \in DOMAIN w : w[n] = core
    IN [n \in DOMAIN w |-> IF n = 1 THEN core ELSE IF n <= place THEN w[n - 1] ELSE w[n]]

NothingToldOf_Even(j) == waitOut[j.id] = "none"
NothingToldOf(j) == waitOut[j.id] = "none" /\ ~waitError

Freed(i) == pc[i] \in {"released", "closed"}

\* EWLGetCoreOutRel first moves the core of the job to the tail of the workers.
Visit ==
    /\ at = "visit"
    /\ \E j \in todo :
        /\ todo' = todo \ {j}
        /\ IF NothingToldOf(j)
           THEN UNCHANGED <<workers, at, job>>
           ELSE /\ ~Freed(j.inst)
                /\ workers' = [workers EXCEPT ![j.inst] = ToTail(j.inst, j.core)]
                /\ job' = j /\ at' = "finish"
    /\ UNCHANGED <<ewl, reg, told, caller, kernel, history>>

\* A slice: a copy of the job goes out, the job stays.
PassSlice ==
    /\ at = "finish" /\ waitOut[job.id] = "slice" /\ ~Freed(job.inst)
    /\ out' = [out EXCEPT ![job.id] = Append(@, "slice")]
    /\ hasOutput' = TRUE /\ job' = NoOne /\ at' = "visit"
    /\ UNCHANGED <<referCounter, bFlush, jobs, cwl, todo, waitOut, waitError,
                   caller, kernel, history>>

\* The frame is over: EWLReleaseHw resets the first core, clears the note in the registers
\* and takes it from the workers. Nothing a caller does between these comes out otherwise.
FinishJob ==
    /\ at = "finish" /\ waitOut[job.id] # "slice" /\ ~Freed(job.inst)
    /\ running' = running \ {FIRST_CORE(job.inst)}
    /\ reg' = [reg EXCEPT ![job.inst] = NoCore]
    /\ workers' = [workers EXCEPT ![job.inst] = Tail(@)]
    /\ job' = [job EXCEPT !.core = FIRST_CORE(job.inst)]
    /\ at' = "give"
    /\ UNCHANGED <<ewl, todo, told, caller, owner, pending, nextJob, history>>

ReturnCore_IfReady == owner' = [owner EXCEPT ![job.core] =
                                   IF waitOut[job.id] = "ready" THEN NoJob ELSE @]
ReturnCore == owner' = [owner EXCEPT ![job.core] = NoJob]

\* The kernel has the core again, and may lend it at once.
GiveCoreBack ==
    /\ at = "give" /\ ~Freed(job.inst)
    /\ ReturnCore
    /\ pending' = [pending EXCEPT ![job.id] = "none"]
    /\ at' = "move"
    /\ UNCHANGED <<ewl, cwl, todo, job, told, caller, running, nextJob, history>>

Answer_Ready == "ready"
Answer == IF waitError THEN "error" ELSE waitOut[job.id]

\* The job goes from jobs to out.
MoveJob ==
    /\ at = "move"
    /\ jobs' = {j \in jobs : j.id # job.id}
    /\ out' = [out EXCEPT ![job.id] = Append(@, Answer)]
    /\ hasOutput' = TRUE /\ job' = NoOne /\ at' = "visit"
    /\ UNCHANGED <<referCounter, bFlush, cwl, todo, waitOut, waitError, caller, kernel, history>>

\* A job keeps a pointer to its instance: the wait takes its file from the first job, and
\* the walk the registers from each it has news of.
UseFreed ==
    /\ \/ at = "dequeue" /\ \E j \in jobs : Freed(j.inst)
       \/ at = "visit" /\ \E j \in todo : Freed(j.inst) /\ ~NothingToldOf(j)
       \/ at \in {"finish", "give"} /\ Freed(job.inst)
    /\ gone' = TRUE
    /\ UNCHANGED <<ewl, cwl, thread, caller, kernel, flight, verdict, cutShort>>

\* The walk is over: unlock, and wake whoever waits for output.
Broadcast ==
    /\ at = "visit" /\ todo = {}
    /\ pc' = [i \in Inst |-> IF hasOutput /\ pc[i] = "asleep" THEN "search" ELSE pc[i]]
    /\ hasOutput' = FALSE /\ waitOut' = Quiet /\ at' = "dequeue"
    /\ UNCHANGED <<ewl, cwl, todo, job, waitError, call, cur, ring, kernel, history>>

WaitThread == \/ NoJobs \/ CoresReport \/ WaitFails \/ LockJobs
              \/ Visit \/ PassSlice \/ FinishJob \/ GiveCoreBack \/ MoveJob \/ Broadcast
              \/ UseFreed

-------------------------------------------------------------------------------
\* The cores.

\* Without the fault early a core reports nothing before its job is left with the thread.
MayReport(c) ==
    /\ c \in running
    /\ \/ "early" \in Faults
       \/ \A i \in Inst : pc[i] = "started" => cur[i] # owner[c]

SliceReady(c) ==
    /\ MayReport(c) /\ owner[c] \in Slicing /\ \E i \in Sliced : Contains(workers[i], c)
    /\ Len(out[owner[c]]) < SliceMax /\ pending[owner[c]] = "none"
    /\ pending' = [pending EXCEPT ![owner[c]] = "slice"]
    /\ UNCHANGED <<ewl, cwl, thread, caller, owner, running, nextJob, history>>

\* The end of the frame outranks a slice the kernel still has to tell of.
FrameDone(c) ==
    /\ MayReport(c)
    /\ \E status \in {"ready"} \cup IF owner[c] \in Failing THEN {"failed"} ELSE {} :
        /\ pending' = [pending EXCEPT ![owner[c]] = status]
        /\ verdict' = [verdict EXCEPT ![owner[c]] = status]
    /\ running' = running \ {c}
    /\ UNCHANGED <<ewl, cwl, thread, caller, owner, nextJob, flight, outcome>>

-------------------------------------------------------------------------------
CallStep(i) == \/ EWLReserveHw(i) \/ FindWorker(i) \/ EncAsicFrameStart(i) \/ EWLEnqueueWaitjob(i)
               \/ TakeReport(i) \/ WaitForOutput(i)
               \/ EWLRelease(i) \/ EwlReleaseCoreWait(i)
NewCall(i) == EWLInit(i) \/ Encode(i) \/ VCEncMultiCoreFlush(i) \/ VCEncClear(i)

Step == \/ \E i \in Inst : CallStep(i) \/ NewCall(i)
        \/ WaitThread
        \/ \E c \in Core : SliceReady(c) \/ FrameDone(c)

\* Nobody opens an instance any more, or there is no process.
Terminating == /\ \/ (\A i \in Inst : pc[i] \in {"none", "closed"}) /\ at = "none" /\ bFlush
                  \/ gone
               /\ UNCHANGED vars

Next == (~gone /\ Step) \/ Terminating

Spec == Init /\ [][Next]_vars

\* The threads run and every core finishes its frame; nothing makes the caller call.
FairSpec == /\ Spec /\ WF_vars(~gone /\ WaitThread)
            /\ \A i \in Inst : WF_vars(~gone /\ CallStep(i))
            /\ \A c \in Core : WF_vars(~gone /\ FrameDone(c))

-------------------------------------------------------------------------------
Status == {"none", "slice", "ready", "failed"}

\* Every variable holds what its declaration says.
TypeInv ==
    /\ referCounter \in Nat /\ bFlush \in BOOLEAN
    /\ jobs \subseteq Job /\ todo \subseteq jobs
    /\ out \in [JobId -> Seq(Final \cup {"slice"})]
    /\ workers \in [Inst -> Seq(Core)] /\ reg \in [Inst -> Core \cup {NoCore}]
    /\ at \in {"none", "dequeue", "asleep", "lock", "visit", "finish", "give", "move", "ended"}
    /\ job \in Job \cup {NoOne} /\ (at \in {"finish", "give", "move"} <=> job # NoOne)
    /\ waitOut \in [JobId -> Status] /\ waitError \in BOOLEAN /\ hasOutput \in BOOLEAN
    /\ pc \in [Inst -> {"none", "idle", "reserving", "lent", "reserved", "started", "search",
                        "asleep", "cleared", "released", "closed"}]
    /\ call \in [Inst -> {"none", "encode", "flush", "clear"}]
    /\ cur \in [Inst -> JobId \cup {NoJob}]
    /\ DOMAIN waitJobid = Inst
    /\ jobCnt \in [Inst -> Nat] /\ reservedCore \in [Inst -> Nat]
    /\ \A i \in Inst : /\ waitJobid[i] \in [0 .. ParallelCoreNum[i] - 1 -> JobId \cup {NoJob}]
                       /\ jobCnt[i] < ParallelCoreNum[i]
                       /\ reservedCore[i] <= ParallelCoreNum[i]
    /\ flight \in [Inst -> SUBSET JobId]
    /\ owner \in [Core -> JobId \cup {NoJob}] /\ running \subseteq Core
    /\ pending \in [JobId -> Status] /\ nextJob \in 1 .. JobMax + 1
    /\ verdict \in [JobId -> Status] /\ cutShort \in BOOLEAN /\ gone \in BOOLEAN

\* Registers are found through the ends of a list that two threads change: the frame being
\* submitted is always at its head, and the job the wait thread is at is at its tail, so
\* that no core is started, read or reset for the frame of another one.
OwnCore ==
    \/ cutShort
    \/ /\ \A i \in Inst : pc[i] \in {"reserved", "started"} =>
             workers[i] # <<>> /\ owner[LAST_CORE(i)] = cur[i]
       /\ at = "finish" =>
             workers[job.inst] # <<>> /\ FIRST_CORE(job.inst) = job.core /\ owner[job.core] = job.id

\* A core the kernel has lent is a worker of one instance, once, or on its way there or back;
\* a core it has not lent is nobody's. Otherwise cores run dry. And what EWLReserveHw notes of
\* a core is still there when it looks for it, for an instance that keeps one frame in
\* flight; with several, the thread's EWLReleaseHw may clear it in between (ewl.c:2844, 2904).
OnItsWayOut(c) == \E i \in Inst : pc[i] = "lent" /\ owner[c] = cur[i]
OnItsWayBack(c) == at = "give" /\ job.core = c
CoresAccounted ==
    \/ cutShort
    \/ /\ \A i, k \in Inst : \A m \in DOMAIN workers[i], n \in DOMAIN workers[k] :
             workers[i][m] = workers[k][n] => i = k /\ m = n
       /\ \A c \in Core :
             LET used == \E i \in Inst : \E n \in DOMAIN workers[i] : workers[i][n] = c
             IN /\ owner[c] # NoJob <=> used \/ OnItsWayBack(c) \/ OnItsWayOut(c)
                /\ ~(used /\ OnItsWayBack(c))
                /\ ~(used /\ OnItsWayOut(c))
                /\ ~(OnItsWayBack(c) /\ OnItsWayOut(c))
       /\ \A i \in Inst : pc[i] = "lent" =>
             \/ reg[i] \in Core /\ owner[reg[i]] = cur[i]
             \/ reg[i] = NoCore /\ ParallelCoreNum[i] > 1

\* No core is reset at work: unless the wait itself has failed, a core that stops working has
\* told how its frame ended.
NoFrameIsKilled ==
    [][\A c \in running \ running' : verdict'[owner[c]] # "none" \/ waitError \/ cutShort]_vars

\* A frame that was left with the thread is waited for, or its final report waits to be
\* taken, and not both; nothing is kept for a frame that nobody will ask for, above all
\* not for an instance that was freed, whose registers the thread would use. Only an
\* instance with several frames and slices may be freed too early (hevcencapi_utils.c:107).
FramesAccounted ==
    LET waiting == {j.id : j \in jobs}
        done == {id \in JobId : out[id] # <<>> /\ Last(out[id]) \in Final}
        inFlight == UNION {flight[i] : i \in Inst}
    IN \/ cutShort /\ \E i \in Sliced : ParallelCoreNum[i] > 1
       \/ /\ ~cutShort
          /\ waiting \cap done = {} /\ waiting \cup done = inFlight
          /\ \A id \in JobId : out[id] # <<>> => id \in inFlight
          /\ \A j \in jobs : j.id \in flight[j.inst]

\* A caller that waits waits for its oldest frame in flight: streams come out in order, and
\* nobody waits for a job that does not exist or was answered already. The index of the ring
\* does that for two frames in flight; with more, a flush may find an empty entry
\* (hevcencapi.c:8413).
AwaitedIsOldest ==
    \A i \in Inst : ParallelCoreNum[i] <= 2 /\ pc[i] \in {"search", "asleep"} =>
        /\ Awaited(i) \in flight[i]
        /\ \A id \in flight[i] : Awaited(i) <= id

\* The final report of a frame comes last and is what its own core reported. Only after a
\* failed wait of the thread it is an error.
TrueAnswers ==
    \/ cutShort
    \/ \A id \in JobId : \A k \in DOMAIN out[id] :
          out[id][k] \in Final => /\ k = Len(out[id])
                                 /\ \/ out[id][k] = verdict[id]
                                    \/ out[id][k] = "error" /\ waitError

\* A call that needs a core or an answer gets it, and a release comes to its end, as long as
\* there is a process: it dies of a core that is not found (ewl.c:2861) or of an instance
\* that was freed too early.
AtRest == {"none", "idle", "closed"}
CallsReturn ==
    \A i \in Inst : pc[i] \notin AtRest ~> pc[i] \in AtRest \/ gone
===============================================================================
