------------------------------ MODULE VdiSession -------------------------------
(***************************************************************************)
(* The opening and closing of the VPU device by multiEnc/vpuapi/vdi.c, and *)
(* the lock under which every call of the VPU API runs.                    *)
(*                                                                         *)
(* Each process keeps one vdi_info_t, counts its tasks in it and shares it *)
(* among its threads: vdi_init runs under vid_mutex, which belongs to the  *)
(* process, vdi_release counts down under vpu_mutex, which all processes   *)
(* share, and tears down under vid_mutex again.                            *)
(***************************************************************************)
EXTENDS Integers, FiniteSets

CONSTANTS Thread, Process,
          ProcessOf,    \* the process of each thread
          Nobody,       \* the holder of a free mutex
          CallMax,      \* bound: times a thread opens or uses the device
          Faults        \* what may go wrong, and what callers may do

\* open, pool, setup, common: a system call of vdi_init fails.  overlap: a thread may open the
\* device while another one of its process closes it.  fresh: no process has used the
\* instance pool yet.  crash: a process may die.
FaultKinds == {"open", "pool", "setup", "common", "overlap", "fresh", "crash"}

ASSUME ThreadsAssumption == /\ IsFiniteSet(Thread)
                            /\ ProcessOf \in [Thread -> Process]
                            /\ Nobody \notin Thread
ASSUME BoundAssumption == CallMax \in Nat
ASSUME FaultsAssumption == Faults \subseteq FaultKinds

VARIABLES
    \* vdi_info_t of each process
    flag,       \* vdi_init_flag: null, busy (INIT, OPENING, ALLOC) or done
    opened,     \* vpu_fd # -1
    tasks,      \* task_num
    mapped,     \* vdb_register and vpu_common_memory are there
    vidMutex,   \* the thread that holds vid_mutex
    \* shared by all processes
    vpuMutex,   \* the thread that holds vpu_mutex
    poolInited, \* instance_pool_inited
    \* the threads
    pc,
    saw,        \* the task_num a thread has read and is about to write back
    session,    \* the thread has opened the device and not closed it
    calls,      \* how often it opened or used it
    \* the kernel
    files,      \* open files of the device by process
    \* history
    amiss       \* what has happened that this code does not cope with

\* overlap: a thread was inside vdi_init while another one of its process was inside
\* vdi_release.  remade: a process made the mutexes another one had made already.  unheld: a
\* vdi_init that failed freed vpu_mutex, which another thread held.
Mishaps == {"overlap", "remade", "unheld"}

procVars == <<flag, opened, tasks, mapped, vidMutex>>
sharedVars == <<vpuMutex, poolInited>>
threadVars == <<pc, saw, session, calls>>
vars == <<procVars, sharedVars, threadVars, files, amiss>>

Init == /\ flag = [p \in Process |-> "null"]
        /\ opened = [p \in Process |-> FALSE]
        /\ tasks = [p \in Process |-> 0]
        /\ mapped = [p \in Process |-> FALSE]
        /\ vidMutex = [p \in Process |-> Nobody]
        /\ vpuMutex = Nobody
        /\ poolInited = ("fresh" \notin Faults)
        /\ pc = [t \in Thread |-> "idle"]
        /\ saw = [t \in Thread |-> 0]
        /\ session = [t \in Thread |-> FALSE]
        /\ calls = [t \in Thread |-> 0]
        /\ files = [p \in Process |-> 0]
        /\ amiss = {}
-----------------------------------------------------------------------------
Goto(t, label) == pc' = [pc EXCEPT ![t] = label]
CountCall(t) == calls[t] < CallMax /\ calls' = [calls EXCEPT ![t] = @ + 1]
Fellows(t) == {u \in Thread : ProcessOf[u] = ProcessOf[t]}
Opening == {"init", "already", "open", "setup", "pool", "lock", "common"}
Closing == {"release", "count", "uncount", "close"}
AnyFellow(t, labels) == \E u \in Fellows(t) \ {t} : pc[u] \in labels
Note(mishap, happens) == amiss' = IF happens THEN amiss \cup {mishap} ELSE amiss

\* What every function of vdi.c looks at first.
Usable(p) == opened[p] /\ flag[p] # "null"

LockVid(t) == /\ vidMutex[ProcessOf[t]] = Nobody
              /\ vidMutex' = [vidMutex EXCEPT ![ProcessOf[t]] = t]
UnlockVid(t) == vidMutex' = [vidMutex EXCEPT ![ProcessOf[t]] = Nobody]

\* vdi_lock, on a device that is usable
LockVpu_Tried(t) == vpuMutex' = t
LockVpu(t) == vpuMutex = Nobody /\ vpuMutex' = t
\* vdi_unlock frees the mutex whoever holds it, but does nothing on a closed device.
UnlockVpu(t) == vpuMutex' = IF Usable(ProcessOf[t]) THEN Nobody ELSE vpuMutex
-----------------------------------------------------------------------------
(* vdi_init *)

InitCall(t) ==
    /\ pc[t] = "idle" /\ ~session[t]
    /\ CountCall(t)
    /\ "overlap" \in Faults \/ ~AnyFellow(t, Closing)
    /\ Note("overlap", AnyFellow(t, Closing))
    /\ Goto(t, "init")
    /\ UNCHANGED <<procVars, sharedVars, saw, session, files>>

\* task_num++ in two halves: vdi_release may count down in between.
Read(t) == saw' = [saw EXCEPT ![t] = tasks[ProcessOf[t]]]

InitEnter(t) ==
    LET p == ProcessOf[t] IN
    /\ pc[t] = "init"
    /\ LockVid(t)
    /\ IF opened[p] /\ flag[p] = "done"
       THEN Read(t) /\ Goto(t, "already") /\ UNCHANGED <<flag, tasks, mapped>>
       ELSE /\ flag' = [flag EXCEPT ![p] = "busy"]
            /\ IF flag[p] = "null"
               THEN tasks' = [tasks EXCEPT ![p] = 0] /\ mapped' = [mapped EXCEPT ![p] = FALSE]
               ELSE UNCHANGED <<tasks, mapped>>
            /\ Goto(t, "open") /\ UNCHANGED saw
    /\ UNCHANGED <<opened, sharedVars, session, calls, files, amiss>>

OpenSession(t) == /\ session' = [session EXCEPT ![t] = TRUE]

CountTask_Forgotten(t) == UNCHANGED tasks
CountTask(t) == tasks' = [tasks EXCEPT ![ProcessOf[t]] = saw[t] + 1]

InitAlready(t) ==
    /\ pc[t] = "already"
    /\ CountTask(t)
    /\ OpenSession(t)
    /\ UnlockVid(t) /\ Goto(t, "idle")
    /\ UNCHANGED <<flag, opened, mapped, sharedVars, saw, calls, files, amiss>>

\* The retries are over.
InitOpenFails(t) ==
    LET p == ProcessOf[t] IN
    /\ pc[t] = "open" /\ "open" \in Faults
    /\ opened' = [opened EXCEPT ![p] = FALSE]
    /\ flag' = [flag EXCEPT ![p] = "done"]
    /\ UnlockVid(t) /\ Goto(t, "idle")
    /\ UNCHANGED <<tasks, mapped, sharedVars, saw, session, calls, files, amiss>>

InitOpen(t) ==
    LET p == ProcessOf[t] IN
    /\ pc[t] = "open"
    /\ opened' = [opened EXCEPT ![p] = TRUE]
    /\ files' = [files EXCEPT ![p] = @ + 1]
    /\ Goto(t, "setup")
    /\ UNCHANGED <<flag, tasks, mapped, vidMutex, sharedVars, saw, session, calls, amiss>>

PoolIsNew == ~poolInited

\* The pool is mapped, and if no process did so before its mutexes are made.
InitSetup(t) ==
    /\ pc[t] = "setup"
    /\ Goto(t, IF PoolIsNew THEN "pool" ELSE "lock")
    /\ UNCHANGED <<procVars, sharedVars, saw, session, calls, files, amiss>>

InitPool(t) ==
    /\ pc[t] = "pool"
    /\ Note("remade", poolInited)
    /\ vpuMutex' = Nobody /\ poolInited' = TRUE
    /\ Goto(t, "lock")
    /\ UNCHANGED <<procVars, saw, session, calls, files>>

\* The kernel closes the files of a process that dies, and its vdi_info_t is gone with it.  A
\* vpu_mutex one of its threads held stays locked: it lies in a file the driver does not
\* know, and it is not a robust one.
Die(p) ==
    LET its == {t \in Thread : ProcessOf[t] = p} IN
    /\ files' = [files EXCEPT ![p] = 0]
    /\ opened' = [opened EXCEPT ![p] = FALSE]
    /\ flag' = [flag EXCEPT ![p] = "null"]
    /\ tasks' = [tasks EXCEPT ![p] = 0]
    /\ mapped' = [mapped EXCEPT ![p] = FALSE]
    /\ vidMutex' = [vidMutex EXCEPT ![p] = Nobody]
    /\ pc' = [t \in Thread |-> IF t \in its THEN "dead" ELSE pc[t]]
    /\ session' = [t \in Thread |-> session[t] /\ t \notin its]
    /\ UNCHANGED <<sharedVars, saw, calls, amiss>>

\* Without the pool there is no vpu_mutex: ERR_VDI_INIT hands a null pointer to
\* pthread_mutex_unlock, and the process is gone.
InitNoPool(t) == pc[t] = "setup" /\ "pool" \in Faults /\ Die(ProcessOf[t])

InitLock(t) ==
    /\ pc[t] = "lock"
    /\ LockVpu(t)
    /\ Goto(t, "common")
    /\ UNCHANGED <<procVars, poolInited, saw, session, calls, files, amiss>>

InitCommon(t) ==
    LET p == ProcessOf[t] IN
    /\ pc[t] = "common"
    /\ mapped' = [mapped EXCEPT ![p] = TRUE]
    /\ tasks' = [tasks EXCEPT ![p] = @ + 1]
    /\ flag' = [flag EXCEPT ![p] = "done"]
    /\ UnlockVpu(t) /\ UnlockVid(t)
    /\ OpenSession(t)
    /\ Goto(t, "idle")
    /\ UNCHANGED <<opened, poolInited, saw, calls, files, amiss>>

\* ERR_VDI_INIT: the device is left open for vdi_release, vpu_mutex is freed though only
\* the second of the two failures holds it.
FreesHeld(t) == pc[t] = "lock" /\ vpuMutex # Nobody
InitFails(t) ==
    LET p == ProcessOf[t] IN
    /\ \/ pc[t] = "lock" /\ "setup" \in Faults
       \/ pc[t] = "common" /\ "common" \in Faults
    /\ amiss' = amiss \cup (IF AnyFellow(t, Opening) THEN {"overlap"} ELSE {})
                      \cup (IF FreesHeld(t) THEN {"unheld"} ELSE {})
    /\ UnlockVpu(t)
    /\ flag' = [flag EXCEPT ![p] = "done"]
    /\ UnlockVid(t)
    /\ Goto(t, "release")
    /\ UNCHANGED <<opened, tasks, mapped, poolInited, saw, session, calls, files>>
-----------------------------------------------------------------------------
(* Any call of the VPU API in between: EnterLock, whose result nobody looks at, *)
(* and LeaveLock                                                                *)

Enter(t) ==
    /\ pc[t] = "idle" /\ session[t]
    /\ CountCall(t)
    /\ Goto(t, "enter")
    /\ UNCHANGED <<procVars, sharedVars, saw, session, files, amiss>>

EnterLock(t) ==
    /\ pc[t] = "enter"
    /\ IF Usable(ProcessOf[t]) THEN LockVpu(t) /\ Goto(t, "using")
       ELSE Goto(t, "using_unlocked") /\ UNCHANGED vpuMutex
    /\ UNCHANGED <<procVars, poolInited, saw, session, calls, files, amiss>>

LeaveLock(t) ==
    /\ pc[t] \in {"using", "using_unlocked"}
    /\ UnlockVpu(t)
    /\ Goto(t, "idle")
    /\ UNCHANGED <<procVars, poolInited, saw, session, calls, files, amiss>>
-----------------------------------------------------------------------------
(* vdi_release *)

ReleaseCall(t) ==
    /\ pc[t] = "idle" /\ session[t]
    /\ "overlap" \in Faults \/ ~AnyFellow(t, Opening)
    /\ Note("overlap", AnyFellow(t, Opening))
    /\ Goto(t, "release")
    /\ UNCHANGED <<procVars, sharedVars, saw, session, calls, files>>

EndSession(t) == session' = [session EXCEPT ![t] = FALSE] /\ Goto(t, "idle")

ReleaseLock(t) ==
    /\ pc[t] = "release"
    /\ IF Usable(ProcessOf[t])
       THEN LockVpu(t) /\ Goto(t, "count") /\ UNCHANGED session
       ELSE EndSession(t) /\ UNCHANGED vpuMutex
    /\ UNCHANGED <<procVars, poolInited, saw, calls, files, amiss>>

LastTask_Early(p) == tasks[p] <= 2
LastTask(p) == tasks[p] <= 1

ReleaseOne(t) ==
    /\ pc[t] = "count" /\ ~LastTask(ProcessOf[t])
    /\ Read(t)
    /\ Goto(t, "uncount")
    /\ UNCHANGED <<procVars, sharedVars, session, calls, files, amiss>>

UncountUnlock_Forgotten(t) == UNCHANGED vpuMutex
UncountUnlock(t) == UnlockVpu(t)

ReleaseUncount(t) ==
    /\ pc[t] = "uncount"
    /\ tasks' = [tasks EXCEPT ![ProcessOf[t]] = saw[t] - 1]
    /\ UncountUnlock(t)
    /\ EndSession(t)
    /\ UNCHANGED <<flag, opened, mapped, vidMutex, poolInited, saw, calls, files, amiss>>

\* The last task unmaps the registers and gives up the common memory under vpu_mutex ...
ReleaseLast(t) ==
    LET p == ProcessOf[t] IN
    /\ pc[t] = "count" /\ LastTask(p)
    /\ mapped' = [mapped EXCEPT ![p] = FALSE]
    /\ UnlockVpu(t)
    /\ Goto(t, "close")
    /\ UNCHANGED <<flag, opened, tasks, vidMutex, poolInited, saw, session, calls, files, amiss>>

CloseFile_Kept(p) == UNCHANGED files
CloseFile(p) == files' = [files EXCEPT ![p] = IF opened[p] THEN @ - 1 ELSE @]

\* ... and closes the device under vid_mutex, leaving an empty vdi_info_t.
ReleaseClose(t) ==
    LET p == ProcessOf[t] IN
    /\ pc[t] = "close"
    /\ vidMutex[p] = Nobody
    /\ CloseFile(p)
    /\ opened' = [opened EXCEPT ![p] = FALSE]
    /\ flag' = [flag EXCEPT ![p] = "null"]
    /\ tasks' = [tasks EXCEPT ![p] = 0]
    /\ mapped' = [mapped EXCEPT ![p] = FALSE]
    /\ EndSession(t)
    /\ UNCHANGED <<vidMutex, sharedVars, saw, calls, amiss>>
-----------------------------------------------------------------------------
\* A process dies.
Crash(p) == "crash" \in Faults /\ Die(p)

Terminating == (\A t \in Thread : pc[t] \in {"idle", "dead"}) /\ UNCHANGED vars

InitStep(t) == \/ InitEnter(t) \/ InitAlready(t) \/ InitOpen(t) \/ InitOpenFails(t)
               \/ InitSetup(t) \/ InitNoPool(t) \/ InitPool(t) \/ InitLock(t) \/ InitCommon(t) \/ InitFails(t)
UseStep(t) == EnterLock(t) \/ LeaveLock(t)
ReleaseStep(t) == \/ ReleaseLock(t) \/ ReleaseOne(t) \/ ReleaseUncount(t)
                  \/ ReleaseLast(t) \/ ReleaseClose(t)
Call(t) == InitStep(t) \/ UseStep(t) \/ ReleaseStep(t)

Next == \/ \E t \in Thread : InitCall(t) \/ Enter(t) \/ ReleaseCall(t) \/ Call(t)
        \/ \E p \in Process : Crash(p)
        \/ Terminating

Spec == Init /\ [][Next]_vars

\* A thread inside a call runs.  CallMax bounds the calls, so that a mutex given free
\* again and again is in the end there for whoever waits for it.
FairSpec == Spec /\ \A t \in Thread : WF_vars(Call(t))
-----------------------------------------------------------------------------
PcLabels == Opening \cup Closing \cup {"idle", "enter", "using", "using_unlocked", "dead"}

\* Every variable keeps its type; task_num in particular never becomes negative
\* (vdi.c:194, :371, :405).
TypeInv == /\ flag \in [Process -> {"null", "busy", "done"}]
           /\ opened \in [Process -> BOOLEAN] /\ mapped \in [Process -> BOOLEAN]
           /\ tasks \in [Process -> Nat] /\ files \in [Process -> Nat]
           /\ vidMutex \in [Process -> Thread \cup {Nobody}]
           /\ vpuMutex \in Thread \cup {Nobody} /\ poolInited \in BOOLEAN
           /\ pc \in [Thread -> PcLabels] /\ saw \in [Thread -> Nat]
           /\ session \in [Thread -> BOOLEAN] /\ calls \in [Thread -> 0 .. CallMax]
           /\ amiss \subseteq Mishaps

HoldsVpu(t) == pc[t] \in {"common", "using", "count", "uncount"}

\* Nothing has happened yet that the code does not cope with.
AllWell == amiss = {}

\* vpu_mutex excludes the threads of all processes from each other, though the processes make
\* the mutex themselves and free it without being asked whether they hold it (vdi.c:224-238,
\* :292): until a second process makes it because it looked at the new pool before the first
\* had made it, a vdi_init that failed frees it for another thread, or the device is closed
\* under a thread that uses it.
MutualExclusion == AllWell => \A t, u \in Thread : HoldsVpu(t) /\ HoldsVpu(u) => t = u

\* A thread that has opened the device and not closed it can use it: neither the release nor
\* a failed opening of another thread takes it away (vdi.c:289-295, :369-431), unless a
\* thread of its process was inside vdi_init while another one was inside vdi_release, be it
\* the one a failed vdi_init calls.
SessionHasDevice ==
    AllWell => \A t \in Thread : session[t] /\ pc[t] # "close" => /\ Usable(ProcessOf[t])
                                                                  /\ mapped[ProcessOf[t]]

\* When no thread of a process is inside vdi_init or vdi_release, task_num is the number of
\* its open sessions, after openings that failed half-way as well (vdi.c:194, :283, :371).
\* vdi_init counts under vid_mutex and vdi_release under vpu_mutex: of a thread that opens
\* while another one of its process closes nothing is said.
Sessions(p) == {t \in Thread : ProcessOf[t] = p /\ session[t]}
TasksCounted ==
    AllWell => \A p \in Process :
        (\A t \in Thread : ProcessOf[t] = p => pc[t] \notin Opening \cup Closing)
        => tasks[p] = Cardinality(Sessions(p))

\* A process has the device open once or not at all, as vpu_fd says: no interleaving opens
\* it twice and forgets one file (vdi.c:190, :201, :420).
NoFileLeaked == \A p \in Process : files[p] = IF opened[p] THEN 1 ELSE 0

\* Every call comes back: no thread waits for a mutex for ever, in whatever order vid_mutex
\* and vpu_mutex are taken and given up, and whichever system call of vdi_init fails
\* (vdi.c:182, :270, :292, :363, :398); unless something is amiss, or a process died while
\* one of its threads held vpu_mutex.
Returned(t) == pc[t] \in {"idle", "dead"}
DeadHolder == \E t \in Thread : vpuMutex = t /\ pc[t] = "dead"
CallsReturn == \A t \in Thread : ~Returned(t) ~> Returned(t) \/ ~AllWell \/ DeadHolder

\* What makes NoFileLeaked inductive: who is inside vdi_init holds vid_mutex, and what
\* vpu_fd and the flag say to the next one.
UnderVid == {"already", "open", "setup", "pool", "lock", "common"}
VidInv == \A t \in Thread : pc[t] \in UnderVid => vidMutex[ProcessOf[t]] = t
SawInv == \A t \in Thread : pc[t] = "uncount" => saw[t] > 1
FlagInv == /\ \A p \in Process : /\ flag[p] = "null" => ~opened[p]
                                 /\ vidMutex[p] = Nobody => flag[p] # "busy"
           /\ \A t \in Thread :
                /\ pc[t] = "open" => ~opened[ProcessOf[t]] /\ flag[ProcessOf[t]] = "busy"
                /\ pc[t] = "already" => flag[ProcessOf[t]] # "busy"

\* What makes MutualExclusion, SessionHasDevice and TasksCounted inductive together, as long
\* as all is well.  Failed: in the vdi_release that a failed vdi_init calls.
Failed(t) == pc[t] \in Closing /\ ~session[t]
VpuInv == \A t \in Thread : HoldsVpu(t) => vpuMutex = t
PoolInv == /\ \A p \in Process : opened[p] /\ flag[p] = "done" => poolInited
           /\ \A t \in Thread : pc[t] = "lock" \/ HoldsVpu(t) => poolInited
CallInv ==
    \A t \in Thread :
        /\ pc[t] \in Opening => ~session[t] /\ \A u \in Fellows(t) : pc[u] \notin Closing
        /\ Failed(t) => ~AnyFellow(t, Closing)
        /\ pc[t] \in {"enter", "using"} => session[t]
        /\ pc[t] # "using_unlocked"
Tally(t) ==
    LET p == ProcessOf[t] IN
    /\ pc[t] \in {"already", "uncount"} => saw[t] = tasks[p]
    /\ pc[t] = "already" => opened[p] /\ flag[p] = "done"
    /\ pc[t] = "uncount" => tasks[p] > 1
    /\ pc[t] = "close" => Sessions(p) \subseteq {t}
    /\ pc[t] \in UnderVid \ {"already"} \/ Failed(t) => Sessions(p) = {}
    /\ pc[t] \in {"setup", "pool", "lock", "common"} => opened[p] /\ flag[p] = "busy"
    /\ Failed(t) => opened[p] /\ flag[p] = "done"
CountInv == /\ \A p \in Process : tasks[p] = Cardinality(Sessions(p))
            /\ \A t \in Thread : Tally(t)
Device(p) == (\A t \in Thread : ProcessOf[t] = p => pc[t] # "close" /\ ~Failed(t)) =>
                 /\ Sessions(p) # {} => opened[p] /\ flag[p] = "done"
                 /\ opened[p] /\ flag[p] = "done" => mapped[p]
DeviceInv == \A p \in Process : Device(p)
SessionInv == VpuInv /\ PoolInv /\ CallInv /\ CountInv /\ DeviceInv

\* "means that the opened instance remains" (vdi.c:369) says the test task_num > 1 of
\* vdi_release: a device is torn down only when no other thread of the process has it open.
TeardownIsLast ==
    \A t, u \in Thread : pc[t] = "close" /\ session[u] /\ ProcessOf[t] = ProcessOf[u] => t = u

\* So it is as long as all is well, also for the vdi_release of a vdi_init that failed, which
\* closes a device it has not counted itself into (vdi.c:293, :371).
AloneTearsDown == AllWell => TeardownIsLast

=============================================================================
