-------------------------- MODULE VdiSession_proofs ---------------------------
(***************************************************************************)
(* That no interleaving of vdi_init and vdi_release leaks a file, whatever *)
(* fails and whoever dies; and that vpu_mutex excludes, that task_num      *)
(* counts the sessions and that an open session has its device, as long as *)
(* nothing has happened that the code does not cope with (AllWell).        *)
(* For every number of threads, processes and calls.                       *)
(***************************************************************************)
EXTENDS VdiSession, FiniteSetTheorems, TLAPS

(***************************************************************************)
(* Files                                                                   *)
(***************************************************************************)

VidRules == VidInv /\ FlagInv /\ NoFileLeaked
FileInv == TypeInv /\ SawInv /\ VidRules

LEMMA FileInvInit == Init => FileInv
  BY ThreadsAssumption, BoundAssumption
  DEF Init, FileInv, TypeInv, SawInv, VidInv, FlagInv, NoFileLeaked, PcLabels, Opening, Closing,
      UnderVid, VidRules

LEMMA TypeStep == TypeInv /\ SawInv /\ NoFileLeaked /\ [Next]_vars => TypeInv' /\ SawInv'
<1> SUFFICES ASSUME TypeInv, SawInv, NoFileLeaked, [Next]_vars PROVE TypeInv' /\ SawInv'
  OBVIOUS
<1> USE ThreadsAssumption, BoundAssumption
    DEF TypeInv, SawInv, PcLabels, Opening, Closing, Goto, procVars, sharedVars, threadVars
<1>1. ASSUME NEW t \in Thread, InitCall(t) \/ Enter(t) \/ ReleaseCall(t) PROVE TypeInv' /\ SawInv'
  <2>1. amiss' \subseteq Mishaps
    BY <1>1 DEF InitCall, Enter, ReleaseCall, Note, Mishaps
  <2>2. calls' \in [Thread -> 0 .. CallMax]
    BY <1>1 DEF InitCall, Enter, ReleaseCall, CountCall
  <2>3. SawInv' /\ pc' \in [Thread -> PcLabels]
    BY <1>1 DEF InitCall, Enter, ReleaseCall
  <2>4. UNCHANGED <<procVars, sharedVars, saw, session, files>>
    BY <1>1 DEF InitCall, Enter, ReleaseCall
  <2> QED BY <2>1, <2>2, <2>3, <2>4
<1>5. ASSUME NEW p \in Process, Die(p) PROVE TypeInv' /\ SawInv'
  <2>1. /\ flag' \in [Process -> {"null", "busy", "done"}] /\ tasks' \in [Process -> Nat]
        /\ opened' \in [Process -> BOOLEAN] /\ mapped' \in [Process -> BOOLEAN]
    BY <1>5 DEF Die
  <2>2. /\ files' \in [Process -> Nat] /\ vidMutex' \in [Process -> Thread \cup {Nobody}]
        /\ UNCHANGED <<vpuMutex, poolInited, saw, calls, amiss>>
    BY <1>5 DEF Die
  <2>3. pc' \in [Thread -> PcLabels] /\ session' \in [Thread -> BOOLEAN]
    BY <1>5 DEF Die
  <2>4. SawInv'
    BY <1>5 DEF Die
  <2> QED BY <2>1, <2>2, <2>3, <2>4
<1>2. ASSUME NEW t \in Thread, InitStep(t) PROVE TypeInv' /\ SawInv'
  <2>1. CASE InitEnter(t)
    <3>1. CASE opened[ProcessOf[t]] /\ flag[ProcessOf[t]] = "done"
      BY <2>1, <3>1 DEF InitEnter, LockVid, Read
    <3>2. CASE ~(opened[ProcessOf[t]] /\ flag[ProcessOf[t]] = "done")
      <4>1. mapped' \in [Process -> BOOLEAN]
        BY <2>1, <3>2 DEF InitEnter
      <4>4. tasks' \in [Process -> Nat]
        BY <2>1, <3>2 DEF InitEnter
      <4>5. flag' \in [Process -> {"null", "busy", "done"}]
        BY <2>1, <3>2 DEF InitEnter
      <4>2. vidMutex' \in [Process -> Thread \cup {Nobody}] /\ pc' \in [Thread -> PcLabels]
        BY <2>1, <3>2 DEF InitEnter, LockVid
      <4>3. SawInv' /\ UNCHANGED <<opened, sharedVars, saw, session, calls, files, amiss>>
        BY <2>1, <3>2 DEF InitEnter
      <4> QED BY <4>1, <4>2, <4>3, <4>4, <4>5
    <3> QED BY <3>1, <3>2
  <2>2. CASE InitAlready(t)
    <3>1. tasks' \in [Process -> Nat]
      BY <2>2 DEF InitAlready, CountTask
    <3>2. session' \in [Thread -> BOOLEAN]
      BY <2>2 DEF InitAlready, OpenSession
    <3>3. vidMutex' \in [Process -> Thread \cup {Nobody}] /\ pc' \in [Thread -> PcLabels]
      BY <2>2 DEF InitAlready, UnlockVid
    <3>4. SawInv'
      BY <2>2 DEF InitAlready
    <3> QED BY <2>2, <3>1, <3>2, <3>3, <3>4 DEF InitAlready
  <2>3. CASE InitOpen(t)
    <3>1. opened' \in [Process -> BOOLEAN]
      BY <2>3 DEF InitOpen
    <3> QED BY <2>3, <3>1 DEF InitOpen
  <2>9. CASE InitOpenFails(t)
    <3>1. opened' \in [Process -> BOOLEAN]
      BY <2>9 DEF InitOpenFails
    <3> QED BY <2>9, <3>1 DEF InitOpenFails, UnlockVid
  <2>4. CASE InitSetup(t)
    BY <2>4 DEF InitSetup, PoolIsNew
  <2>7. CASE InitPool(t)
    BY <2>7 DEF InitPool, Note, Mishaps
  <2>10. CASE InitNoPool(t)
    BY <1>5, <2>10 DEF InitNoPool
  <2>8. CASE InitLock(t)
    BY <2>8 DEF InitLock, LockVpu
  <2>5. CASE InitCommon(t)
    BY <2>5 DEF InitCommon, UnlockVpu, UnlockVid, OpenSession
  <2>6. CASE InitFails(t)
    BY <2>6 DEF InitFails, UnlockVpu, UnlockVid, Mishaps
  <2> QED BY <1>2, <2>1, <2>2, <2>3, <2>4, <2>5, <2>6, <2>7, <2>8, <2>9, <2>10 DEF InitStep
<1>3. ASSUME NEW t \in Thread, UseStep(t) PROVE TypeInv' /\ SawInv'
  BY <1>3 DEF UseStep, EnterLock, LeaveLock, LockVpu, UnlockVpu
<1>4. ASSUME NEW t \in Thread, ReleaseStep(t) PROVE TypeInv' /\ SawInv'
  <2>1. CASE ReleaseLock(t)
    BY <2>1 DEF ReleaseLock, EndSession, LockVpu
  <2>2. CASE ReleaseOne(t)
    BY <2>2 DEF ReleaseOne, Read, LastTask
  <2>3. CASE ReleaseUncount(t)
    BY <2>3 DEF ReleaseUncount, UncountUnlock, UnlockVpu, EndSession
  <2>4. CASE ReleaseLast(t)
    BY <2>4 DEF ReleaseLast, UnlockVpu
  <2>5. CASE ReleaseClose(t)
    <3>1. files' \in [Process -> Nat]
      BY <2>5 DEF ReleaseClose, CloseFile, NoFileLeaked
    <3> QED BY <2>5, <3>1 DEF ReleaseClose, EndSession
  <2> QED BY <1>4, <2>1, <2>2, <2>3, <2>4, <2>5 DEF ReleaseStep
<1>6. CASE UNCHANGED vars
  BY <1>6 DEF vars
<1> QED BY <1>1, <1>2, <1>3, <1>4, <1>5, <1>6 DEF Next, Call, Terminating, Crash

\* NoFileLeaked is kept with what it needs, by every step but the types.
LEMMA FileStep == FileInv /\ [Next]_vars => FileInv'
<1> SUFFICES ASSUME FileInv, [Next]_vars PROVE FileInv'
  OBVIOUS
<1>t. TypeInv' /\ SawInv'
  BY TypeStep DEF FileInv, VidRules
<1>0. TypeInv /\ VidRules
  BY DEF FileInv
<1> USE ThreadsAssumption DEF VidRules, TypeInv, VidInv, FlagInv, NoFileLeaked, UnderVid, Goto,
        procVars, sharedVars, threadVars
<1>1. ASSUME NEW t \in Thread, InitCall(t) \/ Enter(t) \/ ReleaseCall(t) PROVE VidRules'
  BY <1>0, <1>1 DEF InitCall, Enter, ReleaseCall, CountCall
<1>5. ASSUME NEW p \in Process, Die(p) PROVE VidRules'
  BY <1>0, <1>5 DEF Die
<1>2. ASSUME NEW t \in Thread, InitStep(t) PROVE VidRules'
  <2>1. CASE InitEnter(t)
    BY <1>0, <2>1 DEF InitEnter, LockVid, Read
  <2>2. CASE InitAlready(t)
    <3>1. NoFileLeaked'
      BY <1>0, <2>2 DEF InitAlready
    <3>2. VidInv'
      BY <1>0, <2>2 DEF InitAlready, UnlockVid
    <3>3. FlagInv'
      <4>1. /\ UNCHANGED <<flag, opened>> /\ flag[ProcessOf[t]] # "busy"
            /\ \A p \in Process : p # ProcessOf[t] => vidMutex'[p] = vidMutex[p]
            /\ \A u \in Thread : pc'[u] \in {"open", "already"} => pc[u] = pc'[u]
        BY <1>0, <2>2 DEF InitAlready, UnlockVid
      <4> QED BY <1>0, <4>1
    <3> QED BY <3>1, <3>2, <3>3
  <2>3. CASE InitOpen(t)
    BY <1>0, <2>3 DEF InitOpen
  <2>4. CASE InitOpenFails(t)
    BY <1>0, <2>4 DEF InitOpenFails, UnlockVid
  <2>5. CASE InitSetup(t) \/ InitPool(t) \/ InitLock(t)
    BY <1>0, <2>5 DEF InitSetup, InitPool, InitLock, PoolIsNew
  <2>6. CASE InitCommon(t)
    BY <1>0, <2>6 DEF InitCommon, UnlockVid
  <2>7. CASE InitFails(t)
    BY <1>0, <2>7 DEF InitFails, UnlockVid
  <2>8. CASE InitNoPool(t)
    BY <1>5, <2>8 DEF InitNoPool
  <2> QED BY <1>2, <2>1, <2>2, <2>3, <2>4, <2>5, <2>6, <2>7, <2>8 DEF InitStep
<1>3. ASSUME NEW t \in Thread, UseStep(t) PROVE VidRules'
  BY <1>0, <1>3 DEF UseStep, EnterLock, LeaveLock
<1>4. ASSUME NEW t \in Thread, ReleaseStep(t) PROVE VidRules'
  <2>1. CASE ReleaseLock(t)
    BY <1>0, <2>1 DEF ReleaseLock, EndSession
  <2>2. CASE ReleaseOne(t) \/ ReleaseLast(t)
    BY <1>0, <2>2 DEF ReleaseOne, ReleaseLast
  <2>3. CASE ReleaseUncount(t)
    BY <1>0, <2>3 DEF ReleaseUncount, EndSession
  <2>4. CASE ReleaseClose(t)
    BY <1>0, <2>4 DEF ReleaseClose, CloseFile, EndSession
  <2> QED BY <1>4, <2>1, <2>2, <2>3, <2>4 DEF ReleaseStep
<1>6. ASSUME UNCHANGED vars PROVE VidRules'
  <2>1. UNCHANGED <<flag, opened, vidMutex, pc, files>>
    BY <1>6 DEF vars
  <2> QED BY <1>0, <2>1
<1>7. VidRules'
  BY <1>1, <1>2, <1>3, <1>4, <1>5, <1>6 DEF Next, Call, Terminating, Crash
<1> QED BY <1>t, <1>7 DEF FileInv

\* Every variable keeps its type, task_num is never negative, whatever goes wrong.
THEOREM TypeCorrect == Spec => []TypeInv
<1>1. FileInv => TypeInv
  BY DEF FileInv
<1> QED BY FileInvInit, FileStep, <1>1, PTL DEF Spec

\* The device is open once or not at all, whatever goes wrong.
THEOREM FilesAreKept == Spec => []NoFileLeaked
<1>1. FileInv => NoFileLeaked
  BY DEF FileInv, VidRules
<1> QED BY FileInvInit, FileStep, <1>1, PTL DEF Spec

(***************************************************************************)
(* Sessions, as long as all is well                                        *)
(***************************************************************************)

LEMMA SessionsFinite ==
  ASSUME NEW p \in Process
  PROVE  IsFiniteSet(Sessions(p)) /\ Cardinality(Sessions(p)) \in Nat
<1>1. Sessions(p) \subseteq Thread
  BY DEF Sessions
<1> QED BY <1>1, ThreadsAssumption, FS_Subset, FS_CardinalityType

\* What opening and closing a session does to the sessions of each process.
LEMMA SessionOpened ==
  ASSUME TypeInv, NEW t \in Thread, ~session[t], OpenSession(t)
  PROVE  /\ \A p \in Process : p # ProcessOf[t] => Sessions(p)' = Sessions(p)
         /\ Sessions(ProcessOf[t])' = Sessions(ProcessOf[t]) \cup {t}
         /\ Cardinality(Sessions(ProcessOf[t]))' = Cardinality(Sessions(ProcessOf[t])) + 1
<1>1. \A u \in Thread : session'[u] <=> (session[u] \/ u = t)
  BY DEF TypeInv, OpenSession
<1>2. Sessions(ProcessOf[t])' = Sessions(ProcessOf[t]) \cup {t} /\ t \notin Sessions(ProcessOf[t])
  BY <1>1 DEF Sessions
<1>3. \A p \in Process : p # ProcessOf[t] => Sessions(p)' = Sessions(p)
  BY <1>1 DEF Sessions
<1>4. ProcessOf[t] \in Process
  BY ThreadsAssumption
<1> QED BY <1>2, <1>3, <1>4, SessionsFinite, FS_AddElement

LEMMA SessionEnded ==
  ASSUME TypeInv, NEW t \in Thread, EndSession(t)
  PROVE  /\ \A p \in Process : p # ProcessOf[t] => Sessions(p)' = Sessions(p)
         /\ Sessions(ProcessOf[t])' = Sessions(ProcessOf[t]) \ {t}
         /\ session[t] => Cardinality(Sessions(ProcessOf[t]))' = Cardinality(Sessions(ProcessOf[t])) - 1
<1>1. \A u \in Thread : session'[u] <=> (session[u] /\ u # t)
  BY DEF TypeInv, EndSession
<1>2. Sessions(ProcessOf[t])' = Sessions(ProcessOf[t]) \ {t}
  BY <1>1 DEF Sessions
<1>3. \A p \in Process : p # ProcessOf[t] => Sessions(p)' = Sessions(p)
  BY <1>1 DEF Sessions
<1>4. ProcessOf[t] \in Process
  BY ThreadsAssumption
<1>5. session[t] => t \in Sessions(ProcessOf[t])
  BY DEF Sessions
<1> QED BY <1>2, <1>3, <1>4, <1>5, SessionsFinite, FS_RemoveElement

LEMMA SessionsSame == UNCHANGED session => \A p \in Process : Sessions(p)' = Sessions(p)
  BY DEF Sessions

\* A thread with a session that is not closing the device can use it.
LEMMA SessionUsable ==
  ASSUME TypeInv, SessionInv, NEW t \in Thread, session[t], pc[t] # "close"
  PROVE  /\ Usable(ProcessOf[t]) /\ mapped[ProcessOf[t]]
         /\ opened[ProcessOf[t]] /\ flag[ProcessOf[t]] = "done"
<1>1. t \in Sessions(ProcessOf[t]) /\ ProcessOf[t] \in Process
  BY ThreadsAssumption DEF Sessions
<1>2. \A u \in Thread : ProcessOf[u] = ProcessOf[t] => pc[u] # "close" /\ ~Failed(u)
  BY <1>1 DEF SessionInv, CountInv, Tally
<1>3. /\ opened[ProcessOf[t]] /\ flag[ProcessOf[t]] = "done"
      /\ mapped[ProcessOf[t]]
  BY <1>1, <1>2 DEF SessionInv, DeviceInv, Device
<1> QED BY <1>3 DEF Usable

LEMMA SessionInvInit == Init => SessionInv
<1> SUFFICES ASSUME Init PROVE SessionInv
  OBVIOUS
<1>1. \A p \in Process : Sessions(p) = {}
  BY DEF Init, Sessions
<1>2. CountInv
  BY <1>1, FS_EmptySet DEF Init, CountInv, Tally, Failed, Closing, UnderVid
<1> QED
  BY <1>1, <1>2
  DEF Init, SessionInv, VpuInv, PoolInv, CallInv, DeviceInv, Device, HoldsVpu, Failed, Opening,
      Closing

\* What every step below starts from, and the steps.
Before == TypeInv /\ VidInv /\ FlagInv /\ SessionInv
Step(t) == \/ InitCall(t) \/ Enter(t) \/ ReleaseCall(t) \/ UseStep(t) \/ ReleaseStep(t)
           \/ InitStep(t) /\ ~InitNoPool(t)

LEMMA StepOrDeath ==
  ASSUME [Next]_vars
  PROVE  UNCHANGED vars \/ (\E t \in Thread : Step(t)) \/ (\E p \in Process : Die(p))
  BY ThreadsAssumption DEF Next, Step, Terminating, Call, Crash, InitNoPool, InitStep

\* Nothing that has happened is forgotten.
LEMMA WellBefore == ASSUME [Next]_vars, AllWell' PROVE AllWell
<1>1. ASSUME NEW t \in Thread, Step(t) PROVE amiss \subseteq amiss'
  BY <1>1
  DEF Step, InitCall, Enter, ReleaseCall, UseStep, EnterLock, LeaveLock, ReleaseStep, ReleaseLock,
      ReleaseOne, ReleaseUncount, ReleaseLast, ReleaseClose, InitStep, InitEnter, InitAlready,
      InitOpen, InitOpenFails, InitSetup, InitPool, InitLock, InitCommon, InitFails, Note
<1>2. ASSUME UNCHANGED vars \/ \E p \in Process : Die(p) PROVE amiss \subseteq amiss'
  BY <1>2 DEF vars, Die
<1> QED BY <1>1, <1>2, StepOrDeath DEF AllWell

\* What a step may not do as long as all is well.
LEMMA WellSteps ==
  ASSUME Before, AllWell', NEW t \in Thread
  PROVE  /\ InitCall(t) => ~AnyFellow(t, Closing)
         /\ ReleaseCall(t) => ~AnyFellow(t, Opening)
         /\ InitPool(t) => ~poolInited
         /\ InitFails(t) => ~AnyFellow(t, Opening) /\ ~FreesHeld(t)
         /\ EnterLock(t) => Usable(ProcessOf[t]) /\ poolInited
         /\ ReleaseLock(t) => Usable(ProcessOf[t]) /\ poolInited
<1>1. /\ InitCall(t) => ~AnyFellow(t, Closing)
      /\ ReleaseCall(t) => ~AnyFellow(t, Opening)
      /\ InitPool(t) => ~poolInited
      /\ InitFails(t) => ~AnyFellow(t, Opening) /\ ~FreesHeld(t)
  BY DEF AllWell, InitCall, ReleaseCall, InitPool, InitFails, Note
<1>2. TypeInv /\ SessionInv /\ CallInv /\ PoolInv /\ Tally(t) /\ ProcessOf[t] \in Process
  BY ThreadsAssumption DEF Before, SessionInv, CountInv
<1>3. ASSUME pc[t] \in {"enter", "release"} PROVE Usable(ProcessOf[t]) /\ poolInited
  <2>1. opened[ProcessOf[t]] /\ flag[ProcessOf[t]] = "done"
    <3>1. CASE session[t]
      BY <1>2, <1>3, <3>1, SessionUsable
    <3>2. CASE ~session[t]
      BY <1>2, <1>3, <3>2 DEF CallInv, Tally, Failed, Closing
    <3> QED BY <3>1, <3>2
  <2> QED BY <1>2, <2>1 DEF Usable, PoolInv
<1> QED BY <1>1, <1>3 DEF EnterLock, ReleaseLock

\* vpu_mutex is only freed by who holds it.
LEMMA VpuStep == ASSUME Before, AllWell', NEW t \in Thread, Step(t) PROVE VpuInv'
<1>1. VpuInv /\ PoolInv /\ CallInv /\ TypeInv
  BY DEF Before, SessionInv
<1>2. /\ InitPool(t) => ~poolInited
      /\ InitFails(t) => ~FreesHeld(t)
      /\ pc[t] # "using_unlocked"
  BY <1>1, WellSteps DEF CallInv
<1> USE ThreadsAssumption DEF TypeInv, VpuInv, HoldsVpu, Goto, sharedVars
<1>3. CASE InitCall(t) \/ Enter(t) \/ ReleaseCall(t)
  BY <1>1, <1>3 DEF InitCall, Enter, ReleaseCall
<1>4. CASE InitStep(t) /\ ~InitNoPool(t)
  <2>1. CASE InitEnter(t)
    BY <1>1, <2>1 DEF InitEnter
  <2>2. CASE InitAlready(t) \/ InitOpen(t) \/ InitOpenFails(t) \/ InitSetup(t)
    BY <1>1, <2>2 DEF InitAlready, InitOpen, InitOpenFails, InitSetup
  <2>3. CASE InitLock(t)
    BY <1>1, <2>3 DEF InitLock, LockVpu
  <2>4. CASE InitCommon(t)
    BY <1>1, <2>4 DEF InitCommon, UnlockVpu
  <2>5. CASE InitPool(t)
    BY <1>1, <1>2, <2>5 DEF InitPool, PoolInv
  <2>6. CASE InitFails(t)
    BY <1>1, <1>2, <2>6 DEF InitFails, UnlockVpu, FreesHeld
  <2> QED BY <1>4, <2>1, <2>2, <2>3, <2>4, <2>5, <2>6 DEF InitStep
<1>5. CASE UseStep(t)
  BY <1>1, <1>2, <1>5 DEF UseStep, EnterLock, LeaveLock, LockVpu, UnlockVpu
<1>6. CASE ReleaseStep(t)
  <2>1. CASE ReleaseLock(t)
    BY <1>1, <2>1 DEF ReleaseLock, EndSession, LockVpu
  <2>2. CASE ReleaseOne(t)
    BY <1>1, <2>2 DEF ReleaseOne
  <2>3. CASE ReleaseUncount(t) \/ ReleaseLast(t)
    BY <1>1, <2>3 DEF ReleaseUncount, ReleaseLast, UncountUnlock, UnlockVpu, EndSession
  <2>4. CASE ReleaseClose(t)
    BY <1>1, <2>4 DEF ReleaseClose, EndSession
  <2> QED BY <1>6, <2>1, <2>2, <2>3, <2>4 DEF ReleaseStep
<1> QED BY <1>3, <1>4, <1>5, <1>6 DEF Step

\* A process has made the mutexes before any thread takes vpu_mutex.
LEMMA PoolStep == ASSUME Before, AllWell', NEW t \in Thread, Step(t) PROVE PoolInv'
<1>1. PoolInv /\ TypeInv /\ FlagInv
  BY DEF Before, SessionInv
<1>2. EnterLock(t) \/ ReleaseLock(t) => poolInited
  BY WellSteps
<1> USE ThreadsAssumption DEF TypeInv, PoolInv, HoldsVpu, Goto, procVars, sharedVars
<1>3. CASE InitCall(t) \/ Enter(t) \/ ReleaseCall(t)
  BY <1>1, <1>3 DEF InitCall, Enter, ReleaseCall
<1>4. CASE InitStep(t) /\ ~InitNoPool(t)
  <2>1. CASE InitEnter(t)
    BY <1>1, <2>1 DEF InitEnter
  <2>2. CASE InitAlready(t)
    BY <1>1, <2>2 DEF InitAlready
  <2>3. CASE InitOpen(t)
    BY <1>1, <2>3 DEF InitOpen, FlagInv
  <2>4. CASE InitOpenFails(t)
    BY <1>1, <2>4 DEF InitOpenFails
  <2>5. CASE InitSetup(t)
    BY <1>1, <2>5 DEF InitSetup, PoolIsNew
  <2>6. CASE InitPool(t)
    BY <1>1, <2>6 DEF InitPool
  <2>7. CASE InitLock(t)
    BY <1>1, <2>7 DEF InitLock
  <2>8. CASE InitCommon(t)
    BY <1>1, <2>8 DEF InitCommon
  <2>9. CASE InitFails(t)
    BY <1>1, <2>9 DEF InitFails
  <2> QED BY <1>4, <2>1, <2>2, <2>3, <2>4, <2>5, <2>6, <2>7, <2>8, <2>9 DEF InitStep
<1>5. CASE UseStep(t)
  BY <1>1, <1>2, <1>5 DEF UseStep, EnterLock, LeaveLock
<1>6. CASE ReleaseStep(t)
  <2>1. CASE ReleaseLock(t)
    BY <1>1, <1>2, <2>1 DEF ReleaseLock, EndSession
  <2>2. CASE ReleaseOne(t) \/ ReleaseLast(t)
    BY <1>1, <2>2 DEF ReleaseOne, ReleaseLast
  <2>3. CASE ReleaseUncount(t)
    BY <1>1, <2>3 DEF ReleaseUncount, EndSession
  <2>4. CASE ReleaseClose(t)
    BY <1>1, <2>4 DEF ReleaseClose, EndSession
  <2> QED BY <1>6, <2>1, <2>2, <2>3, <2>4 DEF ReleaseStep
<1> QED BY <1>3, <1>4, <1>5, <1>6 DEF Step

\* A step inside a call, or to its end.
LEMMA CallGoesOn ==
  ASSUME TypeInv, CallInv, NEW t \in Thread, NEW label, Goto(t, label),
         label # "using_unlocked",
         \A u \in Thread \ {t} : session'[u] = session[u],
         label \in Opening => pc[t] \in Opening /\ ~session'[t],
         label \in Closing => pc[t] \in Closing /\ session'[t] = session[t],
         label \in {"enter", "using"} => session'[t]
  PROVE  CallInv'
<1>1. pc'[t] = label /\ \A u \in Thread : u # t => pc'[u] = pc[u] /\ session'[u] = session[u]
  BY DEF TypeInv, Goto
<1>2. ASSUME NEW u \in Thread
      PROVE  /\ pc'[u] \in Opening => ~session'[u] /\ pc[u] \in Opening
             /\ pc'[u] \in Closing => pc[u] \in Closing
             /\ Failed(u)' => Failed(u)
             /\ pc'[u] \in {"enter", "using"} => session'[u]
             /\ pc'[u] # "using_unlocked"
  BY <1>1 DEF CallInv, Failed
<1>3. ASSUME NEW u \in Thread, NEW v \in Fellows(u), pc'[u] \in Opening PROVE pc'[v] \notin Closing
  BY <1>2, <1>3 DEF Fellows, CallInv
<1>4. ASSUME NEW u \in Thread, Failed(u)' PROVE ~AnyFellow(u, Closing)'
  BY <1>2, <1>4 DEF Fellows, CallInv, AnyFellow
<1> QED BY <1>2, <1>3, <1>4 DEF CallInv, Fellows

\* No opening overlaps a closing, and a failed opening closes the device alone.
LEMMA CallStep == ASSUME Before, AllWell', NEW t \in Thread, Step(t) PROVE CallInv'
<1>1. CallInv /\ TypeInv
  BY DEF Before, SessionInv
<1>2. /\ EnterLock(t) => Usable(ProcessOf[t])
      /\ ReleaseLock(t) => Usable(ProcessOf[t])
      /\ InitCall(t) => ~AnyFellow(t, Closing)
      /\ ReleaseCall(t) => ~AnyFellow(t, Opening)
      /\ InitFails(t) => ~AnyFellow(t, Opening)
  BY WellSteps
<1>0. /\ pc[t] \in Opening => ~session[t]
      /\ pc[t] \in {"enter", "using"} => session[t]
  BY <1>1 DEF CallInv
\* A thread begins to close the device.
<1>3. ASSUME pc[t] \notin Closing, Goto(t, "release"), UNCHANGED session, ~AnyFellow(t, Opening),
             ~session[t] => ~AnyFellow(t, Closing),
             \A u \in Fellows(t) \ {t} : ~Failed(u)
      PROVE  CallInv'
  <2>1. pc'[t] = "release" /\ \A u \in Thread : u # t => pc'[u] = pc[u] /\ session'[u] = session[u]
    BY <1>1, <1>3 DEF TypeInv, Goto
  <2>2. ASSUME NEW u \in Thread, u # t, pc'[u] \in Opening
        PROVE  ~session'[u] /\ \A v \in Fellows(u)' : pc'[v] \notin Closing
    <3>1. pc[u] \in Opening /\ t \notin Fellows(u)
      BY <1>3, <2>1, <2>2 DEF AnyFellow, Fellows
    <3> QED BY <1>1, <2>1, <2>2, <3>1 DEF CallInv, Fellows
  <2>3. ASSUME NEW u \in Thread, u # t, Failed(u)' PROVE ~AnyFellow(u, Closing)'
    <3>1. Failed(u) /\ t \notin Fellows(u)
      BY <1>3, <2>1, <2>3 DEF Failed, Fellows
    <3> QED BY <1>1, <2>1, <2>3, <3>1 DEF CallInv, Fellows, AnyFellow
  <2>4. Failed(t)' => ~AnyFellow(t, Closing)'
    BY <1>3, <2>1 DEF Failed, AnyFellow, Fellows
  <2>5. pc'[t] \notin Opening
    BY <2>1 DEF Opening
  <2> QED BY <1>1, <2>1, <2>2, <2>3, <2>4, <2>5 DEF CallInv
<1>4. CASE InitCall(t)
  <2>1. /\ pc'[t] = "init" /\ session' = session /\ ~session[t]
        /\ \A u \in Thread : u # t => pc'[u] = pc[u]
    BY <1>1, <1>4 DEF InitCall, TypeInv, Goto, threadVars
  <2>2. pc[t] \notin Closing
    BY <1>4 DEF InitCall, Closing
  <2>3. \A u \in Fellows(t)' : pc'[u] \notin Closing
    BY <1>2, <1>4, <2>1 DEF AnyFellow, Fellows, Closing
  <2>4. ASSUME NEW u \in Thread, u # t, pc'[u] \in Opening
        PROVE  ~session'[u] /\ \A v \in Fellows(u)' : pc'[v] \notin Closing
    BY <1>1, <2>1, <2>4 DEF CallInv, Fellows, Closing
  <2>5. ASSUME NEW u \in Thread, Failed(u)' PROVE ~AnyFellow(u, Closing)'
    BY <1>1, <2>1, <2>5 DEF CallInv, Fellows, AnyFellow, Failed, Closing
  <2> QED BY <1>1, <2>1, <2>3, <2>4, <2>5 DEF CallInv
<1>5. CASE Enter(t)
  BY <1>1, <1>5, CallGoesOn DEF Enter, Opening, Closing
<1>6. CASE ReleaseCall(t)
  <2>1. /\ pc[t] = "idle" /\ session[t] /\ Goto(t, "release") /\ UNCHANGED session
    BY <1>6 DEF ReleaseCall
  <2>2. ASSUME NEW u \in Fellows(t) PROVE ~Failed(u)
    <3>1. Tally(u) /\ t \in Sessions(ProcessOf[u])
      BY <2>1 DEF Before, SessionInv, CountInv, Sessions, Fellows
    <3> QED BY <3>1 DEF Tally
  <2> QED BY <1>2, <1>3, <1>6, <2>1, <2>2 DEF Closing
<1>7. CASE InitFails(t)
  <2>1. /\ pc[t] \in {"lock", "common"} /\ Goto(t, "release") /\ UNCHANGED session
    BY <1>7 DEF InitFails
  <2>2. \A u \in Fellows(t) : pc[u] \notin Closing
    BY <1>1, <2>1 DEF CallInv, Opening
  <2> QED BY <1>2, <1>3, <1>7, <2>1, <2>2 DEF Closing, AnyFellow, Failed
<1> USE DEF Opening, Closing
<1>8. CASE InitStep(t) /\ ~InitNoPool(t)
  <2>1. CASE InitEnter(t)
    <3>1. /\ pc[t] = "init" /\ UNCHANGED session
          /\ Goto(t, "already") \/ Goto(t, "open")
      BY <2>1 DEF InitEnter
    <3> QED BY <1>0, <1>1, <3>1, CallGoesOn
  <2>2. CASE InitOpen(t)
    BY <1>0, <1>1, <2>2, CallGoesOn DEF InitOpen
  <2>3. CASE InitOpenFails(t)
    BY <1>0, <1>1, <2>3, CallGoesOn DEF InitOpenFails
  <2>4. CASE InitSetup(t) \/ InitPool(t)
    <3>1. /\ pc[t] \in {"setup", "pool"} /\ UNCHANGED session
          /\ Goto(t, "lock") \/ Goto(t, "pool")
      BY <2>4 DEF InitSetup, InitPool
    <3> QED BY <1>0, <1>1, <3>1, CallGoesOn
  <2>5. CASE InitLock(t)
    BY <1>0, <1>1, <2>5, CallGoesOn DEF InitLock
  <2>6. CASE InitAlready(t) \/ InitCommon(t)
    <3>1. Goto(t, "idle") /\ \A u \in Thread \ {t} : session'[u] = session[u]
      BY <1>1, <2>6 DEF InitAlready, InitCommon, OpenSession, TypeInv
    <3> QED BY <1>1, <3>1, CallGoesOn
  <2> QED BY <1>7, <1>8, <2>1, <2>2, <2>3, <2>4, <2>5, <2>6 DEF InitStep
<1>9. CASE UseStep(t)
  <2>1. CASE EnterLock(t)
    <3>1. Goto(t, "using") /\ session[t] /\ UNCHANGED session
      BY <1>0, <1>2, <2>1 DEF EnterLock
    <3> QED BY <1>1, <3>1, CallGoesOn
  <2>2. CASE LeaveLock(t)
    BY <1>1, <2>2, CallGoesOn DEF LeaveLock
  <2> QED BY <1>9, <2>1, <2>2 DEF UseStep
<1>10. CASE ReleaseStep(t)
  <2>1. CASE ReleaseLock(t)
    <3>1. pc[t] = "release" /\ Goto(t, "count") /\ UNCHANGED session
      BY <1>2, <2>1 DEF ReleaseLock
    <3> QED BY <1>0, <1>1, <3>1, CallGoesOn
  <2>2. CASE ReleaseOne(t)
    BY <1>0, <1>1, <2>2, CallGoesOn DEF ReleaseOne
  <2>3. CASE ReleaseLast(t)
    BY <1>0, <1>1, <2>3, CallGoesOn DEF ReleaseLast
  <2>4. CASE ReleaseUncount(t) \/ ReleaseClose(t)
    <3>1. Goto(t, "idle") /\ \A u \in Thread \ {t} : session'[u] = session[u]
      BY <1>1, <2>4 DEF ReleaseUncount, ReleaseClose, EndSession, TypeInv
    <3> QED BY <1>1, <3>1, CallGoesOn
  <2> QED BY <1>10, <2>1, <2>2, <2>3, <2>4 DEF ReleaseStep
<1> QED BY <1>4, <1>5, <1>6, <1>8, <1>9, <1>10 DEF Step

\* A fellow that is not between reading and writing what a process keeps.
Quiet(u) == pc[u] \notin UnderVid \cup {"uncount", "close"} /\ ~Failed(u)

LEMMA OpeningIsAlone ==
  ASSUME Before, NEW t \in Thread, NEW u \in Thread, u # t, ProcessOf[u] = ProcessOf[t],
         pc[t] \in UnderVid \/ (pc[t] = "init" /\ vidMutex[ProcessOf[t]] = Nobody)
  PROVE  Quiet(u)
<1>1. pc[t] \in Opening
  BY DEF UnderVid, Opening
<1>2. pc[u] \notin Closing
  BY <1>1 DEF Before, SessionInv, CallInv, Fellows
<1>3. pc[u] \notin UnderVid
  BY ThreadsAssumption DEF Before, VidInv
<1> QED BY <1>2, <1>3 DEF Quiet, Closing, Failed

LEMMA ClosingIsAlone ==
  ASSUME Before, NEW t \in Thread, NEW u \in Thread, u # t, ProcessOf[u] = ProcessOf[t],
         pc[t] \in {"uncount", "close"}
  PROVE  Quiet(u)
<1>0. pc[t] \in Closing
  BY DEF Closing
<1>1. pc[u] \notin Opening
  BY <1>0 DEF Before, SessionInv, CallInv, Fellows
<1>2. /\ ~Failed(u)
      /\ pc[u] \in Closing => session[t] /\ session[u]
  BY <1>0 DEF Before, SessionInv, CallInv, Fellows, AnyFellow, Failed
<1>3. pc[u] \in Closing => {t, u} \subseteq Sessions(ProcessOf[t])
  BY <1>2 DEF Sessions
<1>4. Tally(t) /\ Tally(u)
  BY DEF Before, SessionInv, CountInv
<1>5. pc[u] # "close"
  BY <1>3, <1>4 DEF Tally, Closing
<1>6. pc[u] # "uncount"
  <2>1. pc[t] = "close" => pc[u] \notin Closing
    BY <1>3, <1>4 DEF Tally
  <2>2. pc[t] = "uncount" => pc[u] # "uncount"
    BY DEF Before, SessionInv, VpuInv, HoldsVpu
  <2> QED BY <2>1, <2>2 DEF Closing
<1> QED BY <1>1, <1>2, <1>5, <1>6 DEF Quiet, UnderVid, Opening

\* A step of t disturbs neither the other processes nor its quiet fellows.
LEMMA OthersTally ==
  ASSUME Before, NEW t \in Thread, NEW label, Goto(t, label),
         \A u \in Thread \ {t} : saw'[u] = saw[u] /\ session'[u] = session[u],
         \A p \in Process \ {ProcessOf[t]} :
            /\ tasks'[p] = tasks[p] /\ Sessions(p)' = Sessions(p)
            /\ opened'[p] = opened[p] /\ flag'[p] = flag[p],
         \/ \A u \in Thread \ {t} : ProcessOf[u] = ProcessOf[t] => Quiet(u)
         \/ LET p == ProcessOf[t] IN
            /\ tasks'[p] = tasks[p] /\ Sessions(p)' = Sessions(p)
            /\ opened'[p] = opened[p] /\ flag'[p] = flag[p],
         NEW u \in Thread \ {t}
  PROVE  Tally(u)'
<1>1. /\ pc'[u] = pc[u] /\ saw'[u] = saw[u] /\ ProcessOf[u] \in Process
      /\ Failed(u)' <=> Failed(u)
  BY ThreadsAssumption DEF Before, TypeInv, Goto, Failed
<1>2. Tally(u)
  BY DEF Before, SessionInv, CountInv
<1>3. CASE ProcessOf[u] = ProcessOf[t] /\ Quiet(u)
  BY <1>1, <1>3 DEF Tally, Quiet, UnderVid
<1>4. CASE ProcessOf[u] # ProcessOf[t] \/ ~Quiet(u)
  <2>1. LET p == ProcessOf[u] IN
          /\ tasks'[p] = tasks[p] /\ Sessions(p)' = Sessions(p)
          /\ opened'[p] = opened[p] /\ flag'[p] = flag[p]
    BY <1>1, <1>4
  <2> QED BY <1>1, <1>2, <2>1 DEF Tally
<1> QED BY <1>3, <1>4

\* The steps that change nothing of a process but what this thread is doing.
LEMMA CountPassive ==
  ASSUME Before, NEW t \in Thread, NEW label, Goto(t, label),
         UNCHANGED <<flag, opened, tasks, session>>,
         \A u \in Thread \ {t} : saw'[u] = saw[u], Tally(t)'
  PROVE  CountInv'
<1>1. \A p \in Process : Sessions(p)' = Sessions(p)
  BY SessionsSame
<1>2. \A u \in Thread \ {t} : Tally(u)'
  <2> SUFFICES ASSUME NEW u \in Thread \ {t} PROVE Tally(u)'
    OBVIOUS
  <2>1. ProcessOf[t] \in Process
    BY ThreadsAssumption
  <2> QED BY <1>1, <2>1, OthersTally
<1>3. \A p \in Process : tasks[p] = Cardinality(Sessions(p))
  BY DEF Before, SessionInv, CountInv
<1> QED BY <1>1, <1>2, <1>3 DEF CountInv

LEMMA CountInit ==
  ASSUME Before, AllWell', NEW t \in Thread, InitStep(t), ~InitNoPool(t)
  PROVE  CountInv'
<1>0. /\ ProcessOf[t] \in Process /\ TypeInv /\ CountInv /\ Tally(t) /\ DeviceInv
  BY ThreadsAssumption DEF Before, SessionInv, CountInv
<1>2. pc[t] \in Opening =>
        /\ ~session[t]
        /\ \A u \in Thread : ProcessOf[u] = ProcessOf[t] => pc[u] # "close" /\ ~Failed(u)
  BY DEF Before, SessionInv, CallInv, Fellows, Closing, Failed
<1>3. CASE InitEnter(t)
  <2>1. \A u \in Thread \ {t} : ProcessOf[u] = ProcessOf[t] => Quiet(u)
    BY <1>3, OpeningIsAlone DEF InitEnter, LockVid
  <2>2. session' = session /\ \A p \in Process : Sessions(p)' = Sessions(p)
    BY <1>3, SessionsSame DEF InitEnter
  <2>3. pc[t] = "init" /\ pc[t] \in Opening
    BY <1>3 DEF InitEnter, Opening
  <2>4. Device(ProcessOf[t]) /\ tasks[ProcessOf[t]] = Cardinality(Sessions(ProcessOf[t]))
    BY <1>0 DEF DeviceInv, CountInv
  <2>5. Sessions(ProcessOf[t]) # {} => opened[ProcessOf[t]] /\ flag[ProcessOf[t]] = "done"
    BY <1>2, <2>3, <2>4 DEF Device
  <2>6. tasks' = tasks
    <3>1. CASE Sessions(ProcessOf[t]) # {}
      BY <1>3, <2>5, <3>1 DEF InitEnter
    <3>2. CASE Sessions(ProcessOf[t]) = {}
      <4>1. tasks[ProcessOf[t]] = 0
        BY <2>4, <3>2, FS_EmptySet
      <4>2. [tasks EXCEPT ![ProcessOf[t]] = 0] = tasks
        BY <1>0, <4>1 DEF TypeInv
      <4> QED BY <1>3, <4>2 DEF InitEnter
    <3> QED BY <3>1, <3>2
  <2>7. Tally(t)'
    <3>1. CASE opened[ProcessOf[t]] /\ flag[ProcessOf[t]] = "done"
      <4>1. /\ pc'[t] = "already" /\ saw'[t] = tasks'[ProcessOf[t]]
            /\ opened'[ProcessOf[t]] /\ flag'[ProcessOf[t]] = "done"
        BY <1>0, <1>3, <2>6, <3>1 DEF InitEnter, Read, Goto, TypeInv
      <4> QED BY <4>1 DEF Tally, Failed, Closing
    <3>2. CASE ~(opened[ProcessOf[t]] /\ flag[ProcessOf[t]] = "done")
      <4>1. Sessions(ProcessOf[t])' = {} /\ pc'[t] = "open"
        BY <1>0, <1>3, <2>2, <2>5, <3>2 DEF InitEnter, Goto, TypeInv
      <4> QED BY <4>1 DEF Tally, Failed, Closing
    <3> QED BY <3>1, <3>2
  <2>8. \A u \in Thread \ {t} : Tally(u)'
    <3> SUFFICES ASSUME NEW u \in Thread \ {t} PROVE Tally(u)'
      OBVIOUS
    <3>1. /\ \A v \in Thread \ {t} : saw'[v] = saw[v]
          /\ \A p \in Process \ {ProcessOf[t]} : opened'[p] = opened[p] /\ flag'[p] = flag[p]
      BY <1>0, <1>3 DEF InitEnter, Read, TypeInv
    <3>2. Goto(t, "already") \/ Goto(t, "open")
      BY <1>3 DEF InitEnter
    <3> QED BY <2>1, <2>2, <2>6, <3>1, <3>2, OthersTally
  <2> QED BY <1>0, <2>2, <2>6, <2>7, <2>8 DEF CountInv
<1>4. CASE InitAlready(t) \/ InitCommon(t)
  <2>1. pc[t] \in UnderVid /\ pc[t] \in Opening /\ ~session[t] /\ OpenSession(t) /\ Goto(t, "idle")
    BY <1>2, <1>4 DEF InitAlready, InitCommon, UnderVid, Opening
  <2>2. \A u \in Thread \ {t} : ProcessOf[u] = ProcessOf[t] => Quiet(u)
    BY <2>1, OpeningIsAlone
  <2>3. /\ \A p \in Process : p # ProcessOf[t] => Sessions(p)' = Sessions(p)
        /\ Cardinality(Sessions(ProcessOf[t]))' = Cardinality(Sessions(ProcessOf[t])) + 1
    BY <1>0, <2>1, SessionOpened
  <2>4. /\ tasks'[ProcessOf[t]] = tasks[ProcessOf[t]] + 1
        /\ \A p \in Process : p # ProcessOf[t] => tasks'[p] = tasks[p]
    <3>1. CASE InitAlready(t)
      <4>1. pc[t] = "already" /\ tasks' = [tasks EXCEPT ![ProcessOf[t]] = saw[t] + 1]
        BY <3>1 DEF InitAlready, CountTask
      <4>2. saw[t] = tasks[ProcessOf[t]]
        BY <1>0, <4>1 DEF Tally
      <4> QED BY <1>0, <4>1, <4>2 DEF TypeInv
    <3>2. CASE InitCommon(t)
      <4>1. tasks' = [tasks EXCEPT ![ProcessOf[t]] = tasks[ProcessOf[t]] + 1]
        BY <3>2 DEF InitCommon
      <4> QED BY <1>0, <4>1 DEF TypeInv
    <3> QED BY <1>4, <3>1, <3>2
  <2>5. \A p \in Process : p # ProcessOf[t] => opened'[p] = opened[p] /\ flag'[p] = flag[p]
    BY <1>0, <1>4 DEF InitAlready, InitCommon, TypeInv
  <2>6. saw' = saw /\ \A u \in Thread \ {t} : session'[u] = session[u]
    BY <1>0, <1>4, <2>1 DEF InitAlready, InitCommon, OpenSession, TypeInv
  <2>7. \A u \in Thread \ {t} : Tally(u)'
    <3> SUFFICES ASSUME NEW u \in Thread \ {t} PROVE Tally(u)'
      OBVIOUS
    <3> QED BY <2>1, <2>2, <2>3, <2>4, <2>5, <2>6, OthersTally
  <2>8. Tally(t)'
    <3>1. pc'[t] = "idle"
      BY <1>0, <2>1 DEF Goto, TypeInv
    <3> QED BY <3>1 DEF Tally, UnderVid, Failed, Closing
  <2>9. \A p \in Process : tasks'[p] = Cardinality(Sessions(p))'
    BY <1>0, <2>3, <2>4 DEF CountInv
  <2> QED BY <2>7, <2>8, <2>9 DEF CountInv
<1>5. CASE InitOpen(t) \/ InitOpenFails(t) \/ InitFails(t)
  <2>1. /\ pc[t] \in {"open", "lock", "common"} /\ pc[t] \in UnderVid /\ pc[t] \in Opening
        /\ UNCHANGED <<tasks, session, saw>>
    BY <1>5 DEF InitOpen, InitOpenFails, InitFails, UnderVid, Opening
  <2>2. \A u \in Thread \ {t} : ProcessOf[u] = ProcessOf[t] => Quiet(u)
    BY <2>1, OpeningIsAlone
  <2>3. \A p \in Process : Sessions(p)' = Sessions(p)
    BY <2>1, SessionsSame
  <2>4. \A p \in Process : p # ProcessOf[t] => opened'[p] = opened[p] /\ flag'[p] = flag[p]
    BY <1>0, <1>5 DEF InitOpen, InitOpenFails, InitFails, TypeInv
  <2>5. Goto(t, "setup") \/ Goto(t, "idle") \/ Goto(t, "release")
    BY <1>5 DEF InitOpen, InitOpenFails, InitFails
  <2>6. \A u \in Thread \ {t} : Tally(u)'
    <3> SUFFICES ASSUME NEW u \in Thread \ {t} PROVE Tally(u)'
      OBVIOUS
    <3> QED BY <2>1, <2>2, <2>3, <2>4, <2>5, OthersTally
  <2>8. Sessions(ProcessOf[t])' = {}
    BY <1>0, <2>1, <2>3 DEF Tally, UnderVid
  <2>7. Tally(t)'
    <3>1. CASE InitOpen(t)
      <4>1. pc'[t] = "setup" /\ opened'[ProcessOf[t]] /\ flag'[ProcessOf[t]] = "busy"
        BY <1>0, <3>1 DEF InitOpen, Goto, TypeInv, Before, FlagInv
      <4> QED BY <2>8, <4>1 DEF Tally, Failed, Closing
    <3>2. CASE InitOpenFails(t)
      <4>1. pc'[t] = "idle"
        BY <1>0, <3>2 DEF InitOpenFails, Goto, TypeInv
      <4> QED BY <4>1 DEF Tally, Failed, Closing, UnderVid
    <3>3. CASE InitFails(t)
      <4>1. pc[t] \in {"lock", "common"}
        BY <3>3 DEF InitFails
      <4>2. pc'[t] = "release" /\ opened'[ProcessOf[t]] /\ flag'[ProcessOf[t]] = "done"
        BY <1>0, <3>3, <4>1 DEF InitFails, Goto, TypeInv, Tally
      <4> QED BY <2>8, <4>2 DEF Tally, UnderVid
    <3> QED BY <1>5, <3>1, <3>2, <3>3
  <2> QED BY <1>0, <2>1, <2>3, <2>6, <2>7 DEF CountInv
<1>6. CASE InitSetup(t) \/ InitPool(t) \/ InitLock(t)
  <2>1. /\ pc[t] \in {"setup", "pool", "lock"}
        /\ Goto(t, "pool") \/ Goto(t, "lock") \/ Goto(t, "common")
        /\ UNCHANGED <<flag, opened, tasks, session, saw>>
    BY <1>0, <1>6 DEF InitSetup, InitPool, InitLock, procVars
  <2>2. pc'[t] \in {"pool", "lock", "common"}
    BY <1>0, <2>1 DEF Goto, TypeInv
  <2>3. /\ Sessions(ProcessOf[t])' = {} /\ opened'[ProcessOf[t]]
        /\ flag'[ProcessOf[t]] = "busy"
    BY <1>0, <2>1, SessionsSame DEF Tally, UnderVid
  <2>4. Tally(t)'
    BY <2>2, <2>3 DEF Tally, Failed, Closing
  <2> QED BY <2>1, <2>4, CountPassive
<1> QED BY <1>3, <1>4, <1>5, <1>6 DEF InitStep

LEMMA CountRelease ==
  ASSUME Before, AllWell', NEW t \in Thread, ReleaseStep(t)
  PROVE  CountInv'
<1>0. /\ ProcessOf[t] \in Process /\ TypeInv /\ CountInv /\ Tally(t)
  BY ThreadsAssumption DEF Before, SessionInv, CountInv
<1>1. /\ session[t] => t \in Sessions(ProcessOf[t])
      /\ pc[t] \in Closing /\ ~session[t] <=> Failed(t)
  BY DEF Sessions, Failed
<1>2. Failed(t) => tasks[ProcessOf[t]] = 0
  BY <1>0, FS_EmptySet DEF CountInv, Tally
<1>3. CASE ReleaseLock(t)
  <2>1. Usable(ProcessOf[t])
    BY <1>3, WellSteps
  <2>2. pc[t] = "release" /\ Goto(t, "count") /\ UNCHANGED <<flag, opened, tasks, session, saw>>
    BY <1>3, <2>1 DEF ReleaseLock, procVars
  <2>3. pc'[t] = "count" /\ (Failed(t)' => Failed(t))
    BY <1>0, <2>2 DEF Goto, TypeInv, Failed, Closing
  <2>4. Tally(t)'
    BY <1>0, <2>2, <2>3, SessionsSame DEF Tally, UnderVid
  <2> QED BY <2>2, <2>4, CountPassive
<1>4. CASE ReleaseOne(t)
  <2>1. /\ pc[t] = "count" /\ Goto(t, "uncount") /\ UNCHANGED <<flag, opened, tasks, session>>
        /\ \A u \in Thread \ {t} : saw'[u] = saw[u]
    BY <1>0, <1>4 DEF ReleaseOne, procVars, sharedVars, Read, TypeInv
  <2>2. saw'[t] = tasks[ProcessOf[t]] /\ tasks[ProcessOf[t]] > 1
    BY <1>0, <1>4 DEF ReleaseOne, Read, LastTask, TypeInv
  <2>3. pc'[t] = "uncount" /\ ~Failed(t)'
    BY <1>0, <1>1, <1>2, <2>1, <2>2 DEF Goto, TypeInv, Failed, Closing
  <2>4. Tally(t)'
    BY <2>1, <2>2, <2>3 DEF Tally, UnderVid
  <2> QED BY <2>1, <2>4, CountPassive
<1>5. CASE ReleaseLast(t)
  <2>1. pc[t] = "count" /\ Goto(t, "close") /\ UNCHANGED <<flag, opened, tasks, session, saw>>
    BY <1>5 DEF ReleaseLast
  <2>2. Cardinality(Sessions(ProcessOf[t])) <= 1
    BY <1>0, <1>5 DEF CountInv, ReleaseLast, LastTask
  <2>3. Sessions(ProcessOf[t]) \subseteq {t}
    <3>1. CASE session[t]
      <4>1. Cardinality({t}) = 1 /\ {t} \subseteq Sessions(ProcessOf[t])
        BY <1>1, <3>1, FS_Singleton
      <4>2. IsFiniteSet(Sessions(ProcessOf[t])) /\ Cardinality(Sessions(ProcessOf[t])) \in Nat
        BY <1>0, SessionsFinite
      <4>3. Cardinality({t}) <= Cardinality(Sessions(ProcessOf[t]))
        BY <4>1, <4>2, FS_Subset
      <4>4. Cardinality({t}) = Cardinality(Sessions(ProcessOf[t]))
        BY <2>2, <4>1, <4>2, <4>3
      <4> QED BY <4>1, <4>2, <4>4, FS_Subset
    <3>2. CASE ~session[t]
      BY <1>0, <1>1, <2>1, <3>2 DEF Tally, Closing
    <3> QED BY <3>1, <3>2
  <2>4. pc'[t] = "close" /\ (Failed(t)' => Failed(t))
    BY <1>0, <2>1 DEF Goto, TypeInv, Failed, Closing
  <2>5. Tally(t)'
    BY <1>0, <2>1, <2>3, <2>4, SessionsSame DEF Tally, UnderVid
  <2> QED BY <2>1, <2>5, CountPassive
<1>6. CASE ReleaseUncount(t) \/ ReleaseClose(t)
  <2>1. /\ pc[t] \in {"uncount", "close"} /\ EndSession(t) /\ Goto(t, "idle")
        /\ UNCHANGED saw
    BY <1>6 DEF ReleaseUncount, ReleaseClose, EndSession, sharedVars
  <2>2. \A u \in Thread \ {t} : session'[u] = session[u]
    BY <1>0, <2>1 DEF EndSession, TypeInv
  <2>3. \A u \in Thread \ {t} : ProcessOf[u] = ProcessOf[t] => Quiet(u)
    BY <2>1, ClosingIsAlone
  <2>4. /\ \A p \in Process : p # ProcessOf[t] => Sessions(p)' = Sessions(p)
        /\ Sessions(ProcessOf[t])' = Sessions(ProcessOf[t]) \ {t}
        /\ session[t] => Cardinality(Sessions(ProcessOf[t]))' = Cardinality(Sessions(ProcessOf[t])) - 1
    BY <1>0, <2>1, SessionEnded
  <2>5. \A p \in Process : p # ProcessOf[t] =>
           tasks'[p] = tasks[p] /\ opened'[p] = opened[p] /\ flag'[p] = flag[p]
    BY <1>0, <1>6 DEF ReleaseUncount, ReleaseClose, TypeInv
  <2>6. tasks'[ProcessOf[t]] = Cardinality(Sessions(ProcessOf[t]))'
    <3>1. CASE ReleaseUncount(t)
      <4>1. tasks'[ProcessOf[t]] = tasks[ProcessOf[t]] - 1 /\ tasks[ProcessOf[t]] > 1
        BY <1>0, <3>1 DEF ReleaseUncount, TypeInv, Tally
      <4>2. session[t]
        BY <1>1, <1>2, <2>1, <4>1 DEF Closing
      <4> QED BY <1>0, <2>4, <4>1, <4>2 DEF CountInv
    <3>2. CASE ReleaseClose(t)
      <4>1. Sessions(ProcessOf[t])' = {}
        BY <1>0, <2>4, <3>2 DEF ReleaseClose, Tally
      <4>2. tasks'[ProcessOf[t]] = 0
        BY <1>0, <3>2 DEF ReleaseClose, TypeInv
      <4>3. Cardinality(Sessions(ProcessOf[t])') = 0
        BY <4>1, FS_EmptySet
      <4> QED BY <4>2, <4>3
    <3> QED BY <1>6, <3>1, <3>2
  <2>7. \A u \in Thread \ {t} : Tally(u)'
    <3> SUFFICES ASSUME NEW u \in Thread \ {t} PROVE Tally(u)'
      OBVIOUS
    <3> QED BY <2>1, <2>2, <2>3, <2>4, <2>5, OthersTally
  <2>8. Tally(t)'
    <3>1. pc'[t] = "idle"
      BY <1>0, <2>1 DEF Goto, TypeInv
    <3> QED BY <3>1 DEF Tally, UnderVid, Failed, Closing
  <2>9. \A p \in Process : tasks'[p] = Cardinality(Sessions(p))'
    BY <1>0, <2>4, <2>5, <2>6 DEF CountInv
  <2> QED BY <2>7, <2>8, <2>9 DEF CountInv
<1> QED BY <1>3, <1>4, <1>5, <1>6 DEF ReleaseStep

LEMMA CountStep == ASSUME Before, AllWell', NEW t \in Thread, Step(t) PROVE CountInv'
<1>0. TypeInv /\ Tally(t)
  BY DEF Before, SessionInv, CountInv
<1>1. CASE InitCall(t) \/ Enter(t) \/ UseStep(t)
  <2>1. PICK label \in {"init", "enter", "using", "using_unlocked", "idle"} : Goto(t, label)
    BY <1>1 DEF InitCall, Enter, UseStep, EnterLock, LeaveLock
  <2>2. UNCHANGED <<flag, opened, tasks, session, saw>>
    BY <1>1 DEF InitCall, Enter, UseStep, EnterLock, LeaveLock, procVars
  <2>3. pc'[t] = label
    BY <1>0, <2>1 DEF Goto, TypeInv
  <2>4. Tally(t)'
    BY <2>1, <2>3 DEF Tally, UnderVid, Failed, Closing
  <2> QED BY <2>1, <2>2, <2>4, CountPassive
<1>2. CASE ReleaseCall(t)
  <2>1. session[t] /\ Goto(t, "release") /\ UNCHANGED <<flag, opened, tasks, session, saw>>
    BY <1>2 DEF ReleaseCall, procVars
  <2>2. pc'[t] = "release" /\ ~Failed(t)'
    BY <1>0, <2>1 DEF Goto, TypeInv, Failed
  <2>3. Tally(t)'
    BY <2>2 DEF Tally, UnderVid
  <2> QED BY <2>1, <2>3, CountPassive
<1> QED BY <1>1, <1>2, CountInit, CountRelease DEF Step

\* A device is there for its sessions until the last of them closes it.
LEMMA DeviceStep == 
  ASSUME Before, AllWell', NEW t \in Thread, Step(t), NEW p \in Process
  PROVE  Device(p)'
<1> DEFINE Calm == \A u \in Thread : ProcessOf[u] = p => pc[u] # "close" /\ ~Failed(u)
<1>0. /\ ProcessOf[t] \in Process /\ TypeInv /\ CountInv /\ Tally(t) /\ Device(p)
      /\ Device(ProcessOf[t])
  BY ThreadsAssumption DEF Before, SessionInv, CountInv, DeviceInv
<1>1. ReleaseLock(t) => Usable(ProcessOf[t])
  BY WellSteps
<1>2. pc[t] \in Opening =>
        /\ ~session[t]
        /\ \A u \in Thread : ProcessOf[u] = ProcessOf[t] => pc[u] # "close" /\ ~Failed(u)
  BY DEF Before, SessionInv, CallInv, Fellows, Closing, Failed
\* Nothing Device(p) speaks of changes, and no thread leaves or reaches close.
<1>3. ASSUME UNCHANGED <<flag, opened, mapped, session>>, NEW label, Goto(t, label),
             pc[t] # "close", label # "close",
             session[t] \/ (pc[t] \in Closing <=> label \in Closing)
      PROVE  Device(p)'
  <2>1. \A u \in Thread : /\ pc'[u] = "close" <=> pc[u] = "close"
                          /\ Failed(u)' <=> Failed(u)
    <3>1. pc'[t] = label /\ \A u \in Thread : u # t => pc'[u] = pc[u]
      BY <1>0, <1>3 DEF Goto, TypeInv
    <3>2. \A u \in Thread : Failed(u)' <=> Failed(u)
      <4>1. \A u \in Thread \ {t} : Failed(u)' <=> Failed(u)
        BY <1>3, <3>1 DEF Failed
      <4>2. Failed(t)' <=> Failed(t)
        <5>1. CASE session[t]
          BY <1>3, <5>1 DEF Failed
        <5>2. CASE pc[t] \in Closing <=> label \in Closing
          BY <1>3, <3>1, <5>2 DEF Failed
        <5> QED BY <1>3, <5>1, <5>2
      <4> QED BY <4>1, <4>2
    <3> QED BY <1>3, <3>1, <3>2
  <2>2. Calm' => Calm
    <3> SUFFICES ASSUME Calm', NEW u \in Thread, ProcessOf[u] = p
                 PROVE  pc[u] # "close" /\ ~Failed(u)
      OBVIOUS
    <3>1. pc'[u] # "close" /\ ~Failed(u)'
      OBVIOUS
    <3>2. (pc'[u] = "close" <=> pc[u] = "close") /\ (Failed(u)' <=> Failed(u))
      BY <2>1
    <3> QED BY <3>1, <3>2
  <2>3. Sessions(p)' = Sessions(p)
    BY <1>3, SessionsSame
  <2>4. Calm => (Sessions(p) # {} => opened[p] /\ flag[p] = "done")
                /\ (opened[p] /\ flag[p] = "done" => mapped[p])
    BY <1>0 DEF Device
  <2> HIDE DEF Calm
  <2>5. Calm' => (Sessions(p)' # {} => opened'[p] /\ flag'[p] = "done")
                 /\ (opened'[p] /\ flag'[p] = "done" => mapped'[p])
    BY <1>3, <2>2, <2>3, <2>4
  <2> USE DEF Calm
  <2> QED BY <2>5 DEF Device
<1>4. CASE InitCall(t) \/ Enter(t) \/ ReleaseCall(t)
  BY <1>3, <1>4 DEF InitCall, Enter, ReleaseCall, procVars, Closing
<1>5. CASE UseStep(t)
  BY <1>3, <1>5 DEF UseStep, EnterLock, LeaveLock, procVars, Closing
<1>6. CASE InitSetup(t) \/ InitPool(t) \/ InitLock(t) \/ ReleaseLock(t) \/ ReleaseOne(t)
  BY <1>1, <1>3, <1>6 DEF InitSetup, InitPool, InitLock, ReleaseLock, ReleaseOne, procVars, Closing
\* Of another process nothing changes.
<1>7. ASSUME NEW label, Goto(t, label), p # ProcessOf[t], Sessions(p)' = Sessions(p),
             opened'[p] = opened[p], flag'[p] = flag[p], mapped'[p] = mapped[p],
             \A u \in Thread \ {t} : session'[u] = session[u]
      PROVE  Device(p)'
  <2>1. \A u \in Thread : ProcessOf[u] = p => pc'[u] = pc[u] /\ (Failed(u)' <=> Failed(u))
    BY <1>0, <1>7 DEF Goto, TypeInv, Failed
  <2> QED BY <1>0, <1>7, <2>1 DEF Device
<1>8. CASE InitEnter(t)
  <2>1. /\ Goto(t, "already") \/ Goto(t, "open")
        /\ UNCHANGED <<opened, session>> /\ pc[t] = "init"
    BY <1>8 DEF InitEnter
  <2>2. CASE p # ProcessOf[t]
    <3>1. flag'[p] = flag[p] /\ mapped'[p] = mapped[p]
      BY <1>0, <1>8, <2>2 DEF InitEnter, TypeInv
    <3> QED BY <1>7, <2>1, <2>2, <3>1, SessionsSame
  <2>3. CASE p = ProcessOf[t] /\ opened[p] /\ flag[p] = "done"
    <3>1. UNCHANGED <<flag, mapped>>
      BY <1>8, <2>3 DEF InitEnter
    <3> QED BY <1>3, <1>8, <2>1, <2>3, <3>1 DEF InitEnter, Closing
  <2>4. CASE p = ProcessOf[t] /\ ~(opened[p] /\ flag[p] = "done")
    <3>1. Sessions(p)' = {}
      BY <1>0, <1>2, <2>1, <2>4, SessionsSame DEF Device, Opening
    <3>2. flag'[p] = "busy"
      BY <1>0, <1>8, <2>4 DEF InitEnter, TypeInv
    <3> QED BY <3>1, <3>2 DEF Device
  <2> QED BY <2>2, <2>3, <2>4
<1>9. CASE InitAlready(t) \/ InitCommon(t)
  <2>1. pc[t] \in Opening /\ ~session[t] /\ OpenSession(t) /\ Goto(t, "idle")
    BY <1>2, <1>9 DEF InitAlready, InitCommon, Opening
  <2>2. CASE p # ProcessOf[t]
    <3>1. /\ flag'[p] = flag[p] /\ mapped'[p] = mapped[p] /\ opened'[p] = opened[p]
          /\ \A u \in Thread \ {t} : session'[u] = session[u]
      BY <1>0, <1>9, <2>1, <2>2 DEF InitAlready, InitCommon, OpenSession, TypeInv
    <3> QED BY <1>0, <1>7, <2>1, <2>2, <3>1, SessionOpened
  <2>3. CASE p = ProcessOf[t]
    <3>1. opened'[p] /\ flag'[p] = "done" /\ mapped'[p]
      <4>1. CASE InitAlready(t)
        BY <1>0, <1>2, <2>1, <2>3, <4>1 DEF InitAlready, Tally, Device
      <4>2. CASE InitCommon(t)
        BY <1>0, <2>3, <4>2 DEF InitCommon, Tally, TypeInv
      <4> QED BY <1>9, <4>1, <4>2
    <3> QED BY <3>1 DEF Device
  <2> QED BY <2>2, <2>3
<1>10. CASE InitOpen(t) \/ InitOpenFails(t)
  <2>1. /\ Goto(t, "setup") \/ Goto(t, "idle")
        /\ UNCHANGED <<session, mapped>> /\ Sessions(ProcessOf[t])' = {}
    BY <1>0, <1>10, SessionsSame DEF InitOpen, InitOpenFails, Tally, UnderVid
  <2>2. CASE p # ProcessOf[t]
    <3>1. flag'[p] = flag[p] /\ opened'[p] = opened[p]
      BY <1>0, <1>10, <2>2 DEF InitOpen, InitOpenFails, TypeInv
    <3> QED BY <1>7, <2>1, <2>2, <3>1, SessionsSame
  <2>3. CASE p = ProcessOf[t]
    <3>1. ~(opened'[p] /\ flag'[p] = "done")
      BY <1>0, <1>10, <2>3 DEF InitOpen, InitOpenFails, TypeInv, Before, FlagInv
    <3> QED BY <2>1, <2>3, <3>1 DEF Device
  <2> QED BY <2>2, <2>3
<1>11. CASE ReleaseUncount(t)
  <2>0. pc[t] = "uncount" /\ tasks[ProcessOf[t]] > 1
    BY <1>0, <1>11 DEF ReleaseUncount, Tally
  <2>4. session[t]
    <3>1. tasks[ProcessOf[t]] = Cardinality(Sessions(ProcessOf[t]))
      BY <1>0 DEF CountInv
    <3>2. ~Failed(t)
      BY <1>0, <2>0, <3>1, FS_EmptySet DEF Tally
    <3> QED BY <2>0, <3>2 DEF Failed, Closing
  <2>1. /\ pc[t] = "uncount" /\ EndSession(t) /\ Goto(t, "idle") /\ session[t]
        /\ UNCHANGED <<opened, flag, mapped>>
    BY <1>11, <2>0, <2>4 DEF ReleaseUncount, EndSession
  <2>2. Sessions(p)' \subseteq Sessions(p)
    BY <1>0, <2>1, SessionEnded
  <2>3. \A u \in Thread : /\ pc'[u] = "close" <=> pc[u] = "close"
                          /\ Failed(u)' <=> Failed(u)
    <3>1. pc'[t] = "idle" /\ \A u \in Thread : u # t => pc'[u] = pc[u] /\ session'[u] = session[u]
      BY <1>0, <2>1 DEF Goto, TypeInv, EndSession
    <3>2. ~Failed(t)' /\ ~Failed(t)
      BY <2>1, <3>1 DEF Failed, Closing
    <3>3. \A u \in Thread \ {t} : Failed(u)' <=> Failed(u)
      BY <3>1 DEF Failed
    <3> QED BY <2>1, <3>1, <3>2, <3>3
  <2>5. Calm' => Calm
    <3> SUFFICES ASSUME Calm', NEW u \in Thread, ProcessOf[u] = p
                 PROVE  pc[u] # "close" /\ ~Failed(u)
      OBVIOUS
    <3>1. pc'[u] # "close" /\ ~Failed(u)'
      OBVIOUS
    <3>2. (pc'[u] = "close" <=> pc[u] = "close") /\ (Failed(u)' <=> Failed(u))
      BY <2>3
    <3> QED BY <3>1, <3>2
  <2>6. Calm => (Sessions(p) # {} => opened[p] /\ flag[p] = "done")
                /\ (opened[p] /\ flag[p] = "done" => mapped[p])
    BY <1>0 DEF Device
  <2> HIDE DEF Calm
  <2>7. Calm' => (Sessions(p)' # {} => opened'[p] /\ flag'[p] = "done")
                 /\ (opened'[p] /\ flag'[p] = "done" => mapped'[p])
    BY <2>1, <2>2, <2>5, <2>6
  <2> USE DEF Calm
  <2> QED BY <2>7 DEF Device
<1>12. CASE ReleaseLast(t)
  <2>1. Goto(t, "close") /\ UNCHANGED <<opened, flag, session>>
    BY <1>12 DEF ReleaseLast
  <2>2. CASE p # ProcessOf[t]
    <3>1. mapped'[p] = mapped[p]
      BY <1>0, <1>12, <2>2 DEF ReleaseLast, TypeInv
    <3> QED BY <1>7, <2>1, <2>2, <3>1, SessionsSame
  <2>3. CASE p = ProcessOf[t]
    <3>1. pc'[t] = "close"
      BY <1>0, <2>1 DEF Goto, TypeInv
    <3> QED BY <2>3, <3>1 DEF Device
  <2> QED BY <2>2, <2>3
<1>13. CASE ReleaseClose(t)
  <2>1. pc[t] = "close" /\ EndSession(t) /\ Goto(t, "idle")
    BY <1>13 DEF ReleaseClose, EndSession
  <2>2. CASE p # ProcessOf[t]
    <3>1. /\ flag'[p] = flag[p] /\ opened'[p] = opened[p] /\ mapped'[p] = mapped[p]
          /\ \A u \in Thread \ {t} : session'[u] = session[u]
      BY <1>0, <1>13, <2>1, <2>2 DEF ReleaseClose, EndSession, TypeInv
    <3> QED BY <1>0, <1>7, <2>1, <2>2, <3>1, SessionEnded
  <2>3. CASE p = ProcessOf[t]
    <3>1. Sessions(p)' = {}
      BY <1>0, <2>1, <2>3, SessionEnded DEF Tally
    <3>2. ~opened'[p]
      BY <1>0, <1>13, <2>3 DEF ReleaseClose, TypeInv
    <3> QED BY <3>1, <3>2 DEF Device
  <2> QED BY <2>2, <2>3
\* A vdi_init that fails goes on to close the device.
<1>14. CASE InitFails(t)
  <2>1. /\ Goto(t, "release") /\ UNCHANGED <<opened, mapped, session>>
        /\ pc[t] \in Opening
    BY <1>14 DEF InitFails, Opening
  <2>2. CASE p # ProcessOf[t]
    <3>1. flag'[p] = flag[p]
      BY <1>0, <1>14, <2>2 DEF InitFails, TypeInv
    <3> QED BY <1>7, <2>1, <2>2, <3>1, SessionsSame
  <2>3. CASE p = ProcessOf[t]
    <3>1. Failed(t)'
      BY <1>0, <1>2, <2>1 DEF Goto, TypeInv, Failed, Closing
    <3> QED BY <2>3, <3>1 DEF Device
  <2> QED BY <2>2, <2>3
<1> QED
  BY <1>1, <1>4, <1>5, <1>6, <1>8, <1>9, <1>10, <1>11, <1>12, <1>13, <1>14
  DEF Step, InitStep, ReleaseStep

\* A process that dies takes its sessions with it and leaves the others theirs.
LEMMA DeathStep == ASSUME Before, NEW p \in Process, Die(p) PROVE SessionInv'
<1>0. TypeInv /\ SessionInv
  BY DEF Before
<1>1. /\ \A t \in Thread : ProcessOf[t] = p => pc'[t] = "dead" /\ ~session'[t]
      /\ \A t \in Thread : ProcessOf[t] # p => pc'[t] = pc[t] /\ session'[t] = session[t]
  BY <1>0 DEF Die, TypeInv
<1>2. /\ flag'[p] = "null" /\ opened'[p] = FALSE /\ tasks'[p] = 0
      /\ \A q \in Process : q # p => /\ flag'[q] = flag[q] /\ opened'[q] = opened[q]
                                     /\ tasks'[q] = tasks[q] /\ mapped'[q] = mapped[q]
      /\ UNCHANGED <<vpuMutex, poolInited, saw>>
  BY <1>0 DEF Die, TypeInv, sharedVars
<1>3. Sessions(p)' = {} /\ \A q \in Process : q # p => Sessions(q)' = Sessions(q)
  BY <1>1 DEF Sessions
<1>4. \A t \in Thread : /\ ProcessOf[t] \in Process
                        /\ ProcessOf[t] = p => ~Failed(t)'
                        /\ ProcessOf[t] # p => (Failed(t)' <=> Failed(t))
  <2>1. \A t \in Thread : ProcessOf[t] = p => ~Failed(t)'
    BY <1>1 DEF Failed, Closing
  <2>2. \A t \in Thread : ProcessOf[t] # p => (Failed(t)' <=> Failed(t))
    BY <1>1 DEF Failed
  <2> QED BY <2>1, <2>2, ThreadsAssumption
<1>5. VpuInv' /\ PoolInv'
  BY <1>0, <1>1, <1>2 DEF SessionInv, VpuInv, PoolInv, HoldsVpu
<1>6. CallInv'
  BY <1>0, <1>1, <1>4 DEF SessionInv, CallInv, Fellows, AnyFellow, Opening, Closing
<1>7. CountInv'
  <2>1. \A q \in Process : tasks'[q] = Cardinality(Sessions(q)')
    BY <1>0, <1>2, <1>3, FS_EmptySet DEF SessionInv, CountInv
  <2>2. ASSUME NEW t \in Thread PROVE Tally(t)'
    <3>1. CASE ProcessOf[t] = p
      BY <1>1, <1>4, <3>1 DEF Tally, UnderVid
    <3>2. CASE ProcessOf[t] # p
      <4>1. Tally(t)
        BY <1>0 DEF SessionInv, CountInv
      <4> QED BY <1>1, <1>2, <1>3, <1>4, <3>2, <4>1 DEF Tally
    <3> QED BY <3>1, <3>2
  <2> QED BY <2>1, <2>2 DEF CountInv
<1>8. ASSUME NEW q \in Process PROVE Device(q)'
  <2>1. CASE q = p
    BY <1>2, <1>3, <2>1 DEF Device
  <2>2. CASE q # p
    <3>1. Device(q)
      BY <1>0 DEF SessionInv, DeviceInv
    <3> QED BY <1>1, <1>2, <1>3, <1>4, <2>2, <3>1 DEF Device
  <2> QED BY <2>1, <2>2
<1> QED BY <1>5, <1>6, <1>7, <1>8 DEF SessionInv, DeviceInv

LEMMA SessionStep == ASSUME Before, [Next]_vars, AllWell' PROVE SessionInv'
<1>1. ASSUME NEW t \in Thread, Step(t) PROVE SessionInv'
  BY <1>1, VpuStep, PoolStep, CallStep, CountStep, DeviceStep DEF SessionInv, DeviceInv
<1>2. ASSUME UNCHANGED vars PROVE SessionInv'
  <2>1. UNCHANGED <<flag, opened, tasks, mapped, vpuMutex, poolInited, pc, saw, session>>
    BY <1>2 DEF vars, procVars, sharedVars, threadVars
  <2>2. \A p \in Process : Sessions(p)' = Sessions(p)
    BY <2>1, SessionsSame
  <2>3. SessionInv
    BY DEF Before
  <2>4. VpuInv' /\ PoolInv' /\ CallInv'
    BY <2>1, <2>3 DEF SessionInv, VpuInv, PoolInv, CallInv, HoldsVpu, Fellows, Failed, AnyFellow
  <2>5. CountInv'
    BY <2>1, <2>2, <2>3, ThreadsAssumption DEF SessionInv, CountInv, Tally, Failed
  <2>6. DeviceInv'
    BY <2>1, <2>2, <2>3 DEF SessionInv, DeviceInv, Device, Failed
  <2> QED BY <2>4, <2>5, <2>6 DEF SessionInv
<1> QED BY <1>1, <1>2, DeathStep, StepOrDeath

LEMMA WellInv == Spec => [](FileInv /\ (AllWell => SessionInv))
<1>1. Init => FileInv /\ (AllWell => SessionInv)
  BY FileInvInit, SessionInvInit
<1>2. FileInv /\ (AllWell => SessionInv) /\ [Next]_vars => (FileInv /\ (AllWell => SessionInv))'
  <2> SUFFICES ASSUME FileInv, AllWell => SessionInv, [Next]_vars
               PROVE  FileInv' /\ (AllWell' => SessionInv')
    OBVIOUS
  <2>1. FileInv'
    BY FileStep
  <2>2. ASSUME AllWell' PROVE SessionInv'
    <3>1. AllWell
      BY <2>2, WellBefore
    <3>2. Before
      BY <3>1 DEF Before, FileInv, VidRules
    <3> QED BY <2>2, <3>2, SessionStep
  <2> QED BY <2>1, <2>2
<1> QED BY <1>1, <1>2, PTL DEF Spec

\* vpu_mutex excludes all threads of all processes from each other until two openings make the
\* mutex, a failed opening frees it for another thread, or an opening overlaps a closing.
THEOREM LockExcludes == Spec => []MutualExclusion
<1>1. FileInv /\ (AllWell => SessionInv) => MutualExclusion
  BY DEF SessionInv, VpuInv, MutualExclusion
<1> QED BY <1>1, WellInv, PTL

\* An open session has its device as long as all is well, whatever fails and whoever dies.
THEOREM SessionsAreServed == Spec => []SessionHasDevice
<1>1. FileInv /\ (AllWell => SessionInv) => SessionHasDevice
  BY SessionUsable DEF FileInv, SessionHasDevice
<1> QED BY <1>1, WellInv, PTL

\* task_num is the number of sessions as long as all is well, though it is counted up under
\* one mutex and down under another.
THEOREM SessionsAreCounted == Spec => []TasksCounted
<1>1. FileInv /\ (AllWell => SessionInv) => TasksCounted
  BY DEF SessionInv, CountInv, TasksCounted
<1> QED BY <1>1, WellInv, PTL

\* As long as all is well only the last session, or a failed opening where there is no
\* session, tears the device down.
THEOREM LastSessionCloses == Spec => []AloneTearsDown
<1>1. FileInv /\ (AllWell => SessionInv) => AloneTearsDown
  <2> SUFFICES ASSUME SessionInv, NEW t \in Thread, NEW u \in Thread, pc[t] = "close", session[u],
                      ProcessOf[t] = ProcessOf[u]
               PROVE  t = u
    BY DEF AloneTearsDown, TeardownIsLast
  <2>1. Sessions(ProcessOf[t]) \subseteq {t}
    BY DEF SessionInv, CountInv, Tally
  <2> QED BY <2>1 DEF Sessions
<1> QED BY <1>1, WellInv, PTL
=============================================================================
