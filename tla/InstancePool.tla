------------------------------ MODULE InstancePool -----------------------------
(***************************************************************************)
(* The pool of codec instances all processes share: VPU_EncOpen and        *)
(* VPU_EncClose of multiEnc/vpuapi/vpuapi.c over codecInstPool and         *)
(* vpu_instance_num of multiEnc/vpuapi/vdi.c, with the instances the       *)
(* kernel driver keeps.                                                    *)
(*                                                                         *)
(* An instance is opened under vpu_mutex, but given back after it has been *)
(* released: while one context searches the pool another one may be in     *)
(* the middle of FreeCodecInstance.                                        *)
(***************************************************************************)
EXTENDS Integers, FiniteSets

CONSTANTS Context,      \* encoder contexts, each used by one thread at a time
          Nobody,       \* the holder of a free mutex, the owner of no memory
          SlotNum,      \* MAX_NUM_INSTANCE
          OpenMax,      \* bound: times a context is opened
          Faults        \* open, close: the driver refuses to open, to close an instance;
                        \* build: its parameters are refused; reset: the VPU is not initialised

ASSUME NobodyAssumption == Nobody \notin Context
ASSUME BoundsAssumption == SlotNum \in Nat \ {0} /\ OpenMax \in Nat
ASSUME FaultsAssumption == Faults \subseteq {"open", "close", "build", "reset"}

Slot == 0 .. SlotNum - 1

VARIABLES
    \* vpu_instance_pool_t, shared by all processes
    inUse,      \* the slots with inUse set
    mode,       \* the slots with a codecMode
    info,       \* CodecInfo of each slot: the context it was allocated for
    num,        \* vpu_instance_num
    mutex,      \* who holds vpu_mutex
    \* the contexts
    pc,
    at,         \* the slot a search looks at, then the instance of the context
    saw,        \* inst_open_count, as the driver returned it
    opens,      \* how often it was opened
    \* the driver
    opened,     \* the instances it has open
    \* history
    lost        \* the slots that openings have left behind

poolVars == <<inUse, mode, info, num>>
contextVars == <<pc, at, saw, opens>>
vars == <<poolVars, mutex, contextVars, opened, lost>>

\* The pool as InitCodecInstancePool leaves it.
Init == /\ inUse = {} /\ mode = {}
        /\ info = [i \in Slot |-> Nobody]
        /\ num = 0 /\ mutex = Nobody
        /\ pc = [c \in Context |-> "closed"]
        /\ at = [c \in Context |-> 0] /\ saw = [c \in Context |-> 0]
        /\ opens = [c \in Context |-> 0]
        /\ opened = {} /\ lost = {}
-----------------------------------------------------------------------------
Goto(c, label) == pc' = [pc EXCEPT ![c] = label]
Lock_Ignored(c) == mutex' = c
Lock(c) == mutex = Nobody /\ mutex' = c
Unlock == mutex' = Nobody
\* The driver answers with the number of instances it has open now.
Driver(c, instances) == /\ opened' = instances
                        /\ saw' = [saw EXCEPT ![c] = Cardinality(instances)]
Recount(c) == num' = saw[c] /\ saw' = [saw EXCEPT ![c] = 0]

(* VPU_EncOpen *)

Open(c) ==
    /\ pc[c] = "closed" /\ opens[c] < OpenMax
    /\ opens' = [opens EXCEPT ![c] = @ + 1]
    /\ Goto(c, "open")
    /\ UNCHANGED <<poolVars, mutex, at, saw, opened, lost>>

OpenEnter(c) ==
    /\ pc[c] = "open"
    /\ Lock(c)
    /\ at' = [at EXCEPT ![c] = 0]
    /\ Goto(c, "search")
    /\ UNCHANGED <<poolVars, saw, opens, opened, lost>>

\* RETCODE_NOT_INITIALIZED: the VPU has been reset and lost its firmware.
OpenRefused(c) ==
    /\ pc[c] = "open" /\ "reset" \in Faults
    /\ mutex = Nobody
    /\ Goto(c, "closed")
    /\ UNCHANGED <<poolVars, mutex, at, saw, opens, opened, lost>>

IsFree(i) == i \notin inUse
SlotsLeft(i) == i + 1 < SlotNum

Search(c) ==
    /\ pc[c] = "search" /\ ~IsFree(at[c]) /\ SlotsLeft(at[c])
    /\ at' = [at EXCEPT ![c] = @ + 1]
    /\ UNCHANGED <<poolVars, mutex, pc, saw, opens, opened, lost>>

\* RETCODE_FAILURE: no slot was free when it was looked at.
SearchEnds(c) ==
    /\ pc[c] = "search" /\ ~IsFree(at[c]) /\ ~SlotsLeft(at[c])
    /\ Unlock
    /\ Goto(c, "closed")
    /\ UNCHANGED <<poolVars, at, saw, opens, opened, lost>>

Found(c) ==
    /\ pc[c] = "search" /\ IsFree(at[c])
    /\ Goto(c, "take")
    /\ UNCHANGED <<poolVars, mutex, at, saw, opens, opened, lost>>

\* A slot that is not in use is nobody else's: its words are set in one step.
Take(c) ==
    /\ pc[c] = "take"
    /\ inUse' = inUse \cup {at[c]}
    /\ mode' = mode \ {at[c]}
    /\ info' = [info EXCEPT ![at[c]] = c]
    /\ Goto(c, "register")
    /\ UNCHANGED <<num, mutex, at, saw, opens, opened, lost>>

\* vdi_open_instance
Register(c) ==
    /\ pc[c] = "register"
    /\ Driver(c, opened \cup {at[c]})
    /\ Goto(c, "count")
    /\ UNCHANGED <<poolVars, mutex, at, opens, lost>>

\* What a failed opening took from the pool stays taken.
LeaveBehind(i) == lost' = lost \cup {i}

RegisterFails(c) ==
    /\ pc[c] = "register" /\ "open" \in Faults
    /\ LeaveBehind(at[c])
    /\ Unlock
    /\ Goto(c, "closed")
    /\ UNCHANGED <<poolVars, at, saw, opens, opened>>

OpenCount(c) ==
    /\ pc[c] = "count"
    /\ Recount(c)
    /\ Goto(c, "build")
    /\ UNCHANGED <<inUse, mode, info, mutex, at, opens, opened, lost>>

\* ProductVpuEncBuildUpOpenParam, up to the command that creates the instance
Build(c) ==
    /\ pc[c] = "build"
    /\ mode' = mode \cup {at[c]}
    /\ Unlock
    /\ Goto(c, "held")
    /\ UNCHANGED <<inUse, info, num, at, saw, opens, opened, lost>>

\* It fails before it has set the mode or after.
BuildFails(c) ==
    /\ pc[c] = "build" /\ "build" \in Faults
    /\ mode' \in {mode, mode \cup {at[c]}}
    /\ LeaveBehind(at[c])
    /\ Unlock
    /\ Goto(c, "closed")
    /\ UNCHANGED <<inUse, info, num, at, saw, opens, opened>>
-----------------------------------------------------------------------------
(* VPU_EncClose *)

\* CheckEncInstanceValidity, before the lock.  InstanceIsWhole says that it never
\* refuses the instance of a context.
IsValid(i) == i \in inUse /\ i \in mode

Close(c) ==
    /\ pc[c] = "held" /\ IsValid(at[c])
    /\ Goto(c, "close")
    /\ UNCHANGED <<poolVars, mutex, at, saw, opens, opened, lost>>

CloseEnter(c) ==
    /\ pc[c] = "close"
    /\ Lock(c)
    /\ Goto(c, "finish")
    /\ UNCHANGED <<poolVars, at, saw, opens, opened, lost>>

\* The VPU has not finished: RETCODE_VPU_STILL_RUNNING.
StillRunning(c) ==
    /\ pc[c] = "finish"
    /\ Unlock
    /\ Goto(c, "held")
    /\ UNCHANGED <<poolVars, at, saw, opens, opened, lost>>

CloseLeave(c) ==
    /\ pc[c] = "finish"
    /\ Unlock
    /\ Goto(c, "free")
    /\ UNCHANGED <<poolVars, at, saw, opens, opened, lost>>

(* FreeCodecInstance *)

FreeMode_FreesFirst(c) ==
    /\ pc[c] = "free"
    /\ mode' = mode \ {at[c]} /\ inUse' = inUse \ {at[c]}
    /\ Goto(c, "unregister")
    /\ UNCHANGED <<info, num, mutex, at, saw, opens, opened, lost>>

FreeMode(c) ==
    /\ pc[c] = "free"
    /\ mode' = mode \ {at[c]}
    /\ Goto(c, "unregister")
    /\ UNCHANGED <<inUse, info, num, mutex, at, saw, opens, opened, lost>>

\* vdi_close_instance
Unregister(c) ==
    /\ pc[c] = "unregister"
    /\ Driver(c, opened \ {at[c]})
    /\ Goto(c, "uncount")
    /\ UNCHANGED <<poolVars, mutex, at, opens, lost>>

\* The driver keeps the instance and vpu_instance_num its value: what vdi_close_instance
\* answers is not looked at.
UnregisterFails(c) ==
    /\ pc[c] = "unregister" /\ "close" \in Faults
    /\ Goto(c, "clear")
    /\ UNCHANGED <<poolVars, mutex, at, saw, opens, opened, lost>>

CloseCount(c) ==
    /\ pc[c] = "uncount"
    /\ Recount(c)
    /\ Goto(c, "clear")
    /\ UNCHANGED <<inUse, mode, info, mutex, at, opens, opened, lost>>

FreeInfo(c) ==
    /\ pc[c] = "clear"
    /\ info' = [info EXCEPT ![at[c]] = Nobody]
    /\ Goto(c, "unuse")
    /\ UNCHANGED <<inUse, mode, num, mutex, at, saw, opens, opened, lost>>

FreeSlot_Forgotten(c) ==
    /\ pc[c] = "unuse"
    /\ Goto(c, "closed")
    /\ UNCHANGED <<poolVars, mutex, at, saw, opens, opened, lost>>

FreeSlot(c) ==
    /\ pc[c] = "unuse"
    /\ inUse' = inUse \ {at[c]}
    /\ Goto(c, "closed")
    /\ UNCHANGED <<mode, info, num, mutex, at, saw, opens, opened, lost>>

OpenStep(c) == \/ OpenEnter(c) \/ OpenRefused(c) \/ Search(c) \/ SearchEnds(c) \/ Found(c) \/ Take(c)
               \/ Register(c) \/ RegisterFails(c) \/ OpenCount(c) \/ Build(c) \/ BuildFails(c)
CloseStep(c) == CloseEnter(c) \/ StillRunning(c) \/ CloseLeave(c)
FreeStep(c) == \/ FreeMode(c) \/ Unregister(c) \/ UnregisterFails(c)
               \/ CloseCount(c) \/ FreeInfo(c) \/ FreeSlot(c)
\* What a context does once it has called VPU_EncOpen or VPU_EncClose.
CallStep(c) == OpenStep(c) \/ CloseStep(c) \/ FreeStep(c)

Next == \E c \in Context : Open(c) \/ Close(c) \/ CallStep(c)

Spec == Init /\ [][Next]_vars
-----------------------------------------------------------------------------
\* A context has a slot of its own from the taking of the slot to its return.
HoldingPcs == {"register", "count", "build", "held", "close", "finish",
               "free", "unregister", "uncount", "clear", "unuse"}
LockedPcs == {"search", "take", "register", "count", "build", "finish"}
Holding(c) == pc[c] \in HoldingPcs

\* Every variable has its type, the slot a search looks at is one of the pool
\* and vpu_instance_num is a number of instances there can be.
TypeInv ==
    /\ inUse \subseteq Slot /\ mode \subseteq Slot
    /\ info \in [Slot -> Context \cup {Nobody}]
    /\ num \in 0 .. SlotNum
    /\ mutex \in Context \cup {Nobody}
    /\ pc \in [Context -> {"closed", "open"} \cup HoldingPcs \cup LockedPcs]
    /\ at \in [Context -> Slot] /\ saw \in [Context -> 0 .. SlotNum]
    /\ opens \in [Context -> 0 .. OpenMax]
    /\ opened \subseteq Slot /\ lost \subseteq Slot

\* GetCodecInstance never gives the slot of one context to another, although
\* FreeCodecInstance gives slots back while it searches, outside of the lock.
OneOwner == \A c, d \in Context : Holding(c) /\ Holding(d) /\ at[c] = at[d] => c = d

\* An instance that is open stays whole whatever others open and close: its
\* handle is valid, its CodecInfo its own and its instance of the driver open.
\* This is what the order of the assignments of FreeCodecInstance is for.
InstanceIsWhole ==
    \A c \in Context : pc[c] \in {"held", "close", "finish", "free"} =>
        at[c] \in inUse \cap mode \cap opened /\ info[at[c]] = c

\* A slot is in use because a context has it or because an opening that failed
\* after GetCodecInstance left it behind; closing leaves nothing behind.
SlotsAccounted ==
    \A i \in Slot : i \in inUse <=> i \in lost \/ \E c \in Context : Holding(c) /\ at[c] = i
-----------------------------------------------------------------------------
(* What the properties rest on *)

\* vpu_mutex is held from EnterLock to LeaveLock and by nobody else.
LockInv == \A c \in Context : mutex = c <=> pc[c] \in LockedPcs

\* The slot of a context is in use, and a slot about to be taken is not.
UseInv ==
    /\ lost \subseteq inUse
    /\ \A c \in Context :
           /\ Holding(c) => at[c] \in inUse \ lost
           /\ pc[c] = "take" => at[c] \notin inUse

\* What belongs to a slot is there as long as its context needs it.
OpenInv ==
    \A c \in Context :
        /\ pc[c] \in HoldingPcs \ {"unuse"} => info[at[c]] = c
        /\ pc[c] \in {"held", "close", "finish", "free"} => at[c] \in mode
        /\ pc[c] \in {"count", "build", "held", "close", "finish", "free", "unregister"} =>
               at[c] \in opened
=============================================================================
