------------------------------- MODULE BufferPool -------------------------------
(***************************************************************************)
(* The DMA buffers of one process, multiEnc/vpuapi/vdi.c: the kernel       *)
(* allocates and maps them, and vpu_buffer_pool remembers where each       *)
(* physical address is mapped, for vdi_read_memory and vdi_write_memory,   *)
(* which are given physical addresses, and for vdi_free_dma_memory.        *)
(*                                                                         *)
(* The slots change under vmem_mutex.  Reading and writing memory scans    *)
(* them without it, slot by slot.  A slot given free keeps its address,    *)
(* and vdi_free_dma_memory searches all slots, in use or not.              *)
(***************************************************************************)
EXTENDS Integers, FiniteSets

CONSTANTS Buffer,       \* vpu_buffer_t's of the program, each used by one thread at a time
          Addr, Virt,   \* physical and virtual address ranges the kernel gives out
          CommonAddr, CommonVirt,   \* those of the common memory
          NoAddr, NoVirt,
          Nobody,       \* the holder of a free mutex
          SlotNum       \* MAX_VPU_BUFFER_POOL

ASSUME AddressAssumption == /\ CommonAddr \in Addr /\ NoAddr \notin Addr
                            /\ CommonVirt \in Virt /\ NoVirt \notin Virt
ASSUME HolderAssumption == Nobody \notin Buffer
ASSUME SlotAssumption == SlotNum \in Nat \ {0}

Slot == 0 .. SlotNum - 1

VARIABLES
    slot,       \* vpu_buffer_pool[i].vdb
    inUse,      \* the slots with inuse set
    vmem,       \* who holds vmem_mutex
    \* the buffers and the calls made with them
    vb,         \* the caller's vpu_buffer_t
    pc,
    cursor,     \* the slot a call looks at
    vdb,        \* the call's copy of a slot
    \* the kernel
    allocated,  \* physical ranges given out
    mapped      \* virtual ranges given out

poolVars == <<slot, inUse, vmem>>
callVars == <<vb, pc, cursor, vdb>>
kernelVars == <<allocated, mapped>>
vars == <<poolVars, callVars, kernelVars>>

Empty == [addr |-> NoAddr, virt |-> NoVirt]
Common == [addr |-> CommonAddr, virt |-> CommonVirt]

\* vdi_init has emptied the pool and put the common memory in its first slot.
Init == /\ slot = [i \in Slot |-> IF i = 0 THEN Common ELSE Empty]
        /\ inUse = {0}
        /\ vmem = Nobody
        /\ vb = [b \in Buffer |-> Empty]
        /\ pc = [b \in Buffer |-> "none"]
        /\ cursor = [b \in Buffer |-> 0]
        /\ vdb = [b \in Buffer |-> Empty]
        /\ allocated = {CommonAddr}
        /\ mapped = {CommonVirt}
-----------------------------------------------------------------------------
Goto(b, label) == pc' = [pc EXCEPT ![b] = label]
\* The call returns, and its local variables with it.
Return(b, label) == /\ Goto(b, label)
                    /\ cursor' = [cursor EXCEPT ![b] = 0]
                    /\ vdb' = [vdb EXCEPT ![b] = Empty]
FirstOf(i, slots) == i \in slots /\ \A j \in slots : i <= j

(* vdi_allocate_dma_memory *)

Allocate(b) ==
    /\ pc[b] = "none"
    /\ \E a \in Addr \ allocated, v \in Virt \ mapped :
          /\ allocated' = allocated \cup {a}
          /\ mapped' = mapped \cup {v}
          /\ vb' = [vb EXCEPT ![b] = [addr |-> a, virt |-> v]]
    /\ Goto(b, "record")
    /\ UNCHANGED <<poolVars, cursor, vdb>>

\* mmap fails and the caller gives up.  The memory stays with the kernel until the device
\* is closed.
AllocateUnmapped(b) ==
    /\ pc[b] = "none"
    /\ \E a \in Addr \ allocated : allocated' = allocated \cup {a}
    /\ Goto(b, "unmapped")
    /\ UNCHANGED <<poolVars, vb, cursor, vdb, mapped>>

Takes_Last(i, slots) == i \in slots /\ \A j \in slots : j <= i
\* Which of the free slots is taken.
Takes(i, slots) == FirstOf(i, slots)

RecordFill(b) ==
    /\ pc[b] = "record" /\ vmem = Nobody
    /\ \E i \in Slot :
          /\ Takes(i, Slot \ inUse)
          /\ slot' = [slot EXCEPT ![i] = vb[b]]
          /\ cursor' = [cursor EXCEPT ![b] = i]
    /\ vmem' = b
    /\ Goto(b, "mark")
    /\ UNCHANGED <<inUse, vb, vdb, kernelVars>>

RecordMark(b) ==
    /\ pc[b] = "mark"
    /\ inUse' = inUse \cup {cursor[b]}
    /\ vmem' = Nobody
    /\ Return(b, "held")
    /\ UNCHANGED <<slot, vb, kernelVars>>

\* A full pool: the buffer is handed out all the same.
RecordNot(b) ==
    /\ pc[b] = "record" /\ vmem = Nobody
    /\ inUse = Slot
    /\ Goto(b, "held")
    /\ UNCHANGED <<poolVars, vb, cursor, vdb, kernelVars>>
-----------------------------------------------------------------------------
(* vdi_read_memory, vdi_write_memory, vdi_set_memory and vdi_clear_memory: the *)
(* scan, without vmem_mutex                                                    *)

Access(b) ==
    /\ pc[b] = "held"
    /\ Goto(b, "look")
    /\ cursor' = [cursor EXCEPT ![b] = 0]
    /\ UNCHANGED <<poolVars, vb, vdb, kernelVars>>

SlotsLeft(b) == cursor[b] < SlotNum

Look(b) ==
    /\ pc[b] = "look" /\ SlotsLeft(b)
    /\ IF cursor[b] \in inUse
       THEN Goto(b, "copy") /\ UNCHANGED cursor
       ELSE cursor' = [cursor EXCEPT ![b] = @ + 1] /\ UNCHANGED pc
    /\ UNCHANGED <<poolVars, vb, vdb, kernelVars>>

Copy(b) ==
    LET seen == slot[cursor[b]] IN
    /\ pc[b] = "copy"
    /\ vdb' = [vdb EXCEPT ![b] = seen]
    /\ IF seen.addr = vb[b].addr
       THEN Goto(b, "access") /\ UNCHANGED cursor
       ELSE Goto(b, "look") /\ cursor' = [cursor EXCEPT ![b] = @ + 1]
    /\ UNCHANGED <<poolVars, vb, kernelVars>>

\* The copy of the last slot in use is still there.
LookEnds(b) ==
    /\ pc[b] = "look" /\ ~SlotsLeft(b)
    /\ IF vdb[b] = Empty THEN Return(b, "held")
       ELSE Goto(b, "access") /\ UNCHANGED <<cursor, vdb>>
    /\ UNCHANGED <<poolVars, vb, kernelVars>>

AccessEnds(b) ==
    /\ pc[b] = "access"
    /\ Return(b, "held")
    /\ UNCHANGED <<poolVars, vb, kernelVars>>
-----------------------------------------------------------------------------
(* vdi_free_dma_memory *)

Vacate_Forgotten(i) == UNCHANGED inUse
Vacate(i) == inUse' = inUse \ {i}

Shows(a) == {i \in Slot : slot[i].addr = a}

Free(b) ==
    /\ pc[b] = "held" /\ vmem = Nobody
    /\ \E i \in Slot : /\ FirstOf(i, Shows(vb[b].addr))
                       /\ Vacate(i)
                       /\ vdb' = [vdb EXCEPT ![b] = slot[i]]
    /\ Goto(b, "give")
    /\ UNCHANGED <<slot, vmem, vb, cursor, kernelVars>>

\* "invalid buffer to free": neither the memory nor the mapping is given back.
FreeUnknown(b) ==
    /\ pc[b] = "held" /\ vmem = Nobody
    /\ Shows(vb[b].addr) = {}
    /\ Goto(b, "lost")
    /\ UNCHANGED <<poolVars, vb, cursor, vdb, kernelVars>>

GiveMemory(b) ==
    /\ pc[b] = "give"
    /\ allocated' = allocated \ {vdb[b].addr}
    /\ Goto(b, "unmap")
    /\ UNCHANGED <<poolVars, vb, cursor, vdb, mapped>>

Unmap(b) ==
    /\ pc[b] = "unmap"
    /\ mapped' = mapped \ {vdb[b].virt}
    /\ vb' = [vb EXCEPT ![b] = Empty]
    /\ Return(b, "none")
    /\ UNCHANGED <<poolVars, allocated>>

AllocateStep(b) == \/ Allocate(b) \/ AllocateUnmapped(b)
                   \/ RecordFill(b) \/ RecordMark(b) \/ RecordNot(b)
AccessStep(b) == Access(b) \/ Look(b) \/ Copy(b) \/ LookEnds(b) \/ AccessEnds(b)
FreeStep(b) == Free(b) \/ FreeUnknown(b) \/ GiveMemory(b) \/ Unmap(b)

Next == \E b \in Buffer : AllocateStep(b) \/ AccessStep(b) \/ FreeStep(b)

Spec == Init /\ [][Next]_vars
-----------------------------------------------------------------------------
PcLabels == {"none", "unmapped", "record", "mark", "held", "look", "copy", "access", "give",
             "unmap", "lost"}
Vdbs == [addr : Addr \cup {NoAddr}, virt : Virt \cup {NoVirt}]

\* Every variable keeps its type; no scan runs over the end of the pool (vdi.c:1027, :1074).
TypeInv == /\ slot \in [Slot -> Vdbs] /\ inUse \subseteq Slot
           /\ vmem \in Buffer \cup {Nobody}
           /\ vb \in [Buffer -> Vdbs] /\ vdb \in [Buffer -> Vdbs]
           /\ pc \in [Buffer -> PcLabels]
           /\ cursor \in [Buffer -> 0 .. SlotNum]
           /\ allocated \subseteq Addr /\ mapped \subseteq Virt

\* vdi_free_dma_memory gives back the memory and the mapping of the buffer it is given and
\* no other, though it takes the first slot that shows the address and does not ask whether
\* the slot is in use (vdi.c:1286-1306): no slot given free earlier comes first.
FreeFindsOwn == \A b \in Buffer : pc[b] \in {"give", "unmap"} => vdb[b] = vb[b]

Known(b) == \E i \in inUse : slot[i] = vb[b]

\* While the pool knows a buffer, an access to it goes to its mapping, whatever other threads
\* allocate and free during the scan, which is not under vmem_mutex (vdi.c:1027-1046).
AccessFindsOwn == \A b \in Buffer : pc[b] = "access" /\ Known(b) => vdb[b] = vb[b]

\* Once every buffer is freed the kernel has all memory and all mappings back and the pool
\* is as vdi_init left it, provided no buffer was lost to a full pool or a failed mmap.
Live == {b \in Buffer : pc[b] # "none"}
NothingLeaked == Live = {} => /\ allocated = {CommonAddr} /\ mapped = {CommonVirt}
                              /\ inUse = {0}

\* What makes FreeFindsOwn and AccessFindsOwn inductive.  What the kernel has given out, and
\* to whom: a buffer keeps its memory until GiveMemory and its mapping until Unmap.
Owning == PcLabels \ {"none", "unmapped", "unmap"}
KernelInv ==
    /\ CommonAddr \in allocated
    /\ \A b \in Buffer : pc[b] \in Owning => vb[b].addr \in allocated \ {CommonAddr}
    /\ \A b, c \in Buffer : pc[b] \in Owning /\ pc[c] \in Owning /\ b # c
                           => vb[b].addr # vb[c].addr

\* The slots in use are those of the common memory and of buffers handed out, and no slot
\* before one in use shows the same address.
Holding == {"held", "look", "copy", "access"}
SlotInv ==
    /\ \A i \in inUse : slot[i] = Common \/ \E b \in Buffer : pc[b] \in Holding /\ slot[i] = vb[b]
    /\ \A i \in inUse, j \in Slot : j < i => slot[j].addr # slot[i].addr

\* A slot being filled comes after slots in use only, which stay in use as long as
\* vmem_mutex is held.
FillInv ==
    \A b \in Buffer : pc[b] = "mark" => /\ vmem = b
                                        /\ cursor[b] \in Slot \ inUse
                                        /\ slot[cursor[b]] = vb[b]
                                        /\ \A j \in Slot : j < cursor[b] => j \in inUse

\* The pool knows a buffer handed out, or not even a slot given free shows its address.
HoldInv == \A b \in Buffer : pc[b] \in Holding => Known(b) \/ Shows(vb[b].addr) = {}

\* A scan has not passed the slot it is after.
ScanInv ==
    \A b \in Buffer : pc[b] \in {"look", "copy"} =>
        /\ pc[b] = "copy" => cursor[b] \in Slot
        /\ \A i \in inUse : slot[i] = vb[b] => cursor[b] <= i
=============================================================================
