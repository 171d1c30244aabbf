-------------------------- MODULE BufferPool_proofs ---------------------------
(*********************************************************************************)
(* That vdi_free_dma_memory gives back the buffer it is given, that              *)
(* vdi_read_memory and its siblings reach it, and that the kernel has everything *)
(* back when all buffers are freed, for every number of buffers, addresses and   *)
(* slots, a pool too small for the buffers and failing mmaps included.           *)
(*********************************************************************************)
EXTENDS BufferPool, TLAPS

PoolInv == /\ KernelInv /\ SlotInv /\ FillInv /\ HoldInv /\ ScanInv
           /\ FreeFindsOwn /\ AccessFindsOwn
IInv == TypeInv /\ PoolInv

LEMMA IInvInit == Init => IInv
  BY AddressAssumption, HolderAssumption, SlotAssumption
  DEF Init, IInv, PoolInv, TypeInv, KernelInv, SlotInv, FillInv, HoldInv, ScanInv, FreeFindsOwn,
      AccessFindsOwn, Slot, Vdbs, PcLabels, Empty, Common, Holding, Owning

\* A call that returns leaves its local variables as they were before it.
LEMMA ReturnType ==
    ASSUME TypeInv, NEW b \in Buffer, NEW label \in PcLabels, Return(b, label)
    PROVE  /\ pc' \in [Buffer -> PcLabels]
           /\ cursor' \in [Buffer -> 0 .. SlotNum]
           /\ vdb' \in [Buffer -> Vdbs]
<1>1. Empty \in Vdbs
  BY DEF Empty, Vdbs
<1>2. 0 \in 0 .. SlotNum
  BY SlotAssumption
<1>3. cursor' \in [Buffer -> 0 .. SlotNum]
  BY <1>2 DEF Return, TypeInv
<1>4. vdb' \in [Buffer -> Vdbs]
  BY <1>1 DEF Return, TypeInv
<1>5. pc' \in [Buffer -> PcLabels]
  BY DEF Return, Goto, TypeInv
<1> QED BY <1>3, <1>4, <1>5

LEMMA TypeStep == TypeInv /\ FillInv /\ ScanInv /\ [Next]_vars => TypeInv'
<1> SUFFICES ASSUME TypeInv, FillInv, ScanInv, [Next]_vars PROVE TypeInv'
  OBVIOUS
<1> USE AddressAssumption, HolderAssumption, SlotAssumption
    DEF TypeInv, Goto, Return, Vdbs, PcLabels, Empty, Slot, poolVars, callVars, kernelVars
<1>1. ASSUME NEW b \in Buffer, AllocateStep(b) PROVE TypeInv'
  <2>1. CASE Allocate(b)
    BY <2>1 DEF Allocate
  <2>2. CASE AllocateUnmapped(b)
    BY <2>2 DEF AllocateUnmapped
  <2>3. CASE RecordFill(b)
    BY <2>3 DEF RecordFill, Takes, FirstOf
  <2>4. CASE RecordMark(b)
    <3>1. inUse' \subseteq Slot
      BY <2>4 DEF RecordMark, FillInv
    <3> QED BY <2>4, <3>1 DEF RecordMark
  <2>5. CASE RecordNot(b)
    BY <2>5 DEF RecordNot
  <2> QED BY <1>1, <2>1, <2>2, <2>3, <2>4, <2>5 DEF AllocateStep
<1>2. ASSUME NEW b \in Buffer, AccessStep(b) PROVE TypeInv'
  <2>1. CASE Access(b)
    <3>1. 0 \in 0 .. SlotNum
      OBVIOUS
    <3> QED BY <2>1, <3>1 DEF Access
  <2>2. CASE Look(b)
    <3>1. CASE cursor[b] \in inUse
      BY <2>2, <3>1 DEF Look
    <3>2. CASE cursor[b] \notin inUse
      <4>1. cursor[b] + 1 \in 0 .. SlotNum
        BY <2>2 DEF Look, SlotsLeft
      <4>2. cursor' = [cursor EXCEPT ![b] = cursor[b] + 1] /\ UNCHANGED pc
        BY <2>2, <3>2 DEF Look
      <4>3. cursor' \in [Buffer -> 0 .. SlotNum]
        BY <4>1, <4>2
      <4> QED BY <2>2, <4>2, <4>3 DEF Look
    <3> QED BY <3>1, <3>2
  <2>3. CASE Copy(b)
    <3>1. cursor[b] \in Slot /\ cursor[b] + 1 \in 0 .. SlotNum
      BY <2>3 DEF Copy, ScanInv
    <3>2. vdb' \in [Buffer -> Vdbs]
      BY <2>3, <3>1 DEF Copy
    <3>3. CASE slot[cursor[b]].addr = vb[b].addr
      <4>1. pc' = [pc EXCEPT ![b] = "access"] /\ UNCHANGED cursor
        BY <2>3, <3>3 DEF Copy
      <4> QED BY <2>3, <3>2, <4>1 DEF Copy
    <3>4. CASE slot[cursor[b]].addr # vb[b].addr
      <4>1. pc' = [pc EXCEPT ![b] = "look"] /\ cursor' = [cursor EXCEPT ![b] = cursor[b] + 1]
        BY <2>3, <3>4 DEF Copy
      <4> QED BY <2>3, <3>1, <3>2, <4>1 DEF Copy
    <3> QED BY <3>3, <3>4
  <2>4. CASE LookEnds(b)
    <3>1. CASE vdb[b] = Empty
      <4>1. Return(b, "held") /\ UNCHANGED <<poolVars, vb, kernelVars>>
        BY <2>4, <3>1 DEF LookEnds
      <4>2. /\ pc' \in [Buffer -> PcLabels] /\ cursor' \in [Buffer -> 0 .. SlotNum]
            /\ vdb' \in [Buffer -> Vdbs]
        BY <4>1, ReturnType DEF PcLabels
      <4> QED BY <4>1, <4>2
    <3>2. CASE vdb[b] # Empty
      BY <2>4, <3>2 DEF LookEnds
    <3> QED BY <3>1, <3>2
  <2>5. CASE AccessEnds(b)
    <3>1. Return(b, "held") /\ UNCHANGED <<poolVars, vb, kernelVars>>
      BY <2>5 DEF AccessEnds
    <3>2. /\ pc' \in [Buffer -> PcLabels] /\ cursor' \in [Buffer -> 0 .. SlotNum]
          /\ vdb' \in [Buffer -> Vdbs]
      BY <3>1, ReturnType DEF PcLabels
    <3> QED BY <3>1, <3>2
  <2> QED BY <1>2, <2>1, <2>2, <2>3, <2>4, <2>5 DEF AccessStep
<1>3. ASSUME NEW b \in Buffer, FreeStep(b) PROVE TypeInv'
  <2>1. CASE Free(b)
    BY <2>1 DEF Free, FirstOf, Shows, Vacate
  <2>2. CASE FreeUnknown(b)
    BY <2>2 DEF FreeUnknown
  <2>3. CASE GiveMemory(b)
    BY <2>3 DEF GiveMemory
  <2>4. CASE Unmap(b)
    BY <2>4 DEF Unmap
  <2> QED BY <1>3, <2>1, <2>2, <2>3, <2>4 DEF FreeStep
<1>4. CASE UNCHANGED vars
  BY <1>4 DEF vars
<1> QED BY <1>1, <1>2, <1>3, <1>4 DEF Next
-----------------------------------------------------------------------------
\* No slot in use shows the address of a buffer the pool does not have yet or has no more.
LEMMA NotShown ==
    ASSUME TypeInv, KernelInv, SlotInv,
           NEW b \in Buffer, pc[b] \in Owning \ Holding, NEW i \in inUse
    PROVE  slot[i].addr # vb[b].addr
<1>1. CASE slot[i] = Common
  BY <1>1 DEF KernelInv, Common
<1>2. ASSUME NEW c \in Buffer, pc[c] \in Holding, slot[i] = vb[c] PROVE slot[i].addr # vb[b].addr
  BY <1>2 DEF KernelInv, Holding, Owning, PcLabels
<1> QED BY <1>1, <1>2 DEF SlotInv

\* Two buffers in use have different memory.
LEMMA Apart ==
    ASSUME KernelInv, NEW b \in Buffer, NEW c \in Buffer, b # c,
           pc[b] \in Owning, pc[c] \in Owning
    PROVE  vb[b].addr # vb[c].addr
BY DEF KernelInv

\* A slot in use keeps its buffer while the buffers handed out stay so.
LEMMA SlotFrame ==
    ASSUME SlotInv, UNCHANGED <<slot, inUse>>,
           \A c \in Buffer : pc[c] \in Holding => pc'[c] \in Holding /\ vb'[c] = vb[c]
    PROVE  SlotInv'
<1>1. \A i \in inUse, j \in Slot : j < i => slot[j].addr # slot[i].addr
  BY DEF SlotInv
<1>2. ASSUME NEW i \in inUse
      PROVE  slot[i] = Common \/ \E c \in Buffer : pc'[c] \in Holding /\ slot[i] = vb'[c]
  BY DEF SlotInv
<1> QED BY <1>1, <1>2 DEF SlotInv

LEMMA HoldFrame ==
    ASSUME HoldInv, UNCHANGED <<slot, inUse>>,
           \A c \in Buffer : pc'[c] \in Holding => pc[c] \in Holding /\ vb'[c] = vb[c]
    PROVE  HoldInv'
<1> SUFFICES ASSUME NEW c \in Buffer, pc'[c] \in Holding
             PROVE  Known(c)' \/ Shows(vb[c].addr)' = {}
  BY DEF HoldInv
<1>1. Known(c) \/ Shows(vb[c].addr) = {}
  BY DEF HoldInv
<1> QED BY <1>1 DEF Known, Shows

\* Reading and writing memory changes neither the pool nor who has what.
LEMMA AccessFrame ==
    ASSUME TypeInv, KernelInv, SlotInv, HoldInv, NEW b \in Buffer, AccessStep(b)
    PROVE  KernelInv' /\ SlotInv' /\ HoldInv'
<1> USE DEF Holding, Owning, PcLabels
<1>6. UNCHANGED <<poolVars, vb, kernelVars>> /\ pc[b] \in Holding
  BY DEF AccessStep, Access, Look, Copy, LookEnds, AccessEnds
<1>7. pc' = pc \/ \E label \in Holding : pc' = [pc EXCEPT ![b] = label]
  <2>1. CASE Access(b)
    BY <2>1 DEF Access, Goto
  <2>2. CASE Look(b)
    BY <2>2 DEF Look, Goto
  <2>3. CASE Copy(b)
    BY <2>3 DEF Copy, Goto
  <2>4. CASE LookEnds(b)
    BY <2>4 DEF LookEnds, Goto, Return
  <2>5. CASE AccessEnds(b)
    BY <2>5 DEF AccessEnds, Goto, Return
  <2> QED BY <2>1, <2>2, <2>3, <2>4, <2>5 DEF AccessStep
<1>1. /\ UNCHANGED <<poolVars, vb, kernelVars>> /\ pc[b] \in Holding
      /\ pc' = pc \/ \E label \in Holding : pc' = [pc EXCEPT ![b] = label]
  BY <1>6, <1>7
<1>2. \A c \in Buffer : pc'[c] \in Holding <=> pc[c] \in Holding
  BY <1>1 DEF TypeInv
<1>3. \A c \in Buffer : pc'[c] \in Owning <=> pc[c] \in Owning
  BY <1>1 DEF TypeInv
<1>4. KernelInv'
  BY <1>1, <1>3 DEF KernelInv, kernelVars
<1>5. SlotInv' /\ HoldInv'
  BY <1>1, <1>2, SlotFrame, HoldFrame DEF poolVars
<1> QED BY <1>4, <1>5

\* The slot that vdi_free_dma_memory finds is in use and is the buffer's own.
LEMMA FreeTakesOwn ==
    ASSUME IInv, NEW b \in Buffer, pc[b] = "held",
           NEW i \in Slot, FirstOf(i, Shows(vb[b].addr))
    PROVE  i \in inUse /\ slot[i] = vb[b]
<1>1. i \in Shows(vb[b].addr)
  BY DEF FirstOf
<1>2. PICK k \in inUse : slot[k] = vb[b]
  BY <1>1 DEF IInv, PoolInv, HoldInv, Known, Holding
<1>3. k \in Shows(vb[b].addr) /\ k \in Slot
  BY <1>2 DEF Shows, IInv, TypeInv
<1>4. i <= k /\ ~(i < k)
  BY <1>1, <1>2, <1>3 DEF FirstOf, Shows, IInv, PoolInv, SlotInv
<1>5. i = k
  BY <1>3, <1>4, SlotAssumption DEF Slot
<1> QED BY <1>2, <1>5

LEMMA PoolStep == IInv /\ TypeInv' /\ [Next]_vars => PoolInv'
<1> SUFFICES ASSUME IInv, TypeInv', [Next]_vars PROVE PoolInv'
  OBVIOUS
<1> USE AddressAssumption, HolderAssumption, SlotAssumption
    DEF IInv, PoolInv, TypeInv, KernelInv, SlotInv, FillInv, HoldInv, ScanInv, FreeFindsOwn,
        AccessFindsOwn, Known, Shows, Goto, Return, Slot, Owning, Holding, PcLabels,
        poolVars, callVars, kernelVars
<1>1. ASSUME NEW b \in Buffer, Allocate(b) PROVE PoolInv'
  <2>1. KernelInv'
    BY <1>1 DEF Allocate
  <2>2. SlotInv'
    BY <1>1, SlotFrame DEF Allocate
  <2>3. FillInv'
    BY <1>1 DEF Allocate
  <2>4. HoldInv'
    <3>1. /\ pc[b] = "none" /\ pc' = [pc EXCEPT ![b] = "record"] /\ UNCHANGED <<slot, inUse>>
          /\ \A c \in Buffer \ {b} : vb'[c] = vb[c]
      BY <1>1 DEF Allocate
    <3>2. \A c \in Buffer : pc'[c] \in Holding => pc[c] \in Holding /\ vb'[c] = vb[c]
      BY <3>1
    <3> QED BY <3>1, <3>2, HoldFrame
  <2>5. ScanInv'
    BY <1>1 DEF Allocate
  <2>6. FreeFindsOwn'
    BY <1>1 DEF Allocate
  <2>7. AccessFindsOwn'
    BY <1>1 DEF Allocate
  <2> QED BY <2>1, <2>2, <2>3, <2>4, <2>5, <2>6, <2>7
<1>2. ASSUME NEW b \in Buffer, AllocateUnmapped(b) PROVE PoolInv'
  <2>1. KernelInv'
    BY <1>2 DEF AllocateUnmapped
  <2>2. SlotInv'
    BY <1>2 DEF AllocateUnmapped
  <2>3. FillInv'
    BY <1>2 DEF AllocateUnmapped
  <2>4. HoldInv'
    BY <1>2 DEF AllocateUnmapped
  <2>5. ScanInv'
    BY <1>2 DEF AllocateUnmapped
  <2>6. FreeFindsOwn'
    BY <1>2 DEF AllocateUnmapped
  <2>7. AccessFindsOwn'
    BY <1>2 DEF AllocateUnmapped
  <2> QED BY <2>1, <2>2, <2>3, <2>4, <2>5, <2>6, <2>7
<1>3. ASSUME NEW b \in Buffer, RecordFill(b) PROVE PoolInv'
  <2>1. KernelInv'
    BY <1>3 DEF RecordFill, Takes, FirstOf
  <2>2. SlotInv'
    <3> PICK i \in Slot : FirstOf(i, Slot \ inUse) /\ slot' = [slot EXCEPT ![i] = vb[b]]
      BY <1>3 DEF RecordFill, Takes
    <3>1. i \notin inUse /\ slot'[i] = vb[b] /\ \A j \in Slot \ {i} : slot'[j] = slot[j]
      BY DEF FirstOf
    <3>2. \A k \in inUse : slot[k].addr # vb[b].addr
      BY <1>3, NotShown DEF RecordFill
    <3>5. pc[b] = "record" /\ pc' = [pc EXCEPT ![b] = "mark"] /\ UNCHANGED vb
      BY <1>3 DEF RecordFill
    <3>3. ASSUME NEW k \in inUse
          PROVE  slot'[k] = Common \/ \E c \in Buffer : pc'[c] \in Holding /\ slot'[k] = vb'[c]
      <4>1. slot'[k] = slot[k]
        BY <3>1
      <4>2. \A c \in Buffer : pc[c] \in Holding => pc'[c] \in Holding /\ vb'[c] = vb[c]
        BY <3>5
      <4>3. slot[k] = Common \/ \E c \in Buffer : pc[c] \in Holding /\ slot[k] = vb[c]
        OBVIOUS
      <4> QED BY <4>1, <4>2, <4>3
    <3>4. ASSUME NEW k \in inUse, NEW j \in Slot, j < k PROVE slot'[j].addr # slot'[k].addr
      BY <3>1, <3>2, <3>4
    <3> QED BY <1>3, <3>3, <3>4 DEF RecordFill
  <2>3. FillInv'
    BY <1>3 DEF RecordFill, Takes, FirstOf
  <2>4. HoldInv'
    <3> PICK i \in Slot : i \notin inUse /\ slot' = [slot EXCEPT ![i] = vb[b]]
      BY <1>3 DEF RecordFill, Takes, FirstOf
    <3>1. slot'[i] = vb[b] /\ \A j \in Slot \ {i} : slot'[j] = slot[j]
      OBVIOUS
    <3>2. pc[b] = "record" /\ pc' = [pc EXCEPT ![b] = "mark"] /\ UNCHANGED <<inUse, vb>>
      BY <1>3 DEF RecordFill
    <3>3. ASSUME NEW c \in Buffer, pc'[c] \in Holding
          PROVE  (Known(c) \/ Shows(vb[c].addr) = {})'
      <4>1. pc[c] \in Holding /\ c # b
        BY <3>2, <3>3
      <4>2. vb[c].addr # vb[b].addr
        <5>1. pc[b] \in Owning /\ pc[c] \in Owning
          BY <3>2, <4>1
        <5> QED BY <4>1, <5>1, Apart
      <4>3. CASE Known(c)
        BY <3>1, <3>2, <4>3
      <4>4. CASE Shows(vb[c].addr) = {}
        BY <3>1, <3>2, <4>2, <4>4
      <4> QED BY <4>1, <4>3, <4>4
    <3> QED BY <3>3
  <2>5. ScanInv'
    BY <1>3 DEF RecordFill, Takes, FirstOf
  <2>6. FreeFindsOwn'
    BY <1>3 DEF RecordFill, Takes, FirstOf
  <2>7. AccessFindsOwn'
    <3>1. \A k \in inUse : slot'[k] = slot[k]
      BY <1>3 DEF RecordFill, Takes, FirstOf
    <3>2. pc[b] = "record" /\ pc' = [pc EXCEPT ![b] = "mark"] /\ UNCHANGED <<inUse, vb, vdb>>
      BY <1>3 DEF RecordFill
    <3>3. ASSUME NEW c \in Buffer, pc'[c] = "access", Known(c)' PROVE vdb'[c] = vb'[c]
      <4>1. pc[c] = "access" /\ Known(c)
        BY <3>1, <3>2, <3>3
      <4> QED BY <3>2, <4>1
    <3> QED BY <3>3
  <2> QED BY <2>1, <2>2, <2>3, <2>4, <2>5, <2>6, <2>7
<1>4. ASSUME NEW b \in Buffer, RecordMark(b) PROVE PoolInv'
  <2>1. KernelInv'
    BY <1>4 DEF RecordMark
  <2>2. SlotInv'
    <3> DEFINE i == cursor[b]
    <3>1. inUse' = inUse \cup {i} /\ i \in Slot /\ slot[i] = vb[b] /\ UNCHANGED <<slot, vb>>
      BY <1>4 DEF RecordMark
    <3>2. pc[b] = "mark" /\ \A j \in Slot : j < i => j \in inUse
      BY <1>4 DEF RecordMark
    <3>7. pc[b] \in Owning \ Holding
      BY <3>2
    <3>8. \A j \in inUse : slot[j].addr # vb[b].addr
      BY <3>7, NotShown
    <3>6. \A j \in Slot : j < i => slot[j].addr # slot[i].addr
      BY <3>1, <3>2, <3>8
    <3>3. pc'[b] \in Holding /\ \A c \in Buffer : pc[c] \in Holding => pc'[c] \in Holding
      BY <1>4 DEF RecordMark
    <3>4. ASSUME NEW k \in inUse'
          PROVE  slot[k] = Common \/ \E c \in Buffer : pc'[c] \in Holding /\ slot[k] = vb[c]
      BY <3>1, <3>3
    <3>5. ASSUME NEW k \in inUse', NEW j \in Slot, j < k PROVE slot[j].addr # slot[k].addr
      BY <3>1, <3>6, <3>5
    <3> QED BY <3>1, <3>4, <3>5
  <2>3. FillInv'
    BY <1>4 DEF RecordMark
  <2>4. HoldInv'
    BY <1>4, SMTT(30) DEF RecordMark
  <2>5. ScanInv'
    BY <1>4 DEF RecordMark
  <2>6. FreeFindsOwn'
    BY <1>4 DEF RecordMark
  <2>7. AccessFindsOwn'
    <3>1. /\ pc[b] = "mark" /\ pc' = [pc EXCEPT ![b] = "held"] /\ slot[cursor[b]] = vb[b]
          /\ inUse' = inUse \cup {cursor[b]} /\ UNCHANGED <<slot, vb>>
      BY <1>4 DEF RecordMark
    <3>2. ASSUME NEW c \in Buffer, pc'[c] = "access", Known(c)' PROVE vdb'[c] = vb'[c]
      <4>1. c # b /\ pc[c] = "access" /\ pc[b] \in Owning /\ pc[c] \in Owning
        BY <3>1, <3>2
      <4>2. vb[c].addr # vb[b].addr
        BY <4>1, Apart
      <4>3. Known(c)
        BY <3>1, <3>2, <4>2
      <4>4. vdb'[c] = vdb[c]
        BY <1>4, <4>1 DEF RecordMark
      <4> QED BY <3>1, <4>1, <4>3, <4>4
    <3> QED BY <3>2
  <2> QED BY <2>1, <2>2, <2>3, <2>4, <2>5, <2>6, <2>7
<1>5. ASSUME NEW b \in Buffer, RecordNot(b) PROVE PoolInv'
  <2>1. KernelInv'
    BY <1>5 DEF RecordNot
  <2>2. SlotInv'
    BY <1>5 DEF RecordNot
  <2>3. FillInv'
    BY <1>5 DEF RecordNot
  <2>4. HoldInv'
    <3>1. ASSUME NEW c \in Buffer, pc'[c] \in Holding PROVE Known(c)' \/ Shows(vb[c].addr)' = {}
      <4>1. CASE c = b
        <5>1. pc[b] \in Owning \ Holding /\ inUse = Slot /\ UNCHANGED <<slot, vb>>
          BY <1>5 DEF RecordNot
        <5>2. \A i \in Slot : slot[i].addr # vb[b].addr
          BY <5>1, NotShown
        <5> QED BY <4>1, <5>1, <5>2
      <4>2. CASE c # b
        <5>1. Known(c) \/ Shows(vb[c].addr) = {}
          BY <1>5, <3>1, <4>2 DEF RecordNot
        <5> QED BY <1>5, <5>1 DEF RecordNot
      <4> QED BY <4>1, <4>2
    <3> QED BY <1>5, <3>1 DEF RecordNot
  <2>5. ScanInv'
    BY <1>5 DEF RecordNot
  <2>6. FreeFindsOwn'
    BY <1>5 DEF RecordNot
  <2>7. AccessFindsOwn'
    BY <1>5 DEF RecordNot
  <2> QED BY <2>1, <2>2, <2>3, <2>4, <2>5, <2>6, <2>7
<1>6. ASSUME NEW b \in Buffer, Access(b) PROVE PoolInv'
  <2>1. KernelInv' /\ SlotInv' /\ HoldInv'
    BY <1>6, AccessFrame DEF AccessStep
  <2>2. FillInv'
    BY <1>6 DEF Access
  <2>3. ScanInv'
    BY <1>6 DEF Access
  <2>4. FreeFindsOwn'
    BY <1>6 DEF Access
  <2>5. AccessFindsOwn'
    BY <1>6 DEF Access
  <2> QED BY <2>1, <2>2, <2>3, <2>4, <2>5
<1>7. ASSUME NEW b \in Buffer, Look(b) PROVE PoolInv'
  <2>1. KernelInv' /\ SlotInv' /\ HoldInv'
    BY <1>7, AccessFrame DEF AccessStep
  <2>2. FillInv'
    BY <1>7 DEF Look, SlotsLeft
  <2>3. ScanInv'
    BY <1>7 DEF Look, SlotsLeft
  <2>4. FreeFindsOwn'
    BY <1>7 DEF Look, SlotsLeft
  <2>5. AccessFindsOwn'
    <3>1. pc[b] = "look" /\ UNCHANGED <<slot, inUse, vb, vdb>>
      BY <1>7 DEF Look
    <3>2. pc'[b] # "access" /\ \A c \in Buffer \ {b} : pc'[c] = pc[c]
      BY <1>7 DEF Look
    <3> QED BY <3>1, <3>2
  <2> QED BY <2>1, <2>2, <2>3, <2>4, <2>5
<1>8. ASSUME NEW b \in Buffer, Copy(b) PROVE PoolInv'
  <2>1. KernelInv' /\ SlotInv' /\ HoldInv'
    BY <1>8, AccessFrame DEF AccessStep
  <2>2. FillInv'
    BY <1>8 DEF Copy
  <2>3. ScanInv'
    <3>1. CASE slot[cursor[b]].addr = vb[b].addr
      BY <1>8, <3>1 DEF Copy
    <3>2. CASE slot[cursor[b]].addr # vb[b].addr
      <4>1. /\ pc' = [pc EXCEPT ![b] = "look"] /\ cursor' = [cursor EXCEPT ![b] = cursor[b] + 1]
            /\ pc[b] = "copy" /\ UNCHANGED <<slot, inUse, vb>>
        BY <1>8, <3>2 DEF Copy
      <4>2. \A i \in inUse : slot[i] = vb[b] => cursor[b] + 1 <= i
        BY <3>2, <4>1
      <4> QED BY <4>1, <4>2
    <3> QED BY <3>1, <3>2
  <2>4. FreeFindsOwn'
    BY <1>8 DEF Copy
  <2>5. AccessFindsOwn'
    BY <1>8 DEF Copy
  <2> QED BY <2>1, <2>2, <2>3, <2>4, <2>5
<1>9. ASSUME NEW b \in Buffer, LookEnds(b) PROVE PoolInv'
  <2>1. KernelInv' /\ SlotInv' /\ HoldInv'
    BY <1>9, AccessFrame DEF AccessStep
  <2>2. FillInv'
    BY <1>9 DEF LookEnds, SlotsLeft
  <2>3. ScanInv'
    BY <1>9 DEF LookEnds, SlotsLeft
  <2>4. FreeFindsOwn'
    BY <1>9 DEF LookEnds, SlotsLeft
  <2>5. AccessFindsOwn'
    BY <1>9 DEF LookEnds, SlotsLeft
  <2> QED BY <2>1, <2>2, <2>3, <2>4, <2>5
<1>10. ASSUME NEW b \in Buffer, AccessEnds(b) PROVE PoolInv'
  <2>1. KernelInv' /\ SlotInv' /\ HoldInv'
    BY <1>10, AccessFrame DEF AccessStep
  <2>2. FillInv'
    BY <1>10 DEF AccessEnds
  <2>3. ScanInv'
    BY <1>10 DEF AccessEnds
  <2>4. FreeFindsOwn'
    BY <1>10 DEF AccessEnds
  <2>5. AccessFindsOwn'
    BY <1>10 DEF AccessEnds
  <2> QED BY <2>1, <2>2, <2>3, <2>4, <2>5
<1>11. ASSUME NEW b \in Buffer, Free(b) PROVE PoolInv'
  <2> PICK i \in Slot : /\ FirstOf(i, Shows(vb[b].addr)) /\ inUse' = inUse \ {i}
                        /\ vdb' = [vdb EXCEPT ![b] = slot[i]]
    BY <1>11 DEF Free, Vacate
  <2>8. /\ pc[b] = "held" /\ pc' = [pc EXCEPT ![b] = "give"] /\ vmem = Nobody
        /\ inUse' = inUse \ {i} /\ vdb' = [vdb EXCEPT ![b] = slot[i]]
        /\ UNCHANGED <<slot, vmem, vb, cursor, kernelVars>>
    BY <1>11 DEF Free
  <2>9. i \in inUse /\ slot[i] = vb[b]
    BY <2>8, FreeTakesOwn
  <2>1. KernelInv'
    BY <1>11 DEF Free, FirstOf, Vacate
  <2>2. SlotInv'
    <3>1. ASSUME NEW k \in inUse'
          PROVE  slot[k] = Common \/ \E c \in Buffer : pc'[c] \in Holding /\ slot[k] = vb[c]
      <4>1. k \in inUse /\ k # i /\ k \in Int /\ i \in Int
        BY <2>8
      <4>2. slot[k] # vb[b]
        <5>1. k < i \/ i < k
          BY <4>1
        <5>2. i \in Slot /\ k \in Slot /\ i \in inUse
          BY <2>9, <4>1
        <5>3. slot[k].addr # slot[i].addr
          BY <4>1, <5>1, <5>2 DEF SlotInv
        <5> QED BY <2>9, <5>3
      <4>3. \A c \in Buffer \ {b} : pc'[c] = pc[c]
        BY <2>8
      <4>4. slot[k] = Common \/ \E c \in Buffer : pc[c] \in Holding /\ slot[k] = vb[c]
        BY <4>1
      <4> QED BY <4>2, <4>3, <4>4
    <3>2. ASSUME NEW k \in inUse', NEW j \in Slot, j < k PROVE slot[j].addr # slot[k].addr
      BY <2>8, <3>2
    <3> QED BY <2>8, <3>1, <3>2
  <2>3. FillInv'
    BY <1>11 DEF Free, FirstOf, Vacate
  <2>4. HoldInv'
    <3>1. ASSUME NEW c \in Buffer, pc'[c] \in Holding PROVE (Known(c) \/ Shows(vb[c].addr) = {})'
      <4>4. c # b /\ pc[c] \in Holding
        BY <2>8, <3>1
      <4>1. vb[c].addr # vb[b].addr
        <5>1. pc[b] \in Owning /\ pc[c] \in Owning
          BY <2>8, <4>4
        <5> QED BY <4>4, <5>1, Apart
      <4>2. CASE Known(c)
        BY <2>8, <2>9, <4>1, <4>2
      <4>3. CASE Shows(vb[c].addr) = {}
        BY <2>8, <4>3
      <4> QED BY <4>2, <4>3, <4>4
    <3> QED BY <2>8, <3>1
  <2>5. ScanInv'
    BY <1>11 DEF Free, FirstOf, Vacate
  <2>6. FreeFindsOwn'
    BY <2>8, <2>9
  <2>7. AccessFindsOwn'
    <3>1. ASSUME NEW c \in Buffer, pc'[c] = "access"
          PROVE  /\ pc[c] = "access" /\ vdb'[c] = vdb[c]
                 /\ Known(c)' => Known(c)
      BY <2>8, <3>1
    <3> QED BY <2>8, <3>1
  <2> QED BY <2>1, <2>2, <2>3, <2>4, <2>5, <2>6, <2>7
<1>12. ASSUME NEW b \in Buffer, FreeUnknown(b) PROVE PoolInv'
  <2>1. KernelInv'
    BY <1>12 DEF FreeUnknown
  <2>2. SlotInv'
    BY <1>12 DEF FreeUnknown
  <2>3. FillInv'
    BY <1>12 DEF FreeUnknown
  <2>4. HoldInv'
    BY <1>12, HoldFrame DEF FreeUnknown
  <2>5. ScanInv'
    BY <1>12 DEF FreeUnknown
  <2>6. FreeFindsOwn'
    BY <1>12 DEF FreeUnknown
  <2>7. AccessFindsOwn'
    BY <1>12 DEF FreeUnknown
  <2> QED BY <2>1, <2>2, <2>3, <2>4, <2>5, <2>6, <2>7
<1>13. ASSUME NEW b \in Buffer, GiveMemory(b) PROVE PoolInv'
  <2>1. KernelInv'
    BY <1>13, SMTT(30) DEF GiveMemory
  <2>2. SlotInv'
    BY <1>13, SlotFrame DEF GiveMemory
  <2>3. FillInv'
    BY <1>13 DEF GiveMemory
  <2>4. HoldInv'
    BY <1>13, HoldFrame, SMTT(30) DEF GiveMemory
  <2>5. ScanInv'
    BY <1>13 DEF GiveMemory
  <2>6. FreeFindsOwn'
    BY <1>13 DEF GiveMemory
  <2>7. AccessFindsOwn'
    BY <1>13 DEF GiveMemory
  <2> QED BY <2>1, <2>2, <2>3, <2>4, <2>5, <2>6, <2>7
<1>14. ASSUME NEW b \in Buffer, Unmap(b) PROVE PoolInv'
  <2>1. KernelInv'
    BY <1>14 DEF Unmap
  <2>2. SlotInv'
    BY <1>14 DEF Unmap
  <2>3. FillInv'
    BY <1>14 DEF Unmap
  <2>4. HoldInv'
    BY <1>14 DEF Unmap
  <2>5. ScanInv'
    BY <1>14 DEF Unmap
  <2>6. FreeFindsOwn'
    BY <1>14 DEF Unmap
  <2>7. AccessFindsOwn'
    BY <1>14 DEF Unmap
  <2> QED BY <2>1, <2>2, <2>3, <2>4, <2>5, <2>6, <2>7
<1>15. CASE UNCHANGED vars
  BY <1>15 DEF vars
<1> QED BY <1>1, <1>2, <1>3, <1>4, <1>5, <1>6, <1>7, <1>8, <1>9, <1>10, <1>11, <1>12, <1>13,
           <1>14, <1>15
     DEF Next, AllocateStep, AccessStep, FreeStep
-----------------------------------------------------------------------------
LEMMA Invariance == Spec => []IInv
<1>1. Init => IInv
  BY IInvInit
<1>2. IInv /\ [Next]_vars => IInv'
  BY TypeStep, PoolStep DEF IInv, PoolInv
<1> QED BY <1>1, <1>2, PTL DEF Spec

\* Every variable keeps its type and no scan runs over the end of the pool.
THEOREM TypeCorrect == Spec => []TypeInv
BY Invariance, PTL DEF IInv

\* vdi_free_dma_memory gives back the memory and the mapping it is asked to, though it takes
\* the first slot that shows the address, in use or not (vdi.c:1286-1306).
THEOREM FreeIsOwn == Spec => []FreeFindsOwn
BY Invariance, PTL DEF IInv, PoolInv

\* Reading and writing memory goes to the buffer's own mapping as long as the pool knows it,
\* though the scan is not under vmem_mutex (vdi.c:1027-1046).
THEOREM AccessIsOwn == Spec => []AccessFindsOwn
BY Invariance, PTL DEF IInv, PoolInv

-----------------------------------------------------------------------------
(* What the kernel gets back.  Memory and mappings given out are those of   *)
(* the common memory and of live buffers, and the first slot is never       *)
(* given free.                                                              *)

Mapping == Owning \cup {"unmap"}
LeakInv ==
    /\ 0 \in inUse /\ slot[0] = Common
    /\ \/ \E b \in Buffer : pc[b] = "unmapped"
       \/ \A a \in allocated : a = CommonAddr \/ \E b \in Buffer : pc[b] \in Owning /\ vb[b].addr = a
    /\ CommonVirt \in mapped
    /\ \A v \in mapped : v = CommonVirt \/ \E b \in Buffer : pc[b] \in Mapping /\ vb[b].virt = v
    /\ \A b \in Buffer : pc[b] \in Mapping => vb[b].virt # CommonVirt

LEMMA LeakInit == Init => LeakInv
  BY SlotAssumption DEF Init, LeakInv, Slot, Mapping, Owning, PcLabels

\* Steps between which a buffer keeps what it owns.
LEMMA LeakKept ==
    ASSUME IInv, LeakInv, NEW b \in Buffer, vb' = vb, UNCHANGED kernelVars,
           NEW label \in PcLabels, Goto(b, label),
           pc[b] \in Owning <=> label \in Owning, pc[b] \in Mapping <=> label \in Mapping,
           pc[b] # "unmapped",
           0 \in inUse', slot'[0] = slot[0]
    PROVE  LeakInv'
<1>1. /\ \A c \in Buffer : c # b => pc'[c] = pc[c]
      /\ pc'[b] = label /\ allocated' = allocated /\ mapped' = mapped
  BY DEF Goto, IInv, TypeInv, kernelVars
<1>2. \A c \in Buffer : /\ pc'[c] \in Owning <=> pc[c] \in Owning
                        /\ pc'[c] \in Mapping <=> pc[c] \in Mapping
  BY <1>1
<1>3. \A c \in Buffer : pc[c] = "unmapped" => pc'[c] = "unmapped"
  BY <1>1
<1>4. /\ \/ \E c \in Buffer : pc[c] = "unmapped"
         \/ \A a \in allocated : a = CommonAddr \/ \E d \in Buffer : pc[d] \in Owning /\ vb[d].addr = a
      /\ \A v \in mapped : v = CommonVirt \/ \E d \in Buffer : pc[d] \in Mapping /\ vb[d].virt = v
      /\ \A d \in Buffer : pc[d] \in Mapping => vb[d].virt # CommonVirt
      /\ CommonVirt \in mapped /\ slot[0] = Common
  BY DEF LeakInv
<1> QED
  BY <1>1, <1>2, <1>3, <1>4 DEF LeakInv

LEMMA LeakAtAllocate ==
    ASSUME IInv, LeakInv, NEW b \in Buffer, AllocateStep(b) PROVE LeakInv'
<1> USE DEF Goto
<1>0. pc \in [Buffer -> PcLabels] /\ vb \in [Buffer -> Vdbs] /\ slot \in [Slot -> Vdbs]
  BY DEF IInv, TypeInv
<1>1. CASE Allocate(b)
  <2>1. PICK a \in Addr \ allocated, v \in Virt \ mapped :
           /\ allocated' = allocated \cup {a} /\ mapped' = mapped \cup {v}
           /\ vb' = [vb EXCEPT ![b] = [addr |-> a, virt |-> v]]
    BY <1>1 DEF Allocate
  <2>2. /\ pc[b] = "none" /\ pc' = [pc EXCEPT ![b] = "record"] /\ inUse' = inUse /\ slot' = slot
    BY <1>1 DEF Allocate, poolVars
  <2>3. /\ pc'[b] \in Owning /\ pc'[b] \in Mapping /\ vb'[b].addr = a /\ vb'[b].virt = v
    BY <1>0, <2>1, <2>2 DEF Owning, Mapping, PcLabels
  <2>4. \A c \in Buffer : c # b => pc'[c] = pc[c] /\ vb'[c] = vb[c]
    BY <1>0, <2>1, <2>2
  <2>5. pc[b] \notin Owning /\ pc[b] \notin Mapping
    BY <2>2 DEF Owning, Mapping
  <2>6. v # CommonVirt
    BY DEF LeakInv
  <2>7. (\E c \in Buffer : pc[c] = "unmapped") => \E c \in Buffer : pc'[c] = "unmapped"
    BY <2>2, <2>4
  <2>8. ASSUME ~\E c \in Buffer : pc'[c] = "unmapped", NEW x \in allocated', x # CommonAddr
        PROVE  \E c \in Buffer : pc'[c] \in Owning /\ vb'[c].addr = x
    <3>1. CASE x = a
      BY <2>3, <3>1
    <3>2. CASE x # a
      BY <2>1, <2>4, <2>5, <2>7, <2>8, <3>2 DEF LeakInv
    <3> QED BY <3>1, <3>2
  <2>9. ASSUME NEW x \in mapped', x # CommonVirt
        PROVE  \E c \in Buffer : pc'[c] \in Mapping /\ vb'[c].virt = x
    BY <2>1, <2>3, <2>4, <2>5, <2>9 DEF LeakInv
  <2>10. \A c \in Buffer : pc'[c] \in Mapping => vb'[c].virt # CommonVirt
    BY <2>3, <2>4, <2>6 DEF LeakInv
  <2>11. 0 \in inUse' /\ slot'[0] = Common /\ CommonVirt \in mapped'
    BY <2>1, <2>2 DEF LeakInv
  <2> QED
    BY <2>8, <2>9, <2>10, <2>11 DEF LeakInv
<1>2. CASE AllocateUnmapped(b)
  <2>1. /\ pc[b] = "none" /\ pc' = [pc EXCEPT ![b] = "unmapped"] /\ vb' = vb /\ mapped' = mapped
        /\ inUse' = inUse /\ slot' = slot
    BY <1>2 DEF AllocateUnmapped, poolVars
  <2>2. pc'[b] = "unmapped" /\ \A c \in Buffer : c # b => pc'[c] = pc[c]
    BY <1>0, <2>1
  <2>3. pc[b] \notin Mapping /\ pc'[b] \notin Mapping
    BY <2>1, <2>2 DEF Mapping, Owning
  <2> QED
    BY <2>1, <2>2, <2>3 DEF LeakInv
<1>3. CASE RecordFill(b)
  <2>1. PICK i \in Slot : Takes(i, Slot \ inUse) /\ slot' = [slot EXCEPT ![i] = vb[b]]
    BY <1>3 DEF RecordFill
  <2>2. slot'[0] = slot[0]
    BY <1>0, <2>1 DEF Takes, FirstOf, LeakInv
  <2>3. /\ pc[b] = "record" /\ Goto(b, "mark") /\ vb' = vb /\ UNCHANGED kernelVars /\ inUse' = inUse
    BY <1>3 DEF RecordFill
  <2>4. "mark" \in PcLabels /\ "mark" \in Owning /\ "record" \in Owning
    BY DEF PcLabels, Owning
  <2> QED
    BY <2>2, <2>3, <2>4, LeakKept DEF LeakInv, Mapping
<1>4. CASE RecordMark(b) \/ RecordNot(b)
  <2>1. /\ pc[b] \in {"record", "mark"} /\ Goto(b, "held") /\ vb' = vb /\ UNCHANGED kernelVars
        /\ inUse \subseteq inUse' /\ slot' = slot
    BY <1>4 DEF RecordMark, RecordNot, Return, poolVars
  <2>2. "held" \in PcLabels /\ "held" \in Owning /\ "record" \in Owning /\ "mark" \in Owning
    BY DEF PcLabels, Owning
  <2> QED
    BY <2>1, <2>2, LeakKept DEF LeakInv, Mapping
<1> QED
  BY <1>1, <1>2, <1>3, <1>4 DEF AllocateStep

LEMMA LeakAtAccess ==
    ASSUME IInv, LeakInv, NEW b \in Buffer, AccessStep(b) PROVE LeakInv'
<1>1. /\ pc[b] \in Holding /\ vb' = vb /\ UNCHANGED kernelVars /\ inUse' = inUse /\ slot' = slot
      /\ \E label \in Holding : pc' = [pc EXCEPT ![b] = label]
  <2>1. \/ pc' = pc \/ \E label \in Holding : pc' = [pc EXCEPT ![b] = label]
    BY DEF AccessStep, Access, Look, Copy, LookEnds, AccessEnds, Return, Goto, Holding
  <2>2. /\ pc[b] \in Holding /\ vb' = vb /\ UNCHANGED kernelVars /\ inUse' = inUse /\ slot' = slot
    BY DEF AccessStep, Access, Look, Copy, LookEnds, AccessEnds, poolVars, Holding
  <2>3. pc' = pc => pc' = [pc EXCEPT ![b] = pc[b]]
    BY DEF IInv, TypeInv
  <2> QED
    BY <2>1, <2>2, <2>3
<1>2. PICK label \in Holding : Goto(b, label)
  BY <1>1 DEF Goto
<1>3. Holding \subseteq PcLabels /\ Holding \subseteq Owning /\ "unmapped" \notin Holding
  BY DEF Holding, PcLabels, Owning
<1> QED
  BY <1>1, <1>2, <1>3, LeakKept DEF LeakInv, Mapping

LEMMA LeakAtFree ==
    ASSUME IInv, LeakInv, NEW b \in Buffer, FreeStep(b) PROVE LeakInv'
<1> USE DEF Goto
<1>0. pc \in [Buffer -> PcLabels] /\ vb \in [Buffer -> Vdbs] /\ slot \in [Slot -> Vdbs]
  BY DEF IInv, TypeInv
<1>1. CASE Free(b)
  <2>1. PICK i \in Slot : i \in Shows(vb[b].addr) /\ inUse' = inUse \ {i}
    BY <1>1 DEF Free, FirstOf, Vacate
  <2>2. /\ pc[b] = "held" /\ Goto(b, "give") /\ vb' = vb /\ UNCHANGED kernelVars /\ slot' = slot
    BY <1>1 DEF Free
  <2>3. "held" \in PcLabels /\ "give" \in PcLabels /\ "held" \in Owning /\ "give" \in Owning
    BY DEF PcLabels, Owning
  <2>4. vb[b].addr # CommonAddr
    BY <2>2, <2>3 DEF IInv, PoolInv, KernelInv
  <2>5. i # 0
    BY <2>1, <2>4 DEF Shows, LeakInv, Common
  <2> QED
    BY <2>1, <2>2, <2>3, <2>5, LeakKept DEF LeakInv, Mapping
<1>2. CASE FreeUnknown(b)
  <2>1. /\ pc[b] = "held" /\ Goto(b, "lost") /\ vb' = vb /\ UNCHANGED kernelVars
        /\ inUse' = inUse /\ slot' = slot
    BY <1>2 DEF FreeUnknown, poolVars
  <2>2. "held" \in PcLabels /\ "lost" \in PcLabels /\ "held" \in Owning /\ "lost" \in Owning
    BY DEF PcLabels, Owning
  <2> QED
    BY <2>1, <2>2, LeakKept DEF LeakInv, Mapping
<1>3. CASE GiveMemory(b)
  <2>1. /\ pc[b] = "give" /\ allocated' = allocated \ {vdb[b].addr} /\ vb' = vb /\ mapped' = mapped
        /\ pc' = [pc EXCEPT ![b] = "unmap"] /\ inUse' = inUse /\ slot' = slot
    BY <1>3 DEF GiveMemory, poolVars
  <2>2. vdb[b] = vb[b]
    BY <2>1 DEF IInv, PoolInv, FreeFindsOwn
  <2>3. pc'[b] = "unmap" /\ \A c \in Buffer : c # b => pc'[c] = pc[c]
    BY <1>0, <2>1
  <2>4. pc[b] \in Mapping /\ pc'[b] \in Mapping
    BY <2>1, <2>3 DEF Mapping, Owning, PcLabels
  <2>5. \A c \in Buffer : pc'[c] \in Mapping <=> pc[c] \in Mapping
    BY <2>3, <2>4
  <2>6. (\E c \in Buffer : pc[c] = "unmapped") => \E c \in Buffer : pc'[c] = "unmapped"
    BY <2>1, <2>3
  <2>7. ASSUME ~\E c \in Buffer : pc'[c] = "unmapped", NEW x \in allocated', x # CommonAddr
        PROVE  \E c \in Buffer : pc'[c] \in Owning /\ vb'[c].addr = x
    <3>1. PICK c \in Buffer : pc[c] \in Owning /\ vb[c].addr = x
      BY <2>1, <2>6, <2>7 DEF LeakInv
    <3>2. c # b
      BY <2>1, <2>2, <2>7, <3>1
    <3> QED BY <2>1, <2>3, <3>1, <3>2
  <2> QED
    BY <2>1, <2>5, <2>7 DEF LeakInv
<1>4. CASE Unmap(b)
  <2>1. /\ pc[b] = "unmap" /\ mapped' = mapped \ {vdb[b].virt} /\ vb' = [vb EXCEPT ![b] = Empty]
        /\ pc' = [pc EXCEPT ![b] = "none"] /\ inUse' = inUse /\ slot' = slot /\ allocated' = allocated
    BY <1>4 DEF Unmap, Return, poolVars
  <2>2. vdb[b] = vb[b]
    BY <2>1 DEF IInv, PoolInv, FreeFindsOwn
  <2>3. /\ pc'[b] = "none" /\ \A c \in Buffer : c # b => pc'[c] = pc[c] /\ vb'[c] = vb[c]
    BY <1>0, <2>1
  <2>4. pc[b] \notin Owning /\ pc'[b] \notin Owning /\ pc[b] \in Mapping /\ pc'[b] \notin Mapping
    BY <2>1, <2>3 DEF Mapping, Owning, PcLabels
  <2>5. (\E c \in Buffer : pc[c] = "unmapped") => \E c \in Buffer : pc'[c] = "unmapped"
    BY <2>1, <2>3
  <2>6. ASSUME ~\E c \in Buffer : pc'[c] = "unmapped", NEW x \in allocated', x # CommonAddr
        PROVE  \E c \in Buffer : pc'[c] \in Owning /\ vb'[c].addr = x
    BY <2>1, <2>3, <2>4, <2>5, <2>6 DEF LeakInv
  <2>7. ASSUME NEW x \in mapped', x # CommonVirt
        PROVE  \E c \in Buffer : pc'[c] \in Mapping /\ vb'[c].virt = x
    <3>1. PICK c \in Buffer : pc[c] \in Mapping /\ vb[c].virt = x
      BY <2>1, <2>7 DEF LeakInv
    <3>2. c # b
      BY <2>1, <2>2, <2>7, <3>1
    <3> QED BY <2>3, <3>1, <3>2
  <2>8. \A c \in Buffer : pc'[c] \in Mapping => vb'[c].virt # CommonVirt
    BY <2>3, <2>4 DEF LeakInv
  <2>9. 0 \in inUse' /\ slot'[0] = Common /\ CommonVirt \in mapped'
    BY <2>1, <2>2, <2>4 DEF LeakInv
  <2> QED
    BY <2>6, <2>7, <2>8, <2>9 DEF LeakInv
<1> QED
  BY <1>1, <1>2, <1>3, <1>4 DEF FreeStep

LEMMA LeakStep == IInv /\ LeakInv /\ [Next]_vars => LeakInv'
<1> SUFFICES ASSUME IInv, LeakInv, [Next]_vars PROVE LeakInv'
  OBVIOUS
<1>1. ASSUME UNCHANGED vars PROVE LeakInv'
  BY <1>1 DEF vars, poolVars, callVars, kernelVars, LeakInv
<1> QED
  BY <1>1, LeakAtAllocate, LeakAtAccess, LeakAtFree DEF Next

\* When every buffer that vdi_allocate_dma_memory handed out has been freed, the kernel has all
\* memory and all mappings back and vpu_buffer_pool is as vdi_init left it, unless a buffer was
\* lost to a failed mmap or a full pool (vdi.c:1097-1151, :1261-1310).
THEOREM NothingIsLeaked == Spec => []NothingLeaked
<1>1. IInv /\ LeakInv => NothingLeaked
  <2> SUFFICES ASSUME IInv, LeakInv, Live = {}
               PROVE  allocated = {CommonAddr} /\ mapped = {CommonVirt} /\ inUse = {0}
    BY DEF NothingLeaked
  <2>1. \A b \in Buffer : pc[b] = "none"
    BY DEF Live
  <2>2. \A b \in Buffer : pc[b] \notin Mapping /\ pc[b] \notin Owning /\ pc[b] \notin Holding
    BY <2>1 DEF Mapping, Owning, Holding
  <2>3. allocated = {CommonAddr}
    BY <2>1, <2>2 DEF LeakInv, IInv, PoolInv, KernelInv
  <2>4. mapped = {CommonVirt}
    BY <2>2 DEF LeakInv
  <2>5. \A i \in inUse : i = 0
    <3> SUFFICES ASSUME NEW i \in inUse, i # 0 PROVE FALSE
      OBVIOUS
    <3>1. i \in Slot /\ 0 \in Slot /\ 0 < i
      BY SlotAssumption DEF IInv, TypeInv, Slot
    <3>2. slot[i] = Common
      BY <2>2 DEF IInv, PoolInv, SlotInv
    <3>3. slot[0].addr # slot[i].addr
      BY <3>1 DEF IInv, PoolInv, SlotInv
    <3> QED BY <3>2, <3>3 DEF LeakInv
  <2> QED
    BY <2>3, <2>4, <2>5 DEF LeakInv
<1>2. Spec => [](IInv /\ LeakInv)
  <2>1. Spec => []LeakInv
    BY LeakInit, LeakStep, Invariance, PTL DEF Spec
  <2> QED BY <2>1, Invariance, PTL
<1> QED
  BY <1>1, <1>2, PTL
=============================================================================
