------------------------- MODULE InstancePool_proofs --------------------------
(***************************************************************************)
(* That the pool of instances gives every slot to one context at a time    *)
(* and keeps the instance of a context whole until it is closed, for every *)
(* number of contexts and slots, although instances are given back outside *)
(* of the lock and openings fail half way.                                 *)
(***************************************************************************)
EXTENDS InstancePool, TLAPS, FiniteSetTheorems

PoolInv == LockInv /\ UseInv /\ OpenInv /\ OneOwner /\ SlotsAccounted
IInv == TypeInv /\ PoolInv

\* The number of instances the driver answers with is that of a set of slots.
LEMMA SlotsCounted == ASSUME NEW S \in SUBSET Slot PROVE Cardinality(S) \in 0 .. SlotNum
<1>1. IsFiniteSet(Slot) /\ Cardinality(Slot) = SlotNum
  BY FS_Interval, BoundsAssumption DEF Slot
<1>2. IsFiniteSet(S) /\ Cardinality(S) <= Cardinality(Slot)
  BY <1>1, FS_Subset
<1> QED BY <1>1, <1>2, FS_CardinalityType, BoundsAssumption

LEMMA IInvInit == Init => IInv
  BY NobodyAssumption, BoundsAssumption
  DEF Init, IInv, PoolInv, TypeInv, LockInv, UseInv, OpenInv, OneOwner, SlotsAccounted, Slot,
      Holding, HoldingPcs, LockedPcs

LEMMA TypeStep == TypeInv /\ [Next]_vars => TypeInv'
<1> SUFFICES ASSUME TypeInv, [Next]_vars PROVE TypeInv'
  OBVIOUS
<1> USE NobodyAssumption, BoundsAssumption
    DEF TypeInv, Slot, HoldingPcs, LockedPcs, Goto, Lock, Unlock, poolVars, contextVars
<1>1. ASSUME NEW c \in Context, OpenStep(c) PROVE TypeInv'
  <2>1. CASE OpenEnter(c)
    BY <2>1 DEF OpenEnter
  <2>11. CASE OpenRefused(c)
    BY <2>11 DEF OpenRefused
  <2>2. CASE Search(c)
    BY <2>2 DEF Search, SlotsLeft
  <2>3. CASE SearchEnds(c)
    BY <2>3 DEF SearchEnds
  <2>4. CASE Found(c)
    BY <2>4 DEF Found
  <2>5. CASE Take(c)
    BY <2>5 DEF Take
  <2>6. CASE Register(c)
    <3>1. opened' \subseteq Slot /\ saw' \in [Context -> 0 .. SlotNum]
      BY <2>6, SlotsCounted DEF Register, Driver
    <3> QED BY <2>6, <3>1 DEF Register
  <2>7. CASE RegisterFails(c)
    BY <2>7 DEF RegisterFails, LeaveBehind
  <2>8. CASE OpenCount(c)
    BY <2>8 DEF OpenCount, Recount
  <2>9. CASE Build(c)
    BY <2>9 DEF Build
  <2>10. CASE BuildFails(c)
    BY <2>10 DEF BuildFails, LeaveBehind
  <2> QED BY <1>1, <2>1, <2>2, <2>3, <2>4, <2>5, <2>6, <2>7, <2>8, <2>9, <2>10, <2>11 DEF OpenStep
<1>2. ASSUME NEW c \in Context, Open(c) \/ Close(c) \/ CloseStep(c) PROVE TypeInv'
  <2>1. CASE Open(c)
    BY <2>1 DEF Open
  <2>2. CASE Close(c) \/ CloseStep(c)
    BY <2>2 DEF Close, CloseStep, CloseEnter, StillRunning, CloseLeave
  <2> QED BY <1>2, <2>1, <2>2
<1>3. ASSUME NEW c \in Context, FreeStep(c) PROVE TypeInv'
  <2>1. CASE FreeMode(c)
    BY <2>1 DEF FreeMode
  <2>2. CASE Unregister(c)
    <3>1. opened' \subseteq Slot /\ saw' \in [Context -> 0 .. SlotNum]
      BY <2>2, SlotsCounted DEF Unregister, Driver
    <3> QED BY <2>2, <3>1 DEF Unregister
  <2>6. CASE UnregisterFails(c)
    BY <2>6 DEF UnregisterFails
  <2>3. CASE CloseCount(c)
    BY <2>3 DEF CloseCount, Recount
  <2>4. CASE FreeInfo(c)
    BY <2>4 DEF FreeInfo
  <2>5. CASE FreeSlot(c)
    BY <2>5 DEF FreeSlot
  <2> QED BY <1>3, <2>1, <2>2, <2>3, <2>4, <2>5, <2>6 DEF FreeStep
<1>4. CASE UNCHANGED vars
  BY <1>4 DEF vars
<1> QED BY <1>1, <1>2, <1>3, <1>4 DEF Next, CallStep
-----------------------------------------------------------------------------
\* Who holds the lock is the one context inside of it.
LEMMA LockStep ==
    ASSUME TypeInv, LockInv, NEW c \in Context, Open(c) \/ Close(c) \/ CallStep(c)
    PROVE  LockInv'
<1> USE NobodyAssumption DEF TypeInv, LockInv, HoldingPcs, LockedPcs, Goto, poolVars, contextVars
<1>1. CASE OpenEnter(c)
  BY <1>1 DEF OpenEnter, Lock
<1>2. CASE Search(c)
  BY <1>2 DEF Search, IsFree
<1>3. CASE SearchEnds(c)
  BY <1>3 DEF SearchEnds, Unlock
<1>4. CASE Found(c)
  BY <1>4 DEF Found, IsFree
<1>5. CASE Take(c)
  BY <1>5 DEF Take
<1>6. CASE Register(c)
  BY <1>6 DEF Register, Driver
<1>7. CASE RegisterFails(c)
  BY <1>7 DEF RegisterFails, LeaveBehind, Unlock
<1>8. CASE OpenCount(c)
  BY <1>8 DEF OpenCount, Recount
<1>9. CASE Build(c)
  BY <1>9 DEF Build, Unlock
<1>10. CASE BuildFails(c)
  BY <1>10 DEF BuildFails, LeaveBehind, Unlock
<1>11. CASE Open(c)
  BY <1>11 DEF Open
<1>12. CASE Close(c)
  BY <1>12 DEF Close
<1>13. CASE CloseEnter(c)
  BY <1>13 DEF CloseEnter, Lock
<1>14. CASE StillRunning(c)
  BY <1>14 DEF StillRunning, Unlock
<1>15. CASE CloseLeave(c)
  BY <1>15 DEF CloseLeave, Unlock
<1>16. CASE FreeMode(c)
  BY <1>16 DEF FreeMode
<1>17. CASE Unregister(c)
  BY <1>17 DEF Unregister, Driver
<1>21. CASE OpenRefused(c)
  BY <1>21 DEF OpenRefused
<1>22. CASE UnregisterFails(c)
  BY <1>22 DEF UnregisterFails
<1>18. CASE CloseCount(c)
  BY <1>18 DEF CloseCount, Recount
<1>19. CASE FreeInfo(c)
  BY <1>19 DEF FreeInfo
<1>20. CASE FreeSlot(c)
  BY <1>20 DEF FreeSlot
<1> QED
  BY <1>1, <1>2, <1>3, <1>4, <1>5, <1>6, <1>7, <1>8, <1>9, <1>10, <1>11, <1>12, <1>13, <1>14,
     <1>15, <1>16, <1>17, <1>18, <1>19, <1>20, <1>21, <1>22
  DEF CallStep, OpenStep, CloseStep, FreeStep

\* Slots come and go, and each has one owner.
LEMMA OwnerStep ==
    ASSUME IInv, NEW c \in Context, Open(c) \/ Close(c) \/ CallStep(c)
    PROVE  UseInv' /\ OneOwner' /\ SlotsAccounted'
<1> USE NobodyAssumption DEF IInv, PoolInv, TypeInv, LockInv, UseInv, OneOwner, SlotsAccounted, Holding,
          HoldingPcs, LockedPcs, Goto, poolVars, contextVars
<1>1. CASE OpenEnter(c)
  BY <1>1 DEF OpenEnter, Lock
<1>2. CASE Search(c)
  BY <1>2 DEF Search, IsFree
<1>3. CASE SearchEnds(c)
  BY <1>3 DEF SearchEnds, Unlock
<1>4. CASE Found(c)
  BY <1>4 DEF Found, IsFree
<1>5. CASE Take(c)
  BY <1>5 DEF Take
<1>6. CASE Register(c)
  BY <1>6 DEF Register, Driver
<1>7. CASE RegisterFails(c)
  BY <1>7 DEF RegisterFails, LeaveBehind, Unlock
<1>8. CASE OpenCount(c)
  BY <1>8 DEF OpenCount, Recount
<1>9. CASE Build(c)
  BY <1>9 DEF Build, Unlock
<1>10. CASE BuildFails(c)
  BY <1>10 DEF BuildFails, LeaveBehind, Unlock
<1>11. CASE Open(c)
  BY <1>11 DEF Open
<1>12. CASE Close(c)
  BY <1>12 DEF Close
<1>13. CASE CloseEnter(c)
  BY <1>13 DEF CloseEnter, Lock
<1>14. CASE StillRunning(c)
  BY <1>14 DEF StillRunning, Unlock
<1>15. CASE CloseLeave(c)
  BY <1>15 DEF CloseLeave, Unlock
<1>16. CASE FreeMode(c)
  BY <1>16 DEF FreeMode
<1>17. CASE Unregister(c)
  BY <1>17 DEF Unregister, Driver
<1>21. CASE OpenRefused(c)
  BY <1>21 DEF OpenRefused
<1>22. CASE UnregisterFails(c)
  BY <1>22 DEF UnregisterFails
<1>18. CASE CloseCount(c)
  BY <1>18 DEF CloseCount, Recount
<1>19. CASE FreeInfo(c)
  BY <1>19 DEF FreeInfo
<1>20. CASE FreeSlot(c)
  <2>1. /\ pc[c] = "unuse" /\ pc' = [pc EXCEPT ![c] = "closed"] /\ ~Holding(c)'
        /\ inUse' = inUse \ {at[c]} /\ UNCHANGED <<at, lost>>
    BY <1>20 DEF FreeSlot
  <2>2. \A d \in Context : d # c => (Holding(d)' <=> Holding(d)) /\ pc'[d] = pc[d]
    BY <2>1
  <2>3. \A d \in Context : d # c /\ Holding(d) => at[d] # at[c]
    BY <2>1
  <2>4. UseInv' /\ OneOwner'
    BY <2>1, <2>2, <2>3
  <2>5. \A i \in Slot : i \in inUse' => i \in inUse /\ i # at[c]
    BY <2>1
  <2>6. SlotsAccounted'
    BY <2>1, <2>2, <2>3, <2>5
  <2> QED BY <2>4, <2>6
<1> QED
  BY <1>1, <1>2, <1>3, <1>4, <1>5, <1>6, <1>7, <1>8, <1>9, <1>10, <1>11, <1>12, <1>13, <1>14,
     <1>15, <1>16, <1>17, <1>18, <1>19, <1>20, <1>21, <1>22
  DEF CallStep, OpenStep, CloseStep, FreeStep

\* What one context sets or clears belongs to its own slot.
LEMMA WholeStep ==
    ASSUME IInv, NEW c \in Context, Open(c) \/ Close(c) \/ CallStep(c)
    PROVE  OpenInv'
<1> USE NobodyAssumption DEF IInv, PoolInv, TypeInv, OpenInv, UseInv, OneOwner, Holding,
          HoldingPcs, LockedPcs, Goto, poolVars, contextVars
<1>1. CASE OpenEnter(c)
  BY <1>1 DEF OpenEnter, Lock
<1>2. CASE Search(c)
  BY <1>2 DEF Search, IsFree
<1>3. CASE SearchEnds(c)
  BY <1>3 DEF SearchEnds, Unlock
<1>4. CASE Found(c)
  BY <1>4 DEF Found, IsFree
<1>5. CASE Take(c)
  <2>1. pc[c] = "take" /\ at[c] \notin inUse /\ at[c] \in Slot
    BY <1>5 DEF Take
  <2>2. /\ pc' = [pc EXCEPT ![c] = "register"] /\ mode' = mode \ {at[c]}
        /\ info' = [info EXCEPT ![at[c]] = c] /\ UNCHANGED <<at, opened>>
    BY <1>5 DEF Take
  <2>3. \A d \in Context : d # c /\ Holding(d) => at[d] # at[c]
    BY <2>1
  <2> QED BY <2>1, <2>2, <2>3
<1>6. CASE Register(c)
  BY <1>6 DEF Register, Driver
<1>7. CASE RegisterFails(c)
  BY <1>7 DEF RegisterFails, LeaveBehind, Unlock
<1>8. CASE OpenCount(c)
  BY <1>8 DEF OpenCount, Recount
<1>9. CASE Build(c)
  BY <1>9 DEF Build, Unlock
<1>10. CASE BuildFails(c)
  BY <1>10 DEF BuildFails, LeaveBehind, Unlock
<1>11. CASE Open(c)
  BY <1>11 DEF Open
<1>12. CASE Close(c)
  BY <1>12 DEF Close
<1>13. CASE CloseEnter(c)
  BY <1>13 DEF CloseEnter, Lock
<1>14. CASE StillRunning(c)
  BY <1>14 DEF StillRunning, Unlock
<1>15. CASE CloseLeave(c)
  BY <1>15 DEF CloseLeave, Unlock
<1>16. CASE FreeMode(c)
  BY <1>16 DEF FreeMode
<1>17. CASE Unregister(c)
  BY <1>17 DEF Unregister, Driver
<1>21. CASE OpenRefused(c)
  BY <1>21 DEF OpenRefused
<1>22. CASE UnregisterFails(c)
  BY <1>22 DEF UnregisterFails
<1>18. CASE CloseCount(c)
  BY <1>18 DEF CloseCount, Recount
<1>19. CASE FreeInfo(c)
  BY <1>19 DEF FreeInfo
<1>20. CASE FreeSlot(c)
  BY <1>20 DEF FreeSlot
<1> QED
  BY <1>1, <1>2, <1>3, <1>4, <1>5, <1>6, <1>7, <1>8, <1>9, <1>10, <1>11, <1>12, <1>13, <1>14,
     <1>15, <1>16, <1>17, <1>18, <1>19, <1>20, <1>21, <1>22
  DEF CallStep, OpenStep, CloseStep, FreeStep

LEMMA PoolStep == IInv /\ [Next]_vars => PoolInv'
<1> SUFFICES ASSUME IInv, [Next]_vars PROVE PoolInv'
  OBVIOUS
<1>1. ASSUME NEW c \in Context, Open(c) \/ Close(c) \/ CallStep(c) PROVE PoolInv'
  BY <1>1, LockStep, OwnerStep, WholeStep DEF IInv, PoolInv
<1>2. CASE UNCHANGED vars
  BY <1>2 DEF vars, poolVars, contextVars, IInv, PoolInv, TypeInv, LockInv, UseInv, OpenInv,
              OneOwner, SlotsAccounted, Holding
<1> QED BY <1>1, <1>2 DEF Next

LEMMA Invariance == Spec => []IInv
<1>1. IInv /\ [Next]_vars => IInv'
  BY TypeStep, PoolStep DEF IInv
<1> QED BY IInvInit, <1>1, PTL DEF Spec
-----------------------------------------------------------------------------
\* Every variable keeps its type: no search runs over the end of the pool and
\* vpu_instance_num is never more than the slots there are.
THEOREM TypeCorrect == Spec => []TypeInv
<1>1. IInv => TypeInv
  BY DEF IInv
<1> QED BY Invariance, <1>1, PTL

\* GetCodecInstance gives no slot to two contexts.
THEOREM SlotsAreExclusive == Spec => []OneOwner
<1>1. IInv => OneOwner
  BY DEF IInv, PoolInv
<1> QED BY Invariance, <1>1, PTL

\* An open instance stays valid, with its memory and its instance of the driver,
\* until its own context closes it.
THEOREM InstancesStayWhole == Spec => []InstanceIsWhole
<1>1. IInv => InstanceIsWhole
  <2> SUFFICES ASSUME UseInv, OpenInv, NEW c \in Context,
                      pc[c] \in {"held", "close", "finish", "free"}
               PROVE  at[c] \in inUse \cap mode \cap opened /\ info[at[c]] = c
    BY DEF IInv, PoolInv, InstanceIsWhole
  <2>1. at[c] \in inUse
    BY DEF UseInv, Holding, HoldingPcs
  <2>2. at[c] \in mode /\ at[c] \in opened /\ info[at[c]] = c
    BY DEF OpenInv, HoldingPcs
  <2> QED BY <2>1, <2>2
<1> QED BY Invariance, <1>1, PTL

\* Only failed openings take slots out of the pool for good.
THEOREM SlotsAreAccounted == Spec => []SlotsAccounted
<1>1. IInv => SlotsAccounted
  BY DEF IInv, PoolInv
<1> QED BY Invariance, <1>1, PTL
=============================================================================
