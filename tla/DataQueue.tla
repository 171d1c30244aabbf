------------------------------ MODULE DataQueue ------------------------------
(***************************************************************************)
(* The ring queue of the sample framework,                                 *)
(* multiEnc/test_sample/helper/misc/datastructure.c.                       *)
(*                                                                         *)
(* Every operation runs under queue->lock from its first read to its last  *)
(* write, so an action per call is the granularity of the code.  What the  *)
(* lock does not cover is the pointer Queue_Dequeue and Queue_Peek return: *)
(* it points INTO the ring, and the caller reads the item through it after *)
(* the unlock.  The variable lent keeps that pointer and what it showed    *)
(* when it was handed out.                                                 *)
(***************************************************************************)
EXTENDS Integers, Sequences

CONSTANTS Size,     \* queue->size: the itemCount given to Queue_Create
          Item,     \* the items a caller can enqueue
          NoItem    \* what a slot holds before its first osal_memcpy

ASSUME SizeAssumption == Size \in Nat \ {0}
ASSUME ItemAssumption == NoItem \notin Item

VARIABLES count,    \* queue->count
          front,    \* queue->front, the slot to dequeue next
          rear,     \* queue->rear, the slot to fill next
          buffer,   \* queue->buffer, by slot
          lent      \* the pointer last returned: its slot, the item it showed, and
                    \* whether the ring has been filled up or flushed since

vars == <<count, front, rear, buffer, lent>>

Slots == 0 .. Size - 1

\* front %= queue->size, and the same for rear
Wrap(n) == n % Size

HasRoom_OneMore == count <= Size
\* A full queue is refused: Queue_Enqueue returns -1 and nothing changes.
HasRoom == count # Size

NotLent == [slot |-> 0, item |-> NoItem, reused |-> TRUE]
Lend_NextSlot(slot) ==
    lent' = [slot |-> Wrap(slot + 1), item |-> buffer[slot], reused |-> FALSE]
Lend(slot) == lent' = [slot |-> slot, item |-> buffer[slot], reused |-> FALSE]

Init == /\ count = 0
        /\ front = 0
        /\ rear = 0
        /\ buffer = [s \in Slots |-> NoItem]
        /\ lent = NotLent

Queue_Enqueue(item) ==
    /\ HasRoom
    /\ buffer' = [buffer EXCEPT ![rear] = item]
    /\ rear' = Wrap(rear + 1)
    /\ count' = count + 1
    /\ lent' = [slot |-> lent.slot, item |-> lent.item,
                reused |-> IF count + 1 = Size THEN TRUE ELSE lent.reused]
    /\ UNCHANGED front

Queue_Dequeue ==
    /\ count # 0
    /\ Lend(front)
    /\ front' = Wrap(front + 1)
    /\ count' = count - 1
    /\ UNCHANGED <<rear, buffer>>

Queue_Peek ==
    /\ count # 0
    /\ Lend(front)
    /\ UNCHANGED <<count, front, rear, buffer>>

Queue_Flush ==
    /\ count' = 0
    /\ front' = 0
    /\ rear' = 0
    /\ lent' = [slot |-> lent.slot, item |-> lent.item, reused |-> TRUE]
    /\ UNCHANGED buffer

Next == \/ \E item \in Item : Queue_Enqueue(item)
        \/ Queue_Dequeue
        \/ Queue_Peek
        \/ Queue_Flush

Spec == Init /\ [][Next]_vars
-----------------------------------------------------------------------------
\* count, front and rear stay inside the ring, so that no offset of Queue_Enqueue or
\* Queue_Dequeue (datastructure.c:108, :138) leaves the buffer.
TypeInv == /\ count \in 0 .. Size
           /\ front \in Slots
           /\ rear \in Slots
           /\ buffer \in [Slots -> Item \cup {NoItem}]
           /\ lent \in [slot : Slots, item : Item \cup {NoItem}, reused : BOOLEAN]

\* The i-th waiting item's slot, the oldest first.
SlotOf(i) == Wrap(front + i - 1)

\* The two indices and the count agree, and every waiting slot holds an item.
RingInv == /\ rear = Wrap(front + count)
           /\ \A i \in 1 .. count : buffer[SlotOf(i)] \in Item

\* Where a pointer handed out may point: the slot just vacated, behind front, or the
\* slot still at front; count then bounds how much was enqueued since.
LentInv == ~lent.reused => \/ lent.slot = front /\ count > 0
                           \/ lent.slot = Wrap(front + Size - 1) /\ count < Size

\* The pointer Queue_Dequeue or Queue_Peek returned still shows the item it showed, as long
\* as no later enqueue filled the ring and no flush reset it: datastructure.c:143 and :190
\* return &queue->buffer[offset] and release the lock that protects the slot.
LentPointerStable == ~lent.reused => buffer[lent.slot] = lent.item

\* The items that wait, oldest first.
Contents == [i \in 1 .. count |-> buffer[SlotOf(i)]]

FifoOf == INSTANCE Fifo WITH Capacity <- Size, items <- Contents

\* The ring keeps the promise of a bounded queue: items leave in the order they entered,
\* none lost, none twice, across every wrap of front and rear (datastructure.c:112-114,
\* :144-146).
QueueIsFifo == FifoOf!Spec
=============================================================================
