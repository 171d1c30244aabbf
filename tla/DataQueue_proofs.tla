-------------------------- MODULE DataQueue_proofs --------------------------
(* Proofs about DataQueue for every ring size and every set of items.       *)
EXTENDS DataQueue, SequenceTheorems, TLAPS

\* All that the proofs below use of Wrap: what it is below two laps of the ring.
LEMMA WrapValue ==
  ASSUME NEW n \in 0 .. 2 * Size - 1
  PROVE  /\ n < Size => Wrap(n) = n
         /\ n >= Size => Wrap(n) = n - Size
  <1>1. n < Size => n % Size = n
    BY SizeAssumption
  <1>2. n >= Size => n % Size = n - Size
    BY SizeAssumption
  <1> QED
    BY <1>1, <1>2 DEF Wrap

\* The strengthening that is inductive: an item waits in every slot from front up to rear,
\* and the pointer handed out shows front or the slot just behind it.
IInv == TypeInv /\ RingInv /\ LentInv /\ LentPointerStable

LEMMA InitIInv == Init => IInv
  <1> SUFFICES ASSUME Init PROVE IInv
    OBVIOUS
  <1> USE SizeAssumption DEF Init, Slots
  <1>1. TypeInv
    BY DEF TypeInv, NotLent
  <1>2. RingInv
    <2>1. rear = Wrap(front + count)
      BY WrapValue
    <2> QED
      BY <2>1 DEF RingInv
  <1>3. LentInv /\ LentPointerStable
    BY DEF LentInv, LentPointerStable, NotLent
  <1> QED
    BY <1>1, <1>2, <1>3 DEF IInv

\* A waiting item never sits in the slot about to be filled, unless the ring is full.
LEMMA RearIsFree ==
  ASSUME TypeInv, RingInv, count # Size
  PROVE  \A i \in 1 .. count : SlotOf(i) # rear
  <1> SUFFICES ASSUME NEW i \in 1 .. count PROVE SlotOf(i) # rear
    OBVIOUS
  <1> USE SizeAssumption DEF TypeInv, RingInv, Slots
  <1>1. /\ SlotOf(i) = IF front + i - 1 < Size THEN front + i - 1 ELSE front + i - 1 - Size
        /\ rear = IF front + count < Size THEN front + count ELSE front + count - Size
    BY WrapValue DEF SlotOf
  <1> QED
    BY <1>1

LEMMA NextIInv == IInv /\ [Next]_vars => IInv'
  <1> SUFFICES ASSUME IInv, [Next]_vars PROVE IInv'
    OBVIOUS
  <1> USE SizeAssumption DEF IInv, Slots
  <1>1. ASSUME NEW item \in Item, Queue_Enqueue(item) PROVE IInv'
    <2> USE <1>1 DEF HasRoom, Queue_Enqueue
    <2>1. TypeInv'
      <3>1. lent' \in [slot : Slots, item : Item \cup {NoItem}, reused : BOOLEAN]
        <4>1. CASE count + 1 = Size
          BY <4>1 DEF TypeInv
        <4>2. CASE count + 1 # Size
          BY <4>2 DEF TypeInv
        <4> QED
          BY <4>1, <4>2
      <3>2. rear' \in Slots /\ count' \in 0 .. Size
        BY WrapValue DEF TypeInv
      <3> QED
        BY <3>1, <3>2 DEF TypeInv
    <2>2. RingInv'
      <3>1. rear' = Wrap(front' + count')
        BY WrapValue DEF TypeInv, RingInv
      <3>2. ASSUME NEW i \in 1 .. count' PROVE buffer'[SlotOf(i)'] \in Item
        <4>1. SlotOf(i)' = SlotOf(i)
          BY DEF SlotOf
        <4>2. CASE i = count + 1
          <5>1. SlotOf(i) = rear
            BY <4>2, SMTT(30) DEF SlotOf, TypeInv, RingInv
          <5> QED
            BY <4>1, <5>1, SMTT(30) DEF TypeInv
        <4>3. CASE i \in 1 .. count
          <5>1. SlotOf(i) # rear /\ SlotOf(i) \in Slots
            BY <4>3, RearIsFree, WrapValue DEF SlotOf, TypeInv
          <5> QED
            BY <4>1, <4>3, <5>1 DEF TypeInv, RingInv
        <4> QED
          BY <4>2, <4>3, <3>2 DEF TypeInv
      <3> QED
        BY <3>1, <3>2 DEF RingInv
    <2>3. LentInv'
      BY DEF LentInv, TypeInv
    <2>4. LentPointerStable'
      <3> SUFFICES ASSUME ~lent'.reused PROVE buffer'[lent'.slot] = lent'.item
        BY DEF LentPointerStable
      <3>1. ~lent.reused /\ count + 1 # Size /\ lent'.slot = lent.slot /\ lent'.item = lent.item
        BY DEF TypeInv
      <3>2. lent.slot # rear
        BY <3>1, WrapValue DEF LentInv, TypeInv, RingInv
      <3> QED
        BY <3>1, <3>2 DEF LentPointerStable, TypeInv
    <2> QED
      BY <2>1, <2>2, <2>3, <2>4
  <1>2. CASE Queue_Dequeue
    <2> USE <1>2 DEF Queue_Dequeue, Lend
    <2>1. TypeInv'
      BY WrapValue, SMTT(30) DEF TypeInv
    <2>2. RingInv'
      <3>1. rear' = Wrap(front' + count')
        BY WrapValue DEF TypeInv, RingInv
      <3>2. ASSUME NEW i \in 1 .. count' PROVE buffer'[SlotOf(i)'] \in Item
        <4>1. SlotOf(i)' = SlotOf(i + 1)
          BY <3>2, WrapValue DEF SlotOf, TypeInv
        <4> QED
          BY <3>2, <4>1 DEF TypeInv, RingInv
      <3> QED
        BY <3>1, <3>2 DEF RingInv
    <2>3. LentInv'
      <3>1. Wrap(front' + Size - 1) = front
        BY WrapValue DEF TypeInv
      <3> QED
        BY <3>1 DEF LentInv, TypeInv
    <2>4. LentPointerStable'
      BY DEF LentPointerStable
    <2> QED
      BY <2>1, <2>2, <2>3, <2>4
  <1>3. CASE Queue_Peek
    BY <1>3 DEF Queue_Peek, Lend, TypeInv, RingInv, SlotOf, LentInv, LentPointerStable
  <1>4. CASE Queue_Flush
    <2>1. TypeInv'
      BY <1>4 DEF Queue_Flush, TypeInv
    <2>3. LentInv' /\ LentPointerStable'
      BY <1>4 DEF Queue_Flush, LentInv, LentPointerStable
    <2>2. RingInv'
      BY <1>4, WrapValue DEF Queue_Flush, RingInv
    <2> QED
      BY <2>1, <2>2, <2>3
  <1>5. CASE UNCHANGED vars
    BY <1>5 DEF vars, TypeInv, RingInv, SlotOf, LentInv, LentPointerStable
  <1> QED
    BY <1>1, <1>2, <1>3, <1>4, <1>5 DEF Next

THEOREM Inductive == Spec => []IInv
  <1> QED
    BY InitIInv, NextIInv, PTL DEF Spec

\* The refinement, one step of the ring at a time.
LEMMA RefinesInit == Init => FifoOf!Init
  BY DEF Init, FifoOf!Init, Contents

LEMMA EnqueueIsPut ==
  ASSUME IInv, NEW item \in Item, Queue_Enqueue(item)
  PROVE  /\ Len(Contents) < Size
         /\ Contents' = Append(Contents, item)
  <1> USE SizeAssumption DEF IInv, Slots
  <1>1. /\ Contents \in Seq(Item)
        /\ Len(Contents) = count
    <2>1. \A i \in 1 .. count : Contents[i] \in Item
      BY DEF Contents, RingInv
    <2>2. Contents \in [1 .. count -> Item] /\ count \in Nat
      BY <2>1 DEF Contents, TypeInv
    <2> QED
      BY <2>2
  <1>2. Contents' = [i \in 1 .. count + 1 |-> IF i = count + 1 THEN item ELSE Contents[i]]
    <2>1. ASSUME NEW i \in 1 .. count + 1
          PROVE  buffer'[SlotOf(i)'] = IF i = count + 1 THEN item ELSE Contents[i]
      <3>1. SlotOf(i)' = SlotOf(i)
        BY DEF SlotOf, Queue_Enqueue
      <3>2. CASE i = count + 1
        <4>1. SlotOf(i) = rear
          BY <3>2 DEF SlotOf, TypeInv, RingInv
        <4> QED
          BY <3>1, <3>2, <4>1 DEF TypeInv, Queue_Enqueue
      <3>3. CASE i \in 1 .. count
        <4>1. SlotOf(i) # rear
          BY <3>3, RearIsFree DEF HasRoom, Queue_Enqueue
        <4>2. SlotOf(i) \in Slots
          BY <3>3, WrapValue DEF SlotOf, TypeInv
        <4> QED
          BY <3>1, <3>3, <4>1, <4>2 DEF TypeInv, Queue_Enqueue, Contents
      <3> QED
        BY <2>1, <3>2, <3>3 DEF TypeInv
    <2>2. count' = count + 1
      BY DEF HasRoom, Queue_Enqueue
    <2> QED
      BY <2>1, <2>2 DEF Contents
  <1>3. Contents' = Append(Contents, item)
    <2>1. Contents' \in Seq(Item) /\ Len(Contents') = count + 1
      <3>1. Contents' \in [1 .. count + 1 -> Item] /\ count + 1 \in Nat
        BY <1>1, <1>2, ElementOfSeq DEF TypeInv
      <3> QED
        BY <3>1
    <2>2. Append(Contents, item) \in Seq(Item) /\ Len(Append(Contents, item)) = count + 1
      BY <1>1, AppendProperties
    <2>3. \A i \in 1 .. count + 1 : Contents'[i] = Append(Contents, item)[i]
      BY <1>1, <1>2, AppendProperties DEF TypeInv
    <2> QED
      BY <2>1, <2>2, <2>3, SeqEqual
  <1> QED
    BY <1>1, <1>3 DEF TypeInv, Queue_Enqueue

LEMMA DequeueIsTake ==
  ASSUME IInv, Queue_Dequeue
  PROVE  /\ Contents # << >>
         /\ Contents' = Tail(Contents)
  <1> USE SizeAssumption DEF IInv, Slots
  <1>1. /\ Contents \in Seq(Item)
        /\ Len(Contents) = count
    <2>1. \A i \in 1 .. count : Contents[i] \in Item
      BY DEF Contents, RingInv
    <2>2. Contents \in [1 .. count -> Item] /\ count \in Nat
      BY <2>1 DEF Contents, TypeInv
    <2> QED
      BY <2>2
  <1>2. Contents # << >>
    BY <1>1 DEF Queue_Dequeue
  <1>3. Contents' = [i \in 1 .. count - 1 |-> Contents[i + 1]]
    <2>1. ASSUME NEW i \in 1 .. count - 1
          PROVE  buffer'[SlotOf(i)'] = Contents[i + 1]
      <3>1. SlotOf(i)' = SlotOf(i + 1)
        BY <2>1, WrapValue DEF SlotOf, TypeInv, Queue_Dequeue
      <3>2. i + 1 \in 1 .. count
        BY <2>1 DEF TypeInv
      <3> QED
        BY <3>1, <3>2 DEF Contents, Queue_Dequeue
    <2>2. count' = count - 1
      BY DEF Queue_Dequeue
    <2> QED
      BY <2>1, <2>2 DEF Contents
  <1>4. Contents' = Tail(Contents)
    <2>1. Contents' \in Seq(Item) /\ Len(Contents') = count - 1
      <3>1. Contents' \in [1 .. count - 1 -> Item] /\ count - 1 \in Nat
        BY <1>1, <1>3, ElementOfSeq DEF TypeInv, Queue_Dequeue
      <3> QED
        BY <3>1
    <2>2. Tail(Contents) \in Seq(Item) /\ Len(Tail(Contents)) = count - 1
      BY <1>1, <1>2, HeadTailProperties
    <2>3. \A i \in 1 .. count - 1 : Contents'[i] = Tail(Contents)[i]
      BY <1>1, <1>2, <1>3, HeadTailProperties DEF TypeInv
    <2> QED
      BY <2>1, <2>2, <2>3, SeqEqual
  <1> QED
    BY <1>2, <1>4

LEMMA RefinesNext == IInv /\ [Next]_vars => [FifoOf!Next]_Contents
  <1> SUFFICES ASSUME IInv, [Next]_vars PROVE [FifoOf!Next]_Contents
    OBVIOUS
  <1>1. ASSUME NEW item \in Item, Queue_Enqueue(item) PROVE FifoOf!Put
    BY <1>1, EnqueueIsPut DEF FifoOf!Put
  <1>2. CASE Queue_Dequeue
    BY <1>2, DequeueIsTake DEF FifoOf!Next, FifoOf!Take
  <1>3. CASE Queue_Peek
    BY <1>3 DEF Queue_Peek, Contents, SlotOf
  <1>4. CASE Queue_Flush
    BY <1>4 DEF Queue_Flush, Contents, FifoOf!Next, FifoOf!Clear
  <1>5. CASE UNCHANGED vars
    BY <1>5 DEF vars, Contents, SlotOf
  <1> QED
    BY <1>1, <1>2, <1>3, <1>4, <1>5 DEF Next, FifoOf!Next

\* The ring implements the abstract bounded queue, for every size.
THEOREM RingRefinesFifo == Spec => QueueIsFifo
  <1> QED
    BY RefinesInit, RefinesNext, Inductive, PTL DEF Spec, QueueIsFifo, FifoOf!Spec

\* The pointer a caller got from Queue_Dequeue or Queue_Peek shows the item it was given
\* for, whatever the ring size, until the ring is filled up or flushed.
THEOREM LentPointerSafe == Spec => []LentPointerStable
  <1>1. IInv => LentPointerStable
    BY DEF IInv
  <1> QED
    BY <1>1, Inductive, PTL
=============================================================================
