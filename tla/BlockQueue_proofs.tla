-------------------------- MODULE BlockQueue_proofs ---------------------------
(***************************************************************************)
(* Proofs about BlockQueue for any items, threads and capacity: its types,  *)
(* that no thread sleeps on items, and that the circular array implements   *)
(* a bounded first-in first-out queue.                                      *)
(***************************************************************************)
EXTENDS BlockQueue, SequenceTheorems, TLAPS

(* Index arithmetic: a sum of two indices wraps around at most once. *)
LEMMA ModSmall ==
  ASSUME NEW M \in Nat \ {0}, NEW a \in 0 .. M - 1
  PROVE  a % M = a
BY Z3

(* The sum of two indices that passes the end. *)
LEMMA ModWrap ==
  ASSUME NEW M \in Nat \ {0}, NEW a \in M .. (2 * M) - 1
  PROVE  a % M = a - M
BY Z3

(* Where the i-th item from front is. *)
LEMMA Place ==
  ASSUME NEW f \in -1 .. MaxSize - 1, NEW i \in 1 .. MaxSize
  PROVE  /\ Wrap(f + i) = IF f + i < MaxSize THEN f + i ELSE f + i - MaxSize
         /\ Wrap(f + i) \in Slots
<1>1. MaxSize \in Nat \ {0}
  BY QueueAssumption
<1>2. CASE f + i < MaxSize
  <2>1. f + i \in 0 .. MaxSize - 1
    BY <1>1, <1>2
  <2>2. Wrap(f + i) = f + i
    BY <1>1, <2>1, ModSmall DEF Wrap
  <2> QED
    BY <1>2, <2>1, <2>2 DEF Slots
<1>3. CASE f + i >= MaxSize
  <2>1. f + i \in MaxSize .. (2 * MaxSize) - 1
    BY <1>1, <1>3
  <2>2. Wrap(f + i) = f + i - MaxSize
    BY <1>1, <2>1, ModWrap DEF Wrap
  <2>3. f + i - MaxSize \in 0 .. MaxSize - 1
    BY <1>1, <1>3
  <2> QED
    BY <1>1, <1>3, <2>2, <2>3 DEF Slots
<1> QED
  BY <1>1, <1>2, <1>3

(* The slot a push writes, and the front a pop leaves. *)
LEMMA NextSlot ==
  ASSUME TypeOK, Shape
  PROVE  /\ size < MaxSize => Wrap(back + 1) = Wrap(front + (size + 1))
         /\ Wrap(back + 1) \in Slots
         /\ Wrap(front + 1) \in Slots
<1>1. /\ MaxSize \in Nat \ {0} /\ size \in 0 .. MaxSize
      /\ front \in -1 .. MaxSize - 1 /\ back \in -1 .. MaxSize - 1
  BY QueueAssumption DEF TypeOK
<1>2. Wrap(back + 1) \in Slots /\ Wrap(front + 1) \in Slots
  BY <1>1, Place
<1>3. ASSUME size < MaxSize
      PROVE  Wrap(back + 1) = Wrap(front + (size + 1))
  <2>1. CASE size = 0
    BY <1>1, <2>1 DEF Shape
  <2>2. CASE size > 0
    <3>1. back = IF front + size < MaxSize THEN front + size ELSE front + size - MaxSize
      BY <1>1, <2>2, Place DEF Shape
    <3>2. Wrap(back + 1) = IF back + 1 < MaxSize THEN back + 1 ELSE back + 1 - MaxSize
      BY <1>1, Place
    <3>3. size + 1 \in 1 .. MaxSize
      BY <1>1, <1>3
    <3>4. Wrap(front + (size + 1)) = IF front + (size + 1) < MaxSize THEN front + (size + 1)
                                    ELSE front + (size + 1) - MaxSize
      BY <1>1, <3>3, Place
    <3> QED
      BY <1>1, <1>3, <2>2, <3>1, <3>2, <3>4
  <2> QED
    BY <1>1, <2>1, <2>2
<1> QED
  BY <1>2, <1>3

(* What a returning operation leaves in ret. *)
LEMMA RetType ==
  ASSUME NEW op \in Operations, NEW ok \in BOOLEAN, NEW x \in Items \cup {NoItem},
         Returns(op, ok, x)
  PROVE  ret' \in [op : Operations, ok : BOOLEAN, value : Items \cup {NoItem}]
BY DEF Returns, Returned

-----------------------------------------------------------------------------
(* The initial state satisfies the inductive invariant. *)
LEMMA InitInv == Init => IInv
BY QueueAssumption DEF Init, IInv, TypeOK, Shape, NoLostWakeUp, Slots, Operations, Asleep, Returned

(* Taking the oldest item keeps the invariant. *)
LEMMA TakeInv ==
  ASSUME IInv, NEW t \in Threads, Take(t)
  PROVE  IInv'
<1>1. front' \in Slots /\ front' = Wrap(front + 1)
  BY NextSlot DEF IInv, Take
<1>2. /\ size \in 1 .. MaxSize /\ size' = size - 1
      /\ front \in -1 .. MaxSize - 1
      /\ back' = back /\ arr' = arr
  BY QueueAssumption DEF IInv, TypeOK, Take
<1>3. ret' \in [op : Operations, ok : BOOLEAN, value : Items \cup {NoItem}]
  <2>1. arr[front'] \in Items \cup {NoItem}
    BY <1>1 DEF IInv, TypeOK
  <2> QED
    BY <2>1, RetType DEF Take, Operations
<1>4. TypeOK'
  BY QueueAssumption, <1>1, <1>2, <1>3 DEF IInv, TypeOK, Take, Slots
<1>5. Shape'
  <2>1. back = Wrap(front + size)
    BY <1>2 DEF IInv, Shape
  <2>2. CASE size = 1
    BY <1>1, <1>2, <2>1, <2>2 DEF Shape
  <2>3. CASE size > 1
    <3>1. Wrap(front + 1) = IF front + 1 < MaxSize THEN front + 1 ELSE front + 1 - MaxSize
      BY <1>2, QueueAssumption, Place
    <3>2. Wrap(front + size)
            = IF front + size < MaxSize THEN front + size ELSE front + size - MaxSize
      BY <1>2, Place
    <3>3. Wrap(front' + (size - 1))
            = IF front' + (size - 1) < MaxSize THEN front' + (size - 1)
              ELSE front' + (size - 1) - MaxSize
      <4>1. size - 1 \in 1 .. MaxSize /\ front' \in -1 .. MaxSize - 1
        BY <1>1, <1>2, <2>3, QueueAssumption DEF Slots
      <4> QED
        BY <4>1, Place
    <3> QED
      BY <1>1, <1>2, <2>1, <2>3, <3>1, <3>2, <3>3, QueueAssumption DEF Shape
  <2> QED
    BY <1>2, <2>2, <2>3
<1>6. NoLostWakeUp'
  BY <1>2 DEF IInv, TypeOK, Take, NoLostWakeUp, Asleep
<1> QED
  BY <1>4, <1>5, <1>6 DEF IInv

(* Every step keeps the invariant. *)
LEMMA StepInv ==
  ASSUME IInv, [Next]_bqVars
  PROVE  IInv'
<1> USE QueueAssumption DEF IInv
<1>1. CASE UNCHANGED bqVars
  BY <1>1 DEF bqVars, ring, TypeOK, Shape, NoLostWakeUp, Slots, Asleep
<1>2. ASSUME NEW t \in Threads, NEW x \in Items, Push(t, x)
      PROVE  IInv'
  <2> USE <1>2 DEF Push, TypeOK, Returns
  <2>1. back' = Wrap(front + (size + 1)) /\ back' \in Slots
    BY NextSlot
  <2>2. TypeOK'
    BY <2>1 DEF Slots, Operations, Broadcast, Returned
  <2>3. Shape'
    BY <2>1 DEF Shape
  <2>4. NoLostWakeUp'
    BY DEF NoLostWakeUp, Broadcast, Asleep
  <2> QED
    BY <2>2, <2>3, <2>4
<1>3. ASSUME NEW t \in Threads, PushFails(t)
      PROVE  IInv'
  <2>1. ret' \in [op : Operations, ok : BOOLEAN, value : Items \cup {NoItem}]
    BY <1>3, RetType DEF PushFails, Operations
  <2>2. TypeOK' /\ Shape'
    BY <1>3, <2>1 DEF PushFails, Broadcast, ring, TypeOK, Shape, Slots
  <2>3. NoLostWakeUp'
    BY <1>3 DEF PushFails, Broadcast, ring, TypeOK, NoLostWakeUp, Asleep
  <2> QED
    BY <2>2, <2>3
<1>4. ASSUME NEW t \in Threads, NEW how \in Asleep, Sleep(t, how)
      PROVE  IInv'
  BY <1>4 DEF Sleep, ring, TypeOK, Shape, NoLostWakeUp, Slots, Asleep
<1>5. ASSUME NEW t \in Threads, TimedPopFails(t)
      PROVE  IInv'
  BY <1>5 DEF TimedPopFails, ring, TypeOK, Shape, NoLostWakeUp, Slots, Asleep, Returns,
     Operations, Returned
<1>6. ASSUME NEW t \in Threads, SpuriousWakeup(t)
      PROVE  IInv'
  BY <1>6 DEF SpuriousWakeup, ring, TypeOK, Shape, NoLostWakeUp, Slots, Asleep
<1>7. ASSUME NEW t \in Threads, Clear(t)
      PROVE  IInv'
  <2>1. ret' \in [op : Operations, ok : BOOLEAN, value : Items \cup {NoItem}]
    BY <1>7, RetType DEF Clear, Operations
  <2> QED
    BY <1>7, <2>1 DEF Clear, TypeOK, Shape, NoLostWakeUp, Slots
<1>8. ASSUME NEW t \in Threads, Full(t) \/ Empty(t) \/ Front(t) \/ Back(t)
      PROVE  IInv'
  <2>1. UNCHANGED <<ring, sleep>>
    BY <1>8 DEF Full, Empty, Front, Back
  <2>2. size > 0 => arr[back] \in Items \cup {NoItem}
    BY Place DEF TypeOK, Shape
  <2>3. size \in Nat /\ MaxSize \in Nat
    BY DEF TypeOK
  <2>4. ret' \in [op : Operations, ok : BOOLEAN, value : Items \cup {NoItem}]
    <3>1. CASE Full(t)
      <4>1. (size >= MaxSize) \in BOOLEAN
        BY <2>3
      <4> QED
        BY <3>1, <4>1, RetType DEF Full, Operations
    <3>2. CASE Empty(t)
      <4>1. (size = 0) \in BOOLEAN
        OBVIOUS
      <4> QED
        BY <3>2, <4>1, RetType DEF Empty, Operations
    <3>3. CASE Front(t)
      BY <3>3, RetType DEF Front, Operations
    <3>4. CASE Back(t)
      <4>1. CASE size = 0
        BY <3>4, <4>1, RetType DEF Back, Operations
      <4>2. CASE size > 0
        BY <2>2, <3>4, <4>2, RetType DEF Back, Operations
      <4> QED
        BY <2>3, <4>1, <4>2
    <3> QED
      BY <1>8, <3>1, <3>2, <3>3, <3>4
  <2> QED
    BY <2>1, <2>4 DEF ring, TypeOK, Shape, NoLostWakeUp, Slots
<1> QED
  BY <1>1, <1>2, <1>3, <1>4, <1>5, <1>6, <1>7, <1>8, TakeInv
     DEF Next, Pop, TimedPop, TimedWoken, TimedOut, Asleep

(* The inductive invariant holds of every reachable state. *)
LEMMA Invariance == Spec => []IInv
<1>1. Init => IInv
  BY InitInv
<1>2. IInv /\ [Next]_bqVars => IInv'
  BY StepInv
<1> QED
  BY <1>1, <1>2, PTL DEF Spec

(* The variables of the queue keep their types: the indices stay in the      *)
(* array or at -1, and the size never passes the capacity.                  *)
THEOREM Typing == Spec => []TypeOK
<1>1. IInv => TypeOK
  BY DEF IInv
<1> QED
  BY <1>1, Invariance, PTL

(* No thread sleeps in pop while the queue holds an item it was not woken for. *)
THEOREM NoLostWakeup == Spec => []NoSleepOnItems
<1>1. IInv => NoSleepOnItems
  BY DEF IInv, NoSleepOnItems
<1> QED
  BY <1>1, Invariance, PTL

-----------------------------------------------------------------------------
(* The refinement.                                                         *)

Values == Items \cup {NoItem}

(* What the ring holds, for any contents, front and size, is a sequence. *)
Contents(A, f, n) == [i \in 1 .. n |-> A[Wrap(f + i)]]

(* Its length and its elements. *)
LEMMA ContentsSeq ==
  ASSUME NEW A \in [Slots -> Values], NEW f \in -1 .. MaxSize - 1, NEW n \in 0 .. MaxSize
  PROVE  /\ Contents(A, f, n) \in Seq(Values)
         /\ Len(Contents(A, f, n)) = n
         /\ \A i \in 1 .. n : Contents(A, f, n)[i] = A[Wrap(f + i)]
<1>1. n \in Nat
  BY QueueAssumption
<1>2. ASSUME NEW i \in 1 .. n
      PROVE  A[Wrap(f + i)] \in Values
  <2>1. i \in 1 .. MaxSize
    BY QueueAssumption
  <2> QED
    BY <2>1, Place
<1>3. Contents(A, f, n) \in [1 .. n -> Values]
  BY <1>2 DEF Contents
<1> QED
  BY <1>1, <1>3 DEF Contents

(* A step that leaves the ring alone leaves the abstract queue alone. *)
LEMMA SameQueue == UNCHANGED ring => Queue' = Queue
BY DEF ring, Queue

(* A push appends: it writes a slot that holds none of the items. *)
LEMMA PushAppends ==
  ASSUME IInv, NEW t \in Threads, NEW x \in Items, Push(t, x)
  PROVE  Queue' = Append(Queue, x)
<1>1. /\ size \in 0 .. MaxSize /\ front \in -1 .. MaxSize - 1 /\ MaxSize \in Nat \ {0}
      /\ size < MaxSize /\ size' = size + 1 /\ front' = front
      /\ size + 1 \in 1 .. MaxSize /\ x \in Values
  BY QueueAssumption DEF IInv, TypeOK, Push, Values
<1>2. /\ back' = Wrap(front + (size + 1)) /\ back' \in Slots
      /\ arr' = [arr EXCEPT ![back'] = x] /\ arr \in [Slots -> Values]
  BY <1>1, NextSlot DEF IInv, TypeOK, Push, Values
<1>3. ASSUME NEW i \in 1 .. size
      PROVE  Wrap(front + i) # back' /\ Wrap(front + i) \in Slots
  <2>1. i \in 1 .. MaxSize /\ i < size + 1
    BY <1>1
  <2>2. Wrap(front + i) = IF front + i < MaxSize THEN front + i ELSE front + i - MaxSize
    BY <1>1, <2>1, Place
  <2>3. back' = IF front + (size + 1) < MaxSize THEN front + (size + 1)
                ELSE front + (size + 1) - MaxSize
    BY <1>1, <1>2, Place
  <2>4. Wrap(front + i) \in Slots
    BY <1>1, <2>1, Place
  <2> QED
    BY <1>1, <2>1, <2>2, <2>3, <2>4
<1>4. /\ Queue \in Seq(Values) /\ Len(Queue) = size
      /\ \A i \in 1 .. size : Queue[i] = arr[Wrap(front + i)]
  <2>1. Queue = Contents(arr, front, size)
    BY DEF Queue, Contents
  <2> QED
    BY <1>1, <1>2, <2>1, ContentsSeq
<1>5. /\ Queue' \in Seq(Values) /\ Len(Queue') = size + 1
      /\ \A i \in 1 .. size + 1 : Queue'[i] = arr'[Wrap(front + i)]
  <2>1. Queue' = Contents(arr', front, size + 1)
    BY <1>1 DEF Queue, Contents
  <2>2. arr' \in [Slots -> Values] /\ size + 1 \in 0 .. MaxSize
    BY <1>1, <1>2
  <2> QED
    BY <1>1, <2>1, <2>2, ContentsSeq
<1>6. ASSUME NEW i \in 1 .. size
      PROVE  Queue'[i] = Queue[i]
  <2>1. Queue'[i] = arr'[Wrap(front + i)]
    BY <1>1, <1>5
  <2>2. arr'[Wrap(front + i)] = arr[Wrap(front + i)]
    BY <1>2, <1>3
  <2> QED
    BY <1>4, <2>1, <2>2
<1>7. Queue'[size + 1] = x
  BY <1>1, <1>2, <1>5
<1> QED
  BY <1>1, <1>4, <1>5, <1>6, <1>7, AppendProperties, SeqEqual

(* A pop hands out the head and leaves the tail. *)
LEMMA TakeIsPop ==
  ASSUME IInv, NEW t \in Threads, Take(t)
  PROVE  Queue # <<>> /\ Queue' = Tail(Queue) /\ arr[front'] = Head(Queue)
<1>1. /\ size \in 1 .. MaxSize /\ size' = size - 1 /\ arr' = arr
      /\ front \in -1 .. MaxSize - 1 /\ arr \in [Slots -> Values]
      /\ MaxSize \in Nat \ {0}
  BY QueueAssumption DEF IInv, TypeOK, Take, Values
<1>2. front' = Wrap(front + 1) /\ front' \in Slots
  BY NextSlot DEF IInv, Take
<1>3. /\ Queue \in Seq(Values) /\ Len(Queue) = size
      /\ \A i \in 1 .. size : Queue[i] = arr[Wrap(front + i)]
  <2>1. Queue = Contents(arr, front, size)
    BY DEF Queue, Contents
  <2> QED
    BY <1>1, <2>1, ContentsSeq
<1>4. /\ Queue' \in Seq(Values) /\ Len(Queue') = size - 1
      /\ \A i \in 1 .. size - 1 : Queue'[i] = arr[Wrap(front' + i)]
  <2>1. Queue' = Contents(arr, front', size - 1)
    BY <1>1 DEF Queue, Contents
  <2>2. front' \in -1 .. MaxSize - 1 /\ size - 1 \in 0 .. MaxSize
    BY <1>1, <1>2 DEF Slots
  <2> QED
    BY <1>1, <2>1, <2>2, ContentsSeq
<1>5. ASSUME NEW i \in 1 .. size - 1
      PROVE  Wrap(front' + i) = Wrap(front + (i + 1))
  <2>1. i \in 1 .. MaxSize /\ i + 1 \in 1 .. MaxSize /\ front' \in -1 .. MaxSize - 1
        /\ 1 \in 1 .. MaxSize
    BY <1>1, <1>2 DEF Slots
  <2>2. front' = IF front + 1 < MaxSize THEN front + 1 ELSE front + 1 - MaxSize
    BY <1>1, <1>2, <2>1, Place
  <2>3. Wrap(front' + i) = IF front' + i < MaxSize THEN front' + i ELSE front' + i - MaxSize
    BY <2>1, Place
  <2>4. Wrap(front + (i + 1)) = IF front + (i + 1) < MaxSize THEN front + (i + 1)
                                ELSE front + (i + 1) - MaxSize
    BY <1>1, <2>1, Place
  <2> QED
    BY <1>1, <2>1, <2>2, <2>3, <2>4
<1>6. Queue # <<>>
  BY <1>1, <1>3
<1>7. Head(Queue) = arr[front']
  BY <1>1, <1>2, <1>3, <1>6, HeadTailProperties
<1>8. Queue' = Tail(Queue)
  <2>1. /\ Tail(Queue) \in Seq(Values) /\ Len(Tail(Queue)) = size - 1
        /\ \A i \in 1 .. size - 1 : Tail(Queue)[i] = Queue[i + 1]
    BY <1>1, <1>3, <1>6, HeadTailProperties
  <2>2. ASSUME NEW i \in 1 .. size - 1
        PROVE  Queue'[i] = Tail(Queue)[i]
    <3>1. i + 1 \in 1 .. size
      BY <1>1
    <3> QED
      BY <1>3, <1>4, <1>5, <2>1, <3>1
  <2> QED
    BY <1>1, <1>4, <2>1, <2>2, SeqEqual
<1> QED
  BY <1>6, <1>7, <1>8

(* An abstract operation that fails or only looks. *)
LEMMA LooksAreLooks ==
  ASSUME IInv, NEW t \in Threads,
         PushFails(t) \/ TimedPopFails(t) \/ Full(t) \/ Empty(t) \/ Front(t) \/ Back(t)
  PROVE  Fifo!Look
<1>1. UNCHANGED Queue
  BY SameQueue DEF PushFails, TimedPopFails, Full, Empty, Front, Back
<1>2. size \in 0 .. MaxSize /\ MaxSize \in Nat \ {0}
  BY QueueAssumption DEF IInv, TypeOK
<1>3. Len(Queue) = size /\ (Queue = <<>> <=> size = 0)
  <2>1. Queue = Contents(arr, front, size)
    BY DEF Queue, Contents
  <2>2. arr \in [Slots -> Values] /\ front \in -1 .. MaxSize - 1
    BY DEF IInv, TypeOK, Values
  <2>3. Queue \in Seq(Values) /\ Len(Queue) = size
    BY <1>2, <2>1, <2>2, ContentsSeq
  <2> QED
    BY <1>2, <2>3, EmptySeq
<1> USE DEF Returns, Returned, Fifo!Returned
<1>4. CASE PushFails(t)
  <2>1. Fifo!PushFails
    BY <1>2, <1>3, <1>4 DEF PushFails, Fifo!PushFails
  <2> QED
    BY <1>1, <2>1 DEF Fifo!Look
<1>5. CASE TimedPopFails(t)
  BY <1>1, <1>5 DEF TimedPopFails, Fifo!Look, Fifo!PopTimesOut
<1>6. CASE Full(t)
  <2>1. (size >= MaxSize) = (Len(Queue) = MaxSize)
    BY <1>2, <1>3
  <2>2. Fifo!Full
    BY <1>6, <2>1 DEF Full, Fifo!Full
  <2> QED
    BY <1>1, <2>2 DEF Fifo!Look
<1>7. CASE Empty(t)
  <2>1. (size = 0) = (Queue = <<>>)
    BY <1>3
  <2>2. Fifo!Empty
    BY <1>7, <2>1 DEF Empty, Fifo!Empty
  <2> QED
    BY <1>1, <2>2 DEF Fifo!Look
<1>8. CASE Front(t)
  <2>1. \E x \in Items \cup {NoItem} : ret' = Returned("front", size # 0, x)
    <3>1. CASE size = 0
      <4>1. (size # 0) = FALSE /\ NoItem \in Items \cup {NoItem}
        BY <3>1
      <4>2. ret' = Returned("front", FALSE, NoItem)
        BY <1>8, <3>1 DEF Front
      <4> QED
        BY <4>1, <4>2
    <3>2. CASE size > 0
      <4>1. (size # 0) = TRUE
        BY <3>2
      <4> QED
        BY <1>8, <3>2, <4>1 DEF Front
    <3> QED
      BY <1>2, <3>1, <3>2
  <2>2. (size # 0) = (Queue # <<>>)
    BY <1>3
  <2>3. Fifo!Front
    BY <2>1, <2>2 DEF Fifo!Front
  <2> QED
    BY <1>1, <2>3 DEF Fifo!Look
<1>9. CASE Back(t)
  <2>1. size # 0 => Queue[Len(Queue)] = arr[back]
    <3>1. size # 0 => back = Wrap(front + size) /\ size \in 1 .. size
      BY <1>2 DEF IInv, Shape
    <3> QED
      BY <1>3, <3>1 DEF Queue
  <2>2. Fifo!Back
    BY <1>3, <1>9, <2>1 DEF Back, Fifo!Back
  <2> QED
    BY <1>1, <2>2 DEF Fifo!Look
<1> QED
  BY <1>4, <1>5, <1>6, <1>7, <1>8, <1>9

(* Every step of the circular array is a step of the queue or a stutter. *)
LEMMA StepRefines ==
  ASSUME IInv, [Next]_bqVars
  PROVE  [Fifo!Next]_<<Queue, ret>>
<1>1. CASE UNCHANGED bqVars
  BY <1>1, SameQueue DEF bqVars
<1>2. ASSUME NEW t \in Threads, NEW x \in Items, Push(t, x)
      PROVE  Fifo!Next
  <2>1. Queue' = Append(Queue, x)
    BY <1>2, PushAppends
  <2>2. Len(Queue) < MaxSize
    <3>1. Queue = Contents(arr, front, size)
      BY DEF Queue, Contents
    <3>2. /\ arr \in [Slots -> Values] /\ front \in -1 .. MaxSize - 1
          /\ size \in 0 .. MaxSize
      BY DEF IInv, TypeOK, Values
    <3> QED
      BY <1>2, <3>1, <3>2, ContentsSeq DEF Push
  <2>3. Fifo!Push(x)
    BY <1>2, <2>1, <2>2 DEF Push, Fifo!Push, Returns, Returned, Fifo!Returned
  <2> QED
    BY <2>3 DEF Fifo!Next
<1>3. ASSUME NEW t \in Threads, Take(t)
      PROVE  Fifo!Next
  <2>1. Fifo!Pop
    BY <1>3, TakeIsPop DEF Take, Fifo!Pop, Returns, Returned, Fifo!Returned
  <2> QED
    BY <2>1 DEF Fifo!Next
<1>4. ASSUME NEW t \in Threads, NEW how \in Asleep, Sleep(t, how)
      PROVE  UNCHANGED <<Queue, ret>>
  BY <1>4, SameQueue DEF Sleep
<1>5. ASSUME NEW t \in Threads, SpuriousWakeup(t)
      PROVE  UNCHANGED <<Queue, ret>>
  BY <1>5, SameQueue DEF SpuriousWakeup
<1>6. ASSUME NEW t \in Threads, Clear(t)
      PROVE  Fifo!Next
  <2>1. Queue' = <<>>
    BY <1>6 DEF Clear, Queue
  <2>2. Fifo!Clear
    BY <1>6, <2>1 DEF Clear, Fifo!Clear, Returns, Returned, Fifo!Returned
  <2> QED
    BY <2>2 DEF Fifo!Next
<1>7. ASSUME NEW t \in Threads,
             PushFails(t) \/ TimedPopFails(t) \/ Full(t) \/ Empty(t) \/ Front(t) \/ Back(t)
      PROVE  Fifo!Next
  BY <1>7, LooksAreLooks DEF Fifo!Next
<1> QED
  BY <1>1, <1>2, <1>3, <1>4, <1>5, <1>6, <1>7
     DEF Next, Pop, TimedPop, TimedWoken, TimedOut, Asleep

(* block_queue is a bounded first-in first-out queue: whatever the threads   *)
(* do, every push and pop acts as on the abstract queue.                    *)
THEOREM Refines == Spec => ImplementsFifo
<1>1. Init => Fifo!Init
  BY DEF Init, Fifo!Init, Queue, Returned, Fifo!Returned
<1>2. IInv /\ [Next]_bqVars => [Fifo!Next]_<<Queue, ret>>
  BY StepRefines
<1> QED
  BY <1>1, <1>2, Invariance, PTL DEF Spec, ImplementsFifo, Fifo!Spec

=============================================================================
