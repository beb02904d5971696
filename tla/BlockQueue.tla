----------------------------- MODULE BlockQueue ------------------------------
(***************************************************************************)
(* block_queue<T> (src/webserver/log/block_queue.h): a circular array with  *)
(* one mutex and one condition variable.  An operation runs from lock to    *)
(* unlock in one step, except that a pop on an empty queue sleeps: the wait *)
(* releases the mutex, and what follows it is a step of its own.            *)
(***************************************************************************)
EXTENDS Integers, Sequences

CONSTANTS
  Items,    (* what the queue holds                                          *)
  Threads,  (* its users                                                     *)
  MaxSize,  (* m_max_size                                                    *)
  NoItem    (* a slot of the array never written, no value returned          *)

ASSUME QueueAssumption ==
  /\ MaxSize \in Nat \ {0}        \* the constructor exits otherwise
  /\ NoItem \notin Items

VARIABLES
  arr,      (* m_array                                                       *)
  size,     (* m_size                                                        *)
  front,    (* m_front: the slot before the oldest item, -1 at first         *)
  back,     (* m_back: the slot of the newest item, -1 at first              *)
  sleep,    (* of each thread: awake, or inside pop and its cond::wait       *)
  ret       (* the operation that returned last, its answer and value        *)

ring == <<arr, size, front, back>>
bqVars == <<ring, sleep, ret>>

Slots == 0 .. MaxSize - 1
Operations == {"none", "push", "pop", "clear", "full", "empty", "front", "back"}

TypeOK ==
  /\ arr \in [Slots -> Items \cup {NoItem}]
  /\ size \in 0 .. MaxSize
  /\ front \in -1 .. MaxSize - 1
  /\ back \in -1 .. MaxSize - 1
  /\ sleep \in [Threads -> {"awake", "waiting", "woken", "timed", "timed_woken"}]
  /\ ret \in [op : Operations, ok : BOOLEAN, value : Items \cup {NoItem}]

Returned(op, ok, value) == [op |-> op, ok |-> ok, value |-> value]

Init ==
  /\ arr = [i \in Slots |-> NoItem]
  /\ size = 0 /\ front = -1 /\ back = -1
  /\ sleep = [t \in Threads |-> "awake"]
  /\ ret = Returned("none", FALSE, NoItem)

-----------------------------------------------------------------------------
(* The index of a slot, around the circle. *)
Wrap(k) == k % MaxSize

Asleep == {"waiting", "timed"}

(* Mutant: cond::signal, which wakes one sleeping thread, in its place. *)
Signal ==
  LET S == {t \in Threads : sleep[t] \in Asleep} IN
  IF S = {} THEN UNCHANGED sleep ELSE
    sleep' = [sleep EXCEPT ![CHOOSE t \in S : TRUE] = IF @ = "timed" THEN "timed_woken" ELSE "woken"]

(* cond::broadcast *)
Broadcast ==
  sleep' = [t \in Threads |-> CASE sleep[t] = "waiting" -> "woken"
                                [] sleep[t] = "timed" -> "timed_woken"
                                [] OTHER -> sleep[t]]

Returns(op, ok, value) == ret' = Returned(op, ok, value)

Push(t, x) ==
  /\ sleep[t] = "awake" /\ size < MaxSize
  /\ back' = Wrap(back + 1)
  /\ arr' = [arr EXCEPT ![back'] = x]
  /\ size' = size + 1
  /\ UNCHANGED front
  /\ Returns("push", TRUE, NoItem)
  /\ Broadcast

PushFails(t) ==
  /\ sleep[t] = "awake" /\ size >= MaxSize
  /\ Returns("push", FALSE, NoItem)
  /\ Broadcast
  /\ UNCHANGED ring

(* The last lines of both pops, once the queue is seen not to be empty. *)
Take(t) ==
  /\ size > 0
  /\ front' = Wrap(front + 1)
  /\ Returns("pop", TRUE, arr[front'])
  /\ size' = size - 1
  /\ sleep' = [sleep EXCEPT ![t] = "awake"]
  /\ UNCHANGED <<arr, back>>

Sleep(t, how) ==
  /\ size <= 0
  /\ sleep' = [sleep EXCEPT ![t] = how]
  /\ UNCHANGED <<ring, ret>>

(* pop(item): a thread that is woken looks at the size again. *)
Pop(t) ==
  /\ sleep[t] \in {"awake", "woken"}
  /\ Take(t) \/ Sleep(t, "waiting")

(* pop(item, ms_timeout) waits at most once. *)
TimedPop(t) == sleep[t] = "awake" /\ (Take(t) \/ Sleep(t, "timed"))

TimedPopFails(t) ==
  /\ Returns("pop", FALSE, NoItem)
  /\ sleep' = [sleep EXCEPT ![t] = "awake"]
  /\ UNCHANGED ring

TimedWoken(t) ==
  /\ sleep[t] = "timed_woken"
  /\ Take(t) \/ (size <= 0 /\ TimedPopFails(t))

(* cond::timewait gives up without a look at the queue; the time may have   *)
(* run out just before a broadcast.                                         *)
TimedOut(t) == sleep[t] \in {"timed", "timed_woken"} /\ TimedPopFails(t)

(* POSIX lets a wait return although nobody has woken the thread. *)
SpuriousWakeup(t) ==
  /\ sleep[t] \in Asleep
  /\ sleep' = [sleep EXCEPT ![t] = IF @ = "timed" THEN "timed_woken" ELSE "woken"]
  /\ UNCHANGED <<ring, ret>>

(* Mutant: the index of the newest item keeps its place. *)
ClearSize(t) ==
  /\ sleep[t] = "awake"
  /\ size' = 0 /\ front' = -1
  /\ Returns("clear", TRUE, NoItem)
  /\ UNCHANGED <<arr, back, sleep>>

Clear(t) ==
  /\ sleep[t] = "awake"
  /\ size' = 0 /\ front' = -1 /\ back' = -1
  /\ Returns("clear", TRUE, NoItem)
  /\ UNCHANGED <<arr, sleep>>

Full(t) == sleep[t] = "awake" /\ Returns("full", size >= MaxSize, NoItem) /\ UNCHANGED <<ring, sleep>>
Empty(t) == sleep[t] = "awake" /\ Returns("empty", size = 0, NoItem) /\ UNCHANGED <<ring, sleep>>

(* front() reads the slot m_front, which is not the one pop takes next; at   *)
(* -1 it reads what lies before the array.                                  *)
Front(t) ==
  /\ sleep[t] = "awake"
  /\ \/ size = 0 /\ Returns("front", FALSE, NoItem)
     \/ \E x \in Items \cup {NoItem} :
          size > 0 /\ (front >= 0 => x = arr[front]) /\ Returns("front", TRUE, x)
  /\ UNCHANGED <<ring, sleep>>

Back(t) ==
  /\ sleep[t] = "awake"
  /\ IF size = 0 THEN Returns("back", FALSE, NoItem) ELSE Returns("back", TRUE, arr[back])
  /\ UNCHANGED <<ring, sleep>>

Next ==
  \E t \in Threads :
    \/ Pop(t) \/ TimedPop(t) \/ TimedWoken(t) \/ TimedOut(t) \/ SpuriousWakeup(t)
    \/ PushFails(t) \/ Clear(t) \/ Full(t) \/ Empty(t) \/ Front(t) \/ Back(t)
    \/ \E x \in Items : Push(t, x)

Spec == Init /\ [][Next]_bqVars

-----------------------------------------------------------------------------
(* Properties.                                                             *)

(* The items of the circular array, oldest first. *)
Queue == [i \in 1 .. size |-> arr[Wrap(front + i)]]

(* The circular array behaves as a bounded first-in first-out queue, across  *)
(* wrap-around, clear, failed pushes and waits that time out.               *)
Fifo == INSTANCE BoundedFifo WITH Capacity <- MaxSize, queue <- Queue
ImplementsFifo == Fifo!Spec

NoLostWakeUp == (\E t \in Threads : sleep[t] \in Asleep) => size = 0

(* No lost wake-up: a thread that sleeps and has not been woken sleeps on an *)
(* empty queue (push 149, pop 159-167).                                     *)
NoSleepOnItems == TypeOK /\ NoLostWakeUp

(* Where the indices stand: the newest item is `size` slots after front. *)
Shape == back = IF size = 0 THEN front ELSE Wrap(front + size)

IInv == TypeOK /\ Shape /\ NoLostWakeUp

(* front() hands out the oldest item, as its comment says (block_queue.h:77) *)
FrontIsOldest ==
  [][ret'.op = "front" /\ ret'.ok /\ ret' # ret => ret'.value = Queue[1]]_bqVars
=============================================================================
