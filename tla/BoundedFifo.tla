----------------------------- MODULE BoundedFifo -----------------------------
(***************************************************************************)
(* What block_queue (src/webserver/log/block_queue.h) promises its callers: *)
(* a bounded first-in first-out queue whose operations happen at one point  *)
(* in time.  `ret` is the operation that returned last, with its answer    *)
(* and the value it hands out.  A caller that waits has not returned.       *)
(***************************************************************************)
EXTENDS Naturals, Sequences

CONSTANTS Items, Capacity, NoItem

VARIABLES queue, ret

Returned(op, ok, value) == [op |-> op, ok |-> ok, value |-> value]

Init == queue = <<>> /\ ret = Returned("none", FALSE, NoItem)

Push(x) ==
  /\ Len(queue) < Capacity
  /\ queue' = Append(queue, x)
  /\ ret' = Returned("push", TRUE, NoItem)

Pop ==
  /\ queue # <<>>
  /\ queue' = Tail(queue)
  /\ ret' = Returned("pop", TRUE, Head(queue))

Clear == queue' = <<>> /\ ret' = Returned("clear", TRUE, NoItem)

(* Operations that leave the queue alone. *)
PushFails == Len(queue) = Capacity /\ ret' = Returned("push", FALSE, NoItem)
PopTimesOut == ret' = Returned("pop", FALSE, NoItem)
Full == ret' = Returned("full", Len(queue) = Capacity, NoItem)
Empty == ret' = Returned("empty", queue = <<>>, NoItem)
Back == ret' = IF queue = <<>> THEN Returned("back", FALSE, NoItem)
                               ELSE Returned("back", TRUE, queue[Len(queue)])

(* front() answers whether there is an item; which one it hands out is not  *)
(* promised here.                                                           *)
Front == \E x \in Items \cup {NoItem} : ret' = Returned("front", queue # <<>>, x)

Look == /\ PushFails \/ PopTimesOut \/ Full \/ Empty \/ Back \/ Front
        /\ UNCHANGED queue

Next == Pop \/ Clear \/ Look \/ \E x \in Items : Push(x)

Spec == Init /\ [][Next]_<<queue, ret>>
=============================================================================
