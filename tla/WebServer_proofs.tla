--------------------------- MODULE WebServer_proofs ---------------------------
(***************************************************************************)
(* Proofs about the web server: its event loop with the queue and the      *)
(* workers, and the list of timers, which are modelled apart.              *)
(*                                                                         *)
(* WebServer, for any descriptors, workers and limits, as long as the      *)
(* limit for connections is not above that of the queue.  IInv is          *)
(* inductive: that the queue has room needs the count of connections, and  *)
(* that count, the queue and the workers hold together only because every  *)
(* connection has one owner.                                               *)
(*                                                                         *)
(* TimerList, for any number of nodes and any timeout: as long as no two   *)
(* connections tie while a tick has left its traces, the list is a row of  *)
(* the open connections, linked in both directions and in the order in     *)
(* which they are due, and it keeps the promise of IdleTimers.  A renewed  *)
(* connection is due last of all.  So add_timer puts it at the end of the  *)
(* row, or before those that are due in the same second, and never takes   *)
(* the branch that forgets the head.                                       *)
(***************************************************************************)
EXTENDS WebServer, TimerList, FiniteSetTheorems, SequenceTheorems, WellFoundedInduction, TLAPS

-----------------------------------------------------------------------------
(***************************************************************************)
(* WebServer.                                                              *)
(***************************************************************************)

Woken == {w \in Workers : stage[w] = "woken"}

(* The sets that are counted are finite. *)
LEMMA FiniteSets ==
  /\ IsFiniteSet(Open) /\ Cardinality(Open) \in Nat
  /\ IsFiniteSet(Woken) /\ Cardinality(Woken) \in Nat
<1>1. Open \in SUBSET Fds /\ Woken \in SUBSET Workers
  BY DEF Open, Woken
<1>2. IsFiniteSet(Fds) /\ IsFiniteSet(Workers)
  BY WebAssumption
<1> QED
  BY <1>1, <1>2, FS_Subset, FS_CardinalityType

(* A request at the end of the queue. *)
LEMMA Appended ==
  ASSUME NEW S, NEW q \in Seq(S), NEW e \in S
  PROVE  /\ Append(q, e) \in Seq(S)
         /\ Len(Append(q, e)) = Len(q) + 1
         /\ DOMAIN Append(q, e) = 1 .. Len(q) + 1
         /\ DOMAIN q = 1 .. Len(q) /\ Len(q) \in Nat
         /\ \A i \in 1 .. Len(q) : Append(q, e)[i] = q[i]
         /\ Append(q, e)[Len(q) + 1] = e
OBVIOUS

(* A request taken from the front. *)
LEMMA Taken ==
  ASSUME NEW S, NEW q \in Seq(S), Len(q) > 0
  PROVE  /\ Head(q) = q[1] /\ 1 \in DOMAIN q /\ Head(q) \in S
         /\ Tail(q) \in Seq(S) /\ Len(Tail(q)) = Len(q) - 1
         /\ DOMAIN Tail(q) = 1 .. Len(q) - 1
         /\ \A i \in DOMAIN Tail(q) : i + 1 \in DOMAIN q /\ Tail(q)[i] = q[i + 1]
OBVIOUS

(* A worker that has passed the semaphore finds the queue not empty. *)
LEMMA WokenFinds ==
  ASSUME IInv, NEW w \in Workers, stage[w] = "woken"
  PROVE  Len(queue) > 0
<1>1. w \in Woken
  BY DEF Woken
<1>2. Cardinality(Woken) # 0
  BY <1>1, FiniteSets, FS_EmptySet
<1>3. Cardinality(Woken) \in Nat
  BY FiniteSets
<1>4. permits + Cardinality(Woken) = Len(queue) /\ permits \in Nat
  BY DEF IInv, PermitsLeft, TypeOK, Woken
<1> QED
  BY ONLY <1>2, <1>3, <1>4

(* An armed connection is not queued, so the queue has room for it. *)
LEMMA QueueHasRoom ==
  ASSUME IInv, NEW f \in Fds, epoll[f] = "in"
  PROVE  Len(queue) < MaxRequests
<1> DEFINE Others == Open \ {f}
<1>1. queue \in Seq(Fds) /\ Len(queue) \in Nat /\ DOMAIN queue = 1 .. Len(queue)
  BY DEF IInv, TypeOK
<1>2. \A i \in 1 .. Len(queue) : queue[i] \in Others
  <2>1. \A i \in 1 .. Len(queue) : queue[i] \in Fds /\ epoll[queue[i]] = "off"
    BY <1>1 DEF IInv, OneOwner
  <2> QED
    BY <2>1 DEF Open
<1>3. [i \in 1 .. Len(queue) |-> queue[i]] \in Injection(1 .. Len(queue), Others)
  BY <1>1, <1>2 DEF Injection, IsInjective, IInv, OneOwner
<1>4. /\ IsFiniteSet(Others)
      /\ Cardinality(Others) = Cardinality(Open) - 1
  <2>1. f \in Open
    BY DEF Open
  <2> QED
    BY <2>1, FiniteSets, FS_RemoveElement
<1>5. Cardinality(1 .. Len(queue)) <= Cardinality(Others)
  BY <1>3, <1>4, FS_Injection
<1>6. Cardinality(1 .. Len(queue)) = Len(queue)
  BY <1>1, FS_Interval
<1>7. Cardinality(Open) <= MaxUsers /\ Cardinality(Open) \in Nat
  BY FiniteSets DEF IInv, CountIsOpen, Room
<1>8. MaxUsers \in Nat /\ MaxRequests \in Nat /\ MaxUsers <= MaxRequests
  BY WebAssumption
<1> HIDE DEF Others
<1> QED
  BY ONLY <1>1, <1>4, <1>5, <1>6, <1>7, <1>8

(* The initial state satisfies the inductive invariant. *)
LEMMA InitInv == Init => IInv
<1> SUFFICES ASSUME Init PROVE IInv
  OBVIOUS
<1> USE DEF Init
<1>1. TypeOK
  BY DEF TypeOK
<1>2. OneOwner
  BY DEF OneOwner, Busy
<1>3. Open = {} /\ Woken = {}
  BY DEF Open, Woken
<1>4. CountIsOpen /\ Room
  BY <1>3, FS_EmptySet, WebAssumption DEF CountIsOpen, Room
<1>5. PermitsLeft
  <2>1. Cardinality(Woken) = 0 /\ Len(queue) = 0 /\ permits = 0
    BY <1>3, FS_EmptySet
  <2> QED
    BY <2>1 DEF PermitsLeft, Woken
<1>6. OutMeansReady
  BY DEF OutMeansReady
<1> QED
  BY <1>1, <1>2, <1>4, <1>5, <1>6 DEF IInv

-----------------------------------------------------------------------------
(* Every step keeps the types. *)
LEMMA TypeStep == IInv /\ [Next]_vars => TypeOK'
<1> SUFFICES ASSUME IInv, [Next]_vars PROVE TypeOK'
  OBVIOUS
<1> USE DEF net, pool, workers
<1>0. TypeOK
  BY DEF IInv
<1>1. ASSUME NEW f \in Fds, Client(f) PROVE TypeOK'
  BY <1>0, <1>1 DEF TypeOK, Client, ClientSends, ClientCloses, Open
<1>2. ASSUME NEW f \in Fds, Accept(f) PROVE TypeOK'
  BY <1>0, <1>2 DEF TypeOK, Accept, Wiped
<1>3. ASSUME NEW f \in Fds, CloseFd(f), epoll[f] # "closed", ready' \subseteq ready PROVE TypeOK'
  <2>1. count \in Nat \ {0}
    <3>1. f \in Open
      BY <1>3 DEF Open
    <3>2. Cardinality(Open) # 0
      BY <3>1, FiniteSets, FS_EmptySet
    <3> QED
      BY <1>0, <3>2 DEF IInv, CountIsOpen, TypeOK
  <2> QED
    BY <1>0, <1>3, <2>1 DEF TypeOK, CloseFd
<1>4. ASSUME NEW f \in Fds, Read(f) PROVE TypeOK'
  <2>1. queue' = Append(queue, f) /\ permits' = permits + 1
    BY <1>4, QueueHasRoom DEF Read, Enqueue
  <2>2. queue' \in Seq(Fds) /\ permits' \in Nat
    BY <1>0, <2>1, Appended DEF TypeOK
  <2> QED
    BY <1>0, <1>4, <2>2 DEF TypeOK, Read
<1>5. ASSUME NEW f \in Fds, WriteKeep(f) PROVE TypeOK'
  BY <1>0, <1>5 DEF TypeOK, WriteKeep, Wiped, Modfd
<1>6. ASSUME NEW w \in Workers, Wake(w) PROVE TypeOK'
  BY <1>0, <1>6 DEF TypeOK, Wake, Moves
<1>7. ASSUME NEW w \in Workers, Take(w) PROVE TypeOK'
  <2>1. Head(queue) \in Fds /\ Tail(queue) \in Seq(Fds)
    BY <1>0, <1>7, WokenFinds, Taken DEF TypeOK, Take, Moves
  <2> QED
    BY <1>0, <1>7, <2>1 DEF TypeOK, Take, Moves
<1>8. ASSUME NEW w \in Workers, Incomplete(w) PROVE TypeOK'
  BY <1>0, <1>8 DEF TypeOK, Incomplete, Moves
<1>9. ASSUME NEW w \in Workers, stage[w] \in {"busy", "in", "out"} PROVE job[w] \in Fds
  BY <1>9 DEF IInv, OneOwner, Busy
<1>10. ASSUME NEW w \in Workers, Answer(w) PROVE TypeOK'
  BY <1>0, <1>9, <1>10 DEF TypeOK, Answer, Moves
<1>11. ASSUME NEW w \in Workers, Rearm(w) PROVE TypeOK'
  BY <1>0, <1>9, <1>11 DEF TypeOK, Rearm, Modfd
<1>12. CASE UNCHANGED vars
  BY <1>0, <1>12 DEF TypeOK, vars
<1>13. ASSUME NEW f \in Fds, Hangup(f) \/ ReadFails(f) \/ WriteClose(f) PROVE TypeOK'
  BY <1>3, <1>13 DEF Hangup, ReadFails, WriteClose
<1> QED
  BY <1>1, <1>2, <1>4, <1>5, <1>6, <1>7, <1>8, <1>10, <1>11, <1>12, <1>13
     DEF Next, Event, Writable, WriteBlocks, Work

(* As long as nobody new owns a connection and what is owned stays off,      *)
(* every connection keeps one owner.                                        *)
LEMMA OwnerFrame ==
  ASSUME OneOwner, queue' = queue, job' = job, Busy' \subseteq Busy,
         \A i \in DOMAIN queue : epoll'[queue[i]] = "off",
         \A w \in Busy' : epoll'[job[w]] = "off"
  PROVE  OneOwner'
BY DEF OneOwner, Busy

(* Every step keeps one owner for each connection. *)
LEMMA OwnerStep == IInv /\ [Next]_vars => OneOwner'
<1> SUFFICES ASSUME IInv, [Next]_vars PROVE OneOwner'
  OBVIOUS
<1> USE DEF net, pool, workers
<1>0. /\ OneOwner /\ queue \in Seq(Fds) /\ DOMAIN queue = 1 .. Len(queue)
      /\ \A i \in DOMAIN queue : queue[i] \in Fds
      /\ epoll \in [Fds -> {"closed", "in", "out", "off"}]
  BY DEF IInv, TypeOK
<1>1. ASSUME UNCHANGED <<epoll, queue, job>>, Busy' \subseteq Busy PROVE OneOwner'
  BY <1>0, <1>1, OwnerFrame DEF OneOwner
<1>2. ASSUME NEW f \in Fds, Client(f) PROVE OneOwner'
  BY <1>1, <1>2 DEF Client, ClientSends, ClientCloses, Busy
<1>3. ASSUME NEW f \in Fds, NEW e, epoll[f] # "off", epoll' = [epoll EXCEPT ![f] = e],
             UNCHANGED <<queue, job, stage>>
      PROVE  OneOwner'
  <2>1. Busy' = Busy
    BY <1>3 DEF Busy
  <2>2. \A i \in DOMAIN queue : epoll'[queue[i]] = "off"
    BY <1>0, <1>3 DEF OneOwner
  <2>3. \A w \in Busy : epoll'[job[w]] = "off"
    BY <1>0, <1>3 DEF OneOwner
  <2> QED
    BY <1>0, <1>3, <2>1, <2>2, <2>3, OwnerFrame
<1>4. ASSUME NEW f \in Fds, Accept(f) PROVE OneOwner'
  BY <1>3, <1>4 DEF Accept
<1>5. ASSUME NEW f \in Fds, Hangup(f) \/ ReadFails(f) \/ WriteClose(f) PROVE OneOwner'
  BY <1>3, <1>5 DEF Hangup, ReadFails, WriteClose, CloseFd
<1>6. ASSUME NEW f \in Fds, WriteKeep(f) PROVE OneOwner'
  BY <1>3, <1>6 DEF WriteKeep, Modfd
<1>7. ASSUME NEW f \in Fds, Read(f) PROVE OneOwner'
  <2>1. queue' = Append(queue, f)
    BY <1>7, QueueHasRoom DEF Read, Enqueue
  <2>2. /\ epoll' = [epoll EXCEPT ![f] = "off"] /\ epoll[f] = "in"
        /\ job' = job /\ Busy' = Busy
    BY <1>7 DEF Read, Busy
  <2>3. \A i \in DOMAIN queue : queue[i] # f
    BY <1>0, <2>2 DEF OneOwner
  <2>4. \A w \in Busy : job[w] # f
    BY <1>0, <2>2 DEF OneOwner
  <2>5. /\ DOMAIN queue' = 1 .. Len(queue) + 1 /\ Len(queue) \in Nat
        /\ \A i \in 1 .. Len(queue) : queue'[i] = queue[i]
        /\ queue'[Len(queue) + 1] = f
    BY <1>0, <2>1, Appended
  <2>6. ASSUME NEW i \in DOMAIN queue'
        PROVE  \/ i \in DOMAIN queue /\ queue'[i] = queue[i]
               \/ i = Len(queue) + 1 /\ queue'[i] = f
    BY <1>0, <2>5
  <2>7. ASSUME NEW i \in DOMAIN queue' PROVE epoll'[queue'[i]] = "off"
    BY <1>0, <2>2, <2>6 DEF OneOwner
  <2>8. ASSUME NEW i \in DOMAIN queue', NEW j \in DOMAIN queue', queue'[i] = queue'[j] PROVE i = j
    BY <1>0, <2>3, <2>6, <2>8 DEF OneOwner
  <2>9. ASSUME NEW i \in DOMAIN queue', NEW w \in Busy PROVE job[w] # queue'[i]
    BY <1>0, <2>4, <2>6 DEF OneOwner
  <2>10. \A w \in Busy : epoll'[job[w]] = "off"
    BY <1>0, <2>2 DEF OneOwner
  <2> QED
    BY <1>0, <2>2, <2>7, <2>8, <2>9, <2>10 DEF OneOwner
<1>8. ASSUME NEW w \in Workers, Wake(w) PROVE OneOwner'
  BY <1>1, <1>8 DEF Wake, Moves, Busy
<1>9. ASSUME NEW w \in Workers, Take(w) PROVE OneOwner'
  <2>1. Len(queue) > 0 /\ stage[w] = "woken"
    BY <1>9, WokenFinds DEF Take, Moves
  <2>2. /\ Head(queue) = queue[1] /\ 1 \in DOMAIN queue
        /\ \A i \in DOMAIN queue' : i + 1 \in DOMAIN queue /\ queue'[i] = queue[i + 1] /\ i \in 1 .. Len(queue)
    BY <1>0, <1>9, <2>1, Taken DEF Take
  <2>3. Len(queue) \in Nat
    BY <1>0
  <2>4. /\ epoll' = epoll /\ w \notin Busy /\ Busy' = Busy \cup {w}
        /\ job \in [Workers -> Fds \cup {0}]
        /\ job' = [job EXCEPT ![w] = queue[1]]
    BY <1>9, <2>2 DEF Take, Moves, Busy, IInv, TypeOK
  <2>5. \A v \in Busy : v \in Workers /\ v # w /\ job'[v] = job[v]
    BY <2>4 DEF Busy
  <2>6. job'[w] = queue[1]
    BY <2>4
  <2>7. ASSUME NEW i \in DOMAIN queue' PROVE queue'[i] # queue[1] /\ epoll[queue'[i]] = "off"
    BY <1>0, <2>2, <2>3 DEF OneOwner
  <2>8. ASSUME NEW i \in DOMAIN queue', NEW j \in DOMAIN queue', queue'[i] = queue'[j] PROVE i = j
    BY <1>0, <2>2, <2>3, <2>8 DEF OneOwner
  <2>9. ASSUME NEW i \in DOMAIN queue', NEW v \in Busy' PROVE job'[v] # queue'[i]
    BY <1>0, <2>2, <2>4, <2>5, <2>6, <2>7 DEF OneOwner
  <2>10. ASSUME NEW v \in Busy' PROVE job'[v] \in Fds /\ epoll[job'[v]] = "off"
    BY <1>0, <2>2, <2>4, <2>5, <2>6 DEF OneOwner
  <2>11. ASSUME NEW u \in Busy', NEW v \in Busy', job'[u] = job'[v] PROVE u = v
    <3>1. \A x \in Busy : job'[x] # queue[1]
      BY <1>0, <2>2, <2>5 DEF OneOwner
    <3>2. \A x, y \in Busy : job'[x] = job'[y] => x = y
      BY <1>0, <2>5 DEF OneOwner
    <3> QED
      BY <2>4, <2>6, <2>11, <3>1, <3>2
  <2> QED
    BY <2>4, <2>7, <2>8, <2>9, <2>10, <2>11 DEF OneOwner
<1>10. ASSUME NEW w \in Workers, Incomplete(w) \/ Answer(w) PROVE OneOwner'
  <2>1. Busy' = Busy
    BY <1>10 DEF Incomplete, Answer, Moves, Busy, IInv, TypeOK
  <2> QED
    BY <1>1, <1>10, <2>1 DEF Incomplete, Answer
<1>11. ASSUME NEW w \in Workers, Rearm(w) PROVE OneOwner'
  <2>1. w \in Busy /\ Busy' = Busy \ {w} /\ queue' = queue /\ job' = job
    BY <1>11 DEF Rearm, Busy, IInv, TypeOK
  <2>2. job[w] \in Fds /\ \A g \in Fds : g # job[w] => epoll'[g] = epoll[g]
    BY <1>0, <1>11, <2>1 DEF Rearm, Modfd, OneOwner
  <2>3. \A i \in DOMAIN queue : epoll'[queue[i]] = "off"
    BY <1>0, <2>1, <2>2 DEF OneOwner
  <2>4. \A v \in Busy' : epoll'[job[v]] = "off"
    BY <1>0, <2>1, <2>2 DEF OneOwner
  <2> QED
    BY <1>0, <2>1, <2>3, <2>4, OwnerFrame
<1>12. CASE UNCHANGED vars
  BY <1>1, <1>12 DEF vars, Busy
<1> QED
  BY <1>2, <1>4, <1>5, <1>6, <1>7, <1>8, <1>9, <1>10, <1>11, <1>12
     DEF Next, Event, Writable, WriteBlocks, Work

-----------------------------------------------------------------------------
(* Every step keeps m_user_cnt and the timers in line with what is open.    *)
LEMMA CountStep == IInv /\ [Next]_vars => CountIsOpen' /\ Room'
<1> SUFFICES ASSUME IInv, [Next]_vars PROVE CountIsOpen' /\ Room'
  OBVIOUS
<1>0. /\ epoll \in [Fds -> {"closed", "in", "out", "off"}]
      /\ count = Cardinality(Open) /\ timers = Open /\ count <= MaxUsers
      /\ count \in Nat /\ MaxUsers \in Nat
  BY WebAssumption DEF IInv, TypeOK, CountIsOpen, Room
<1>1. ASSUME Open' = Open, UNCHANGED <<count, timers>> PROVE CountIsOpen' /\ Room'
  BY <1>0, <1>1 DEF CountIsOpen, Room
<1>2. ASSUME NEW f \in Fds, epoll[f] # "closed", NEW e \in {"in", "out", "off"},
             epoll' = [epoll EXCEPT ![f] = e]
      PROVE  Open' = Open
  BY <1>0, <1>2 DEF Open
<1>3. ASSUME NEW f \in Fds, Accept(f) PROVE CountIsOpen' /\ Room'
  <2>1. f \notin Open /\ Open' = Open \cup {f}
    BY <1>0, <1>3 DEF Accept, Open
  <2>2. Cardinality(Open \cup {f}) = Cardinality(Open) + 1
    BY <2>1, FiniteSets, FS_AddElement
  <2>3. count' = count + 1 /\ timers' = timers \cup {f} /\ count < MaxUsers
    BY <1>3 DEF Accept
  <2> QED
    BY <1>0, <2>1, <2>2, <2>3 DEF CountIsOpen, Room
<1>4. ASSUME NEW f \in Fds, epoll[f] # "closed", CloseFd(f) PROVE CountIsOpen' /\ Room'
  <2>1. f \in Open /\ Open' = Open \ {f}
    BY <1>0, <1>4 DEF CloseFd, Open
  <2>2. Cardinality(Open \ {f}) = Cardinality(Open) - 1
    BY <2>1, FiniteSets, FS_RemoveElement
  <2>3. count' = count - 1 /\ timers' = timers \ {f}
    BY <1>4 DEF CloseFd
  <2> QED
    BY <1>0, <2>1, <2>2, <2>3 DEF CountIsOpen, Room
<1>5. ASSUME NEW f \in Fds, Client(f) PROVE CountIsOpen' /\ Room'
  BY <1>1, <1>5 DEF Client, ClientSends, ClientCloses, Open
<1>6. ASSUME NEW f \in Fds, Hangup(f) \/ ReadFails(f) \/ WriteClose(f) PROVE CountIsOpen' /\ Room'
  BY <1>4, <1>6 DEF Hangup, ReadFails, WriteClose
<1>7. ASSUME NEW f \in Fds, Read(f) PROVE CountIsOpen' /\ Room'
  BY <1>1, <1>2, <1>7 DEF Read
<1>8. ASSUME NEW f \in Fds, WriteKeep(f) PROVE CountIsOpen' /\ Room'
  BY <1>1, <1>2, <1>8 DEF WriteKeep, Modfd
<1>9. ASSUME NEW w \in Workers, Wake(w) \/ Take(w) \/ Incomplete(w) \/ Answer(w)
      PROVE  CountIsOpen' /\ Room'
  BY <1>1, <1>9 DEF Wake, Take, Incomplete, Answer, Open
<1>10. ASSUME NEW w \in Workers, Rearm(w) PROVE CountIsOpen' /\ Room'
  <2>1. w \in Busy
    BY <1>10 DEF Rearm, Busy
  <2>2. job[w] \in Fds /\ epoll[job[w]] = "off"
    BY <2>1 DEF IInv, OneOwner
  <2>3. \E e \in {"in", "out", "off"} : epoll' = [epoll EXCEPT ![job[w]] = e]
    BY <1>10 DEF Rearm, Modfd
  <2>4. UNCHANGED <<count, timers>>
    BY <1>10 DEF Rearm
  <2> QED
    BY <1>1, <1>2, <2>2, <2>3, <2>4
<1>11. CASE UNCHANGED vars
  BY <1>1, <1>11 DEF vars, Open
<1> QED
  BY <1>3, <1>5, <1>6, <1>7, <1>8, <1>9, <1>10, <1>11
     DEF Next, Event, Writable, WriteBlocks, Work

(* Every step keeps the semaphore in line with the queue. *)
LEMMA PermitsStep == IInv /\ [Next]_vars => PermitsLeft'
<1> SUFFICES ASSUME IInv, [Next]_vars PROVE PermitsLeft'
  OBVIOUS
<1> USE DEF net, pool, workers
<1>0. /\ stage \in [Workers -> {"idle", "woken", "busy", "in", "out"}]
      /\ queue \in Seq(Fds) /\ Len(queue) \in Nat /\ permits \in Nat
      /\ permits + Cardinality(Woken) = Len(queue) /\ Cardinality(Woken) \in Nat
  BY FiniteSets DEF IInv, TypeOK, PermitsLeft, Woken
<1>1. ASSUME permits' + Cardinality(Woken') = Len(queue') PROVE PermitsLeft'
  BY <1>1 DEF PermitsLeft, Woken
<1>2. ASSUME UNCHANGED pool, Woken' = Woken PROVE PermitsLeft'
  BY <1>0, <1>1, <1>2
<1>3. ASSUME NEW f \in Fds, Client(f) \/ Accept(f) \/ CloseFd(f) \/ WriteKeep(f) PROVE PermitsLeft'
  BY <1>2, <1>3 DEF Client, ClientSends, ClientCloses, Accept, CloseFd, WriteKeep, Woken
<1>4. ASSUME NEW f \in Fds, Read(f) PROVE PermitsLeft'
  <2>1. queue' = Append(queue, f) /\ permits' = permits + 1
    BY <1>4, QueueHasRoom DEF Read, Enqueue
  <2>2. Len(queue') = Len(queue) + 1
    BY <1>0, <2>1, Appended
  <2>3. Woken' = Woken
    BY <1>4 DEF Read, Woken
  <2>4. (permits + 1) + Cardinality(Woken) = Len(queue) + 1
    BY <1>0
  <2>5. permits' + Cardinality(Woken') = Len(queue')
    BY ONLY <2>1, <2>2, <2>3, <2>4, Zenon
  <2> QED
    BY <1>1, <2>5
<1>5. ASSUME NEW w \in Workers, Wake(w) PROVE PermitsLeft'
  <2>1. w \notin Woken /\ Woken' = Woken \cup {w}
    BY <1>0, <1>5 DEF Wake, Moves, Woken
  <2>2. Cardinality(Woken \cup {w}) = Cardinality(Woken) + 1
    BY <2>1, FiniteSets, FS_AddElement
  <2>3. permits' = permits - 1 /\ queue' = queue
    BY <1>5 DEF Wake
  <2> QED
    BY <1>0, <1>1, <2>1, <2>2, <2>3
<1>6. ASSUME NEW w \in Workers, Take(w) PROVE PermitsLeft'
  <2>1. w \in Woken /\ Woken' = Woken \ {w}
    BY <1>0, <1>6 DEF Take, Moves, Woken
  <2>2. Cardinality(Woken \ {w}) = Cardinality(Woken) - 1
    BY <2>1, FiniteSets, FS_RemoveElement
  <2>3. permits' = permits /\ Len(queue') = Len(queue) - 1
    BY <1>0, <1>6, WokenFinds, Taken DEF Take, Moves
  <2> QED
    BY <1>0, <1>1, <2>1, <2>2, <2>3
<1>7. ASSUME NEW w \in Workers, Incomplete(w) \/ Answer(w) \/ Rearm(w) PROVE PermitsLeft'
  <2>1. Woken' = Woken
    BY <1>0, <1>7 DEF Incomplete, Answer, Rearm, Moves, Woken
  <2> QED
    BY <1>2, <1>7, <2>1 DEF Incomplete, Answer, Rearm
<1>8. CASE UNCHANGED vars
  BY <1>2, <1>8 DEF vars, Woken
<1> QED
  BY <1>3, <1>4, <1>5, <1>6, <1>7, <1>8
     DEF Next, Event, Hangup, ReadFails, Writable, WriteBlocks, WriteClose, Work

(* Every step keeps an answer behind each wait for room to write. *)
LEMMA ReadyStep == IInv /\ [Next]_vars => OutMeansReady'
<1> SUFFICES ASSUME IInv, [Next]_vars PROVE OutMeansReady'
  OBVIOUS
<1> USE DEF net, pool, workers
<1>0. /\ OutMeansReady /\ OneOwner
      /\ epoll \in [Fds -> {"closed", "in", "out", "off"}]
      /\ stage \in [Workers -> {"idle", "woken", "busy", "in", "out"}]
  BY DEF IInv, TypeOK
<1>1. ASSUME UNCHANGED <<epoll, ready, stage, job>> PROVE OutMeansReady'
  BY <1>0, <1>1 DEF OutMeansReady
(* The main thread works on a connection that no worker has. *)
<1>2. ASSUME NEW f \in Fds, epoll[f] # "off", NEW e \in {"closed", "in", "off"},
             epoll' = [epoll EXCEPT ![f] = e], UNCHANGED workers,
             ready' \in {ready, ready \ {f}}
      PROVE  OutMeansReady'
  <2>1. \A w \in Workers : stage[w] = "out" => job[w] # f
    BY <1>0, <1>2 DEF OneOwner, Busy
  <2> QED
    BY <1>0, <1>2, <2>1 DEF OutMeansReady
<1>3. ASSUME NEW f \in Fds, Client(f) PROVE OutMeansReady'
  BY <1>1, <1>3 DEF Client, ClientSends, ClientCloses
<1>4. ASSUME NEW f \in Fds, Event(f) PROVE OutMeansReady'
  BY <1>2, <1>4 DEF Event, Accept, Hangup, Read, ReadFails, CloseFd
<1>5. ASSUME NEW f \in Fds, Writable(f) PROVE OutMeansReady'
  BY <1>1, <1>2, <1>5 DEF Writable, WriteBlocks, WriteKeep, WriteClose, CloseFd, Modfd, vars
<1>6. ASSUME NEW w \in Workers, Wake(w) PROVE OutMeansReady'
  BY <1>0, <1>6 DEF Wake, Moves, OutMeansReady
<1>7. ASSUME NEW w \in Workers, Take(w) PROVE OutMeansReady'
  BY <1>0, <1>7 DEF Take, Moves, OutMeansReady, IInv, TypeOK
<1>8. ASSUME NEW w \in Workers, Incomplete(w) \/ Answer(w) PROVE OutMeansReady'
  BY <1>0, <1>8 DEF Incomplete, Answer, Moves, OutMeansReady
<1>9. ASSUME NEW w \in Workers, Rearm(w) PROVE OutMeansReady'
  <2>1. job[w] \in Fds
    BY <1>0, <1>9 DEF Rearm, OneOwner, Busy
  <2> QED
    BY <1>0, <1>9, <2>1 DEF Rearm, Modfd, OutMeansReady
<1>10. CASE UNCHANGED vars
  BY <1>1, <1>10 DEF vars
<1> QED
  BY <1>3, <1>4, <1>5, <1>6, <1>7, <1>8, <1>9, <1>10 DEF Next, Work

-----------------------------------------------------------------------------
(* The inductive invariant holds in every state. *)
LEMMA Invariance == Spec => []IInv
<1>1. IInv /\ [Next]_vars => IInv'
  BY TypeStep, OwnerStep, CountStep, PermitsStep, ReadyStep DEF IInv
<1> QED
  BY InitInv, <1>1, PTL DEF Spec

(* Type correctness of the web server, for any descriptors and workers.     *)
THEOREM Typing == Spec => []TypeOK
<1>1. IInv => TypeOK
  BY DEF IInv
<1> QED
  BY Invariance, <1>1, PTL

(* The main thread and the workers never share a connection: EPOLLONESHOT    *)
(* and the late modfd of process() suffice.                                 *)
THEOREM ConnectionsOwned == Spec => []OneOwner
<1>1. IInv => OneOwner
  BY DEF IInv
<1> QED
  BY Invariance, <1>1, PTL

(* m_user_cnt is the number of open connections, each with its timer.       *)
THEOREM Counted == Spec => []CountIsOpen
<1>1. IInv => CountIsOpen
  BY DEF IInv
<1> QED
  BY Invariance, <1>1, PTL

(* threadpool::append never refuses, whatever the limits, as long as that    *)
(* for connections is not above that of the queue.                          *)
THEOREM AppendSucceeds == Spec => []NothingRefused
<1>1. IInv => NothingRefused
  BY QueueHasRoom DEF NothingRefused
<1> QED
  BY Invariance, <1>1, PTL

(* A worker past the semaphore never finds the queue empty.                 *)
THEOREM SemaphoreCounts == Spec => []PermitsMatch
<1>1. IInv => PermitsMatch
  BY DEF IInv, PermitsMatch
<1> QED
  BY Invariance, <1>1, PTL

(* write_conn never runs with nothing to send.                              *)
THEOREM SomethingToSend == Spec => []OutMeansReady
<1>1. IInv => OutMeansReady
  BY DEF IInv
<1> QED
  BY Invariance, <1>1, PTL

-----------------------------------------------------------------------------
(***************************************************************************)
(* The turns of the connections.  IInv says who owns a connection; besides *)
(* that, no answer is left when input is awaited or worked on, and only a  *)
(* connection whose object lost the descriptor goes astray.                *)
(***************************************************************************)

Unprepared ==
  /\ \A f \in Fds : epoll[f] = "in" => f \notin ready
  /\ \A i \in DOMAIN queue : queue[i] \notin ready
  /\ \A w \in Workers : stage[w] \in {"busy", "in"} => job[w] \notin ready

Astray == \A f \in Fds : Turn[f] = "lost" => sock[f] # f

TurnInv == IInv /\ Unprepared /\ Astray

(* What the steps before this rely on, and the turns in terms of it. *)
LEMMA TurnFacts ==
  ASSUME TurnInv
  PROVE  /\ epoll \in [Fds -> {"closed", "in", "out", "off"}]
         /\ stage \in [Workers -> {"idle", "woken", "busy", "in", "out"}]
         /\ job \in [Workers -> Fds \cup {0}] /\ ready \subseteq Fds
         /\ queue \in Seq(Fds) /\ DOMAIN queue = 1 .. Len(queue)
         /\ OneOwner /\ OutMeansReady
         /\ \A c \in Working : c \in Fds /\ epoll[c] = "off"
         /\ \A c \in Fds : Turn[c] =
              IF epoll[c] # "off" THEN epoll[c] ELSE IF c \in Working THEN "work" ELSE "lost"
<1>1. /\ epoll \in [Fds -> {"closed", "in", "out", "off"}]
      /\ stage \in [Workers -> {"idle", "woken", "busy", "in", "out"}]
      /\ job \in [Workers -> Fds \cup {0}] /\ ready \subseteq Fds
      /\ queue \in Seq(Fds) /\ DOMAIN queue = 1 .. Len(queue)
      /\ OneOwner /\ OutMeansReady
  BY DEF TurnInv, IInv, TypeOK
<1>2. \A i \in DOMAIN queue : queue[i] \in Fds
  BY <1>1
<1>3. \A c \in Working : c \in Fds /\ epoll[c] = "off"
  BY <1>1, <1>2 DEF Working, OneOwner
<1> QED BY <1>1, <1>3 DEF Turn

(* Which connections change their turn is a matter of epoll and of who works. *)
LEMMA Elsewhere ==
  ASSUME NEW c \in Fds, NEW to,
         \A f \in Fds : f # c => epoll'[f] = epoll[f] /\ (f \in Working' <=> f \in Working),
         to = IF epoll'[c] # "off" THEN epoll'[c] ELSE IF c \in Working' THEN "work" ELSE "lost"
  PROVE  Turn' = [Turn EXCEPT ![c] = to]
BY DEF Turn

(* Each step is one of ConnTurns, or none. *)
StepTurns == [Turns!Next]_<<Turn, ready>>

(* A step that concerns neither epoll, nor the pool, nor an answer. *)
LEMMA TurnQuiet ==
  ASSUME TurnInv, UNCHANGED <<epoll, ready, queue, job, sock>>, Busy' = Busy,
         \A w \in Workers : stage'[w] \in {"busy", "in"} => stage[w] \in {"busy", "in"}
  PROVE  StepTurns /\ Unprepared' /\ Astray'
<1>1. Working' = Working
  BY DEF Working
<1>2. Turn' = Turn
  BY <1>1 DEF Turn
<1>3. Unprepared' /\ Astray'
  BY <1>2 DEF TurnInv, Unprepared, Astray
<1> QED BY <1>2, <1>3 DEF StepTurns

(* What the main thread does to a connection that epoll has reported. *)
LEMMA TurnOfMain ==
  ASSUME TurnInv, NEW f \in Fds, NEW to \in {"closed", "in", "off"},
         epoll[f] # "off", epoll' = [epoll EXCEPT ![f] = to], UNCHANGED <<queue, workers>>,
         ready' \in {ready, ready \ {f}}, to = "in" => f \notin ready',
         \A g \in Fds : g # f /\ sock'[g] = g => sock[g] = g,
         to = "off" => sock'[f] # f
  PROVE  /\ Turn' = [Turn EXCEPT ![f] = IF to = "off" THEN "lost" ELSE to]
         /\ Turn[f] = epoll[f]
         /\ Unprepared' /\ Astray'
<1>1. Working' = Working /\ f \notin Working /\ Turn[f] = epoll[f]
  BY TurnFacts DEF Working, Busy, workers
<1>2. epoll'[f] = to /\ \A g \in Fds : g # f => epoll'[g] = epoll[g]
  BY TurnFacts
<1>3. Turn' = [Turn EXCEPT ![f] = IF to = "off" THEN "lost" ELSE to]
  BY <1>1, <1>2, Elsewhere
<1>4. Unprepared'
  BY <1>1, <1>2 DEF TurnInv, Unprepared, workers
<1>5. Turn \in [Fds -> {"closed", "in", "out", "work", "lost"}]
  BY TurnFacts DEF Turn
<1>6. Astray'
  <2>1. Turn'[f] = IF to = "off" THEN "lost" ELSE to
    BY <1>3, <1>5
  <2>2. \A g \in Fds : g # f => Turn'[g] = Turn[g]
    BY <1>3, <1>5
  <2> QED BY <2>1, <2>2 DEF TurnInv, Astray
<1> QED BY <1>1, <1>3, <1>4, <1>6

LEMMA MainTurns ==
  ASSUME TurnInv, NEW f \in Fds, Accept(f) \/ Hangup(f) \/ ReadFails(f) \/ WriteKeep(f) \/ WriteClose(f)
  PROVE  StepTurns /\ Unprepared' /\ Astray'
<1> USE DEF net, pool
<1>0. /\ epoll \in [Fds -> {"closed", "in", "out", "off"}] /\ OutMeansReady
      /\ sock \in [Fds -> Fds \cup {0}] /\ 0 \notin Fds
  BY TurnFacts, WebAssumption DEF TurnInv, IInv, TypeOK
<1>1. CASE Accept(f)
  <2>1. /\ epoll[f] = "closed" /\ epoll' = [epoll EXCEPT ![f] = "in"] /\ ready' = ready \ {f}
        /\ UNCHANGED <<queue, workers>>
        /\ \A g \in Fds : g # f /\ sock'[g] = g => sock[g] = g
    BY <1>0, <1>1 DEF Accept, Wiped
  <2>2. Turn' = [Turn EXCEPT ![f] = "in"] /\ Turn[f] = "closed" /\ Unprepared' /\ Astray'
    BY <2>1, TurnOfMain
  <2>3. Turns!Accepted(f)
    BY <2>1, <2>2 DEF Turns!Accepted, Turns!Turned
  <2> QED BY <2>2, <2>3 DEF StepTurns, Turns!Next
<1>2. CASE Hangup(f) \/ ReadFails(f) \/ WriteClose(f)
  <2>1. /\ epoll[f] \in {"in", "out"} /\ epoll' = [epoll EXCEPT ![f] = "closed"]
        /\ ready' \in {ready, ready \ {f}} /\ UNCHANGED <<queue, workers, sock>>
    BY <1>2 DEF Hangup, ReadFails, WriteClose, CloseFd
  <2>2. Turn' = [Turn EXCEPT ![f] = "closed"] /\ Turn[f] = epoll[f] /\ Unprepared' /\ Astray'
    BY <2>1, TurnOfMain
  <2>3. Turns!Closes(f)
    BY <2>1, <2>2 DEF Turns!Closes, Turns!Turned
  <2> QED BY <2>2, <2>3 DEF StepTurns, Turns!Next
<1>3. CASE WriteKeep(f)
  <2>1. /\ epoll[f] = "out" /\ f \in ready /\ ready' = ready \ {f} /\ UNCHANGED <<queue, workers>>
        /\ epoll' = Modfd(sock[f], f, "in")
        /\ \A g \in Fds : sock'[g] = g => sock[g] = g
    BY <1>0, <1>3 DEF WriteKeep, OutMeansReady, Wiped
  <2>2. CASE sock[f] = f
    <3>1. epoll' = [epoll EXCEPT ![f] = "in"]
      BY <2>1, <2>2 DEF Modfd
    <3>2. Turn' = [Turn EXCEPT ![f] = "in"] /\ Turn[f] = "out" /\ Unprepared' /\ Astray'
      BY <2>1, <3>1, TurnOfMain
    <3>3. Turns!Written(f)
      BY <2>1, <3>2 DEF Turns!Written, Turns!Turned
    <3> QED BY <3>2, <3>3 DEF StepTurns, Turns!Next
  <2>3. CASE sock[f] # f
    <3>1. epoll' = [epoll EXCEPT ![f] = "off"] /\ sock'[f] # f
      BY <2>1, <2>3 DEF Modfd
    <3>2. Turn' = [Turn EXCEPT ![f] = "lost"] /\ Turn[f] = "out" /\ Unprepared' /\ Astray'
      BY <2>1, <3>1, TurnOfMain
    <3>3. Turns!Loses(f)
      BY <2>1, <3>2 DEF Turns!Loses, Turns!Turned
    <3> QED BY <3>2, <3>3 DEF StepTurns, Turns!Next
  <2> QED BY <2>2, <2>3
<1> QED BY <1>1, <1>2, <1>3

(* What is read gets to the pool, since the queue has room. *)
LEMMA ReadTurns ==
  ASSUME TurnInv, NEW f \in Fds, Read(f)
  PROVE  StepTurns /\ Unprepared' /\ Astray'
<1>0. /\ epoll \in [Fds -> {"closed", "in", "out", "off"}]
      /\ queue \in Seq(Fds) /\ DOMAIN queue = 1 .. Len(queue)
      /\ Unprepared /\ Astray /\ IInv
  BY TurnFacts DEF TurnInv
<1>1. /\ epoll[f] = "in" /\ epoll' = [epoll EXCEPT ![f] = "off"] /\ queue' = Append(queue, f)
      /\ UNCHANGED <<sock, ready, stage, job>>
  BY <1>0, QueueHasRoom DEF Read, Enqueue, workers
<1>2. /\ DOMAIN queue' = 1 .. Len(queue) + 1 /\ Len(queue) \in Nat
      /\ \A i \in 1 .. Len(queue) : queue'[i] = queue[i]
      /\ queue'[Len(queue) + 1] = f
  BY <1>0, <1>1, Appended
<1>3. \A i \in DOMAIN queue' : (i \in DOMAIN queue /\ queue'[i] = queue[i]) \/ queue'[i] = f
  BY <1>0, <1>2
<1>4. f \notin ready
  BY <1>0, <1>1 DEF Unprepared
<1>5. Busy' = Busy /\ Working' = Working \cup {f}
  <2>1. Busy' = Busy
    BY <1>1 DEF Busy
  <2>2. f \in {queue'[i] : i \in DOMAIN queue'}
    <3>1. Len(queue) + 1 \in DOMAIN queue'
      BY <1>2
    <3> QED BY <1>2, <3>1
  <2>3. \A i \in DOMAIN queue : i \in DOMAIN queue' /\ queue'[i] = queue[i]
    BY <1>0, <1>2
  <2>4. {queue'[i] : i \in DOMAIN queue'} = {queue[i] : i \in DOMAIN queue} \cup {f}
    BY <1>3, <2>2, <2>3
  <2> QED BY <1>1, <2>1, <2>4 DEF Working
<1>6. Turn' = [Turn EXCEPT ![f] = "work"]
  BY <1>0, <1>1, <1>5, Elsewhere
<1>7. Turn[f] = "in"
  BY <1>1 DEF Turn
<1>8. Unprepared'
  <2>1. \A g \in Fds : epoll'[g] = "in" => g \notin ready
    BY <1>0, <1>1 DEF Unprepared
  <2>2. \A i \in DOMAIN queue' : queue'[i] \notin ready
    BY <1>0, <1>3, <1>4 DEF Unprepared
  <2> QED BY <1>0, <1>1, <2>1, <2>2 DEF Unprepared
<1>9. Astray'
  BY <1>0, <1>1, <1>6 DEF Astray, Turn
<1>10. Turns!IsRead(f)
  BY <1>1, <1>4, <1>6, <1>7 DEF Turns!IsRead, Turns!Turned
<1> QED BY <1>8, <1>9, <1>10 DEF StepTurns, Turns!Next

(* A worker takes over what is at the front of the queue. *)
LEMMA TakeTurns ==
  ASSUME TurnInv, NEW w \in Workers, Take(w)
  PROVE  StepTurns /\ Unprepared' /\ Astray'
<1>0. /\ queue \in Seq(Fds) /\ DOMAIN queue = 1 .. Len(queue) /\ Len(queue) \in Nat
      /\ stage \in [Workers -> {"idle", "woken", "busy", "in", "out"}]
      /\ job \in [Workers -> Fds \cup {0}]
      /\ Unprepared /\ Astray /\ IInv
  BY TurnFacts DEF TurnInv
<1>1. /\ stage[w] = "woken" /\ stage' = [stage EXCEPT ![w] = "busy"]
      /\ job' = [job EXCEPT ![w] = Head(queue)] /\ queue' = Tail(queue)
      /\ UNCHANGED <<epoll, sock, ready>>
  BY DEF Take, Moves
<1>2. /\ Head(queue) = queue[1] /\ 1 \in DOMAIN queue
      /\ DOMAIN queue' = 1 .. Len(queue) - 1
      /\ \A i \in DOMAIN queue' : i + 1 \in DOMAIN queue /\ queue'[i] = queue[i + 1]
  BY <1>0, <1>1, WokenFinds, Taken
<1>3. /\ w \notin Busy /\ Busy' = Busy \cup {w} /\ job'[w] = queue[1]
      /\ \A v \in Busy : v # w /\ job'[v] = job[v]
  BY <1>0, <1>1, <1>2 DEF Busy
<1>4. {queue[i] : i \in DOMAIN queue} = {queue'[i] : i \in DOMAIN queue'} \cup {queue[1]}
  <2>1. ASSUME NEW i \in DOMAIN queue, i # 1 PROVE i - 1 \in DOMAIN queue' /\ queue'[i - 1] = queue[i]
    <3>1. i - 1 \in 1 .. Len(queue) - 1 /\ (i - 1) + 1 = i
      BY <1>0, <2>1
    <3> QED BY <1>2, <3>1
  <2>2. \A i \in DOMAIN queue' : \E j \in DOMAIN queue : queue'[i] = queue[j]
    BY <1>2
  <2> QED BY <1>2, <2>1, <2>2
<1>5. Working' = Working
  <2>1. {job'[v] : v \in Busy'} = {job[v] : v \in Busy} \cup {queue[1]}
    BY <1>3
  <2> QED BY <1>4, <2>1 DEF Working
<1>6. Turn' = Turn
  BY <1>1, <1>5 DEF Turn
<1>7. Unprepared'
  <2>1. \A i \in DOMAIN queue' : queue'[i] \notin ready
    BY <1>0, <1>2 DEF Unprepared
  <2>2. queue[1] \notin ready
    BY <1>0, <1>2 DEF Unprepared
  <2>3. \A v \in Workers : v # w => job'[v] = job[v] /\ stage'[v] = stage[v]
    BY <1>0, <1>1
  <2> QED BY <1>0, <1>1, <1>3, <2>1, <2>2, <2>3 DEF Unprepared
<1>8. Astray'
  BY <1>0, <1>1, <1>6 DEF Astray
<1> QED BY <1>1, <1>6, <1>7, <1>8 DEF StepTurns

(* A worker has prepared an answer. *)
LEMMA AnswerTurns ==
  ASSUME TurnInv, NEW w \in Workers, Answer(w)
  PROVE  StepTurns /\ Unprepared' /\ Astray'
<1>0. /\ stage \in [Workers -> {"idle", "woken", "busy", "in", "out"}]
      /\ queue \in Seq(Fds) /\ OneOwner /\ Unprepared /\ Astray
      /\ \A c \in Working : c \in Fds /\ epoll[c] = "off"
  BY TurnFacts DEF TurnInv
<1>1. /\ stage[w] = "busy" /\ stage' = [stage EXCEPT ![w] = "out"] /\ ready' = ready \cup {job[w]}
      /\ UNCHANGED <<epoll, sock, queue, job>>
  BY DEF Answer, Moves, pool
<1>2. w \in Busy /\ Busy' = Busy /\ job[w] \in Working
  BY <1>0, <1>1 DEF Busy, Working
<1>3. Working' = Working
  BY <1>1, <1>2 DEF Working
<1>4. Turn' = Turn /\ Turn[job[w]] = "work" /\ job[w] \in Fds
  BY <1>0, <1>1, <1>2, <1>3 DEF Turn
<1>5. Turns!Prepares(job[w])
  <2>1. job[w] \notin ready
    BY <1>0, <1>1 DEF Unprepared
  <2>2. Turn' = [Turn EXCEPT ![job[w]] = "work"]
    BY <1>4 DEF Turn
  <2> QED BY <1>1, <1>4, <2>1, <2>2 DEF Turns!Prepares, Turns!Turned
<1>6. Unprepared'
  <2>1. \A f \in Fds : epoll[f] = "in" => f # job[w]
    BY <1>0, <1>2
  <2>2. \A i \in DOMAIN queue : queue[i] # job[w]
    BY <1>0, <1>2 DEF OneOwner
  <2>3. \A v \in Workers : stage'[v] \in {"busy", "in"} => v # w /\ stage[v] \in {"busy", "in"} /\ job[v] # job[w]
    BY <1>0, <1>1, <1>2 DEF OneOwner, Busy
  <2> QED BY <1>0, <1>1, <2>1, <2>2, <2>3 DEF Unprepared
<1>7. Astray'
  BY <1>0, <1>1, <1>4 DEF Astray
<1> QED BY <1>4, <1>5, <1>6, <1>7 DEF StepTurns, Turns!Next

(* A worker gives the connection back to epoll, if the object has it. *)
LEMMA RearmTurns ==
  ASSUME TurnInv, NEW w \in Workers, Rearm(w)
  PROVE  StepTurns /\ Unprepared' /\ Astray'
<1> DEFINE c == job[w]
<1>0. /\ epoll \in [Fds -> {"closed", "in", "out", "off"}]
      /\ stage \in [Workers -> {"idle", "woken", "busy", "in", "out"}]
      /\ queue \in Seq(Fds) /\ OneOwner /\ OutMeansReady /\ Unprepared /\ Astray
      /\ \A f \in Working : f \in Fds /\ epoll[f] = "off"
  BY TurnFacts DEF TurnInv
<1>1. /\ stage[w] \in {"in", "out"} /\ stage' = [stage EXCEPT ![w] = "idle"]
      /\ epoll' = Modfd(sock[c], c, stage[w]) /\ UNCHANGED <<sock, ready, queue, job>>
  BY DEF Rearm, pool
<1>2. w \in Busy /\ Busy' = Busy \ {w} /\ c \in Working /\ c \in Fds /\ epoll[c] = "off"
  BY <1>0, <1>1 DEF Busy, Working
<1>3. /\ \A v \in Busy' : job'[v] # c
      /\ \A i \in DOMAIN queue : queue[i] # c
  BY <1>0, <1>1, <1>2 DEF OneOwner
<1>4. Working' = Working \ {c}
  <2>1. {job'[v] : v \in Busy'} = {job[v] : v \in Busy} \ {c}
    BY <1>1, <1>2, <1>3
  <2> QED BY <1>1, <1>3, <2>1 DEF Working
<1>5. Turn[c] = "work"
  BY <1>2 DEF Turn
<1>6. \A f \in Fds : f # c => epoll'[f] = epoll[f]
  BY <1>0, <1>1 DEF Modfd
<1>7. stage[w] = "in" => c \notin ready
  BY <1>0 DEF Unprepared
<1>8. stage[w] = "out" => c \in ready
  BY <1>0 DEF OutMeansReady
<1>9. /\ sock[c] = c => epoll'[c] = stage[w]
      /\ sock[c] # c => epoll'[c] = "off"
  BY <1>0, <1>1, <1>2 DEF Modfd
<1>10. Unprepared'
  <2>1. \A f \in Fds : epoll'[f] = "in" => f \notin ready
    BY <1>0, <1>1, <1>6, <1>7, <1>9 DEF Unprepared
  <2>2. \A v \in Workers : stage'[v] \in {"busy", "in"} => stage[v] \in {"busy", "in"}
    BY <1>0, <1>1
  <2> QED BY <1>0, <1>1, <2>1, <2>2 DEF Unprepared
<1> DEFINE to == IF sock[c] = c THEN stage[w] ELSE "lost"
<1>11. Turn' = [Turn EXCEPT ![c] = to]
  BY <1>1, <1>2, <1>4, <1>6, <1>9, Elsewhere
<1>12. Astray'
  <2>1. /\ Turn'[c] = to
        /\ \A f \in Fds : f # c => Turn'[f] = Turn[f]
    BY <1>2, <1>11 DEF Turn
  <2> QED BY <1>0, <1>1, <2>1 DEF Astray
<1>13. Turns!AsksForMore(c) \/ Turns!HandsOver(c) \/ Turns!Loses(c)
  BY <1>1, <1>5, <1>7, <1>8, <1>11
     DEF Turns!AsksForMore, Turns!HandsOver, Turns!Loses, Turns!Turned
<1> QED BY <1>2, <1>10, <1>12, <1>13 DEF StepTurns, Turns!Next

LEMMA TurnStep == TurnInv /\ [Next]_vars => StepTurns /\ Unprepared' /\ Astray'
<1> SUFFICES ASSUME TurnInv, [Next]_vars PROVE StepTurns /\ Unprepared' /\ Astray'
  OBVIOUS
<1>1. ASSUME NEW f \in Fds, Client(f) \/ WriteBlocks(f) PROVE StepTurns /\ Unprepared' /\ Astray'
  BY <1>1, TurnQuiet DEF Client, ClientSends, ClientCloses, WriteBlocks, Busy, vars, pool, workers
<1>2. ASSUME NEW f \in Fds, Event(f) \/ Writable(f), ~WriteBlocks(f)
      PROVE  StepTurns /\ Unprepared' /\ Astray'
  BY <1>2, MainTurns, ReadTurns DEF Event, Writable
<1>3. ASSUME NEW w \in Workers, Wake(w) \/ Incomplete(w) PROVE StepTurns /\ Unprepared' /\ Astray'
  <2>1. /\ UNCHANGED <<epoll, ready, queue, job, sock>> /\ Busy' = Busy
        /\ \A v \in Workers : stage'[v] \in {"busy", "in"} => stage[v] \in {"busy", "in"}
    BY <1>3, TurnFacts DEF Wake, Incomplete, Moves, Busy, pool
  <2> QED BY <2>1, TurnQuiet
<1>4. ASSUME NEW w \in Workers, Take(w) \/ Answer(w) \/ Rearm(w)
      PROVE  StepTurns /\ Unprepared' /\ Astray'
  BY <1>4, TakeTurns, AnswerTurns, RearmTurns
<1>5. CASE UNCHANGED vars
  BY <1>5, TurnQuiet DEF Busy, vars, pool, workers
<1> QED BY <1>1, <1>2, <1>3, <1>4, <1>5 DEF Next, Work

(* The server implements ConnTurns: what is read from a connection gets to a  *)
(* worker, the one answer that the worker prepares is written before anything *)
(* else is read, and only a connection whose object lost its descriptor goes  *)
(* astray, for any descriptors, workers and limits.                           *)
THEOREM TurnsTaken == Spec => TakesTurns
<1>1. Init => IInv /\ Unprepared /\ Astray /\ Turns!Init
  <2> SUFFICES ASSUME Init PROVE Unprepared /\ Astray /\ Turns!Init
    BY InitInv
  <2>1. \A f \in Fds : epoll[f] = "closed" /\ Turn[f] = "closed"
    BY DEF Init, Turn
  <2>2. Turn \in [Fds -> {"closed", "in"}]
    BY <2>1 DEF Turn
  <2> QED BY <2>1, <2>2 DEF Init, Unprepared, Astray, Turns!Init
<1>2. IInv /\ Unprepared /\ Astray /\ [Next]_vars => StepTurns /\ Unprepared' /\ Astray'
  BY TurnStep DEF TurnInv
<1>3. Astray <=> (\A f \in Fds : Turn[f] = "lost" => sock[f] # f)
  BY DEF Astray
<1>4. StepTurns <=> [Turns!Next]_<<Turn, ready>>
  BY DEF StepTurns
<1> QED
  BY Invariance, <1>1, <1>2, <1>3, <1>4, PTL DEF Spec, TakesTurns, Turns!Spec

-----------------------------------------------------------------------------
(***************************************************************************)
(* TimerList.                                                              *)
(***************************************************************************)

Links == Timers \cup {Null}
Lists == [head : Links, tail : Links, ne : [Timers -> Links], pre : [Timers -> Links]]

-----------------------------------------------------------------------------
(* Rows of nodes.                                                          *)

\* From head on there are the different nodes s[1], ..., s[m].
Row(l, s, m) ==
    /\ m \in Nat /\ s \in [1..m -> Timers]
    /\ \A i, j \in 1..m : s[i] = s[j] => i = j
    /\ m = 0 => l.head = Null
    /\ m > 0 => l.head = s[1] /\ l.tail = s[m] /\ l.ne[s[m]] = Null
    /\ \A i \in 1..(m - 1) : l.ne[s[i]] = s[i + 1] /\ l.pre[s[i + 1]] = s[i]

On(s, m) == {s[i] : i \in 1..m}

Ascending(exp, s, m) == \A i, j \in 1..m : i <= j => exp[s[i]] <= exp[s[j]]

\* t after the first k.
Put(s, m, k, t) == [i \in 1..(m + 1) |-> IF i <= k THEN s[i] ELSE IF i = k + 1 THEN t ELSE s[i - 1]]

\* Without the j-th.
Cut(s, m, j) == [i \in 1..(m - 1) |-> IF i < j THEN s[i] ELSE s[i + 1]]

\* Without the first k.
Drop(s, m, k) == [i \in 1..(m - k) |-> s[i + k]]

IsPut(p, s, m, k, t) ==
    /\ p \in [1..(m + 1) -> Timers]
    /\ \A i \in 1..k : p[i] = s[i]
    /\ p[k + 1] = t
    /\ \A i \in (k + 1)..m : p[i + 1] = s[i]
    /\ \A i \in 1..(m + 1) : i \in 1..k \/ i = k + 1 \/ \E j \in (k + 1)..m : i = j + 1

LEMMA PutIs ==
    ASSUME NEW m \in Nat, NEW s \in [1..m -> Timers], NEW k \in 0..m, NEW t \in Timers
    PROVE  /\ IsPut(Put(s, m, k, t), s, m, k, t)
           /\ On(Put(s, m, k, t), m + 1) = On(s, m) \cup {t}
<1> DEFINE p == Put(s, m, k, t)
<1>1. p \in [1..(m + 1) -> Timers]
  <2>1. ASSUME NEW i \in 1..(m + 1)
        PROVE  (IF i <= k THEN s[i] ELSE IF i = k + 1 THEN t ELSE s[i - 1]) \in Timers
    <3>1. CASE i <= k
      BY <3>1
    <3>2. CASE i = k + 1
      BY <3>2
    <3>3. CASE i > k + 1
      <4>1. i - 1 \in 1..m
        BY <3>3
      <4> QED BY <3>3, <4>1
    <3> QED BY <3>1, <3>2, <3>3
  <2> QED BY <2>1 DEF Put
<1>2. \A i \in 1..(m + 1) : p[i] = IF i <= k THEN s[i] ELSE IF i = k + 1 THEN t ELSE s[i - 1]
  BY DEF Put
<1> HIDE DEF p
<1>3. \A i \in 1..k : p[i] = s[i]
  BY <1>2
<1>4. p[k + 1] = t
  BY <1>2
<1>5. ASSUME NEW i \in (k + 1)..m PROVE p[i + 1] = s[i]
  <2>1. PICK j \in 1..(m + 1) : j = i + 1
    OBVIOUS
  <2>2. ~(j <= k) /\ j # k + 1 /\ j - 1 = i
    BY <2>1
  <2> QED BY <1>2, <2>1, <2>2
<1>6. ASSUME NEW i \in 1..(m + 1) PROVE i \in 1..k \/ i = k + 1 \/ \E j \in (k + 1)..m : i = j + 1
  <2>1. i > k + 1 => i - 1 \in (k + 1)..m /\ i = (i - 1) + 1
    OBVIOUS
  <2> QED BY <2>1
<1>7. On(p, m + 1) = On(s, m) \cup {t}
  <2>1. ASSUME NEW x \in On(p, m + 1) PROVE x \in On(s, m) \cup {t}
    <3>1. PICK i \in 1..(m + 1) : x = p[i]
      BY DEF On
    <3>2. CASE i \in 1..k
      BY <1>3, <3>1, <3>2 DEF On
    <3>3. CASE i = k + 1
      BY <1>4, <3>1, <3>3
    <3>4. CASE \E j \in (k + 1)..m : i = j + 1
      <4>1. PICK j \in (k + 1)..m : i = j + 1
        BY <3>4
      <4>2. j \in 1..m /\ x = s[j]
        BY <1>5, <3>1, <4>1
      <4> QED BY <4>2 DEF On
    <3> QED BY <1>6, <3>2, <3>3, <3>4
  <2>2. ASSUME NEW x \in On(s, m) PROVE x \in On(p, m + 1)
    <3>1. PICK i \in 1..m : x = s[i]
      BY DEF On
    <3>2. CASE i <= k
      <4>1. i \in 1..k /\ i \in 1..(m + 1)
        BY <3>2
      <4> QED BY <1>3, <3>1, <4>1 DEF On
    <3>3. CASE ~(i <= k)
      <4>1. PICK j \in 1..(m + 1) : j = i + 1
        OBVIOUS
      <4>2. i \in (k + 1)..m
        BY <3>3
      <4> QED BY <1>5, <3>1, <4>1, <4>2 DEF On
    <3> QED BY <3>2, <3>3
  <2>3. t \in On(p, m + 1)
    BY <1>4 DEF On
  <2> QED BY <2>1, <2>2, <2>3
<1> QED BY <1>1, <1>3, <1>4, <1>5, <1>6, <1>7 DEF p, IsPut

\* A node is linked in after the first k.
LEMMA RowPut ==
    ASSUME NEW l, NEW s, NEW m, Row(l, s, m), NEW k \in 0..m, NEW t \in Timers, t \notin On(s, m),
           NEW l2,
           l2.head = IF k = 0 THEN t ELSE l.head,
           l2.tail = IF k = m THEN t ELSE l.tail,
           k = m => l2.ne[t] = Null, k < m => l2.ne[t] = s[k + 1],
           k > 0 => l2.ne[s[k]] = t /\ l2.pre[t] = s[k],
           k < m => l2.pre[s[k + 1]] = t,
           \A i \in 1..m : i # k => l2.ne[s[i]] = l.ne[s[i]],
           \A i \in 1..m : i # k + 1 => l2.pre[s[i]] = l.pre[s[i]]
    PROVE  Row(l2, Put(s, m, k, t), m + 1)
<1> DEFINE p == Put(s, m, k, t)
<1>1. /\ m \in Nat /\ s \in [1..m -> Timers] /\ k \in 0..m /\ k \in Nat /\ k <= m
      /\ \A i, j \in 1..m : s[i] = s[j] => i = j
      /\ \A i \in 1..m : s[i] # t
      /\ m > 0 => l.head = s[1] /\ l.tail = s[m] /\ l.ne[s[m]] = Null
      /\ \A i \in 1..(m - 1) : l.ne[s[i]] = s[i + 1] /\ l.pre[s[i + 1]] = s[i]
  BY DEF Row, On
<1>0. IsPut(p, s, m, k, t)
  BY <1>1, PutIs
<1> HIDE DEF p
<1>2. /\ p \in [1..(m + 1) -> Timers]
      /\ \A i \in 1..k : p[i] = s[i]
      /\ p[k + 1] = t
      /\ \A i \in (k + 1)..m : p[i + 1] = s[i]
      /\ \A i \in 1..(m + 1) : i \in 1..k \/ i = k + 1 \/ \E j \in (k + 1)..m : i = j + 1
  BY <1>0 DEF IsPut
<1>3. ASSUME NEW i \in 1..(m + 1), NEW j \in 1..(m + 1), p[i] = p[j] PROVE i = j
  <2>1. ASSUME NEW x \in 1..(m + 1) PROVE x = k + 1 \/ \E y \in 1..m : p[x] = s[y] /\ x = IF y <= k THEN y ELSE y + 1
    <3>1. CASE x \in 1..k
      <4>1. x \in 1..m /\ x <= k
        BY <1>1, <3>1
      <4> QED BY <1>2, <3>1, <4>1
    <3>2. CASE \E y \in (k + 1)..m : x = y + 1
      <4>1. PICK y \in (k + 1)..m : x = y + 1
        BY <3>2
      <4>2. y \in 1..m /\ ~(y <= k) /\ p[x] = s[y]
        BY <1>1, <1>2, <4>1
      <4> QED BY <4>1, <4>2
    <3> QED BY <1>2, <3>1, <3>2
  <2>2. CASE i = k + 1
    BY <1>1, <1>2, <1>3, <2>1, <2>2
  <2>3. CASE j = k + 1
    BY <1>1, <1>2, <1>3, <2>1, <2>3
  <2>4. CASE i # k + 1 /\ j # k + 1
    BY <1>1, <1>3, <2>1, <2>4
  <2> QED BY <2>2, <2>3, <2>4
<1>4. l2.head = p[1]
  <2>1. CASE k = 0
    BY <1>2, <2>1
  <2>2. CASE k > 0
    <3>1. 1 \in 1..k /\ m > 0
      BY <1>1, <2>2
    <3> QED BY <1>1, <1>2, <2>2, <3>1
  <2> QED BY <1>1, <2>1, <2>2
<1>5. l2.tail = p[m + 1] /\ l2.ne[p[m + 1]] = Null
  <2>1. CASE k = m
    BY <1>1, <1>2, <2>1
  <2>2. CASE k < m
    <3>1. m \in (k + 1)..m /\ m \in 1..m /\ m # k
      BY <1>1, <2>2
    <3>2. p[m + 1] = s[m] /\ l2.ne[s[m]] = l.ne[s[m]]
      BY <1>2, <3>1
    <3> QED BY <1>1, <2>2, <3>2
  <2> QED BY <1>1, <2>1, <2>2
<1>6. ASSUME NEW i \in 1..m PROVE l2.ne[p[i]] = p[i + 1] /\ l2.pre[p[i + 1]] = p[i]
  <2>1. CASE i < k
    <3>1. i \in 1..k /\ i + 1 \in 1..k /\ i \in 1..(m - 1) /\ i + 1 \in 1..m /\ i # k /\ i + 1 # k + 1
      BY <1>1, <2>1
    <3>2. p[i] = s[i] /\ p[i + 1] = s[i + 1]
      BY <1>2, <3>1
    <3>3. l2.ne[s[i]] = l.ne[s[i]] /\ l2.pre[s[i + 1]] = l.pre[s[i + 1]]
      BY <3>1
    <3> QED BY <1>1, <3>1, <3>2, <3>3
  <2>2. CASE i = k
    <3>1. k > 0 /\ p[i] = s[k] /\ p[i + 1] = t
      BY <1>1, <1>2, <2>2
    <3> QED BY <3>1
  <2>3. CASE i = k + 1
    <3>1. k < m /\ k + 1 \in (k + 1)..m
      BY <1>1, <2>3
    <3>2. p[i] = t /\ p[i + 1] = s[k + 1]
      BY <1>2, <2>3, <3>1
    <3> QED BY <3>1, <3>2
  <2>4. CASE i > k + 1
    <3>1. PICK j \in (k + 1)..(m - 1) : i = j + 1
      <4>1. i - 1 \in (k + 1)..(m - 1) /\ i = (i - 1) + 1
        BY <1>1, <2>4
      <4> QED BY <4>1
    <3>2. j \in (k + 1)..m /\ j \in 1..m /\ j # k /\ j \in 1..(m - 1) /\ i \in (k + 1)..m /\ i # k + 1
      BY <1>1, <2>4, <3>1
    <3>3. p[i] = s[j] /\ p[i + 1] = s[i]
      BY <1>2, <3>1, <3>2
    <3>4. l2.ne[s[j]] = l.ne[s[j]] /\ l2.pre[s[i]] = l.pre[s[i]]
      BY <3>2
    <3>5. l.ne[s[j]] = s[i] /\ l.pre[s[i]] = s[j]
      BY <1>1, <3>1, <3>2
    <3> QED BY <3>3, <3>4, <3>5
  <2> QED BY <1>1, <2>1, <2>2, <2>3, <2>4
<1>7. m + 1 \in Nat /\ m + 1 # 0 /\ (m + 1) - 1 = m
  BY <1>1
<1> QED BY <1>2, <1>3, <1>4, <1>5, <1>6, <1>7 DEF Row, p

-----------------------------------------------------------------------------
(* The way from head.                                                      *)

LEMMA MinIs ==
    ASSUME NEW S \in SUBSET Nat, S # {}
    PROVE  Min(S) \in S /\ \A y \in S : Min(S) <= y
<1> DEFINE R == OpToRel(<, Nat)
<1>1. IsWellFoundedOn(R, Nat)
  BY NatLessThanWellFounded
<1>2. PICK x \in S : \A y \in S : ~(<<y, x>> \in R)
  <2> HIDE DEF R
  <2> QED BY <1>1, WFMin
<1>3. \A y \in S : ~(y < x)
  BY <1>2 DEF OpToRel
<1>4. \A y \in S : x <= y
  BY <1>3
<1> QED BY <1>4 DEF Min

\* A row is no longer than there are nodes.
LEMMA RowFits ==
    ASSUME NEW l, NEW s, NEW m, Row(l, s, m)
    PROVE  Cardinality(Timers) \in Nat /\ m <= Cardinality(Timers)
<1>1. m \in Nat /\ s \in [1..m -> Timers] /\ \A i, j \in 1..m : s[i] = s[j] => i = j
  BY DEF Row
<1>2. s \in Injection(1..m, Timers)
  BY <1>1 DEF Injection, IsInjective
<1>3. IsFiniteSet(Timers) /\ Cardinality(Timers) \in Nat
  BY TimerListAssumption, FS_CardinalityType
<1>4. Cardinality(1..m) <= Cardinality(Timers)
  BY <1>2, <1>3, FS_Injection
<1>5. Cardinality(1..m) = IF 1 > m THEN 0 ELSE m - 1 + 1
  BY <1>1, FS_Interval
<1> QED BY <1>1, <1>3, <1>4, <1>5

Way(s, m) == [n \in 0..Cardinality(Timers) |-> IF n < m THEN s[n + 1] ELSE Null]

\* From head on the nodes of the row follow, and then Null.
LEMMA NodesAre ==
    ASSUME NEW l, NEW s, NEW m, Row(l, s, m)
    PROVE  Nodes(l) = Way(s, m)
<1> DEFINE D == 0..Cardinality(Timers)
           After(g, n) == IF n = 0 THEN l.head
                          ELSE IF g[n - 1] = Null THEN Null ELSE l.ne[g[n - 1]]
           w == Way(s, m)
           node == Nodes(l)
<1>1. Cardinality(Timers) \in Nat /\ m \in Nat
  BY RowFits DEF Row
<1>2. \A n \in D : w[n] = IF n < m THEN s[n + 1] ELSE Null
  BY DEF Way
<1>3. node = CHOOSE g : g = [n \in D |-> After(g, n)]
  BY DEF Nodes
<1>4. ASSUME NEW n \in D PROVE w[n] = After(w, n)
  <2>1. CASE n = 0
    BY <1>1, <1>2, <2>1 DEF Row
  <2>2. CASE n # 0
    <3>1. n - 1 \in D /\ n \in Nat /\ n > 0
      BY <1>1, <2>2
    <3>2. w[n - 1] = IF n - 1 < m THEN s[n] ELSE Null
      <4>1. n - 1 + 1 = n
        BY <3>1
      <4> QED BY <1>2, <3>1, <4>1
    <3>3. CASE n < m
      <4>1. n \in 1..(m - 1) /\ n - 1 < m /\ n \in 1..m
        BY <1>1, <3>1, <3>3
      <4>2. w[n] = s[n + 1] /\ w[n - 1] = s[n] /\ l.ne[s[n]] = s[n + 1]
        BY <1>2, <3>2, <3>3, <4>1 DEF Row
      <4>3. s[n] # Null
        BY <4>1, TimerListAssumption DEF Row
      <4> QED BY <2>2, <4>2, <4>3
    <3>4. CASE n = m
      <4>1. m > 0 /\ n - 1 < m /\ m \in 1..m /\ ~(n < m)
        BY <1>1, <3>1, <3>4
      <4>2. w[n] = Null /\ w[n - 1] = s[m] /\ l.ne[s[m]] = Null
        BY <1>2, <3>2, <3>4, <4>1 DEF Row
      <4>3. s[m] # Null
        BY <4>1, TimerListAssumption DEF Row
      <4> QED BY <2>2, <4>2, <4>3
    <3>5. CASE n > m
      <4>1. ~(n < m) /\ ~(n - 1 < m)
        BY <1>1, <3>1, <3>5
      <4>2. w[n] = Null /\ w[n - 1] = Null
        BY <1>2, <3>2, <4>1
      <4> QED BY <2>2, <4>2
    <3> QED BY <1>1, <3>1, <3>3, <3>4, <3>5
  <2> QED BY <2>1, <2>2
<1>5. w = [n \in D |-> After(w, n)]
  <2>1. w = [n \in D |-> w[n]]
    BY DEF Way
  <2> HIDE DEF w, After, D
  <2>2. [n \in D |-> w[n]] = [n \in D |-> After(w, n)]
    BY <1>4
  <2> QED BY <2>1, <2>2
<1>6. node = [n \in D |-> After(node, n)]
  <2> HIDE DEF After, D, w, node
  <2> QED BY <1>3, <1>5
<1> HIDE DEF w, node
<1>7. \A n \in D : node[n] = After(node, n)
  <2> HIDE DEF After, D
  <2> QED BY <1>6
<1>8. ASSUME NEW n \in D, node[n] # w[n] PROVE FALSE
  <2> DEFINE B == {x \in D : node[x] # w[x]}
  <2>1. B \in SUBSET Nat /\ B # {}
    BY <1>1, <1>8
  <2>2. Min(B) \in B /\ \A y \in B : Min(B) <= y
    <3> HIDE DEF B
    <3> QED BY <2>1, MinIs
  <2>3. PICK x \in D : node[x] # w[x] /\ \A y \in B : x <= y
    BY <2>2
  <2>4. x # 0
    BY <1>4, <1>7, <2>3
  <2>5. x - 1 \in D /\ ~(x <= x - 1)
    BY <1>1, <2>4
  <2>6. node[x - 1] = w[x - 1]
    BY <2>3, <2>5
  <2>7. After(node, x) = After(w, x)
    BY <2>6
  <2> QED
    <3> HIDE DEF After, B
    <3> QED BY <1>4, <1>7, <2>3, <2>7
<1>9. \A n \in D : node[n] = w[n]
  BY <1>8
<1> HIDE DEF After, D
<1>10. [n \in D |-> After(node, n)] = [n \in D |-> After(w, n)]
  BY <1>4, <1>7, <1>9
<1> QED BY <1>5, <1>6, <1>10 DEF w, node

\* What the nodes on the way are, and that they are all of the row.
LEMMA WayIs ==
    ASSUME NEW l, NEW s, NEW m, Row(l, s, m)
    PROVE  /\ DOMAIN Nodes(l) \subseteq Nat
           /\ \A n \in DOMAIN Nodes(l) : n < m => Nodes(l)[n] = s[n + 1]
           /\ \A n \in DOMAIN Nodes(l) : n >= m => Nodes(l)[n] = Null
           /\ 0..m \subseteq DOMAIN Nodes(l)
           /\ Chain(l) = On(s, m)
<1> DEFINE D == 0..Cardinality(Timers)
<1>1. Nodes(l) = Way(s, m)
  BY NodesAre
<1>2. Cardinality(Timers) \in Nat /\ m <= Cardinality(Timers) /\ m \in Nat /\ s \in [1..m -> Timers]
  BY RowFits DEF Row
<1>3. DOMAIN Nodes(l) = D
  BY <1>1 DEF Way
<1>4. \A n \in D : Nodes(l)[n] = IF n < m THEN s[n + 1] ELSE Null
  BY <1>1 DEF Way
<1>5. \A n \in D : n < m => Nodes(l)[n] = s[n + 1]
  BY <1>4
<1>6. \A n \in D : n >= m => Nodes(l)[n] = Null
  BY <1>2, <1>4
<1>7. ASSUME NEW x \in Chain(l) PROVE x \in On(s, m)
  <2>1. PICK n \in D : x = Nodes(l)[n] /\ x # Null
    BY <1>3 DEF Chain
  <2>2. n < m
    BY <1>2, <1>6, <2>1
  <2>3. n + 1 \in 1..m
    BY <1>2, <2>2
  <2> QED BY <1>5, <2>1, <2>2, <2>3 DEF On
<1>8. ASSUME NEW x \in On(s, m) PROVE x \in Chain(l)
  <2>1. PICK i \in 1..m : x = s[i]
    BY DEF On
  <2>2. PICK n \in D : n = i - 1 /\ n < m /\ n + 1 = i
    <3>1. i - 1 \in D /\ i - 1 < m /\ (i - 1) + 1 = i
      BY <1>2
    <3> QED BY <3>1
  <2>3. Nodes(l)[n] = x /\ x # Null
    BY <1>2, <1>5, <2>1, <2>2, TimerListAssumption
  <2> QED BY <1>3, <2>3 DEF Chain
<1>9. 0..m \subseteq D /\ D \subseteq Nat
  BY <1>2
<1> HIDE DEF D
<1> QED BY <1>3, <1>5, <1>6, <1>7, <1>8, <1>9

-----------------------------------------------------------------------------
(* Taking nodes out of a row.                                              *)

IsCut(p, s, m, j) ==
    /\ p \in [1..(m - 1) -> Timers]
    /\ \A i \in 1..(j - 1) : p[i] = s[i]
    /\ \A i \in j..(m - 1) : p[i] = s[i + 1]

LEMMA CutIs ==
    ASSUME NEW l, NEW s, NEW m, Row(l, s, m), NEW j \in 1..m
    PROVE  /\ IsCut(Cut(s, m, j), s, m, j)
           /\ On(Cut(s, m, j), m - 1) = On(s, m) \ {s[j]}
<1> DEFINE p == Cut(s, m, j)
<1>1. /\ m \in Nat /\ s \in [1..m -> Timers] /\ j \in Nat /\ 1 <= j /\ j <= m
      /\ \A x, y \in 1..m : s[x] = s[y] => x = y
  BY DEF Row
<1>2. p \in [1..(m - 1) -> Timers]
  <2>1. ASSUME NEW i \in 1..(m - 1) PROVE (IF i < j THEN s[i] ELSE s[i + 1]) \in Timers
    <3>1. i \in 1..m /\ i + 1 \in 1..m
      BY <1>1
    <3> QED BY <1>1, <3>1
  <2> QED BY <2>1 DEF Cut
<1>3. \A i \in 1..(m - 1) : p[i] = IF i < j THEN s[i] ELSE s[i + 1]
  BY DEF Cut
<1> HIDE DEF p
<1>4. ASSUME NEW i \in 1..(j - 1) PROVE p[i] = s[i]
  <2>1. i \in 1..(m - 1) /\ i < j
    BY <1>1
  <2> QED BY <1>3, <2>1
<1>5. ASSUME NEW i \in j..(m - 1) PROVE p[i] = s[i + 1]
  <2>1. i \in 1..(m - 1) /\ ~(i < j)
    BY <1>1
  <2> QED BY <1>3, <2>1
<1>6. ASSUME NEW x \in On(p, m - 1) PROVE x \in On(s, m) \ {s[j]}
  <2>1. PICK i \in 1..(m - 1) : x = p[i]
    BY DEF On
  <2>2. CASE i < j
    <3>1. i \in 1..m /\ i # j /\ x = s[i]
      BY <1>1, <1>3, <2>1, <2>2
    <3> QED BY <1>1, <3>1 DEF On
  <2>3. CASE ~(i < j)
    <3>1. PICK y \in 1..m : y = i + 1 /\ y # j
      BY <1>1, <2>3
    <3>2. x = s[y]
      BY <1>3, <2>1, <2>3, <3>1
    <3> QED BY <1>1, <3>1, <3>2 DEF On
  <2> QED BY <2>2, <2>3
<1>7. ASSUME NEW x \in On(s, m) \ {s[j]} PROVE x \in On(p, m - 1)
  <2>1. PICK i \in 1..m : x = s[i] /\ i # j
    BY DEF On
  <2>2. CASE i < j
    <3>1. i \in 1..(m - 1) /\ i \in 1..(j - 1)
      BY <1>1, <2>2
    <3> QED BY <1>4, <2>1, <3>1 DEF On
  <2>3. CASE i > j
    <3>1. PICK y \in j..(m - 1) : y + 1 = i
      <4>1. i - 1 \in j..(m - 1) /\ (i - 1) + 1 = i
        BY <1>1, <2>3
      <4> QED BY <4>1
    <3>2. y \in 1..(m - 1) /\ p[y] = x
      BY <1>1, <1>5, <2>1, <3>1
    <3> QED BY <3>2 DEF On
  <2> QED BY <1>1, <2>1, <2>2, <2>3
<1>8. IsCut(p, s, m, j)
  BY <1>2, <1>4, <1>5 DEF IsCut
<1> QED BY <1>6, <1>7, <1>8 DEF p

\* One of several nodes is linked out.
LEMMA RowCut ==
    ASSUME NEW l, NEW s, NEW m, Row(l, s, m), m >= 2, NEW j \in 1..m, NEW l2,
           l2.head = IF j = 1 THEN s[2] ELSE l.head,
           l2.tail = IF j = m THEN s[m - 1] ELSE l.tail,
           j = m => l2.ne[s[m - 1]] = Null,
           j > 1 /\ j < m => l2.ne[s[j - 1]] = s[j + 1] /\ l2.pre[s[j + 1]] = s[j - 1],
           \A i \in 1..m : i # j - 1 /\ i # j => l2.ne[s[i]] = l.ne[s[i]],
           \A i \in 1..m : i # j + 1 /\ i # j => l2.pre[s[i]] = l.pre[s[i]]
    PROVE  Row(l2, Cut(s, m, j), m - 1)
<1> DEFINE p == Cut(s, m, j)
<1>0. IsCut(p, s, m, j)
  BY CutIs
<1> HIDE DEF p
<1>1. /\ m \in Nat /\ s \in [1..m -> Timers] /\ j \in Nat /\ 1 <= j /\ j <= m /\ m - 1 \in Nat /\ m - 1 # 0
      /\ \A x, y \in 1..m : s[x] = s[y] => x = y
      /\ l.head = s[1] /\ l.tail = s[m] /\ l.ne[s[m]] = Null
      /\ \A i \in 1..(m - 1) : l.ne[s[i]] = s[i + 1] /\ l.pre[s[i + 1]] = s[i]
  BY DEF Row
<1>2. /\ p \in [1..(m - 1) -> Timers]
      /\ \A i \in 1..(j - 1) : p[i] = s[i]
      /\ \A i \in j..(m - 1) : p[i] = s[i + 1]
  BY <1>0 DEF IsCut
<1>3. ASSUME NEW x \in 1..(m - 1), NEW y \in 1..(m - 1), p[x] = p[y] PROVE x = y
  <2>1. ASSUME NEW z \in 1..(m - 1) PROVE \E i \in 1..m : p[z] = s[i] /\ i # j /\ z = IF i < j THEN i ELSE i - 1
    <3>1. CASE z < j
      <4>1. z \in 1..(j - 1) /\ z \in 1..m
        BY <1>1, <3>1
      <4> QED BY <1>2, <3>1, <4>1
    <3>2. CASE ~(z < j)
      <4>1. PICK i \in 1..m : i = z + 1
        BY <1>1
      <4>2. z \in j..(m - 1) /\ i # j /\ ~(i < j) /\ z = i - 1
        BY <1>1, <3>2, <4>1
      <4> QED BY <1>2, <4>1, <4>2
    <3> QED BY <3>1, <3>2
  <2>2. PICK i \in 1..m : p[x] = s[i] /\ i # j /\ x = IF i < j THEN i ELSE i - 1
    BY <2>1
  <2>3. PICK k \in 1..m : p[y] = s[k] /\ k # j /\ y = IF k < j THEN k ELSE k - 1
    BY <2>1
  <2>4. i = k
    <3>1. s[i] = s[k]
      BY <1>3, <2>2, <2>3, Zenon
    <3>2. \A a, b \in 1..m : s[a] = s[b] => a = b
      BY <1>1
    <3> QED BY <3>1, <3>2, Zenon
  <2>5. x = IF k < j THEN k ELSE k - 1
    BY <2>2, <2>4, Zenon
  <2> QED BY <2>3, <2>5, Zenon
<1>4. l2.head = p[1]
  <2>1. CASE j = 1
    <3>1. 1 \in j..(m - 1)
      BY <1>1, <2>1
    <3> QED BY <1>2, <2>1, <3>1
  <2>2. CASE j > 1
    <3>1. 1 \in 1..(j - 1) /\ j # 1
      BY <1>1, <2>2
    <3> QED BY <1>1, <1>2, <3>1
  <2> QED BY <1>1, <2>1, <2>2
<1>5. l2.tail = p[m - 1] /\ l2.ne[p[m - 1]] = Null
  <2>1. CASE j = m
    <3>1. m - 1 \in 1..(j - 1)
      BY <1>1, <2>1
    <3>2. p[m - 1] = s[m - 1]
      BY <1>2, <3>1
    <3> QED BY <2>1, <3>2
  <2>2. CASE j < m
    <3>0. m \in Nat /\ j \in Nat /\ 1 <= j /\ j < m
      BY <1>1, <2>2
    <3>1. m - 1 \in j..(m - 1) /\ (m - 1) + 1 = m
      BY <3>0
    <3>2. p[m - 1] = s[m]
      BY <1>2, <3>1
    <3>3. m \in 1..m /\ m # j - 1 /\ m # j
      BY <1>1, <2>2
    <3>4. l2.ne[s[m]] = l.ne[s[m]]
      BY <3>3
    <3> QED BY <1>1, <2>2, <3>2, <3>3, <3>4
  <2> QED BY <1>1, <2>1, <2>2
<1>6. ASSUME NEW i \in 1..((m - 1) - 1) PROVE l2.ne[p[i]] = p[i + 1] /\ l2.pre[p[i + 1]] = p[i]
  <2>0. PICK n \in 1..m : n = i + 1
    BY <1>1
  <2>1. CASE i < j - 1
    <3>1. i \in 1..(j - 1) /\ n \in 1..(j - 1) /\ i \in 1..m /\ i \in 1..(m - 1)
          /\ i # j - 1 /\ i # j /\ n # j + 1 /\ n # j
      BY <1>1, <2>0, <2>1
    <3>2. p[i] = s[i] /\ p[n] = s[n]
      BY <1>2, <3>1
    <3>3. l2.ne[s[i]] = l.ne[s[i]] /\ l2.pre[s[n]] = l.pre[s[n]]
      BY <3>1
    <3>4. l.ne[s[i]] = s[n] /\ l.pre[s[n]] = s[i]
      BY <1>1, <2>0, <3>1
    <3> QED BY <2>0, <3>2, <3>3, <3>4
  <2>2. CASE i = j - 1
    <3>1. i \in 1..(j - 1) /\ n \in j..(m - 1) /\ n = j /\ j > 1 /\ j < m
      BY <1>1, <2>0, <2>2
    <3>2. p[i] = s[j - 1] /\ p[n] = s[j + 1]
      BY <1>2, <2>2, <3>1
    <3>3. l2.ne[s[j - 1]] = s[j + 1] /\ l2.pre[s[j + 1]] = s[j - 1]
      BY <3>1
    <3> QED BY <2>0, <3>2, <3>3
  <2>3. CASE i >= j
    <3>1. PICK k \in 1..m : k = n + 1
      BY <1>1, <2>0
    <3>2. i \in j..(m - 1) /\ n \in j..(m - 1) /\ n \in 1..(m - 1)
          /\ n # j - 1 /\ n # j /\ k # j + 1 /\ k # j
      BY <1>1, <2>0, <2>3, <3>1
    <3>3. p[i] = s[n] /\ p[n] = s[k]
      BY <1>2, <2>0, <3>1, <3>2
    <3>4. l2.ne[s[n]] = l.ne[s[n]] /\ l2.pre[s[k]] = l.pre[s[k]]
      BY <3>2
    <3>5. l.ne[s[n]] = s[k] /\ l.pre[s[k]] = s[n]
      BY <1>1, <3>1, <3>2
    <3> QED BY <2>0, <3>3, <3>4, <3>5
  <2> QED BY <1>1, <2>1, <2>2, <2>3
<1> QED BY <1>1, <1>2, <1>3, <1>4, <1>5, <1>6 DEF Row, p

IsDrop(p, s, m, k) ==
    /\ p \in [1..(m - k) -> Timers]
    /\ \A i \in 1..(m - k) : p[i] = s[i + k]

\* The first k nodes are left behind, as a tick does.
LEMMA RowDrop ==
    ASSUME NEW l, NEW s, NEW m, Row(l, s, m), NEW k \in 0..m, NEW l2,
           l2.ne = l.ne, l2.pre = l.pre, l2.tail = l.tail,
           k = m => l2.head = Null, k < m => l2.head = s[k + 1]
    PROVE  /\ IsDrop(Drop(s, m, k), s, m, k)
           /\ Row(l2, Drop(s, m, k), m - k)
           /\ On(Drop(s, m, k), m - k) = {s[i] : i \in (k + 1)..m}
<1> DEFINE p == Drop(s, m, k)
<1>1. /\ m \in Nat /\ s \in [1..m -> Timers] /\ k \in Nat /\ k <= m /\ m - k \in Nat
      /\ \A x, y \in 1..m : s[x] = s[y] => x = y
      /\ m > 0 => l.tail = s[m] /\ l.ne[s[m]] = Null
      /\ \A i \in 1..(m - 1) : l.ne[s[i]] = s[i + 1] /\ l.pre[s[i + 1]] = s[i]
  BY DEF Row
<1>2. p \in [1..(m - k) -> Timers] /\ \A i \in 1..(m - k) : p[i] = s[i + k]
  <2>1. ASSUME NEW i \in 1..(m - k) PROVE s[i + k] \in Timers
    <3>1. i + k \in 1..m
      BY <1>1
    <3> QED BY <1>1, <3>1
  <2> QED BY <2>1 DEF Drop
<1> HIDE DEF p
<1>3. ASSUME NEW x \in 1..(m - k), NEW y \in 1..(m - k), p[x] = p[y] PROVE x = y
  <2>1. x + k \in 1..m /\ y + k \in 1..m
    BY <1>1
  <2>2. x + k = y + k
    BY <1>1, <1>2, <1>3, <2>1
  <2> QED BY <1>1, <2>2
<1>4. m - k = 0 => l2.head = Null
  BY <1>1
<1>5. m - k > 0 => l2.head = p[1] /\ l2.tail = p[m - k] /\ l2.ne[p[m - k]] = Null
  <2> SUFFICES ASSUME m - k > 0 PROVE l2.head = p[1] /\ l2.tail = p[m - k] /\ l2.ne[p[m - k]] = Null
    OBVIOUS
  <2>1. 1 \in 1..(m - k) /\ m - k \in 1..(m - k) /\ 1 + k = k + 1 /\ (m - k) + k = m /\ m > 0 /\ k < m
    BY <1>1
  <2>2. p[1] = s[k + 1] /\ p[m - k] = s[m]
    BY <1>2, <2>1
  <2> QED BY <1>1, <2>1, <2>2
<1>6. ASSUME NEW i \in 1..((m - k) - 1) PROVE l2.ne[p[i]] = p[i + 1] /\ l2.pre[p[i + 1]] = p[i]
  <2>1. PICK x \in 1..(m - 1) : x = i + k
    BY <1>1
  <2>2. i \in 1..(m - k) /\ i + 1 \in 1..(m - k) /\ (i + 1) + k = x + 1
    BY <1>1, <2>1
  <2>3. p[i] = s[x] /\ p[i + 1] = s[x + 1]
    BY <1>2, <2>1, <2>2
  <2> QED BY <1>1, <2>1, <2>3
<1>7. ASSUME NEW x PROVE x \in On(p, m - k) <=> x \in {s[i] : i \in (k + 1)..m}
  <2>1. ASSUME NEW i \in 1..(m - k), x = p[i] PROVE x \in {s[n] : n \in (k + 1)..m}
    <3>1. i + k \in (k + 1)..m /\ x = s[i + k]
      BY <1>1, <1>2, <2>1
    <3> QED BY <3>1
  <2>2. ASSUME NEW n \in (k + 1)..m, x = s[n] PROVE \E i \in 1..(m - k) : x = p[i]
    <3>1. n - k \in 1..(m - k) /\ (n - k) + k = n
      BY <1>1
    <3> QED BY <1>2, <2>2, <3>1
  <2> QED BY <2>1, <2>2 DEF On
<1>8. IsDrop(p, s, m, k)
  BY <1>2 DEF IsDrop
<1>9. Row(l2, p, m - k)
  BY <1>1, <1>2, <1>3, <1>4, <1>5, <1>6 DEF Row
<1>10. On(p, m - k) = {s[i] : i \in (k + 1)..m}
  BY <1>7
<1> QED BY <1>8, <1>9, <1>10 DEF p

-----------------------------------------------------------------------------
(* The order of the row.                                                   *)

LEMMA AscendingPut ==
    ASSUME NEW m \in Nat, NEW s \in [1..m -> Timers], NEW exp \in [Timers -> Nat],
           NEW k \in 0..m, NEW t \in Timers, Ascending(exp, s, m),
           \A i \in 1..k : exp[s[i]] <= exp[t],
           \A i \in (k + 1)..m : exp[t] <= exp[s[i]]
    PROVE  Ascending(exp, Put(s, m, k, t), m + 1)
<1> DEFINE p == Put(s, m, k, t)
<1>1. IsPut(p, s, m, k, t)
  BY PutIs
<1> HIDE DEF p
<1>2. k \in Nat /\ k <= m /\ exp[t] \in Nat /\ \A i \in 1..m : s[i] \in Timers /\ exp[s[i]] \in Nat
  OBVIOUS
<1>3. /\ \A i \in 1..k : p[i] = s[i]
      /\ p[k + 1] = t
      /\ \A i \in (k + 1)..m : p[i + 1] = s[i]
      /\ \A i \in 1..(m + 1) : i \in 1..k \/ i = k + 1 \/ \E j \in (k + 1)..m : i = j + 1
  BY <1>1 DEF IsPut
<1>4. ASSUME NEW x \in 1..m, NEW y \in 1..m, x <= y PROVE exp[s[x]] <= exp[s[y]]
  BY <1>4 DEF Ascending
<1>5. ASSUME NEW i \in 1..(m + 1), NEW j \in 1..(m + 1), i <= j PROVE exp[p[i]] <= exp[p[j]]
  <2>1. CASE i \in 1..k /\ j \in 1..k
    <3>1. i \in 1..m /\ j \in 1..m
      BY <1>2, <2>1
    <3> QED BY <1>3, <1>4, <1>5, <2>1, <3>1
  <2>2. CASE i \in 1..k /\ j = k + 1
    <3>1. p[i] = s[i] /\ p[j] = t /\ exp[s[i]] <= exp[t]
      BY <1>3, <2>2
    <3> QED BY <3>1
  <2>3. CASE i \in 1..k /\ \E y \in (k + 1)..m : j = y + 1
    <3>1. PICK y \in (k + 1)..m : j = y + 1
      BY <2>3
    <3>2. i \in 1..m /\ y \in 1..m /\ i <= y
      BY <1>2, <2>3
    <3>3. p[i] = s[i] /\ p[j] = s[y]
      BY <1>3, <2>3, <3>1
    <3> QED BY <1>4, <3>2, <3>3
  <2>4. CASE i = k + 1 /\ j = k + 1
    BY <1>2, <1>3, <2>4
  <2>5. CASE i = k + 1 /\ \E y \in (k + 1)..m : j = y + 1
    <3>1. PICK y \in (k + 1)..m : j = y + 1
      BY <2>5
    <3>2. p[i] = t /\ p[j] = s[y] /\ exp[t] <= exp[s[y]]
      BY <1>3, <2>5, <3>1
    <3> QED BY <3>2
  <2>6. CASE (\E x \in (k + 1)..m : i = x + 1) /\ \E y \in (k + 1)..m : j = y + 1
    <3>1. PICK x \in (k + 1)..m : i = x + 1
      BY <2>6
    <3>2. PICK y \in (k + 1)..m : j = y + 1
      BY <2>6
    <3>3. x \in 1..m /\ y \in 1..m /\ x <= y
      BY <1>2, <1>5, <3>1, <3>2
    <3>4. p[i] = s[x] /\ p[j] = s[y]
      BY <1>3, <3>1, <3>2
    <3> QED BY <1>4, <3>3, <3>4
  <2>7. CASE (\E x \in (k + 1)..m : i = x + 1) /\ j \in 1..(k + 1)
    BY <1>2, <1>5, <2>7
  <2>8. CASE i = k + 1 /\ j \in 1..k
    BY <1>2, <1>5, <2>8
  <2>9. j \in 1..k \/ j = k + 1 => j \in 1..(k + 1)
    BY <1>2
  <2>10. i \in 1..k \/ i = k + 1 \/ \E y \in (k + 1)..m : i = y + 1
    BY <1>3
  <2>11. j \in 1..k \/ j = k + 1 \/ \E y \in (k + 1)..m : j = y + 1
    BY <1>3
  <2> QED BY <2>1, <2>2, <2>3, <2>4, <2>5, <2>6, <2>7, <2>8, <2>9, <2>10, <2>11
<1> QED BY <1>5 DEF Ascending, p

LEMMA AscendingCut ==
    ASSUME NEW l, NEW s, NEW m, Row(l, s, m), NEW j \in 1..m, NEW exp \in [Timers -> Nat],
           \A x, y \in 1..m : x <= y /\ x # j /\ y # j => exp[s[x]] <= exp[s[y]]
    PROVE  Ascending(exp, Cut(s, m, j), m - 1)
<1> DEFINE p == Cut(s, m, j)
<1>1. IsCut(p, s, m, j)
  BY CutIs
<1> HIDE DEF p
<1>2. m \in Nat /\ j \in Nat
  BY DEF Row
<1>3. ASSUME NEW z \in 1..(m - 1)
      PROVE  \E i \in 1..m : p[z] = s[i] /\ i # j /\ i = IF z < j THEN z ELSE z + 1
  <2>1. CASE z < j
    <3>1. z \in 1..(j - 1) /\ z \in 1..m
      BY <1>2, <2>1
    <3> QED BY <1>1, <2>1, <3>1 DEF IsCut
  <2>2. CASE ~(z < j)
    <3>1. PICK i \in 1..m : i = z + 1
      BY <1>2
    <3>2. z \in j..(m - 1) /\ i # j
      BY <1>2, <2>2, <3>1
    <3> QED BY <1>1, <2>2, <3>1, <3>2 DEF IsCut
  <2> QED BY <2>1, <2>2
<1>4. ASSUME NEW x \in 1..(m - 1), NEW y \in 1..(m - 1), x <= y PROVE exp[p[x]] <= exp[p[y]]
  <2>1. PICK i \in 1..m : p[x] = s[i] /\ i # j /\ i = IF x < j THEN x ELSE x + 1
    BY <1>3
  <2>2. PICK k \in 1..m : p[y] = s[k] /\ k # j /\ k = IF y < j THEN y ELSE y + 1
    BY <1>3
  <2>3. i <= k
    BY <1>2, <1>4, <2>1, <2>2
  <2>4. exp[s[i]] <= exp[s[k]]
    BY <2>1, <2>2, <2>3
  <2> QED BY <2>1, <2>2, <2>4
<1> QED BY <1>4 DEF Ascending, p

LEMMA AscendingDrop ==
    ASSUME NEW m \in Nat, NEW s, NEW k \in 0..m, NEW exp, Ascending(exp, s, m), NEW p, IsDrop(p, s, m, k)
    PROVE  Ascending(exp, p, m - k)
<1>1. ASSUME NEW x \in 1..(m - k), NEW y \in 1..(m - k), x <= y PROVE exp[p[x]] <= exp[p[y]]
  <2>1. x + k \in 1..m /\ y + k \in 1..m /\ x + k <= y + k
    BY <1>1
  <2>2. exp[s[x + k]] <= exp[s[y + k]]
    BY <2>1 DEF Ascending
  <2> QED BY <2>2 DEF IsDrop
<1> QED BY <1>1 DEF Ascending

-----------------------------------------------------------------------------
(* The methods of the list.                                                *)

LEMMA ListIs ==
    ASSUME NEW l \in Lists
    PROVE  /\ l = [head |-> l.head, tail |-> l.tail, ne |-> l.ne, pre |-> l.pre]
           /\ l.head \in Links /\ l.tail \in Links
           /\ l.ne \in [Timers -> Links] /\ l.pre \in [Timers -> Links]
BY DEF Lists

\* The first k nodes are due before e, and no other.
Behind(l, s, m, exp, e, k) ==
    /\ k \in 0..m
    /\ Nodes(l)[k] = IF k = m THEN Null ELSE s[k + 1]
    /\ k > 0 => Nodes(l)[k - 1] = s[k]
    /\ \A i \in 1..k : exp[s[i]] < e
    /\ k < m => e <= exp[s[k + 1]]

LEMMA StopIs ==
    ASSUME NEW l, NEW s, NEW m, Row(l, s, m), NEW exp \in [Timers -> Nat], NEW e \in Nat
    PROVE  Behind(l, s, m, exp, e,
                  Min({n \in DOMAIN Nodes(l) : Nodes(l)[n] = Null \/ e <= exp[Nodes(l)[n]]}))
<1> DEFINE S == {n \in DOMAIN Nodes(l) : Nodes(l)[n] = Null \/ e <= exp[Nodes(l)[n]]}
<1>0. m \in Nat /\ s \in [1..m -> Timers]
  BY DEF Row
<1>1. /\ DOMAIN Nodes(l) \subseteq Nat /\ 0..m \subseteq DOMAIN Nodes(l)
      /\ \A n \in DOMAIN Nodes(l) : n < m => Nodes(l)[n] = s[n + 1]
      /\ \A n \in DOMAIN Nodes(l) : n >= m => Nodes(l)[n] = Null
  BY WayIs, Zenon
<1>2. m \in S
  BY <1>0, <1>1
<1>3. S \in SUBSET Nat /\ S # {}
  BY <1>1, <1>2
<1>4. Min(S) \in S /\ \A n \in S : Min(S) <= n
  <2> HIDE DEF S
  <2> QED BY <1>3, MinIs
<1>5. PICK k \in S : k = Min(S) /\ \A n \in S : k <= n
  BY <1>4
<1> HIDE DEF S
<1>6. k \in 0..m /\ k \in Nat /\ k <= m /\ m \in Nat
  BY <1>0, <1>2, <1>3, <1>5
<1>7. Nodes(l)[k] = IF k = m THEN Null ELSE s[k + 1]
  <2>1. k \in DOMAIN Nodes(l) /\ (k = m => k >= m) /\ (k # m => k < m)
    BY <1>1, <1>6
  <2> QED BY <1>1, <2>1
<1>8. ASSUME NEW i \in 1..k PROVE Nodes(l)[i - 1] = s[i] /\ exp[s[i]] < e
  <2>1. PICK n \in 0..m : n = i - 1 /\ n + 1 = i /\ n < m /\ n < k
    <3>1. i - 1 \in 0..m /\ (i - 1) + 1 = i /\ i - 1 < m /\ i - 1 < k
      BY <1>6
    <3> QED BY <3>1
  <2>2. n \in DOMAIN Nodes(l) /\ Nodes(l)[n] = s[i]
    <3>1. n \in DOMAIN Nodes(l)
      BY <1>1
    <3>2. Nodes(l)[n] = s[n + 1]
      BY <1>1, <2>1, <3>1
    <3> QED BY <2>1, <3>1, <3>2
  <2>3. n \notin S
    <3>1. ~(k <= n)
      BY <1>6, <2>1
    <3> QED BY <1>5, <3>1
  <2>4. i \in 1..m
    BY <1>6
  <2>5. s[i] \in Timers /\ exp[s[i]] \in Nat /\ e \in Nat
    BY <1>0, <2>4
  <2>6. ~(e <= exp[s[i]])
    BY <2>2, <2>3 DEF S
  <2> QED BY <2>1, <2>2, <2>5, <2>6
<1>9. k < m => e <= exp[s[k + 1]]
  <2> SUFFICES ASSUME k < m PROVE e <= exp[s[k + 1]]
    OBVIOUS
  <2>1. k + 1 \in 1..m /\ Nodes(l)[k] = s[k + 1]
    BY <1>6, <1>7
  <2>2. s[k + 1] # Null
    BY <1>0, <2>1, TimerListAssumption
  <2> QED BY <1>5, <2>1, <2>2 DEF S
<1>10. k > 0 => Nodes(l)[k - 1] = s[k]
  BY <1>6, <1>8
<1> QED BY <1>5, <1>6, <1>7, <1>8, <1>9, <1>10 DEF Behind, S

\* The list l2 holds the nodes of l and t, after the first k; a stale pre of
\* the head is still that of the head, or gone.
Added(l2, l, s, m, exp, t, k) ==
    /\ l2 \in Lists
    /\ Row(l2, Put(s, m, k, t), m + 1)
    /\ Ascending(exp, Put(s, m, k, t), m + 1)
    /\ k = 0 => l2.pre[t] = Null
    /\ k > 0 => l2.pre[s[1]] = l.pre[s[1]]

\* Insert puts a node that is due last where it belongs, unless one ties with
\* the head whose pre is stale.
LEMMA InsertAdds ==
    ASSUME NEW l \in Lists, NEW s, NEW m, Row(l, s, m), m > 0,
           NEW exp \in [Timers -> Nat], Ascending(exp, s, m),
           NEW t \in Timers, t \notin On(s, m), \A i \in 1..m : exp[s[i]] <= exp[t],
           l.pre[s[1]] = Null \/ \A i \in 1..m : exp[s[i]] < exp[t]
    PROVE  \E k \in 0..m : Added(Insert(l, exp, t), l, s, m, exp, t, k)
<1> DEFINE k == Min({n \in DOMAIN Nodes(l) : Nodes(l)[n] = Null \/ exp[t] <= exp[Nodes(l)[n]]})
           l2 == Insert(l, exp, t)
<1>1. Behind(l, s, m, exp, exp[t], k)
  BY StopIs
<1>2. /\ m \in Nat /\ s \in [1..m -> Timers] /\ 1 \in 1..m /\ m \in 1..m
      /\ \A x, y \in 1..m : s[x] = s[y] => x = y
      /\ l.head = s[1] /\ l.tail = s[m] /\ l.ne[s[m]] = Null
      /\ \A i \in 1..(m - 1) : l.ne[s[i]] = s[i + 1] /\ l.pre[s[i + 1]] = s[i]
  BY DEF Row
<1>3. \A i \in 1..m : s[i] # t /\ s[i] \in Timers /\ exp[s[i]] \in Nat
  BY <1>2 DEF On
<1>4. exp[t] \in Nat /\ Null \notin Timers
  BY TimerListAssumption
<1>5. l2 = IF Nodes(l)[k] = Null
           THEN [l EXCEPT !.ne = [@ EXCEPT ![Nodes(l)[k - 1]] = t, ![t] = Null],
                          !.pre[t] = Nodes(l)[k - 1], !.tail = t]
           ELSE [l EXCEPT !.ne = [u \in Timers |-> IF u = t THEN Nodes(l)[k]
                                                   ELSE IF u = l.pre[Nodes(l)[k]] THEN t ELSE @[u]],
                          !.pre = [@ EXCEPT ![t] = l.pre[Nodes(l)[k]], ![Nodes(l)[k]] = t],
                          !.head = IF l.pre[Nodes(l)[k]] = Null THEN t ELSE @]
  BY DEF Insert
<1> HIDE DEF k, l2
<1>6. /\ k \in 0..m /\ k \in Nat
      /\ Nodes(l)[k] = IF k = m THEN Null ELSE s[k + 1]
      /\ k > 0 => Nodes(l)[k - 1] = s[k]
      /\ \A i \in 1..k : exp[s[i]] < exp[t]
      /\ k < m => exp[t] <= exp[s[k + 1]]
  BY <1>1 DEF Behind
<1>7. /\ l = [head |-> l.head, tail |-> l.tail, ne |-> l.ne, pre |-> l.pre]
      /\ l.head \in Links /\ l.tail \in Links
      /\ l.ne \in [Timers -> Links] /\ l.pre \in [Timers -> Links]
  BY ListIs
<1>8. Ascending(exp, Put(s, m, k, t), m + 1)
  <2>1. ASSUME NEW i \in 1..k PROVE exp[s[i]] <= exp[t]
    <3>1. i \in 1..m /\ exp[s[i]] < exp[t]
      BY <1>2, <1>6
    <3> QED BY <1>3, <1>4, <3>1
  <2>2. ASSUME NEW i \in (k + 1)..m PROVE exp[t] <= exp[s[i]]
    <3>1. k + 1 \in 1..m /\ i \in 1..m /\ k + 1 <= i /\ k < m
      BY <1>2, <1>6
    <3>2. exp[t] <= exp[s[k + 1]] /\ exp[s[k + 1]] <= exp[s[i]]
      BY <1>6, <3>1 DEF Ascending
    <3>3. exp[s[k + 1]] \in Nat /\ exp[s[i]] \in Nat
      BY <1>3, <3>1
    <3> QED BY <1>4, <3>2, <3>3
  <2> QED BY <1>2, <1>6, <2>1, <2>2, AscendingPut
<1>9. CASE k = m
  <2> DEFINE ne2 == [l.ne EXCEPT ![s[m]] = t, ![t] = Null]
             pre2 == [l.pre EXCEPT ![t] = s[m]]
  <2>1. Nodes(l)[k] = Null /\ Nodes(l)[k - 1] = s[m] /\ s[m] \in Timers /\ s[m] # t
    BY <1>2, <1>3, <1>6, <1>9
  <2>2. l2 = [l EXCEPT !.ne = [@ EXCEPT ![s[m]] = t, ![t] = Null], !.pre[t] = s[m], !.tail = t]
    BY <1>5, <2>1, Zenon
  <2>3. l2 = [head |-> l.head, tail |-> t, ne |-> ne2, pre |-> pre2]
    BY <1>7, <2>2
  <2>4. ne2 \in [Timers -> Links] /\ pre2 \in [Timers -> Links]
    BY <1>7, <2>1 DEF Links
  <2>5. ne2[s[m]] = t /\ ne2[t] = Null /\ pre2[t] = s[m]
    BY <1>7, <2>1
  <2>6. \A i \in 1..m : i # m => ne2[s[i]] = l.ne[s[i]]
    BY <1>2, <1>3, <1>7
  <2>7. \A i \in 1..m : pre2[s[i]] = l.pre[s[i]]
    BY <1>3, <1>7
  <2> HIDE DEF ne2, pre2
  <2>8. l2.head = l.head /\ l2.tail = t /\ l2.ne = ne2 /\ l2.pre = pre2
    BY <2>3
  <2>9. l2 \in Lists
    BY <1>7, <2>3, <2>4 DEF Lists, Links
  <2>10. k # 0 /\ ~(k < m) /\ k > 0
    BY <1>2, <1>6, <1>9
  <2>11. Row(l2, Put(s, m, k, t), m + 1)
    BY <1>6, <1>9, <2>5, <2>6, <2>7, <2>8, <2>10, RowPut
  <2>12. Added(l2, l, s, m, exp, t, k)
    BY <1>2, <1>6, <1>8, <2>7, <2>8, <2>9, <2>10, <2>11 DEF Added
  <2> QED BY <1>6, <2>12 DEF l2
<1>10. CASE k # m
  <2> DEFINE c == s[k + 1]
             a == l.pre[c]
             ne2 == [u \in Timers |-> IF u = t THEN c ELSE IF u = a THEN t ELSE l.ne[u]]
             pre2 == [l.pre EXCEPT ![t] = a, ![c] = t]
             head2 == IF a = Null THEN t ELSE l.head
  <2>1. k < m /\ k + 1 \in 1..m /\ c \in Timers /\ c # t /\ Nodes(l)[k] = c /\ c # Null
    <3>1. k < m /\ k + 1 \in 1..m
      BY <1>2, <1>6, <1>10
    <3> QED BY <1>3, <1>4, <1>6, <1>10, <3>1
  <2>2. k > 0 => a = s[k] /\ k \in 1..m
    <3> SUFFICES ASSUME k > 0 PROVE a = s[k] /\ k \in 1..m
      OBVIOUS
    <3>1. k \in 1..(m - 1) /\ k \in 1..m
      BY <1>2, <1>6, <2>1
    <3> QED BY <1>2, <3>1
  <2>3. k = 0 => a = Null
    <3> SUFFICES ASSUME k = 0 PROVE a = Null
      OBVIOUS
    <3>1. c = s[1] /\ exp[t] <= exp[s[1]]
      BY <1>6, <2>1
    <3>2. ~(exp[s[1]] < exp[t])
      BY <1>2, <1>3, <1>4, <3>1
    <3> QED BY <1>2, <3>1, <3>2
  <2>4. l2 = [l EXCEPT !.ne = [u \in Timers |-> IF u = t THEN c ELSE IF u = a THEN t ELSE @[u]],
                       !.pre = [@ EXCEPT ![t] = a, ![c] = t],
                       !.head = IF a = Null THEN t ELSE @]
    BY <1>5, <2>1, Zenon
  <2>5. l2 = [head |-> head2, tail |-> l.tail, ne |-> ne2, pre |-> pre2]
    <3> HIDE DEF a, c
    <3> QED BY <1>7, <2>4
  <2>6. a \in Links /\ ne2 \in [Timers -> Links] /\ pre2 \in [Timers -> Links] /\ head2 \in Links
    BY <1>7, <2>1 DEF Links
  <2>7. ne2[t] = c /\ pre2[t] = a /\ pre2[c] = t
    BY <1>7, <2>1
  <2>8. k > 0 => ne2[s[k]] = t
    BY <1>3, <2>2
  <2>9. \A i \in 1..m : i # k => ne2[s[i]] = l.ne[s[i]]
    <3> SUFFICES ASSUME NEW i \in 1..m, i # k PROVE ne2[s[i]] = l.ne[s[i]]
      OBVIOUS
    <3>1. s[i] # t /\ s[i] \in Timers
      BY <1>3
    <3>2. s[i] # a
      <4>1. CASE k = 0
        BY <1>4, <2>3, <3>1, <4>1
      <4>2. CASE k > 0
        BY <1>2, <2>2, <4>2
      <4> QED BY <1>6, <4>1, <4>2
    <3> QED BY <3>1, <3>2
  <2>10. \A i \in 1..m : i # k + 1 => pre2[s[i]] = l.pre[s[i]]
    BY <1>2, <1>3, <1>7, <2>1
  <2>11. head2 = IF k = 0 THEN t ELSE l.head
    <3>1. CASE k = 0
      BY <2>3, <3>1
    <3>2. CASE k # 0
      <4>1. k > 0
        BY <1>6, <3>2
      <4>2. a # Null
        BY <1>3, <1>4, <2>2, <4>1
      <4> QED BY <3>2, <4>2
    <3> QED BY <3>1, <3>2
  <2> HIDE DEF a, ne2, pre2, head2
  <2>12. l2.head = head2 /\ l2.tail = l.tail /\ l2.ne = ne2 /\ l2.pre = pre2
    BY <2>5
  <2>13. l2 \in Lists
    BY <1>7, <2>5, <2>6 DEF Lists
  <2>14. k # m /\ (k > 0 => pre2[t] = s[k]) /\ (k = 0 => pre2[t] = Null)
    BY <1>10, <2>2, <2>3, <2>7
  <2>15. Row(l2, Put(s, m, k, t), m + 1)
    BY <1>6, <1>10, <2>7, <2>8, <2>9, <2>10, <2>11, <2>12, <2>14, RowPut
  <2>16. k > 0 => pre2[s[1]] = l.pre[s[1]]
    BY <1>2, <1>6, <2>10
  <2>17. Added(l2, l, s, m, exp, t, k)
    BY <1>6, <1>8, <2>12, <2>13, <2>14, <2>15, <2>16 DEF Added
  <2> QED BY <1>6, <2>17 DEF l2
<1> QED BY <1>9, <1>10 DEF l2

\* add_timer: the branch for a node that is due before the head is not taken.
LEMMA AddTimerAdds ==
    ASSUME NEW l \in Lists, NEW s, NEW m, Row(l, s, m),
           NEW exp \in [Timers -> Nat], Ascending(exp, s, m),
           NEW t \in Timers, t \notin On(s, m), \A i \in 1..m : exp[s[i]] <= exp[t],
           m = 0 => l.ne[t] = Null /\ l.pre[t] = Null,
           m > 0 => l.pre[s[1]] = Null \/ \A i \in 1..m : exp[s[i]] < exp[t]
    PROVE  \E k \in 0..m : Added(AddTimer(l, exp, t), l, s, m, exp, t, k)
<1>1. m \in Nat /\ s \in [1..m -> Timers]
  BY DEF Row
<1>2. CASE m = 0
  <2> DEFINE l2 == [l EXCEPT !.head = t, !.tail = t]
  <2>1. l.head = Null
    BY <1>2 DEF Row
  <2>2. AddTimer(l, exp, t) = l2
    BY <2>1 DEF AddTimer
  <2>4. l2.head = t /\ l2.tail = t /\ l2.ne = l.ne /\ l2.pre = l.pre
    BY DEF Lists
  <2>5. l2 \in Lists
    BY DEF Lists, Links
  <2> HIDE DEF l2
  <2>6. 0 \in 0..m /\ ~(0 > 0) /\ ~(0 < m) /\ 0 = m /\ 1..m = {}
    BY <1>2
  <2>7. Row(l2, Put(s, m, 0, t), m + 1)
    BY <1>2, <2>4, <2>6, RowPut
  <2>8. Ascending(exp, Put(s, m, 0, t), m + 1)
    <3>1. 1..0 = {} /\ (0 + 1)..m = {}
      BY <1>2
    <3> QED BY <1>1, <2>6, <3>1, AscendingPut
  <2>9. Added(l2, l, s, m, exp, t, 0)
    BY <1>2, <2>4, <2>5, <2>6, <2>7, <2>8 DEF Added
  <2> QED BY <2>2, <2>6, <2>9
<1>3. CASE m > 0
  <2>1. 1 \in 1..m /\ l.head = s[1] /\ s[1] \in Timers /\ s[1] # Null
    BY <1>1, <1>3, TimerListAssumption DEF Row
  <2>2. exp[s[1]] \in Nat /\ exp[t] \in Nat /\ exp[s[1]] <= exp[t]
    BY <2>1
  <2>3. ~(exp[l.head] > exp[t])
    BY <2>1, <2>2
  <2>4. AddTimer(l, exp, t) = Insert(l, exp, t)
    BY <2>1, <2>3 DEF AddTimer
  <2>5. \E k \in 0..m : Added(Insert(l, exp, t), l, s, m, exp, t, k)
    BY <1>3, InsertAdds
  <2> QED BY <2>4, <2>5
<1> QED BY <1>1, <1>2, <1>3

\* l holds the nodes of S in the order in which they are due, and pre of its head
\* is Null or points to one of the dead.
Good(l, exp, S, dead) ==
    /\ l \in Lists
    /\ \E s, m : /\ Row(l, s, m) /\ On(s, m) = S /\ Ascending(exp, s, m)
                 /\ m > 0 => l.pre[s[1]] \in dead \cup {Null}

LEMMA AddedGood ==
    ASSUME NEW l, NEW s, NEW m, Row(l, s, m), NEW exp, NEW t \in Timers, NEW dead,
           m > 0 => l.pre[s[1]] \in dead \cup {Null},
           NEW k \in 0..m, NEW l2, Added(l2, l, s, m, exp, t, k)
    PROVE  Good(l2, exp, On(s, m) \cup {t}, dead)
<1> DEFINE p == Put(s, m, k, t)
<1>1. m \in Nat /\ s \in [1..m -> Timers] /\ k \in Nat /\ k <= m
  BY DEF Row
<1>2. IsPut(p, s, m, k, t) /\ On(p, m + 1) = On(s, m) \cup {t}
  BY <1>1, PutIs
<1>3. l2 \in Lists /\ Row(l2, p, m + 1) /\ Ascending(exp, p, m + 1)
  BY DEF Added
<1> HIDE DEF p
<1>4. l2.pre[p[1]] \in dead \cup {Null}
  <2>1. CASE k = 0
    <3>1. p[1] = t
      BY <1>2, <2>1 DEF IsPut
    <3>2. l2.pre[t] = Null
      BY <2>1 DEF Added
    <3> QED BY <3>1, <3>2
  <2>2. CASE k > 0
    <3>1. 1 \in 1..k /\ m > 0
      BY <1>1, <2>2
    <3>2. p[1] = s[1]
      BY <1>2, <3>1 DEF IsPut
    <3>3. l2.pre[s[1]] = l.pre[s[1]]
      BY <2>2 DEF Added
    <3> QED BY <3>1, <3>2, <3>3
  <2> QED BY <1>1, <2>1, <2>2
<1> QED BY <1>2, <1>3, <1>4 DEF Good

LEMMA CutGood ==
    ASSUME NEW l, NEW s, NEW m, Row(l, s, m), m >= 2, NEW j \in 1..m, NEW exp, NEW dead,
           l.pre[s[1]] \in dead \cup {Null},
           NEW l2 \in Lists, Row(l2, Cut(s, m, j), m - 1), Ascending(exp, Cut(s, m, j), m - 1),
           l2.pre[Cut(s, m, j)[1]] = l.pre[s[1]]
    PROVE  Good(l2, exp, On(s, m) \ {s[j]}, dead)
<1>1. On(Cut(s, m, j), m - 1) = On(s, m) \ {s[j]}
  BY CutIs
<1> QED BY <1>1 DEF Good

\* Where the row without its j-th node begins.
LEMMA CutHead ==
    ASSUME NEW l, NEW s, NEW m, Row(l, s, m), m >= 2, NEW j \in 1..m
    PROVE  Cut(s, m, j)[1] = IF j = 1 THEN s[2] ELSE s[1]
<1>1. m \in Nat /\ 1 \in 1..(m - 1) /\ j \in Nat /\ (1 < j <=> j # 1) /\ 1 + 1 = 2
  BY DEF Row
<1> QED BY <1>1 DEF Cut

\* adjust_timer of a node that is now due last.
LEMMA AdjustGood ==
    ASSUME NEW l \in Lists, NEW s, NEW m, Row(l, s, m), NEW j \in 1..m, NEW dead,
           NEW exp \in [Timers -> Nat], NEW exp2 \in [Timers -> Nat], Ascending(exp, s, m),
           \A i \in 1..m : i # j => exp2[s[i]] = exp[s[i]],
           \A i \in 1..m : exp2[s[i]] <= exp2[s[j]],
           l.pre[s[1]] \in dead \cup {Null},
           l.pre[s[1]] = Null \/ \A i \in 1..m : i # j => exp[s[i]] < exp2[s[j]]
    PROVE  Good(AdjustTimer(l, exp2, s[j]), exp2, On(s, m), dead)
<1> DEFINE t == s[j]
<1>1. /\ m \in Nat /\ s \in [1..m -> Timers] /\ j \in Nat /\ 1 <= j /\ j <= m /\ m > 0
      /\ t \in Timers /\ Null \notin Timers
      /\ \A x, y \in 1..m : s[x] = s[y] => x = y
      /\ l.head = s[1] /\ l.tail = s[m] /\ l.ne[s[m]] = Null
      /\ \A i \in 1..(m - 1) : l.ne[s[i]] = s[i + 1] /\ l.pre[s[i + 1]] = s[i]
  BY TimerListAssumption DEF Row
<1>2. \A i \in 1..m : s[i] \in Timers /\ exp[s[i]] \in Nat /\ exp2[s[i]] \in Nat
  BY <1>1
<1>3. CASE j = m
  <2>1. AdjustTimer(l, exp2, t) = l
    BY <1>1, <1>3 DEF AdjustTimer
  <2>2. ASSUME NEW x \in 1..m, NEW y \in 1..m, x <= y PROVE exp2[s[x]] <= exp2[s[y]]
    <3>1. CASE y = j
      BY <3>1
    <3>2. CASE y # j
      <4>1. x # j
        BY <1>1, <1>3, <2>2, <3>2
      <4>2. exp[s[x]] <= exp[s[y]]
        BY <2>2 DEF Ascending
      <4> QED BY <3>2, <4>1, <4>2
    <3> QED BY <3>1, <3>2
  <2>3. Ascending(exp2, s, m)
    BY <2>2 DEF Ascending
  <2> QED BY <2>1, <2>3 DEF Good
<1>4. CASE j < m
  <2> DEFINE a == l.ne[t]
             b == l.pre[t]
             l1 == [l EXCEPT !.pre[a] = b,
                             !.ne = IF l.head = t THEN @ ELSE [@ EXCEPT ![b] = a],
                             !.head = IF @ = t THEN a ELSE @]
             s1 == Cut(s, m, j)
  <2>1. j \in 1..(m - 1) /\ j + 1 \in 1..m /\ j + 1 # j /\ m >= 2 /\ m \in 1..m /\ 1 \in 1..m /\ 1 # m
    BY <1>1, <1>4
  <2>2. a = s[j + 1] /\ a \in Timers /\ a # Null /\ a # t
    BY <1>1, <1>2, <2>1
  <2>3. l.head # l.tail
    BY <1>1, <2>1
  <2>4. ~(exp2[t] < exp2[a])
    <3>1. exp2[a] <= exp2[t] /\ exp2[a] \in Nat /\ exp2[t] \in Nat
      BY <1>1, <1>2, <2>1, <2>2
    <3> QED BY <3>1
  <2>5. AdjustTimer(l, exp2, t) = AddTimer(l1, exp2, t)
    BY <2>2, <2>3, <2>4 DEF AdjustTimer
  <2>6. l.head = t <=> j = 1
    BY <1>1, <2>1
  <2>7. j > 1 => b = s[j - 1] /\ j - 1 \in 1..m /\ b \in Timers
    <3> SUFFICES ASSUME j > 1 PROVE b = s[j - 1] /\ j - 1 \in 1..m /\ b \in Timers
      OBVIOUS
    <3>1. PICK i \in 1..(m - 1) : i = j - 1 /\ i + 1 = j /\ i \in 1..m
      <4>1. j - 1 \in 1..(m - 1) /\ (j - 1) + 1 = j /\ j - 1 \in 1..m
        BY <1>1
      <4> QED BY <4>1
    <3>2. b = s[i]
      BY <1>1, <3>1
    <3> QED BY <1>2, <3>1, <3>2
  <2>8. /\ l.head \in Links /\ l.tail \in Links
        /\ l.ne \in [Timers -> Links] /\ l.pre \in [Timers -> Links]
    BY ListIs
  <2>9. b \in Links
    BY <1>1, <2>8
  <2>10. /\ l1.pre = [l.pre EXCEPT ![a] = b]
         /\ l1.ne = IF l.head = t THEN l.ne ELSE [l.ne EXCEPT ![b] = a]
         /\ l1.head = IF l.head = t THEN a ELSE l.head
         /\ l1.tail = l.tail
    <3> HIDE DEF a, b, t
    <3> QED BY DEF Lists
  <2>11. l1 \in Lists
    <3>1. a \in Links
      BY <2>2 DEF Links
    <3> HIDE DEF a, b, t
    <3> QED BY <2>9, <3>1 DEF Lists
  <2> HIDE DEF l1, a, b
  <2>12. l1.head = IF j = 1 THEN s[2] ELSE l.head
    BY <2>2, <2>6, <2>10
  <2>13. l1.ne = IF j = 1 THEN l.ne ELSE [l.ne EXCEPT ![b] = a]
    BY <2>6, <2>10
  <2>14. j > 1 => l1.ne[s[j - 1]] = s[j + 1] /\ l1.pre[s[j + 1]] = s[j - 1]
    BY <2>2, <2>7, <2>8, <2>10, <2>13
  <2>15. \A i \in 1..m : i # j - 1 /\ i # j => l1.ne[s[i]] = l.ne[s[i]]
    <3> SUFFICES ASSUME NEW i \in 1..m, i # j - 1, i # j PROVE l1.ne[s[i]] = l.ne[s[i]]
      OBVIOUS
    <3>1. CASE j = 1
      BY <2>13, <3>1
    <3>2. CASE j # 1
      <4>1. j > 1
        BY <1>1, <3>2
      <4>2. s[i] # b
        BY <1>1, <2>7, <4>1
      <4>3. l1.ne = [l.ne EXCEPT ![b] = a]
        BY <2>13, <3>2
      <4> QED BY <1>2, <2>8, <4>2, <4>3
    <3> QED BY <3>1, <3>2
  <2>16. \A i \in 1..m : i # j + 1 => l1.pre[s[i]] = l.pre[s[i]]
    BY <1>1, <1>2, <2>1, <2>2, <2>8, <2>10
  <2>17. Row(l1, s1, m - 1)
    <3>1. j # m
      BY <1>1, <1>4
    <3>2. /\ l1.tail = IF j = m THEN s[m - 1] ELSE l.tail
          /\ j = m => l1.ne[s[m - 1]] = Null
          /\ j > 1 /\ j < m => l1.ne[s[j - 1]] = s[j + 1] /\ l1.pre[s[j + 1]] = s[j - 1]
      BY <2>10, <2>14, <3>1
    <3>3. \A i \in 1..m : i # j + 1 /\ i # j => l1.pre[s[i]] = l.pre[s[i]]
      BY <2>16
    <3> HIDE DEF t
    <3> QED BY <2>1, <2>12, <2>15, <3>2, <3>3, RowCut
  <2>18. On(s1, m - 1) = On(s, m) \ {t}
    BY CutIs
  <2>19. t \notin On(s1, m - 1) /\ On(s1, m - 1) \cup {t} = On(s, m)
    <3>1. t \in On(s, m)
      BY DEF On
    <3> QED BY <2>18, <3>1
  <2>20. Ascending(exp2, s1, m - 1)
    <3>1. ASSUME NEW x \in 1..m, NEW y \in 1..m, x <= y /\ x # j /\ y # j
          PROVE  exp2[s[x]] <= exp2[s[y]]
      <4>1. exp[s[x]] <= exp[s[y]]
        BY <3>1 DEF Ascending
      <4> QED BY <3>1, <4>1
    <3> QED BY <3>1, AscendingCut
  <2>21. m - 1 \in Nat /\ m - 1 > 0 /\ m - 1 # 0 /\ 1 \in 1..(m - 1)
    BY <2>1
  <2>22. ASSUME NEW i \in 1..(m - 1)
         PROVE  \E n \in 1..m : n # j /\ s1[i] = s[n]
    <3>1. s1[i] \in On(s, m) \ {t}
      BY <2>18 DEF On
    <3> HIDE DEF s1
    <3> QED BY <3>1 DEF On
  <2>23. s1[1] = IF j = 1 THEN s[2] ELSE s[1]
    BY <2>1, CutHead
  <2> HIDE DEF s1
  <2>24. l1.pre[s1[1]] = l.pre[s[1]]
    <3>1. CASE j = 1
      <4>1. s1[1] = a /\ b = l.pre[s[1]]
        BY <2>2, <2>23, <3>1 DEF b
      <4> QED BY <2>2, <2>8, <2>10, <4>1
    <3>2. CASE j # 1
      <4>1. 1 # j + 1
        BY <1>1
      <4> QED BY <2>1, <2>16, <2>23, <3>2, <4>1
    <3> QED BY <3>1, <3>2
  <2>25. \A i \in 1..(m - 1) : exp2[s1[i]] <= exp2[t]
    BY <2>22
  <2>26. l1.pre[s1[1]] = Null \/ \A i \in 1..(m - 1) : exp2[s1[i]] < exp2[t]
    <3> SUFFICES ASSUME l.pre[s[1]] # Null, NEW i \in 1..(m - 1) PROVE exp2[s1[i]] < exp2[t]
      BY <2>24
    <3>1. PICK n \in 1..m : n # j /\ s1[i] = s[n]
      BY <2>22
    <3>2. exp[s[n]] < exp2[t] /\ exp2[s[n]] = exp[s[n]]
      BY <3>1
    <3> QED BY <3>1, <3>2
  <2>27. PICK k \in 0..(m - 1) : Added(AddTimer(l1, exp2, t), l1, s1, m - 1, exp2, t, k)
    <3> HIDE DEF t
    <3> QED BY <1>1, <2>11, <2>17, <2>19, <2>20, <2>21, <2>25, <2>26, AddTimerAdds
  <2>28. Good(AddTimer(l1, exp2, t), exp2, On(s1, m - 1) \cup {t}, dead)
    <3> HIDE DEF t
    <3> QED BY <1>1, <2>17, <2>24, <2>27, AddedGood
  <2> QED BY <2>5, <2>19, <2>28
<1> QED BY <1>1, <1>3, <1>4

\* del_timer of a node of the list.
LEMMA DelGood ==
    ASSUME NEW l \in Lists, NEW s, NEW m, Row(l, s, m), NEW j \in 1..m, NEW dead,
           NEW exp \in [Timers -> Nat], Ascending(exp, s, m), l.pre[s[1]] \in dead \cup {Null}
    PROVE  Good(DelTimer(l, s[j]), exp, On(s, m) \ {s[j]}, dead)
<1> DEFINE t == s[j]
           l2 == DelTimer(l, t)
           p == Cut(s, m, j)
<1>1. /\ m \in Nat /\ s \in [1..m -> Timers] /\ j \in Nat /\ 1 <= j /\ j <= m /\ m > 0 /\ 1 \in 1..m /\ m \in 1..m
      /\ t \in Timers /\ Null \notin Timers
      /\ \A x, y \in 1..m : s[x] = s[y] => x = y
      /\ l.head = s[1] /\ l.tail = s[m] /\ l.ne[s[m]] = Null
      /\ \A i \in 1..(m - 1) : l.ne[s[i]] = s[i + 1] /\ l.pre[s[i + 1]] = s[i]
  <2>1. /\ m \in Nat /\ s \in [1..m -> Timers] /\ j \in Nat /\ 1 <= j /\ j <= m
    BY DEF Row
  <2>2. m > 0 /\ 1 \in 1..m /\ m \in 1..m
    BY <2>1
  <2>3. t \in Timers /\ Null \notin Timers
    BY <2>1, TimerListAssumption
  <2>4. /\ \A x, y \in 1..m : s[x] = s[y] => x = y
        /\ l.head = s[1] /\ l.tail = s[m] /\ l.ne[s[m]] = Null
        /\ \A i \in 1..(m - 1) : l.ne[s[i]] = s[i + 1] /\ l.pre[s[i + 1]] = s[i]
    BY <2>2 DEF Row
  <2> QED BY <2>1, <2>2, <2>3, <2>4
<1>2. On(p, m - 1) = On(s, m) \ {t} /\ IsCut(p, s, m, j)
  BY CutIs
<1>3. Ascending(exp, p, m - 1)
  <2>1. \A x, y \in 1..m : x <= y /\ x # j /\ y # j => exp[s[x]] <= exp[s[y]]
    BY DEF Ascending
  <2> QED BY <2>1, AscendingCut
<1>4. /\ l.head \in Links /\ l.tail \in Links
      /\ l.ne \in [Timers -> Links] /\ l.pre \in [Timers -> Links]
  BY ListIs
<1>5. CASE m = 1
  <2>1. l.head = l.tail /\ l.head = t
    BY <1>1, <1>5
  <2>2. l2 = [l EXCEPT !.head = Null, !.tail = Null]
    BY <2>1 DEF DelTimer
  <2>3. l2 \in Lists /\ l2.head = Null
    <3> HIDE DEF l2, t
    <3> QED BY <2>2 DEF Lists, Links
  <2> HIDE DEF l2
  <2>4. m - 1 = 0 /\ 1..(m - 1) = {} /\ 1..(m - 1 - 1) = {}
    BY <1>5
  <2>5. Row(l2, p, m - 1)
    <3> HIDE DEF p
    <3> QED BY <1>2, <2>3, <2>4 DEF Row, IsCut
  <2> HIDE DEF p
  <2>6. Good(l2, exp, On(p, m - 1), dead)
    BY <1>3, <2>3, <2>4, <2>5 DEF Good
  <2> QED BY <1>2, <2>6 DEF l2
<1>6. CASE m >= 2
  <2> DEFINE a == l.ne[t]
             b == l.pre[t]
             left == IF t = l.head THEN [l EXCEPT !.pre[a] = Null, !.head = a]
                     ELSE [l EXCEPT !.ne[b] = a]
  <2>1. l.head # l.tail
    BY <1>1, <1>6
  <2>2. t \in Chain(l)
    <3>1. Chain(l) = On(s, m)
      BY WayIs
    <3> QED BY <3>1 DEF On
  <2>3. l2 = IF t = l.tail THEN [left EXCEPT !.ne[b] = Null, !.tail = b]
             ELSE [left EXCEPT !.pre[a] = b]
    BY <2>1, <2>2 DEF DelTimer
  <2>4. (t = l.head <=> j = 1) /\ (t = l.tail <=> j = m)
    BY <1>1
  <2>5. j < m => a = s[j + 1] /\ j + 1 \in 1..m /\ a \in Timers
    <3> SUFFICES ASSUME j < m PROVE a = s[j + 1] /\ j + 1 \in 1..m /\ a \in Timers
      OBVIOUS
    <3>1. j \in 1..(m - 1) /\ j + 1 \in 1..m
      BY <1>1
    <3> QED BY <1>1, <3>1
  <2>6. j > 1 => b = s[j - 1] /\ j - 1 \in 1..m /\ b \in Timers
    <3> SUFFICES ASSUME j > 1 PROVE b = s[j - 1] /\ j - 1 \in 1..m /\ b \in Timers
      OBVIOUS
    <3>1. PICK i \in 1..(m - 1) : i = j - 1 /\ i + 1 = j /\ i \in 1..m
      <4>1. j - 1 \in 1..(m - 1) /\ (j - 1) + 1 = j /\ j - 1 \in 1..m
        BY <1>1
      <4> QED BY <4>1
    <3>2. b = s[i]
      BY <1>1, <3>1
    <3> QED BY <1>1, <3>1, <3>2
  <2>7. a \in Links /\ b \in Links /\ (j = 1 => b = l.pre[s[1]])
    BY <1>1, <1>4
  <2>8. p[1] = IF j = 1 THEN s[2] ELSE s[1]
    BY <1>6, CutHead
  <2> HIDE DEF l2, left, a, b, t, p
  <2>9. \A i \in 1..m : s[i] \in Timers
    BY <1>1
  <2>10. CASE j = 1
    <3>1. l2 = [[l EXCEPT !.pre[a] = Null, !.head = a] EXCEPT !.pre[a] = b]
      <4>1. j # m
        BY <1>1, <1>6, <2>10
      <4> QED BY <2>3, <2>4, <2>10, <4>1 DEF left
    <3>2. /\ l2 \in Lists /\ l2.head = a /\ l2.tail = l.tail /\ l2.ne = l.ne
          /\ l2.pre = [[l.pre EXCEPT ![a] = Null] EXCEPT ![a] = b]
      BY <2>7, <3>1 DEF Lists, Links
    <3>3. j < m /\ j # m /\ ~(j > 1) /\ j + 1 = 2 /\ a = s[2] /\ 2 \in 1..m
      <4>1. j < m /\ j # m /\ ~(j > 1) /\ j + 1 = 2 /\ 2 \in 1..m
        BY <1>1, <1>6, <2>10
      <4> QED BY <2>5, <4>1
    <3>4. l2.pre[s[2]] = b
      BY <1>4, <2>9, <3>2, <3>3
    <3>5. \A i \in 1..m : i # j + 1 /\ i # j => l2.pre[s[i]] = l.pre[s[i]]
      BY <1>1, <1>4, <2>9, <3>2, <3>3
    <3>6. Row(l2, p, m - 1)
      BY <1>6, <2>10, <3>2, <3>3, <3>5, RowCut DEF p
    <3>7. l2.pre[p[1]] = l.pre[s[1]]
      BY <2>7, <2>8, <2>10, <3>4
    <3> QED BY <1>3, <1>6, <3>2, <3>6, <3>7, CutGood DEF p, t, l2
  <2>11. CASE j # 1 /\ j # m
    <3>1. l2 = [[l EXCEPT !.ne[b] = a] EXCEPT !.pre[a] = b]
      BY <2>3, <2>4, <2>11 DEF left
    <3>2. /\ l2 \in Lists /\ l2.head = l.head /\ l2.tail = l.tail
          /\ l2.ne = [l.ne EXCEPT ![b] = a]
          /\ l2.pre = [l.pre EXCEPT ![a] = b]
      BY <2>7, <3>1 DEF Lists, Links
    <3>3. j > 1 /\ j < m /\ 1 # j + 1
      BY <1>1, <2>11
    <3>4. l2.ne[s[j - 1]] = s[j + 1] /\ l2.pre[s[j + 1]] = s[j - 1]
      BY <1>4, <2>5, <2>6, <3>2, <3>3
    <3>5. \A i \in 1..m : i # j - 1 /\ i # j => l2.ne[s[i]] = l.ne[s[i]]
      <4> SUFFICES ASSUME NEW i \in 1..m, i # j - 1 PROVE l2.ne[s[i]] = l.ne[s[i]]
        OBVIOUS
      <4>1. s[i] # b
        BY <1>1, <2>6, <3>3
      <4> QED BY <1>4, <2>9, <3>2, <4>1
    <3>6. \A i \in 1..m : i # j + 1 => l2.pre[s[i]] = l.pre[s[i]]
      <4> SUFFICES ASSUME NEW i \in 1..m, i # j + 1 PROVE l2.pre[s[i]] = l.pre[s[i]]
        OBVIOUS
      <4>1. s[i] # a
        BY <1>1, <2>5, <3>3
      <4> QED BY <1>4, <2>9, <3>2, <4>1
    <3>7. Row(l2, p, m - 1)
      <4>1. /\ l2.head = IF j = 1 THEN s[2] ELSE l.head
            /\ l2.tail = IF j = m THEN s[m - 1] ELSE l.tail
            /\ j = m => l2.ne[s[m - 1]] = Null
            /\ j > 1 /\ j < m => l2.ne[s[j - 1]] = s[j + 1] /\ l2.pre[s[j + 1]] = s[j - 1]
        BY <2>11, <3>2, <3>4
      <4>2. \A i \in 1..m : i # j + 1 /\ i # j => l2.pre[s[i]] = l.pre[s[i]]
        BY <3>6
      <4> QED BY <1>6, <3>5, <4>1, <4>2, RowCut DEF p
    <3>8. l2.pre[p[1]] = l.pre[s[1]]
      BY <1>1, <2>8, <2>11, <3>3, <3>6
    <3> QED BY <1>3, <1>6, <3>2, <3>7, <3>8, CutGood DEF p, t, l2
  <2>12. CASE j # 1 /\ j = m
    <3>1. l2 = [[l EXCEPT !.ne[b] = a] EXCEPT !.ne[b] = Null, !.tail = b]
      BY <2>3, <2>4, <2>12 DEF left
    <3>2. /\ l2 \in Lists /\ l2.head = l.head /\ l2.tail = b /\ l2.pre = l.pre
          /\ l2.ne = [[l.ne EXCEPT ![b] = a] EXCEPT ![b] = Null]
      BY <2>7, <3>1 DEF Lists, Links
    <3>3. j > 1 /\ ~(j < m) /\ b = s[m - 1] /\ b = s[j - 1] /\ b \in Timers
      BY <1>1, <2>6, <2>12
    <3>4. l2.ne[s[m - 1]] = Null
      BY <1>4, <3>2, <3>3
    <3>5. \A i \in 1..m : i # j - 1 /\ i # j => l2.ne[s[i]] = l.ne[s[i]]
      <4> SUFFICES ASSUME NEW i \in 1..m, i # j - 1 PROVE l2.ne[s[i]] = l.ne[s[i]]
        OBVIOUS
      <4>1. s[i] # b
        BY <1>1, <2>6, <3>3
      <4> QED BY <1>4, <2>9, <3>2, <4>1
    <3>6. Row(l2, p, m - 1)
      BY <1>6, <2>12, <3>2, <3>3, <3>4, <3>5, RowCut DEF p
    <3>7. l2.pre[p[1]] = l.pre[s[1]]
      BY <2>8, <2>12, <3>2
    <3> QED BY <1>3, <1>6, <3>2, <3>6, <3>7, CutGood DEF p, t, l2
  <2> QED BY <2>10, <2>11, <2>12
<1>7. m = 1 \/ m >= 2
  BY <1>1
<1> QED BY <1>5, <1>6, <1>7

-----------------------------------------------------------------------------
(* The calls of main.cpp.                                                  *)

TimerInv ==
    /\ now \in 0..MaxTime
    /\ open \subseteq allocated /\ allocated \subseteq Timers
    /\ expire \in [Timers -> 0..(MaxTime + Timeout)]
    /\ \A t \in Timers : expire[t] <= now + Timeout
    /\ ~tied => Good(list, expire, open, allocated \ open)

LEMMA Numbers ==
    ASSUME TimerInv
    PROVE  /\ now \in Nat /\ MaxTime \in Nat /\ Timeout \in Nat /\ now <= MaxTime /\ Timeout > 0
           /\ now + Timeout \in 0..(MaxTime + Timeout)
           /\ expire \in [Timers -> Nat]
<1>1. now \in Nat /\ MaxTime \in Nat /\ Timeout \in Nat /\ now <= MaxTime /\ Timeout > 0
  BY TimerListAssumption DEF TimerInv
<1>2. now + Timeout \in 0..(MaxTime + Timeout) /\ 0..(MaxTime + Timeout) \subseteq Nat
  BY <1>1
<1>3. expire \in [Timers -> Nat]
  BY <1>2 DEF TimerInv
<1> QED BY <1>1, <1>2, <1>3

\* The row that the list is.
LEMMA GoodRow ==
    ASSUME NEW l, NEW exp, NEW S, NEW dead, Good(l, exp, S, dead)
    PROVE  /\ l \in Lists
           /\ \E s, m : /\ Row(l, s, m) /\ On(s, m) = S /\ Ascending(exp, s, m)
                        /\ m \in Nat /\ s \in [1..m -> Timers]
                        /\ m > 0 => l.pre[s[1]] \in dead \cup {Null}
BY DEF Good, Row

\* A connection that is renewed is due last of all, and unless that is a tie, pre
\* of the head is not stale or all others are due earlier.
LEMMA RenewedLast ==
    ASSUME TimerInv, NEW t \in Timers, Renewed(t)
    PROVE  /\ expire' \in [Timers -> Nat] /\ expire' \in [Timers -> 0..(MaxTime + Timeout)]
           /\ expire'[t] = now + Timeout
           /\ \A u \in Timers : u # t => expire'[u] = expire[u]
           /\ \A u \in Timers : expire'[u] <= now + Timeout
           /\ ~tied' => /\ ~tied
                        /\ list.head # Null /\ list.pre[list.head] # Null =>
                             \A u \in open : u # t => expire[u] < now + Timeout
<1>1. /\ now + Timeout \in 0..(MaxTime + Timeout) /\ now + Timeout \in Nat
      /\ expire \in [Timers -> Nat] /\ expire \in [Timers -> 0..(MaxTime + Timeout)]
      /\ \A u \in Timers : expire[u] <= now + Timeout
      /\ open \subseteq Timers
  BY Numbers DEF TimerInv
<1>2. expire' = [expire EXCEPT ![t] = now + Timeout]
  BY DEF Renewed
<1>3. /\ expire' \in [Timers -> Nat] /\ expire' \in [Timers -> 0..(MaxTime + Timeout)]
      /\ expire'[t] = now + Timeout
      /\ \A u \in Timers : u # t => expire'[u] = expire[u]
  BY <1>1, <1>2
<1>4. \A u \in Timers : expire'[u] <= now + Timeout
  BY <1>1, <1>3
<1>5. ~tied' => ~tied /\ ~(Stale /\ \E u \in open \ {t} : expire[u] = now + Timeout)
  BY DEF Renewed
<1>6. ASSUME ~(\E u \in open \ {t} : expire[u] = now + Timeout), NEW u \in open, u # t
      PROVE  expire[u] < now + Timeout
  <2>1. expire[u] # now + Timeout /\ expire[u] <= now + Timeout /\ expire[u] \in Nat
    BY <1>1, <1>6
  <2> QED BY <1>1, <2>1
<1> QED BY <1>3, <1>4, <1>5, <1>6 DEF Stale

\* A row whose links stay as they are.
LEMMA RowRests ==
    ASSUME NEW l, NEW s, NEW m, Row(l, s, m), NEW l2, l2.head = l.head, l2.tail = l.tail,
           \A i \in 1..m : l2.ne[s[i]] = l.ne[s[i]] /\ l2.pre[s[i]] = l.pre[s[i]]
    PROVE  Row(l2, s, m)
<1>1. m \in Nat /\ s \in [1..m -> Timers]
  BY DEF Row
<1>2. m > 0 => m \in 1..m
  BY <1>1
<1>3. ASSUME NEW i \in 1..(m - 1) PROVE l2.ne[s[i]] = s[i + 1] /\ l2.pre[s[i + 1]] = s[i]
  <2>1. i \in 1..m /\ i + 1 \in 1..m
    BY <1>1
  <2>2. l.ne[s[i]] = s[i + 1] /\ l.pre[s[i + 1]] = s[i]
    BY DEF Row
  <2> QED BY <2>1, <2>2
<1> QED BY <1>1, <1>2, <1>3 DEF Row

LEMMA AcceptedGood ==
    ASSUME TimerInv, NEW t \in Timers, Accepted(t), ~tied'
    PROVE  Good(list', expire', open', allocated' \ open')
<1> DEFINE l0 == [list EXCEPT !.ne[t] = Null, !.pre[t] = Null]
           dead == allocated \ open
<1>1. /\ t \notin allocated /\ Renewed(t)
      /\ allocated' = allocated \cup {t} /\ open' = open \cup {t}
      /\ list' = AddTimer(l0, expire', t)
  BY DEF Accepted
<1>2. open \subseteq allocated /\ allocated' \ open' = dead /\ t \notin open
  BY <1>1 DEF TimerInv
<1>3. /\ expire' \in [Timers -> Nat] /\ expire'[t] = now + Timeout
      /\ \A u \in Timers : u # t => expire'[u] = expire[u]
      /\ \A u \in Timers : expire'[u] <= now + Timeout
      /\ ~tied
      /\ list.head # Null /\ list.pre[list.head] # Null =>
             \A u \in open : u # t => expire[u] < now + Timeout
  BY <1>1, RenewedLast
<1>4. list \in Lists /\ Good(list, expire, open, dead)
  BY <1>3 DEF TimerInv, Good
<1>5. PICK s, m : /\ Row(list, s, m) /\ On(s, m) = open /\ Ascending(expire, s, m)
                  /\ m \in Nat /\ s \in [1..m -> Timers]
                  /\ m > 0 => list.pre[s[1]] \in dead \cup {Null}
  BY <1>4, GoodRow
<1>6. /\ l0 \in Lists /\ l0.head = list.head /\ l0.tail = list.tail
      /\ l0.ne = [list.ne EXCEPT ![t] = Null] /\ l0.pre = [list.pre EXCEPT ![t] = Null]
  BY <1>4 DEF Lists, Links
<1>7. list.ne \in [Timers -> Links] /\ list.pre \in [Timers -> Links]
  BY <1>4, ListIs
<1> HIDE DEF l0, dead
<1>8. \A i \in 1..m : s[i] \in open /\ s[i] # t /\ s[i] \in Timers
  BY <1>2, <1>5 DEF On
<1>9. \A i \in 1..m : l0.ne[s[i]] = list.ne[s[i]] /\ l0.pre[s[i]] = list.pre[s[i]]
  BY <1>6, <1>7, <1>8
<1>10. Row(l0, s, m)
  BY <1>5, <1>6, <1>9, RowRests
<1>11. Ascending(expire', s, m)
  BY <1>3, <1>5, <1>8 DEF Ascending
<1>12. \A i \in 1..m : expire'[s[i]] <= expire'[t]
  BY <1>3, <1>8
<1>13. m = 0 => l0.ne[t] = Null /\ l0.pre[t] = Null
  BY <1>6, <1>7
<1>14. m > 0 => /\ l0.pre[s[1]] = list.pre[s[1]]
                /\ l0.pre[s[1]] = Null \/ \A i \in 1..m : expire'[s[i]] < expire'[t]
  <2> SUFFICES ASSUME m > 0
               PROVE  /\ l0.pre[s[1]] = list.pre[s[1]]
                      /\ l0.pre[s[1]] = Null \/ \A i \in 1..m : expire'[s[i]] < expire'[t]
    OBVIOUS
  <2>1. 1 \in 1..m /\ list.head = s[1] /\ s[1] # Null
    <3>1. 1 \in 1..m /\ list.head = s[1]
      BY <1>5 DEF Row
    <3> QED BY <1>8, <3>1, TimerListAssumption
  <2>2. l0.pre[s[1]] = list.pre[s[1]]
    BY <1>9, <2>1
  <2>3. list.pre[s[1]] # Null => \A i \in 1..m : expire'[s[i]] < expire'[t]
    BY <1>3, <1>8, <2>1
  <2> QED BY <2>2, <2>3
<1>15. \A e : e = expire' => \E k \in 0..m : Added(AddTimer(l0, e, t), l0, s, m, e, t, k)
  <2> SUFFICES ASSUME NEW e, e = expire'
               PROVE  \E k \in 0..m : Added(AddTimer(l0, e, t), l0, s, m, e, t, k)
    OBVIOUS
  <2>1. /\ e \in [Timers -> Nat] /\ Ascending(e, s, m) /\ \A i \in 1..m : e[s[i]] <= e[t]
        /\ m > 0 => l0.pre[s[1]] = Null \/ \A i \in 1..m : e[s[i]] < e[t]
    BY <1>3, <1>11, <1>12, <1>14
  <2>2. t \notin On(s, m)
    BY <1>2, <1>5
  <2> QED BY <1>6, <1>10, <1>13, <2>1, <2>2, AddTimerAdds
<1>16. PICK k \in 0..m : Added(list', l0, s, m, expire', t, k)
  BY <1>1, <1>15 DEF l0
<1>17. m > 0 => l0.pre[s[1]] \in dead \cup {Null}
  BY <1>5, <1>14
<1>18. Good(list', expire', On(s, m) \cup {t}, dead)
  BY <1>10, <1>16, <1>17, AddedGood
<1> QED BY <1>1, <1>2, <1>5, <1>18

LEMMA AdjustedGood ==
    ASSUME TimerInv, NEW t \in Timers, Adjusted(t), ~tied'
    PROVE  Good(list', expire', open', allocated' \ open')
<1> DEFINE dead == allocated \ open
<1>1. /\ t \in open /\ Renewed(t) /\ UNCHANGED <<allocated, open>>
      /\ list' = AdjustTimer(list, expire', t)
  BY DEF Adjusted
<1>2. allocated' \ open' = dead
  BY <1>1
<1>3. /\ expire' \in [Timers -> Nat] /\ expire'[t] = now + Timeout
      /\ \A u \in Timers : u # t => expire'[u] = expire[u]
      /\ \A u \in Timers : expire'[u] <= now + Timeout
      /\ ~tied
      /\ list.head # Null /\ list.pre[list.head] # Null =>
             \A u \in open : u # t => expire[u] < now + Timeout
  BY <1>1, RenewedLast
<1>4. list \in Lists /\ Good(list, expire, open, dead) /\ expire \in [Timers -> Nat]
  BY <1>3, Numbers DEF TimerInv, Good
<1> HIDE DEF dead
<1>5. PICK s, m : /\ Row(list, s, m) /\ On(s, m) = open /\ Ascending(expire, s, m)
                  /\ m \in Nat /\ s \in [1..m -> Timers]
                  /\ m > 0 => list.pre[s[1]] \in dead \cup {Null}
  BY <1>4, GoodRow
<1>6. PICK j \in 1..m : t = s[j]
  BY <1>1, <1>5 DEF On
<1>7. \A i \in 1..m : s[i] \in open /\ s[i] \in Timers /\ (i # j => s[i] # t)
  BY <1>5, <1>6 DEF On, Row
<1>8. m > 0 /\ list.head = s[1] /\ s[1] # Null
  <2>1. m > 0 /\ 1 \in 1..m
    BY <1>5
  <2>2. list.head = s[1]
    BY <1>5, <2>1 DEF Row
  <2> QED BY <1>7, <2>1, <2>2, TimerListAssumption
<1>9. list.pre[s[1]] = Null \/ \A i \in 1..m : i # j => expire[s[i]] < now + Timeout
  BY <1>3, <1>7, <1>8
<1>10. \A e : e = expire' => Good(AdjustTimer(list, e, s[j]), e, On(s, m), dead)
  <2> SUFFICES ASSUME NEW e, e = expire' PROVE Good(AdjustTimer(list, e, s[j]), e, On(s, m), dead)
    OBVIOUS
  <2>1. /\ e \in [Timers -> Nat] /\ \A i \in 1..m : i # j => e[s[i]] = expire[s[i]]
        /\ \A i \in 1..m : e[s[i]] <= e[s[j]]
        /\ list.pre[s[1]] = Null \/ \A i \in 1..m : i # j => expire[s[i]] < e[s[j]]
    BY <1>3, <1>6, <1>7, <1>9
  <2> QED BY <1>4, <1>5, <1>8, <2>1, AdjustGood
<1> QED BY <1>1, <1>2, <1>5, <1>6, <1>10

LEMMA EndedGood ==
    ASSUME TimerInv, NEW t \in Timers, Ended(t), ~tied
    PROVE  Good(list', expire', open', allocated' \ open')
<1> DEFINE dead == allocated \ open
<1>1. /\ t \in open /\ open' = open \ {t} /\ UNCHANGED expire
      /\ list' = DelTimer(list, t)
      /\ allocated' = IF t \in Chain(list) THEN allocated \ {t} ELSE allocated
  BY DEF Ended
<1>2. list \in Lists /\ Good(list, expire, open, dead) /\ expire \in [Timers -> Nat]
  BY Numbers DEF TimerInv, Good
<1>3. PICK s, m : /\ Row(list, s, m) /\ On(s, m) = open /\ Ascending(expire, s, m)
                  /\ m \in Nat /\ s \in [1..m -> Timers]
                  /\ m > 0 => list.pre[s[1]] \in dead \cup {Null}
  BY <1>2, GoodRow
<1>4. Chain(list) = open
  BY <1>3, WayIs
<1>5. allocated' \ open' = dead
  BY <1>1, <1>4
<1> HIDE DEF dead
<1>6. PICK j \in 1..m : t = s[j]
  BY <1>1, <1>3 DEF On
<1>7. Good(DelTimer(list, s[j]), expire, On(s, m) \ {s[j]}, dead)
  <2>1. m > 0
    BY <1>3
  <2> QED BY <1>2, <1>3, <2>1, DelGood
<1> QED BY <1>1, <1>3, <1>5, <1>6, <1>7

LEMMA TickGood ==
    ASSUME TimerInv, Tick, ~tied
    PROVE  /\ Good(list', expire', open', allocated' \ open')
           /\ open' = {t \in open : expire[t] > now}
<1> DEFINE node == Nodes(list)
           stops == {n \in DOMAIN node : node[n] = Null \/ ~Due(node[n])}
           dead == allocated \ open
<1>1. /\ list.head # Null /\ UNCHANGED <<expire, allocated>>
      /\ open' = open \ {node[n] : n \in 0..(Min(stops) - 1)}
      /\ list' = [list EXCEPT !.head = node[Min(stops)]]
  BY DEF Tick
<1>2. /\ list \in Lists /\ Good(list, expire, open, dead) /\ expire \in [Timers -> Nat]
      /\ now \in Nat /\ open \subseteq allocated
  BY Numbers DEF TimerInv, Good
<1> HIDE DEF dead
<1>3. PICK s, m : /\ Row(list, s, m) /\ On(s, m) = open /\ Ascending(expire, s, m)
                  /\ m \in Nat /\ s \in [1..m -> Timers]
                  /\ m > 0 => list.pre[s[1]] \in dead \cup {Null}
  BY <1>2, GoodRow
<1>4. m > 0 /\ list.head = s[1]
  BY <1>1, <1>3 DEF Row
<1>5. /\ DOMAIN node \subseteq Nat /\ 0..m \subseteq DOMAIN node
      /\ \A n \in DOMAIN node : n < m => node[n] = s[n + 1]
      /\ \A n \in DOMAIN node : n >= m => node[n] = Null
  BY <1>3, WayIs, Zenon
<1> HIDE DEF node
<1>6. stops = {n \in DOMAIN node : node[n] = Null \/ now + 1 <= expire[node[n]]}
  <2>1. ASSUME NEW n \in DOMAIN node, node[n] # Null PROVE ~Due(node[n]) <=> now + 1 <= expire[node[n]]
    <3>1. n \in Nat /\ n < m
      BY <1>3, <1>5, <2>1
    <3>2. n + 1 \in 1..m /\ node[n] = s[n + 1]
      BY <1>3, <1>5, <3>1
    <3>3. expire[node[n]] \in Nat
      BY <1>2, <1>3, <3>2
    <3> QED BY <1>2, <3>3 DEF Due
  <2> QED BY <2>1
<1>7. \A e \in Nat : Behind(list, s, m, expire, e,
                            Min({n \in DOMAIN node : node[n] = Null \/ e <= expire[node[n]]}))
  BY <1>2, <1>3, StopIs DEF node
<1>8. Behind(list, s, m, expire, now + 1, Min(stops))
  <2>1. now + 1 \in Nat
    BY <1>2
  <2>2. Behind(list, s, m, expire, now + 1,
               Min({n \in DOMAIN node : node[n] = Null \/ now + 1 <= expire[node[n]]}))
    BY <1>7, <2>1
  <2> HIDE DEF stops
  <2> QED BY <1>6, <2>2
<1> HIDE DEF stops
<1>9. PICK k \in 0..m : /\ k = Min(stops)
                        /\ node[k] = IF k = m THEN Null ELSE s[k + 1]
                        /\ \A i \in 1..k : expire[s[i]] < now + 1
                        /\ k < m => now + 1 <= expire[s[k + 1]]
  BY <1>8 DEF Behind, node
<1>10. {node[n] : n \in 0..(k - 1)} = {s[i] : i \in 1..k}
  <2>1. ASSUME NEW n \in 0..(k - 1) PROVE n + 1 \in 1..k /\ node[n] = s[n + 1]
    <3>1. n \in 0..m /\ n < m /\ n + 1 \in 1..k
      BY <1>3
    <3> QED BY <1>5, <3>1
  <2>2. ASSUME NEW i \in 1..k PROVE \E n \in 0..(k - 1) : s[i] = node[n]
    <3>1. PICK n \in 0..(k - 1) : n + 1 = i
      <4>1. i - 1 \in 0..(k - 1) /\ (i - 1) + 1 = i
        BY <1>3
      <4> QED BY <4>1
    <3> QED BY <2>1, <3>1
  <2>3. {node[n] : n \in 0..(k - 1)} \subseteq {s[i] : i \in 1..k}
    BY <2>1
  <2>4. {s[i] : i \in 1..k} \subseteq {node[n] : n \in 0..(k - 1)}
    BY <2>2
  <2> QED BY <2>3, <2>4
<1>11. open' = open \ {s[i] : i \in 1..k} /\ list' = [list EXCEPT !.head = node[k]]
  BY <1>1, <1>9, <1>10
<1>12. ASSUME NEW i \in 1..m
       PROVE  /\ s[i] \in open /\ expire[s[i]] \in Nat
              /\ i <= k => s[i] \notin open' /\ ~(expire[s[i]] > now)
              /\ ~(i <= k) => s[i] \in open' /\ expire[s[i]] > now
  <2>1. s[i] \in open /\ s[i] \in Timers /\ expire[s[i]] \in Nat
    BY <1>2, <1>3 DEF On
  <2>2. CASE i <= k
    <3>1. i \in 1..k /\ expire[s[i]] < now + 1
      BY <1>9, <2>2
    <3> QED BY <1>2, <1>11, <2>1, <2>2, <3>1
  <2>3. CASE ~(i <= k)
    <3>1. k < m /\ k + 1 \in 1..m /\ k + 1 <= i
      BY <1>3, <2>3
    <3>2. now + 1 <= expire[s[k + 1]] /\ expire[s[k + 1]] <= expire[s[i]]
      BY <1>3, <1>9, <3>1 DEF Ascending
    <3>3. expire[s[k + 1]] \in Nat
      BY <1>2, <1>3, <3>1
    <3>4. expire[s[i]] > now
      BY <1>2, <2>1, <3>2, <3>3
    <3>5. \A x, y \in 1..m : s[x] = s[y] => x = y
      BY <1>3 DEF Row
    <3>6. \A x \in 1..k : x \in 1..m /\ x # i
      BY <1>3, <2>3
    <3>7. s[i] \notin {s[x] : x \in 1..k}
      BY <3>5, <3>6
    <3> QED BY <1>11, <2>1, <2>3, <3>4, <3>7
  <2> QED BY <2>1, <2>2, <2>3
<1>13. open' = {t \in open : expire[t] > now}
  <2>1. \A t \in open : \E i \in 1..m : t = s[i]
    BY <1>3 DEF On
  <2>2. open' \subseteq open
    BY <1>11
  <2> QED BY <1>12, <2>1, <2>2
<1>14. open' = {s[i] : i \in (k + 1)..m}
  <2>1. ASSUME NEW t \in open' PROVE \E i \in (k + 1)..m : t = s[i]
    <3>1. PICK i \in 1..m : t = s[i]
      BY <1>3, <1>11 DEF On
    <3>2. ~(i <= k)
      BY <1>12, <3>1
    <3>3. i \in (k + 1)..m
      BY <1>3, <3>2
    <3> QED BY <3>1, <3>3
  <2>2. ASSUME NEW i \in (k + 1)..m PROVE s[i] \in open'
    <3>1. i \in 1..m /\ ~(i <= k)
      BY <1>3
    <3> QED BY <1>12, <3>1
  <2> QED BY <2>1, <2>2
<1>15. PICK h : h = node[k]
  OBVIOUS
<1>16. h \in Links
  <2>1. k # m => k + 1 \in 1..m
    BY <1>3
  <2> QED BY <1>3, <1>9, <1>15, <2>1 DEF Links
<1>17. /\ list' \in Lists /\ list'.head = h /\ list'.tail = list.tail
       /\ list'.ne = list.ne /\ list'.pre = list.pre
  <2>1. list' = [list EXCEPT !.head = h]
    BY <1>11, <1>15
  <2> QED BY <1>2, <1>16, <2>1 DEF Lists
<1>18. \A l2 : l2 = list' =>
          /\ IsDrop(Drop(s, m, k), s, m, k)
          /\ Row(l2, Drop(s, m, k), m - k)
          /\ On(Drop(s, m, k), m - k) = {s[i] : i \in (k + 1)..m}
  <2> SUFFICES ASSUME NEW l2, l2 = list'
               PROVE  /\ IsDrop(Drop(s, m, k), s, m, k)
                      /\ Row(l2, Drop(s, m, k), m - k)
                      /\ On(Drop(s, m, k), m - k) = {s[i] : i \in (k + 1)..m}
    OBVIOUS
  <2>1. l2.ne = list.ne /\ l2.pre = list.pre /\ l2.tail = list.tail
    BY <1>17
  <2>2. (k = m => l2.head = Null) /\ (k < m => l2.head = s[k + 1])
    BY <1>3, <1>9, <1>15, <1>17
  <2> QED BY <1>3, <2>1, <2>2, RowDrop
<1> DEFINE p == Drop(s, m, k)
<1> HIDE DEF p
<1>19. IsDrop(p, s, m, k) /\ Row(list', p, m - k) /\ On(p, m - k) = open'
  BY <1>14, <1>18 DEF p
<1>20. Ascending(expire, p, m - k)
  BY <1>3, <1>19, AscendingDrop
<1>21. m - k > 0 => list'.pre[p[1]] \in (allocated \ open') \cup {Null}
  <2> SUFFICES ASSUME m - k > 0 PROVE list'.pre[p[1]] \in (allocated \ open') \cup {Null}
    OBVIOUS
  <2>1. 1 \in 1..(m - k) /\ 1 + k = k + 1 /\ k < m /\ k + 1 \in 1..m
    BY <1>3
  <2>2. p[1] = s[k + 1]
    BY <1>19, <2>1 DEF IsDrop
  <2>3. CASE k = 0
    <3>1. list.pre[s[1]] \in dead \cup {Null} /\ p[1] = s[1]
      BY <1>3, <1>4, <2>2, <2>3
    <3> QED BY <1>11, <1>17, <3>1 DEF dead
  <2>4. CASE k # 0
    <3>1. k \in 1..(m - 1) /\ k \in 1..m /\ k <= k
      BY <1>3, <2>1, <2>4
    <3>2. list.pre[s[k + 1]] = s[k]
      BY <1>3, <3>1 DEF Row
    <3>3. s[k] \in open /\ s[k] \notin open'
      BY <1>12, <3>1
    <3> QED BY <1>2, <1>17, <2>2, <3>2, <3>3
  <2> QED BY <2>3, <2>4
<1>22. Good(list', expire, open', allocated \ open')
  BY <1>17, <1>19, <1>20, <1>21 DEF Good
<1> QED BY <1>1, <1>13, <1>22

-----------------------------------------------------------------------------
(* The invariant.                                                          *)

LEMMA TimerStart == TimerInit => TimerInv
<1> SUFFICES ASSUME TimerInit PROVE TimerInv
  OBVIOUS
<1>1. /\ list = [head |-> Null, tail |-> Null,
                 ne |-> [t \in Timers |-> Null], pre |-> [t \in Timers |-> Null]]
      /\ expire = [t \in Timers |-> 0] /\ allocated = {} /\ open = {} /\ now = 0
  BY DEF TimerInit
<1>2. MaxTime \in Nat /\ Timeout \in Nat
  BY TimerListAssumption
<1>3. 0 \in 0..MaxTime /\ 0 \in 0..(MaxTime + Timeout) /\ 0 <= 0 + Timeout
  BY <1>2
<1>4. list \in Lists /\ list.head = Null
  BY <1>1 DEF Lists, Links
<1>5. PICK s : s \in [1..0 -> Timers]
  <2>1. 1..0 = {}
    OBVIOUS
  <2>2. [i \in 1..0 |-> Null] \in [1..0 -> Timers]
    BY <2>1
  <2> QED BY <2>2
<1>6. Row(list, s, 0) /\ On(s, 0) = {} /\ Ascending(expire, s, 0)
  <2>1. 1..0 = {} /\ 1..(0 - 1) = {} /\ 0 \in Nat /\ ~(0 > 0)
    OBVIOUS
  <2>2. Row(list, s, 0)
    BY <1>4, <1>5, <2>1 DEF Row
  <2>3. On(s, 0) = {} /\ Ascending(expire, s, 0)
    BY <2>1 DEF On, Ascending
  <2> QED BY <2>2, <2>3
<1>7. Good(list, expire, open, allocated \ open)
  BY <1>1, <1>4, <1>6 DEF Good
<1>8. expire \in [Timers -> 0..(MaxTime + Timeout)] /\ \A t \in Timers : expire[t] <= now + Timeout
  BY <1>1, <1>3
<1> QED BY <1>1, <1>3, <1>7, <1>8 DEF TimerInv

LEMMA AcceptedKeeps ==
    ASSUME TimerInv, NEW t \in Timers, Accepted(t)
    PROVE  TimerInv'
<1>1. /\ Renewed(t) /\ allocated' = allocated \cup {t} /\ open' = open \cup {t} /\ now' = now
  BY DEF Accepted
<1>2. open' \subseteq allocated' /\ allocated' \subseteq Timers /\ now' \in 0..MaxTime
  BY <1>1 DEF TimerInv
<1>3. /\ expire' \in [Timers -> 0..(MaxTime + Timeout)]
      /\ \A u \in Timers : expire'[u] <= now + Timeout
  BY <1>1, RenewedLast
<1>4. ~tied' => Good(list', expire', open', allocated' \ open')
  BY AcceptedGood
<1> QED BY <1>1, <1>2, <1>3, <1>4 DEF TimerInv

LEMMA AdjustedKeeps ==
    ASSUME TimerInv, NEW t \in Timers, Adjusted(t)
    PROVE  TimerInv'
<1>1. Renewed(t) /\ UNCHANGED <<allocated, open, now>>
  BY DEF Adjusted
<1>2. open' \subseteq allocated' /\ allocated' \subseteq Timers /\ now' \in 0..MaxTime
  BY <1>1 DEF TimerInv
<1>3. /\ expire' \in [Timers -> 0..(MaxTime + Timeout)]
      /\ \A u \in Timers : expire'[u] <= now + Timeout
  BY <1>1, RenewedLast
<1>4. ~tied' => Good(list', expire', open', allocated' \ open')
  BY AdjustedGood
<1> QED BY <1>1, <1>2, <1>3, <1>4 DEF TimerInv

LEMMA EndedKeeps ==
    ASSUME TimerInv, NEW t \in Timers, Ended(t)
    PROVE  TimerInv'
<1>1. /\ open' = open \ {t} /\ UNCHANGED <<expire, now, tied>>
      /\ allocated' = allocated \ {t} \/ allocated' = allocated
  BY DEF Ended
<1>2. open' \subseteq allocated' /\ allocated' \subseteq Timers
  BY <1>1 DEF TimerInv
<1>3. ~tied' => Good(list', expire', open', allocated' \ open')
  BY <1>1, EndedGood
<1> QED BY <1>1, <1>2, <1>3 DEF TimerInv

LEMMA TickKeeps ==
    ASSUME TimerInv, Tick
    PROVE  TimerInv'
<1>1. open' \subseteq open /\ UNCHANGED <<expire, allocated, now, tied>>
  BY DEF Tick
<1>2. ~tied' => Good(list', expire', open', allocated' \ open')
  BY <1>1, TickGood
<1> QED BY <1>1, <1>2 DEF TimerInv

LEMMA ClockKeeps ==
    ASSUME TimerInv, Clock
    PROVE  TimerInv'
<1>1. now < MaxTime /\ now' = now + 1 /\ UNCHANGED <<list, expire, allocated, open, tied>>
  BY DEF Clock
<1>2. now \in Nat /\ MaxTime \in Nat /\ Timeout \in Nat /\ expire \in [Timers -> Nat]
  BY Numbers
<1>3. now' \in 0..MaxTime
  BY <1>1, <1>2
<1>4. ASSUME NEW t \in Timers PROVE expire[t] <= (now + 1) + Timeout
  <2>1. expire[t] <= now + Timeout /\ expire[t] \in Nat
    BY <1>2 DEF TimerInv
  <2> QED BY <1>2, <2>1
<1> QED BY <1>1, <1>3, <1>4 DEF TimerInv

LEMMA TimerStep == TimerInv /\ [TimerNext]_timerVars => TimerInv'
<1> SUFFICES ASSUME TimerInv, [TimerNext]_timerVars PROVE TimerInv'
  OBVIOUS
<1>1. ASSUME NEW t \in Timers, Accepted(t) PROVE TimerInv'
  BY <1>1, AcceptedKeeps
<1>2. ASSUME NEW t \in Timers, Adjusted(t) PROVE TimerInv'
  BY <1>2, AdjustedKeeps
<1>3. ASSUME NEW t \in Timers, Ended(t) PROVE TimerInv'
  BY <1>3, EndedKeeps
<1>4. CASE Tick
  BY <1>4, TickKeeps
<1>5. CASE Clock
  BY <1>5, ClockKeeps
<1>6. CASE UNCHANGED timerVars
  BY <1>6 DEF TimerInv, timerVars
<1> QED BY <1>1, <1>2, <1>3, <1>4, <1>5, <1>6 DEF TimerNext

LEMMA TimerHolds == TimerSpec => []TimerInv
BY TimerStart, TimerStep, PTL DEF TimerSpec

\* A row of the open connections is linked in both directions.
LEMMA RowLinked ==
    ASSUME TimerInv, ~tied
    PROVE  Linked
<1>1. Good(list, expire, open, allocated \ open) /\ expire \in [Timers -> Nat]
  BY Numbers DEF TimerInv
<1>2. PICK s, m : /\ Row(list, s, m) /\ On(s, m) = open /\ Ascending(expire, s, m)
                  /\ m \in Nat /\ s \in [1..m -> Timers]
                  /\ m > 0 => list.pre[s[1]] \in (allocated \ open) \cup {Null}
  BY <1>1, GoodRow
<1>3. Chain(list) = open
  BY <1>2, WayIs
<1>4. ASSUME NEW t \in open
      PROVE  /\ list.ne[t] # Null => /\ expire[t] <= expire[list.ne[t]]
                                     /\ list.pre[list.ne[t]] = t
             /\ list.ne[t] = Null <=> list.tail = t
  <2>1. PICK j \in 1..m : t = s[j]
    BY <1>2 DEF On
  <2>2. CASE j = m
    <3>1. m > 0 /\ list.tail = s[m] /\ list.ne[s[m]] = Null
      BY <1>2, <2>2 DEF Row
    <3> QED BY <2>1, <2>2, <3>1
  <2>3. CASE j # m
    <3>1. j \in 1..(m - 1) /\ j + 1 \in 1..m /\ j <= j + 1 /\ m \in 1..m /\ m > 0
      BY <1>2, <2>3
    <3>2. list.ne[s[j]] = s[j + 1] /\ list.pre[s[j + 1]] = s[j] /\ list.tail = s[m] /\ s[m] # s[j]
      BY <1>2, <2>3, <3>1 DEF Row
    <3>3. expire[s[j]] <= expire[s[j + 1]]
      BY <1>2, <3>1 DEF Ascending
    <3>4. s[j + 1] # Null
      BY <1>2, <3>1, TimerListAssumption
    <3> QED BY <2>1, <3>2, <3>3, <3>4
  <2> QED BY <2>2, <2>3
<1>5. list.head # Null => list.pre[list.head] \in (allocated \ open) \cup {Null}
  <2>1. list.head # Null => m > 0 /\ list.head = s[1]
    BY <1>2 DEF Row
  <2> QED BY <1>2, <2>1
<1> QED BY <1>3, <1>4, <1>5 DEF Linked

LEMMA InvLinked == TimerInv => TimersLinked
<1> SUFFICES ASSUME TimerInv PROVE TimersLinked
  OBVIOUS
<1>1. TimerTypeOK
  BY DEF TimerInv, TimerTypeOK
<1>2. ~tied => ListTypeOK
  BY DEF TimerInv, Good, ListTypeOK, Lists, Links
<1> QED BY <1>1, <1>2, RowLinked DEF TimersLinked

\* The list holds exactly the open connections, linked in both directions in the
\* order in which they are due, whatever was accepted, renewed, hung up and closed
\* by ticks before (add_timer, adjust_timer, del_timer, tick).
THEOREM TimersStayLinked == TimerSpec => []TimersLinked
BY TimerHolds, InvLinked, PTL

-----------------------------------------------------------------------------
(* The list implements the promise of IdleTimers.                          *)

LEMMA PromiseStart == TimerInit => Promise!IdleInit
<1> SUFFICES ASSUME TimerInit PROVE Promise!IdleInit
  OBVIOUS
<1>1. open = {} /\ now = 0
  BY DEF TimerInit
<1>2. [t \in open |-> expire[t]] = <<>>
  BY <1>1
<1> QED BY <1>1, <1>2 DEF Promise!IdleInit

\* Accepted and Adjusted are activity of the connection.
LEMMA RenewedIsActive ==
    ASSUME TimerInv, NEW t \in Timers, Renewed(t), open' = open \cup {t}, now' = now
    PROVE  Promise!Active(t)
<1> DEFINE due == [u \in open |-> expire[u]]
<1>1. /\ expire'[t] = now + Timeout
      /\ \A u \in Timers : u # t => expire'[u] = expire[u]
      /\ open \subseteq Timers
  BY RenewedLast DEF TimerInv
<1>2. [u \in open' |-> expire'[u]] =
          [u \in open \cup {t} |-> IF u = t THEN now + Timeout ELSE due[u]]
  BY <1>1
<1>3. DOMAIN due = open
  OBVIOUS
<1> QED BY <1>2, <1>3 DEF Promise!Active

LEMMA EndedIsClosed ==
    ASSUME NEW t \in Timers, Ended(t)
    PROVE  Promise!Closed(t)
<1> DEFINE due == [u \in open |-> expire[u]]
<1>1. t \in open /\ open' = open \ {t} /\ expire' = expire /\ now' = now
  BY DEF Ended
<1>2. [u \in open' |-> expire'[u]] = [u \in open \ {t} |-> due[u]]
  BY <1>1
<1>3. DOMAIN due = open
  OBVIOUS
<1> QED BY <1>1, <1>2, <1>3 DEF Promise!Closed, Promise!Restrict

LEMMA TickIsExpire ==
    ASSUME TimerInv, Tick, ~tied
    PROVE  Promise!Expire
<1> DEFINE due == [u \in open |-> expire[u]]
<1>1. open' = {t \in open : expire[t] > now} /\ expire' = expire /\ now' = now
  BY TickGood DEF Tick
<1>2. DOMAIN due = open /\ {c \in open : due[c] > now} = open'
  BY <1>1
<1>3. [u \in open' |-> expire'[u]] = [u \in open' |-> due[u]]
  BY <1>1
<1> QED BY <1>1, <1>2, <1>3 DEF Promise!Expire, Promise!Restrict

LEMMA PromiseStep ==
    ASSUME TimerInv, [TimerNext]_timerVars, ~tied
    PROVE  [Promise!IdleNext]_(Promise!idleVars)
<1>1. ASSUME NEW t \in Timers, Accepted(t) PROVE Promise!IdleNext
  <2>1. Promise!Active(t)
    BY <1>1, RenewedIsActive DEF Accepted
  <2> QED BY <2>1 DEF Promise!IdleNext
<1>2. ASSUME NEW t \in Timers, Adjusted(t) PROVE Promise!IdleNext
  <2>1. open' = open \cup {t} /\ now' = now /\ Renewed(t)
    BY <1>2 DEF Adjusted
  <2>2. Promise!Active(t)
    BY <2>1, RenewedIsActive
  <2> QED BY <2>2 DEF Promise!IdleNext
<1>3. ASSUME NEW t \in Timers, Ended(t) PROVE Promise!IdleNext
  <2>1. Promise!Closed(t)
    BY <1>3, EndedIsClosed
  <2> QED BY <2>1 DEF Promise!IdleNext
<1>4. CASE Tick
  BY <1>4, TickIsExpire DEF Promise!IdleNext
<1>5. CASE Clock
  <2>1. now' = now + 1 /\ expire' = expire /\ open' = open /\ now \in Nat
    BY <1>5, Numbers DEF Clock
  <2>2. now' > now
    BY <2>1
  <2> QED BY <2>1, <2>2 DEF Promise!IdleNext, Promise!TimePasses
<1>6. CASE UNCHANGED timerVars
  BY <1>6 DEF timerVars, Promise!idleVars
<1> QED BY <1>1, <1>2, <1>3, <1>4, <1>5, <1>6 DEF TimerNext

\* Activity puts a connection off, and a tick closes those that are due, all of
\* them and no other, after any history of activity, hang-ups and earlier ticks
\* (main.cpp:60-73).
THEOREM TimersKept == TimerSpec => TimersKeepPromise
<1>1. TimerInv /\ [TimerNext]_timerVars =>
          [~tied => Promise!IdleNext \/ UNCHANGED Promise!idleVars]_timerVars
  BY PromiseStep
<1> QED BY <1>1, PromiseStart, TimerHolds, PTL DEF TimerSpec, TimersKeepPromise

=============================================================================
