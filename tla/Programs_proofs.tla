---------------------------- MODULE Programs_proofs ----------------------------
(***************************************************************************)
(* Proofs about the two programs of one thread, which have nothing else in *)
(* common.                                                                 *)
(*                                                                         *)
(* Reactor, for any descriptors, table size, buffer length and bytes: the  *)
(* table of events and the registrations of epoll agree, an event that     *)
(* waits in a batch is never stale, only clients end the process, and they *)
(* get back what they sent.                                                *)
(*                                                                         *)
(* Sudoku, on grids of any size: undo restores what was there, after any   *)
(* number of moves, undos, saves and loads.                                *)
(***************************************************************************)
EXTENDS Reactor, Sudoku, SequenceTheorems, WellFoundedInduction, TLAPS

Entries == [st : {0, 1}, fd : Sockets \cup {None}, events : {"IN", "OUT", "none"},
            handler : {"acceptConn", "recvMsg", "sendMsg", "none"},
            buf : Seq(ByteValues), len : Nat]

\* A descriptor nobody has accepted a client on is not registered.
Strangers == \A f \in Fds : peer[f] \in {"absent", "waiting"} => ~Registered(f)

\* Only the listener accepts.
Roles == \A i \in Slots : my_events[i].st = 1 =>
            (my_events[i].handler = "acceptConn" <=> my_events[i].fd = Listener)

\* What an entry is to write is in its buffer.
Lengths == \A i \in Slots : my_events[i].len <= Len(my_events[i].buf)

IInv == TableIsTree /\ EntriesCurrent /\ Strangers /\ Roles /\ Lengths

\* The part of IInv about the table, the registrations and the batch.
TableInv ==
    /\ my_events \in [Slots -> Entries]
    /\ tree \in [Sockets -> Registration \cup {NotRegistered}]
    /\ batch \subseteq [fd : Sockets, ptr : Slots, events : {"IN", "OUT"}]
    /\ \A s \in Sockets : Registered(s) =>
        /\ my_events[tree[s].ptr].st = 1
        /\ my_events[tree[s].ptr].fd = s
        /\ my_events[tree[s].ptr].events = tree[s].events
    /\ \A i \in Slots : my_events[i].st = 1 =>
        /\ my_events[i].fd \in Sockets
        /\ Registered(my_events[i].fd)
        /\ tree[my_events[i].fd].ptr = i
    /\ EntriesCurrent /\ Roles /\ Lengths

\* The part about the clients.
ClientsOK ==
    /\ running \in BOOLEAN
    /\ peer \in [Fds -> {"absent", "waiting", "open", "finished", "broken"}]
    /\ pending \in [Fds -> Seq(ByteValues)]
    /\ room \in [Fds -> 0..SendRoom]
    /\ sent \in [Fds -> Seq(ByteValues)]
    /\ got \in [Fds -> Seq(ByteValues)]
    /\ lossy \subseteq Fds

\* The two parts and the strangers are all of it.
LEMMA Parts == IInv <=> TableInv /\ ClientsOK /\ Strangers
  BY DEF IInv, TableInv, ClientsOK, TableIsTree, ReactorTypeOK, Entries

LEMMA PartsNext == IInv' <=> TableInv' /\ ClientsOK' /\ Strangers'
  BY DEF IInv, TableInv, ClientsOK, TableIsTree, ReactorTypeOK, Entries

-----------------------------------------------------------------------------

\* What a write takes ends within the buffer, for a buffer of any bytes.
LEMMA StrLenBound ==
    ASSUME NEW s \in Seq(ByteValues)
    PROVE  StrLen(s) \in 0..Len(s)
  <1> DEFINE T == {n \in 0..Len(s) : n = Len(s) \/ s[n + 1] = "nul"}
             R == OpToRel(<, Nat)
  <1>1. T \subseteq Nat /\ Len(s) \in T
    OBVIOUS
  <1>2. IsWellFoundedOn(R, Nat)
    BY NatLessThanWellFounded
  <1>3. PICK n \in T : \A y \in T : ~(<<y, n>> \in R)
    <2> HIDE DEF T, R
    <2> QED BY <1>1, <1>2, WFMin
  <1>4. \A y \in T : ~(y < n)
    BY <1>1, <1>3 DEF OpToRel
  <1>5. ASSUME NEW i \in 1..n
        PROVE  s[i] # "nul"
    <2>1. i - 1 \in 0..Len(s) /\ i - 1 < n /\ (i - 1) + 1 = i
      OBVIOUS
    <2>2. i - 1 \notin T
      BY <1>4, <2>1
    <2> QED BY <2>1, <2>2
  <1> QED BY <1>3, <1>5 DEF StrLen

-----------------------------------------------------------------------------
(***************************************************************************)
(* What the handlers do to the table.                                      *)
(***************************************************************************)

\* An entry is given to a descriptor that had none, or stays with its own.
LEMMA Installed ==
    ASSUME TableInv, NEW i \in Slots, NEW f \in Fds,
           NEW m \in Entries, NEW r \in Registration,
           m.st = 1, m.fd = f, m.handler # "acceptConn", m.len <= Len(m.buf),
           r.ptr = i, r.events = m.events,
           \/ my_events[i].st = 0 /\ ~Registered(f)
           \/ my_events[i].st = 1 /\ my_events[i].fd = f,
           my_events' = [my_events EXCEPT ![i] = m],
           tree' = [tree EXCEPT ![f] = r],
           batch' \subseteq batch, \A e \in batch' : e.fd # f
    PROVE  TableInv'
  <1>1. f # Listener /\ f \in Sockets
    BY ReactorAssumption DEF Sockets
  <1>2. /\ my_events' \in [Slots -> Entries]
        /\ my_events'[i] = m
        /\ \A j \in Slots \ {i} : my_events'[j] = my_events[j]
    BY DEF TableInv
  <1>3. /\ tree' \in [Sockets -> Registration \cup {NotRegistered}]
        /\ tree'[f] = r
        /\ \A s \in Sockets \ {f} : tree'[s] = tree[s]
    BY <1>1 DEF TableInv
  <1>4. r # NotRegistered
    BY DEF Registration, NotRegistered
  <1>5. \A s \in Sockets : tree[s] # NotRegistered => tree[s].ptr \in Slots
    BY DEF TableInv, Registration
  <1>6. \A s \in Sockets \ {f} : tree[s] # NotRegistered => tree[s].ptr # i
    BY <1>1, <1>5 DEF TableInv, Registered
  <1>7. ASSUME NEW s \in Sockets, tree'[s] # NotRegistered
        PROVE  /\ my_events'[tree'[s].ptr].st = 1
               /\ my_events'[tree'[s].ptr].fd = s
               /\ my_events'[tree'[s].ptr].events = tree'[s].events
    <2>1. CASE s = f
      BY <2>1, <1>2, <1>3
    <2>2. CASE s # f
      BY <2>2, <1>2, <1>3, <1>5, <1>6, <1>7 DEF TableInv, Registered
    <2> QED BY <2>1, <2>2
  <1>8. ASSUME NEW j \in Slots, my_events'[j].st = 1
        PROVE  /\ my_events'[j].fd \in Sockets
               /\ tree'[my_events'[j].fd] # NotRegistered
               /\ tree'[my_events'[j].fd].ptr = j
    <2>1. CASE j = i
      BY <2>1, <1>1, <1>2, <1>3, <1>4
    <2>2. CASE j # i
      <3>1. my_events[j].fd # f
        BY <2>2, <1>2, <1>8 DEF TableInv, Registered
      <3> QED BY <3>1, <2>2, <1>2, <1>3, <1>8 DEF TableInv, Registered
    <2> QED BY <2>1, <2>2
  <1>9. ASSUME NEW e \in batch'
        PROVE  /\ tree'[e.fd] # NotRegistered
               /\ tree'[e.fd].ptr = e.ptr
               /\ my_events'[e.ptr].fd = e.fd
               /\ my_events'[e.ptr].events = e.events
    <2>1. e \in batch /\ e.fd \in Sockets \ {f} /\ e.ptr \in Slots
      BY DEF TableInv
    <2>2. e.ptr # i
      BY <2>1, <1>6 DEF TableInv, EntriesCurrent, Registered
    <2> QED BY <2>1, <2>2, <1>2, <1>3 DEF TableInv, EntriesCurrent, Registered
  <1>10. \A j \in Slots : my_events'[j].st = 1 =>
            (my_events'[j].handler = "acceptConn" <=> my_events'[j].fd = Listener)
    BY <1>1, <1>2 DEF TableInv, Roles
  <1>11. \A j \in Slots : my_events'[j].len <= Len(my_events'[j].buf)
    BY <1>2 DEF TableInv, Lengths
  <1>12. batch' \subseteq [fd : Sockets, ptr : Slots, events : {"IN", "OUT"}]
    BY DEF TableInv
  <1> QED
    BY <1>2, <1>3, <1>7, <1>8, <1>9, <1>10, <1>11, <1>12
       DEF TableInv, Registered, EntriesCurrent, Roles, Lengths

\* An entry and its registration are given up.
LEMMA Cleared ==
    ASSUME TableInv, NEW i \in Slots, NEW f \in Fds,
           my_events[i].st = 1, my_events[i].fd = f,
           my_events' = [my_events EXCEPT ![i] = Unused],
           tree' = [tree EXCEPT ![f] = NotRegistered],
           batch' \subseteq batch, \A e \in batch' : e.fd # f
    PROVE  TableInv'
  <1>1. f # Listener /\ f \in Sockets
    BY ReactorAssumption DEF Sockets
  <1>2. Unused \in Entries /\ Unused.st = 0 /\ Unused.len <= Len(Unused.buf)
    BY DEF Unused, Entries
  <1>3. /\ my_events' \in [Slots -> Entries]
        /\ my_events'[i] = Unused
        /\ \A j \in Slots \ {i} : my_events'[j] = my_events[j]
    BY <1>2 DEF TableInv
  <1>4. /\ tree' \in [Sockets -> Registration \cup {NotRegistered}]
        /\ tree'[f] = NotRegistered
        /\ \A s \in Sockets \ {f} : tree'[s] = tree[s]
    BY <1>1 DEF TableInv
  <1>5. \A s \in Sockets : tree[s] # NotRegistered => tree[s].ptr \in Slots
    BY DEF TableInv, Registration
  <1>6. \A s \in Sockets \ {f} : tree[s] # NotRegistered => tree[s].ptr # i
    BY <1>1, <1>5 DEF TableInv, Registered
  <1>7. ASSUME NEW s \in Sockets, tree'[s] # NotRegistered
        PROVE  /\ my_events'[tree'[s].ptr].st = 1
               /\ my_events'[tree'[s].ptr].fd = s
               /\ my_events'[tree'[s].ptr].events = tree'[s].events
    BY <1>3, <1>4, <1>5, <1>6, <1>7 DEF TableInv, Registered
  <1>8. ASSUME NEW j \in Slots, my_events'[j].st = 1
        PROVE  /\ my_events'[j].fd \in Sockets
               /\ tree'[my_events'[j].fd] # NotRegistered
               /\ tree'[my_events'[j].fd].ptr = j
    <2>1. j # i
      BY <1>2, <1>3, <1>8
    <2>2. my_events[j].fd # f
      BY <2>1, <1>3, <1>8 DEF TableInv, Registered
    <2> QED BY <2>1, <2>2, <1>3, <1>4, <1>8 DEF TableInv, Registered
  <1>9. ASSUME NEW e \in batch'
        PROVE  /\ tree'[e.fd] # NotRegistered
               /\ tree'[e.fd].ptr = e.ptr
               /\ my_events'[e.ptr].fd = e.fd
               /\ my_events'[e.ptr].events = e.events
    <2>1. e \in batch /\ e.fd \in Sockets \ {f} /\ e.ptr \in Slots
      BY DEF TableInv
    <2>2. e.ptr # i
      BY <2>1, <1>6 DEF TableInv, EntriesCurrent, Registered
    <2> QED BY <2>1, <2>2, <1>3, <1>4 DEF TableInv, EntriesCurrent, Registered
  <1>10. \A j \in Slots : my_events'[j].st = 1 =>
            (my_events'[j].handler = "acceptConn" <=> my_events'[j].fd = Listener)
    BY <1>2, <1>3 DEF TableInv, Roles
  <1>11. \A j \in Slots : my_events'[j].len <= Len(my_events'[j].buf)
    BY <1>2, <1>3 DEF TableInv, Lengths
  <1>12. batch' \subseteq [fd : Sockets, ptr : Slots, events : {"IN", "OUT"}]
    BY DEF TableInv
  <1> QED
    BY <1>3, <1>4, <1>7, <1>8, <1>9, <1>10, <1>11, <1>12
       DEF TableInv, Registered, EntriesCurrent, Roles, Lengths

-----------------------------------------------------------------------------

\* What a dispatched event says of its entry; no event that is left in the batch
\* is for the same descriptor.
LEMMA Dispatched ==
    ASSUME TableInv, NEW handler, NEW e \in batch, Dispatch(e, handler)
    PROVE  /\ e.ptr \in Slots /\ e.fd \in Sockets
           /\ my_events[e.ptr].fd = e.fd /\ my_events[e.ptr].st = 1
           /\ my_events[e.ptr].handler = handler
           /\ tree[e.fd] # NotRegistered /\ tree[e.fd].ptr = e.ptr
           /\ (handler # "acceptConn" => e.fd \in Fds)
           /\ batch' \subseteq batch
           /\ \A d \in batch' : d.fd # e.fd
  <1>1. e.ptr \in Slots /\ e.fd \in Sockets
    BY DEF TableInv
  <1>2. /\ my_events[e.ptr].fd = e.fd
        /\ tree[e.fd] # NotRegistered /\ tree[e.fd].ptr = e.ptr
    BY DEF TableInv, EntriesCurrent, Registered
  <1>3. my_events[e.ptr].st = 1
    BY <1>1, <1>2 DEF TableInv, Registered
  <1>4. my_events[e.ptr].handler = handler /\ batch' = batch \ {e}
    BY DEF Dispatch
  <1>5. handler # "acceptConn" => e.fd \in Fds
    BY <1>1, <1>2, <1>3, <1>4 DEF TableInv, Roles, Sockets
  <1>6. ASSUME NEW d \in batch' PROVE d.fd # e.fd
    <2>1. d \in batch /\ d # e
      BY <1>4
    <2>2. /\ d = [fd |-> d.fd, ptr |-> d.ptr, events |-> d.events]
          /\ e = [fd |-> e.fd, ptr |-> e.ptr, events |-> e.events]
      BY <2>1 DEF TableInv
    <2>3. d.fd = e.fd => d.ptr = e.ptr /\ d.events = e.events
      BY <2>1 DEF TableInv, EntriesCurrent
    <2> QED BY <2>1, <2>2, <2>3
  <1> QED BY <1>1, <1>2, <1>3, <1>4, <1>5, <1>6

\* recvMsg and sendMsg keep the table.
LEMMA EventSet ==
    ASSUME TableInv, NEW e \in batch, NEW old \in {"recvMsg", "sendMsg"}, Dispatch(e, old),
           NEW events \in {"IN", "OUT"}, NEW handler \in {"recvMsg", "sendMsg"},
           NEW buf \in Seq(ByteValues), SetMyEvent(e.ptr, events, handler, buf)
    PROVE  TableInv' /\ \A f \in Fds : Registered(f)' => Registered(f)
  <1> DEFINE m == [st |-> 1, fd |-> e.fd, events |-> events, handler |-> handler,
                   buf |-> buf, len |-> StrLen(buf)]
             r == [ptr |-> e.ptr, events |-> events]
  <1>1. /\ e.ptr \in Slots /\ e.fd \in Fds /\ e.fd \in Sockets
        /\ my_events[e.ptr].fd = e.fd /\ my_events[e.ptr].st = 1
        /\ tree[e.fd] # NotRegistered /\ tree[e.fd].ptr = e.ptr
        /\ batch' \subseteq batch /\ \A d \in batch' : d.fd # e.fd
    BY Dispatched
  <1>2. StrLen(buf) \in 0..Len(buf)
    BY StrLenBound
  <1>3. m \in Entries
    BY <1>1, <1>2 DEF Entries
  <1>4. r \in Registration
    BY <1>1 DEF Registration
  <1>6. my_events' = [my_events EXCEPT ![e.ptr] = m]
    BY <1>1 DEF SetMyEvent, TableInv
  <1>7. tree' = [tree EXCEPT ![e.fd] = r]
    BY <1>1 DEF SetMyEvent
  <1>8. TableInv'
    <2>1. /\ m.st = 1 /\ m.fd = e.fd /\ m.handler # "acceptConn" /\ m.len <= Len(m.buf)
          /\ r.ptr = e.ptr /\ r.events = m.events
      BY <1>2
    <2> HIDE DEF m, r
    <2> QED BY <1>1, <1>3, <1>4, <1>6, <1>7, <2>1, Installed
  <1>9. \A f \in Fds : Registered(f)' => Registered(f)
    BY <1>1, <1>7 DEF TableInv, Registered, Sockets
  <1> QED BY <1>8, <1>9

\* Steps that leave the table and the batch alone.
LEMMA TableKept ==
    ASSUME TableInv, UNCHANGED <<my_events, tree>>, batch' \subseteq batch
    PROVE  TableInv' /\ \A f \in Fds : Registered(f)' = Registered(f)
  BY DEF TableInv, EntriesCurrent, Roles, Lengths, Registered

-----------------------------------------------------------------------------
(***************************************************************************)
(* Each action.                                                            *)
(***************************************************************************)

\* What clients do by themselves.
LEMMA ClientStep ==
    ASSUME IInv, NEW f \in Fds,
           \/ Connects(f) \/ (\E b \in ByteValues : Sends(f, b))
           \/ Reads(f) \/ Finishes(f) \/ Breaks(f)
    PROVE  IInv'
  <1>1. TableInv' /\ \A g \in Fds : Registered(g)' = Registered(g)
    <2>1. UNCHANGED <<my_events, tree, batch>>
      BY DEF Connects, Sends, Reads, Finishes, Breaks, kernel
    <2> QED BY <2>1, Parts, TableKept
  <1>2. CASE Connects(f)
    <2>1. ClientsOK'
      BY <1>2, Parts DEF ClientsOK, Connects, kernel
    <2>2. \A g \in Fds : peer'[g] \in {"absent", "waiting"} => peer[g] \in {"absent", "waiting"}
      BY <1>2, Parts DEF ClientsOK, Connects
    <2> QED BY <1>1, <2>1, <2>2, Parts, PartsNext DEF Strangers
  <1>3. ASSUME NEW b \in ByteValues, Sends(f, b) PROVE IInv'
    <2>1. Append(pending[f], b) \in Seq(ByteValues) /\ Append(sent[f], b) \in Seq(ByteValues)
      BY Parts DEF ClientsOK
    <2>2. ClientsOK'
      BY <1>3, <2>1, Parts DEF ClientsOK, Sends, kernel
    <2> QED BY <1>1, <1>3, <2>2, Parts, PartsNext DEF Strangers, Sends
  <1>4. CASE Finishes(f) \/ Breaks(f)
    <2>1. ClientsOK'
      BY <1>4, Parts DEF ClientsOK, Finishes, Breaks, kernel
    <2>2. \A g \in Fds : peer'[g] \in {"absent", "waiting"} => peer[g] \in {"absent", "waiting"}
      BY <1>4, Parts DEF ClientsOK, Finishes, Breaks
    <2> QED BY <1>1, <2>1, <2>2, Parts, PartsNext DEF Strangers
  <1>5. CASE Reads(f)
    <2>1. room[f] \in 0..SendRoom /\ room[f] < SendRoom /\ SendRoom \in Nat
      BY <1>5, Parts, ReactorAssumption DEF ClientsOK, Reads
    <2>2. room[f] + 1 \in 0..SendRoom
      BY <2>1
    <2>3. ClientsOK'
      BY <1>5, <2>2, Parts DEF ClientsOK, Reads, kernel
    <2> QED BY <1>1, <1>5, <2>3, Parts, PartsNext DEF Strangers, Reads
  <1> QED BY <1>2, <1>3, <1>4, <1>5

\* epoll_wait: the batch is what is registered.
LEMMA WaitStep ==
    ASSUME IInv, EpollWait
    PROVE  IInv'
  <1>1. TableInv
    BY Parts
  <1>2. ASSUME NEW d \in batch'
        PROVE  /\ d \in [fd : Sockets, ptr : Slots, events : {"IN", "OUT"}]
               /\ Registered(d.fd) /\ tree[d.fd].ptr = d.ptr
               /\ my_events[d.ptr].fd = d.fd /\ my_events[d.ptr].events = d.events
    <2>1. PICK s \in Sockets : /\ Ready(s)
                               /\ d = [fd |-> s, ptr |-> tree[s].ptr, events |-> tree[s].events]
      BY DEF EpollWait
    <2>2. Registered(s) /\ tree[s] \in Registration
      BY <1>1, <2>1 DEF Ready, Registered, TableInv
    <2> QED BY <1>1, <2>1, <2>2 DEF TableInv, Registration
  <1>3. UNCHANGED <<my_events, tree, running, peer, pending, room, sent, got, lossy>>
    BY DEF EpollWait
  <1>4. TableInv'
    BY <1>1, <1>2, <1>3 DEF TableInv, EntriesCurrent, Registered, Roles, Lengths
  <1>5. ClientsOK' /\ Strangers'
    BY <1>3, Parts DEF ClientsOK, Strangers, Registered
  <1> QED BY <1>4, <1>5, PartsNext

\* myError: a handler that fails.
LEMMA ExitStep ==
    ASSUME IInv, NEW e \in batch, AcceptFails(e) \/ RecvFails(e) \/ SendFails(e)
    PROVE  IInv'
  <1>1. batch' = batch \ {e} /\ Exit
    BY DEF AcceptFails, RecvFails, SendFails, Dispatch
  <1>2. TableInv' /\ \A f \in Fds : Registered(f)' = Registered(f)
    <2>1. UNCHANGED <<my_events, tree>> /\ batch' \subseteq batch
      BY <1>1 DEF Exit
    <2> QED BY <2>1, Parts, TableKept
  <1>3. ClientsOK'
    BY <1>1, Parts DEF Exit, ClientsOK
  <1>4. Strangers'
    BY <1>1, <1>2, Parts DEF Exit, Strangers
  <1> QED BY <1>2, <1>3, <1>4, PartsNext

\* acceptConn: a free slot, for a descriptor nobody had.
LEMMA AcceptStep ==
    ASSUME IInv, NEW e \in batch, NEW f \in Fds, AcceptConn(e, f)
    PROVE  IInv'
  <1>1. PICK i \in Free :
            /\ my_events' = [my_events EXCEPT ![i] = MyEvent(f, "IN", "recvMsg")]
            /\ tree' = [tree EXCEPT ![f] = [ptr |-> i, events |-> "IN"]]
    BY DEF AcceptConn
  <1>2. i \in Slots /\ my_events[i].st = 0 /\ ~Registered(f)
    BY Parts DEF Free, AcceptConn, Strangers
  <1>3. MyEvent(f, "IN", "recvMsg") \in Entries /\ [ptr |-> i, events |-> "IN"] \in Registration
    BY <1>2 DEF MyEvent, Entries, Registration, Sockets
  <1>4. batch' \subseteq batch /\ \A d \in batch' : d.fd # f
    BY <1>2, Parts DEF AcceptConn, Dispatch, TableInv, EntriesCurrent
  <1>5. TableInv'
    <2>1. /\ MyEvent(f, "IN", "recvMsg").st = 1
          /\ MyEvent(f, "IN", "recvMsg").fd = f
          /\ MyEvent(f, "IN", "recvMsg").handler # "acceptConn"
          /\ MyEvent(f, "IN", "recvMsg").events = "IN"
          /\ MyEvent(f, "IN", "recvMsg").len <= Len(MyEvent(f, "IN", "recvMsg").buf)
      BY DEF MyEvent
    <2>2. [ptr |-> i, events |-> "IN"].ptr = i /\ [ptr |-> i, events |-> "IN"].events = "IN"
      OBVIOUS
    <2> QED BY <1>1, <1>2, <1>3, <1>4, <2>1, <2>2, Parts, Installed
  <1>6. ClientsOK'
    BY Parts DEF ClientsOK, AcceptConn
  <1>7. ASSUME NEW g \in Fds, peer'[g] \in {"absent", "waiting"} PROVE tree'[g] = NotRegistered
    <2>1. g # f /\ peer'[g] = peer[g]
      BY <1>7, Parts DEF AcceptConn, ClientsOK
    <2>2. tree'[g] = tree[g]
      BY <1>1, <2>1
    <2> QED BY <1>7, <2>1, <2>2, Parts DEF Strangers, Registered
  <1> QED BY <1>5, <1>6, <1>7, PartsNext DEF Strangers, Registered

\* recvMsg.
LEMMA RecvStep ==
    ASSUME IInv, NEW e \in batch, NEW n \in 1..BuffLen, RecvMsg(e, n)
    PROVE  IInv'
  <1> DEFINE fd == my_events[e.ptr].fd
             buf == [i \in 1..n |-> ConvertChar(pending[fd][i])]
  <1>1. /\ Dispatch(e, "recvMsg")
        /\ n <= Len(pending[fd])
        /\ pending' = [pending EXCEPT ![fd] = SubSeq(@, n + 1, Len(@))]
        /\ SetMyEvent(e.ptr, "OUT", "sendMsg", buf)
        /\ lossy' = IF StrLen(buf) < n THEN lossy \cup {fd} ELSE lossy
        /\ UNCHANGED <<running, peer, room, sent, got>>
    BY DEF RecvMsg
  <1>2. fd \in Fds
    BY <1>1, Parts, Dispatched
  <1>3. pending[fd] \in Seq(ByteValues) /\ n \in Nat
    BY <1>2, Parts, ReactorAssumption DEF ClientsOK
  <1>4. buf \in Seq(ByteValues)
    <2>1. ASSUME NEW i \in 1..n PROVE ConvertChar(pending[fd][i]) \in ByteValues
      <3>1. pending[fd][i] \in ByteValues
        BY <1>1, <1>3
      <3> QED BY <3>1 DEF ConvertChar, ByteValues
    <2> QED BY <1>3, <2>1
  <1>5. SubSeq(pending[fd], n + 1, Len(pending[fd])) \in Seq(ByteValues)
    BY <1>3
  <1>6. ClientsOK'
    <2> HIDE DEF fd, buf
    <2> QED BY <1>1, <1>2, <1>5, Parts DEF ClientsOK
  <1>7. TableInv' /\ \A f \in Fds : Registered(f)' => Registered(f)
    <2> HIDE DEF buf
    <2> QED BY <1>1, <1>4, Parts, EventSet
  <1> QED BY <1>1, <1>6, <1>7, Parts, PartsNext DEF Strangers

\* sendMsg.
LEMMA SendStep ==
    ASSUME IInv, NEW e \in batch, NEW w \in 0..BuffLen, SendMsg(e, w)
    PROVE  IInv'
  <1> DEFINE m == my_events[e.ptr]
  <1>1. /\ Dispatch(e, "sendMsg")
        /\ w <= m.len /\ w <= room[m.fd]
        /\ room' = [room EXCEPT ![m.fd] = @ - w]
        /\ got' = [got EXCEPT ![m.fd] = @ \o SubSeq(m.buf, 1, w)]
        /\ SetMyEvent(e.ptr, "IN", "recvMsg", m.buf)
        /\ lossy' = IF w < m.len THEN lossy \cup {m.fd} ELSE lossy
        /\ UNCHANGED <<running, peer, pending, sent>>
    BY DEF SendMsg, ToWrite
  <1>2. m.fd \in Fds /\ e.ptr \in Slots
    BY <1>1, Parts, Dispatched
  <1>3. m.buf \in Seq(ByteValues) /\ m.len \in Nat /\ m.len <= Len(m.buf) /\ w \in Nat
    BY <1>2, Parts, ReactorAssumption DEF TableInv, Entries, Lengths
  <1>4. got[m.fd] \o SubSeq(m.buf, 1, w) \in Seq(ByteValues)
    <2>1. SubSeq(m.buf, 1, w) \in Seq(ByteValues)
      BY <1>1, <1>3
    <2> QED BY <1>2, <2>1, Parts DEF ClientsOK
  <1>5. ClientsOK'
    <2>1. room[m.fd] \in 0..SendRoom /\ SendRoom \in Nat
      BY <1>2, Parts, ReactorAssumption DEF ClientsOK
    <2> HIDE DEF m
    <2>2. room[m.fd] - w \in 0..SendRoom
      BY <1>1, <1>3, <2>1
    <2> QED BY <1>1, <1>2, <1>4, <2>2, Parts DEF ClientsOK
  <1>6. TableInv' /\ \A f \in Fds : Registered(f)' => Registered(f)
    <2> HIDE DEF m
    <2> QED BY <1>1, <1>3, Parts, EventSet
  <1> QED BY <1>1, <1>5, <1>6, Parts, PartsNext DEF Strangers

\* closeEvent.
LEMMA CloseStep ==
    ASSUME IInv, NEW e \in batch, CloseEvent(e)
    PROVE  IInv'
  <1> DEFINE fd == my_events[e.ptr].fd
  <1>1. /\ Dispatch(e, "recvMsg")
        /\ tree' = [tree EXCEPT ![fd] = NotRegistered]
        /\ peer' = [peer EXCEPT ![fd] = "absent"]
        /\ room' = [room EXCEPT ![fd] = SendRoom]
        /\ sent' = [sent EXCEPT ![fd] = <<>>]
        /\ got' = [got EXCEPT ![fd] = <<>>]
        /\ lossy' = lossy \ {fd}
        /\ my_events' = [my_events EXCEPT ![e.ptr] = Unused]
        /\ UNCHANGED <<running, pending>>
    BY DEF CloseEvent, ResetMyEvent
  <1>2. /\ fd \in Fds /\ e.ptr \in Slots /\ e.fd = fd /\ my_events[e.ptr].st = 1
        /\ batch' \subseteq batch /\ \A d \in batch' : d.fd # e.fd
    BY <1>1, Parts, Dispatched
  <1>3. TableInv'
    BY <1>1, <1>2, Parts, Cleared
  <1>4. ClientsOK'
    <2>1. SendRoom \in 0..SendRoom
      BY ReactorAssumption
    <2> HIDE DEF fd
    <2> QED BY <1>1, <1>2, <2>1, Parts DEF ClientsOK
  <1>5. ASSUME NEW g \in Fds, peer'[g] \in {"absent", "waiting"} PROVE tree'[g] = NotRegistered
    <2> HIDE DEF fd
    <2>1. CASE g = fd
      BY <2>1, <1>1, Parts DEF TableInv, Sockets
    <2>2. CASE g # fd
      BY <2>2, <1>1, <1>5, Parts DEF Strangers, Registered, ClientsOK
    <2> QED BY <2>1, <2>2
  <1> QED BY <1>3, <1>4, <1>5, PartsNext DEF Strangers, Registered

-----------------------------------------------------------------------------

\* Every reachable state satisfies the inductive invariant.
THEOREM Inductive == ReactorSpec => []IInv
  <1>1. ReactorInit => IInv
    <2> SUFFICES ASSUME ReactorInit PROVE IInv
      OBVIOUS
    <2>1. MyEvent(Listener, "IN", "acceptConn") \in Entries /\ Unused \in Entries
      BY DEF MyEvent, Entries, Unused, Sockets
    <2>2. TableInv
      <3>1. MaxEvents \in Slots
        BY ReactorAssumption DEF Slots
      <3>2. /\ my_events \in [Slots -> Entries]
            /\ my_events[MaxEvents] = MyEvent(Listener, "IN", "acceptConn")
            /\ \A i \in Slots \ {MaxEvents} : my_events[i] = Unused
        BY <2>1, <3>1 DEF ReactorInit
      <3>3. /\ tree \in [Sockets -> Registration \cup {NotRegistered}]
            /\ tree[Listener] = [ptr |-> MaxEvents, events |-> "IN"]
            /\ \A s \in Sockets \ {Listener} : tree[s] = NotRegistered
        BY <3>1 DEF ReactorInit, Registration, Sockets
      <3>4. tree[Listener] # NotRegistered
        BY <3>3 DEF NotRegistered
      <3>5. Roles /\ Lengths
        BY <3>1, <3>2 DEF Roles, Lengths, MyEvent, Unused
      <3>6. batch = {}
        BY DEF ReactorInit
      <3> QED
        BY <3>1, <3>2, <3>3, <3>4, <3>5, <3>6
           DEF TableInv, EntriesCurrent, Registered, MyEvent, Unused, Sockets
    <2>3. ClientsOK
      BY ReactorAssumption DEF ReactorInit, ClientsOK
    <2>4. Strangers
      BY ReactorAssumption DEF ReactorInit, Strangers, Registered, Sockets
    <2> QED BY <2>2, <2>3, <2>4, Parts
  <1>2. IInv /\ [ReactorNext]_reactorVars => IInv'
    <2> SUFFICES ASSUME IInv, [ReactorNext]_reactorVars PROVE IInv'
      OBVIOUS
    <2>1. CASE UNCHANGED reactorVars
      BY <2>1 DEF reactorVars, IInv, TableIsTree, ReactorTypeOK, EntriesCurrent, Strangers,
                  Roles, Lengths, Registered
    <2>2. CASE Loop
      BY <2>2, WaitStep, ExitStep, AcceptStep, RecvStep, SendStep, CloseStep DEF Loop
    <2>3. CASE ReactorNext /\ ~Loop
      BY <2>3, ClientStep DEF ReactorNext
    <2> QED BY <2>1, <2>2, <2>3
  <1> QED BY <1>1, <1>2, PTL DEF ReactorSpec

\* The table of events and the registrations of epoll agree.
THEOREM TableAndTree == ReactorSpec => []TableIsTree
  <1>1. IInv => TableIsTree
    BY DEF IInv
  <1> QED BY <1>1, Inductive, PTL

-----------------------------------------------------------------------------
(***************************************************************************)
(* What epoll has reported stays so until it is dispatched.                *)
(***************************************************************************)

\* What keeps a socket ready.
LEMMA OccursKept ==
    ASSUME NEW s \in Sockets, NEW events, Occurs(s, events),
           s = Listener => \A g \in Fds : peer[g] = "waiting" => peer'[g] = "waiting",
           s # Listener =>
              /\ peer[s] = "broken" => peer'[s] = "broken"
              /\ peer[s] = "finished" => peer'[s] \in {"finished", "broken"}
              /\ pending[s] # <<>> => pending'[s] # <<>>
              /\ room[s] > 0 => room'[s] > 0
    PROVE  Occurs(s, events)'
  <1>1. CASE s = Listener
    BY <1>1 DEF Occurs
  <1>2. CASE s # Listener
    BY <1>2 DEF Occurs
  <1> QED BY <1>1, <1>2

\* A client can only make a socket more ready.
LEMMA ReadyClient ==
    ASSUME IInv, StillReady, NEW f \in Fds,
           \/ Connects(f) \/ (\E b \in ByteValues : Sends(f, b))
           \/ Reads(f) \/ Finishes(f) \/ Breaks(f)
    PROVE  StillReady'
  <1> SUFFICES ASSUME NEW d \in batch' PROVE Occurs(d.fd, d.events)'
    BY DEF StillReady
  <1>1. /\ d \in batch /\ d.fd \in Sockets /\ Registered(d.fd) /\ Occurs(d.fd, d.events)
        /\ d.fd # Listener => d.fd \in Fds /\ peer[d.fd] # "absent"
    <2>1. d \in batch
      BY DEF Connects, Sends, Reads, Finishes, Breaks, kernel
    <2> QED BY <2>1, Parts DEF TableInv, EntriesCurrent, Strangers, StillReady, Sockets
  <1>2. /\ peer \in [Fds -> {"absent", "waiting", "open", "finished", "broken"}]
        /\ pending \in [Fds -> Seq(ByteValues)] /\ room \in [Fds -> 0..SendRoom]
        /\ SendRoom \in Nat
    BY Parts, ReactorAssumption DEF ClientsOK
  <1>3. CASE Connects(f) \/ Finishes(f) \/ Breaks(f)
    BY <1>1, <1>2, <1>3, OccursKept DEF Connects, Finishes, Breaks
  <1>4. ASSUME NEW b \in ByteValues, Sends(f, b) PROVE Occurs(d.fd, d.events)'
    <2>1. peer' = peer /\ room' = room /\ pending' = [pending EXCEPT ![f] = Append(@, b)]
      BY <1>4 DEF Sends
    <2>2. Append(pending[f], b) # <<>>
      <3>1. pending[f] \in Seq(ByteValues)
        BY <1>2
      <3>2. Len(Append(pending[f], b)) = Len(pending[f]) + 1 /\ Len(pending[f]) \in Nat
        BY <3>1
      <3> QED BY <3>2
    <2> QED BY <1>1, <1>2, <2>1, <2>2, OccursKept
  <1>5. CASE Reads(f)
    <2>1. peer' = peer /\ pending' = pending /\ room' = [room EXCEPT ![f] = @ + 1]
      BY <1>5 DEF Reads
    <2>2. \A g \in Fds : room[g] > 0 => room'[g] > 0
      BY <1>2, <2>1
    <2> QED BY <1>1, <2>1, <2>2, OccursKept
  <1> QED BY <1>3, <1>4, <1>5

\* A handler changes what is ready for its own descriptor only.
LEMMA ReadyHandler ==
    ASSUME IInv, StillReady, NEW e \in batch,
           NEW handler \in {"acceptConn", "recvMsg", "sendMsg"}, Dispatch(e, handler),
           NEW f \in Fds, handler # "acceptConn" => f = e.fd,
           handler = "acceptConn" => ~Registered(f),
           handler # "acceptConn" =>
              \A g \in Fds : peer[g] = "waiting" => peer'[g] = "waiting",
           \A g \in Fds \ {f} : /\ peer'[g] = peer[g] /\ pending'[g] = pending[g]
                                /\ room'[g] = room[g]
    PROVE  StillReady'
  <1> SUFFICES ASSUME NEW d \in batch' PROVE Occurs(d.fd, d.events)'
    BY DEF StillReady
  <1>1. /\ d \in batch /\ d.fd \in Sockets /\ d.fd # e.fd
        /\ Registered(d.fd) /\ Occurs(d.fd, d.events)
    BY Parts, Dispatched DEF TableInv, EntriesCurrent, StillReady
  <1>2. d.fd # f
    BY <1>1
  <1>3. handler = "acceptConn" => e.fd = Listener
    BY Parts, Dispatched DEF TableInv, Roles
  <1>4. d.fd = Listener => handler # "acceptConn"
    BY <1>1, <1>3
  <1>5. d.fd # Listener => d.fd \in Fds \ {f}
    BY <1>1, <1>2 DEF Sockets
  <1> QED BY <1>1, <1>4, <1>5, OccursKept

LEMMA ReadyStep ==
    ASSUME IInv, StillReady, [ReactorNext]_reactorVars
    PROVE  StillReady'
  <1>1. CASE UNCHANGED reactorVars
    BY <1>1 DEF reactorVars, StillReady, Occurs
  <1>2. CASE EpollWait
    BY <1>2 DEF EpollWait, StillReady, Ready, Occurs
  <1>3. ASSUME NEW e \in batch, AcceptFails(e) \/ RecvFails(e) \/ SendFails(e) PROVE StillReady'
    <2>1. batch' \subseteq batch /\ UNCHANGED <<peer, pending, room>>
      BY <1>3 DEF AcceptFails, RecvFails, SendFails, Dispatch, Exit
    <2> QED BY <2>1 DEF StillReady, Occurs
  <1>4. ASSUME NEW e \in batch, NEW f \in Fds, AcceptConn(e, f) PROVE StillReady'
    <2>1. /\ Dispatch(e, "acceptConn") /\ peer[f] = "waiting"
          /\ peer' = [peer EXCEPT ![f] = "open"] /\ UNCHANGED <<pending, room>>
      BY <1>4 DEF AcceptConn
    <2>2. ~Registered(f)
      BY <2>1, Parts DEF Strangers
    <2>3. \A g \in Fds \ {f} : /\ peer'[g] = peer[g] /\ pending'[g] = pending[g]
                               /\ room'[g] = room[g]
      BY <2>1, Parts DEF ClientsOK
    <2> QED BY <2>1, <2>2, <2>3, ReadyHandler
  <1>5. ASSUME NEW e \in batch, NEW n \in 1..BuffLen, RecvMsg(e, n) PROVE StillReady'
    <2>1. Dispatch(e, "recvMsg") /\ UNCHANGED <<peer, room>>
          /\ pending' = [pending EXCEPT ![my_events[e.ptr].fd] = SubSeq(@, n + 1, Len(@))]
      BY <1>5 DEF RecvMsg
    <2>2. my_events[e.ptr].fd = e.fd /\ e.fd \in Fds
      BY <2>1, Parts, Dispatched
    <2>3. \A g \in Fds \ {e.fd} : pending'[g] = pending[g]
      BY <2>1, <2>2, Parts DEF ClientsOK
    <2> QED BY <2>1, <2>2, <2>3, ReadyHandler
  <1>6. ASSUME NEW e \in batch, NEW w \in 0..BuffLen, SendMsg(e, w) PROVE StillReady'
    <2>1. Dispatch(e, "sendMsg") /\ UNCHANGED <<peer, pending>>
          /\ room' = [room EXCEPT ![my_events[e.ptr].fd] = @ - w]
      BY <1>6 DEF SendMsg
    <2>2. my_events[e.ptr].fd = e.fd /\ e.fd \in Fds
      BY <2>1, Parts, Dispatched
    <2>3. \A g \in Fds \ {e.fd} : room'[g] = room[g]
      BY <2>1, <2>2, Parts DEF ClientsOK
    <2> QED BY <2>1, <2>2, <2>3, ReadyHandler
  <1>7. ASSUME NEW e \in batch, CloseEvent(e) PROVE StillReady'
    <2>1. /\ Dispatch(e, "recvMsg") /\ UNCHANGED pending
          /\ peer[my_events[e.ptr].fd] = "finished"
          /\ peer' = [peer EXCEPT ![my_events[e.ptr].fd] = "absent"]
          /\ room' = [room EXCEPT ![my_events[e.ptr].fd] = SendRoom]
      BY <1>7 DEF CloseEvent
    <2>2. my_events[e.ptr].fd = e.fd /\ e.fd \in Fds
      BY <2>1, Parts, Dispatched
    <2>3. /\ \A g \in Fds \ {e.fd} : peer'[g] = peer[g] /\ room'[g] = room[g]
          /\ \A g \in Fds : peer[g] = "waiting" => peer'[g] = "waiting"
      BY <2>1, <2>2, Parts DEF ClientsOK
    <2> QED BY <2>1, <2>2, <2>3, ReadyHandler
  <1>8. CASE Loop
    BY <1>2, <1>3, <1>4, <1>5, <1>6, <1>7, <1>8 DEF Loop
  <1>9. CASE ReactorNext /\ ~Loop
    BY <1>9, ReadyClient DEF ReactorNext
  <1> QED BY <1>1, <1>8, <1>9

\* No event that waits in a batch is stale: its entry is still that of its descriptor and
\* interested in it (reactor_single_process.c:110), and no handler finds nothing to read,
\* no room to write or nobody to accept (the message at 147 calls that an internal error).
THEOREM NoStaleEvents == ReactorSpec => []EventsCurrent
  <1>1. ReactorInit => StillReady
    BY DEF ReactorInit, StillReady
  <1>2. IInv /\ StillReady => EventsCurrent
    BY DEF IInv, EventsCurrent
  <1> QED BY <1>1, <1>2, ReadyStep, Inductive, PTL DEF ReactorSpec

\* The process has not ended by itself: a client broke off, or waits to be accepted.
EndedByAClient == running \/ Ended

\* The process ends only at the fault of a client that broke off or of an accept that
\* failed (the calls of exit at reactor_single_process.c:178 and 336), and one such
\* client there then is.
THEOREM OnlyClientsEndIt == ReactorSpec => []EndedByAClient
  <1>1. ReactorInit => EndedByAClient
    BY DEF ReactorInit, EndedByAClient
  <1>2. IInv /\ StillReady /\ EndedByAClient /\ [ReactorNext]_reactorVars => EndedByAClient'
    <2> SUFFICES ASSUME IInv, StillReady, EndedByAClient, [ReactorNext]_reactorVars
                 PROVE  EndedByAClient'
      OBVIOUS
    <2>1. peer \in [Fds -> {"absent", "waiting", "open", "finished", "broken"}]
      BY Parts DEF ClientsOK
    <2>2. CASE UNCHANGED reactorVars
      BY <2>2 DEF reactorVars, EndedByAClient, Ended
    <2>3. ASSUME NEW e \in batch, AcceptFails(e) PROVE EndedByAClient'
      <3>1. Dispatch(e, "acceptConn") /\ Exit
        BY <2>3 DEF AcceptFails
      <3>2. e.fd = Listener
        BY <3>1, Parts, Dispatched DEF TableInv, Roles
      <3>3. \E g \in Fds : peer[g] = "waiting"
        BY <3>2 DEF StillReady, Occurs
      <3> QED BY <3>1, <3>3 DEF Exit, EndedByAClient, Ended
    <2>4. ASSUME NEW e \in batch, RecvFails(e) \/ SendFails(e) PROVE EndedByAClient'
      <3>1. \E handler \in {"recvMsg", "sendMsg"} : Dispatch(e, handler)
        BY <2>4 DEF RecvFails, SendFails
      <3>2. my_events[e.ptr].fd \in Fds
        BY <3>1, Parts, Dispatched
      <3> QED BY <2>4, <3>2 DEF RecvFails, SendFails, Exit, EndedByAClient, Ended
    <2>5. CASE Loop
      <3>1. CASE EpollWait
        BY <3>1 DEF EpollWait, EndedByAClient
      <3>2. ASSUME NEW e \in batch, NEW f \in Fds, AcceptConn(e, f) PROVE EndedByAClient'
        BY <3>2 DEF AcceptConn, Dispatch, EndedByAClient
      <3>3. ASSUME NEW e \in batch, NEW n \in 1..BuffLen, RecvMsg(e, n) PROVE EndedByAClient'
        BY <3>3 DEF RecvMsg, Dispatch, EndedByAClient
      <3>4. ASSUME NEW e \in batch, CloseEvent(e) PROVE EndedByAClient'
        BY <3>4 DEF CloseEvent, Dispatch, EndedByAClient
      <3>5. ASSUME NEW e \in batch, NEW w \in 0..BuffLen, SendMsg(e, w) PROVE EndedByAClient'
        BY <3>5 DEF SendMsg, Dispatch, EndedByAClient
      <3> QED BY <2>3, <2>4, <2>5, <3>1, <3>2, <3>3, <3>4, <3>5 DEF Loop
    <2>6. ASSUME NEW f \in Fds,
                 \/ Connects(f) \/ (\E b \in ByteValues : Sends(f, b))
                 \/ Reads(f) \/ Finishes(f) \/ Breaks(f)
          PROVE  EndedByAClient'
      BY <2>1, <2>6 DEF Connects, Sends, Reads, Finishes, Breaks, kernel, EndedByAClient, Ended
    <2>7. CASE ReactorNext /\ ~Loop
      BY <2>6, <2>7 DEF ReactorNext
    <2> QED BY <2>2, <2>5, <2>7
  <1>3. EventsCurrent => StillReady
    BY DEF EventsCurrent
  <1> QED BY <1>1, <1>2, <1>3, Inductive, NoStaleEvents, PTL DEF ReactorSpec

-----------------------------------------------------------------------------
(***************************************************************************)
(* The echo.                                                               *)
(***************************************************************************)

Converted(s) == [k \in 1..Len(s) |-> ConvertChar(s[k])]

\* What the buffer of f holds for it.
Buffered(f) == IF tree[f].events = "OUT" THEN my_events[tree[f].ptr].buf ELSE <<>>

Echo(f) == f \notin lossy => got[f] \o (Buffered(f) \o Converted(pending[f])) = Converted(sent[f])

\* A buffer that waits to be written is written to its end.
Filled(f) ==
    f \notin lossy /\ tree[f].events = "OUT" =>
        my_events[tree[f].ptr].len = Len(my_events[tree[f].ptr].buf)

\* A client that is not accepted has not sent and got anything.
Silent == \A f \in Fds : peer[f] \in {"absent", "waiting"} =>
            sent[f] = <<>> /\ got[f] = <<>> /\ pending[f] = <<>>

\* The handler of an entry is the one for its interest.
Turns == \A i \in Slots : my_events[i].st = 1 =>
            (my_events[i].handler = "sendMsg" <=> my_events[i].events = "OUT")

EchoInv == Turns /\ Silent /\ \A f \in Fds : Echo(f) /\ Filled(f)

\* Converting what a client sends goes on byte by byte.
LEMMA ConvertedType ==
    ASSUME NEW s \in Seq(ByteValues)
    PROVE  Converted(s) \in Seq(ByteValues) /\ Len(Converted(s)) = Len(s)
  <1>1. ASSUME NEW k \in 1..Len(s) PROVE ConvertChar(s[k]) \in ByteValues
    <2>1. s[k] \in ByteValues
      OBVIOUS
    <2> QED BY <2>1 DEF ConvertChar, ByteValues
  <1> QED BY <1>1 DEF Converted

LEMMA ConvertedAppend ==
    ASSUME NEW s \in Seq(ByteValues), NEW b \in ByteValues
    PROVE  Converted(Append(s, b)) = Append(Converted(s), ConvertChar(b))
  <1> DEFINE x == ConvertChar(b)
             t == Append(s, b)
  <1>1. x \in ByteValues
    BY DEF ConvertChar, ByteValues
  <1>2. /\ Len(s) \in Nat
        /\ t \in Seq(ByteValues) /\ Len(t) = Len(s) + 1 /\ t[Len(s) + 1] = b
        /\ \A k \in 1..Len(s) : t[k] = s[k]
    OBVIOUS
  <1> HIDE DEF x, t
  <1>3. /\ Converted(s) \in Seq(ByteValues) /\ Len(Converted(s)) = Len(s)
        /\ Converted(t) \in Seq(ByteValues) /\ Len(Converted(t)) = Len(s) + 1
    BY <1>2, ConvertedType
  <1>4. /\ Append(Converted(s), x) \in Seq(ByteValues)
        /\ Len(Append(Converted(s), x)) = Len(s) + 1
        /\ Append(Converted(s), x)[Len(s) + 1] = x
        /\ \A k \in 1..Len(s) : Append(Converted(s), x)[k] = Converted(s)[k]
    BY <1>1, <1>3
  <1>5. ASSUME NEW k \in 1..(Len(s) + 1)
        PROVE  Converted(t)[k] = Append(Converted(s), x)[k]
    <2>1. Converted(t)[k] = ConvertChar(t[k])
      BY <1>2 DEF Converted
    <2>2. CASE k = Len(s) + 1
      BY <1>2, <1>4, <2>1, <2>2 DEF x
    <2>3. CASE k \in 1..Len(s)
      <3>1. Converted(s)[k] = ConvertChar(s[k])
        BY <2>3 DEF Converted
      <3>2. t[k] = s[k] /\ Append(Converted(s), x)[k] = Converted(s)[k]
        BY <1>2, <1>4, <2>3
      <3> QED BY <2>1, <3>1, <3>2
    <2>4. k = Len(s) + 1 \/ k \in 1..Len(s)
      <3> DEFINE n == Len(s)
      <3>1. n \in Nat /\ k \in 1..(n + 1)
        BY <1>2
      <3> HIDE DEF n
      <3>2. k = n + 1 \/ k \in 1..n
        BY <3>1
      <3> QED BY <3>2 DEF n
    <2> QED BY <2>2, <2>3, <2>4
  <1>6. Converted(t) = Append(Converted(s), x)
    BY <1>3, <1>4, <1>5, SeqEqual
  <1> QED BY <1>6 DEF x, t

LEMMA ConvertedSplit ==
    ASSUME NEW s \in Seq(ByteValues), NEW n \in Nat, n <= Len(s)
    PROVE  [i \in 1..n |-> ConvertChar(s[i])] \o Converted(SubSeq(s, n + 1, Len(s))) = Converted(s)
  <1> DEFINE a == [i \in 1..n |-> ConvertChar(s[i])]
             r == SubSeq(s, n + 1, Len(s))
  <1>1. /\ r \in Seq(ByteValues) /\ Len(r) = Len(s) - n
        /\ \A k \in 1..Len(r) : r[k] = s[n + k]
    OBVIOUS
  <1>2. a \in Seq(ByteValues) /\ Len(a) = n
    <2>1. ASSUME NEW i \in 1..n PROVE ConvertChar(s[i]) \in ByteValues
      <3>1. s[i] \in ByteValues
        OBVIOUS
      <3> QED BY <3>1 DEF ConvertChar, ByteValues
    <2> QED BY <2>1
  <1>3. /\ Converted(r) \in Seq(ByteValues) /\ Len(Converted(r)) = Len(s) - n
        /\ Converted(s) \in Seq(ByteValues) /\ Len(Converted(s)) = Len(s)
    BY <1>1, ConvertedType
  <1> HIDE DEF r
  <1>4. \A k \in 1..n : a[k] = Converted(s)[k]
    BY DEF Converted
  <1>5. ASSUME NEW k \in 1..(Len(s) - n) PROVE Converted(r)[k] = Converted(s)[n + k]
    <2>1. k \in 1..Len(r) /\ r[k] = s[n + k]
      BY <1>1
    <2>2. n + k \in 1..Len(s)
      OBVIOUS
    <2> QED BY <2>1, <2>2 DEF Converted
  <1> HIDE DEF a
  <1>6. /\ a \o Converted(r) \in Seq(ByteValues)
        /\ Len(a \o Converted(r)) = Len(s)
        /\ \A k \in 1..Len(s) : (a \o Converted(r))[k] =
                IF k <= n THEN a[k] ELSE Converted(r)[k - n]
    BY <1>2, <1>3
  <1>7. ASSUME NEW k \in 1..Len(s) PROVE (a \o Converted(r))[k] = Converted(s)[k]
    <2>1. CASE k <= n
      BY <1>4, <1>6, <2>1
    <2>2. CASE ~(k <= n)
      <3>1. k - n \in 1..(Len(s) - n) /\ n + (k - n) = k
        BY <2>2
      <3>2. Converted(r)[k - n] = Converted(s)[k]
        BY <1>5, <3>1
      <3> QED BY <1>6, <2>2, <3>2
    <2> QED BY <2>1, <2>2
  <1>8. a \o Converted(r) = Converted(s)
    BY <1>3, <1>6, <1>7, SeqEqual
  <1> QED BY <1>8 DEF a, r

\* Appending to the last of three sequences.
LEMMA ThreeAppend ==
    \A g, o, p \in Seq(ByteValues) : \A x \in ByteValues :
        g \o (o \o Append(p, x)) = Append(g \o (o \o p), x)
  <1> TAKE g, o, p \in Seq(ByteValues)
  <1> TAKE x \in ByteValues
  <1>1. Append(p, x) = p \o <<x>> /\ <<x>> \in Seq(ByteValues)
    BY AppendIsConcat
  <1>2. o \o p \in Seq(ByteValues) /\ g \o (o \o p) \in Seq(ByteValues)
    BY ConcatProperties
  <1>3. o \o (p \o <<x>>) = (o \o p) \o <<x>>
    BY <1>1, ConcatAssociative
  <1>4. g \o ((o \o p) \o <<x>>) = (g \o (o \o p)) \o <<x>>
    BY <1>1, <1>2, ConcatAssociative
  <1> QED BY <1>1, <1>2, <1>3, <1>4, AppendIsConcat

LEMMA ThreeConcat ==
    \A g, o, p \in Seq(ByteValues) : (g \o o) \o p = g \o (o \o p)
  <1> QED BY ConcatAssociative

\* A step for one client, with the entry it has or is given, leaves the echo of the
\* others alone.
LEMMA EchoOther ==
    ASSUME IInv, EchoInv, NEW i \in Slots, NEW f \in Fds, NEW g \in Fds, g # f,
           my_events[i].st = 1 => my_events[i].fd = f,
           \A j \in Slots \ {i} : my_events'[j] = my_events[j],
           tree'[g] = tree[g], got'[g] = got[g], sent'[g] = sent[g], pending'[g] = pending[g],
           g \notin lossy' => g \notin lossy
    PROVE  Echo(g)' /\ Filled(g)'
  <1>1. Echo(g) /\ Filled(g) /\ g \in Sockets
    BY DEF EchoInv, Sockets
  <1>2. CASE tree[g].events = "OUT"
    <2>1. Registered(g) /\ tree[g].ptr \in Slots
      <3>1. tree[g] \in Registration \cup {NotRegistered}
        BY <1>1, Parts DEF TableInv
      <3> QED BY <1>2, <3>1 DEF Registered, NotRegistered, Registration
    <2>2. tree[g].ptr # i
      BY <1>1, <2>1, Parts DEF TableInv
    <2>3. my_events'[tree[g].ptr] = my_events[tree[g].ptr]
      BY <2>1, <2>2
    <2> QED BY <1>1, <2>3 DEF Echo, Filled, Buffered
  <1>3. CASE tree[g].events # "OUT"
    BY <1>1, <1>3 DEF Echo, Filled, Buffered
  <1> QED BY <1>2, <1>3

\* Steps that leave the table and what was said alone.
LEMMA EchoKept ==
    ASSUME EchoInv, UNCHANGED <<my_events, tree, sent, got, pending, lossy>>,
           \A f \in Fds : peer'[f] \in {"absent", "waiting"} => peer[f] \in {"absent", "waiting"}
    PROVE  EchoInv'
  <1>1. Turns' /\ Silent'
    BY DEF EchoInv, Turns, Silent
  <1>2. \A f \in Fds : Echo(f)' /\ Filled(f)'
    BY DEF EchoInv, Echo, Filled, Buffered
  <1> QED BY <1>1, <1>2 DEF EchoInv

\* The entry of a client that is dispatched to a handler.
LEMMA EchoEntry ==
    ASSUME IInv, EchoInv, NEW handler \in {"recvMsg", "sendMsg"}, NEW e \in batch,
           Dispatch(e, handler)
    PROVE  /\ e.ptr \in Slots /\ e.fd \in Fds /\ my_events[e.ptr].fd = e.fd
           /\ my_events[e.ptr].st = 1 /\ my_events[e.ptr] \in Entries
           /\ tree[e.fd].ptr = e.ptr
           /\ tree[e.fd].events = (IF handler = "sendMsg" THEN "OUT" ELSE "IN")
           /\ tree \in [Sockets -> Registration \cup {NotRegistered}]
           /\ peer[e.fd] \notin {"absent", "waiting"}
  <1>1. /\ e.ptr \in Slots /\ e.fd \in Fds /\ e.fd \in Sockets /\ my_events[e.ptr].fd = e.fd
        /\ my_events[e.ptr].st = 1 /\ my_events[e.ptr].handler = handler
        /\ Registered(e.fd) /\ tree[e.fd].ptr = e.ptr
    BY Parts, Dispatched DEF Registered
  <1>2. /\ my_events[e.ptr] \in Entries /\ tree[e.fd] \in Registration
        /\ my_events[e.ptr].events = tree[e.fd].events
        /\ tree \in [Sockets -> Registration \cup {NotRegistered}]
    BY <1>1, Parts DEF TableInv, Registered
  <1>3. handler = "sendMsg" <=> tree[e.fd].events = "OUT"
    BY <1>1, <1>2 DEF EchoInv, Turns
  <1>4. tree[e.fd].events \in {"IN", "OUT"}
    BY <1>2 DEF Registration
  <1>5. peer[e.fd] \notin {"absent", "waiting"}
    BY <1>1 DEF IInv, Strangers
  <1> QED BY <1>1, <1>2, <1>3, <1>4, <1>5

\* recvMsg and sendMsg: the entry and the registration of one client change together.
LEMMA EchoTurned ==
    ASSUME IInv, EchoInv, NEW old \in {"recvMsg", "sendMsg"}, NEW e \in batch,
           Dispatch(e, old), NEW events \in {"IN", "OUT"},
           NEW handler, handler = (IF events = "OUT" THEN "sendMsg" ELSE "recvMsg"),
           NEW buf, SetMyEvent(e.ptr, events, handler, buf),
           \A g \in Fds : g # e.fd =>
              /\ got'[g] = got[g] /\ sent'[g] = sent[g] /\ pending'[g] = pending[g]
              /\ g \notin lossy' => g \notin lossy,
           UNCHANGED peer,
           e.fd \notin lossy' =>
              /\ got'[e.fd] \o ((IF events = "OUT" THEN buf ELSE <<>>) \o Converted(pending'[e.fd]))
                    = Converted(sent'[e.fd])
              /\ events = "OUT" => StrLen(buf) = Len(buf)
    PROVE  EchoInv'
  <1> DEFINE i == e.ptr
             f == e.fd
  <1>1. /\ i \in Slots /\ f \in Fds /\ f \in Sockets /\ my_events[i].fd = f /\ my_events[i].st = 1
        /\ tree[f].ptr = i /\ tree \in [Sockets -> Registration \cup {NotRegistered}]
        /\ peer[f] \notin {"absent", "waiting"}
        /\ my_events \in [Slots -> Entries]
    BY EchoEntry, Parts DEF Sockets, TableInv
  <1>2. /\ my_events'[i] = [st |-> my_events[i].st, fd |-> my_events[i].fd, events |-> events,
                            handler |-> handler, buf |-> buf, len |-> StrLen(buf)]
        /\ \A j \in Slots \ {i} : my_events'[j] = my_events[j]
        /\ tree'[f] = [ptr |-> i, events |-> events]
        /\ \A g \in Fds : g # f => tree'[g] = tree[g]
    BY <1>1 DEF SetMyEvent, Sockets
  <1> HIDE DEF i, f
  <1>3. Turns'
    <2>1. ASSUME NEW j \in Slots, my_events'[j].st = 1
          PROVE  my_events'[j].handler = "sendMsg" <=> my_events'[j].events = "OUT"
      <3>1. CASE j = i
        BY <1>2, <3>1
      <3>2. CASE j # i
        BY <1>2, <2>1, <3>2 DEF EchoInv, Turns
      <3> QED BY <3>1, <3>2
    <2> QED BY <2>1 DEF Turns
  <1>4. Silent'
    <2>1. \A g \in Fds : g # f => got'[g] = got[g] /\ sent'[g] = sent[g] /\ pending'[g] = pending[g]
      BY DEF f
    <2> QED BY <1>1, <2>1 DEF EchoInv, Silent
  <1>5. ASSUME NEW g \in Fds PROVE Echo(g)' /\ Filled(g)'
    <2>1. CASE g = f
      <3>1. /\ Buffered(f)' = (IF events = "OUT" THEN buf ELSE <<>>)
            /\ tree'[f].events = events
            /\ my_events'[tree'[f].ptr].len = StrLen(buf) /\ my_events'[tree'[f].ptr].buf = buf
        BY <1>2 DEF Buffered
      <3>2. f \notin lossy' =>
              /\ got'[f] \o ((IF events = "OUT" THEN buf ELSE <<>>) \o Converted(pending'[f]))
                    = Converted(sent'[f])
              /\ events = "OUT" => StrLen(buf) = Len(buf)
        BY DEF f
      <3>3. Filled(f)'
        BY <3>1, <3>2 DEF Filled
      <3>4. Echo(f)'
        BY <3>1, <3>2 DEF Echo
      <3> QED BY <2>1, <3>3, <3>4
    <2>2. CASE g # f
      <3>1. /\ got'[g] = got[g] /\ sent'[g] = sent[g] /\ pending'[g] = pending[g]
            /\ g \notin lossy' => g \notin lossy
        BY <2>2 DEF f
      <3> QED BY <1>1, <1>2, <2>2, <3>1, EchoOther
    <2> QED BY <2>1, <2>2
  <1> QED BY <1>3, <1>4, <1>5 DEF EchoInv

\* What clients do by themselves.
LEMMA EchoClient ==
    ASSUME IInv, EchoInv, NEW f \in Fds,
           \/ Connects(f) \/ (\E b \in ByteValues : Sends(f, b))
           \/ Reads(f) \/ Finishes(f) \/ Breaks(f)
    PROVE  EchoInv'
  <1>1. ClientsOK
    BY Parts
  <1>2. CASE Connects(f) \/ Reads(f) \/ Finishes(f) \/ Breaks(f)
    <2>1. UNCHANGED <<my_events, tree, sent, got, pending, lossy>>
      BY <1>2 DEF Connects, Reads, Finishes, Breaks, kernel
    <2>2. \A g \in Fds : peer'[g] \in {"absent", "waiting"} => peer[g] \in {"absent", "waiting"}
      BY <1>1, <1>2 DEF Connects, Reads, Finishes, Breaks, ClientsOK
    <2> QED BY <2>1, <2>2, EchoKept
  <1>3. ASSUME NEW b \in ByteValues, Sends(f, b) PROVE EchoInv'
    <2>1. /\ peer[f] = "open" /\ UNCHANGED <<my_events, tree, got, lossy, peer>>
          /\ pending' = [pending EXCEPT ![f] = Append(@, b)]
          /\ sent' = [sent EXCEPT ![f] = Append(@, b)]
      BY <1>3 DEF Sends, kernel
    <2>2. b \in ByteValues /\ ConvertChar(b) \in ByteValues
      BY DEF ConvertChar, ByteValues
    <2>3. /\ pending'[f] = Append(pending[f], b) /\ sent'[f] = Append(sent[f], b)
          /\ \A g \in Fds : g # f => pending'[g] = pending[g] /\ sent'[g] = sent[g]
      BY <1>1, <2>1 DEF ClientsOK
    <2>4. Turns' /\ Silent'
      BY <2>1, <2>3 DEF EchoInv, Turns, Silent
    <2>5. ASSUME NEW g \in Fds, g # f PROVE Echo(g)' /\ Filled(g)'
      BY <2>1, <2>3, <2>5 DEF EchoInv, Echo, Filled, Buffered
    <2>6. Filled(f)'
      BY <2>1 DEF EchoInv, Filled
    <2>7. Echo(f)'
      <3> SUFFICES ASSUME f \notin lossy
                   PROVE  got[f] \o (Buffered(f) \o Converted(Append(pending[f], b)))
                            = Converted(Append(sent[f], b))
        BY <2>1, <2>3 DEF Echo, Buffered
      <3>1. pending[f] \in Seq(ByteValues) /\ sent[f] \in Seq(ByteValues) /\ got[f] \in Seq(ByteValues)
        BY <1>1 DEF ClientsOK
      <3>2. Buffered(f) \in Seq(ByteValues)
        <4>1. CASE tree[f].events = "OUT"
          <5>1. tree[f].ptr \in Slots
            BY <4>1, Parts DEF TableInv, Sockets, Registration, NotRegistered
          <5> QED BY <4>1, <5>1, Parts DEF TableInv, Entries, Buffered
        <4>2. CASE tree[f].events # "OUT"
          BY <4>2 DEF Buffered
        <4> QED BY <4>1, <4>2
      <3>3. Converted(pending[f]) \in Seq(ByteValues)
        BY <3>1, ConvertedType
      <3>4. /\ Converted(Append(pending[f], b)) = Append(Converted(pending[f]), ConvertChar(b))
            /\ Converted(Append(sent[f], b)) = Append(Converted(sent[f]), ConvertChar(b))
        BY <2>2, <3>1, ConvertedAppend
      <3>5. got[f] \o (Buffered(f) \o Append(Converted(pending[f]), ConvertChar(b)))
              = Append(got[f] \o (Buffered(f) \o Converted(pending[f])), ConvertChar(b))
        <4> DEFINE g == got[f]
                   o == Buffered(f)
                   p == Converted(pending[f])
                   x == ConvertChar(b)
        <4>1. g \in Seq(ByteValues) /\ o \in Seq(ByteValues) /\ p \in Seq(ByteValues) /\ x \in ByteValues
          BY <2>2, <3>1, <3>2, <3>3
        <4> HIDE DEF g, o, p, x
        <4>2. g \o (o \o Append(p, x)) = Append(g \o (o \o p), x)
          BY ONLY <4>1, ThreeAppend, Zenon
        <4> QED BY <4>2 DEF g, o, p, x
      <3>6. got[f] \o (Buffered(f) \o Converted(pending[f])) = Converted(sent[f])
        BY DEF EchoInv, Echo
      <3> QED BY ONLY <3>4, <3>5, <3>6
    <2> QED BY <2>4, <2>5, <2>6, <2>7 DEF EchoInv
  <1> QED BY <1>2, <1>3

LEMMA ConvertedEmpty == <<>> \o (<<>> \o Converted(<<>>)) = Converted(<<>>)
  <1>1. PICK s \in Seq(ByteValues) : s = <<>>
    <2>1. <<>> \in Seq(ByteValues)
      BY EmptySeq
    <2> QED BY ONLY <2>1
  <1>2. Converted(s) \in Seq(ByteValues)
    BY ConvertedType
  <1> DEFINE c == Converted(s)
  <1>3. c \in Seq(ByteValues)
    BY <1>2
  <1> HIDE DEF c
  <1>4. <<>> \o (<<>> \o c) = c
    BY ONLY <1>3
  <1> QED BY <1>1, <1>4, Zenon DEF c

\* acceptConn: a new entry for a client that has not said anything.
LEMMA EchoAccept ==
    ASSUME IInv, EchoInv, NEW e \in batch, NEW f \in Fds, AcceptConn(e, f)
    PROVE  EchoInv'
  <1>1. PICK i \in Free :
            /\ my_events' = [my_events EXCEPT ![i] = MyEvent(f, "IN", "recvMsg")]
            /\ tree' = [tree EXCEPT ![f] = [ptr |-> i, events |-> "IN"]]
    BY DEF AcceptConn
  <1>2. /\ i \in Slots /\ my_events[i].st = 0 /\ peer[f] = "waiting"
        /\ peer' = [peer EXCEPT ![f] = "open"]
        /\ UNCHANGED <<pending, sent, got, lossy>>
    BY DEF Free, AcceptConn
  <1>3. /\ my_events \in [Slots -> Entries] /\ tree \in [Sockets -> Registration \cup {NotRegistered}]
        /\ peer \in [Fds -> {"absent", "waiting", "open", "finished", "broken"}]
    BY Parts DEF TableInv, ClientsOK
  <1>4. /\ my_events'[i] = MyEvent(f, "IN", "recvMsg")
        /\ \A j \in Slots \ {i} : my_events'[j] = my_events[j]
        /\ tree'[f] = [ptr |-> i, events |-> "IN"]
        /\ \A g \in Fds : g # f => tree'[g] = tree[g]
    BY <1>1, <1>2, <1>3 DEF Sockets
  <1>5. Turns'
    <2>1. ASSUME NEW j \in Slots, my_events'[j].st = 1
          PROVE  my_events'[j].handler = "sendMsg" <=> my_events'[j].events = "OUT"
      <3>1. CASE j = i
        BY <1>4, <3>1 DEF MyEvent
      <3>2. CASE j # i
        BY <1>4, <2>1, <3>2 DEF EchoInv, Turns
      <3> QED BY <3>1, <3>2
    <2> QED BY <2>1 DEF Turns
  <1>6. Silent'
    BY <1>2, <1>3 DEF EchoInv, Silent
  <1>7. ASSUME NEW g \in Fds PROVE Echo(g)' /\ Filled(g)'
    <2>1. CASE g = f
      <3>1. sent'[f] = <<>> /\ got'[f] = <<>> /\ pending'[f] = <<>>
        BY <1>2 DEF EchoInv, Silent
      <3>2. Buffered(f)' = <<>>
        BY <1>4 DEF Buffered
      <3>3. Echo(f)'
        BY <3>1, <3>2, ConvertedEmpty DEF Echo
      <3>4. Filled(f)'
        BY <1>4 DEF Filled
      <3> QED BY <2>1, <3>3, <3>4
    <2>2. CASE g # f
      <3>1. /\ got'[g] = got[g] /\ sent'[g] = sent[g] /\ pending'[g] = pending[g]
            /\ g \notin lossy' => g \notin lossy
        BY <1>2
      <3> QED BY <1>2, <1>4, <2>2, <3>1, EchoOther
    <2> QED BY <2>1, <2>2
  <1> QED BY <1>5, <1>6, <1>7 DEF EchoInv

\* closeEvent: the entry and what was said are given up.
LEMMA EchoClose ==
    ASSUME IInv, EchoInv, NEW e \in batch, CloseEvent(e)
    PROVE  EchoInv'
  <1> DEFINE f == e.fd
             i == e.ptr
  <1>1. /\ i \in Slots /\ f \in Fds /\ f \in Sockets /\ my_events[i].fd = f /\ my_events[i].st = 1
        /\ tree \in [Sockets -> Registration \cup {NotRegistered}]
    BY EchoEntry DEF CloseEvent, Sockets
  <1>2. /\ my_events \in [Slots -> Entries]
        /\ peer \in [Fds -> {"absent", "waiting", "open", "finished", "broken"}]
        /\ sent \in [Fds -> Seq(ByteValues)] /\ got \in [Fds -> Seq(ByteValues)]
    BY Parts DEF TableInv, ClientsOK
  <1>3. /\ pending[f] = <<>>
        /\ tree' = [tree EXCEPT ![f] = NotRegistered]
        /\ peer' = [peer EXCEPT ![f] = "absent"]
        /\ sent' = [sent EXCEPT ![f] = <<>>]
        /\ got' = [got EXCEPT ![f] = <<>>]
        /\ lossy' = lossy \ {f}
        /\ my_events' = [my_events EXCEPT ![i] = Unused]
        /\ UNCHANGED pending
    BY <1>1 DEF CloseEvent, ResetMyEvent
  <1> HIDE DEF f, i
  <1>4. /\ my_events'[i] = Unused /\ \A j \in Slots \ {i} : my_events'[j] = my_events[j]
        /\ tree'[f] = NotRegistered
        /\ sent'[f] = <<>> /\ got'[f] = <<>> /\ pending'[f] = <<>>
        /\ \A g \in Fds : g # f =>
              /\ tree'[g] = tree[g] /\ sent'[g] = sent[g] /\ got'[g] = got[g]
              /\ pending'[g] = pending[g] /\ peer'[g] = peer[g] /\ (g \in lossy' <=> g \in lossy)
    BY <1>1, <1>2, <1>3 DEF Sockets
  <1>5. Turns'
    BY <1>4 DEF EchoInv, Turns, Unused
  <1>6. Silent'
    BY <1>4 DEF EchoInv, Silent
  <1>7. ASSUME NEW g \in Fds PROVE Echo(g)' /\ Filled(g)'
    <2>1. CASE g = f
      <3>1. Buffered(f)' = <<>> /\ Filled(f)'
        BY <1>4 DEF Buffered, Filled, NotRegistered
      <3>2. Echo(f)'
        BY <1>4, <3>1, ConvertedEmpty DEF Echo
      <3> QED BY <2>1, <3>1, <3>2
    <2>2. CASE g # f
      BY <1>1, <1>4, <2>2, EchoOther
    <2> QED BY <2>1, <2>2
  <1> QED BY <1>5, <1>6, <1>7 DEF EchoInv

\* recvMsg: what is read moves into the buffer.
LEMMA EchoRecv ==
    ASSUME IInv, EchoInv, NEW e \in batch, NEW n \in 1..BuffLen, RecvMsg(e, n)
    PROVE  EchoInv'
  <1> DEFINE f == e.fd
             buf == [i \in 1..n |-> ConvertChar(pending[f][i])]
  <1>1. /\ f \in Fds /\ my_events[e.ptr].fd = f /\ tree[f].events = "IN"
    BY EchoEntry DEF RecvMsg
  <1>2. /\ Dispatch(e, "recvMsg")
        /\ n <= Len(pending[f])
        /\ pending' = [pending EXCEPT ![f] = SubSeq(@, n + 1, Len(@))]
        /\ SetMyEvent(e.ptr, "OUT", "sendMsg", buf)
        /\ lossy' = IF StrLen(buf) < n THEN lossy \cup {f} ELSE lossy
        /\ UNCHANGED <<running, peer, sent, got>>
    BY <1>1 DEF RecvMsg
  <1>3. pending \in [Fds -> Seq(ByteValues)] /\ pending[f] \in Seq(ByteValues) /\ n \in Nat
    BY <1>1, Parts, ReactorAssumption DEF ClientsOK
  <1>4. pending'[f] = SubSeq(pending[f], n + 1, Len(pending[f]))
    BY <1>1, <1>2, <1>3
  <1>5. buf \o Converted(pending'[f]) = Converted(pending[f])
    BY <1>2, <1>3, <1>4, ConvertedSplit
  <1>6. StrLen(buf) \in 0..n /\ Len(buf) = n
    <2>1. ASSUME NEW i \in 1..n PROVE ConvertChar(pending[f][i]) \in ByteValues
      <3>1. pending[f][i] \in ByteValues
        BY <1>2, <1>3
      <3> QED BY <3>1 DEF ConvertChar, ByteValues
    <2>2. buf \in Seq(ByteValues) /\ Len(buf) = n
      BY <1>3, <2>1
    <2> HIDE DEF buf
    <2> QED BY <2>2, StrLenBound
  <1> HIDE DEF buf
  <1>7. ASSUME f \notin lossy'
        PROVE  /\ got'[f] \o (buf \o Converted(pending'[f])) = Converted(sent'[f])
               /\ StrLen(buf) = Len(buf)
    <2>1. f \notin lossy /\ StrLen(buf) = Len(buf)
      BY <1>2, <1>3, <1>6, <1>7
    <2>2. got[f] \o (<<>> \o Converted(pending[f])) = Converted(sent[f])
      BY <1>1, <2>1 DEF EchoInv, Echo, Buffered
    <2>3. <<>> \o Converted(pending[f]) = Converted(pending[f])
      BY <1>3, ConvertedType, ConcatEmptySeq
    <2> QED BY <1>2, <1>5, <2>1, <2>2, <2>3
  <1>8. \A g \in Fds : g # e.fd =>
              /\ got'[g] = got[g] /\ sent'[g] = sent[g] /\ pending'[g] = pending[g]
              /\ g \notin lossy' => g \notin lossy
    BY <1>2, <1>3
  <1> QED BY <1>2, <1>7, <1>8, EchoTurned

\* sendMsg: what is in the buffer goes to the client.
LEMMA EchoSend ==
    ASSUME IInv, EchoInv, NEW e \in batch, NEW w \in 0..BuffLen, SendMsg(e, w)
    PROVE  EchoInv'
  <1> DEFINE f == e.fd
             buf == my_events[e.ptr].buf
  <1>1. /\ f \in Fds /\ my_events[e.ptr].fd = f /\ tree[f].events = "OUT" /\ tree[f].ptr = e.ptr
        /\ my_events[e.ptr] \in Entries
    BY EchoEntry DEF SendMsg
  <1>2. /\ Dispatch(e, "sendMsg")
        /\ w <= my_events[e.ptr].len
        /\ got' = [got EXCEPT ![f] = @ \o SubSeq(buf, 1, w)]
        /\ SetMyEvent(e.ptr, "IN", "recvMsg", buf)
        /\ lossy' = IF w < my_events[e.ptr].len THEN lossy \cup {f} ELSE lossy
        /\ UNCHANGED <<running, peer, pending, sent>>
    BY <1>1 DEF SendMsg, ToWrite
  <1>3. /\ buf \in Seq(ByteValues) /\ my_events[e.ptr].len \in Nat /\ w \in Nat
        /\ got \in [Fds -> Seq(ByteValues)] /\ got[f] \in Seq(ByteValues)
        /\ pending[f] \in Seq(ByteValues)
    BY <1>1, Parts, ReactorAssumption DEF ClientsOK, Entries
  <1>4. got'[f] = got[f] \o SubSeq(buf, 1, w)
    BY <1>1, <1>2, <1>3
  <1>5. ASSUME f \notin lossy'
        PROVE  got'[f] \o (<<>> \o Converted(pending'[f])) = Converted(sent'[f])
    <2>1. f \notin lossy /\ w = my_events[e.ptr].len
      BY <1>2, <1>3, <1>5
    <2>2. w = Len(buf)
      BY <1>1, <2>1 DEF EchoInv, Filled
    <2>3. got'[f] = got[f] \o buf
      BY <1>3, <1>4, <2>2, SubSeqFull
    <2>4. got[f] \o (buf \o Converted(pending[f])) = Converted(sent[f])
      BY <1>1, <2>1 DEF EchoInv, Echo, Buffered
    <2>5. Converted(pending[f]) \in Seq(ByteValues)
      BY <1>3, ConvertedType
    <2>6. <<>> \o Converted(pending[f]) = Converted(pending[f])
      BY <2>5, ConcatEmptySeq
    <2>7. (got[f] \o buf) \o Converted(pending[f]) = got[f] \o (buf \o Converted(pending[f]))
      BY <1>3, <2>5, ThreeConcat
    <2> QED BY <1>2, <2>3, <2>4, <2>6, <2>7
  <1>6. \A g \in Fds : g # e.fd =>
              /\ got'[g] = got[g] /\ sent'[g] = sent[g] /\ pending'[g] = pending[g]
              /\ g \notin lossy' => g \notin lossy
    BY <1>2, <1>3
  <1> HIDE DEF buf
  <1> QED BY <1>2, <1>5, <1>6, EchoTurned

\* A client gets back, in order, what it has sent itself, letters in the other case
\* (convert_char), whichever slots it and the others are given and in whatever order
\* reads, writes, closings and new connections follow one another - unless it sends a
\* byte 0 or a write was short.
THEOREM EchoesAll == ReactorSpec => []Echoed
  <1>1. ReactorInit => EchoInv
    <2> SUFFICES ASSUME ReactorInit PROVE EchoInv
      OBVIOUS
    <2>1. Turns
      BY DEF ReactorInit, Turns, MyEvent, Unused
    <2>2. Silent
      BY DEF ReactorInit, Silent
    <2>3. ASSUME NEW f \in Fds PROVE Echo(f) /\ Filled(f)
      <3>1. /\ tree[f] = NotRegistered /\ got[f] = <<>> /\ pending[f] = <<>> /\ sent[f] = <<>>
        BY ReactorAssumption DEF ReactorInit, Sockets
      <3>2. Buffered(f) = <<>> /\ Filled(f)
        BY <3>1 DEF Buffered, Filled, NotRegistered
      <3> QED BY <3>1, <3>2, ConvertedEmpty DEF Echo
    <2> QED BY <2>1, <2>2, <2>3 DEF EchoInv
  <1>2. IInv /\ EchoInv /\ [ReactorNext]_reactorVars => EchoInv'
    <2> SUFFICES ASSUME IInv, EchoInv, [ReactorNext]_reactorVars PROVE EchoInv'
      OBVIOUS
    <2>1. CASE UNCHANGED reactorVars
      BY <2>1, EchoKept DEF reactorVars
    <2>2. CASE EpollWait
      BY <2>2, EchoKept DEF EpollWait
    <2>3. ASSUME NEW e \in batch, AcceptFails(e) \/ RecvFails(e) \/ SendFails(e) PROVE EchoInv'
      BY <2>3, EchoKept DEF AcceptFails, RecvFails, SendFails, Exit
    <2>4. CASE Loop
      BY <2>2, <2>3, <2>4, EchoAccept, EchoRecv, EchoSend, EchoClose DEF Loop
    <2>5. CASE ReactorNext /\ ~Loop
      BY <2>5, EchoClient DEF ReactorNext
    <2> QED BY <2>1, <2>4, <2>5
  <1>3. EchoInv => Echoed
    BY DEF EchoInv, Echo, Buffered, Converted, Echoed
  <1> QED BY <1>1, <1>2, <1>3, Inductive, PTL DEF ReactorSpec

-----------------------------------------------------------------------------
(***************************************************************************)
(* Sudoku.                                                                 *)
(***************************************************************************)

Here == [cur |-> cur_point, map |-> map]

-----------------------------------------------------------------------------
(***************************************************************************)
(* The stack of commands; what a command does is left open.                *)
(***************************************************************************)

\* A command whose undoing leads back to s can be pushed on commands that can be
\* undone from s.
LEMMA Pushed ==
    ASSUME NEW c \in Seq(Commands), NEW h \in Seq(Snapshots), NEW s \in Snapshots,
           NEW t \in Snapshots, NEW mp \in Commands,
           Undoable(c, h, s), Undone(mp, t) = s
    PROVE  Undoable(Append(c, mp), Append(h, s), t)
  <1> DEFINE cc == Append(c, mp)
             hh == Append(h, s)
             n == Len(c) + 1
  <1>1. n \in Nat /\ Len(cc) = n /\ Len(hh) = n /\ Len(h) = n - 1
    BY DEF Undoable
  <1>2. cc[n] = mp /\ hh[n] = s /\ \A k \in 1..(n - 1) : cc[k] = c[k] /\ hh[k] = h[k]
    BY <1>1
  <1>3. ASSUME NEW k \in 1..n
        PROVE  Undone(cc[k], IF k = n THEN t ELSE hh[k + 1]) = hh[k]
    <2>1. CASE k = n
      BY <1>2, <2>1
    <2>2. CASE k # n
      <3>1. k \in 1..(n - 1) /\ (k + 1 = n \/ k + 1 \in 1..(n - 1))
        BY <1>1, <2>2
      <3>2. Undone(c[k], IF k = Len(c) THEN s ELSE h[k + 1]) = h[k]
        BY <3>1 DEF Undoable
      <3>3. (IF k = Len(c) THEN s ELSE h[k + 1]) = hh[k + 1]
        BY <1>1, <1>2, <3>1
      <3> QED BY <1>2, <2>2, <3>1, <3>2, <3>3
    <2> QED BY <2>1, <2>2
  <1> QED BY <1>1, <1>3 DEF Undoable

\* Undoing the last command leaves commands that can be undone.
LEMMA Popped ==
    ASSUME NEW c \in Seq(Commands), NEW h \in Seq(Snapshots), NEW s,
           c # <<>>, Undoable(c, h, s)
    PROVE  /\ Undoable(Front(c), Front(h), Undone(Last(c), s))
           /\ Undone(Last(c), s) \in Snapshots
           /\ Front(c) \in Seq(Commands) /\ Front(h) \in Seq(Snapshots)
  <1> DEFINE n == Len(c)
  <1>1. n \in Nat \ {0} /\ Len(h) = n /\ h # <<>>
    BY DEF Undoable
  <1>2. /\ Front(c) \in Seq(Commands) /\ Len(Front(c)) = n - 1
        /\ Front(h) \in Seq(Snapshots) /\ Len(Front(h)) = n - 1
        /\ \A k \in 1..(n - 1) : Front(c)[k] = c[k] /\ Front(h)[k] = h[k]
    BY <1>1 DEF Front
  <1>3. Undone(Last(c), s) = h[n] /\ h[n] \in Snapshots
    <2>1. Last(c) = c[n]
      BY DEF Last
    <2> QED BY <1>1, <2>1 DEF Undoable
  <1>4. ASSUME NEW k \in 1..(n - 1)
        PROVE  Undone(Front(c)[k], IF k = n - 1 THEN h[n] ELSE Front(h)[k + 1]) = Front(h)[k]
    <2>1. k \in 1..n /\ k # n
      BY <1>1
    <2>2. Undone(c[k], h[k + 1]) = h[k]
      BY <2>1 DEF Undoable
    <2>3. (IF k = n - 1 THEN h[n] ELSE Front(h)[k + 1]) = h[k + 1]
      BY <1>1, <1>2
    <2> QED BY <1>2, <2>2, <2>3
  <1> QED BY <1>2, <1>3, <1>4 DEF Undoable

-----------------------------------------------------------------------------
(***************************************************************************)
(* Commands.                                                               *)
(***************************************************************************)

\* The grid has a first cell, and the digits are among the keys.
LEMMA Sizes == Side \in Nat /\ <<0, 0>> \in Cells /\ Digits \subseteq 0..Side
  <1>1. Box * Box \in Nat /\ Box * Box >= 1
    BY SudokuAssumption
  <1> QED BY <1>1 DEF Side, Cells, Lines, Digits

\* A digit is undone: the cell was not a given one, and is not now.
LEMMA DigitUndone ==
    ASSUME NEW m \in [Cells -> Features], NEW cur \in Cells, NEW v \in 0..Side,
           m[cur].st # "INITIAL_FIXED"
    PROVE  LET t == [cur |-> cur,
                     map |-> SetValueState(m, cur, [val |-> v, st |-> "USER_FIXED"])]
           IN  /\ t \in Snapshots
               /\ Undone([point |-> cur, old |-> m[cur]], t) = [cur |-> cur, map |-> m]
  <1> DEFINE f == [val |-> v, st |-> "USER_FIXED"]
             mm == [m EXCEPT ![cur] = f]
  <1>1. f \in Features
    BY DEF Features
  <1>2. SetValueState(m, cur, f) = mm
    BY DEF SetValueState
  <1>3. mm \in [Cells -> Features] /\ mm[cur].st = "USER_FIXED"
    BY <1>1
  <1>4. SetValueState(mm, cur, m[cur]) = [mm EXCEPT ![cur] = m[cur]]
    BY <1>3 DEF SetValueState
  <1>5. [mm EXCEPT ![cur] = m[cur]] = m
    OBVIOUS
  <1> QED BY <1>2, <1>3, <1>4, <1>5 DEF Undone, Snapshots

\* A move is undone: writing a value over itself changes nothing.
LEMMA MoveUndone ==
    ASSUME NEW m \in [Cells -> Features], NEW cur \in Cells, NEW c \in Cells
    PROVE  Undone([point |-> cur, old |-> m[cur]], [cur |-> c, map |-> m])
               = [cur |-> cur, map |-> m]
  <1>1. SetValueState(m, cur, m[cur]) = m
    BY DEF SetValueState
  <1> QED BY <1>1 DEF Undone

-----------------------------------------------------------------------------

\* A new game is a grid, and no commands.
LEMMA NewGames ==
    ASSUME NEW m, NEW cur, NEW c, NEW p, NEW h, NewGame(m, cur, c, p, h)
    PROVE  /\ m \in [Cells -> Features] /\ cur \in Cells
           /\ c \in Seq(Commands) /\ h \in Seq(Snapshots)
           /\ Undoable(c, h, [cur |-> cur, map |-> m])
  <1>1. PICK hash_map \in Draws, erased \in SUBSET Erasable : m = Generated(hash_map, erased)
    BY DEF NewGame
  <1>2. hash_map \in [Digits -> Digits]
    BY SudokuAssumption DEF Bijection, Injection
  <1>3. ASSUME NEW x \in Cells
        PROVE  [val |-> hash_map[MapPattern[x]], st |-> "INITIAL_FIXED"] \in Features
    BY <1>2, Sizes, SudokuAssumption DEF Features
  <1>4. \A x \in Cells : Blank[x] \in Features
    BY Sizes DEF Blank, Features
  <1>5. m \in [Cells -> Features]
    BY <1>1, <1>3, <1>4 DEF Generated
  <1> QED BY <1>5, Sizes DEF NewGame, Undoable

\* Every key keeps what undo needs.
LEMMA UndoStep ==
    ASSUME UndoRestores, [SudokuNext]_sudokuVars
    PROVE  UndoRestores'
  <1> DEFINE command == [point |-> cur_point, old |-> map[cur_point]]
  <1>1. /\ Here \in Snapshots /\ command \in Commands
        /\ com \in Seq(Commands) /\ past \in Seq(Snapshots)
        /\ Undoable(com, past, Here)
    BY DEF UndoRestores, SudokuTypeOK, Here, Snapshots, Commands
  <1>2. CASE UNCHANGED sudokuVars
    BY <1>2 DEF sudokuVars, UndoRestores, SudokuTypeOK
  <1>3. ASSUME NEW t \in Snapshots, Undone(command, t) = Here,
               cur_point' = t.cur, map' = t.map, Recorded, UNCHANGED <<file, playing>>
        PROVE  UndoRestores'
    <2>1. com' = Append(com, command) /\ past' = Append(past, Here)
      BY <1>3 DEF Recorded, Here
    <2>2. Undoable(com', past', t)
      BY <1>1, <1>3, <2>1, Pushed
    <2>3. t = [cur |-> cur_point', map |-> map'] /\ cur_point' \in Cells
          /\ map' \in [Cells -> Features]
      BY <1>3 DEF Snapshots
    <2>4. SudokuTypeOK'
      BY <1>1, <1>3, <2>1, <2>3 DEF UndoRestores, SudokuTypeOK
    <2> QED BY <1>3, <2>2, <2>3, <2>4 DEF UndoRestores
  <1>4. ASSUME NEW v \in 0..Side, Digit(v) PROVE UndoRestores'
    <2> DEFINE f == [val |-> v, st |-> "USER_FIXED"]
               t == [cur |-> cur_point, map |-> SetValueState(map, cur_point, f)]
    <2>1. t \in Snapshots /\ Undone(command, t) = Here
      BY <1>4, DigitUndone DEF Digit, UndoRestores, SudokuTypeOK, Here
    <2>2. cur_point' = t.cur /\ map' = t.map /\ Recorded /\ UNCHANGED <<file, playing>>
      BY <1>4 DEF Digit
    <2> HIDE DEF t, command
    <2> QED BY <1>3, <2>1, <2>2
  <1>5. ASSUME NEW c \in Cells, Move(c) PROVE UndoRestores'
    <2> DEFINE t == [cur |-> c, map |-> map]
    <2>1. t \in Snapshots /\ Undone(command, t) = Here
      BY MoveUndone DEF UndoRestores, SudokuTypeOK, Here, Snapshots
    <2>2. cur_point' = t.cur /\ map' = t.map /\ Recorded /\ UNCHANGED <<file, playing>>
      BY <1>5 DEF Move
    <2> HIDE DEF t, command
    <2> QED BY <1>3, <2>1, <2>2
  <1>6. CASE Undo
    <2> DEFINE t == Undone(Last(com), Here)
    <2>1. /\ Undoable(Front(com), Front(past), t) /\ t \in Snapshots
          /\ Front(com) \in Seq(Commands) /\ Front(past) \in Seq(Snapshots)
      BY <1>1, <1>6, Popped DEF Undo
    <2>2. /\ cur_point' = t.cur /\ map' = t.map
          /\ com' = Front(com) /\ past' = Front(past)
          /\ UNCHANGED <<file, playing>>
      BY <1>6 DEF Undo, Here
    <2> HIDE DEF t
    <2>3. t = [cur |-> cur_point', map |-> map'] /\ cur_point' \in Cells
          /\ map' \in [Cells -> Features]
      BY <2>1, <2>2 DEF Snapshots
    <2>4. SudokuTypeOK'
      BY <2>1, <2>2, <2>3 DEF UndoRestores, SudokuTypeOK
    <2> QED BY <2>1, <2>2, <2>3, <2>4 DEF UndoRestores
  <1>7. CASE AskCheck
    <2>1. playing' \in BOOLEAN
      BY <1>7 DEF AskCheck
    <2> QED BY <1>7, <2>1 DEF AskCheck, UndoRestores, SudokuTypeOK
  <1>8. CASE Quit
    <2>1. UNCHANGED <<map, cur_point, com, past>> /\ playing' = FALSE /\ (file' = file \/ file' = Save)
      BY <1>8 DEF Quit
    <2>2. CASE file' = file
      BY <2>1, <2>2 DEF UndoRestores, SudokuTypeOK
    <2>3. CASE file' = Save
      <3>1. /\ file'.cur = cur_point /\ file'.map = map /\ file'.com = com /\ file'.past = past
            /\ file' \in [cur : Cells, map : [Cells -> Features],
                          com : Seq(Commands), past : Seq(Snapshots)]
        BY <2>3 DEF Save, UndoRestores, SudokuTypeOK
      <3> QED BY <2>1, <3>1 DEF UndoRestores, SudokuTypeOK
    <2> QED BY <2>1, <2>2, <2>3
  <1>9. CASE Again
    <2>1. /\ map' \in [Cells -> Features] /\ cur_point' \in Cells
          /\ com' \in Seq(Commands) /\ past' \in Seq(Snapshots)
          /\ Undoable(com', past', [cur |-> cur_point', map |-> map'])
      BY <1>9, NewGames DEF Again
    <2>2. playing' = TRUE /\ UNCHANGED file
      BY <1>9 DEF Again
    <2> QED BY <2>1, <2>2 DEF UndoRestores, SudokuTypeOK
  <1>10. CASE Load
    <2>1. /\ map' = file.map /\ cur_point' = file.cur /\ com' = file.com /\ past' = file.past
          /\ playing' = TRUE /\ UNCHANGED file /\ file # NoFile
      BY <1>10 DEF Load
    <2>2. file \in [cur : Cells, map : [Cells -> Features],
                    com : Seq(Commands), past : Seq(Snapshots)]
      BY <2>1 DEF UndoRestores, SudokuTypeOK
    <2> QED BY <2>1, <2>2 DEF UndoRestores, SudokuTypeOK
  <1> QED BY <1>2, <1>4, <1>5, <1>6, <1>7, <1>8, <1>9, <1>10 DEF SudokuNext

\* Each 'u' restores what was there before the last command that is not yet
\* undone (scene.cpp:238-245).
THEOREM UndoGoesBack == SudokuSpec => []UndoRestores
  <1>1. SudokuInit => UndoRestores
    BY NewGames DEF SudokuInit, UndoRestores, SudokuTypeOK
  <1> QED BY <1>1, UndoStep, PTL DEF SudokuSpec

=============================================================================
