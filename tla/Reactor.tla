------------------------------- MODULE Reactor ------------------------------
(***************************************************************************)
(* InterestingCode/reactor_single_process.c: one thread, level-triggered   *)
(* epoll, and a table of events whose entries carry a callback.            *)
(*                                                                         *)
(* epoll_wait hands out a batch of events, each with a pointer into the    *)
(* table; they are dispatched one after the other, while the handlers      *)
(* change the table and the registrations.                                 *)
(***************************************************************************)
EXTENDS Naturals, Sequences, SequencesExt

CONSTANTS
    Fds,        \* descriptors of connections; one is used again once closed
    Listener,   \* the descriptor of the listening socket
    None,
    MaxEvents,  \* MAX_EVENTS: slots for connections; the one after is the listener's
    BuffLen,    \* BUFFLEN
    SendRoom,   \* bytes the send buffer of a connection holds
    Streams     \* bound: for each descriptor, what its clients may send, or the start of it

ByteValues == {"a", "A", "1", "nul"}

ASSUME ReactorAssumption ==
    /\ Listener \notin Fds /\ None \notin Fds \cup {Listener}
    /\ MaxEvents \in Nat /\ BuffLen \in Nat /\ SendRoom \in Nat
    /\ Streams \in [Fds -> SUBSET Seq(ByteValues)]

VARIABLES
    my_events,  \* the table
    tree,       \* epoll: for each registered descriptor its pointer and its interest
    batch,      \* events of the last epoll_wait that are still to be dispatched
    running,
    peer,       \* what the client of a descriptor has done
    pending,    \* bytes in the receive buffer of the kernel
    room,       \* what is free of the send buffer of the kernel
    sent, got,  \* history: bytes the client has sent, and that were written to it
    lossy       \* history: descriptors with a byte 0, or with a short write

reactorVars == <<my_events, tree, batch, running, peer, pending, room, sent, got, lossy>>

Slots == 0..MaxEvents
Sockets == Fds \cup {Listener}

Unused == [st |-> 0, fd |-> None, events |-> "none", handler |-> "none",
           buf |-> <<>>, len |-> 0]

Registration == [ptr : Slots, events : {"IN", "OUT"}]
NotRegistered == [ptr |-> MaxEvents, events |-> "none"]

\* initMyEvent.
MyEvent(fd, events, handler) ==
    [st |-> 1, fd |-> fd, events |-> events, handler |-> handler, buf |-> <<>>, len |-> 0]

\* main and initListenSocket.
ReactorInit ==
    /\ my_events = [i \in Slots |-> IF i = MaxEvents THEN MyEvent(Listener, "IN", "acceptConn")
                                                     ELSE Unused]
    /\ tree = [s \in Sockets |-> IF s = Listener THEN [ptr |-> MaxEvents, events |-> "IN"]
                                                 ELSE NotRegistered]
    /\ batch = {}
    /\ running = TRUE
    /\ peer = [f \in Fds |-> "absent"]
    /\ pending = [f \in Fds |-> <<>>]
    /\ room = [f \in Fds |-> SendRoom]
    /\ sent = [f \in Fds |-> <<>>]
    /\ got = [f \in Fds |-> <<>>]
    /\ lossy = {}

-----------------------------------------------------------------------------
(***************************************************************************)
(* Clients connect, send, read their echoes or not, finish, and break the  *)
(* connection off.                                                         *)
(***************************************************************************)

kernel == <<my_events, tree, batch, running>>

Connects(f) ==
    /\ running
    /\ peer[f] = "absent"
    /\ peer' = [peer EXCEPT ![f] = "waiting"]
    /\ UNCHANGED <<kernel, pending, room, sent, got, lossy>>

Sends(f, b) ==
    /\ peer[f] = "open"
    /\ \E s \in Streams[f] : IsPrefix(Append(sent[f], b), s)
    /\ pending' = [pending EXCEPT ![f] = Append(@, b)]
    /\ sent' = [sent EXCEPT ![f] = Append(@, b)]
    /\ UNCHANGED <<kernel, peer, room, got, lossy>>

Reads(f) ==
    /\ peer[f] \in {"open", "finished"}
    /\ room[f] < SendRoom
    /\ room' = [room EXCEPT ![f] = @ + 1]
    /\ UNCHANGED <<kernel, peer, pending, sent, got, lossy>>

Finishes(f) ==
    /\ peer[f] = "open"
    /\ peer' = [peer EXCEPT ![f] = "finished"]
    /\ UNCHANGED <<kernel, pending, room, sent, got, lossy>>

Breaks(f) ==
    /\ peer[f] \in {"open", "finished"}
    /\ peer' = [peer EXCEPT ![f] = "broken"]
    /\ UNCHANGED <<kernel, pending, room, sent, got, lossy>>

-----------------------------------------------------------------------------
(***************************************************************************)
(* epoll_wait.  A socket can be written to while there is room in its send *)
(* buffer, which a client that does not read leaves full; an error makes   *)
(* it ready for anything.                                                  *)
(***************************************************************************)

Registered(s) == tree[s] # NotRegistered

Occurs(s, events) ==
    IF s = Listener THEN \E f \in Fds : peer[f] = "waiting"
    ELSE \/ peer[s] = "broken"
         \/ events = "IN" /\ (pending[s] # <<>> \/ peer[s] = "finished")
         \/ events = "OUT" /\ room[s] > 0

Ready(s) == Registered(s) /\ Occurs(s, tree[s].events)

EpollWait ==
    /\ running
    /\ batch = {}
    /\ \E s \in Sockets : Ready(s)
    /\ batch' = {[fd |-> s, ptr |-> tree[s].ptr, events |-> tree[s].events] :
                    s \in {t \in Sockets : Ready(t)}}
    /\ UNCHANGED <<my_events, tree, running, peer, pending, room, sent, got, lossy>>

\* The loop of main: an event is dispatched if the entry it points to is still
\* interested in it, to the handler the entry has now.
Dispatch(e, handler) ==
    /\ running
    /\ e \in batch
    /\ batch' = batch \ {e}
    /\ my_events[e.ptr].events = e.events
    /\ my_events[e.ptr].handler = handler

\* myError and exit(-1).
Exit == running' = FALSE /\ UNCHANGED <<my_events, tree, peer, pending, room, sent, got, lossy>>

-----------------------------------------------------------------------------
(***************************************************************************)
(* acceptConn.                                                             *)
(***************************************************************************)

\* Mutant: the search for a free slot does not look at st.
AnyFree == {i \in Slots : i < MaxEvents}

Free == {i \in Slots : i < MaxEvents /\ my_events[i].st = 0}

\* One connection more than there are slots ends the process, as does a client
\* that gives up before it is accepted.
AcceptFails(e) ==
    /\ Dispatch(e, "acceptConn")
    /\ Exit

AcceptConn(e, f) ==
    /\ Dispatch(e, "acceptConn")
    /\ peer[f] = "waiting"
    /\ \E i \in Free :
        /\ \A j \in Free : i <= j
        /\ my_events' = [my_events EXCEPT ![i] = MyEvent(f, "IN", "recvMsg")]
        /\ tree' = [tree EXCEPT ![f] = [ptr |-> i, events |-> "IN"]]
    /\ peer' = [peer EXCEPT ![f] = "open"]
    /\ UNCHANGED <<running, pending, room, sent, got, lossy>>

-----------------------------------------------------------------------------
(***************************************************************************)
(* recvMsg.                                                                *)
(***************************************************************************)

\* convert_char: letters change their case.
ConvertChar(b) == CASE b = "a" -> "A" [] b = "A" -> "a" [] OTHER -> b

\* strlen: what comes before the first byte 0.
StrLen(s) ==
    CHOOSE n \in 0..Len(s) :
        /\ n = Len(s) \/ s[n + 1] = "nul"
        /\ \A i \in 1..n : s[i] # "nul"

\* Mutant: the entry keeps its old interest.
HalfSetMyEvent(i, events, handler, buf) ==
    /\ my_events' = [my_events EXCEPT ![i].handler = handler,
                                      ![i].buf = buf, ![i].len = StrLen(buf)]
    /\ tree' = [tree EXCEPT ![my_events[i].fd].events = events]

\* Mutant: what was sent already is still in the buffer.
FullSetMyEvent(i, events, handler, buf) ==
    /\ my_events' = [my_events EXCEPT ![i].events = events, ![i].handler = handler,
                                      ![i].buf = @ \o buf, ![i].len = StrLen(buf)]
    /\ tree' = [tree EXCEPT ![my_events[i].fd].events = events]

\* setMyEvent and registerEvent(EPOLL_CTL_MOD).
SetMyEvent(i, events, handler, buf) ==
    /\ my_events' = [my_events EXCEPT ![i] =
            [st |-> @.st, fd |-> @.fd, events |-> events, handler |-> handler,
             buf |-> buf, len |-> StrLen(buf)]]
    /\ tree' = [tree EXCEPT ![my_events[i].fd] = [ptr |-> @.ptr, events |-> events]]

RecvMsg(e, n) ==
    /\ Dispatch(e, "recvMsg")
    /\ LET fd == my_events[e.ptr].fd
           buf == [i \in 1..n |-> ConvertChar(pending[fd][i])]
       IN  /\ peer[fd] # "broken"
           /\ n <= Len(pending[fd]) /\ n < BuffLen
           /\ pending' = [pending EXCEPT ![fd] = SubSeq(@, n + 1, Len(@))]
           /\ SetMyEvent(e.ptr, "OUT", "sendMsg", buf)
           /\ lossy' = IF StrLen(buf) < n THEN lossy \cup {fd} ELSE lossy
    /\ UNCHANGED <<running, peer, room, sent, got>>

\* A failed read ends the process.
RecvFails(e) ==
    /\ Dispatch(e, "recvMsg")
    /\ peer[my_events[e.ptr].fd] = "broken"
    /\ Exit

\* Mutant: the slot is not given back.
LeakedSlot(i) == my_events[i]

ResetMyEvent(i) == Unused

\* closeEvent; the descriptor can be given to another client.
CloseEvent(e) ==
    /\ Dispatch(e, "recvMsg")
    /\ LET fd == my_events[e.ptr].fd
       IN  /\ peer[fd] = "finished" /\ pending[fd] = <<>>
           /\ tree' = [tree EXCEPT ![fd] = NotRegistered]
           /\ peer' = [peer EXCEPT ![fd] = "absent"]
           /\ room' = [room EXCEPT ![fd] = SendRoom]
           /\ sent' = [sent EXCEPT ![fd] = <<>>]
           /\ got' = [got EXCEPT ![fd] = <<>>]
           /\ lossy' = lossy \ {fd}
    /\ my_events' = [my_events EXCEPT ![e.ptr] = ResetMyEvent(e.ptr)]
    /\ UNCHANGED <<running, pending>>

-----------------------------------------------------------------------------
(***************************************************************************)
(* sendMsg.                                                                *)
(***************************************************************************)

\* What write is asked to write.
ToWrite(i) == my_events[i].len

\* The kernel takes w bytes, at most what there is room for; the rest is given up.
SendMsg(e, w) ==
    /\ Dispatch(e, "sendMsg")
    /\ LET m == my_events[e.ptr]
       IN  /\ peer[m.fd] # "broken"
           /\ w <= ToWrite(e.ptr) /\ w <= room[m.fd] /\ (w = 0 => m.len = 0)
           /\ room' = [room EXCEPT ![m.fd] = @ - w]
           /\ got' = [got EXCEPT ![m.fd] = @ \o SubSeq(m.buf, 1, w)]
           /\ SetMyEvent(e.ptr, "IN", "recvMsg", m.buf)
           /\ lossy' = IF w < m.len THEN lossy \cup {m.fd} ELSE lossy
    /\ UNCHANGED <<running, peer, pending, sent>>

\* A failed write ends the process; so would one that finds no room (EventsCurrent).
SendFails(e) ==
    /\ Dispatch(e, "sendMsg")
    /\ peer[my_events[e.ptr].fd] = "broken"
    /\ Exit

-----------------------------------------------------------------------------

Loop ==
    \/ EpollWait
    \/ \E e \in batch :
        \/ AcceptFails(e) \/ (\E f \in Fds : AcceptConn(e, f))
        \/ (\E n \in 1..BuffLen : RecvMsg(e, n)) \/ RecvFails(e) \/ CloseEvent(e)
        \/ (\E w \in 0..BuffLen : SendMsg(e, w)) \/ SendFails(e)

ReactorNext ==
    \/ Loop
    \/ \E f \in Fds :
        \/ Connects(f) \/ (\E b \in ByteValues : Sends(f, b))
        \/ Reads(f) \/ Finishes(f) \/ Breaks(f)

ReactorFairness == WF_reactorVars(Loop)

ReactorSpec == ReactorInit /\ [][ReactorNext]_reactorVars /\ ReactorFairness

-----------------------------------------------------------------------------
(***************************************************************************)
(* Properties.                                                             *)
(***************************************************************************)

ReactorTypeOK ==
    /\ my_events \in [Slots -> [st : {0, 1}, fd : Sockets \cup {None},
                                events : {"IN", "OUT", "none"},
                                handler : {"acceptConn", "recvMsg", "sendMsg", "none"},
                                buf : Seq(ByteValues), len : Nat]]
    /\ tree \in [Sockets -> Registration \cup {NotRegistered}]
    /\ batch \subseteq [fd : Sockets, ptr : Slots, events : {"IN", "OUT"}]
    /\ running \in BOOLEAN
    /\ peer \in [Fds -> {"absent", "waiting", "open", "finished", "broken"}]
    /\ pending \in [Fds -> Seq(ByteValues)]
    /\ room \in [Fds -> 0..SendRoom]
    /\ sent \in [Fds -> Seq(ByteValues)]
    /\ got \in [Fds -> Seq(ByteValues)]
    /\ lossy \subseteq Fds

\* The table and the registrations of epoll agree: an entry is in use exactly
\* while its descriptor is registered, with the same interest and a pointer to
\* this entry, which no other descriptor has (reactor_single_process.c:55-57).
TableIsTree ==
    /\ ReactorTypeOK
    /\ \A s \in Sockets : Registered(s) =>
        /\ my_events[tree[s].ptr].st = 1
        /\ my_events[tree[s].ptr].fd = s
        /\ my_events[tree[s].ptr].events = tree[s].events
    /\ \A i \in Slots : my_events[i].st = 1 =>
        /\ my_events[i].fd \in Sockets
        /\ Registered(my_events[i].fd)
        /\ tree[my_events[i].fd].ptr = i

\* The entry an event points to is still that of its descriptor, and interested in it.
EntriesCurrent ==
    \A e \in batch :
        /\ Registered(e.fd)
        /\ tree[e.fd].ptr = e.ptr
        /\ my_events[e.ptr].fd = e.fd
        /\ my_events[e.ptr].events = e.events

\* There is still something to read, room to write, a client to accept.
StillReady == \A e \in batch : Occurs(e.fd, e.events)

\* An event that waits for its turn still belongs to the entry it points to, that
\* entry is still interested in it, and what it reports is still so, whatever the
\* handlers of earlier events of the batch have closed, accepted, re-registered or
\* written (the comment at reactor_single_process.c:110 and the message at 147 expect
\* it; a write without room would end the process, an accept without a client block it).
EventsCurrent == EntriesCurrent /\ StillReady

\* A client gets back, in order, what it has sent itself, letters in the other
\* case, and is owed only what is in its buffer or not yet read - unless it sends
\* a byte 0 or a write was short: the rest of the buffer is then lost.
Echoed ==
    \A f \in Fds :
        LET i == tree[f].ptr
            answer == [k \in 1..Len(sent[f]) |-> ConvertChar(sent[f][k])]
            owed == (IF tree[f].events = "OUT" THEN my_events[i].buf ELSE <<>>)
                    \o [k \in 1..Len(pending[f]) |-> ConvertChar(pending[f][k])]
        IN  f \notin lossy => got[f] \o owed = answer

\* The client leaves its echoes unread: its entry waits for room, and that alone.
Stalled(f) == tree[f].events = "OUT" /\ room[f] = 0 /\ peer[f] # "broken"

\* The process ends only at a client that broke off, or that was not accepted.
Ended == ~running /\ \E g \in Fds : peer[g] \in {"broken", "waiting"}

\* No client's bytes stay unread for ever, however many others the loop serves and
\* whatever these do - a client that reads nothing stalls itself, one that finishes
\* leaves -, unless the client itself never again reads what is echoed to it (there
\* is then no EPOLLOUT, and its entry never returns to EPOLLIN), or the process ends;
\* this is the fault of a client that broke off or of an accept that failed, as the
\* program exits at any error (reactor_single_process.c:92-124, 178, 250-254, 336).
EveryoneServed ==
    \A f \in Fds : pending[f] # <<>> ~> (pending[f] = <<>> \/ []Stalled(f) \/ Ended)

=============================================================================
