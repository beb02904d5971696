------------------------------ MODULE WebServer ------------------------------
(***************************************************************************)
(* The web server (src/webserver): the main thread with its epoll loop      *)
(* (main.cpp), the thread pool (threadpool.h) and the connections they      *)
(* share (http_conn.h).  The main thread accepts, reads, writes and closes; *)
(* a worker parses a request and prepares the answer.  Every descriptor is  *)
(* registered with EPOLLONESHOT, which is all that keeps two threads off    *)
(* one connection.                                                         *)
(*                                                                         *)
(* What a request says is left open: parsing may find it incomplete or      *)
(* answer it.  Nothing arms the alarm (main.cpp:154), so tick() never runs. *)
(***************************************************************************)
EXTENDS Integers, Sequences, FiniteSets

CONSTANTS
  Fds,          (* the descriptors accept may return                         *)
  Workers,      (* the threads of the pool                                   *)
  MaxUsers,     (* MAX_EVENT_NUMBER, the limit for m_user_cnt                *)
  MaxRequests   (* m_max_requests, the limit of m_workqueue                  *)

ASSUME WebAssumption ==
  /\ IsFiniteSet(Fds) /\ Fds \subseteq Nat \ {0}
  /\ IsFiniteSet(Workers)
  /\ MaxUsers \in Nat /\ MaxRequests \in Nat
  /\ MaxUsers <= MaxRequests      \* both are 10000

VARIABLES
  epoll,    (* of each descriptor: closed, or waiting for input or for room   *)
            (* to write, or off: its one event is spent                      *)
  unread,   (* the descriptors with input in the kernel                      *)
  hup,      (* the descriptors whose client has gone                         *)
  sock,     (* m_sockfd of users[fd]                                         *)
  ready,    (* the connections with bytes_to_send > 0                        *)
  timers,   (* the connections with a node in timer_lst                      *)
  count,    (* m_user_cnt                                                    *)
  queue,    (* m_workqueue                                                   *)
  permits,  (* m_queuestat                                                   *)
  stage,    (* where a worker is in run()                                    *)
  job       (* the connection it works on                                    *)

net == <<unread, hup>>
pool == <<queue, permits>>
workers == <<stage, job>>
vars == <<epoll, net, sock, ready, timers, count, pool, workers>>

TypeOK ==
  /\ epoll \in [Fds -> {"closed", "in", "out", "off"}]
  /\ unread \subseteq Fds /\ hup \subseteq Fds
  /\ sock \in [Fds -> Fds \cup {0}]
  /\ ready \subseteq Fds /\ timers \subseteq Fds
  /\ count \in Nat
  /\ queue \in Seq(Fds) /\ permits \in Nat
  /\ stage \in [Workers -> {"idle", "woken", "busy", "in", "out"}]
  /\ job \in [Workers -> Fds \cup {0}]

Init ==
  /\ epoll = [f \in Fds |-> "closed"]
  /\ unread = {} /\ hup = {}
  /\ sock = [f \in Fds |-> 0]
  /\ ready = {} /\ timers = {} /\ count = 0
  /\ queue = <<>> /\ permits = 0
  /\ stage = [w \in Workers |-> "idle"]
  /\ job = [w \in Workers |-> 0]

Open == {f \in Fds : epoll[f] # "closed"}

-----------------------------------------------------------------------------
(* The clients.                                                            *)

ClientSends(f) ==
  /\ f \in Open \ hup
  /\ unread' = unread \cup {f}
  /\ UNCHANGED <<epoll, hup, sock, ready, timers, count, pool, workers>>

ClientCloses(f) ==
  /\ f \in Open \ hup
  /\ hup' = hup \cup {f}
  /\ UNCHANGED <<epoll, unread, sock, ready, timers, count, pool, workers>>

-----------------------------------------------------------------------------
(* The main thread: one event at a time, from epoll_wait to epoll_wait.     *)

(* init() clears READ_BUFFER_SIZE bytes from m_write_buf on, which has       *)
(* WRITE_BUFFER_SIZE: the rest of the object and the beginning of the next   *)
(* one in users[], m_sockfd among it, become 0.                             *)
Wiped(s, f) == [g \in Fds |-> IF g = f + 1 THEN 0 ELSE s[g]]

(* epoll_ctl(MOD) for the descriptor an object believes it has. *)
Modfd(fd, f, e) == IF fd = f THEN [epoll EXCEPT ![f] = e] ELSE [epoll EXCEPT ![f] = "off"]

(* Mutant: one client more than there is room for. *)
AcceptOneMore(f) ==
  /\ epoll[f] = "closed" /\ count <= MaxUsers
  /\ epoll' = [epoll EXCEPT ![f] = "in"]
  /\ ready' = ready \ {f}
  /\ sock' = Wiped([sock EXCEPT ![f] = f], f)
  /\ timers' = timers \cup {f}
  /\ count' = count + 1
  /\ UNCHANGED <<net, pool, workers>>

(* A client that finds MaxUsers others is sent away at once. *)
Accept(f) ==
  /\ epoll[f] = "closed" /\ count < MaxUsers
  /\ epoll' = [epoll EXCEPT ![f] = "in"]
  /\ ready' = ready \ {f}
  /\ sock' = Wiped([sock EXCEPT ![f] = f], f)
  /\ timers' = timers \cup {f}
  /\ count' = count + 1
  /\ UNCHANGED <<net, pool, workers>>

(* Mutant: close_conn() is called too, as in main.cpp:242. *)
CloseTwice(f) ==
  /\ epoll' = [epoll EXCEPT ![f] = "closed"]
  /\ unread' = unread \ {f} /\ hup' = hup \ {f}
  /\ timers' = timers \ {f}
  /\ count' = count - 2
  /\ UNCHANGED <<sock, pool, workers>>

(* cb_func and del_timer: the descriptor is gone with what the kernel has of *)
(* it; the object keeps what it holds.                                      *)
CloseFd(f) ==
  /\ epoll' = [epoll EXCEPT ![f] = "closed"]
  /\ unread' = unread \ {f} /\ hup' = hup \ {f}
  /\ timers' = timers \ {f}
  /\ count' = count - 1
  /\ UNCHANGED <<sock, pool, workers>>

Hangup(f) ==
  /\ epoll[f] \in {"in", "out"} /\ f \in hup
  /\ CloseFd(f) /\ UNCHANGED ready

(* threadpool::append, whose answer main does not look at. *)
Enqueue(f) ==
  IF Len(queue) < MaxRequests
    THEN queue' = Append(queue, f) /\ permits' = permits + 1
    ELSE UNCHANGED pool

(* Mutant: read_conn registers the descriptor again (http_conn.h:752). *)
ReadAndArm(f) ==
  /\ epoll[f] = "in" /\ f \in unread \ hup /\ sock[f] = f
  /\ unread' = unread \ {f}
  /\ Enqueue(f)
  /\ UNCHANGED <<epoll, hup, sock, ready, timers, count, workers>>

Read(f) ==
  /\ epoll[f] = "in" /\ f \in unread \ hup /\ sock[f] = f
  /\ epoll' = [epoll EXCEPT ![f] = "off"]
  /\ unread' = unread \ {f}
  /\ Enqueue(f)
  /\ UNCHANGED <<hup, sock, ready, timers, count, workers>>

(* The buffer is full, recv fails, or the object has another descriptor. *)
ReadFails(f) ==
  /\ epoll[f] = "in" /\ f \in unread
  /\ CloseFd(f) /\ UNCHANGED ready

WriteBlocks(f) ==
  /\ epoll[f] = "out" /\ sock[f] = f
  /\ UNCHANGED vars

(* The answer is written; the connection stays.  Written to descriptor 0 it  *)
(* goes to the terminal, and the descriptor of the client is not armed.      *)
WriteKeep(f) ==
  /\ epoll[f] = "out"
  /\ epoll' = Modfd(sock[f], f, "in")
  /\ sock' = Wiped(sock, f)
  /\ ready' = ready \ {f}
  /\ UNCHANGED <<net, timers, count, pool, workers>>

(* The answer is written and the connection is not kept, or writev fails. *)
WriteClose(f) ==
  /\ epoll[f] = "out"
  /\ CloseFd(f)
  /\ \/ ready' = ready \ {f}
     \/ UNCHANGED ready

-----------------------------------------------------------------------------
(* A worker: sem::wait, the queue, process_read and process_write, modfd.   *)

Moves(w, from, next) == stage[w] = from /\ stage' = [stage EXCEPT ![w] = next]

(* Mutant: sem_wait is interrupted and its answer not looked at. *)
WakeAnyway(w) ==
  /\ Moves(w, "idle", "woken")
  /\ permits' = IF permits > 0 THEN permits - 1 ELSE 0
  /\ UNCHANGED <<epoll, net, sock, ready, timers, count, queue, job>>

Wake(w) ==
  /\ Moves(w, "idle", "woken")
  /\ permits > 0 /\ permits' = permits - 1
  /\ UNCHANGED <<epoll, net, sock, ready, timers, count, queue, job>>

Take(w) ==
  /\ Moves(w, "woken", "busy")
  /\ job' = [job EXCEPT ![w] = Head(queue)]
  /\ queue' = Tail(queue)
  /\ UNCHANGED <<epoll, net, sock, ready, timers, count, permits>>

Incomplete(w) ==
  /\ Moves(w, "busy", "in")
  /\ UNCHANGED <<epoll, net, sock, ready, timers, count, pool, job>>

Answer(w) ==
  /\ Moves(w, "busy", "out")
  /\ ready' = ready \cup {job[w]}
  /\ UNCHANGED <<epoll, net, sock, timers, count, pool, job>>

(* Mutant: an incomplete request is left without a modfd. *)
RearmAnswered(w) ==
  /\ stage[w] \in {"in", "out"}
  /\ epoll' = IF stage[w] = "out" THEN Modfd(sock[job[w]], job[w], "out") ELSE epoll
  /\ stage' = [stage EXCEPT ![w] = "idle"]
  /\ UNCHANGED <<net, sock, ready, timers, count, pool, job>>

(* Mutant: the same event for every request. *)
RearmOut(w) ==
  /\ stage[w] \in {"in", "out"}
  /\ epoll' = Modfd(sock[job[w]], job[w], "out")
  /\ stage' = [stage EXCEPT ![w] = "idle"]
  /\ UNCHANGED <<net, sock, ready, timers, count, pool, job>>

Rearm(w) ==
  /\ stage[w] \in {"in", "out"}
  /\ epoll' = Modfd(sock[job[w]], job[w], stage[w])
  /\ stage' = [stage EXCEPT ![w] = "idle"]
  /\ UNCHANGED <<net, sock, ready, timers, count, pool, job>>

-----------------------------------------------------------------------------
Client(f) == ClientSends(f) \/ ClientCloses(f)
Event(f) == Accept(f) \/ Hangup(f) \/ Read(f) \/ ReadFails(f)
Writable(f) == WriteBlocks(f) \/ WriteKeep(f) \/ WriteClose(f)
Work(w) == Wake(w) \/ Take(w) \/ Incomplete(w) \/ Answer(w) \/ Rearm(w)

Next == \/ \E f \in Fds : Client(f) \/ Event(f) \/ Writable(f)
        \/ \E w \in Workers : Work(w)

Spec == Init /\ [][Next]_vars
FairSpec == Spec /\ \A w \in Workers : WF_vars(Work(w))

-----------------------------------------------------------------------------
(* Properties.                                                             *)

Busy == {w \in Workers : stage[w] \in {"busy", "in", "out"}}

(* A connection is in the queue at most once or with at most one worker, and *)
(* for that time epoll reports nothing about it: the main thread and the     *)
(* workers never use one http_conn together (EPOLLONESHOT, modfd only at the *)
(* end of process()).                                                      *)
OneOwner ==
  /\ \A i \in DOMAIN queue :
       /\ epoll[queue[i]] = "off"
       /\ \A j \in DOMAIN queue : queue[i] = queue[j] => i = j
       /\ \A w \in Busy : job[w] # queue[i]
  /\ \A w \in Busy :
       /\ job[w] \in Fds /\ epoll[job[w]] = "off"
       /\ \A v \in Busy : job[v] = job[w] => v = w

(* m_user_cnt counts the open connections, each of which has its timer.     *)
CountIsOpen == count = Cardinality(Open) /\ timers = Open

(* append never refuses a request: the limit for connections, and that each  *)
(* is queued at most once, keep the queue below m_max_requests.  (main does  *)
(* not look at the answer, main.cpp:289; a refused connection would hang.)   *)
NothingRefused == (\E f \in Fds : epoll[f] = "in") => Len(queue) < MaxRequests

PermitsLeft == permits + Cardinality({w \in Workers : stage[w] = "woken"}) = Len(queue)

(* A worker that has passed the semaphore finds a request (threadpool.h:110  *)
(* to 115 take the front of the list without a look).                       *)
PermitsMatch == TypeOK /\ PermitsLeft

(* A connection that waits for room to write has something to write.        *)
OutMeansReady ==
  /\ \A f \in Fds : epoll[f] = "out" => f \in ready
  /\ \A w \in Workers : stage[w] = "out" => job[w] \in ready

(* What holds together in every state. *)
Room == count <= MaxUsers
IInv == TypeOK /\ OneOwner /\ CountIsOpen /\ Room /\ PermitsLeft /\ OutMeansReady

(* Every connection that has been read from comes back to epoll, unless its  *)
(* object lost the descriptor to its neighbour.                             *)
ComesBack == \A f \in Fds : epoll[f] = "off" ~> epoll[f] # "off" \/ sock[f] # f

(* The object of an open connection holds its descriptor, "the socket this   *)
(* object is responsible for" (http_conn.h:127).                           *)
KeepsSocket == \A f \in Open : sock[f] = f

(* Each connection takes turns between epoll and the pool: what is read gets *)
(* to a worker, with no answer left from before; the worker asks for more or *)
(* hands over the one answer it has prepared; that is written, and then read *)
(* again; nobody closes what the pool has.  A connection goes astray only    *)
(* when its object has lost the descriptor (process, write_conn).            *)
Working == {queue[i] : i \in DOMAIN queue} \cup {job[w] : w \in Busy}
Turn == [f \in Fds |-> IF epoll[f] # "off" THEN epoll[f] ELSE IF f \in Working THEN "work" ELSE "lost"]
Turns == INSTANCE ConnTurns WITH Conns <- Fds, turn <- Turn, prepared <- ready
TakesTurns == Turns!Spec /\ [](\A f \in Fds : Turn[f] = "lost" => sock[f] # f)
=============================================================================
