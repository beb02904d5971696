----------------------------- MODULE ChatCluster -----------------------------
(***************************************************************************)
(* Several ChatServer processes behind a load balancer, sharing one MySQL   *)
(* database and one Redis broker (src/ChatServer).                          *)
(*                                                                         *)
(* Every TCP connection belongs to one IO thread of its server, so the      *)
(* handlers of one connection run one after the other, and the handlers of  *)
(* two connections interleave.  A handler is a sequence of steps: one step  *)
(* per critical section of connMtx_, per SQL statement, per Redis command   *)
(* and per send.  Each server also has the observer thread of its Redis     *)
(* client.                                                                  *)
(***************************************************************************)
EXTENDS Naturals, Sequences

CONSTANTS
  Users,      (* the registered user ids                                    *)
  Servers,    (* the ChatServer processes                                   *)
  Conns,      (* TCP connections, each used once                            *)
  Msgs,       (* chat messages, each sent at most once                      *)
  Home,       (* the server the load balancer gave each connection          *)
  GroupUsers, (* the users of the one chat group                            *)
  None,       (* no connection, no user, no message                         *)
  Overlap,    (* may a user open a second session while one is active?      *)
  Stops,      (* may a server be interrupted or killed?                     *)
  MaxEvents   (* bound on the login requests, lost clients and stops: a     *)
              (* stop counts twice                                          *)

ASSUME ClusterAssumption ==
  /\ None \notin Users \cup Servers \cup Conns \cup Msgs
  /\ Home \in [Conns -> Servers]
  /\ GroupUsers \subseteq Users
  /\ Overlap \in BOOLEAN
  /\ Stops \in BOOLEAN
  /\ MaxEvents \in Nat

VARIABLES
  state,      (* user.state: "online" or "offline"                          *)
  stored,     (* offlinemessage: the messages stored for each user          *)
  subs,       (* Redis: the channels (user ids) each server subscribes to   *)
  chan,       (* Redis: what was published to each server, not yet read     *)
  table,      (* userConnTable_ of each server                              *)
  lock,       (* who holds connMtx_ across steps: a groupChat, or None      *)
  proc,       (* the server process: running, in its SIGINT handler, gone   *)
  watch,      (* the observer thread: waiting, or about to store            *)
  link,       (* the TCP connection                                         *)
  pc,         (* the next step of the connection's handler                  *)
  user,       (* the id the client of the connection works for              *)
  msg,        (* the message of a chat handler                              *)
  to,         (* the recipient a chat handler is busy with                  *)
  rest,       (* recipients a groupChat still has to serve                  *)
  events,     (* login requests, lost clients and stops so far, as MaxEvents *)
  addressed,  (* history: the <<user, message>> pairs clients asked for     *)
  delivered,  (* history: the pairs that reached a client                   *)
  calm        (* history: pairs whose user had no session change since      *)

db        == <<state, stored>>
redis     == <<subs, chan>>
process   == <<proc, watch, events>>
conns     == <<table, lock, link>>
locals    == <<user, msg, to, rest>>
handler   == <<pc, locals>>
history   == <<addressed, delivered, calm>>
vars == <<db, redis, process, conns, handler, history>>

LoginPcs  == {"l_query", "l_table", "l_state", "l_sub", "l_answer", "l_clear"}
LogoutPcs == {"o_erase", "o_unsub", "o_state"}
ClosePcs  == {"c_erase", "c_state", "c_unsub"}
GroupPcs  == {"g_lock", "g_each"}
RoutePcs  == {"p_find", "query", "publish", "save"}
Pcs == {"idle"} \cup LoginPcs \cup LogoutPcs \cup ClosePcs \cup GroupPcs \cup RoutePcs

TypeOK ==
  /\ state \in [Users -> {"online", "offline"}]
  /\ stored \in [Users -> SUBSET Msgs]
  /\ subs \in [Servers -> SUBSET Users]
  /\ chan \in [Servers -> Seq(Users \X Msgs)]
  /\ table \in [Servers -> [Users -> Conns \cup {None}]]
  /\ lock \in [Servers -> Conns \cup {None}]
  /\ proc \in [Servers -> {"running", "exiting", "stopped"}]
  /\ watch \in [Servers -> {"wait", "save"}]
  /\ link \in [Conns -> {"none", "up", "dropped", "gone"}]
  /\ pc \in [Conns -> Pcs]
  /\ user \in [Conns -> Users \cup {None}]
  /\ msg \in [Conns -> Msgs \cup {None}]
  /\ to \in [Conns -> Users \cup {None}]
  /\ rest \in [Conns -> SUBSET Users]
  /\ events \in Nat
  /\ addressed \in SUBSET (Users \X Msgs)
  /\ delivered \in SUBSET (Users \X Msgs)
  /\ calm \in SUBSET (Users \X Msgs)

Init ==
  /\ state = [u \in Users |-> "offline"]
  /\ stored = [u \in Users |-> {}]
  /\ subs = [s \in Servers |-> {}]
  /\ chan = [s \in Servers |-> <<>>]
  /\ table = [s \in Servers |-> [u \in Users |-> None]]
  /\ lock = [s \in Servers |-> None]
  /\ proc = [s \in Servers |-> "running"]
  /\ watch = [s \in Servers |-> "wait"]
  /\ link = [c \in Conns |-> "none"]
  /\ pc = [c \in Conns |-> "idle"]
  /\ user = [c \in Conns |-> None]
  /\ msg = [c \in Conns |-> None]
  /\ to = [c \in Conns |-> None]
  /\ rest = [c \in Conns |-> {}]
  /\ events = 0
  /\ addressed = {}
  /\ delivered = {}
  /\ calm = {}

-----------------------------------------------------------------------------
(* Properties.                                                             *)

(* An entry of userConnTable_ is a connection of that server that logged in *)
(* as that user and whose close has not been handled: a message is never    *)
(* forwarded to another user's client, whatever double logins, logouts and  *)
(* closes have interleaved (login 73-77, clientLoginout 243-250,            *)
(* clientCloseException 205-221).                                           *)
TabledSessions ==
  \A s \in Servers, u \in Users :
    LET c == table[s][u] IN
    c # None => /\ Home[c] = s
                /\ user[c] = u
                /\ link[c] \in {"up", "dropped"}
                /\ pc[c] \notin {"l_query", "l_table", "o_unsub", "o_state",
                                 "c_state", "c_unsub"}

(* Every copy of a message, in a handler, in Redis, in the database or at a *)
(* client, is for a user its sender addressed.                              *)
OnlyAddressees ==
  /\ delivered \subseteq addressed
  /\ \A u \in Users : \A m \in stored[u] : <<u, m>> \in addressed
  /\ \A s \in Servers : chan[s] \in Seq(addressed)
  /\ \A c \in Conns, u \in Users, m \in Msgs :
       msg[c] = m /\ (u = to[c] \/ u \in rest[c]) => <<u, m>> \in addressed

(* groupChat holds connMtx_ over its whole loop (359-380): while it does, no *)
(* other handler of the server registers or removes a connection.           *)
LockGuardsTable ==
  [][\A s \in Servers :
       lock[s] # None /\ lock'[s] = lock[s] => table'[s] = table[s]]_vars

(* The lock is held by a groupChat in its loop and by nobody else: no        *)
(* handler ends, and no connection is gone, with the mutex still locked.    *)
LockHolder ==
  \A s \in Servers, c \in Conns :
    lock[s] = c => /\ Home[c] = s
                   /\ pc[c] \in {"g_each", "query", "publish", "save"}
                   /\ msg[c] # None

(* What the handlers and the observer rely on: a handler runs on a           *)
(* connection that is not gone and has the user, recipient and message it    *)
(* works with, and the observer stores a message that Redis has handed it.   *)
HandlerArgs ==
  /\ \A c \in Conns :
       /\ pc[c] # "idle" => link[c] \in {"up", "dropped"}
       /\ pc[c] \in LoginPcs \cup LogoutPcs => user[c] # None
       /\ to[c] # None <=> pc[c] \in RoutePcs \cup {"c_state", "c_unsub"}
       /\ msg[c] # None <=> pc[c] \in RoutePcs \cup GroupPcs
       /\ pc[c] = "g_each" => lock[Home[c]] = c
       /\ rest[c] # {} => pc[c] = "g_lock" \/ lock[Home[c]] = c
  /\ \A s \in Servers : watch[s] = "save" => chan[s] # <<>>

IInv == TypeOK /\ HandlerArgs /\ TabledSessions /\ LockHolder

(* What a settled user's session looks like when logins of a user never      *)
(* overlap: the database, the table and the Redis subscriptions of all       *)
(* servers agree with the one connection the user is logged in on.           *)
LoggedIn(c, u) == user[c] = u /\ pc[c] \notin LoginPcs \cup LogoutPcs \cup ClosePcs
SettledAgree ==
  \A c \in Conns, u \in Users :
    LoggedIn(c, u) =>
      /\ state[u] = "online"
      /\ \A s \in Servers : /\ table[s][u] = IF s = Home[c] THEN c ELSE None
                            /\ u \in subs[s] <=> s = Home[c]

(* A user without a connection is not registered anywhere, and a state that  *)
(* stays "online" keeps the subscription through which messages are stored.  *)
AwayAgree ==
  \A u \in Users : (\A c \in Conns : user[c] # u) =>
    /\ \A s \in Servers : table[s][u] = None
    /\ state[u] = "online" <=> \E s \in Servers : u \in subs[s]

InHand(u, m) == \E c \in Conns : msg[c] = m /\ (u = to[c] \/ u \in rest[c])
InChannel(u, m) == \E s \in Servers : \E i \in DOMAIN chan[s] : chan[s][i] = <<u, m>>

(* A message to a user whose session does not change is never lost: it is    *)
(* being handled, in Redis, stored, or has reached the client.               *)
NoLossWhenCalm ==
  \A p \in calm : LET u == p[1]  m == p[2] IN
    InHand(u, m) \/ InChannel(u, m) \/ m \in stored[u] \/ p \in delivered

(* login 153-154: once they have been sent, the offline messages are         *)
(* deleted.  No row of a client that is still there goes without being sent. *)
RemovedOnlyIfSent ==
  [][\A u \in Users : \A m \in stored[u] \ stored'[u] :
       \/ <<u, m>> \in delivered
       \/ \E c \in Conns : user[c] = u /\ link[c] # "up"]_vars

(* handlRedisSubscribeMessage 386-397: a message is stored for a user who    *)
(* has already gone offline, not for one who has just received it.           *)
StoredOnlyIfUndelivered ==
  [][\A u \in Users : \A m \in stored'[u] \ stored[u] :
       <<u, m>> \notin delivered]_vars

-----------------------------------------------------------------------------
(* Helpers.                                                                *)

(* The handler of c goes from one step to the next. *)
Step(c, from, next) == pc[c] = from /\ pc' = [pc EXCEPT ![c] = next]

(* Mutant: the critical section has lost its lock_guard. *)
UnlockedAlways(c) == TRUE

(* std::lock_guard on connMtx_: a critical section of one step can run. *)
Unlocked(c) == lock[Home[c]] = None

(* TcpConnection::send: a client that is already gone receives nothing. *)
Sent(c, pairs) == IF link[c] = "up" THEN pairs ELSE {}

(* Mutant: channel and message swapped. *)
PublishedSwapped(u, m) ==
  [s \in Servers |-> IF u \in subs[s] THEN Append(chan[s], <<m, u>>) ELSE chan[s]]

(* PUBLISH: the broker copies the message to every subscriber of now. *)
Published(u, m) ==
  [s \in Servers |-> IF u \in subs[s] THEN Append(chan[s], <<u, m>>) ELSE chan[s]]

(* A session of u is being opened or closed, or its client has vanished. *)
Busy(c) == pc[c] \in LoginPcs \cup LogoutPcs \cup ClosePcs \/ link[c] = "dropped"
Settled(u) == \A c \in Conns : user[c] = u => ~Busy(c)

(* What remains calm when the session of u changes. *)
CalmWithout(u) == {p \in calm : p[1] # u}

(* A new message m for the users of U. *)
Address(U, m) ==
  /\ \A p \in addressed : p[2] # m
  /\ addressed' = addressed \cup (U \X {m})
  /\ calm' = calm \cup ({u \in U : Settled(u)} \X {m})

-----------------------------------------------------------------------------
(* Clients and network.                                                    *)

(* The client process or its network goes away; the server learns it later. *)
Drop(c) ==
  /\ link[c] = "up" /\ events < MaxEvents
  /\ link' = [link EXCEPT ![c] = "dropped"]
  /\ events' = events + 1
  /\ calm' = CalmWithout(user[c])
  /\ UNCHANGED <<db, redis, proc, watch, table, lock, handler, addressed, delivered>>

(* onMessage reads the next request of an idle connection. *)
Ready(c) == link[c] = "up" /\ pc[c] = "idle"

(* A connection is opened with its first login request: one that is open    *)
(* and silent changes nothing.                                              *)
LoginRequest(c, u) ==
  /\ Ready(c) \/ (link[c] = "none" /\ proc[Home[c]] = "running")
  /\ user[c] = None /\ events < MaxEvents
  /\ Overlap \/ \A d \in Conns : user[d] # u
  /\ link' = [link EXCEPT ![c] = "up"]
  /\ pc' = [pc EXCEPT ![c] = "l_query"]
  /\ user' = [user EXCEPT ![c] = u]
  /\ events' = events + 1
  /\ calm' = CalmWithout(u)
  /\ UNCHANGED <<db, redis, proc, watch, table, lock, msg, to, rest, addressed, delivered>>

LogoutRequest(c) ==
  /\ Ready(c) /\ user[c] # None
  /\ pc' = [pc EXCEPT ![c] = "o_erase"]
  /\ calm' = CalmWithout(user[c])
  /\ UNCHANGED <<db, redis, process, conns, locals, addressed, delivered>>

ChatRequest(c, u, m) ==
  /\ Ready(c) /\ user[c] # None
  /\ Address({u}, m)
  /\ pc' = [pc EXCEPT ![c] = "p_find"]
  /\ msg' = [msg EXCEPT ![c] = m]
  /\ to' = [to EXCEPT ![c] = u]
  /\ UNCHANGED <<db, redis, process, conns, user, rest, delivered>>

(* queryGroupUsers is the first thing groupChat does, so the recipients are *)
(* fixed before the lock is taken.                                          *)
GroupRequest(c, m) ==
  /\ Ready(c) /\ user[c] # None
  /\ Address(GroupUsers \ {user[c]}, m)
  /\ pc' = [pc EXCEPT ![c] = "g_lock"]
  /\ msg' = [msg EXCEPT ![c] = m]
  /\ rest' = [rest EXCEPT ![c] = GroupUsers \ {user[c]}]
  /\ UNCHANGED <<db, redis, process, conns, user, to, delivered>>

(* onConnection on a closed connection, after its earlier handlers. *)
CloseEvent(c) ==
  /\ link[c] = "dropped" /\ Step(c, "idle", "c_erase")
  /\ UNCHANGED <<db, redis, process, conns, locals, history>>

-----------------------------------------------------------------------------
(* ChatService::login                                                      *)

LoginRefuse(c) ==      \* wrong password, or the state read is "online"
  /\ Step(c, "l_query", "idle")
  /\ user' = [user EXCEPT ![c] = None]
  /\ UNCHANGED <<db, redis, process, conns, msg, to, rest, history>>

LoginQuery(c) ==
  /\ Step(c, "l_query", "l_table")
  /\ state[user[c]] = "offline"
  /\ UNCHANGED <<db, redis, process, conns, locals, history>>

(* unordered_map::insert keeps an entry that is already there. *)
LoginTable(c) ==
  LET s == Home[c]  u == user[c] IN
  /\ Unlocked(c)
  /\ Step(c, "l_table", "l_state")
  /\ table' = [table EXCEPT ![s][u] = IF @ = None THEN c ELSE @]
  /\ UNCHANGED <<db, redis, process, lock, link, locals, history>>

LoginState(c) ==
  /\ Step(c, "l_state", "l_sub")
  /\ state' = [state EXCEPT ![user[c]] = "online"]
  /\ UNCHANGED <<stored, redis, process, conns, locals, history>>

(* Mutant: the login forgets to subscribe. *)
LoginNoSubscribe(c) ==
  /\ Step(c, "l_sub", "l_answer")
  /\ UNCHANGED <<db, redis, process, conns, locals, history>>

LoginSubscribe(c) ==
  /\ Step(c, "l_sub", "l_answer")
  /\ subs' = [subs EXCEPT ![Home[c]] = @ \cup {user[c]}]
  /\ UNCHANGED <<db, chan, process, conns, locals, history>>

(* The offline messages are read and sent in one answer.  Nothing reads what *)
(* was sent, so the send commutes with the steps of others in between.      *)
LoginAnswer(c) ==
  LET u == user[c] IN
  /\ Step(c, "l_answer", "l_clear")
  /\ delivered' = delivered \cup Sent(c, {u} \X stored[u])
  /\ UNCHANGED <<db, redis, process, conns, locals, addressed, calm>>

LoginClear(c) ==
  /\ Step(c, "l_clear", "idle")
  /\ stored' = [stored EXCEPT ![user[c]] = {}]
  /\ UNCHANGED <<state, redis, process, conns, locals, history>>

-----------------------------------------------------------------------------
(* ChatService::clientLoginout                                             *)

LogoutErase(c) ==
  /\ Unlocked(c)
  /\ Step(c, "o_erase", "o_unsub")
  /\ table' = [table EXCEPT ![Home[c]][user[c]] = None]
  /\ UNCHANGED <<db, redis, process, lock, link, locals, history>>

LogoutUnsubscribe(c) ==
  /\ Step(c, "o_unsub", "o_state")
  /\ subs' = [subs EXCEPT ![Home[c]] = @ \ {user[c]}]
  /\ UNCHANGED <<db, chan, process, conns, locals, history>>

LogoutState(c) ==
  /\ Step(c, "o_state", "idle")
  /\ state' = [state EXCEPT ![user[c]] = "offline"]
  /\ user' = [user EXCEPT ![c] = None]
  /\ UNCHANGED <<stored, redis, process, conns, msg, to, rest, history>>

-----------------------------------------------------------------------------
(* ChatService::clientCloseException                                       *)

(* Users whose entry in the table of c's server is the connection c. *)
Entries(c) == {u \in Users : table[Home[c]][u] = c}

(* The handler is over and the connection is forgotten. *)
Gone(c) ==
  /\ pc' = [pc EXCEPT ![c] = "idle"]
  /\ link' = [link EXCEPT ![c] = "gone"]
  /\ user' = [user EXCEPT ![c] = None]
  /\ to' = [to EXCEPT ![c] = None]

(* Mutant: the id is recorded and the entry stays. *)
CloseKeeps(c) ==
  /\ Step(c, "c_erase", "c_state") /\ Unlocked(c)
  /\ \E u \in Entries(c) : to' = [to EXCEPT ![c] = u]
  /\ UNCHANGED <<db, redis, process, conns, user, msg, rest, history>>

(* The id is read from the erased map node.  The read yields the user's id  *)
(* (CloseErase), or what the allocator has put there, which names no user,  *)
(* so that the two updates below it touch nothing (CloseGarbage).           *)
CloseErase(c) ==
  /\ Step(c, "c_erase", "c_state") /\ Unlocked(c)
  /\ \E u \in Entries(c) :
       /\ table' = [table EXCEPT ![Home[c]][u] = None]
       /\ to' = [to EXCEPT ![c] = u]
  /\ UNCHANGED <<db, redis, process, lock, link, user, msg, rest, history>>

CloseGarbage(c) ==
  /\ pc[c] = "c_erase" /\ Unlocked(c)
  /\ \E u \in Entries(c) : table' = [table EXCEPT ![Home[c]][u] = None]
  /\ Gone(c)
  /\ UNCHANGED <<db, redis, process, lock, msg, rest, history>>

CloseUnknown(c) ==     \* no entry: the id stays -1
  /\ pc[c] = "c_erase" /\ Unlocked(c) /\ Entries(c) = {}
  /\ Gone(c)
  /\ UNCHANGED <<db, redis, process, table, lock, msg, rest, history>>

CloseState(c) ==
  /\ Step(c, "c_state", "c_unsub")
  /\ state' = [state EXCEPT ![to[c]] = "offline"]
  /\ UNCHANGED <<stored, redis, process, conns, locals, history>>

(* Mutant: the close leaves the subscription. *)
CloseStaysSubscribed(c) ==
  /\ pc[c] = "c_unsub"
  /\ Gone(c)
  /\ UNCHANGED <<db, redis, process, table, lock, msg, rest, history>>

CloseUnsubscribe(c) ==
  /\ pc[c] = "c_unsub"
  /\ subs' = [subs EXCEPT ![Home[c]] = @ \ {to[c]}]
  /\ Gone(c)
  /\ UNCHANGED <<db, chan, process, table, lock, msg, rest, history>>

-----------------------------------------------------------------------------
(* ChatService::toPChat and groupChat                                      *)

(* A chat handler is done with one recipient: groupChat, which still holds  *)
(* the lock, goes on to the next one.                                       *)
NextPc(c) == IF lock[Home[c]] = c THEN "g_each" ELSE "idle"
Served(c, next) ==
  /\ pc' = [pc EXCEPT ![c] = next]
  /\ to' = [to EXCEPT ![c] = None]
  /\ msg' = [msg EXCEPT ![c] = IF next = "idle" THEN None ELSE @]

(* Forward under the lock to a connection of this server. *)
Forward(s, u, m) ==
  delivered' = delivered \cup Sent(table[s][u], {<<u, m>>})

ChatLocal(c) ==
  LET s == Home[c]  u == to[c] IN
  /\ pc[c] = "p_find" /\ Unlocked(c) /\ table[s][u] # None
  /\ Forward(s, u, msg[c])
  /\ Served(c, "idle")
  /\ UNCHANGED <<db, redis, process, conns, user, rest, addressed, calm>>

ChatRemote(c) ==
  /\ Step(c, "p_find", "query")
  /\ Unlocked(c) /\ table[Home[c]][to[c]] = None
  /\ UNCHANGED <<db, redis, process, conns, locals, history>>

GroupLock(c) ==
  /\ Unlocked(c)
  /\ lock' = [lock EXCEPT ![Home[c]] = c]
  /\ Step(c, "g_lock", "g_each")
  /\ UNCHANGED <<db, redis, process, table, link, locals, history>>

GroupLocal(c) ==
  LET s == Home[c] IN
  \E u \in rest[c] :
    /\ pc[c] = "g_each" /\ table[s][u] # None
    /\ Forward(s, u, msg[c])
    /\ rest' = [rest EXCEPT ![c] = @ \ {u}]
    /\ UNCHANGED <<db, redis, process, conns, pc, user, msg, to, addressed, calm>>

GroupRemote(c) ==
  \E u \in rest[c] :
    /\ table[Home[c]][u] = None
    /\ Step(c, "g_each", "query")
    /\ to' = [to EXCEPT ![c] = u]
    /\ rest' = [rest EXCEPT ![c] = @ \ {u}]
    /\ UNCHANGED <<db, redis, process, conns, user, msg, history>>

(* Mutant: a return from the loop with the mutex locked. *)
GroupNoUnlock(c) ==
  /\ pc[c] = "g_each" /\ rest[c] = {}
  /\ Served(c, "idle")
  /\ UNCHANGED <<db, redis, process, conns, user, rest, history>>

GroupUnlock(c) ==
  /\ pc[c] = "g_each" /\ rest[c] = {}
  /\ lock' = [lock EXCEPT ![Home[c]] = None]
  /\ Served(c, "idle")
  /\ UNCHANGED <<db, redis, process, table, link, user, rest, history>>

(* Mutant: the user is taken for online without asking the database. *)
QueryNothing(c) ==
  /\ Step(c, "query", "publish")
  /\ UNCHANGED <<db, redis, process, conns, locals, history>>

QueryState(c) ==
  /\ pc[c] = "query"
  /\ pc' = [pc EXCEPT ![c] = IF state[to[c]] = "online" THEN "publish" ELSE "save"]
  /\ UNCHANGED <<db, redis, process, conns, locals, history>>

(* Mutant: published to the sender's channel. *)
PublishToSender(c) ==
  /\ pc[c] = "publish"
  /\ chan' = Published(user[c], msg[c])
  /\ Served(c, NextPc(c))
  /\ UNCHANGED <<db, subs, process, conns, user, rest, history>>

Publish(c) ==
  /\ pc[c] = "publish"
  /\ chan' = Published(to[c], msg[c])
  /\ Served(c, NextPc(c))
  /\ UNCHANGED <<db, subs, process, conns, user, rest, history>>

Save(c) ==
  /\ pc[c] = "save"
  /\ stored' = [stored EXCEPT ![to[c]] = @ \cup {msg[c]}]
  /\ Served(c, NextPc(c))
  /\ UNCHANGED <<state, redis, process, conns, user, rest, history>>

-----------------------------------------------------------------------------
(* ChatService::handlRedisSubscribeMessage, in the observer thread          *)

(* Mutant: a message waits until its user is registered on this server. *)
ObserveRegistered(s) ==
  LET u == Head(chan[s])[1]  m == Head(chan[s])[2] IN
  /\ watch[s] = "wait" /\ chan[s] # <<>> /\ lock[s] = None
  /\ table[s][u] # None /\ Forward(s, u, m)
  /\ watch' = [watch EXCEPT ![s] = "save"]
  /\ UNCHANGED <<db, redis, proc, events, conns, handler, addressed, calm>>

ObserveForward(s) ==
  LET u == Head(chan[s])[1]  m == Head(chan[s])[2] IN
  /\ watch[s] = "wait" /\ chan[s] # <<>> /\ lock[s] = None
  /\ IF table[s][u] # None THEN Forward(s, u, m) ELSE UNCHANGED delivered
  /\ watch' = [watch EXCEPT ![s] = "save"]
  /\ UNCHANGED <<db, redis, proc, events, conns, handler, addressed, calm>>

ObserveSave(s) ==
  LET u == Head(chan[s])[1]  m == Head(chan[s])[2] IN
  /\ watch[s] = "save"
  /\ stored' = [stored EXCEPT ![u] = @ \cup {m}]
  /\ chan' = [chan EXCEPT ![s] = Tail(@)]
  /\ watch' = [watch EXCEPT ![s] = "wait"]
  /\ UNCHANGED <<state, subs, proc, events, conns, handler, history>>

-----------------------------------------------------------------------------
(* The process: sigIntHandelr, kill, restart                                *)

Interrupt(s) ==        \* reset(): every user of the database, not only of s
  /\ proc[s] = "running" /\ Stops /\ events + 2 <= MaxEvents
  /\ proc' = [proc EXCEPT ![s] = "exiting"]
  /\ events' = events + 2
  /\ state' = [u \in Users |-> "offline"]
  /\ calm' = {}
  /\ UNCHANGED <<stored, redis, watch, conns, handler, addressed, delivered>>

(* The process ends: its memory, sockets and subscriptions are gone. *)
Vanish(s) ==
  /\ proc' = [proc EXCEPT ![s] = "stopped"]
  /\ table' = [table EXCEPT ![s] = [u \in Users |-> None]]
  /\ lock' = [lock EXCEPT ![s] = None]
  /\ watch' = [watch EXCEPT ![s] = "wait"]
  /\ subs' = [subs EXCEPT ![s] = {}]
  /\ chan' = [chan EXCEPT ![s] = <<>>]
  /\ link' = [c \in Conns |-> IF Home[c] = s /\ link[c] # "none" THEN "gone" ELSE link[c]]
  /\ pc' = [c \in Conns |-> IF Home[c] = s THEN "idle" ELSE pc[c]]
  /\ user' = [c \in Conns |-> IF Home[c] = s THEN None ELSE user[c]]
  /\ msg' = [c \in Conns |-> IF Home[c] = s THEN None ELSE msg[c]]
  /\ to' = [c \in Conns |-> IF Home[c] = s THEN None ELSE to[c]]
  /\ rest' = [c \in Conns |-> IF Home[c] = s THEN {} ELSE rest[c]]
  /\ UNCHANGED <<db, addressed, delivered>>

Exit(s) ==
  /\ proc[s] = "exiting"
  /\ Vanish(s)
  /\ UNCHANGED <<events, calm>>

Kill(s) ==
  /\ proc[s] # "stopped" /\ Stops /\ events + 2 <= MaxEvents
  /\ Vanish(s)
  /\ events' = events + 2
  /\ calm' = {}

Restart(s) ==
  /\ proc[s] = "stopped"
  /\ proc' = [proc EXCEPT ![s] = "running"]
  /\ UNCHANGED <<db, redis, watch, events, conns, handler, history>>

-----------------------------------------------------------------------------
Client(c) ==
  \/ Drop(c) \/ LogoutRequest(c)
  \/ \E u \in Users : LoginRequest(c, u)
  \/ \E m \in Msgs : GroupRequest(c, m)
  \/ \E u \in Users, m \in Msgs : ChatRequest(c, u, m)

Login(c) ==
  \/ LoginRefuse(c) \/ LoginQuery(c) \/ LoginTable(c) \/ LoginState(c)
  \/ LoginSubscribe(c) \/ LoginAnswer(c) \/ LoginClear(c)

Logout(c) == LogoutErase(c) \/ LogoutUnsubscribe(c) \/ LogoutState(c)

Close(c) ==
  \/ CloseEvent(c) \/ CloseErase(c) \/ CloseGarbage(c) \/ CloseUnknown(c)
  \/ CloseState(c) \/ CloseUnsubscribe(c)

Chat(c) ==
  \/ ChatLocal(c) \/ ChatRemote(c) \/ GroupLock(c) \/ GroupLocal(c) \/ GroupRemote(c)
  \/ GroupUnlock(c) \/ QueryState(c) \/ Publish(c) \/ Save(c)

Handler(c) == Login(c) \/ Logout(c) \/ Close(c) \/ Chat(c)

Observer(s) == ObserveForward(s) \/ ObserveSave(s)

Process(s) == Interrupt(s) \/ Exit(s) \/ Kill(s) \/ Restart(s)

Next ==
  \/ \E c \in Conns : Client(c) \/ Handler(c)
  \/ \E s \in Servers : Observer(s) \/ Process(s)

Spec == Init /\ [][Next]_vars

(* The operating system runs every thread: a handler or an observer that    *)
(* has a step to take eventually takes it.  Clients and stops are not fair. *)
Fairness ==
  /\ \A c \in Conns : WF_vars(Handler(c))
  /\ \A s \in Servers : WF_vars(Observer(s))

FairSpec == Spec /\ Fairness

(* A message to a user whose session does not change is stored or reaches    *)
(* the client: no chat handler waits for connMtx_ for ever, and the observer *)
(* works off what Redis hands it (toPChat 276-300, groupChat 359-380,        *)
(* handlRedisSubscribeMessage 388-397).                                     *)
CalmArrives ==
  \A p \in Users \X Msgs :
    p \in calm ~> p \notin calm \/ p \in delivered \/ p[2] \in stored[p[1]]
=============================================================================
