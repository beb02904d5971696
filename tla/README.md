# CodeRecord in TLA+

The repository is a collection of programs that share no code. This directory
holds TLA+ modules of the ones whose behaviour is hard: a clustered chat server with its
accounts and its command line client; a web server with its thread pool, its HTTP connections, its timers
and its asynchronous logger; a reactor; a sudoku game; and the loop of an aircraft game. It holds the TLC
configurations that check the modules on small instances, and theorems that TLAPS proves for
every instance. Line numbers refer to the files below `src/`.

- [The programs](#the-programs)
- [Plan](#plan)
- [The modules](#the-modules)
- [Runs, bounds and what they show](#runs-bounds-and-what-they-show)
- [Fairness](#fairness)
- [Proofs](#proofs)
- [Only model-checked](#only-model-checked)
- [Findings](#findings)
- [What the properties excuse](#what-the-properties-excuse)
- [Not modelled](#not-modelled)

To check: `tlc -config ChatCluster.cfg MCChatCluster`, and likewise the runs of
`PROJECT.json`; `tlapm ChatCluster_proofs.tla` and the other `_proofs` modules.

## The programs

### ChatServer (`ChatServer/`)

Several server processes stand behind nginx and share a MySQL database and a Redis broker.

| part | state | operations |
|---|---|---|
| `ChatService` | `userConnTable_` (user id to TCP connection), its mutex `connMtx_` | `login`, `reg`, `clientLoginout`, `clientCloseException`, `toPChat`, `groupChat`, `addFriend`, `createGroup`, `addGroup`, `handlRedisSubscribeMessage`, `reset` |
| `redis` | one connection to publish, one to subscribe, an observer thread | `publish`, `subscribe`, `unsubscribe`, `observer_channel_message` |
| models | tables `user`, `offlinemessage`, `friend`, `allgroup`, `groupuser` | one SQL statement per call, each on a connection of its own |
| `ChatServer` | the muduo server, an IO thread per connection | `onConnection`, `onMessage` |
| `main` | the process | SIGINT calls `reset`, then exits |
| client (`src/client/main.cpp`) | socket, receiver thread, current user and lists | menu commands |

*Interaction.* An IO thread runs the handler of a message. A handler takes `connMtx_`
for the table, issues SQL statements and Redis commands one by one, and sends on the connection of
any user in its table. A user of another server is reached by a publication on the
channel named by the user's id, which the observer thread of that server forwards.

*Hard.* A session is recorded in three places - database, table, subscription - by
separate steps, and other handlers read them between the steps. A sender looks at the state of
the receiver and uses it later. Servers stop between two steps. `groupChat`
holds the mutex over all its database calls. A request of several statements can fail between them.
JSON texts travel over TCP without lengths, and the client's two threads read one socket.

*Correct if* a message reaches only a user it was addressed to, through a connection
on which that user logged in; the three records of a session agree once it is
settled; no message to a user whose session does not change is lost; every handler ends; an id that a client is told is the row it created; a friendship has both its rows;
the client's menu agrees with the server's session.

### Web server (`webserver/`)

| part | state | operations |
|---|---|---|
| main thread (`main.cpp`) | epoll table, `users[]` and `users_timer[]` by descriptor, timer list | accept, hang-up, signal pipe, read, write, tick |
| `threadpool` | `m_workqueue`, its mutex, the semaphore `m_queuestat` | `append`, `run` |
| `http_conn` | socket, read and write buffer, parser state, `bytes_to_send`, static `m_user_cnt` | `init`, `read_conn`, `process`, `write_conn`, `close_conn` |
| `Timer_list` | doubly linked list sorted by expiry | `add_timer`, `adjust_timer`, `del_timer`, `tick` |
| `Log` | open file, line count, day, mutex | `init`, `write_log`, `flush`, `async_write_log` |
| `block_queue` | circular array, indices, mutex, condition variable | `push`, `pop`, timed `pop`, `clear`, `full`, `empty`, `front`, `back`, `size`, `max_size` |

*Interaction.* The main thread reads a request into an `http_conn` and puts it in the
pool's queue; a worker parses it, prepares the answer and re-arms the one-shot epoll
registration; the main thread writes the answer. Every part logs through the singleton `Log`, whose
thread empties the `block_queue` into the file.

*Hard.* Nothing but EPOLLONESHOT keeps the two threads off one connection. The main
thread ignores the answer of `append`. A worker does not look whether the list is empty. The
logger looks whether the queue is full and pushes later, and reads the date before it
takes its mutex. The objects lie side by side in `users[]`, and one clears
more than itself. A request arrives, and an answer leaves, in pieces of any size; a kept connection starts over in
the same buffers. `tick` walks the list it removes nodes from.

*Correct if* a connection has one user at a time; a request that was read is answered
or waited for again; the counters agree with what they count; a log line
is written once; a thread that sleeps on the queue has nothing to take; the bytes of an answer leave in order;
a connection is closed when it is due.

### Reactor (`InterestingCode/reactor_single_process.c`)

One thread with a table of events, each with a callback that re-registers the
descriptor for the other direction. *Hard:* a failed read or write, or a full table, ends the
process, and so would a write without room in the send buffer; a client that does not read leaves its entry waiting for room; the length
of an answer is taken with `strlen`. *Correct if* a slot
belongs to at most one descriptor and is registered exactly while its status says so, what epoll has reported still holds when it is dispatched, and no client
keeps the others from being read.

### Sudoku (`sudoku/`)

A grid of cells, three groupings of it, a stack of commands for undo, and a file format.
*Hard:* the groupings copy the cells instead of sharing them. *Correct if* `check` is
true exactly for a solved grid, undo restores what the move replaced, and load after save restores the game.

### Aircraft war (`Android_AircraftWar/`)

| part | state | operations |
|---|---|---|
| `GameView`, `EasyGame`, `MediumGame`, `HardGame` | lists of enemies, bullets and rewards, the boss counter, thresholds and limits, the static score | the parts of a frame: `loadAirCrafts`, `loadBullets`, moves, `crashCheckAction`, `postProcessAction`, `isEnd`, `levelUp` |
| `HeroAircraft` | a singleton with hit points, `isValid` and a shooting strategy | `shoot`, `decreaseHp`, `addHp`, `setStrategy` |
| rewards | `BulletReward.t` and `validTime`, both static | `takeEffect` |
| views, activities, local database | | |
| client of a score server that is not in the repository | one socket | blocking requests |

*Interaction.* The loop is one thread; a bullet reward starts another, which changes the hero's strategy for three seconds and then back.

*Hard.* An object goes in several ways - shot, rammed, bombed, out of the screen - and not each of them updates every counter. The thread of a
reward ends some time later, in this game or the next one. Hit points and `isValid` are changed separately.

*Correct if* the boss counter accounts for every boss and stays within the limit; the hero's strategy falls back after each reward, in time.

## Plan

The plan was ordered by how much of a program's behaviour is concurrent or survives failures: the chat cluster, the
logger and its queue, the pool, then the HTTP connection, the timers, the reactor, the chat client and the accounts,
and the two games last. All of these are modelled. What is left:

- `HttpConn` in place of the open choice in `WebServer`; the state space of the composition is too large for a
  run of minutes, so the two meet in an abstract module instead, `ConnTurns`: how connections take turns between epoll and the pool. `WebServer` implements it for
  many connections with what a request says left open, `HttpConn` for one with all its bytes; both are proved. `HttpConn` takes from `WebServer` that the threads
  never overlap on one connection (`OneOwner`, proved).

Modules to be proved about use no RECURSIVE operator, and their constants carry named assumptions.

## The modules

| module | models | composes or implements |
|---|---|---|
| `ChatCluster` | ChatService, redis, the user and offline tables, several servers | |
| `MCChatCluster` | two servers, two users, three connections | extends `ChatCluster` |
| `BoundedFifo` | what a bounded queue promises | abstract |
| `BlockQueue` | block_queue.h, locker.cpp | implements `BoundedFifo` |
| `AsyncLog` | log.cpp, log.h | uses a queue as `BoundedFifo` promises it |
| `ConnTurns` | how connections take turns | abstract |
| `WebServer` | main.cpp, threadpool.h, the states of http_conn.h | implements `ConnTurns`, many connections |
| `HttpConn` | http_conn.h, one connection byte by byte | implements `ConnTurns`, one connection |
| `IdleTimers` | what the timers promise | abstract |
| `TimerList` | lst_timer.cpp and its calls in main.cpp | implements `IdleTimers` |
| `MCWebParts` | one run for the connection and the timers, with its requests | extends `HttpConn`, `TimerList` |
| `Reactor` | reactor_single_process.c | |
| `Sudoku`, `MCSudoku` | scene.cpp, command.cpp, main.cpp of the game; a grid of side 4 | |
| `ChatClient` | client/main.cpp, `ChatServer::onMessage` | |
| `ChatAccounts` | `reg`, `addFriend`, `createGroup`, `addGroup` and their models | |
| `AircraftWar` | GameView.java with its three games, the rewards, the aircraft | |
| `MCPrograms` | one run for the last five programs | extends `Reactor`, `MCSudoku`, `ChatClient`, `ChatAccounts`, `AircraftWar` |
| `*_proofs` | the theorems of the modules they extend: `WebServer_proofs` also those about `TimerList`, `ChatParts_proofs` of `ChatAccounts` and `ChatClient`, `Programs_proofs` of `Reactor` and `Sudoku` | |

### ChatCluster

A handler is a sequence of steps: a critical section of `connMtx_`, an SQL statement, a Redis command
or a send is one step, and `pc[c]` names the next one of connection `c`. The handlers of one connection
never overlap, as muduo runs them in one IO thread; those of different connections interleave freely.

| code | actions |
|---|---|
| `login` 52-155 | `LoginRequest`, `LoginRefuse`, `LoginQuery`, `LoginTable`, `LoginState`, `LoginSubscribe`, `LoginAnswer`, `LoginClear` |
| `clientLoginout` 239-258 | `LogoutRequest`, `LogoutErase`, `LogoutUnsubscribe`, `LogoutState` |
| `clientCloseException` 200-236 | `CloseEvent`, `CloseErase`, `CloseGarbage`, `CloseUnknown`, `CloseState`, `CloseUnsubscribe` |
| `toPChat` 267-301 | `ChatRequest`, `ChatLocal`, `ChatRemote`, `QueryState`, `Publish`, `Save` |
| `groupChat` 346-381 | `GroupRequest`, `GroupLock`, `GroupLocal`, `GroupRemote`, `GroupUnlock` and the last three above |
| `handlRedisSubscribeMessage` 384-398 | `ObserveForward`, `ObserveSave` |
| `reset`, SIGINT, a killed process | `Interrupt`, `Exit`, `Kill`, `Restart` |

`clientCloseException` uses `iter->first` after `erase(iter)`. What this reads is undefined, so
`CloseErase` (the memory still holds the id) and `CloseGarbage` (it holds something else, which is no user's id)
are both possible. Redis hands a publication to the servers subscribed at that moment, in order.
`addressed`, `delivered` and `calm` are history: which pairs of user and message clients asked for, which
reached a client, and for which the user's session has not changed since the request.

### BoundedFifo, BlockQueue

Every operation of `block_queue` holds the mutex from beginning to end, so it is one step, save for a pop that
finds the queue empty: the wait releases the mutex, `sleep[t]` says how the thread sleeps, and a push wakes
all sleepers. Spurious wake-ups and a time-out at any moment are allowed. `front()` at `m_front = -1`
reads before the array: any value. `ImplementsFifo` maps the `size` slots behind `front` to the abstract sequence.

### AsyncLog

A call of LOG_x() is `Begin` (the date is read), `Rotate` or `Count` (first critical section), `Route` (formatting, and
`full()`), `Push`, `PushRefused` or `Direct`, then `Flush`. `PopLine` and `PutLine` are the thread of `async_write_log`,
`Spill` is stdio emptying its buffer at will, `Midnight` is the date. `async` is what `init` was
told. A line is a pair of writer and number; its text is left out. The queue obeys `BoundedFifo`; `full` and `push` are two calls.

### ConnTurns, WebServer

`ConnTurns` gives each connection a turn - `in` and `out` wait for epoll, `work` is with the pool - and says who has an answer prepared. `TakesTurns` maps to it: the turn
of a connection is its registration, or `work` while it is in the queue or with a worker. A connection that is neither is `lost`, which happens only (second conjunct) when
its object has lost the descriptor, see below.

`epoll[f]` is the one-shot registration: `in`, `out`, or `off` once its event was delivered. The main thread handles
one event in one step (`Accept`, `Hangup`, `Read`, `ReadFails`, `WriteBlocks`, `WriteKeep`, `WriteClose`): its loop is
sequential, and what it touches of a connection no worker can touch unless `OneOwner` fails, which is checked. A worker's steps are
`Wake` (sem_wait), `Take` (the list, under its lock), `Incomplete` or `Answer` (process_read, process_write), and
`Rearm` (modfd). What a request says is open: both answers are possible each time.

`sock[f]` is `m_sockfd` of `users[f]`. `init()` clears `READ_BUFFER_SIZE` = 2048 bytes starting at `m_write_buf`, which has
`WRITE_BUFFER_SIZE` = 1024 (http_conn.h:406). The object has 3552 bytes and `m_write_buf` begins at byte 2088, so the beginning of
the next object becomes 0, its `m_sockfd` included: `Wiped`. An object with socket 0 fails at its next read, and re-arms
descriptor 0 instead of its own.

### HttpConn

One connection of `http_conn`. The unit of data is a byte that is CR, LF or part of a body, or the text of a line, which counts
as one: cutting a request anywhere else than at these points does nothing that cutting it there does not. `Ask` is the client, `ReadConn(n)`
is `read_conn` with n bytes in the socket, one action for each iteration of the loop of `process_read` (`RequestLine`,
`BadRequestLine`, `Header`, `HeaderEnd`, `Content`, `NoRequest`, `LineInBody`), and `WriteEnd`, `WritePart(n)` and `WriteFails` are
`write_conn` with the kernel taking n bytes. `iov` holds bases and lengths as offsets, so that a wrong base shows as a wrong byte.

What the model makes plain, each with the line it comes from:

- A body that arrives in two pieces is never completed: `parse_line` runs again over the body and moves `m_checked_idx`
  past what `parse_content` counts from (639, 613). `odd` contains `split` then.
- After a second partial write inside the head, `iov_len` is what was left, but is compared with all that was ever sent (202): bytes
  are sent twice or skipped, or `writev` is called with nothing and `write_conn` does not end (`Spin`). `odd` contains `cut` then.
- `init()` after a kept answer forgets what was already read of the next request (222): `eager`.
- A line that ends in LF alone, or a CR with something else behind it, is bad, but process_read treats it as "not yet
  complete": such a client is never answered. The branch for an LF behind a CR is not reached, since a CR at the end of the buffer is looked at again.
- A request that fills the buffer exactly makes the next `recv` ask for 0 bytes, which closes the connection.

`odd` is history; each property says under which of these it holds. The branch of `write_conn` for nothing to send is unreachable
(`out` implies an answer, `TurnsTaken`). Absolute URLs and failures of `open` and `mmap` are left out.

### IdleTimers, TimerList

`IdleTimers` promises: activity puts off when a connection is due, a tick closes exactly those that are due. `TimerList` is the linked list
with `ne` and `pre`, and `Accepted`, `Adjusted`, `Ended` and `Tick` are what main.cpp does with it. The list is one variable,
changed by functions from lists to lists (`AddTimer`, `Insert`, `AdjustTimer`, `DelTimer`), as the methods call each other. `tick` moves `head` before
it calls `del_timer`, so the node is not found: it stays allocated and `pre` of the new head stays set. This does no harm until a new
connection falls due in the same second as the head: it is then linked behind the stale node, cannot be reached from `head`, and is never
closed. `tied` is true from then on, and the properties hold up to then. The main loop never arms the alarm (main.cpp:154 is a comment), so
a tick happens only if SIGALRM comes from outside; `Tick` may happen at any time and is not fair. `heap_time.h` is used by no
program and does not compile.

### Reactor

`EpollWait` hands out a batch of pairs of descriptor and pointer; `AcceptConn`, `RecvMsg(n)`, `SendMsg(w)` and their failures dispatch one
event of it, with all they call (`setMyEvent`, `registerEvent`, `resetMyEvent`). A descriptor is used again after `close`. Bytes are
lower case, upper case, others, and 0. `room` is what is free of a connection's send buffer in the kernel: a write takes some of it, the client gives it back when it
reads (`Reads`), which it need not do. What epoll reports is `Occurs`: there is something to read, room to write, a client to accept, or an error. A client that never reads its
echoes fills the buffer; its entry then waits for EPOLLOUT for ever and its later bytes stay unread (`Stalled`), although the comment at line 172 takes room for granted.
The branch for EAGAIN, a write that fails for lack of room, and an accept that blocks as nobody is there are unreachable because what was reported stays so until it is dispatched: `StillReady`, a part of
`EventsCurrent`, says so, and is proved. A full table, or one failed `accept`, `read`
or `write`, ends the process: a client that breaks off ends the service of all others. That is what the code does, and `EveryoneServed` excuses it, but only with such a client at hand (`Ended`).
Bytes behind a 0, and what a short write leaves, are lost: `lossy`.

### Sudoku

All keys of `CScene::start` over a grid of any size: `Digit`, `Move`, `Undo`, `AskCheck`, `Quit` with or without saving, and the program started again, `Again`
or with a saved game, `Load`. `parts` is what the
groups hold: copies made before the grid is filled, or nothing in a loaded scene, so `Check` is never true. Undo moves the cursor first and
then restores the cell. The digit 0 is accepted and makes the cell one the user has filled. `past` is history.

### ChatClient

The main thread (`AskLogin`, `AskRegister`, `MainRecv(n)`, `Command`, `Loginout`, `LeaveMenu`), the receiver (`ThreadRecv(n)`), and the server as one connection sees
it (`OneRequest`, `SeveralRequests`, `PushChat`, `ClientGone`). A `recv` returns any beginning of what has arrived, up to the buffer. Both sides parse what they have got as one
text. A chat message cannot overtake the answer of the login that admits it: muduo queues what other threads send to the loop of the
connection. `odd` is history: `raced` - one thread took a message of the other, possible from the second login on, as the receiver goes on
(main.cpp:236); `misframed` - a `recv` of the client returned part of a message or more than one, which `json::parse` throws at; an answer longer than the buffer of
1024 bytes always does; `merged` - the server did, in an IO thread where nothing catches it, and the process aborts. A server that is gone makes `recv` return
0, and parsing the empty text ends the client.

### ChatAccounts

One step for each SQL statement of `reg`, `addFriend`, `createGroup` and `addGroup`; each may fail, and the server may stop between two.
Rows are in sequences, their ids are their places (auto-increment). A failed `INSERT` of a user is answered as a success with id 0, which is the
insert id of a fresh connection (UserModel.cpp:20-22). `torn` is history: what a failure left half done. Friends and groups that are asked for need not exist.
The queries of friends and groups at a login only read and are left out.

### AircraftWar

`phase` is the part of the frame that comes next. Positions are left open, so which objects meet in a part is a choice, and any number of them
may: `FliesOff`; `HeroIsHit`, `EnemyIsHit(e, shot, bumps)` (the two tests of one iteration, GameView.java 408-437) and the rewards are the iterations of
`crashCheckAction`; `PartEnds` goes on. When a period of shooting, a new enemy or a level is due is a choice as well, since it takes many frames. Enemies and rewards
of a kind do not differ, so the lists are bags, functions that say how many there are of each; bullets are left out, as any of them may or may not be where it matters. `Scatters`, `WakesUp` and `Ends` are the thread of a bullet reward.

An aircraft that is not valid answers `null` when it is to shoot, and `addAll(null)` throws in the loop: `ShootsNothing`, after which `phase` is
`crashed`. For enemies this needs a list from which the dead were not removed, and `EndOfFrame` removes them: that is so from Android 7 on, which is
assumed (`minSdk` is 21, and below 24 lines 485-496 do nothing). For the hero it happens: killed, and then a blood reward in the same frame, so that `isEnd` sees hit points; the run reaches this
state. `AnotherGame` starts from a new `GameView`, as the login is still there to go back to; hero, score and the reward's thread are static and stay as they are. A hero that was killed ends the next
game in its first frame.

`lostBosses` is history: the bosses that were counted and found no room, were bombed, or were rammed. The comment at GameView.java:341
says that there is one boss at a time; HardGame allows two. The comment at BulletReward.java:12 says six seconds, the code sleeps three.
Left out: the thread that sends the score, and an old loop that is still in its last frame when the next game starts.

### MCPrograms, MCWebParts

`Reactor`, `Sudoku`, `ChatClient`, `ChatAccounts` and `AircraftWar` have nothing in common, and each is small. `MCPrograms` chooses one at the start and lets only
that one step: the states are the union of the five, not the product, and every property of one program holds for the initial values of the others.
`MCWebParts` does the same with `HttpConn` and `TimerList`: requests do not depend on timers, and a timer only on a connection having been used.

## Runs, bounds and what they show

| run | instance | distinct states | shows |
|---|---|---|---|
| `chat_cluster` | 2 servers, 2 users (symmetric), connections 2 + 1, 1 message, overlapping logins, stops, 4 events | 1.33 million | The table, the routing and the lock stay right in every interleaving of logins, logouts, lost clients, chats, SIGINT, kills and restarts. |
| `chat_sequential` | the same, a user's sessions one after the other, no stops, 3 events | 54 thousand | Database, table and subscription agree for every settled session; a message to a calm user is never lost, and arrives. |
| `chat_offline`, `chat_duplicate` | the same, 2 events | until the violation | Findings 1 and 2. |
| `block_queue` | 2 items, 3 threads, 3 slots | 51 thousand | The ring is a first-in first-out queue, and nobody sleeps on items. |
| `block_queue_front` | 2 items, 1 thread, 3 slots | until the violation | Finding 3. |
| `async_log` | 2 writers with 2 lines, 2 places in the queue, a new file every 2 lines, 2 days, both modes | 124 thousand | Which line reaches which file, once, in which order; queued lines arrive. |
| `web_server` | 3 descriptors, 2 workers, at most 2 clients | 191 thousand | One user for each connection, right counters, no refused request; connections take turns, and read and write one answer for each request; a connection comes back to epoll unless its object was overwritten. |
| `web_socket` | 2 descriptors, 1 worker | until the violation | Finding 4. |
| `web_parts` | 2 requests out of 8, a buffer of 12, a head of 4 bytes, a file of 2, a body of 3; 3 timers | 85 thousand | What is answered to a request cut anywhere, with which bytes, and that it is answered; the timer list stays linked and closes what is due. |
| `programs` | see below | 261 thousand | Reactor, sudoku, chat client, accounts and aircraft game. |
| `sudoku_check` | the grid below, 3 commands | until the violation | Finding 5. |

*Bounds.* `MaxEvents` counts login requests, lost clients and stops (a stop counts twice). Four allow two
sessions of one user and the loss of both, or two sessions and a kill, and that is what the hazards need: two handlers of one user, and one
that stops in between. Two servers give local and remote delivery; three connections give two sessions of one user on one server and
one elsewhere. One message suffices because no step compares two messages; each has its own path, and the
theorems about routing hold for any number. For the queue, three slots let the indices wrap with one, two and three
items, and three threads let two sleep while one pushes. In `async_log` four lines fill the queue, overtake it and cross a
file boundary; two days give one midnight at any moment. In `web_server` three descriptors contain a chain of two neighbours, and two
clients of three descriptors let one be refused. In `web_parts` the eight requests have each target, a kept and an unkept answer, bodies, a bad line and LF alone;
the body contains CR and LF; the one with a body just leaves a byte of the buffer free, the one with a body and a header more fills it, as two requests at once do; a head of 4 bytes can be cut
twice; three timers are a head, a tail and a middle, and a clock up to 4 with a time of 2 lets a connection come, be put off, fall due and its node be used again.
In `programs`: two
descriptors with two slots let a slot change hands within a batch (each event names its slot); a buffer of 3 reads at most two bytes and leaves a remainder; a send buffer of 2 is filled, another byte waits in
the entry and a fourth unread, which is the least that shows a stalled client with bytes left, while the other client of `Streams` sends one byte (also a 0) and is served; a 2 byte answer is written at once or cut; blocks of 2 give a grid
of 4 with one draw of digits, 3 erasable cells of which 2 are erased, and 2 commands that can be undone; two users of one client
with answers of 1 to 3 pieces and a buffer of 2, five requests (two logins with a logout between them, and two more) and three
chat messages; two handlers with two requests, four rows of users and two groups; in the aircraft game a hero with 1 hit point, bosses with 2, room for 1 enemy and after a level for 2,
a score up to 4 with a boss for every 2 (or 1) - a boss finds no room, two bosses are there at once, one is weakened before a bomb destroys it, and the
score is carried into another game. `HeroHp` also bounds what rewards add.

*Deadlock.* `block_queue` and `web_socket` are checked for deadlock. The chat runs stop when the
events, connections and messages are used up, the client of `web_parts` when it has asked twice, the programs when their bounds are reached or the player, the client, the reactor or the aircraft game has ended, `async_log` when every writer has logged its lines, and the web server really
stops: once every admitted connection hangs on an overwritten object, no client is accepted.

## Fairness

- `ChatCluster`: each handler and each observer is weakly fair - threads of the operating system that have a step to take.
  A handler that waits for `connMtx_` has no step while another holds it; the holder is never one that waits for something else,
  and with finitely many messages the lock is free in the end. Clients and stops are not fair.
- `AsyncLog`: the flushing thread is fair; writers may stop between two steps.
- `WebServer`: each worker is fair. Nothing else is: `ComesBack` must not depend on the main thread or the client.
- `HttpConn`: reading, the worker, and writing, each weakly fair: epoll reports a readable or writable socket again
  and the kernel takes some bytes in the end. Clients are not fair; a failed write excuses.
- `Reactor`: its loop. The clients are not: they need not send, read what is echoed to them, finish or break off. That one reads is no assumption
  of `EveryoneServed` either: it promises that bytes are read unless their own client leaves its send buffer full for ever, or the process has ended at a broken or unaccepted client. Without
  either excuse TLC finds it violated.
- `ChatClient`: both threads and the server. What the user types is not fair.
- `AircraftWar`: the thread of a reward; `Thread.sleep` ends. The player may do nothing, and a program that has ended excuses.
- `BlockQueue`, `TimerList`, `Sudoku`, `ChatAccounts`: none.

## Proofs

Each theorem holds for all values of the constants that satisfy the module's assumption.

*ChatCluster_proofs.* `IInv` is `TypeOK`, `HandlerArgs`, `TabledSessions` and `LockHolder`. That table entries belong to a logged-in
connection (`TabledSessions`) is not inductive alone: a login step writes `user[c]` into the table, and only `HandlerArgs` says that a
connection in the middle of a login has a user and is not gone; a handler that sends needs that the entry it found is
still a connection. `LockHolder` needs `HandlerArgs` for the groupChat that is about to look at its next member. One lemma for
each conjunct, one step for each action. `OnlyAddressees` is an invariant on top of `IInv`, by the monotonicity of
`Seq(addressed)` (`SeqMono`), since `addressed` grows while publications wait in channels. `LockGuardsTable` is an action property from `IInv`.
Assumed: every connection has a home, `None` is a value of its own.

`SettledSessionsAgree`, `AwayUsersAgree` and `CalmMessagesKept` have the hypotheses `~Overlap` and `~Stops`: the user's sessions follow one another and no server stops - the
setting of `chat_sequential`, without its bounds. With both allowed TLC finds each of the three violated. A settled session is the result of
many steps, so the invariant has to say what each intermediate step has already done: `InPhase(c, u)` lists for every `pc` of a login, logout or close whether the
user is still missing from the table (`Untabled`), offline in the database (`Offline`), not subscribed (`Deaf`); `OneSession` says that a user has one connection, and that one that closes remembers
its user. `SessionMoves` reduces each handler step to this one user. On top of it `CalmInv` keeps a message of a calm user in a handler, in a channel, in the
offline table or delivered: what makes it hold is that the user stays settled (`CalmSettled`), so a handler that reads "online" before it publishes publishes
to a server that is subscribed (`PublishOnline`, `OnlineSubscribed`), and a table entry found is a connection that receives (`TabledReceives`).

*BlockQueue_proofs.* `IInv` is `TypeOK`, `Shape` (the newest item is `size` slots after `front`) and `NoLostWakeUp`; `NoSleepOnItems` is the first and the last. Without `Shape`
nothing relates `back`, where push writes, to `front`, where pop reads. `Refines` shows that each step is a step of
`BoundedFifo` or stutters on the sequence of slots behind `front`; the lemmas `Place` and `NextSlot` are the modular arithmetic.
Assumed: the capacity is positive, which the constructor enforces.

*WebServer_proofs, the event loop.* `IInv` is `TypeOK`, `OneOwner`, `CountIsOpen`, `Room`, `PermitsLeft` (`PermitsMatch` without its types) and `OutMeansReady`. The
argument for `NothingRefused` is the interesting one: a request that is about to be queued belongs to a connection that is registered `in`, which
by `OneOwner` is neither in the queue nor with a worker; so the queue holds distinct open connections other than
this one, hence fewer than `count`, which is at most `MaxUsers`. Assumed: `MaxUsers <= MaxRequests` - MAX_EVENT_NUMBER and
`max_requests` are both 10000. With more clients than places the main thread would drop requests in silence.

`TurnsTaken` (`ConnTurns`) adds `Unprepared` - a connection that waits for input, or whose request is not looked at yet, has no answer left - and `Astray` - one that epoll does not
watch and nobody has is one whose object lost its descriptor. One lemma for each kind of step says that it is a step of `ConnTurns` for one connection (`ReadTurns`, `TakeTurns`, `AnswerTurns`, `RearmTurns`, `MainTurns`); that the turns of all others stay is
`Elsewhere`. What could go wrong lies between the threads: a re-arm by the worker for the wrong event, a queue that drops or doubles a request, an answer that outlives its connection.

*AsyncLog_proofs.* All is about `Text(f)`, what file f holds once stdio has emptied its buffer. `Effects` says that each step does one of six things to the lines: nothing (`Quiet`), one line more at the end of `Text(fp)` from a writer (`Wrote`) or the thread (`Put`), one more in
the queue or refused by it (`Queued`, `Refused`), or the first of the queue into the thread (`Popped`); the invariants about lines are proved against these six.
`OnceInv`: texts, queue and `held` are disjoint and hold no line twice, and together hold exactly what `write_log` is through with and push took. `OrderInv`: texts, held line
and queue, one after the other, are ordered but for direct lines. `FlushInv`: without the queue, a thread past `flush` has its lines on the disk - the buffer always belongs to the
file that is open, since `Rotate` flushes the old one. `SplitInv`: `Text(fp)` has at most `count % SplitLines` lines and one for each thread that is not between its count and its write; a rotation
resets the first to 0 and leaves the rest, so the bound moves with `fp`. The file numbers of `TypeOK` need `count <= Cardinality(Counted)`.

*HttpConn_proofs.* `TurnsTaken` (`ConnTurns`) follows from `WriterInv`: something is to be sent exactly from `process_write` to the end of the answer. Apart from that, two independent parts. `WriterInv`: after `have_send` bytes the `iovec` is in the head (`IovInHead`) or past it (`IovInFile`), and what was received are
the first `have_send` of the answer's bytes - unless "cut", when `iov_len` was compared with the wrong number. `ConnInv` is about reading: all that a client ever sent is one stream in which
each request has its offset (`StreamOf`), `read_buf` and `unread` are pieces of it (`Held`, `Taken`), and `start_line`, `checked_idx` and the variables the lines have set say how
many lines of the request at the current offset are behind the parser (`InHead`, `InBody`, `InRequest`). The heart is that a line which names a target, found by
`parse_line` from CR to LF, is the first of a request only at the offset of one (`TargetStarts`), so nothing of a body or of a broken request is taken for a request line (`BeforeAnswer`); between the line the parser has reached and where it looks next there is
neither CR nor LF (`CleanLine`). At an answer the buffer ends where the request ends, so `init()` forgets nothing (`AtAnswer`), which makes `Counted` -
the k-th answer is for the k-th request - inductive. Assumed besides the sentinels: the buffer has room for a byte and the head is not empty.

*ChatParts_proofs, the accounts.* `AccountsInv` adds to the types what a handler remembers between two statements (`Handling`: the row it inserted is there and is
its own), that a group about to get its creator has none and no other handler is about to give it one (`OneCreator`), that creators are
who asked (`CreatorsAsked`), that a group is never without a reason for having none (`Founded`), and `ToldOwn`. `Owners` concludes `OwnIds`; without `OneCreator` a group could get two. `Friendship` needs
`Befriending`: between its two statements an `addFriend` has entered its first row or has failed to.

*WebServer_proofs, the timers.* `TimerInv` says that no node is due later than `now + Timeout` and that, unless two tied, the list is `Good`: there is a sequence `s` of different nodes,
`m` of them, that are the open connections (`On`), each linked to the next in both directions (`Row`), in the order in which they are due (`Ascending`), and `pre` of the first
is Null or a node a tick forgot to delete. A renewed connection is due last of all (`RenewedLast`). So `add_timer` puts it at the end of the row or in front of those due in
the same second (`AddTimerAdds`), and takes neither the branch that forgets the head nor, without a tie, a `pre` that leads out of the row; `adjust_timer` and `del_timer`
cut a node out (`RowCut`), `tick` drops the first ones (`RowDrop`). `NodesAre` ties the recursive way from `head` to the row: the values along a given row are the only
solution of the recursion, since at the least place where another one differed they would be equal. After a tie the list has no shape worth stating, and `ListTypeOK` is claimed up to there only. `TimersKept` shows that each
step is a step of `IdleTimers` or stutters.

*Programs_proofs, the game.* `UndoRestores` is inductive with the type invariant. `Pushed` and `Popped` say what one more and one fewer command do to `Undoable`.

*Programs_proofs, the reactor.* `IInv` is `TableIsTree`, `EntriesCurrent` (the part of `EventsCurrent` about the table), and three more: a client that has not been accepted is not registered (`Strangers`), only the
listener's entry has the callback that accepts (`Roles`), and no answer is longer than what is in the buffer (`Lengths`). They are needed because `acceptConn` takes any slot whose
`st` is 0: that no registered descriptor points to it is `TableIsTree`; that no waiting event does needs `EntriesCurrent`, which in
turn needs that two events of one batch are never for one descriptor. `Installed` and `Cleared` say what `setMyEvent` and `resetMyEvent`
leave; the bound on `strlen` is the least index with a 0. On top of it `StillReady`, the other part of `EventsCurrent`: a handler takes bytes, room or a waiting client only of its own
descriptor, which no other event of the batch is for (`ReadyHandler`), and clients only make a socket more ready (`ReadyClient`). `OnlyClientsEndIt` follows: a handler that ends the process met a broken connection, or a
client that waits - never a descriptor with nothing to do. `EchoesAll` adds `EchoInv`: an entry's handler is the one for its interest (`Turns`), a
buffer that waits to be written is written to its end (`Filled`), a client that is not accepted has sent nothing (`Silent`). With
these each step moves one byte sequence between the three parts of `got \o buffer \o pending`, whose concatenation never changes but when the client sends
(`ConvertedSplit`, `ThreeAppend`).

*ChatParts_proofs, the client.* `ClientInv` describes the two streams: a chat message is one piece, and all pieces of answers that are under way are of one answer (`Framed`), which
main waits for (`Awaited`), a request that wants an answer is the last one sent (`LastRequest`), the server's session is the client's or a logout is still on
its way (`ServerKnows`), and before the first logout nothing is raced (`FirstLogin`). `MenuAgrees` and `OwnMessages` are conclusions. `LastRequest` is the heart: since nothing is sent while an answer is awaited, everything before the
request has been served when it is, and the session is then nobody's.

*AircraftWar_proofs.* `AircraftInv` is the type invariant, the types of the counters (`Limits`) and `Counted`: both lists are finite bags and `cntBoss` is the number of
bosses plus `lostBosses`, within `bossLimit`. A list is counted by its copies, pairs of a thing and a number (`Copies`), so that what happens to it is a fact about finite sets: one
copy more or fewer (`AddedCopy`, `RemovedCopy`), some of the copies (`KeptCounts`), and for a bomb, which makes different things alike, an injection of the copies after it into those before it
(`BombedCounts`). What an iteration does to `cntBoss` then follows from whether the enemy was a boss, was shot down or was rammed (`EnemyIsHitKeeps`): a boss that is shot down and rammed at
once is counted off once. A level only raises the limit, and another game starts from an empty list. `NeverTwiceAsLong` is the safety half of `RewardWearsOff`: `validTime` is 1 exactly while there is a
thread, and the hero shoots scattered exactly while it sleeps (`RewardInv`).

Assumed by the others: the named assumption of the module only - sentinels are values of their own, bounds are numbers, a reactor's `Streams` are
bytes, a grid's blocks have at least side 2 and the draws are bijections.

## Only model-checked

- Liveness (`CalmArrives`, `QueuedArrives`, `ComesBack`, `Answered`, `EveryoneServed`, `AnswerComes`, `RewardWearsOff`): fairness and ENABLED are beyond the prover. Of `RewardWearsOff` the part without
  fairness is proved, and of `EveryoneServed` that only a broken or unaccepted client can end the process (`OnlyClientsEndIt`). Every invariant and action property that a run checks is proved.

## Findings

1. `login` reads the offline messages (92), sends them (151) and deletes all rows of the user (154). A message stored in between is deleted unsent.
2. `handlRedisSubscribeMessage` forwards a message to its user and then stores it as an offline message all the same (397); the user gets it again.
3. `block_queue::front` returns the slot before the oldest item (block_queue.h:86); `pop` returns the next one.
4. `http_conn::init` clears 2048 bytes of a buffer of 1024 and with it `m_sockfd` of the next object (http_conn.h:406); `webserver/README.md:37` lists
   the symptom as unsolved.
5. `CScene::check` compares copies of the cells made before the grid is filled (scene.cpp:98), and a loaded game has no groups: a solved grid is never
   recognised, although the game's help promises it (main.cpp:18).

## What the properties excuse

Some behaviour is plainly wrong, but nothing in the repository says otherwise, or it is a known consequence of one line. The model has it, a history variable
remembers when it happened, and the property holds up to then: it shows that nothing else breaks it, not that this does not occur.

| properties | excuse | where |
|---|---|---|
| `ExactlyOnce` | `lost`: a line refused by a queue that filled up between the look and the push | log.cpp:150 |
| `WrittenInOrder` | `cut`: an answer cut twice within its head | http_conn.h:202 |
| `Answered`, `AnswersWhole` | a body that arrives in two pieces | http_conn.h:639 |
| `TimersLinked`, `TimersKeepPromise` | `tied`: a timer due in the same second as the head after a tick | lst_timer.cpp:120 |
| `Echoed` | `lossy`: a byte 0, or a short write | reactor_single_process.c:211 |
| `EveryoneServed` | `Stalled`, `Ended`: the client does not read; a client's error ended the process | reactor_single_process.c:172, 178 |
| `SessionAgrees`, `AnswerComes` | `odd`: messages merged or split, or read by the other thread | ChatServer.cpp:31, client/main.cpp:236 |
| `FriendsBothWays` | `torn`: a statement failed or the server stopped between two | ChatService.cpp:317 |
| `BossesCounted` | `lostBosses`: bosses that are gone and stay counted | GameView.java:418 |

## Not modelled

*Chat.* Failing SQL statements and lost connections to MySQL or Redis in `ChatCluster` (`ChatAccounts` has failing
statements); the buffer of hiredis that handlers and observer share without a lock (redis.cpp:68), which is inside that library; what the client's commands carry. Two things the runs allow and no property forbids, since
nothing in the code promises otherwise: a user whose close read a garbage id stays online in the database (`AwayAgree`
says that the subscription then stays too, so messages are stored), and the session of a user that overlaps with another one may be left
without a subscription.

*Logger and queue.* The text of a line, a failing `fopen`, the destructor of the queue, errors of `pthread_cond_wait`; `size` and `max_size` only read.

*Web server.* In the composition `WebServer`: what requests say and pipelining (see `HttpConn`), and ticks (see `TimerList`): a connection is there
a node or none; SIGTERM ends the process and is left out. `close_conn` is reached only if `process_write` fails, which it does not for any code `process_read` returns. A client
that is sent away for lack of room changes no state. The other fields that `init()` overwrites in the neighbour
(the first bytes of its read buffer, its address) change what a request says, which is open in the model anyway. In `HttpConn`: absolute URLs, the text of headers, failing
`open` and `mmap`.

*Sudoku, reactor.* Drawing, and the parsing of a file that is damaged; what `ntohs` and the like do before the loop starts.

*Aircraft war.* Where things are on the screen, pictures and sound, the local database; the client of the score server, which is a sequence of blocking requests to a
server that is not in the repository.

*Size.* The C and C++ files of the repository have 27 thousand lines, of which 21 thousand are json.hpp and 450 webbench, both vendored. The modules cover
most of the rest that has behaviour over time; views, pictures, the SQLite helper, build output and vendored code have none, or are not this repository's own.
