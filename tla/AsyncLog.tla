------------------------------ MODULE AsyncLog -------------------------------
(***************************************************************************)
(* The logger of the web server (src/webserver/log/log.cpp, log.h) and the  *)
(* threads that call LOG_...() and then flush().  Each critical section of  *)
(* m_mutex, and each call of the queue, is one step.  The queue is the      *)
(* bounded first-in first-out queue that BlockQueue implements.             *)
(***************************************************************************)
EXTENDS Naturals, Sequences, FiniteSets, Functions

CONSTANTS
  Writers,     (* the threads that log                                       *)
  LinesEach,   (* how many lines each of them logs                           *)
  QueueSize,   (* max_queue_size                                             *)
  SplitLines,  (* m_split_lines                                              *)
  Days,        (* bound on the days the run may last                         *)
  None         (* no line                                                    *)

ASSUME LogAssumption ==
  /\ IsFiniteSet(Writers)
  /\ LinesEach \in Nat
  /\ QueueSize \in Nat \ {0}
  /\ SplitLines \in Nat \ {0}
  /\ Days \in Nat \ {0}
  /\ None \notin Writers \X Nat

VARIABLES
  async,   (* m_is_async: what init() was called with                        *)
  clock,   (* the day it is                                                  *)
  count,   (* m_count                                                        *)
  today,   (* m_today                                                        *)
  fp,      (* m_fp: the file that is open, <<day, number>>                   *)
  buf,     (* what stdio still holds of that file                            *)
  disk,    (* what is in the files                                           *)
  queue,   (* m_log_queue                                                    *)
  held,    (* the line the flushing thread has taken from the queue          *)
  pc,      (* where a writer is in write_log or flush                        *)
  logged,  (* the lines a writer has begun to log                            *)
  stamp,   (* the day a writer read at the beginning of write_log            *)
  direct,  (* history: the lines a writer wrote to the file itself           *)
  lost     (* history: the lines push() refused                              *)

file == <<count, today, fp>>
writer == <<logged, stamp>>
history == <<direct, lost>>
vars == <<async, clock, file, buf, disk, queue, held, pc, writer, history>>

Lines == Writers \X (1 .. LinesEach)
Numbers == 0 .. (Cardinality(Writers) * LinesEach) \div SplitLines
Files == (1 .. Days) \X Numbers

TypeOK ==
  /\ async \in BOOLEAN
  /\ clock \in 1 .. Days
  /\ count \in Nat
  /\ today \in 1 .. Days
  /\ fp \in Files
  /\ buf \in Seq(Lines)
  /\ disk \in [Files -> Seq(Lines)]
  /\ queue \in Seq(Lines) /\ Len(queue) <= QueueSize
  /\ held \in Lines \cup {None}
  /\ pc \in [Writers -> {"idle", "count", "route", "push", "direct", "flush"}]
  /\ logged \in [Writers -> 0 .. LinesEach]
  /\ stamp \in [Writers -> 1 .. Days]
  /\ direct \subseteq Lines
  /\ lost \subseteq Lines

Init ==
  /\ async \in BOOLEAN
  /\ clock = 1 /\ today = 1
  /\ count = 0 /\ fp = <<1, 0>>
  /\ buf = <<>> /\ disk = [f \in Files |-> <<>>]
  /\ queue = <<>> /\ held = None
  /\ pc = [w \in Writers |-> "idle"]
  /\ logged = [w \in Writers |-> 0]
  /\ stamp = [w \in Writers |-> 1]
  /\ direct = {} /\ lost = {}

-----------------------------------------------------------------------------
Line(w) == <<w, logged[w]>>

Goes(w, from, next) == pc[w] = from /\ pc' = [pc EXCEPT ![w] = next]

(* Mutant: fclose of a stream whose buffer is dropped. *)
WrittenDropped == disk

(* fflush, or what fclose does first. *)
Written == [disk EXCEPT ![fp] = @ \o buf]

(* write_log reads the time before it takes the mutex. *)
Begin(w) ==
  /\ Goes(w, "idle", "count")
  /\ logged[w] < LinesEach
  /\ logged' = [logged EXCEPT ![w] = @ + 1]
  /\ stamp' = [stamp EXCEPT ![w] = clock]
  /\ UNCHANGED <<async, clock, file, buf, disk, queue, held, history>>

(* A new file each day, by the day the writer read, and every SplitLines.    *)
Rotates(w) == today # stamp[w] \/ (count + 1) % SplitLines = 0

Rotate(w) ==
  /\ Rotates(w)
  /\ Goes(w, "count", "route")
  /\ IF today # stamp[w]
       THEN count' = 0 /\ fp' = <<stamp[w], 0>>
       ELSE count' = count + 1 /\ fp' = <<stamp[w], count' \div SplitLines>>
  /\ today' = stamp[w]
  /\ disk' = Written
  /\ buf' = <<>>
  /\ UNCHANGED <<async, clock, queue, held, writer, history>>

(* Mutant: nobody counts. *)
NoCount(w) ==
  /\ Goes(w, "count", "route")
  /\ UNCHANGED <<async, clock, file, buf, disk, queue, held, writer, history>>

Count(w) ==
  /\ ~Rotates(w)
  /\ Goes(w, "count", "route")
  /\ count' = count + 1
  /\ UNCHANGED <<async, clock, today, fp, buf, disk, queue, held, writer, history>>

(* The line is formatted under the mutex, which changes nothing others see;  *)
(* full() is asked, and the answer may be old when it is used.              *)
Route(w) ==
  /\ pc[w] = "route"
  /\ pc' = [pc EXCEPT ![w] = IF async /\ Len(queue) < QueueSize THEN "push" ELSE "direct"]
  /\ UNCHANGED <<async, clock, file, buf, disk, queue, held, writer, history>>

(* Mutant: the newest line first. *)
PushFront(w) ==
  /\ Goes(w, "push", "flush")
  /\ Len(queue) < QueueSize
  /\ queue' = <<Line(w)>> \o queue
  /\ UNCHANGED <<async, clock, file, buf, disk, held, writer, history>>

Push(w) ==
  /\ Goes(w, "push", "flush")
  /\ Len(queue) < QueueSize
  /\ queue' = Append(queue, Line(w))
  /\ UNCHANGED <<async, clock, file, buf, disk, held, writer, history>>

PushRefused(w) ==      \* the queue has filled up since full(); the answer is ignored
  /\ Goes(w, "push", "flush")
  /\ Len(queue) = QueueSize
  /\ lost' = lost \cup {Line(w)}
  /\ UNCHANGED <<async, clock, file, buf, disk, queue, held, writer, direct>>

Direct(w) ==
  /\ Goes(w, "direct", "flush")
  /\ buf' = Append(buf, Line(w))
  /\ direct' = direct \cup {Line(w)}
  /\ UNCHANGED <<async, clock, file, disk, queue, held, writer, lost>>

Flush(w) ==
  /\ Goes(w, "flush", "idle")
  /\ disk' = Written
  /\ buf' = <<>>
  /\ UNCHANGED <<async, clock, file, queue, held, writer, history>>

-----------------------------------------------------------------------------
(* async_write_log, the flushing thread                                     *)

(* Mutant: the line that was read stays in the queue. *)
PeekLine ==
  /\ held = None /\ queue # <<>>
  /\ held' = Head(queue)
  /\ UNCHANGED <<async, clock, file, buf, disk, queue, pc, writer, history>>

PopLine ==
  /\ held = None /\ queue # <<>>
  /\ held' = Head(queue) /\ queue' = Tail(queue)
  /\ UNCHANGED <<async, clock, file, buf, disk, pc, writer, history>>

(* Mutant: the flushing thread goes on only while more lines wait. *)
PutWhileMore ==
  /\ held # None /\ queue # <<>>
  /\ buf' = Append(buf, held) /\ held' = None
  /\ UNCHANGED <<async, clock, file, disk, queue, pc, writer, history>>

PutLine ==
  /\ held # None
  /\ buf' = Append(buf, held) /\ held' = None
  /\ UNCHANGED <<async, clock, file, disk, queue, pc, writer, history>>

(* stdio writes its buffer when it pleases. *)
Spill ==
  /\ buf # <<>>
  /\ disk' = Written /\ buf' = <<>>
  /\ UNCHANGED <<async, clock, file, queue, held, pc, writer, history>>

Midnight ==
  /\ clock < Days
  /\ clock' = clock + 1
  /\ UNCHANGED <<async, file, buf, disk, queue, held, pc, writer, history>>

Flusher == PopLine \/ PutLine

WriteLog(w) ==
  \/ Begin(w) \/ Rotate(w) \/ Count(w) \/ Route(w)
  \/ Push(w) \/ PushRefused(w) \/ Direct(w) \/ Flush(w)

Next == Flusher \/ Spill \/ Midnight \/ \E w \in Writers : WriteLog(w)

(* The flushing thread runs; writers may stop between two lines.            *)
Spec == Init /\ [][Next]_vars /\ WF_vars(Flusher)

-----------------------------------------------------------------------------
(* Properties.                                                             *)

(* What a file holds once stdio has written its buffer. *)
Text(f) == Written[f]

(* Where a line is. *)
Places(x) ==
  (UNION {{<<"file", f, i>> : i \in {k \in DOMAIN Text(f) : Text(f)[k] = x}} : f \in Files})
    \cup {<<"queue", i>> : i \in {k \in DOMAIN queue : queue[k] = x}}
    \cup (IF held = x THEN {<<"thread">>} ELSE {})

(* write_log is through with it. *)
Passed(x) == \/ x[2] < logged[x[1]]
             \/ x[2] = logged[x[1]] /\ pc[x[1]] \in {"idle", "flush"}

(* A line that write_log is through with is in exactly one place, or was     *)
(* refused by push and is nowhere: rotations, direct writes and the flushing *)
(* thread neither lose nor double a line.                                   *)
ExactlyOnce ==
  \A x \in Lines :
    IF Passed(x) /\ x \notin lost
      THEN \E p \in Places(x) : Places(x) = {p}
      ELSE Places(x) = {}

(* Without the queue, LOG_...() and flush() leave the line on the disk, also *)
(* when another thread rotates the file in between.                         *)
FlushedIsWritten ==
  \A w \in Writers : ~async /\ pc[w] = "idle" =>
    \A n \in 1 .. logged[w] : \E f \in Files : \E i \in DOMAIN disk[f] : disk[f][i] = <<w, n>>

(* In a file the lines of one thread follow each other in the order they     *)
(* were logged, except that a line written directly passes earlier ones that *)
(* were queued.                                                             *)
WriterOrder ==
  \A f \in Files : \A i, j \in DOMAIN Text(f) :
    LET x == Text(f)[i]  y == Text(f)[j] IN
    i < j /\ x[1] = y[1] /\ x[2] > y[2] => x \in direct /\ y \notin direct

(* Without the queue and within a day, a file holds at most SplitLines lines *)
(* and one more for each other thread between its count and its write.      *)
SplitBound ==
  /\ TypeOK
  /\ ~async /\ clock = 1 =>
    \A f \in Files : Len(Text(f)) <= SplitLines + Cardinality(Writers) - 1

(* A queued line reaches the file. *)
QueuedArrives ==
  \A x \in Lines : (x \in Range(queue)) ~> \E f \in Files : x \in Range(Text(f))
=============================================================================
