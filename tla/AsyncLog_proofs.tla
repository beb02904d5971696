--------------------------- MODULE AsyncLog_proofs ---------------------------
(***************************************************************************)
(* Proofs about AsyncLog for any writers, lines, queue size, split and     *)
(* days: a line is in one place, in order, on the disk once it is flushed, *)
(* and a file holds little more than SplitLines lines.                     *)
(*                                                                         *)
(* The argument is about Text(f), what file f holds once stdio has written *)
(* its buffer: Spill, Flush and Rotate leave it alone, Direct and PutLine  *)
(* append one line to Text(fp).                                            *)
(***************************************************************************)
EXTENDS AsyncLog, SequenceTheorems, FiniteSetTheorems, TLAPS

InText(x) == \E f \in Files : \E i \in DOMAIN Text(f) : Text(f)[i] = x
InQueue(x) == \E i \in DOMAIN queue : queue[i] = x

-----------------------------------------------------------------------------
(* The invariants.                                                         *)

(* The lines that were counted are as many as count says or more: a rotation *)
(* at midnight forgets some.                                                *)
Counted == {x \in Lines : x[2] < logged[x[1]] \/ (x[2] = logged[x[1]] /\ pc[x[1]] # "count")}

TypeInv ==
  /\ TypeOK
  /\ \A w \in Writers : pc[w] # "idle" => logged[w] # 0
  /\ count <= Cardinality(Counted)

(* Nowhere is a line twice, and the lines that are somewhere are those that  *)
(* write_log is through with and push took.                                 *)
TextDistinct ==
  \A f, g \in Files : \A i \in DOMAIN Text(f), j \in DOMAIN Text(g) :
    Text(f)[i] = Text(g)[j] => f = g /\ i = j

QueueDistinct == \A i, j \in DOMAIN queue : queue[i] = queue[j] => i = j

Apart == \A x \in Lines : /\ ~(InText(x) /\ InQueue(x))
                          /\ held = x => ~InText(x) /\ ~InQueue(x)

Accounted ==
  /\ \A x \in Lines : (InText(x) \/ InQueue(x) \/ held = x) <=> (Passed(x) /\ x \notin lost)
  /\ \A x \in lost \cup direct : Passed(x)

OnceInv == TextDistinct /\ QueueDistinct /\ Apart /\ Accounted

(* The text of a file, the line in the thread and the queue, in this order,  *)
(* are one sequence in which only direct lines pass queued ones.            *)
Behind(y) == InQueue(y) \/ held = y

QueuedAreNotDirect == \A y \in Lines : Behind(y) => y \notin direct

TextFirst ==
  \A x, y \in Lines : InText(x) /\ Behind(y) /\ x[1] = y[1] /\ x[2] > y[2] => x \in direct

HeldFirst ==
  \A y \in Lines : held # None /\ InQueue(y) /\ held[1] = y[1] => held[2] < y[2]

QueueOrder ==
  \A i, j \in DOMAIN queue : i < j /\ queue[i][1] = queue[j][1] => queue[i][2] < queue[j][2]

OrderInv == WriterOrder /\ QueuedAreNotDirect /\ TextFirst /\ HeldFirst /\ QueueOrder

OnDisk(x) == \E f \in Files : \E i \in DOMAIN disk[f] : disk[f][i] = x

FlushInv ==
  ~async =>
    /\ queue = <<>> /\ held = None /\ lost = {}
    /\ \A w \in Writers : pc[w] # "push"
    /\ \A w \in Writers : \A n \in 1 .. logged[w] :
         n < logged[w] \/ pc[w] = "idle" => OnDisk(<<w, n>>)

(* Writers between their count and their write. *)
Writing == {w \in Writers : pc[w] \in {"route", "direct"}}

Room == Cardinality(Writers) - Cardinality(Writing)

Split ==
  /\ today = 1
  /\ \A w \in Writers : stamp[w] = 1
  /\ fp = <<1, count \div SplitLines>>
  /\ Len(Text(fp)) <= (count % SplitLines) + Room
  /\ \A f \in Files : f[2] > fp[2] => Text(f) = <<>>
  /\ \A f \in Files : f # fp => Len(Text(f)) <= SplitLines + Cardinality(Writers) - 1

SplitInv == ~async /\ clock = 1 => Split

-----------------------------------------------------------------------------
(* Types.                                                                  *)

(* What the files hold are sequences of lines. *)
LEMMA TextType ==
  ASSUME TypeOK
  PROVE  Written \in [Files -> Seq(Lines)]
<1>1. disk[fp] \o buf \in Seq(Lines)
  BY ConcatProperties DEF TypeOK
<1> QED
  BY <1>1 DEF TypeOK, Written

LEMMA NoneIsNoLine == None \notin Lines
BY LogAssumption DEF Lines

(* A thread that has begun to log a line has one. *)
LEMMA LineType ==
  ASSUME TypeOK, NEW w \in Writers, logged[w] # 0
  PROVE  Line(w) \in Lines
<1>1. logged[w] \in 1 .. LinesEach
  BY LogAssumption DEF TypeOK
<1> QED
  BY <1>1 DEF Line, Lines

LEMMA LinesFinite ==
  /\ IsFiniteSet(Lines) /\ Cardinality(Lines) = Cardinality(Writers) * LinesEach
  /\ Cardinality(Writers) \in Nat /\ Cardinality(Lines) \in Nat
<1>1. IsFiniteSet(1 .. LinesEach) /\ Cardinality(1 .. LinesEach) = LinesEach
  BY LogAssumption, FS_Interval
<1>2. IsFiniteSet(Lines) /\ Cardinality(Lines) = Cardinality(Writers) * Cardinality(1 .. LinesEach)
  BY <1>1, LogAssumption, FS_Product DEF Lines
<1> QED
  BY <1>1, <1>2, LogAssumption, FS_CardinalityType

LEMMA DivGrows ==
  ASSUME NEW d \in Nat \ {0}, NEW a \in Nat, NEW b \in Nat, a <= b
  PROVE  a \div d \in 0 .. b \div d
BY Z3

(* There is a file for every count. *)
LEMMA NumberOfCount ==
  ASSUME NEW k \in Nat, k <= Cardinality(Lines)
  PROVE  k \div SplitLines \in Numbers
BY LinesFinite, DivGrows, LogAssumption DEF Numbers

LEMMA FirstFile ==
  ASSUME NEW d \in 1 .. Days
  PROVE  <<d, 0>> \in Files
<1>1. 0 \in Nat /\ 0 <= Cardinality(Lines) /\ 0 \div SplitLines = 0
  BY LinesFinite, LogAssumption, Z3
<1>2. 0 \in Numbers
  BY <1>1, NumberOfCount
<1> QED
  BY <1>2 DEF Files

(* Counted grows by the line that is counted, and stays otherwise. *)
LEMMA CountedGrows ==
  ASSUME TypeInv, NEW w \in Writers, Goes(w, "count", "route"), UNCHANGED logged
  PROVE  /\ count + 1 <= Cardinality(Counted')
         /\ Cardinality(Counted') <= Cardinality(Lines)
<1>1. Line(w) \in Lines /\ Line(w) \notin Counted
  BY LineType DEF TypeInv, Goes, Counted, Line, TypeOK
<1>2. Counted' = Counted \cup {Line(w)}
  <2>1. ASSUME NEW x \in Lines
        PROVE  x \in Counted' <=> x \in Counted \/ x = Line(w)
    <3>1. x[1] \in Writers /\ x[2] \in Nat /\ x = <<x[1], x[2]>>
      BY DEF Lines
    <3>2. CASE x[1] = w
      BY <3>1, <3>2 DEF TypeInv, TypeOK, Goes, Counted, Line
    <3>3. CASE x[1] # w
      BY <3>1, <3>3 DEF TypeInv, TypeOK, Goes, Counted, Line
    <3> QED
      BY <3>2, <3>3
  <2> QED
    BY <1>1, <2>1 DEF Counted
<1>3. Counted \in SUBSET Lines /\ Counted' \in SUBSET Lines
  BY DEF Counted, Lines
<1>4. IsFiniteSet(Counted) /\ IsFiniteSet(Counted') /\ Cardinality(Counted') <= Cardinality(Lines)
  BY <1>3, LinesFinite, FS_Subset
<1>5. Cardinality(Counted') = Cardinality(Counted) + 1
  BY <1>1, <1>2, <1>4, FS_AddElement
<1>6. Cardinality(Counted) \in Nat
  BY <1>4, FS_CardinalityType
<1> QED
  BY <1>4, <1>5, <1>6 DEF TypeInv, TypeOK

LEMMA CountedStays ==
  ASSUME TypeInv, UNCHANGED count,
         \A w \in Writers :
           \/ logged'[w] = logged[w] /\ (pc'[w] = "count" <=> pc[w] = "count")
           \/ logged'[w] = logged[w] + 1 /\ pc[w] # "count" /\ pc'[w] = "count"
  PROVE  count' <= Cardinality(Counted')
<1>1. ASSUME NEW x \in Lines
      PROVE  x \in Counted' <=> x \in Counted
  <2>1. x[1] \in Writers /\ x[2] \in Nat
    BY DEF Lines
  <2>2. logged[x[1]] \in Nat
    BY <2>1 DEF TypeInv, TypeOK
  <2>3. CASE logged'[x[1]] = logged[x[1]]
    BY <2>1, <2>2, <2>3 DEF Counted
  <2>4. CASE logged'[x[1]] = logged[x[1]] + 1
    BY <2>1, <2>2, <2>4 DEF Counted
  <2> QED
    BY <2>1, <2>3, <2>4
<1>2. Counted' = Counted
  BY <1>1 DEF Counted, Lines
<1> QED
  BY <1>2 DEF TypeInv

LEMMA TypeInit == Init => TypeInv
<1> SUFFICES ASSUME Init PROVE TypeInv
  OBVIOUS
<1>1. 1 \in 1 .. Days /\ fp \in Files
  BY LogAssumption, FirstFile DEF Init
<1>2. TypeOK
  BY <1>1, LogAssumption DEF Init, TypeOK
<1>3. Counted \in SUBSET Lines
  BY DEF Counted
<1>4. count <= Cardinality(Counted)
  BY <1>3, LinesFinite, FS_Subset, FS_CardinalityType DEF Init
<1> QED
  BY <1>2, <1>4 DEF TypeInv, Init

(* The buffer and the disk after fflush. *)
LEMMA FlushType ==
  ASSUME TypeOK, disk' = Written, buf' = <<>>
  PROVE  disk' \in [Files -> Seq(Lines)] /\ buf' \in Seq(Lines)
BY TextType

LEMMA TypeBegin ==
  ASSUME TypeInv, NEW w \in Writers, Begin(w)
  PROVE  TypeInv'
<1>1. logged[w] + 1 \in 0 .. LinesEach
  BY LogAssumption DEF TypeInv, TypeOK, Begin
<1>2. TypeOK'
  BY <1>1 DEF TypeInv, TypeOK, Begin, Goes, file, history
<1>3. count' <= Cardinality(Counted')
  <2>1. ASSUME NEW v \in Writers
        PROVE  \/ logged'[v] = logged[v] /\ (pc'[v] = "count" <=> pc[v] = "count")
               \/ logged'[v] = logged[v] + 1 /\ pc[v] # "count" /\ pc'[v] = "count"
    BY DEF TypeInv, TypeOK, Begin, Goes
  <2>2. UNCHANGED count
    BY DEF Begin, file
  <2> QED
    BY <2>1, <2>2, CountedStays
<1>4. \A v \in Writers : pc'[v] # "idle" => logged'[v] # 0
  BY DEF TypeInv, TypeOK, Begin, Goes
<1> QED
  BY <1>2, <1>3, <1>4 DEF TypeInv

LEMMA TypeRotate ==
  ASSUME TypeInv, NEW w \in Writers, Rotate(w)
  PROVE  TypeInv'
<1>1. UNCHANGED logged /\ Goes(w, "count", "route")
  BY DEF Rotate, writer
<1>2. count + 1 <= Cardinality(Counted') /\ Cardinality(Counted') <= Cardinality(Lines)
  BY <1>1, CountedGrows
<1>3. Cardinality(Counted') \in Nat /\ count \in Nat /\ count' \in Nat /\ count' <= count + 1
  <2>1. Counted' \in SUBSET Lines
    BY DEF Counted, Lines
  <2>2. Cardinality(Counted') \in Nat
    BY <2>1, LinesFinite, FS_Subset, FS_CardinalityType
  <2> QED
    BY <2>2 DEF TypeInv, TypeOK, Rotate
<1>4. count' <= Cardinality(Counted') /\ count' <= Cardinality(Lines)
  BY <1>2, <1>3, LinesFinite
<1>5. fp' \in Files
  <2>1. stamp[w] \in 1 .. Days
    BY DEF TypeInv, TypeOK
  <2>2. CASE today # stamp[w]
    BY <2>1, <2>2, FirstFile DEF Rotate
  <2>3. CASE today = stamp[w]
    <3>1. count' \div SplitLines \in Numbers
      BY <1>3, <1>4, NumberOfCount
    <3> QED
      BY <2>1, <2>3, <3>1 DEF Rotate, Files
  <2> QED
    BY <2>2, <2>3
<1>6. disk' \in [Files -> Seq(Lines)] /\ buf' \in Seq(Lines)
  BY FlushType DEF Rotate, TypeInv
<1>7. TypeOK'
  BY <1>3, <1>5, <1>6 DEF TypeInv, TypeOK, Rotate, Goes, writer, history
<1>8. \A v \in Writers : pc'[v] # "idle" => logged'[v] # 0
  BY DEF TypeInv, TypeOK, Rotate, Goes, writer
<1> QED
  BY <1>4, <1>7, <1>8 DEF TypeInv

LEMMA TypeCount ==
  ASSUME TypeInv, NEW w \in Writers, Count(w)
  PROVE  TypeInv'
<1>1. UNCHANGED logged /\ Goes(w, "count", "route")
  BY DEF Count, writer
<1>2. count' <= Cardinality(Counted')
  BY <1>1, CountedGrows DEF Count
<1>3. TypeOK'
  BY DEF TypeInv, TypeOK, Count, Goes, writer, history
<1>4. \A v \in Writers : pc'[v] # "idle" => logged'[v] # 0
  BY DEF TypeInv, TypeOK, Count, Goes, writer
<1> QED
  BY <1>2, <1>3, <1>4 DEF TypeInv

(* Every other step counts nothing and begins no line. *)
LEMMA TypeOthers ==
  ASSUME TypeInv, TypeOK', UNCHANGED <<count, logged>>,
         \/ UNCHANGED pc
         \/ \E w \in Writers : \E p \in {"route", "push", "direct", "flush"} :
              \E q \in {"push", "direct", "flush", "idle"} : Goes(w, p, q)
  PROVE  TypeInv'
<1>1. \A w \in Writers : logged'[w] = logged[w] /\ (pc'[w] = "count" <=> pc[w] = "count")
  BY DEF TypeInv, TypeOK, Goes
<1>2. count' <= Cardinality(Counted')
  BY <1>1, CountedStays
<1>3. \A w \in Writers : pc'[w] # "idle" => logged'[w] # 0
  BY DEF TypeInv, TypeOK, Goes
<1> QED
  BY <1>2, <1>3 DEF TypeInv

LEMMA TypeNext == TypeInv /\ [Next]_vars => TypeInv'
<1> SUFFICES ASSUME TypeInv, [Next]_vars PROVE TypeInv'
  OBVIOUS
<1> USE DEF file, writer, history
<1>1. ASSUME NEW w \in Writers, WriteLog(w) PROVE TypeInv'
  <2>1. CASE Begin(w)
    BY <2>1, TypeBegin
  <2>2. CASE Rotate(w)
    BY <2>2, TypeRotate
  <2>3. CASE Count(w)
    BY <2>3, TypeCount
  <2>4. CASE Route(w)
    <3>1. TypeOK'
      BY <2>4 DEF TypeInv, TypeOK, Route
    <3>2. \E q \in {"push", "direct"} : Goes(w, "route", q)
      BY <2>4 DEF Route, Goes
    <3> QED
      BY <2>4, <3>1, <3>2, TypeOthers DEF Route
  <2>5. CASE Push(w)
    <3>1. Goes(w, "push", "flush") /\ Line(w) \in Lines
      BY <2>5, LineType DEF Push, Goes, TypeInv
    <3>2. Append(queue, Line(w)) \in Seq(Lines) /\ Len(Append(queue, Line(w))) = Len(queue) + 1
      BY <3>1, AppendProperties DEF TypeInv, TypeOK
    <3>3. queue' \in Seq(Lines) /\ Len(queue') <= QueueSize
      BY <2>5, <3>2, LogAssumption DEF TypeInv, TypeOK, Push
    <3>4. TypeOK'
      BY <2>5, <3>3 DEF TypeInv, TypeOK, Push, Goes
    <3> QED
      BY <2>5, <3>1, <3>4, TypeOthers DEF Push
  <2>6. CASE PushRefused(w)
    <3>1. Goes(w, "push", "flush") /\ Line(w) \in Lines
      BY <2>6, LineType DEF PushRefused, Goes, TypeInv
    <3>2. TypeOK'
      BY <2>6, <3>1 DEF TypeInv, TypeOK, PushRefused, Goes
    <3> QED
      BY <2>6, <3>1, <3>2, TypeOthers DEF PushRefused
  <2>7. CASE Direct(w)
    <3>1. Goes(w, "direct", "flush") /\ Line(w) \in Lines
      BY <2>7, LineType DEF Direct, Goes, TypeInv
    <3>2. TypeOK'
      BY <2>7, <3>1, AppendProperties DEF TypeInv, TypeOK, Direct, Goes
    <3> QED
      BY <2>7, <3>1, <3>2, TypeOthers DEF Direct
  <2>8. CASE Flush(w)
    <3>1. TypeOK'
      BY <2>8, FlushType DEF TypeInv, TypeOK, Flush, Goes
    <3> QED
      BY <2>8, <3>1, TypeOthers DEF Flush
  <2> QED
    BY <1>1, <2>1, <2>2, <2>3, <2>4, <2>5, <2>6, <2>7, <2>8 DEF WriteLog
<1>2. CASE PopLine
  <2>1. TypeOK'
    BY <1>2, HeadTailProperties, LogAssumption DEF TypeInv, TypeOK, PopLine
  <2> QED
    BY <1>2, <2>1, TypeOthers DEF PopLine
<1>3. CASE PutLine
  <2>1. TypeOK'
    BY <1>3, AppendProperties DEF TypeInv, TypeOK, PutLine
  <2> QED
    BY <1>3, <2>1, TypeOthers DEF PutLine
<1>4. CASE Spill
  <2>1. TypeOK'
    BY <1>4, FlushType DEF TypeInv, TypeOK, Spill
  <2> QED
    BY <1>4, <2>1, TypeOthers DEF Spill
<1>5. CASE Midnight
  <2>1. TypeOK'
    BY <1>5, LogAssumption DEF TypeInv, TypeOK, Midnight
  <2> QED
    BY <1>5, <2>1, TypeOthers DEF Midnight
<1>6. CASE UNCHANGED vars
  <2>1. TypeOK'
    BY <1>6 DEF TypeInv, TypeOK, vars
  <2> QED
    BY <1>6, <2>1, TypeOthers DEF vars
<1> QED
  BY <1>1, <1>2, <1>3, <1>4, <1>5, <1>6 DEF Next, Flusher

(* Every variable of the logger keeps its type; above all, write_log opens   *)
(* only files that SplitLines and the number of lines allow.                *)
THEOREM Typing == Spec => []TypeOK
<1>1. TypeInv => TypeOK
  BY DEF TypeInv
<1> QED
  BY <1>1, TypeInit, TypeNext, PTL DEF Spec

LEMMA TypeInvariance == Spec => []TypeInv
BY TypeInit, TypeNext, PTL DEF Spec

-----------------------------------------------------------------------------
(* What a step does to the lines.                                          *)

Others(s) == \A x \in Lines : Passed(x)' <=> Passed(x) \/ x \in s

Quiet ==
  /\ Written' = Written /\ UNCHANGED <<queue, held, direct, lost>>
  /\ Others({})

(* w passes its line, which goes to the file, to the queue or nowhere.      *)
Passes(w) == Line(w) \in Lines /\ ~Passed(Line(w)) /\ Others({Line(w)})

Wrote(w) ==
  /\ Passes(w)
  /\ Written' = [Written EXCEPT ![fp] = Append(@, Line(w))]
  /\ direct' = direct \cup {Line(w)}
  /\ UNCHANGED <<queue, held, lost>>

Queued(w) ==
  /\ Passes(w)
  /\ queue' = Append(queue, Line(w))
  /\ Written' = Written /\ UNCHANGED <<held, direct, lost>>

Refused(w) ==
  /\ Passes(w)
  /\ lost' = lost \cup {Line(w)}
  /\ Written' = Written /\ UNCHANGED <<queue, held, direct>>

Popped ==
  /\ held = None /\ queue # <<>> /\ held' = Head(queue) /\ queue' = Tail(queue)
  /\ Written' = Written /\ UNCHANGED <<direct, lost>>
  /\ Others({})

Put ==
  /\ held \in Lines /\ held' = None
  /\ Written' = [Written EXCEPT ![fp] = Append(@, held)]
  /\ UNCHANGED <<queue, direct, lost>>
  /\ Others({})

(* fflush and fclose change nothing, nor does opening another file. *)
LEMMA TextKept ==
  ASSUME TypeOK, TypeOK', disk' = Written, buf' = <<>>
  PROVE  Written' = Written
<1>1. Written \in [Files -> Seq(Lines)] /\ fp' \in Files
  BY TextType DEF TypeOK
<1>2. Written[fp'] \o <<>> = Written[fp']
  BY <1>1, ConcatEmptySeq
<1>3. Written' = [Written EXCEPT ![fp'] = @ \o <<>>]
  BY DEF Written
<1> QED
  BY <1>1, <1>2, <1>3

LEMMA ConcatAppend ==
  ASSUME NEW S, NEW s \in Seq(S), NEW t \in Seq(S), NEW x \in S
  PROVE  s \o Append(t, x) = Append(s \o t, x)
<1> DEFINE u == <<x>>
<1>1. u \in Seq(S) /\ s \o t \in Seq(S)
  BY ConcatProperties
<1>2. Append(t, x) = t \o u /\ Append(s \o t, x) = (s \o t) \o u
  BY <1>1, AppendIsConcat
<1> HIDE DEF u
<1> QED
  BY <1>1, <1>2, ConcatAssociative

(* A line that is put in the buffer is the last one of the open file. *)
LEMMA TextGrows ==
  ASSUME TypeOK, NEW x \in Lines, buf' = Append(buf, x), UNCHANGED <<disk, fp>>
  PROVE  Written' = [Written EXCEPT ![fp] = Append(@, x)]
<1>1. disk[fp] \in Seq(Lines) /\ buf \in Seq(Lines)
  BY DEF TypeOK
<1>2. disk[fp] \o Append(buf, x) = Append(disk[fp] \o buf, x)
  <2> DEFINE a == disk[fp]
  <2>1. a \in Seq(Lines) /\ buf \in Seq(Lines)
    BY <1>1
  <2> HIDE DEF a
  <2>2. a \o Append(buf, x) = Append(a \o buf, x)
    BY <2>1, ConcatAppend
  <2> QED
    BY <2>2 DEF a
<1>3. Written' = [disk EXCEPT ![fp] = Append(disk[fp] \o buf, x)]
  BY <1>2 DEF Written
<1>4. Written[fp] = disk[fp] \o buf
  BY DEF Written, TypeOK
<1> QED
  BY <1>3, <1>4 DEF Written, TypeOK

LEMMA PassedStays ==
  ASSUME TypeInv, UNCHANGED logged,
         \/ UNCHANGED pc
         \/ \E w \in Writers : \E p, q \in {"count", "route", "push", "direct"} : Goes(w, p, q)
         \/ \E w \in Writers : Goes(w, "flush", "idle")
  PROVE  Others({})
<1> SUFFICES ASSUME NEW x \in Lines PROVE Passed(x)' <=> Passed(x)
  BY DEF Others
<1>1. x[1] \in Writers /\ x[2] \in Nat
  BY DEF Lines
<1>2. (pc'[x[1]] \in {"idle", "flush"}) <=> (pc[x[1]] \in {"idle", "flush"})
  BY <1>1 DEF TypeInv, TypeOK, Goes
<1> QED
  BY <1>2 DEF Passed

LEMMA PassedGrows ==
  ASSUME TypeInv, NEW w \in Writers, NEW p \in {"push", "direct"}, Goes(w, p, "flush"),
         UNCHANGED logged
  PROVE  Passes(w)
<1>1. Line(w) \in Lines /\ ~Passed(Line(w))
  BY LineType DEF TypeInv, TypeOK, Goes, Line, Passed
<1>2. ASSUME NEW x \in Lines
      PROVE  Passed(x)' <=> Passed(x) \/ x = Line(w)
  <2>1. x[1] \in Writers /\ x[2] \in Nat /\ x = <<x[1], x[2]>>
    BY DEF Lines
  <2>2. logged[x[1]] \in Nat
    BY <2>1 DEF TypeInv, TypeOK
  <2>3. CASE x[1] = w
    BY <2>1, <2>2, <2>3 DEF Passed, Line, TypeInv, TypeOK, Goes
  <2>4. CASE x[1] # w
    BY <2>1, <2>2, <2>4 DEF Passed, Line, TypeInv, TypeOK, Goes
  <2> QED
    BY <2>3, <2>4
<1> QED
  BY <1>1, <1>2 DEF Passes, Others

LEMMA PassedBegins ==
  ASSUME TypeInv, NEW w \in Writers, Begin(w)
  PROVE  Others({})
<1> SUFFICES ASSUME NEW x \in Lines PROVE Passed(x)' <=> Passed(x)
  BY DEF Others
<1>1. x[1] \in Writers /\ x[2] \in Nat
  BY DEF Lines
<1>2. logged[x[1]] \in Nat
  BY <1>1 DEF TypeInv, TypeOK
<1>3. CASE x[1] = w
  BY <1>1, <1>2, <1>3 DEF Passed, TypeInv, TypeOK, Begin, Goes
<1>4. CASE x[1] # w
  BY <1>1, <1>2, <1>4 DEF Passed, TypeInv, TypeOK, Begin, Goes
<1> QED
  BY <1>3, <1>4

(* Every step does one of six things to the lines. *)
LEMMA Effects ==
  ASSUME TypeInv, TypeInv', [Next]_vars
  PROVE  \/ Quiet \/ Popped \/ Put
         \/ \E w \in Writers : Wrote(w) \/ Queued(w) \/ Refused(w)
<1> USE DEF file, writer, history
<1>1. ASSUME NEW w \in Writers, WriteLog(w)
      PROVE  Quiet \/ Wrote(w) \/ Queued(w) \/ Refused(w)
  <2>1. CASE Begin(w)
    <3>1. Written' = Written
      BY <2>1 DEF Begin, Written
    <3> QED
      BY <2>1, <3>1, PassedBegins DEF Quiet, Begin
  <2>2. CASE Rotate(w)
    BY <2>2, TextKept, PassedStays DEF Rotate, Quiet, TypeInv
  <2>3. CASE Count(w)
    <3>1. Written' = Written
      BY <2>3 DEF Count, Written
    <3> QED
      BY <2>3, <3>1, PassedStays DEF Count, Quiet
  <2>4. CASE Route(w)
    <3>1. Written' = Written
      BY <2>4 DEF Route, Written
    <3>2. \E q \in {"push", "direct"} : Goes(w, "route", q)
      BY <2>4 DEF Route, Goes
    <3> QED
      BY <2>4, <3>1, <3>2, PassedStays DEF Route, Quiet
  <2>5. CASE Push(w)
    <3>1. Written' = Written
      BY <2>5 DEF Push, Written
    <3> QED
      BY <2>5, <3>1, PassedGrows DEF Push, Queued
  <2>6. CASE PushRefused(w)
    <3>1. Written' = Written
      BY <2>6 DEF PushRefused, Written
    <3> QED
      BY <2>6, <3>1, PassedGrows DEF PushRefused, Refused
  <2>7. CASE Direct(w)
    <3>1. Passes(w)
      BY <2>7, PassedGrows DEF Direct
    <3>2. Written' = [Written EXCEPT ![fp] = Append(@, Line(w))]
      BY <2>7, <3>1, TextGrows DEF Direct, Passes, TypeInv
    <3> QED
      BY <2>7, <3>1, <3>2 DEF Direct, Wrote
  <2>8. CASE Flush(w)
    BY <2>8, TextKept, PassedStays DEF Flush, Quiet, TypeInv
  <2> QED
    BY <1>1, <2>1, <2>2, <2>3, <2>4, <2>5, <2>6, <2>7, <2>8 DEF WriteLog
<1>2. CASE PopLine
  <2>1. Written' = Written
    BY <1>2 DEF PopLine, Written
  <2> QED
    BY <1>2, <2>1, PassedStays DEF PopLine, Popped
<1>3. CASE PutLine
  <2>1. held \in Lines
    BY <1>3 DEF PutLine, TypeInv, TypeOK
  <2>2. Written' = [Written EXCEPT ![fp] = Append(@, held)]
    BY <1>3, <2>1, TextGrows DEF PutLine, TypeInv
  <2> QED
    BY <1>3, <2>1, <2>2, PassedStays DEF PutLine, Put
<1>4. CASE Spill
  BY <1>4, TextKept, PassedStays DEF Spill, Quiet, TypeInv
<1>5. CASE Midnight
  <2>1. Written' = Written
    BY <1>5 DEF Midnight, Written
  <2> QED
    BY <1>5, <2>1, PassedStays DEF Midnight, Quiet
<1>6. CASE UNCHANGED vars
  <2>1. Written' = Written
    BY <1>6 DEF vars, Written
  <2> QED
    BY <1>6, <2>1, PassedStays DEF vars, Quiet
<1> QED
  BY <1>1, <1>2, <1>3, <1>4, <1>5, <1>6 DEF Next, Flusher

-----------------------------------------------------------------------------
(* A line is in one place.                                                 *)

LEMMA TextKeeps ==
  ASSUME Written' = Written
  PROVE  /\ \A f \in Files : Text(f)' = Text(f)
         /\ \A y \in Lines : InText(y)' <=> InText(y)
BY DEF Text, InText

LEMMA TextAppends ==
  ASSUME TypeOK, NEW x \in Lines, Written' = [Written EXCEPT ![fp] = Append(@, x)]
  PROVE  /\ \A f \in Files : f # fp => Text(f)' = Text(f)
         /\ DOMAIN Text(fp) = 1 .. Len(Text(fp)) /\ Len(Text(fp)) \in Nat
         /\ Written'[fp] = Append(Text(fp), x)
         /\ DOMAIN Written'[fp] = 1 .. Len(Text(fp)) + 1
         /\ Len(Written'[fp]) = Len(Text(fp)) + 1
         /\ \A i \in DOMAIN Text(fp) : Written'[fp][i] = Text(fp)[i]
         /\ Written'[fp][Len(Text(fp)) + 1] = x
<1>1. fp \in Files /\ Written \in [Files -> Seq(Lines)]
  BY TextType DEF TypeOK
<1> DEFINE t == Text(fp)
<1>2. t \in Seq(Lines) /\ Written'[fp] = Append(t, x) /\ \A f \in Files : f # fp => Text(f)' = Text(f)
  BY <1>1 DEF Text
<1> HIDE DEF t
<1>3. /\ Append(t, x) \in Seq(Lines) /\ Len(Append(t, x)) = Len(t) + 1
      /\ \A i \in 1 .. Len(t) : Append(t, x)[i] = t[i]
      /\ Append(t, x)[Len(t) + 1] = x
      /\ DOMAIN t = 1 .. Len(t) /\ Len(t) \in Nat
      /\ DOMAIN Append(t, x) = 1 .. Len(t) + 1
  BY <1>2, AppendProperties
<1> QED
  BY <1>2, <1>3 DEF t

LEMMA InTextGrows ==
  ASSUME TypeOK, NEW x \in Lines, Written' = [Written EXCEPT ![fp] = Append(@, x)]
  PROVE  \A y \in Lines : InText(y)' <=> InText(y) \/ y = x
<1>1. fp \in Files
  BY DEF TypeOK
<1> DEFINE n == Len(Text(fp))
<1>2. /\ \A f \in Files : f # fp => Written'[f] = Text(f)
      /\ DOMAIN Text(fp) = 1 .. n /\ n \in Nat
      /\ DOMAIN Written'[fp] = 1 .. n + 1
      /\ \A i \in DOMAIN Text(fp) : Written'[fp][i] = Text(fp)[i]
      /\ Written'[fp][n + 1] = x
  BY TextAppends DEF Text
<1> HIDE DEF n
<1> SUFFICES ASSUME NEW y \in Lines PROVE InText(y)' <=> InText(y) \/ y = x
  OBVIOUS
<1>3. ASSUME InText(y)' PROVE InText(y) \/ y = x
  <2>1. PICK f \in Files : \E i \in DOMAIN Written'[f] : Written'[f][i] = y
    BY <1>3 DEF InText, Text
  <2>2. PICK i \in DOMAIN Written'[f] : Written'[f][i] = y
    BY <2>1
  <2>3. CASE f = fp /\ i = n + 1
    BY <1>2, <2>2, <2>3
  <2>4. CASE f = fp /\ i # n + 1
    <3>1. i \in DOMAIN Text(fp)
      BY <1>2, <2>2, <2>4
    <3> QED
      BY <1>1, <1>2, <2>2, <2>4, <3>1 DEF InText
  <2>5. CASE f # fp
    BY <1>2, <2>2, <2>5 DEF InText
  <2> QED
    BY <2>3, <2>4, <2>5
<1>4. ASSUME InText(y) PROVE InText(y)'
  <2>1. PICK f \in Files : \E i \in DOMAIN Text(f) : Text(f)[i] = y
    BY <1>4 DEF InText
  <2>2. \E i \in DOMAIN Written'[f] : Written'[f][i] = y
    BY <1>2, <2>1
  <2> QED
    BY <2>2 DEF InText, Text
<1>5. InText(x)'
  <2>1. n + 1 \in DOMAIN Written'[fp]
    BY <1>2
  <2> QED
    BY <1>1, <1>2, <2>1 DEF InText, Text
<1> QED
  BY <1>3, <1>4, <1>5

LEMMA DistinctGrows ==
  ASSUME TypeOK, TextDistinct, NEW x \in Lines, ~InText(x),
         Written' = [Written EXCEPT ![fp] = Append(@, x)]
  PROVE  TextDistinct'
<1> DEFINE n == Len(Text(fp))
<1>2. /\ fp \in Files
      /\ \A f \in Files : f # fp => Written'[f] = Text(f)
      /\ DOMAIN Text(fp) = 1 .. n /\ n \in Nat
      /\ DOMAIN Written'[fp] = 1 .. n + 1
      /\ \A i \in DOMAIN Text(fp) : Written'[fp][i] = Text(fp)[i]
      /\ Written'[fp][n + 1] = x
  BY TextAppends DEF Text, TypeOK
<1> HIDE DEF n
<1>3. ASSUME NEW f \in Files, NEW i \in DOMAIN Written'[f]
      PROVE  \/ f = fp /\ i = n + 1 /\ Written'[f][i] = x
             \/ i \in DOMAIN Text(f) /\ Written'[f][i] = Text(f)[i] /\ Text(f)[i] # x
  <2>1. CASE f = fp /\ i = n + 1
    BY <1>2, <2>1
  <2>2. CASE f = fp /\ i # n + 1
    <3>1. i \in DOMAIN Text(fp)
      BY <1>2, <2>2, <1>3
    <3> QED
      BY <1>2, <2>2, <3>1 DEF InText
  <2>3. CASE f # fp
    BY <1>2, <1>3, <2>3 DEF InText
  <2> QED
    BY <2>1, <2>2, <2>3
<1>4. ASSUME NEW f \in Files, NEW g \in Files, NEW i \in DOMAIN Written'[f],
             NEW j \in DOMAIN Written'[g], Written'[f][i] = Written'[g][j]
      PROVE  f = g /\ i = j
  <2>1. \/ f = fp /\ i = n + 1 /\ Written'[f][i] = x
        \/ i \in DOMAIN Text(f) /\ Written'[f][i] = Text(f)[i] /\ Text(f)[i] # x
    BY <1>3
  <2>2. \/ g = fp /\ j = n + 1 /\ Written'[g][j] = x
        \/ j \in DOMAIN Text(g) /\ Written'[g][j] = Text(g)[j] /\ Text(g)[j] # x
    BY <1>3
  <2>3. CASE Written'[f][i] = x
    BY <1>4, <2>1, <2>2, <2>3
  <2>4. CASE Written'[f][i] # x
    <3>1. i \in DOMAIN Text(f) /\ j \in DOMAIN Text(g) /\ Text(f)[i] = Text(g)[j]
      BY <1>4, <2>1, <2>2, <2>4
    <3> QED
      BY <3>1 DEF TextDistinct
  <2> QED
    BY <2>3, <2>4
<1> QED
  BY <1>4 DEF TextDistinct, Text

LEMMA QueueGrows ==
  ASSUME TypeOK, NEW x \in Lines, queue' = Append(queue, x)
  PROVE  /\ DOMAIN queue = 1 .. Len(queue) /\ Len(queue) \in Nat
         /\ DOMAIN queue' = 1 .. Len(queue) + 1
         /\ \A i \in DOMAIN queue : queue'[i] = queue[i]
         /\ queue'[Len(queue) + 1] = x
         /\ \A y \in Lines : InQueue(y)' <=> InQueue(y) \/ y = x
<1>1. /\ queue' \in Seq(Lines) /\ Len(queue') = Len(queue) + 1
      /\ \A i \in 1 .. Len(queue) : queue'[i] = queue[i]
      /\ queue'[Len(queue) + 1] = x
      /\ queue \in Seq(Lines)
  BY AppendProperties DEF TypeOK
<1>2. DOMAIN queue = 1 .. Len(queue) /\ Len(queue) \in Nat /\ DOMAIN queue' = 1 .. Len(queue) + 1
  BY <1>1
<1>3. Len(queue) + 1 \in DOMAIN queue'
  BY <1>2
<1>4. ASSUME NEW i \in DOMAIN queue' PROVE i \in DOMAIN queue \/ i = Len(queue) + 1
  BY <1>2
<1>5. DOMAIN queue \subseteq DOMAIN queue'
  BY <1>2
<1>6. \A i \in DOMAIN queue : queue'[i] = queue[i]
  BY <1>1, <1>2
<1>7. \A y \in Lines : InQueue(y)' <=> InQueue(y) \/ y = x
  BY <1>1, <1>3, <1>4, <1>5, <1>6 DEF InQueue
<1> QED
  BY <1>1, <1>2, <1>6, <1>7

LEMMA QueuePops ==
  ASSUME TypeOK, queue # <<>>, queue' = Tail(queue)
  PROVE  /\ Head(queue) = queue[1] /\ 1 \in DOMAIN queue /\ Head(queue) \in Lines
         /\ DOMAIN queue \subseteq Nat
         /\ \A i \in DOMAIN queue' : i + 1 \in DOMAIN queue /\ i + 1 # 1 /\ queue'[i] = queue[i + 1]
         /\ \A y \in Lines : InQueue(y) <=> InQueue(y)' \/ y = Head(queue)
<1>1. /\ queue' \in Seq(Lines) /\ Len(queue') = Len(queue) - 1
      /\ \A i \in 1 .. Len(queue') : queue'[i] = queue[i + 1]
      /\ queue \in Seq(Lines) /\ Head(queue) \in Lines
  BY HeadTailProperties DEF TypeOK
<1>2. Len(queue) \in Nat \ {0} /\ Head(queue) = queue[1]
  BY <1>1
<1>3. DOMAIN queue = 1 .. Len(queue) /\ DOMAIN queue' = 1 .. Len(queue) - 1
  BY <1>1, <1>2
<1>4. \A i \in DOMAIN queue' : i + 1 \in DOMAIN queue /\ i + 1 # 1 /\ queue'[i] = queue[i + 1]
  BY <1>1, <1>2, <1>3
<1>5. ASSUME NEW y \in Lines, InQueue(y) PROVE InQueue(y)' \/ y = Head(queue)
  <2>1. PICK i \in DOMAIN queue : queue[i] = y
    BY <1>5 DEF InQueue
  <2>2. CASE i = 1
    BY <1>2, <2>1, <2>2
  <2>3. CASE i # 1
    <3>1. i - 1 \in DOMAIN queue' /\ (i - 1) + 1 = i
      BY <1>2, <1>3, <2>3
    <3> QED
      BY <1>4, <2>1, <3>1 DEF InQueue
  <2> QED
    BY <2>2, <2>3
<1>6. 1 \in DOMAIN queue
  BY <1>2, <1>3
<1>7. ASSUME NEW y \in Lines, InQueue(y)' \/ y = Head(queue) PROVE InQueue(y)
  BY <1>2, <1>4, <1>6, <1>7 DEF InQueue
<1> QED
  BY <1>1, <1>2, <1>3, <1>4, <1>5, <1>6, <1>7

LEMMA OnceInit == Init => OnceInv
<1> SUFFICES ASSUME Init PROVE OnceInv
  OBVIOUS
<1>1. TypeOK
  BY TypeInit DEF TypeInv
<1>2. \A f \in Files : Text(f) = <<>>
  <2>1. <<>> \in Seq(Lines) /\ <<>> \o <<>> = <<>>
    BY ConcatEmptySeq
  <2> QED
    BY <2>1 DEF Init, Text, Written
<1>3. \A x : ~InText(x) /\ ~InQueue(x)
  BY <1>2 DEF InText, InQueue, Init
<1>4. TextDistinct /\ QueueDistinct /\ Apart
  BY <1>2, <1>3 DEF TextDistinct, QueueDistinct, Apart, Init
<1>5. Accounted
  <2>1. ASSUME NEW x \in Lines PROVE ~Passed(x)
    <3>1. x[1] \in Writers /\ x[2] \in 1 .. LinesEach
      BY DEF Lines
    <3> QED
      BY <3>1, LogAssumption DEF Init, Passed
  <2> QED
    BY <1>3, <2>1, NoneIsNoLine DEF Accounted, Init
<1> QED
  BY <1>4, <1>5 DEF OnceInv

LEMMA OncePut ==
  ASSUME TypeInv, TypeInv', OnceInv, Put
  PROVE  OnceInv'
<1>1. TypeOK /\ held \in Lines /\ held' = None /\ UNCHANGED <<queue, direct, lost>> /\ Others({})
  BY DEF Put, TypeInv
<1>2. ~InText(held) /\ ~InQueue(held)
  BY <1>1 DEF OnceInv, Apart
<1>3. TextDistinct'
  BY <1>1, <1>2, DistinctGrows DEF Put, OnceInv
<1>4. \A y \in Lines : InText(y)' <=> InText(y) \/ y = held
  BY <1>1, InTextGrows DEF Put
<1>5. \A y \in Lines : InQueue(y)' <=> InQueue(y)
  BY <1>1 DEF InQueue
<1>6. QueueDistinct'
  BY <1>1 DEF OnceInv, QueueDistinct
<1>7. Apart'
  BY <1>1, <1>2, <1>4, <1>5, NoneIsNoLine DEF OnceInv, Apart
<1>8. Accounted'
  <2>1. direct \subseteq Lines /\ lost \subseteq Lines
    BY DEF TypeInv, TypeOK
  <2> QED
    BY <1>1, <1>4, <1>5, <2>1, NoneIsNoLine DEF OnceInv, Accounted, Others
<1> QED
  BY <1>3, <1>6, <1>7, <1>8 DEF OnceInv

LEMMA OncePopped ==
  ASSUME TypeInv, TypeInv', OnceInv, Popped
  PROVE  OnceInv'
<1>1. /\ TypeOK /\ held = None /\ held' = Head(queue) /\ Head(queue) \in Lines
      /\ UNCHANGED <<direct, lost>> /\ Others({}) /\ Written' = Written
      /\ queue # <<>> /\ queue' = Tail(queue)
  BY QueuePops DEF Popped, TypeInv
<1>2. /\ Head(queue) = queue[1] /\ 1 \in DOMAIN queue /\ DOMAIN queue \subseteq Nat
      /\ \A i \in DOMAIN queue' : i + 1 \in DOMAIN queue /\ i + 1 # 1 /\ queue'[i] = queue[i + 1]
      /\ \A y \in Lines : InQueue(y) <=> InQueue(y)' \/ y = Head(queue)
  BY <1>1, QueuePops
<1>3. \A y \in Lines : InText(y)' <=> InText(y)
  BY <1>1, TextKeeps
<1>4. TextDistinct'
  BY <1>1 DEF OnceInv, TextDistinct, Text
<1>5. QueueDistinct'
  <2>1. DOMAIN queue' \subseteq Nat
    BY DEF TypeInv, TypeOK
  <2>2. ASSUME NEW i \in DOMAIN queue', NEW j \in DOMAIN queue', queue'[i] = queue'[j]
        PROVE  i = j
    <3>1. i + 1 = j + 1
      BY <1>2, <2>2 DEF OnceInv, QueueDistinct
    <3> QED
      BY <2>1, <3>1
  <2> QED
    BY <2>2 DEF QueueDistinct
<1>6. \A i \in DOMAIN queue' : queue'[i] # Head(queue)
  <2>1. \A i \in DOMAIN queue' : queue'[i] # queue[1]
    BY <1>2 DEF OnceInv, QueueDistinct
  <2> QED
    BY <1>2, <2>1 DEF InQueue
<1>7. Apart'
  <2>1. InQueue(Head(queue)) /\ ~InText(Head(queue))
    BY <1>1, <1>2 DEF OnceInv, Apart
  <2>2. \A y \in Lines : InQueue(y)' => InQueue(y) /\ y # Head(queue)
    BY <1>2, <1>6 DEF InQueue
  <2> QED
    BY <1>1, <1>3, <2>1, <2>2 DEF OnceInv, Apart
<1>8. Accounted'
  <2>1. direct \subseteq Lines /\ lost \subseteq Lines
    BY DEF TypeInv, TypeOK
  <2>2. \A x \in lost' \cup direct' : Passed(x)'
    BY <1>1, <2>1 DEF OnceInv, Accounted, Others
  <2>3. ASSUME NEW x \in Lines
        PROVE  (InText(x)' \/ InQueue(x)' \/ held' = x) <=> (Passed(x)' /\ x \notin lost')
    <3>1. (InText(x)' \/ InQueue(x)' \/ held' = x) <=> (InText(x) \/ InQueue(x) \/ held = x)
      BY <1>1, <1>2, <1>3, NoneIsNoLine
    <3>2. (Passed(x)' /\ x \notin lost') <=> (Passed(x) /\ x \notin lost)
      BY <1>1 DEF Others
    <3> QED
      BY <3>1, <3>2 DEF OnceInv, Accounted
  <2> QED
    BY <2>2, <2>3 DEF Accounted
<1> QED
  BY <1>4, <1>5, <1>7, <1>8 DEF OnceInv

(* A line that its writer passes was nowhere. *)
LEMMA NewLine ==
  ASSUME TypeInv, OnceInv, NEW w \in Writers, Passes(w)
  PROVE  /\ Line(w) \in Lines /\ ~InText(Line(w)) /\ ~InQueue(Line(w)) /\ held # Line(w)
         /\ Line(w) \notin lost /\ Line(w) \notin direct
BY DEF Passes, OnceInv, Accounted

LEMMA OnceWrote ==
  ASSUME TypeInv, TypeInv', OnceInv, NEW w \in Writers, Wrote(w) \/ Queued(w) \/ Refused(w)
  PROVE  OnceInv'
<1> DEFINE x == Line(w)
<1>1. /\ TypeOK /\ x \in Lines /\ ~InText(x) /\ ~InQueue(x) /\ held # x /\ x \notin lost /\ x \notin direct
      /\ Others({x}) /\ UNCHANGED held
  BY NewLine DEF Wrote, Queued, Refused, Passes, TypeInv
<1>2. \/ Written' = [Written EXCEPT ![fp] = Append(@, x)] /\ direct' = direct \cup {x} /\ UNCHANGED <<queue, lost>>
      \/ Written' = Written /\ queue' = Append(queue, x) /\ UNCHANGED <<direct, lost>>
      \/ Written' = Written /\ lost' = lost \cup {x} /\ UNCHANGED <<queue, direct>>
  BY DEF Wrote, Queued, Refused
<1> HIDE DEF x
<1>3. TextDistinct'
  <2>1. CASE Written' = Written
    BY <2>1 DEF OnceInv, TextDistinct, Text
  <2> QED
    BY <1>1, <1>2, <2>1, DistinctGrows DEF OnceInv
<1>4. QueueDistinct'
  <2>1. CASE UNCHANGED queue
    BY <2>1 DEF OnceInv, QueueDistinct
  <2>2. CASE queue' = Append(queue, x)
    <3>1. /\ DOMAIN queue = 1 .. Len(queue) /\ Len(queue) \in Nat
          /\ DOMAIN queue' = 1 .. Len(queue) + 1
          /\ \A i \in DOMAIN queue : queue'[i] = queue[i]
          /\ queue'[Len(queue) + 1] = x
      BY <1>1, <2>2, QueueGrows
    <3>2. \A i \in DOMAIN queue' : i \in DOMAIN queue \/ i = Len(queue) + 1
      BY <3>1
    <3>3. \A i \in DOMAIN queue : queue'[i] # x
      BY <1>1, <3>1 DEF InQueue
    <3> QED
      BY <3>1, <3>2, <3>3 DEF OnceInv, QueueDistinct
  <2> QED
    BY <1>2, <2>1, <2>2
<1>5. \/ /\ \A y \in Lines : InText(y)' <=> InText(y) \/ y = x
         /\ \A y \in Lines : InQueue(y)' <=> InQueue(y)
         /\ lost' = lost /\ direct' = direct \cup {x}
      \/ /\ \A y \in Lines : InText(y)' <=> InText(y)
         /\ \A y \in Lines : InQueue(y)' <=> InQueue(y) \/ y = x
         /\ lost' = lost /\ direct' = direct
      \/ /\ \A y \in Lines : InText(y)' <=> InText(y)
         /\ \A y \in Lines : InQueue(y)' <=> InQueue(y)
         /\ lost' = lost \cup {x} /\ direct' = direct
  <2>1. CASE Written' = [Written EXCEPT ![fp] = Append(@, x)] /\ direct' = direct \cup {x} /\ UNCHANGED <<queue, lost>>
    BY <1>1, <2>1, InTextGrows DEF InQueue
  <2>2. CASE Written' = Written /\ queue' = Append(queue, x) /\ UNCHANGED <<direct, lost>>
    BY <1>1, <2>2, TextKeeps, QueueGrows
  <2>3. CASE Written' = Written /\ lost' = lost \cup {x} /\ UNCHANGED <<queue, direct>>
    BY <1>1, <2>3, TextKeeps DEF InQueue
  <2> QED
    BY <1>2, <2>1, <2>2, <2>3
<1>6. Apart'
  BY <1>1, <1>5 DEF OnceInv, Apart
<1>7. Accounted'
  <2>1. direct \subseteq Lines /\ lost \subseteq Lines
    BY DEF TypeInv, TypeOK
  <2>2. \A y \in Lines : Passed(y)' <=> Passed(y) \/ y = x
    BY <1>1 DEF Others
  <2> QED
    BY <1>1, <1>5, <2>1, <2>2 DEF OnceInv, Accounted
<1> QED
  BY <1>3, <1>4, <1>6, <1>7 DEF OnceInv

LEMMA OnceQuiet ==
  ASSUME TypeInv, OnceInv, Quiet
  PROVE  OnceInv'
<1>1. /\ \A y \in Lines : InText(y)' <=> InText(y)
      /\ \A y \in Lines : InQueue(y)' <=> InQueue(y)
  BY TextKeeps DEF Quiet, InQueue
<1>2. direct \subseteq Lines /\ lost \subseteq Lines
  BY DEF TypeInv, TypeOK
<1>3. TextDistinct' /\ QueueDistinct'
  BY DEF OnceInv, Quiet, TextDistinct, QueueDistinct, Text
<1>4. Apart'
  BY <1>1 DEF OnceInv, Quiet, Apart
<1>5. Accounted'
  BY <1>1, <1>2 DEF OnceInv, Quiet, Accounted, Others
<1> QED
  BY <1>3, <1>4, <1>5 DEF OnceInv

LEMMA OnceNext == TypeInv /\ TypeInv' /\ OnceInv /\ [Next]_vars => OnceInv'
BY Effects, OnceQuiet, OncePopped, OncePut, OnceWrote

LEMMA OnceInvariance == Spec => []OnceInv
BY OnceInit, OnceNext, TypeInvariance, PTL DEF Spec

(* A line that write_log is through with is in exactly one place, or push    *)
(* refused it and it is nowhere: rotations, direct writes and the flushing  *)
(* thread neither lose nor double a line, for any writers and sizes.        *)
THEOREM LinesOnce == Spec => []ExactlyOnce
<1>1. TypeInv /\ OnceInv => ExactlyOnce
  <2> SUFFICES ASSUME TypeInv, OnceInv, NEW x \in Lines
               PROVE  IF Passed(x) /\ x \notin lost
                        THEN \E p \in Places(x) : Places(x) = {p}
                        ELSE Places(x) = {}
    BY DEF ExactlyOnce
  <2> DEFINE InFiles == UNION {{<<"file", f, i>> : i \in {k \in DOMAIN Text(f) : Text(f)[k] = x}} : f \in Files}
             Queueing == {<<"queue", i>> : i \in {k \in DOMAIN queue : queue[k] = x}}
             Thread == IF held = x THEN {<<"thread">>} ELSE {}
  <2>1. Places(x) = InFiles \cup Queueing \cup Thread
    BY DEF Places
  <2>2. IF InText(x) THEN \E p : InFiles = {p} ELSE InFiles = {}
    <3>1. ASSUME InText(x) PROVE \E p : InFiles = {p}
      <4>1. PICK f \in Files : \E i \in DOMAIN Text(f) : Text(f)[i] = x
        BY <3>1 DEF InText
      <4>2. PICK i \in DOMAIN Text(f) : Text(f)[i] = x
        BY <4>1
      <4>3. \A g \in Files : \A j \in DOMAIN Text(g) : Text(g)[j] = x => g = f /\ j = i
        BY <4>2 DEF OnceInv, TextDistinct
      <4>4. InFiles = {<<"file", f, i>>}
        BY <4>2, <4>3
      <4> QED
        BY <4>4
    <3>2. ASSUME ~InText(x) PROVE InFiles = {}
      BY <3>2 DEF InText
    <3> QED
      BY <3>1, <3>2
  <2>3. IF InQueue(x) THEN \E p : Queueing = {p} ELSE Queueing = {}
    <3>1. ASSUME InQueue(x) PROVE \E p : Queueing = {p}
      <4>1. PICK i \in DOMAIN queue : queue[i] = x
        BY <3>1 DEF InQueue
      <4>2. \A j \in DOMAIN queue : queue[j] = x => j = i
        BY <4>1 DEF OnceInv, QueueDistinct
      <4>3. Queueing = {<<"queue", i>>}
        BY <4>1, <4>2
      <4> QED
        BY <4>3
    <3>2. ASSUME ~InQueue(x) PROVE Queueing = {}
      BY <3>2 DEF InQueue
    <3> QED
      BY <3>1, <3>2
  <2>4. IF held = x THEN \E p : Thread = {p} ELSE Thread = {}
    OBVIOUS
  <2> HIDE DEF InFiles, Queueing, Thread
  <2>5. /\ ~(InText(x) /\ InQueue(x)) /\ (held = x => ~InText(x) /\ ~InQueue(x))
        /\ (InText(x) \/ InQueue(x) \/ held = x) <=> (Passed(x) /\ x \notin lost)
    BY DEF OnceInv, Apart, Accounted
  <2>6. CASE Passed(x) /\ x \notin lost
    <3>1. \E p : Places(x) = {p}
      <4>1. CASE InText(x)
        BY <2>1, <2>2, <2>3, <2>4, <2>5, <4>1
      <4>2. CASE InQueue(x)
        BY <2>1, <2>2, <2>3, <2>4, <2>5, <4>2
      <4>3. CASE held = x
        BY <2>1, <2>2, <2>3, <2>4, <2>5, <4>3
      <4> QED
        BY <2>5, <2>6, <4>1, <4>2, <4>3
    <3> QED
      BY <2>6, <3>1
  <2>7. CASE ~(Passed(x) /\ x \notin lost)
    <3>1. Places(x) = {}
      BY <2>1, <2>2, <2>3, <2>4, <2>5, <2>7
    <3> QED
      BY <2>7, <3>1
  <2> QED
    BY <2>6, <2>7
<1> QED
  BY <1>1, TypeInvariance, OnceInvariance, PTL

-----------------------------------------------------------------------------
(* A line is in its order.                                                 *)

LEMMA OrderInit == Init => OrderInv
<1> SUFFICES ASSUME Init PROVE OrderInv
  OBVIOUS
<1>1. \A f \in Files : Text(f) = <<>>
  <2>1. <<>> \in Seq(Lines) /\ <<>> \o <<>> = <<>>
    BY ConcatEmptySeq
  <2> QED
    BY <2>1 DEF Init, Text, Written
<1>2. WriterOrder
  BY <1>1 DEF WriterOrder
<1>3. \A y \in Lines : ~InText(y) /\ ~InQueue(y) /\ ~Behind(y)
  BY <1>1, NoneIsNoLine DEF InText, InQueue, Behind, Init
<1> QED
  BY <1>2, <1>3 DEF OrderInv, QueuedAreNotDirect, TextFirst, HeldFirst, QueueOrder, Init

LEMMA TextOfLines ==
  ASSUME TypeOK, NEW f \in Files
  PROVE  /\ DOMAIN Text(f) \subseteq Nat
         /\ \A i \in DOMAIN Text(f) : Text(f)[i] \in Lines /\ InText(Text(f)[i])
BY TextType DEF Text, InText

(* No line that is somewhere comes after the one its writer passes. *)
LEMMA NewestLine ==
  ASSUME TypeInv, OnceInv, NEW w \in Writers, Passes(w), NEW x \in Lines,
         InText(x) \/ InQueue(x) \/ held = x, x[1] = w
  PROVE  x[2] < logged[w]
<1>1. Passed(x) /\ ~Passed(Line(w)) /\ x[2] \in Nat /\ x = <<x[1], x[2]>>
  BY DEF Passes, OnceInv, Accounted, Lines
<1>2. logged[w] \in Nat
  BY DEF TypeInv, TypeOK
<1> QED
  BY <1>1, <1>2 DEF Passed, Line

(* What keeps the order of a file that gets one more line. *)
LEMMA OrderGrows ==
  ASSUME TypeOK, NEW x \in Lines, Written' = [Written EXCEPT ![fp] = Append(@, x)],
         NEW D \in SUBSET Lines, ~InText(x), WriterOrder,
         direct' = direct \cup D, D \subseteq {x},
         \A y \in Lines : InText(y) /\ y[1] = x[1] /\ y[2] > x[2] => y \in direct /\ x \notin direct'
  PROVE  WriterOrder'
<1> DEFINE n == Len(Text(fp))
<1>1. /\ fp \in Files
      /\ \A f \in Files : f # fp => Written'[f] = Text(f)
      /\ DOMAIN Text(fp) = 1 .. n /\ n \in Nat
      /\ DOMAIN Written'[fp] = 1 .. n + 1
      /\ \A i \in DOMAIN Text(fp) : Written'[fp][i] = Text(fp)[i]
      /\ Written'[fp][n + 1] = x
  BY TextAppends DEF Text, TypeOK
<1> HIDE DEF n
<1>2. ASSUME NEW f \in Files, NEW i \in DOMAIN Text(f), NEW j \in DOMAIN Text(f), i < j,
             Text(f)[i][1] = Text(f)[j][1], Text(f)[i][2] > Text(f)[j][2]
      PROVE  Text(f)[i] \in direct' /\ Text(f)[j] \notin direct'
  <2>1. Text(f)[i] \in direct /\ Text(f)[j] \notin direct
    BY <1>2 DEF WriterOrder
  <2>2. Text(f)[j] # x
    BY DEF InText
  <2> QED
    BY <2>1, <2>2
<1>3. ASSUME NEW f \in Files, NEW i \in DOMAIN Written'[f], NEW j \in DOMAIN Written'[f], i < j,
             Written'[f][i][1] = Written'[f][j][1], Written'[f][i][2] > Written'[f][j][2]
      PROVE  Written'[f][i] \in direct' /\ Written'[f][j] \notin direct'
  <2>1. CASE f # fp
    BY <1>1, <1>2, <1>3, <2>1
  <2>2. CASE f = fp /\ j \in DOMAIN Text(fp)
    <3>1. i \in DOMAIN Text(fp)
      BY <1>1, <1>3, <2>2
    <3>2. Written'[f][i] = Text(f)[i] /\ Written'[f][j] = Text(f)[j]
      BY <1>1, <2>2, <3>1
    <3> QED
      BY <1>2, <1>3, <2>2, <3>1, <3>2
  <2>3. CASE f = fp /\ j \notin DOMAIN Text(fp)
    <3>1. j = n + 1 /\ i \in DOMAIN Text(fp)
      BY <1>1, <1>3, <2>3
    <3>2. Written'[f][i] = Text(fp)[i] /\ Written'[f][j] = x
      BY <1>1, <2>3, <3>1
    <3>3. Text(fp)[i] \in Lines /\ InText(Text(fp)[i])
      BY <1>1, <3>1, TextOfLines
    <3> QED
      BY <1>3, <3>2, <3>3
  <2> QED
    BY <2>1, <2>2, <2>3
<1> QED
  BY <1>3 DEF WriterOrder, Text

LEMMA OrderPut ==
  ASSUME TypeInv, TypeInv', OnceInv, OrderInv, Put
  PROVE  OrderInv'
<1>1. TypeOK /\ held \in Lines /\ held' = None /\ UNCHANGED <<queue, direct, lost>>
  BY DEF Put, TypeInv
<1>2. /\ ~InText(held) /\ Behind(held) /\ held \notin direct /\ held # None
      /\ \A y \in Lines : Behind(y)' => InQueue(y)
      /\ \A y \in Lines : InQueue(y)' <=> InQueue(y)
  BY <1>1, NoneIsNoLine DEF OnceInv, Apart, Behind, OrderInv, QueuedAreNotDirect, InQueue
<1>3. WriterOrder'
  <2>1. \A y \in Lines : InText(y) /\ y[1] = held[1] /\ y[2] > held[2] => y \in direct
    BY <1>1, <1>2 DEF OrderInv, TextFirst
  <2>2. direct' = direct \cup {} /\ {} \in SUBSET Lines /\ {} \subseteq {held}
    BY <1>1
  <2> QED
    BY <1>1, <1>2, <2>1, <2>2, OrderGrows DEF Put, OrderInv
<1>4. \A y \in Lines : InText(y)' <=> InText(y) \/ y = held
  BY <1>1, InTextGrows DEF Put
<1>5. TextFirst'
  <2>1. ASSUME NEW x \in Lines, NEW y \in Lines, InText(x)', InQueue(y), x[1] = y[1], x[2] > y[2]
        PROVE  x \in direct
    <3>1. x[2] \in Nat /\ y[2] \in Nat
      BY DEF Lines
    <3>2. x # held
      BY <1>2, <2>1, <3>1 DEF OrderInv, HeldFirst
    <3> QED
      BY <1>4, <2>1, <3>2 DEF OrderInv, TextFirst, Behind
  <2> QED
    BY <1>1, <1>2, <2>1 DEF TextFirst
<1>6. QueuedAreNotDirect' /\ HeldFirst' /\ QueueOrder'
  BY <1>1, <1>2 DEF OrderInv, QueuedAreNotDirect, HeldFirst, QueueOrder, Behind
<1> QED
  BY <1>3, <1>5, <1>6 DEF OrderInv

LEMMA OrderPopped ==
  ASSUME TypeInv, TypeInv', OnceInv, OrderInv, Popped
  PROVE  OrderInv'
<1>1. /\ TypeOK /\ held = None /\ held' = Head(queue) /\ Head(queue) \in Lines
      /\ UNCHANGED <<direct, lost>> /\ Written' = Written
      /\ queue # <<>> /\ queue' = Tail(queue)
  BY QueuePops DEF Popped, TypeInv
<1>2. /\ Head(queue) = queue[1] /\ 1 \in DOMAIN queue /\ DOMAIN queue \subseteq Nat
      /\ \A i \in DOMAIN queue' : i + 1 \in DOMAIN queue /\ i + 1 # 1 /\ queue'[i] = queue[i + 1]
      /\ \A y \in Lines : InQueue(y) <=> InQueue(y)' \/ y = Head(queue)
  BY <1>1, QueuePops
<1>3. \A i \in DOMAIN queue' : i \in Nat \ {0}
  BY DEF TypeInv, TypeOK
<1>4. \A y \in Lines : (InText(y)' <=> InText(y)) /\ (Behind(y)' <=> Behind(y))
  BY <1>1, <1>2, TextKeeps, NoneIsNoLine DEF Behind
<1>5. WriterOrder' /\ QueuedAreNotDirect' /\ TextFirst'
  BY <1>1, <1>4 DEF OrderInv, WriterOrder, QueuedAreNotDirect, TextFirst, Text
<1>6. HeldFirst'
  <2>1. ASSUME NEW i \in DOMAIN queue', queue[1][1] = queue'[i][1]
        PROVE  queue[1][2] < queue'[i][2]
    <3>1. 1 < i + 1 /\ i + 1 \in DOMAIN queue /\ queue'[i] = queue[i + 1]
      BY <1>2, <1>3
    <3> QED
      BY <1>2, <2>1, <3>1 DEF OrderInv, QueueOrder
  <2> QED
    BY <1>1, <1>2, <2>1 DEF HeldFirst, InQueue
<1>7. QueueOrder'
  <2>1. ASSUME NEW i \in DOMAIN queue', NEW j \in DOMAIN queue', i < j, queue'[i][1] = queue'[j][1]
        PROVE  queue'[i][2] < queue'[j][2]
    <3>1. i + 1 < j + 1
      BY <1>3, <2>1
    <3> QED
      BY <1>2, <2>1, <3>1 DEF OrderInv, QueueOrder
  <2> QED
    BY <2>1 DEF QueueOrder
<1> QED
  BY <1>5, <1>6, <1>7 DEF OrderInv

LEMMA OrderQueued ==
  ASSUME TypeInv, TypeInv', OnceInv, OrderInv, NEW w \in Writers, Queued(w)
  PROVE  OrderInv'
<1> DEFINE x == Line(w)
<1>1. /\ TypeOK /\ x \in Lines /\ Passes(w) /\ x \notin direct
      /\ queue' = Append(queue, x) /\ Written' = Written /\ UNCHANGED <<held, direct>>
  BY NewLine DEF Queued, TypeInv
<1>2. \A y \in Lines : (InText(y) \/ InQueue(y) \/ held = y) /\ y[1] = x[1] => y[2] < x[2]
  BY <1>1, NewestLine DEF Line
<1> HIDE DEF x
<1>3. /\ DOMAIN queue = 1 .. Len(queue) /\ Len(queue) \in Nat
      /\ DOMAIN queue' = 1 .. Len(queue) + 1
      /\ \A i \in DOMAIN queue : queue'[i] = queue[i]
      /\ queue'[Len(queue) + 1] = x
      /\ \A y \in Lines : InQueue(y)' <=> InQueue(y) \/ y = x
  BY <1>1, QueueGrows
<1>4. \A y \in Lines : (InText(y)' <=> InText(y)) /\ (Behind(y)' <=> Behind(y) \/ y = x)
  BY <1>1, <1>3, TextKeeps DEF Behind
<1>5. WriterOrder' /\ QueuedAreNotDirect'
  BY <1>1, <1>4 DEF OrderInv, WriterOrder, QueuedAreNotDirect, Text
<1>6. TextFirst'
  <2>1. ASSUME NEW z \in Lines, InText(z), z[1] = x[1] PROVE ~(z[2] > x[2])
    <3>1. z[2] < x[2] /\ z[2] \in Nat /\ x[2] \in Nat
      BY <1>1, <1>2, <2>1 DEF Lines
    <3> QED
      BY <3>1
  <2> QED
    BY <1>1, <1>4, <2>1 DEF OrderInv, TextFirst
<1>7. HeldFirst'
  <2>1. held # None => held \in Lines
    BY <1>1 DEF TypeOK
  <2> QED
    BY <1>1, <1>2, <1>3, <2>1 DEF OrderInv, HeldFirst
<1>8. QueueOrder'
  <2>1. ASSUME NEW i \in DOMAIN queue', NEW j \in DOMAIN queue', i < j, queue'[i][1] = queue'[j][1]
        PROVE  queue'[i][2] < queue'[j][2]
    <3>1. i \in DOMAIN queue /\ queue'[i] = queue[i]
      BY <1>3, <2>1
    <3>2. CASE j \in DOMAIN queue
      BY <1>3, <2>1, <3>1, <3>2 DEF OrderInv, QueueOrder
    <3>3. CASE j \notin DOMAIN queue
      <4>1. queue'[j] = x
        BY <1>3, <3>3
      <4>2. queue[i] \in Lines /\ InQueue(queue[i])
        BY <1>1, <3>1 DEF TypeOK, InQueue
      <4> QED
        BY <1>2, <2>1, <3>1, <4>1, <4>2
    <3> QED
      BY <3>2, <3>3
  <2> QED
    BY <2>1 DEF QueueOrder
<1> QED
  BY <1>5, <1>6, <1>7, <1>8 DEF OrderInv

LEMMA OrderWrote ==
  ASSUME TypeInv, TypeInv', OnceInv, OrderInv, NEW w \in Writers, Wrote(w)
  PROVE  OrderInv'
<1> DEFINE x == Line(w)
<1>1. /\ TypeOK /\ x \in Lines /\ Passes(w) /\ ~InText(x) /\ ~InQueue(x) /\ held # x
      /\ Written' = [Written EXCEPT ![fp] = Append(@, x)] /\ UNCHANGED <<held, queue>>
      /\ direct' = direct \cup {x}
  BY NewLine DEF Wrote, TypeInv
<1>2. \A y \in Lines : InText(y) /\ y[1] = x[1] => y[2] < x[2]
  BY <1>1, NewestLine DEF Line
<1> HIDE DEF x
<1>3. ASSUME NEW y \in Lines, InText(y), y[1] = x[1] PROVE ~(y[2] > x[2])
  <2>1. y[2] < x[2] /\ y[2] \in Nat /\ x[2] \in Nat
    BY <1>1, <1>2, <1>3 DEF Lines
  <2> QED
    BY <2>1
<1>4. WriterOrder'
  <2>1. {x} \in SUBSET Lines
    BY <1>1
  <2> QED
    BY <1>1, <1>3, <2>1, OrderGrows DEF OrderInv
<1>5. \A y \in Lines : (InText(y)' <=> InText(y) \/ y = x) /\ (Behind(y)' <=> Behind(y)) /\ (InQueue(y)' <=> InQueue(y))
  BY <1>1, InTextGrows DEF Behind, InQueue
<1>6. QueuedAreNotDirect' /\ TextFirst'
  BY <1>1, <1>5 DEF OrderInv, QueuedAreNotDirect, TextFirst, Behind
<1>7. HeldFirst' /\ QueueOrder'
  BY <1>1, <1>5 DEF OrderInv, HeldFirst, QueueOrder
<1> QED
  BY <1>4, <1>6, <1>7 DEF OrderInv

(* A line that is refused, or a step that moves no line, disturbs nothing. *)
LEMMA OrderRests ==
  ASSUME OrderInv, Written' = Written, UNCHANGED <<queue, held, direct>>
  PROVE  OrderInv'
<1>1. \A y \in Lines : (InText(y)' <=> InText(y)) /\ (Behind(y)' <=> Behind(y)) /\ (InQueue(y)' <=> InQueue(y))
  BY TextKeeps DEF Behind, InQueue
<1>2. WriterOrder'
  BY DEF OrderInv, WriterOrder, Text
<1>3. QueuedAreNotDirect' /\ TextFirst' /\ HeldFirst' /\ QueueOrder'
  BY <1>1 DEF OrderInv, QueuedAreNotDirect, TextFirst, HeldFirst, QueueOrder
<1> QED
  BY <1>2, <1>3 DEF OrderInv

LEMMA OrderNext == TypeInv /\ TypeInv' /\ OnceInv /\ OrderInv /\ [Next]_vars => OrderInv'
<1>1. ASSUME OrderInv, Quiet PROVE OrderInv'
  BY <1>1, OrderRests DEF Quiet
<1>2. ASSUME OrderInv, NEW w \in Writers, Refused(w) PROVE OrderInv'
  BY <1>2, OrderRests DEF Refused
<1> QED
  BY <1>1, <1>2, Effects, OrderPopped, OrderPut, OrderQueued, OrderWrote

(* In a file the lines of one thread follow each other in the order they     *)
(* were logged, except that a line written directly by write_log passes     *)
(* earlier ones that async_write_log has still to write.                    *)
THEOREM LinesInOrder == Spec => []WriterOrder
<1>1. OrderInv => WriterOrder
  BY DEF OrderInv
<1> QED
  BY <1>1, OrderInit, OrderNext, TypeInvariance, OnceInvariance, PTL DEF Spec

-----------------------------------------------------------------------------
(* Without the queue, a line that is flushed is on the disk.               *)

LEMMA DiskGrows ==
  ASSUME TypeOK, disk' = disk \/ disk' = Written, NEW x, OnDisk(x)
  PROVE  OnDisk(x)'
<1>1. PICK f \in Files : \E i \in DOMAIN disk[f] : disk[f][i] = x
  BY DEF OnDisk
<1>2. PICK i \in DOMAIN disk[f] : disk[f][i] = x
  BY <1>1
<1>3. i \in DOMAIN Written[f] /\ Written[f][i] = x
  <2>1. CASE f = fp
    <3> DEFINE t == disk[fp]
    <3>1. t \in Seq(Lines) /\ buf \in Seq(Lines) /\ Written[fp] = t \o buf /\ i \in DOMAIN t /\ t[i] = x
      BY <1>2, <2>1 DEF TypeOK, Written
    <3> HIDE DEF t
    <3>2. i \in DOMAIN (t \o buf) /\ (t \o buf)[i] = x
      <4>1. /\ t \o buf \in Seq(Lines)
            /\ Len(t \o buf) = Len(t) + Len(buf) /\ Len(t) \in Nat /\ Len(buf) \in Nat
            /\ \A k \in 1 .. Len(t) + Len(buf) : (t \o buf)[k] = IF k <= Len(t) THEN t[k] ELSE buf[k - Len(t)]
        BY <3>1, ConcatProperties
      <4>2. i \in 1 .. Len(t) /\ i \in 1 .. Len(t) + Len(buf)
        BY <3>1, <4>1
      <4>3. DOMAIN (t \o buf) = 1 .. Len(t \o buf)
        BY <4>1
      <4> QED
        BY <3>1, <4>1, <4>2, <4>3
    <3> QED
      BY <2>1, <3>1, <3>2
  <2>2. CASE f # fp
    BY <1>2, <2>2 DEF TypeOK, Written
  <2> QED
    BY <2>1, <2>2
<1> QED
  BY <1>2, <1>3 DEF OnDisk

LEMMA FlushInit == Init => FlushInv
BY DEF Init, FlushInv

(* The steps of a writer that neither begins a line nor ends one. *)
LEMMA FlushRests ==
  ASSUME TypeInv, FlushInv, UNCHANGED <<async, logged>>,
         disk' = disk \/ disk' = Written,
         ~async => /\ UNCHANGED <<queue, held, lost>>
                   /\ \A v \in Writers : pc'[v] # "push" /\ (pc'[v] = "idle" => pc[v] = "idle")
  PROVE  FlushInv'
<1>1. TypeOK
  BY DEF TypeInv
<1>2. \A x : OnDisk(x) => OnDisk(x)'
  BY <1>1, DiskGrows
<1> QED
  BY <1>2 DEF FlushInv

LEMMA FlushNext == TypeInv /\ OnceInv /\ FlushInv /\ [Next]_vars => FlushInv'
<1> SUFFICES ASSUME TypeInv, OnceInv, FlushInv, [Next]_vars PROVE FlushInv'
  OBVIOUS
<1> USE DEF file, writer, history
<1>1. ASSUME NEW w \in Writers, Begin(w) PROVE FlushInv'
  <2>1. UNCHANGED <<async, queue, held, lost, disk>>
    BY <1>1 DEF Begin
  <2>2. ASSUME ~async, NEW v \in Writers PROVE pc'[v] # "push"
    BY <1>1, <2>2 DEF Begin, Goes, TypeInv, TypeOK, FlushInv
  <2>3. ASSUME ~async, NEW v \in Writers, NEW n \in 1 .. logged'[v], n < logged'[v] \/ pc'[v] = "idle"
        PROVE  OnDisk(<<v, n>>)
    <3>1. logged[v] \in Nat
      BY DEF TypeInv, TypeOK
    <3>2. CASE v = w
      <4>1. n \in 1 .. logged[v] /\ pc[v] = "idle"
        BY <1>1, <2>3, <3>1, <3>2 DEF Begin, Goes, TypeInv, TypeOK
      <4> QED
        BY <2>3, <4>1 DEF FlushInv
    <3>3. CASE v # w
      <4>1. n \in 1 .. logged[v] /\ (n < logged[v] \/ pc[v] = "idle")
        BY <1>1, <2>3, <3>1, <3>3 DEF Begin, Goes, TypeInv, TypeOK
      <4> QED
        BY <2>3, <4>1 DEF FlushInv
    <3> QED
      BY <3>2, <3>3
  <2> QED
    BY <2>1, <2>2, <2>3 DEF FlushInv, OnDisk
<1>2. ASSUME NEW w \in Writers, Flush(w) PROVE FlushInv'
  <2>1. /\ UNCHANGED <<async, queue, held, lost, logged>> /\ disk' = Written
        /\ Goes(w, "flush", "idle") /\ TypeOK
    BY <1>2 DEF Flush, TypeInv
  <2>2. ASSUME ~async, NEW v \in Writers PROVE pc'[v] # "push"
    BY <2>1, <2>2 DEF Goes, TypeOK, FlushInv
  <2>3. ASSUME ~async, NEW v \in Writers, NEW n \in 1 .. logged[v], n < logged[v] \/ pc'[v] = "idle"
        PROVE  OnDisk(<<v, n>>)'
    <3>1. CASE v = w /\ n = logged[v]
      <4>1. Line(w) \in Lines /\ Line(w) = <<v, n>>
        BY <2>1, <3>1, LineType DEF Line, Goes, TypeInv
      <4>2. Passed(Line(w))
        BY <2>1 DEF Passed, Line, Goes
      <4>3. queue = <<>> /\ held = None /\ lost = {}
        BY <2>3 DEF FlushInv
      <4>4. InText(Line(w))
        BY <4>1, <4>2, <4>3, NoneIsNoLine DEF OnceInv, Accounted, InQueue
      <4> QED
        BY <2>1, <4>1, <4>4 DEF InText, Text, OnDisk
    <3>2. CASE v # w \/ n < logged[v]
      <4>1. n < logged[v] \/ pc[v] = "idle"
        BY <2>1, <2>3, <3>2 DEF Goes, TypeOK
      <4>2. OnDisk(<<v, n>>)
        BY <2>3, <4>1 DEF FlushInv
      <4> QED
        BY <2>1, <4>2, DiskGrows
    <3>3. v # w \/ n < logged[v] \/ (v = w /\ n = logged[v])
      <4>1. logged[v] \in Nat
        BY DEF TypeInv, TypeOK
      <4> QED
        BY <4>1
    <3> QED
      BY <3>1, <3>2, <3>3
  <2> QED
    BY <2>1, <2>2, <2>3 DEF FlushInv
<1>3. ASSUME NEW w \in Writers, WriteLog(w) PROVE FlushInv'
  <2>1. CASE Rotate(w)
    BY <2>1, FlushRests DEF Rotate, Goes, TypeInv, TypeOK, FlushInv
  <2>2. CASE Count(w)
    BY <2>2, FlushRests DEF Count, Goes, TypeInv, TypeOK, FlushInv
  <2>3. CASE Route(w)
    BY <2>3, FlushRests DEF Route, TypeInv, TypeOK, FlushInv
  <2>4. CASE Push(w) \/ PushRefused(w)
    <3>1. async /\ UNCHANGED async
      BY <2>4 DEF Push, PushRefused, Goes, FlushInv, TypeInv, TypeOK
    <3> QED
      BY <3>1 DEF FlushInv
  <2>5. CASE Direct(w)
    BY <2>5, FlushRests DEF Direct, Goes, TypeInv, TypeOK, FlushInv
  <2> QED
    BY <1>1, <1>2, <1>3, <2>1, <2>2, <2>3, <2>4, <2>5 DEF WriteLog
<1>4. CASE PopLine \/ PutLine
  <2>1. async /\ UNCHANGED async
    BY <1>4 DEF PopLine, PutLine, FlushInv, TypeInv, TypeOK
  <2> QED
    BY <2>1 DEF FlushInv
<1>5. CASE Spill \/ Midnight \/ UNCHANGED vars
  BY <1>5, FlushRests DEF Spill, Midnight, vars, FlushInv
<1> QED
  BY <1>3, <1>4, <1>5 DEF Next, Flusher

(* Without the queue, LOG_...() and flush() leave the line on the disk, also *)
(* when other threads rotate the file in between.                           *)
THEOREM FlushWrites == Spec => []FlushedIsWritten
<1>1. FlushInv => FlushedIsWritten
  BY DEF FlushInv, FlushedIsWritten, OnDisk
<1> QED
  BY <1>1, FlushInit, FlushNext, TypeInvariance, OnceInvariance, PTL DEF Spec

-----------------------------------------------------------------------------
(* Without the queue and within a day, files are split in time.            *)

LEMMA ModStep ==
  ASSUME NEW d \in Nat \ {0}, NEW a \in Nat
  PROVE  /\ a % d \in 0 .. d - 1
         /\ a \div d \in Nat
         /\ (a + 1) % d # 0 => (a + 1) % d = (a % d) + 1 /\ (a + 1) \div d = a \div d
         /\ (a + 1) % d = 0 => (a + 1) \div d = a \div d + 1
BY Z3

LEMMA CountStep ==
  ASSUME TypeOK
  PROVE  /\ count % SplitLines \in 0 .. SplitLines - 1
         /\ count \div SplitLines \in Nat
         /\ (count + 1) % SplitLines # 0 => /\ (count + 1) % SplitLines = (count % SplitLines) + 1
                                           /\ (count + 1) \div SplitLines = count \div SplitLines
         /\ (count + 1) % SplitLines = 0 => (count + 1) \div SplitLines = count \div SplitLines + 1
<1>1. SplitLines \in Nat \ {0} /\ count \in Nat
  BY LogAssumption DEF TypeOK
<1> QED
  BY <1>1, ModStep, Zenon

LEMMA WritingCounts ==
  ASSUME NEW w \in Writers
  PROVE  /\ Cardinality(Writers) \in Nat /\ Room \in 0 .. Cardinality(Writers)
         /\ Room' \in 0 .. Cardinality(Writers)
         /\ Writing' = Writing => Room' = Room
         /\ w \notin Writing /\ Writing' = Writing \cup {w} => Room' = Room - 1
         /\ w \in Writing /\ Writing' = Writing \ {w} => Room' = Room + 1
<1>1. IsFiniteSet(Writers) /\ Writing \in SUBSET Writers /\ Writing' \in SUBSET Writers
  BY LogAssumption DEF Writing
<1>2. /\ IsFiniteSet(Writing) /\ Cardinality(Writing) <= Cardinality(Writers)
      /\ IsFiniteSet(Writing') /\ Cardinality(Writing') <= Cardinality(Writers)
  BY <1>1, FS_Subset
<1>3. /\ Cardinality(Writers) \in Nat /\ Cardinality(Writing) \in Nat /\ Cardinality(Writing') \in Nat
  BY <1>1, <1>2, FS_CardinalityType
<1>4. /\ w \notin Writing => Cardinality(Writing \cup {w}) = Cardinality(Writing) + 1
      /\ w \in Writing => Cardinality(Writing \ {w}) = Cardinality(Writing) - 1
  BY <1>2, FS_AddElement, FS_RemoveElement
<1>5. Room' = Cardinality(Writers) - Cardinality(Writing')
  BY DEF Room
<1> DEFINE n == Cardinality(Writers)
           p == Cardinality(Writing)
           q == Cardinality(Writing')
<1>6. /\ n \in Nat /\ p \in Nat /\ q \in Nat /\ p <= n /\ q <= n /\ Room = n - p /\ Room' = n - q
      /\ (Writing' = Writing => q = p)
      /\ (w \notin Writing /\ Writing' = Writing \cup {w} => q = p + 1)
      /\ (w \in Writing /\ Writing' = Writing \ {w} => q = p - 1)
  BY <1>2, <1>3, <1>4, <1>5 DEF Room
<1> HIDE DEF n, p, q
<1>7. n \in Nat /\ Room \in 0 .. n /\ Room' \in 0 .. n
  BY <1>6
<1>8. /\ (Writing' = Writing => Room' = Room)
      /\ (w \notin Writing /\ Writing' = Writing \cup {w} => Room' = Room - 1)
      /\ (w \in Writing /\ Writing' = Writing \ {w} => Room' = Room + 1)
  BY <1>6
<1> QED
  BY <1>7, <1>8 DEF n

LEMMA TextLengths ==
  ASSUME TypeOK
  PROVE  \A f \in Files : Len(Text(f)) \in Nat
BY TextType DEF Text

(* The open file has room for those who have counted and not yet written. *)
LEMMA OpenFileBound ==
  ASSUME TypeInv, Split
  PROVE  /\ count % SplitLines \in 0 .. SplitLines - 1
         /\ \A f \in Files : Len(Text(f)) <= SplitLines + Cardinality(Writers) - 1
<1>1. count % SplitLines \in 0 .. SplitLines - 1 /\ SplitLines \in Nat
  BY CountStep, LogAssumption DEF TypeInv
<1>2. CASE Writers = {}
  <2>1. Writing = {}
    BY <1>2 DEF Writing
  <2>2. Room = 0 /\ Cardinality(Writers) = 0
    BY <1>2, <2>1, FS_EmptySet DEF Room
  <2>3. Len(Text(fp)) <= (count % SplitLines) + 0 /\ Len(Text(fp)) \in Nat
    BY <2>2, TextLengths DEF Split, TypeInv, TypeOK
  <2>4. Len(Text(fp)) <= SplitLines + 0 - 1
    BY <1>1, <2>3
  <2> QED
    BY <1>1, <2>2, <2>4 DEF Split
<1>3. CASE Writers # {}
  <2>1. PICK w \in Writers : TRUE
    BY <1>3
  <2> DEFINE n == Cardinality(Writers)
             l == Len(Text(fp))
             m == count % SplitLines
  <2>2. n \in Nat /\ Room \in 0 .. n /\ l \in Nat /\ l <= m + Room /\ m \in 0 .. SplitLines - 1
    BY <1>1, <2>1, WritingCounts, TextLengths DEF Split, TypeInv, TypeOK
  <2> HIDE DEF n, l, m
  <2>3. l <= SplitLines + n - 1
    BY <1>1, <2>2
  <2> QED
    BY <1>1, <2>3 DEF Split, l, n
<1> QED
  BY <1>2, <1>3

LEMMA SplitInit == Init => SplitInv
<1> SUFFICES ASSUME Init PROVE Split
  BY DEF SplitInv
<1>1. \A f \in Files : Text(f) = <<>>
  <2>1. <<>> \in Seq(Lines) /\ <<>> \o <<>> = <<>>
    BY ConcatEmptySeq
  <2> QED
    BY <2>1 DEF Init, Text, Written
<1>2. fp \in Files
  BY TypeInit DEF TypeInv, TypeOK
<1>3. Cardinality(Writers) \in Nat /\ Room = Cardinality(Writers)
  <2>1. Writing = {}
    BY DEF Init, Writing
  <2> QED
    BY <2>1, LinesFinite, FS_EmptySet DEF Room
<1>4. 0 \div SplitLines = 0 /\ 0 % SplitLines = 0
  BY LogAssumption, Z3
<1>5. \A f \in Files : Len(Text(f)) = 0
  BY <1>1
<1>6. Len(Text(fp)) <= (count % SplitLines) + Room
  BY <1>2, <1>3, <1>4, <1>5 DEF Init
<1>7. \A f \in Files : Len(Text(f)) <= SplitLines + Cardinality(Writers) - 1
  BY <1>3, <1>5, LogAssumption
<1> QED
  BY <1>1, <1>4, <1>6, <1>7 DEF Init, Split

LEMMA SplitRotate ==
  ASSUME TypeInv, TypeInv', Split, NEW w \in Writers, Rotate(w)
  PROVE  Split'
<1>1. /\ today = stamp[w] /\ stamp[w] = 1 /\ (count + 1) % SplitLines = 0
      /\ count' = count + 1 /\ fp' = <<1, count' \div SplitLines>> /\ today' = 1
      /\ UNCHANGED stamp
  BY DEF Split, Rotate, Rotates, writer
<1>2. fp \in Files /\ fp' \in Files /\ count \in Nat /\ TypeOK /\ TypeOK'
  BY DEF TypeInv, TypeOK
<1>3. fp'[2] = fp[2] + 1 /\ fp[2] \in Nat
  <2>1. (count + 1) \div SplitLines = count \div SplitLines + 1 /\ count \div SplitLines \in Nat
    BY <1>1, <1>2, CountStep
  <2> QED
    BY <1>1, <2>1 DEF Split
<1>4. \A f \in Files : Text(f)' = Text(f)
  BY <1>2, TextKept, TextKeeps DEF Rotate
<1>5. Written'[fp'] = <<>> /\ Len(Written'[fp']) = 0
  BY <1>2, <1>3, <1>4 DEF Split, Text
<1>6. Len(Written'[fp']) <= (count' % SplitLines) + Room'
  <2>1. Room' \in Nat
    BY WritingCounts
  <2> QED
    BY <1>1, <1>5, <2>1
<1>7. \A f \in Files : f[2] > fp'[2] => Written'[f] = <<>>
  <2>1. \A f \in Files : f[2] \in Int
    BY LinesFinite, LogAssumption DEF Files, Numbers
  <2> QED
    BY <1>3, <1>4, <2>1 DEF Split, Text
<1>8. \A f \in Files : Len(Written'[f]) <= SplitLines + Cardinality(Writers) - 1
  BY <1>4, OpenFileBound DEF Text
<1> QED
  BY <1>1, <1>6, <1>7, <1>8 DEF Split, Text

LEMMA SplitCount ==
  ASSUME TypeInv, Split, NEW w \in Writers, Count(w)
  PROVE  Split'
<1>1. /\ (count + 1) % SplitLines # 0 /\ count' = count + 1 /\ UNCHANGED <<today, stamp, fp, disk, buf>>
      /\ Goes(w, "count", "route")
  BY DEF Count, Rotates, writer
<1>2. count \in Nat /\ TypeOK /\ fp \in Files
  BY DEF TypeInv, TypeOK
<1>3. count' \div SplitLines = count \div SplitLines /\ count' % SplitLines = (count % SplitLines) + 1
      /\ count % SplitLines \in Nat
  <2>1. count % SplitLines \in Nat
    BY <1>2, CountStep, LogAssumption
  <2> QED
    BY <1>1, <1>2, <2>1, CountStep
<1>4. Written' = Written
  BY <1>1 DEF Written
<1>5. Room' = Room - 1 /\ Room \in Nat /\ Room' \in Nat
  <2>1. w \notin Writing /\ Writing' = Writing \cup {w}
    BY <1>1, <1>2 DEF Goes, Writing, TypeOK
  <2> QED
    BY <2>1, WritingCounts
<1>6. Len(Written[fp]) <= (count' % SplitLines) + Room'
  <2> DEFINE l == Len(Written[fp])
             m == count % SplitLines
  <2>1. l \in Nat /\ l <= m + Room
    BY <1>2, TextLengths DEF Split, Text
  <2> HIDE DEF l
  <2>2. l <= (m + 1) + (Room - 1)
    BY <1>3, <1>5, <2>1
  <2> QED
    BY <1>3, <1>5, <2>2 DEF l
<1> QED
  BY <1>1, <1>3, <1>4, <1>6 DEF Split, Text

LEMMA SplitDirect ==
  ASSUME TypeInv, Split, NEW w \in Writers, Direct(w)
  PROVE  Split'
<1>1. /\ UNCHANGED <<count, today, stamp, fp, disk>> /\ buf' = Append(buf, Line(w))
      /\ Goes(w, "direct", "flush")
  BY DEF Direct, file, writer
<1>2. count \in Nat /\ TypeOK /\ fp \in Files /\ Line(w) \in Lines
  BY <1>1, LineType DEF TypeInv, TypeOK, Goes
<1>3. Written' = [Written EXCEPT ![fp] = Append(@, Line(w))]
  BY <1>1, <1>2, TextGrows
<1>4. Len(Written'[fp]) = Len(Text(fp)) + 1 /\ \A f \in Files : f # fp => Written'[f] = Text(f)
  BY <1>2, <1>3, TextAppends DEF Text
<1>5. Room' = Room + 1 /\ Room \in Nat
  <2>1. w \in Writing /\ Writing' = Writing \ {w}
    BY <1>1, <1>2 DEF Goes, Writing, TypeOK
  <2> QED
    BY <2>1, WritingCounts
<1>6. Len(Written'[fp]) <= (count % SplitLines) + Room'
  <2> DEFINE l == Len(Text(fp))
             m == count % SplitLines
  <2>1. l \in Nat /\ l <= m + Room /\ m \in Nat
    BY <1>2, TextLengths, OpenFileBound, LogAssumption DEF Split
  <2> HIDE DEF l, m
  <2>2. l + 1 <= m + (Room + 1)
    BY <1>5, <2>1
  <2> QED
    BY <1>4, <1>5, <2>2 DEF l, m
<1>7. ASSUME NEW f \in Files, f[2] > fp[2] PROVE Written'[f] = <<>>
  <2>1. f # fp
    BY <1>2, <1>7, LinesFinite, LogAssumption DEF Files, Numbers
  <2> QED
    BY <1>4, <1>7, <2>1 DEF Split
<1> QED
  BY <1>1, <1>4, <1>6, <1>7 DEF Split, Text

(* A step that neither counts nor writes a line. *)
LEMMA SplitRests ==
  ASSUME TypeInv, Split, UNCHANGED <<count, today, fp>>, Written' = Written,
         \A w \in Writers : stamp'[w] = 1, Writing' = Writing
  PROVE  Split'
<1>1. Room' = Room
  BY DEF Room
<1> QED
  BY <1>1 DEF Split, Text

LEMMA SplitNext == TypeInv /\ TypeInv' /\ FlushInv /\ SplitInv /\ [Next]_vars => SplitInv'
<1> SUFFICES ASSUME TypeInv, TypeInv', FlushInv, SplitInv, [Next]_vars, ~async', clock' = 1
             PROVE  Split'
  BY DEF SplitInv
<1> USE DEF file, writer, history
<1>1. clock \in Nat \ {0} /\ TypeOK /\ TypeOK'
  <2>1. TypeOK /\ TypeOK'
    BY DEF TypeInv
  <2>2. clock \in Nat \ {0}
    BY <2>1, LogAssumption DEF TypeOK
  <2> QED
    BY <2>1, <2>2
<1>2. ~async /\ UNCHANGED async
  BY DEF Next, Flusher, WriteLog, Begin, Rotate, Count, Route, Push, PushRefused, Direct, Flush,
         PopLine, PutLine, Spill, Midnight, vars
<1>3. clock = 1 /\ UNCHANGED clock
  BY <1>1 DEF Next, Flusher, WriteLog, Begin, Rotate, Count, Route, Push, PushRefused, Direct, Flush,
              PopLine, PutLine, Spill, Midnight, vars
<1>4. Split
  BY <1>2, <1>3 DEF SplitInv
<1>5. ASSUME NEW w \in Writers, WriteLog(w) PROVE Split'
  <2>1. CASE Begin(w)
    <3>1. Written' = Written /\ Writing' = Writing
      BY <1>1, <2>1 DEF Begin, Goes, Written, Writing, TypeOK
    <3>2. \A v \in Writers : stamp'[v] = 1
      BY <1>1, <1>3, <1>4, <2>1 DEF Begin, Split, TypeOK
    <3> QED
      BY <1>4, <2>1, <3>1, <3>2, SplitRests DEF Begin
  <2>2. CASE Rotate(w)
    BY <1>4, <2>2, SplitRotate
  <2>3. CASE Count(w)
    BY <1>4, <2>3, SplitCount
  <2>4. CASE Route(w)
    <3>1. Written' = Written /\ Writing' = Writing
      BY <1>1, <1>2, <2>4 DEF Route, Written, Writing, TypeOK
    <3> QED
      BY <1>4, <2>4, <3>1, SplitRests DEF Route, Split
  <2>5. CASE Push(w) \/ PushRefused(w)
    BY <1>2, <2>5 DEF Push, PushRefused, Goes, FlushInv
  <2>6. CASE Direct(w)
    BY <1>4, <2>6, SplitDirect
  <2>7. CASE Flush(w)
    <3>1. Written' = Written /\ Writing' = Writing
      BY <1>1, <2>7, TextKept DEF Flush, Goes, Writing, TypeOK
    <3> QED
      BY <1>4, <2>7, <3>1, SplitRests DEF Flush, Split
  <2> QED
    BY <1>5, <2>1, <2>2, <2>3, <2>4, <2>5, <2>6, <2>7 DEF WriteLog
<1>6. ASSUME PopLine \/ PutLine PROVE FALSE
  BY <1>2, <1>6 DEF PopLine, PutLine, FlushInv
<1>7. CASE Spill
  <2>1. Written' = Written /\ Writing' = Writing
    BY <1>1, <1>7, TextKept DEF Spill, Writing
  <2> QED
    BY <1>4, <1>7, <2>1, SplitRests DEF Spill, Split
<1>8. CASE Midnight
  BY <1>1, <1>3, <1>8 DEF Midnight
<1>9. CASE UNCHANGED vars
  <2>1. Written' = Written /\ Writing' = Writing
    BY <1>9 DEF vars, Written, Writing
  <2> QED
    BY <1>4, <1>9, <2>1, SplitRests DEF vars, Split
<1> QED
  BY <1>5, <1>6, <1>7, <1>8, <1>9 DEF Next, Flusher

(* Without the queue and within a day, a file holds at most SplitLines lines *)
(* and one more for each other thread between its count and its write, for  *)
(* any number of threads; and every variable keeps its type.                *)
THEOREM FilesSplit == Spec => []SplitBound
<1>1. TypeInv /\ SplitInv => SplitBound
  BY OpenFileBound DEF SplitInv, SplitBound, TypeInv
<1> QED
  BY <1>1, FlushInit, FlushNext, SplitInit, SplitNext, TypeInvariance, OnceInvariance, PTL DEF Spec

=============================================================================
