--------------------------- MODULE HttpConn_proofs ---------------------------
(***************************************************************************)
(* Proofs about HttpConn for any requests, body, size of the buffer and    *)
(* lengths of head and file, and any cuts of what arrives and leaves.      *)
(*                                                                         *)
(* About writing: while no answer is cut twice within its head, the iovec  *)
(* points to exactly the bytes after the first have_send.                  *)
(*                                                                         *)
(* About reading: everything the client ever sent is one stream, in which  *)
(* each request has its offset.  The buffer starts where the last init()   *)
(* left off, and a line that names a target is found only if this is the   *)
(* offset of a request; from then on the parser's variables say how many   *)
(* lines of that request are behind it.                                    *)
(***************************************************************************)
EXTENDS HttpConn, SequenceTheorems, WellFoundedInduction, TLAPS

-----------------------------------------------------------------------------
(* Writing.                                                                *)

Pieces == {"head", "file"} \X Int

\* The k-th byte of an answer with a file.
Piece(k) == IF k <= HeadLength THEN <<"head", k - 1>> ELSE <<"file", k - HeadLength - 1>>

Total == IF answer = "FILE_REQUEST" THEN HeadLength + FileLength ELSE HeadLength

\* The iovec after have_send bytes: in the head, or past it.
IovInHead ==
    /\ iov.base0 = have_send /\ iov.len0 = HeadLength - have_send
    /\ iov.count = IF answer = "FILE_REQUEST" THEN 2 ELSE 1
    /\ answer = "FILE_REQUEST" => iov.base1 = 0 /\ iov.len1 = FileLength

IovInFile ==
    /\ iov.len0 = 0 /\ iov.count = 2
    /\ iov.base1 = have_send - HeadLength /\ iov.len1 = to_send

Iovs == [base0 : Int, len0 : Int, base1 : Int, len1 : Int, count : 0..2]

Idle == have_send = 0 /\ to_send = 0 /\ received = <<>>

Sending ==
    /\ to_send > 0 /\ have_send + to_send = Total
    /\ "cut" \notin odd =>
        /\ received = [k \in 1..have_send |-> Piece(k)]
        /\ IF have_send < HeadLength THEN IovInHead ELSE IovInFile

WriterInv ==
    /\ have_send \in Nat /\ to_send \in Nat
    /\ iov \in Iovs
    /\ phase \in {"in", "process", "out", "spin", "closed"}
    /\ phase \in {"in", "process"} => Idle
    /\ phase = "out" => Sending

LEMMA PieceType == ASSUME NEW k \in Int PROVE Piece(k) \in Pieces
BY HttpConnAssumption DEF Piece, Pieces

\* The first m bytes of an answer and n more.
LEMMA JoinPieces ==
    ASSUME NEW m \in Nat, NEW n \in Nat, NEW g \in Seq(Pieces), Len(g) = n,
           \A i \in 1..n : g[i] = Piece(m + i)
    PROVE  [k \in 1..m |-> Piece(k)] \o g = [k \in 1..(m + n) |-> Piece(k)]
<1> DEFINE s == [k \in 1..m |-> Piece(k)]
           t == [k \in 1..(m + n) |-> Piece(k)]
<1>1. /\ s \in Seq(Pieces) /\ Len(s) = m
      /\ t \in Seq(Pieces) /\ Len(t) = m + n
  BY PieceType
<1>2. \A i \in 1..m : s[i] = Piece(i)
  OBVIOUS
<1>3. \A i \in 1..(m + n) : t[i] = Piece(i)
  OBVIOUS
<1> HIDE DEF s, t
<1> DEFINE c == s \o g
<1>4. /\ c \in Seq(Pieces)
      /\ Len(c) = m + n
      /\ \A i \in 1..(m + n) : c[i] = IF i <= m THEN s[i] ELSE g[i - m]
  BY <1>1, ConcatProperties
<1> HIDE DEF c
<1>5. ASSUME NEW i \in 1..(m + n) PROVE c[i] = t[i]
  <2>1. CASE i <= m
    BY <1>2, <1>3, <1>4, <2>1
  <2>2. CASE ~(i <= m)
    <3>1. i - m \in 1..n /\ m + (i - m) = i
      BY <2>2
    <3>2. g[i - m] = Piece(m + (i - m))
      BY <3>1
    <3>3. g[i - m] = Piece(i)
      BY <3>1, <3>2
    <3> QED BY <1>3, <1>4, <2>2, <3>3
  <2> QED BY <2>1, <2>2
<1>6. c = t
  BY <1>1, <1>4, <1>5, SeqEqual
<1> QED BY <1>6 DEF c, s, t

LEMMA WholeAnswerIs == WholeAnswer = [k \in 1..Total |-> Piece(k)]
<1> DEFINE head == [k \in 1..HeadLength |-> Piece(k)]
           file == [i \in 1..FileLength |-> <<"file", i - 1>>]
<1>1. [i \in 1..HeadLength |-> <<"head", i - 1>>] = head
  BY DEF Piece
<1>2. file \in Seq(Pieces) /\ Len(file) = FileLength
  BY HttpConnAssumption DEF Pieces
<1>3. \A i \in 1..FileLength : file[i] = Piece(HeadLength + i)
  BY HttpConnAssumption DEF Piece
<1>4. head \in Seq(Pieces)
  BY HttpConnAssumption, PieceType
<1> HIDE DEF file
<1>5. head \o file = [k \in 1..(HeadLength + FileLength) |-> Piece(k)]
  BY <1>2, <1>3, HttpConnAssumption, JoinPieces
<1>6. head \o <<>> = head
  BY <1>4
<1>7. CASE answer = "FILE_REQUEST"
  BY <1>1, <1>5, <1>7, Zenon DEF WholeAnswer, Total, file
<1>8. CASE answer # "FILE_REQUEST"
  BY <1>1, <1>6, <1>8, Zenon DEF WholeAnswer, Total
<1> QED BY <1>7, <1>8

\* What the iovec points to follows what has been sent.
LEMMA GatheredIs ==
    ASSUME WriterInv, phase = "out", "cut" \notin odd, NEW n \in 0..to_send
    PROVE  /\ InIov = to_send
           /\ Gathered(n) \in Seq(Pieces) /\ Len(Gathered(n)) = n
           /\ \A i \in 1..n : Gathered(n)[i] = Piece(have_send + i)
<1>1. Sending /\ have_send \in Nat /\ to_send \in Nat
  BY DEF WriterInv
<1>2. iov.base0 \in Int /\ iov.base1 \in Int /\ iov.len0 \in Int /\ iov.len1 \in Int
  BY DEF WriterInv, Iovs
<1>3. InIov = to_send
  BY <1>1, HttpConnAssumption DEF Sending, InIov, IovInHead, IovInFile, Total
<1>4. Gathered(n) \in Seq(Pieces) /\ Len(Gathered(n)) = n
  <2>1. \A i \in 1..n : (IF i <= iov.len0 THEN <<"head", iov.base0 + i - 1>>
                         ELSE <<"file", iov.base1 + i - iov.len0 - 1>>) \in Pieces
    BY <1>1, <1>2 DEF Pieces
  <2> QED BY <1>1, <2>1 DEF Gathered
<1>5. ASSUME NEW i \in 1..n PROVE Gathered(n)[i] = Piece(have_send + i)
  <2>1. Gathered(n)[i] = IF i <= iov.len0 THEN <<"head", iov.base0 + i - 1>>
                         ELSE <<"file", iov.base1 + i - iov.len0 - 1>>
    BY DEF Gathered
  <2>2. i \in Nat /\ i <= to_send
    BY <1>1
  <2>3. CASE have_send < HeadLength /\ i <= iov.len0
    <3>1. iov.base0 + i - 1 = have_send + i - 1 /\ have_send + i <= HeadLength
      BY <1>1, <2>2, <2>3, HttpConnAssumption DEF Sending, IovInHead
    <3>2. Piece(have_send + i) = <<"head", have_send + i - 1>>
      BY <1>1, <2>2, <3>1, HttpConnAssumption DEF Piece
    <3>3. Gathered(n)[i] = <<"head", iov.base0 + i - 1>>
      BY <2>1, <2>3, Zenon
    <3> QED BY <3>1, <3>2, <3>3, Zenon
  <2>4. CASE have_send < HeadLength /\ ~(i <= iov.len0)
    <3>1. iov.len0 = HeadLength - have_send /\ have_send + i > HeadLength
      BY <1>1, <2>2, <2>4, HttpConnAssumption DEF Sending, IovInHead
    <3>2. answer = "FILE_REQUEST" /\ iov.base1 = 0
      BY <1>1, <2>2, <2>4, <3>1, HttpConnAssumption DEF Sending, IovInHead, Total
    <3>3. iov.base1 + i - iov.len0 - 1 = have_send + i - HeadLength - 1
      BY <1>1, <2>2, <3>1, <3>2, HttpConnAssumption
    <3>4. ~(have_send + i <= HeadLength)
      BY <1>1, <2>2, <3>1, HttpConnAssumption
    <3>5. Piece(have_send + i) = <<"file", have_send + i - HeadLength - 1>>
      BY <1>1, <2>2, <3>4, HttpConnAssumption DEF Piece
    <3>6. Gathered(n)[i] = <<"file", iov.base1 + i - iov.len0 - 1>>
      BY <2>1, <2>4, Zenon
    <3> QED BY <3>3, <3>5, <3>6, Zenon
  <2>5. CASE ~(have_send < HeadLength)
    <3>1. iov.len0 = 0 /\ iov.base1 = have_send - HeadLength
      BY <1>1, <2>5 DEF Sending, IovInFile
    <3>2. iov.base1 + i - iov.len0 - 1 = have_send + i - HeadLength - 1
      BY <1>1, <2>2, <3>1, HttpConnAssumption
    <3>3. ~(have_send + i <= HeadLength) /\ ~(i <= iov.len0)
      BY <1>1, <2>2, <2>5, <3>1, HttpConnAssumption
    <3>4. Piece(have_send + i) = <<"file", have_send + i - HeadLength - 1>>
      BY <1>1, <2>2, <3>3, HttpConnAssumption DEF Piece
    <3>5. Gathered(n)[i] = <<"file", iov.base1 + i - iov.len0 - 1>>
      BY <2>1, <3>3, Zenon
    <3> QED BY <3>2, <3>4, <3>5, Zenon
  <2> QED BY <2>3, <2>4, <2>5
<1> QED BY <1>3, <1>4, <1>5

LEMMA WriterInit == Init => WriterInv
<1>1. NoIov \in Iovs
  BY DEF NoIov, Iovs
<1> QED BY <1>1 DEF Init, WriterInv, Idle

\* write_conn sets whole fields and leaves the others alone.
LEMMA RestType ==
    ASSUME iov \in Iovs, have_send \in Nat, to_send \in Nat, NEW n \in Nat
    PROVE  /\ Rest(n) \in Iovs
           /\ Rest(n).count = iov.count
           /\ have_send + n >= iov.len0 =>
                 /\ Rest(n).len0 = 0
                 /\ Rest(n).base1 = have_send + n - HeadLength
                 /\ Rest(n).len1 = to_send - n
           /\ ~(have_send + n >= iov.len0) =>
                 /\ Rest(n).base0 = have_send + n
                 /\ Rest(n).len0 = iov.len0 - n
                 /\ Rest(n).base1 = iov.base1
                 /\ Rest(n).len1 = iov.len1
<1>1. have_send + n - HeadLength \in Int /\ to_send - n \in Int /\ iov.len0 - n \in Int
      /\ have_send + n \in Int
  BY HttpConnAssumption DEF Iovs
<1>2. CASE have_send + n >= iov.len0
  <2> DEFINE x == have_send + n - HeadLength
             y == to_send - n
  <2>1. x \in Int /\ y \in Int
    BY <1>1
  <2>2. Rest(n) = [iov EXCEPT !.len0 = 0, !.base1 = x, !.len1 = y]
    BY <1>2 DEF Rest
  <2> HIDE DEF x, y
  <2>3. Rest(n) = [base0 |-> iov.base0, len0 |-> 0, base1 |-> x, len1 |-> y, count |-> iov.count]
    BY <2>1, <2>2 DEF Iovs
  <2>4. iov.base0 \in Int /\ iov.count \in 0..2
    BY DEF Iovs
  <2>5. /\ Rest(n) \in Iovs /\ Rest(n).count = iov.count
        /\ Rest(n).len0 = 0 /\ Rest(n).base1 = x /\ Rest(n).len1 = y
    BY ONLY <2>1, <2>3, <2>4 DEF Iovs
  <2> QED BY <1>2, <2>5 DEF x, y
<1>3. CASE ~(have_send + n >= iov.len0)
  <2> DEFINE x == have_send + n
             y == iov.len0 - n
  <2>1. x \in Int /\ y \in Int
    BY <1>1
  <2>2. Rest(n) = [iov EXCEPT !.base0 = x, !.len0 = y]
    BY <1>3 DEF Rest
  <2> HIDE DEF x, y
  <2>3. /\ Rest(n) \in Iovs /\ Rest(n).count = iov.count
        /\ Rest(n).base0 = x /\ Rest(n).len0 = y
        /\ Rest(n).base1 = iov.base1 /\ Rest(n).len1 = iov.len1
    BY <2>1, <2>2 DEF Iovs
  <2> QED BY <1>3, <2>3 DEF x, y
<1> QED BY <1>2, <1>3

LEMMA WriterPrepared ==
    ASSUME WriterInv, phase = "process", NEW code, ProcessWrite(code), UNCHANGED <<received, odd>>
    PROVE  WriterInv'
<1>1. Idle
  BY DEF WriterInv
<1>2. /\ phase' = "out" /\ have_send' = 0 /\ received' = <<>> /\ answer' = code
  BY <1>1 DEF ProcessWrite, Idle
<1>3. [k \in 1..0 |-> Piece(k)] = <<>>
  OBVIOUS
<1>4. CASE code = "FILE_REQUEST"
  <2>1. iov' = [base0 |-> 0, len0 |-> HeadLength, base1 |-> 0, len1 |-> FileLength, count |-> 2]
        /\ to_send' = HeadLength + FileLength
    BY <1>4 DEF ProcessWrite
  <2>2. iov' \in Iovs
    BY <2>1, HttpConnAssumption DEF Iovs
  <2>3. IovInHead'
    BY <1>2, <1>4, <2>1, HttpConnAssumption DEF IovInHead
  <2>4. to_send' \in Nat /\ to_send' > 0 /\ have_send' + to_send' = Total' /\ have_send' < HeadLength
    BY <1>2, <1>4, <2>1, HttpConnAssumption DEF Total
  <2> QED BY <1>2, <1>3, <2>2, <2>3, <2>4 DEF WriterInv, Sending
<1>5. CASE code # "FILE_REQUEST"
  <2>1. iov' = [iov EXCEPT !.base0 = 0, !.len0 = HeadLength, !.count = 1] /\ to_send' = HeadLength
    BY <1>5 DEF ProcessWrite
  <2>2. iov' = [base0 |-> 0, len0 |-> HeadLength, base1 |-> iov.base1, len1 |-> iov.len1, count |-> 1]
    BY <2>1 DEF WriterInv, Iovs
  <2>3. iov.base1 \in Int /\ iov.len1 \in Int
    BY DEF WriterInv, Iovs
  <2>4. iov' \in Iovs /\ iov'.base0 = 0 /\ iov'.len0 = HeadLength /\ iov'.count = 1
    BY ONLY <2>2, <2>3, HttpConnAssumption DEF Iovs
  <2>5. IovInHead'
    BY <1>2, <1>5, <2>4, HttpConnAssumption DEF IovInHead
  <2>6. to_send' \in Nat /\ to_send' > 0 /\ have_send' + to_send' = Total' /\ have_send' < HeadLength
    BY <1>2, <1>5, <2>1, HttpConnAssumption DEF Total
  <2> QED BY <1>2, <1>3, <2>4, <2>5, <2>6 DEF WriterInv, Sending
<1> QED BY <1>4, <1>5

\* One call of writev that does not send everything.
LEMMA WriterPart ==
    ASSUME WriterInv, NEW n \in 1..to_send, WritePart(n)
    PROVE  WriterInv'
<1>1. /\ phase = "out" /\ phase' = "out" /\ n < to_send /\ n \in Nat \ {0}
      /\ have_send' = have_send + n /\ to_send' = to_send - n /\ answer' = answer
      /\ have_send \in Nat /\ to_send \in Nat
      /\ Sending
  BY DEF WritePart, WriterInv
<1>2. /\ iov.base0 \in Int /\ iov.base1 \in Int /\ iov.len0 \in Int /\ iov.len1 \in Int
      /\ iov.count \in 0..2
  BY DEF WriterInv, Iovs
<1>3. iov' = Rest(n) /\ iov' \in Iovs
  BY <1>1, RestType DEF WritePart, WriterInv
<1>4. to_send' > 0 /\ have_send' + to_send' = Total'
  BY <1>1, HttpConnAssumption DEF Sending, Total
<1>5. ASSUME "cut" \notin odd'
      PROVE  /\ received' = [k \in 1..have_send' |-> Piece(k)]
             /\ IF have_send' < HeadLength THEN IovInHead' ELSE IovInFile'
  <2>1. /\ "cut" \notin odd
        /\ ~(iov.base0 > 0 /\ have_send + n < HeadLength)
    BY <1>5 DEF WritePart
  <2>2. received' = [k \in 1..have_send' |-> Piece(k)]
    <3>1. received = [k \in 1..have_send |-> Piece(k)]
      BY <1>1, <2>1 DEF Sending
    <3>2. /\ Gathered(n) \in Seq(Pieces) /\ Len(Gathered(n)) = n
          /\ \A i \in 1..n : Gathered(n)[i] = Piece(have_send + i)
      BY <1>1, <2>1, GatheredIs
    <3>3. [k \in 1..have_send |-> Piece(k)] \o Gathered(n)
            = [k \in 1..(have_send + n) |-> Piece(k)]
      BY <1>1, <3>2, JoinPieces
    <3> QED BY <1>1, <3>1, <3>3 DEF WritePart
  <2>3. CASE have_send < HeadLength /\ have_send + n < HeadLength
    <3>1. IovInHead /\ have_send = 0 /\ iov.len0 = HeadLength
      BY <1>1, <1>2, <2>1, <2>3, HttpConnAssumption DEF Sending, IovInHead
    <3>2. ~(have_send + n >= iov.len0)
      BY <1>1, <2>3, <3>1, HttpConnAssumption
    <3>3. /\ iov'.base0 = n /\ iov'.len0 = HeadLength - n
          /\ iov'.count = iov.count /\ iov'.base1 = iov.base1 /\ iov'.len1 = iov.len1
      BY <1>1, <1>3, <3>1, <3>2, RestType DEF WriterInv
    <3>4. IovInHead'
      BY <1>1, <3>1, <3>3 DEF IovInHead
    <3>5. have_send' < HeadLength
      BY <1>1, <2>3
    <3> QED BY <2>2, <3>4, <3>5, Zenon
  <2>4. CASE have_send < HeadLength /\ ~(have_send + n < HeadLength)
    <3>1. IovInHead /\ have_send + n >= iov.len0
      BY <1>1, <2>1, <2>4, HttpConnAssumption DEF Sending, IovInHead
    <3>2. answer = "FILE_REQUEST"
      BY <1>1, <2>4, HttpConnAssumption DEF Sending, Total
    <3>3. iov.count = 2
      BY <3>1, <3>2 DEF IovInHead
    <3>4. /\ iov'.len0 = 0 /\ iov'.count = 2
          /\ iov'.base1 = have_send + n - HeadLength /\ iov'.len1 = to_send - n
      BY <1>1, <1>3, <3>1, <3>3, RestType DEF WriterInv
    <3>5. IovInFile'
      BY <1>1, <3>4, HttpConnAssumption DEF IovInFile
    <3>6. ~(have_send' < HeadLength)
      BY <1>1, <2>4
    <3> QED BY <2>2, <3>5, <3>6, Zenon
  <2>5. CASE ~(have_send < HeadLength)
    <3>1. IovInFile /\ have_send + n >= iov.len0
      BY <1>1, <2>1, <2>5, HttpConnAssumption DEF Sending, IovInFile
    <3>2. iov.count = 2
      BY <3>1 DEF IovInFile
    <3>3. /\ iov'.len0 = 0 /\ iov'.count = 2
          /\ iov'.base1 = have_send + n - HeadLength /\ iov'.len1 = to_send - n
      BY <1>1, <1>3, <3>1, <3>2, RestType DEF WriterInv
    <3>4. ~(have_send' < HeadLength)
      BY <1>1, <2>5, HttpConnAssumption
    <3>5. IovInFile'
      BY <1>1, <3>3, HttpConnAssumption DEF IovInFile
    <3> QED BY <2>2, <3>4, <3>5, Zenon
  <2> QED BY <2>2, <2>3, <2>4, <2>5
<1>6. have_send' \in Nat /\ to_send' \in Nat
  BY <1>1
<1> QED BY <1>1, <1>3, <1>4, <1>5, <1>6 DEF WriterInv, Sending

LEMMA WriterEnd == ASSUME WriterInv, WriteEnd PROVE WriterInv'
<1>1. /\ phase = "out" /\ have_send \in Nat /\ to_send \in Nat
      /\ iov.base0 \in Int /\ iov.base1 \in Int /\ iov.len0 \in Int /\ iov.len1 \in Int
      /\ iov.count \in 0..2
  BY DEF WriterInv, WriteEnd, Iovs
<1>2. iov' \in Iovs
  BY <1>1, RestType DEF WriteEnd, WriterInv
<1> QED BY <1>1, <1>2 DEF WriteEnd, Cleared, WriterInv, Idle

\* A step that leaves alone what is being written.
LEMMA WriterQuiet ==
    ASSUME WriterInv, UNCHANGED <<received, writer>>,
           phase' \in {"in", "process", "out", "spin", "closed"},
           phase' \in {"in", "process"} => phase \in {"in", "process"},
           phase' = "out" => phase = "out" /\ UNCHANGED odd
    PROVE  WriterInv'
BY DEF WriterInv, writer, Idle, Sending, Total, IovInHead, IovInFile

LEMMA WriterQuietAsk ==
    ASSUME WriterInv, NEW r \in Requests, Ask(r)
    PROVE  WriterInv'
<1>1. "cut" \notin odd' => "cut" \notin odd
  BY DEF Ask
<1>2. /\ UNCHANGED <<received, phase, have_send, to_send, iov, answer>>
  BY DEF Ask, writer
<1> QED BY <1>1, <1>2 DEF WriterInv, Idle, Sending, Total, IovInHead, IovInFile

LEMMA WriterNext == WriterInv /\ [Next]_vars => WriterInv'
<1> SUFFICES ASSUME WriterInv, [Next]_vars PROVE WriterInv'
  OBVIOUS
<1>1. CASE \E r \in Requests : Ask(r)
  BY <1>1, WriterQuietAsk
<1>2. CASE Read
  BY <1>2, WriterQuiet DEF Read, ReadConn
<1>3. CASE RequestLine \/ Header \/ LineInBody \/ NoRequest
  BY <1>3, WriterQuiet DEF RequestLine, Header, LineInBody, NoRequest, LineRead, client, WriterInv
<1>4. CASE BadRequestLine
  BY <1>4, WriterPrepared DEF BadRequestLine, LineRead, client
<1>5. CASE HeaderEnd
  <2>1. CASE content_len # 0
    BY <1>5, <2>1, WriterQuiet DEF HeaderEnd, LineRead, client, WriterInv
  <2>2. CASE content_len = 0
    BY <1>5, <2>2, WriterPrepared DEF HeaderEnd, LineRead, client
  <2> QED BY <2>1, <2>2
<1>6. CASE Content
  <2>1. CASE ParseContent
    BY <1>6, <2>1, WriterPrepared DEF Content, client
  <2>2. CASE ~ParseContent
    BY <1>6, <2>2, WriterQuiet DEF Content, client, WriterInv
  <2> QED BY <2>1, <2>2
<1>7. CASE WriteEnd
  BY <1>7, WriterEnd
<1>8. CASE \E n \in 1..to_send : WritePart(n)
  BY <1>8, WriterPart
<1>9. CASE Spin \/ WriteFails
  BY <1>9, WriterQuiet DEF Spin, WriteFails, client
<1>10. CASE UNCHANGED vars
  BY <1>10, WriterQuiet DEF vars, client, WriterInv
<1> QED
  BY <1>1, <1>2, <1>3, <1>4, <1>5, <1>6, <1>7, <1>8, <1>9, <1>10
     DEF Next, Process, Write

(* What the client has got of an answer is a beginning of it and the iovec   *)
(* holds exactly the rest, for any lengths of head and file and however the  *)
(* kernel cuts them, as long as no answer is cut twice within its head       *)
(* (write_conn, http_conn.h:170-229).                                        *)
THEOREM Written == Spec => []WrittenInOrder
<1>1. ASSUME WriterInv, phase = "out", "cut" \notin odd
      PROVE  /\ IsPrefix(received, WholeAnswer)
             /\ InIov = to_send
             /\ received \o Gathered(InIov) = WholeAnswer
  <2> DEFINE s == [k \in 1..have_send |-> Piece(k)]
             w == [k \in 1..(have_send + to_send) |-> Piece(k)]
  <2>1. /\ have_send \in Nat /\ to_send \in Nat
        /\ received = s /\ WholeAnswer = w
    BY <1>1, WholeAnswerIs DEF WriterInv, Sending
  <2>2. /\ InIov = to_send
        /\ Gathered(to_send) \in Seq(Pieces) /\ Len(Gathered(to_send)) = to_send
        /\ \A i \in 1..to_send : Gathered(to_send)[i] = Piece(have_send + i)
    BY <1>1, <2>1, GatheredIs
  <2>3. s \o Gathered(to_send) = w
    BY <2>1, <2>2, JoinPieces
  <2>4. /\ s \in Seq(Pieces) /\ Len(s) = have_send
        /\ w \in Seq(Pieces) /\ Len(w) = have_send + to_send
    BY <2>1, PieceType
  <2>5. \A i \in 1..have_send : s[i] = Piece(i) /\ w[i] = Piece(i)
    BY <2>1
  <2> HIDE DEF s, w
  <2>6. IsPrefix(s, w)
    <3>1. /\ SubSeq(s, 1, Len(s)) \in Seq(Pieces) /\ Len(SubSeq(s, 1, Len(s))) = have_send
          /\ SubSeq(w, 1, Len(s)) \in Seq(Pieces) /\ Len(SubSeq(w, 1, Len(s))) = have_send
          /\ \A i \in 1..have_send : /\ SubSeq(s, 1, Len(s))[i] = s[i]
                                     /\ SubSeq(w, 1, Len(s))[i] = w[i]
      BY <2>1, <2>4
    <3>2. SubSeq(s, 1, Len(s)) = SubSeq(w, 1, Len(s))
      BY <2>5, <3>1, SeqEqual
    <3> QED BY <2>1, <2>4, <3>2 DEF IsPrefix
  <2> QED BY <2>1, <2>2, <2>3, <2>6
<1>2. WriterInv => WrittenInOrder
  BY <1>1 DEF WrittenInOrder
<1> QED BY <1>2, WriterInit, WriterNext, PTL DEF Spec

-----------------------------------------------------------------------------
(* Taking turns.                                                           *)

\* A step that leaves the turn, and whether there is an answer, alone.
LEMMA TurnsStutter ==
    ASSUME Turn' = Turn, UNCHANGED to_send
    PROVE  UNCHANGED <<[c \in {1} |-> Turn], {c \in {1} : to_send > 0}>>
OBVIOUS

LEMMA TurnsTurned ==
    ASSUME NEW from, NEW to, Turn = from, Turn' = to
    PROVE  Turns!Turned(1, from, to)
BY DEF Turns!Turned

LEMMA TurnsPrepared ==
    ASSUME WriterInv, phase = "process", NEW code, ProcessWrite(code)
    PROVE  Turns!Prepares(1)
<1>1. to_send = 0 /\ to_send' > 0
  BY HttpConnAssumption DEF WriterInv, Idle, ProcessWrite
<1>2. Turn = "work" /\ Turn' = "out"
  BY DEF Turn, ProcessWrite
<1>3. Turns!Turned(1, "work", "out")
  BY <1>2, TurnsTurned
<1>4. {c \in {1} : to_send > 0} = {} /\ {c \in {1} : to_send > 0}' = {1}
  BY <1>1
<1> QED BY <1>3, <1>4 DEF Turns!Prepares

LEMMA TurnsRead ==
    ASSUME WriterInv, Read
    PROVE  Turns!IsRead(1) \/ Turns!Closes(1)
<1>1. /\ phase = "in" /\ phase' \in {"process", "closed"} /\ to_send' = to_send /\ to_send = 0
  BY DEF Read, ReadConn, writer, WriterInv, Idle
<1>2. {c \in {1} : to_send > 0} = {} /\ {c \in {1} : to_send > 0}' = {}
  BY <1>1
<1>3. CASE phase' = "process"
  <2>1. Turn = "in" /\ Turn' = "work"
    BY <1>1, <1>3 DEF Turn
  <2>2. Turns!Turned(1, "in", "work")
    BY <2>1, TurnsTurned
  <2> QED BY <1>2, <2>2 DEF Turns!IsRead
<1>4. CASE phase' = "closed"
  <2>1. Turn = "in" /\ Turn' = "closed"
    BY <1>1, <1>4 DEF Turn
  <2>2. Turns!Turned(1, "in", "closed")
    BY <2>1, TurnsTurned
  <2> QED BY <1>2, <2>2 DEF Turns!Closes
<1> QED BY <1>1, <1>3, <1>4

LEMMA TurnsAsked ==
    ASSUME WriterInv, NoRequest
    PROVE  Turns!AsksForMore(1)
<1>1. phase = "process" /\ phase' = "in" /\ to_send' = to_send /\ to_send = 0
  BY DEF NoRequest, writer, WriterInv, Idle
<1>2. {c \in {1} : to_send > 0} = {} /\ {c \in {1} : to_send > 0}' = {}
  BY <1>1
<1>3. Turn = "work" /\ Turn' = "in"
  BY <1>1 DEF Turn
<1>4. Turns!Turned(1, "work", "in")
  BY <1>3, TurnsTurned
<1> QED BY <1>2, <1>4 DEF Turns!AsksForMore

LEMMA TurnsEnded ==
    ASSUME WriterInv, WriteEnd
    PROVE  Turns!Written(1) \/ Turns!Closes(1)
<1>1. phase = "out" /\ phase' \in {"in", "closed"} /\ to_send > 0 /\ to_send' = 0
  BY DEF WriteEnd, WriterInv, Sending, Cleared
<1>2. {c \in {1} : to_send > 0} = {1} /\ {c \in {1} : to_send > 0}' = {}
  BY <1>1
<1>3. CASE phase' = "in"
  <2>1. Turn = "out" /\ Turn' = "in"
    BY <1>1, <1>3 DEF Turn
  <2>2. Turns!Turned(1, "out", "in")
    BY <2>1, TurnsTurned
  <2> QED BY <1>2, <2>2 DEF Turns!Written
<1>4. CASE phase' = "closed"
  <2>1. Turn = "out" /\ Turn' = "closed"
    BY <1>1, <1>4 DEF Turn
  <2>2. Turns!Turned(1, "out", "closed")
    BY <2>1, TurnsTurned
  <2> QED BY <1>2, <2>2 DEF Turns!Closes
<1> QED BY <1>1, <1>3, <1>4

LEMMA TurnsFailed ==
    ASSUME WriteFails
    PROVE  Turns!Closes(1)
<1>1. phase = "out" /\ phase' = "closed" /\ to_send' = to_send
  BY DEF WriteFails, writer
<1>2. Turn = "out" /\ Turn' = "closed"
  BY <1>1 DEF Turn
<1>3. Turns!Turned(1, "out", "closed")
  BY <1>2, TurnsTurned
<1>4. {c \in {1} : to_send > 0}' = {c \in {1} : to_send > 0}
  BY <1>1
<1> QED BY <1>3, <1>4 DEF Turns!Closes

LEMMA TurnsNext ==
    WriterInv /\ [Next]_vars
        => [Turns!Next]_<<[c \in {1} |-> Turn], {c \in {1} : to_send > 0}>>
<1> SUFFICES ASSUME WriterInv, [Next]_vars
             PROVE  \/ Turns!Next
                    \/ UNCHANGED <<[c \in {1} |-> Turn], {c \in {1} : to_send > 0}>>
  OBVIOUS
<1>0. ASSUME \/ Turns!IsRead(1) \/ Turns!AsksForMore(1) \/ Turns!Prepares(1)
             \/ Turns!Written(1) \/ Turns!Closes(1)
      PROVE  Turns!Next
  BY <1>0 DEF Turns!Next
<1>1. CASE (\E r \in Requests : Ask(r)) \/ RequestLine \/ Header \/ LineInBody \/ UNCHANGED vars
  <2>1. phase' = phase /\ to_send' = to_send
    BY <1>1 DEF Ask, RequestLine, Header, LineInBody, LineRead, vars, writer
  <2> QED BY <2>1, TurnsStutter DEF Turn
<1>2. CASE Read
  BY <1>0, <1>2, TurnsRead
<1>3. CASE BadRequestLine
  BY <1>0, <1>3, TurnsPrepared DEF BadRequestLine, LineRead
<1>4. CASE HeaderEnd
  <2>1. CASE content_len # 0
    <3>1. phase' = phase /\ to_send' = to_send
      BY <1>4, <2>1 DEF HeaderEnd, writer
    <3> QED BY <3>1, TurnsStutter DEF Turn
  <2>2. CASE content_len = 0
    BY <1>0, <1>4, <2>2, TurnsPrepared DEF HeaderEnd, LineRead
  <2> QED BY <2>1, <2>2
<1>5. CASE Content
  <2>1. CASE ParseContent
    BY <1>0, <1>5, <2>1, TurnsPrepared DEF Content
  <2>2. CASE ~ParseContent
    <3>1. phase' = phase /\ to_send' = to_send
      BY <1>5, <2>2 DEF Content, writer
    <3> QED BY <3>1, TurnsStutter DEF Turn
  <2> QED BY <2>1, <2>2
<1>6. CASE NoRequest
  BY <1>0, <1>6, TurnsAsked
<1>7. CASE WriteEnd
  BY <1>0, <1>7, TurnsEnded
<1>8. CASE \E n \in 1..to_send : WritePart(n)
  <2>1. PICK n \in 1..to_send : WritePart(n)
    BY <1>8
  <2>2. Turn' = Turn
    BY <2>1 DEF WritePart, Turn
  <2>3. to_send > 0 /\ to_send' > 0
    BY <2>1 DEF WritePart, WriterInv
  <2>4. {c \in {1} : to_send > 0}' = {c \in {1} : to_send > 0}
    BY <2>3
  <2> QED BY <2>2, <2>4
<1>9. CASE Spin
  <2>1. phase = "out" /\ phase' = "spin" /\ to_send' = to_send
    BY <1>9 DEF Spin, writer
  <2> QED BY <2>1, TurnsStutter DEF Turn
<1>10. CASE WriteFails
  BY <1>0, <1>10, TurnsFailed
<1> QED
  BY <1>1, <1>2, <1>3, <1>4, <1>5, <1>6, <1>7, <1>8, <1>9, <1>10 DEF Next, Process, Write

(* The connection takes its turns as ConnTurns says, byte by byte: process() *)
(* never has an answer left when it is given input, prepares one answer or   *)
(* asks for more, and write_conn returns to reading, or has the connection   *)
(* closed, only when the answer has been written or a write has failed       *)
(* (http_conn.h:170-229, 697-720).                                           *)
THEOREM TurnsTaken == Spec => TakesTurns
<1>1. Init => Turns!Init
  BY DEF Init, Turns!Init, Turn
<1> QED BY <1>1, WriterInit, WriterNext, TurnsNext, PTL DEF Spec, TakesTurns, Turns!Spec

-----------------------------------------------------------------------------
(* The text of a request.                                                  *)

Marks == {"CR", "LF"}
Names == Marks \cup {"b", "keep-alive", "content-length"}
Letters == Targets \cup {"junk"} \cup Names
Texts == UNION {Range(Bytes(r)) : r \in Requests}

\* Lines before the empty one.
Lines(r) == 1 + (IF r.keep THEN 1 ELSE 0) + (IF r.body THEN 1 ELSE 0)

LEMMA Grow ==
    ASSUME NEW s \in Seq(Letters), NEW t \in Seq(Names)
    PROVE  /\ s \o t \in Seq(Letters)
           /\ Len(s \o t) = Len(s) + Len(t)
           /\ \A i \in 1..Len(s) : (s \o t)[i] = s[i]
           /\ \A i \in 1..Len(t) : (s \o t)[Len(s) + i] = t[i]
<1>1. t \in Seq(Letters)
  <2>1. Names \subseteq Letters
    BY DEF Letters
  <2>2. Len(t) \in Nat /\ \A i \in 1..Len(t) : t[i] \in Letters
    BY <2>1, ElementOfSeq
  <2>3. t \in [1..Len(t) -> Names]
    BY LenProperties
  <2>4. t \in [1..Len(t) -> Letters]
    BY <2>2, <2>3
  <2> QED BY <2>2, <2>4
<1>2. /\ s \o t \in Seq(Letters)
      /\ Len(s \o t) = Len(s) + Len(t)
      /\ \A i \in 1 .. Len(s) + Len(t) : (s \o t)[i] = IF i <= Len(s) THEN s[i] ELSE t[i - Len(s)]
  BY <1>1, ConcatProperties
<1>3. ASSUME NEW i \in 1..Len(t) PROVE (s \o t)[Len(s) + i] = t[i]
  <2>1. Len(s) \in Nat /\ Len(t) \in Nat
    OBVIOUS
  <2>2. PICK j \in 1..(Len(s) + Len(t)) : j = Len(s) + i
    BY <2>1
  <2>3. ~(j <= Len(s)) /\ j - Len(s) = i
    BY <2>1, <2>2
  <2>4. (s \o t)[j] = t[j - Len(s)]
    BY <1>2, <2>3
  <2> QED BY <2>2, <2>3, <2>4, Zenon
<1>4. ASSUME NEW i \in 1..Len(s) PROVE (s \o t)[i] = s[i]
  BY <1>2
<1> QED BY <1>2, <1>3, <1>4

\* A line with its end.
LEMMA EndedLine ==
    ASSUME NEW w \in Letters, NEW r \in RequestType
    PROVE  /\ <<w>> \o Eol(r) \in Seq(Letters)
           /\ (<<w>> \o Eol(r))[1] = w
           /\ w \in Names => <<w>> \o Eol(r) \in Seq(Names)
           /\ r.ends = "CRLF" => /\ Eol(r) = <<"CR", "LF">> /\ Len(<<w>> \o Eol(r)) = 3
                               /\ (<<w>> \o Eol(r))[2] = "CR" /\ (<<w>> \o Eol(r))[3] = "LF"
           /\ r.ends # "CRLF" => /\ Eol(r) = <<"LF">> /\ Len(<<w>> \o Eol(r)) = 2
                               /\ (<<w>> \o Eol(r))[2] = "LF"
<1>1. <<w>> \in Seq(Letters) /\ Len(<<w>>) = 1 /\ <<w>>[1] = w
  OBVIOUS
<1>2. Eol(r) \in Seq(Names)
  <2>1. "CR" \in Names /\ "LF" \in Names
    BY DEF Names, Marks
  <2>2. <<"CR", "LF">> \in Seq(Names) /\ <<"LF">> \in Seq(Names)
    BY <2>1
  <2> QED BY <2>2, Zenon DEF Eol
<1>3. w \in Names => <<w>> \o Eol(r) \in Seq(Names)
  <2> SUFFICES ASSUME w \in Names PROVE <<w>> \o Eol(r) \in Seq(Names)
    OBVIOUS
  <2>1. <<w>> \in Seq(Names)
    OBVIOUS
  <2> QED BY <1>2, <2>1, ConcatProperties
<1>4. CASE r.ends = "CRLF"
  <2>1. Eol(r) = <<"CR", "LF">> /\ Len(Eol(r)) = 2 /\ Eol(r)[1] = "CR" /\ Eol(r)[2] = "LF"
    BY <1>4 DEF Eol
  <2> DEFINE e == Eol(r)
             c == <<w>> \o e
  <2>2. /\ c \in Seq(Letters) /\ Len(c) = 1 + Len(e)
        /\ \A i \in 1..1 : c[i] = <<w>>[i]
        /\ \A i \in 1..Len(e) : c[1 + i] = e[i]
    BY <1>1, <1>2, Grow
  <2>3. c[1] = w /\ c[1 + 1] = "CR" /\ c[1 + 2] = "LF" /\ Len(c) = 3
    BY <1>1, <2>1, <2>2
  <2> QED BY <1>3, <1>4, <2>1, <2>2, <2>3
<1>5. CASE r.ends # "CRLF"
  <2>1. Eol(r) = <<"LF">> /\ Len(Eol(r)) = 1 /\ Eol(r)[1] = "LF"
    BY <1>5 DEF Eol
  <2> DEFINE e == Eol(r)
             c == <<w>> \o e
  <2>2. /\ c \in Seq(Letters) /\ Len(c) = 1 + Len(e)
        /\ \A i \in 1..1 : c[i] = <<w>>[i]
        /\ \A i \in 1..Len(e) : c[1 + i] = e[i]
    BY <1>1, <1>2, Grow
  <2>3. c[1] = w /\ c[1 + 1] = "LF" /\ Len(c) = 2
    BY <1>1, <2>1, <2>2
  <2> QED BY <1>3, <1>5, <2>1, <2>2, <2>3
<1> QED BY <1>4, <1>5

\* Only the first element is the text of a request line.
OneLine(s) == Len(s) >= 2 /\ \A i \in 2..Len(s) : s[i] \in Names

LEMMA GrowOneLine ==
    ASSUME NEW s \in Seq(Letters), OneLine(s), NEW t \in Seq(Names)
    PROVE  OneLine(s \o t)
<1> DEFINE c == s \o t
<1>1. /\ Len(c) = Len(s) + Len(t) /\ Len(s) \in Nat /\ Len(t) \in Nat
      /\ \A i \in 1..Len(s) : c[i] = s[i]
      /\ \A i \in 1..Len(t) : c[Len(s) + i] = t[i]
  BY Grow
<1> HIDE DEF c
<1>2. ASSUME NEW i \in 2..Len(c) PROVE c[i] \in Names
  <2>1. CASE i <= Len(s)
    BY <1>1, <2>1 DEF OneLine
  <2>2. CASE ~(i <= Len(s))
    <3>1. PICK j \in 1..Len(t) : i = Len(s) + j
      <4>1. i - Len(s) \in 1..Len(t) /\ i = Len(s) + (i - Len(s))
        BY <1>1, <2>2
      <4> QED BY <4>1
    <3>2. c[i] = t[j]
      BY <1>1, <3>1
    <3> QED BY <3>2
  <2> QED BY <2>1, <2>2
<1>3. OneLine(c)
  BY <1>1, <1>2 DEF OneLine
<1> QED BY <1>3 DEF c

\* Where the lines of a request are.
LEMMA BytesAre ==
    ASSUME NEW r \in RequestType
    PROVE  /\ Bytes(r) \in Seq(Letters) /\ OneLine(Bytes(r)) /\ Bytes(r)[1] = r.line
           /\ r.ends # "CRLF" => Bytes(r)[2] = "LF"
           /\ r.ends = "CRLF" =>
                /\ Len(Bytes(r)) = 3 * Lines(r) + 2 + (IF r.body THEN Len(Body) ELSE 0)
                /\ Bytes(r)[2] = "CR" /\ Bytes(r)[3] = "LF"
                /\ r.keep => Bytes(r)[4] = "keep-alive" /\ Bytes(r)[5] = "CR" /\ Bytes(r)[6] = "LF"
                /\ r.body => /\ Bytes(r)[3 * Lines(r) - 2] = "content-length"
                             /\ Bytes(r)[3 * Lines(r) - 1] = "CR"
                             /\ Bytes(r)[3 * Lines(r)] = "LF"
                /\ Bytes(r)[3 * Lines(r) + 1] = "CR" /\ Bytes(r)[3 * Lines(r) + 2] = "LF"
<1> DEFINE e == Eol(r)
           s1 == <<r.line>> \o e
           k == IF r.keep THEN <<"keep-alive">> \o e ELSE <<>>
           s2 == s1 \o k
           c == IF r.body THEN <<"content-length">> \o e ELSE <<>>
           s3 == s2 \o c
           s4 == s3 \o e
           b == IF r.body THEN Body ELSE <<>>
           s5 == s4 \o b
<1>1. Bytes(r) = s5
  BY DEF Bytes
<1>2. /\ r.line \in Letters /\ r.keep \in BOOLEAN /\ r.body \in BOOLEAN
      /\ "keep-alive" \in Names /\ "content-length" \in Names /\ Names \subseteq Letters
  BY DEF RequestType, Letters, Names
<1>3. e \in Seq(Names) /\ Len(e) \in {1, 2}
  <2>1. "CR" \in Names /\ "LF" \in Names
    BY DEF Names, Marks
  <2>2. <<"CR", "LF">> \in Seq(Names) /\ <<"LF">> \in Seq(Names)
    BY <2>1
  <2> QED BY <2>2 DEF Eol
<1>4. /\ s1 \in Seq(Letters) /\ s1[1] = r.line
      /\ r.ends = "CRLF" => Len(s1) = 3 /\ s1[2] = "CR" /\ s1[3] = "LF"
      /\ r.ends # "CRLF" => Len(s1) = 2 /\ s1[2] = "LF"
  BY <1>2, EndedLine
<1>5. OneLine(s1)
  BY <1>4 DEF OneLine, Names, Marks
<1>6. /\ k \in Seq(Names)
      /\ ~r.keep => Len(k) = 0
      /\ r.keep /\ r.ends = "CRLF" =>
            Len(k) = 3 /\ k[1] = "keep-alive" /\ k[2] = "CR" /\ k[3] = "LF"
  BY <1>2, EndedLine
<1>7. /\ c \in Seq(Names)
      /\ ~r.body => Len(c) = 0
      /\ r.body /\ r.ends = "CRLF" =>
            Len(c) = 3 /\ c[1] = "content-length" /\ c[2] = "CR" /\ c[3] = "LF"
  BY <1>2, EndedLine
<1>8. /\ b \in Seq(Names)
      /\ Len(b) = IF r.body THEN Len(Body) ELSE 0
  <2>1. Body \in Seq(Names)
    <3>1. {"CR", "LF", "b"} \subseteq Names
      BY DEF Names, Marks
    <3> QED BY <3>1, HttpConnAssumption, SeqMonotonic
  <2> QED BY <2>1
<1>9. r.ends = "CRLF" => Len(e) = 2 /\ e[1] = "CR" /\ e[2] = "LF"
  BY DEF Eol
<1> HIDE DEF e, s1, k, s2, c, s3, s4, b, s5
<1>10. /\ s2 \in Seq(Letters) /\ OneLine(s2) /\ Len(s2) = Len(s1) + Len(k)
       /\ \A i \in 1..Len(s1) : s2[i] = s1[i]
       /\ \A i \in 1..Len(k) : s2[Len(s1) + i] = k[i]
  BY <1>4, <1>5, <1>6, Grow, GrowOneLine DEF s2
<1>11. /\ s3 \in Seq(Letters) /\ OneLine(s3) /\ Len(s3) = Len(s2) + Len(c)
       /\ \A i \in 1..Len(s2) : s3[i] = s2[i]
       /\ \A i \in 1..Len(c) : s3[Len(s2) + i] = c[i]
  BY <1>7, <1>10, Grow, GrowOneLine DEF s3
<1>12. /\ s4 \in Seq(Letters) /\ OneLine(s4) /\ Len(s4) = Len(s3) + Len(e)
       /\ \A i \in 1..Len(s3) : s4[i] = s3[i]
       /\ \A i \in 1..Len(e) : s4[Len(s3) + i] = e[i]
  BY <1>3, <1>11, Grow, GrowOneLine DEF s4
<1>13. /\ s5 \in Seq(Letters) /\ OneLine(s5) /\ Len(s5) = Len(s4) + Len(b)
       /\ \A i \in 1..Len(s4) : s5[i] = s4[i]
  BY <1>8, <1>12, Grow, GrowOneLine DEF s5
<1>14. /\ Len(s1) \in Nat /\ Len(s2) \in Nat /\ Len(s3) \in Nat /\ Len(s4) \in Nat
       /\ Len(s1) <= Len(s2) /\ Len(s2) <= Len(s3) /\ Len(s3) <= Len(s4)
  <2>1. /\ Len(s1) \in Nat /\ Len(s2) \in Nat /\ Len(s3) \in Nat /\ Len(s4) \in Nat
        /\ Len(k) \in Nat /\ Len(c) \in Nat /\ Len(e) \in Nat
    BY <1>3, <1>4, <1>6, <1>7, <1>10, <1>11, <1>12
  <2>2. Len(s2) = Len(s1) + Len(k) /\ Len(s3) = Len(s2) + Len(c) /\ Len(s4) = Len(s3) + Len(e)
    BY <1>10, <1>11, <1>12
  <2> QED BY <2>1, <2>2
<1>15. ASSUME NEW i \in 1..Len(s3) PROVE s5[i] = s3[i]
  <2>1. i \in 1..Len(s4)
    BY <1>14
  <2>2. s5[i] = s4[i]
    BY <1>13, <2>1, Zenon
  <2>3. s4[i] = s3[i]
    BY <1>12, Zenon
  <2> QED BY <2>2, <2>3
<1>16. ASSUME NEW i \in 1..Len(s2) PROVE s5[i] = s2[i]
  <2>1. i \in 1..Len(s3)
    BY <1>14
  <2>2. s5[i] = s3[i]
    BY <1>15, <2>1, Zenon
  <2>3. s3[i] = s2[i]
    BY <1>11, Zenon
  <2> QED BY <2>2, <2>3
<1>17. ASSUME NEW i \in 1..Len(s1) PROVE i \in 1..Len(s4) /\ s5[i] = s1[i]
  <2>1. i \in 1..Len(s2) /\ i \in 1..Len(s4)
    BY <1>14
  <2>2. s5[i] = s2[i]
    BY <1>16, <2>1, Zenon
  <2>3. s2[i] = s1[i]
    BY <1>10, Zenon
  <2> QED BY <2>1, <2>2, <2>3
<1>18. s5[1] = r.line /\ (r.ends # "CRLF" => s5[2] = "LF")
  BY <1>4, <1>17 DEF RequestType
<1>19. ASSUME r.ends = "CRLF"
       PROVE  /\ s5[2] = "CR" /\ s5[3] = "LF"
              /\ Len(s2) = IF r.keep THEN 6 ELSE 3
              /\ Len(s3) = 3 * Lines(r)
              /\ Len(s4) = 3 * Lines(r) + 2
  <2>1. Len(s1) = 3 /\ s1[2] = "CR" /\ s1[3] = "LF" /\ Len(e) = 2
    BY <1>4, <1>9, <1>19
  <2>2. Len(k) = (IF r.keep THEN 3 ELSE 0) /\ Len(c) = (IF r.body THEN 3 ELSE 0)
    BY <1>6, <1>7, <1>19
  <2>3. Len(s2) = 3 + Len(k) /\ Len(s3) = Len(s2) + Len(c) /\ Len(s4) = Len(s3) + 2
    BY <1>10, <1>11, <1>12, <2>1
  <2>4. Len(s2) = IF r.keep THEN 6 ELSE 3
    BY <2>2, <2>3
  <2>5. Len(s3) = 3 * Lines(r)
    BY <2>2, <2>3 DEF Lines
  <2>6. s5[2] = s1[2] /\ s5[3] = s1[3]
    BY <1>17, <2>1
  <2> QED BY <2>1, <2>3, <2>4, <2>5, <2>6
<1>20. ASSUME r.ends = "CRLF", r.keep
       PROVE  s5[4] = "keep-alive" /\ s5[5] = "CR" /\ s5[6] = "LF"
  <2>1. s2[3 + 1] = k[1] /\ s2[3 + 2] = k[2] /\ s2[3 + 3] = k[3]
    <3>1. Len(s1) = 3 /\ Len(k) = 3
      BY <1>4, <1>6, <1>20
    <3>2. \A i \in 1..3 : s2[3 + i] = k[i]
      BY <1>10, <3>1
    <3> QED BY <3>2
  <2>2. \A i \in 4..6 : s5[i] = s2[i]
    <3>1. Len(s2) = 6
      BY <1>19, <1>20
    <3> QED BY <1>16, <3>1
  <2> QED BY <1>6, <1>20, <2>1, <2>2
<1>21. ASSUME r.ends = "CRLF", r.body
       PROVE  s5[3 * Lines(r) - 2] = "content-length" /\ s5[3 * Lines(r) - 1] = "CR" /\ s5[3 * Lines(r)] = "LF"
  <2>1. Len(s2) = 3 * Lines(r) - 3 /\ Len(s3) = 3 * Lines(r) /\ Lines(r) \in Nat
    <3>1. Len(s2) = (IF r.keep THEN 6 ELSE 3) /\ Len(s3) = 3 * Lines(r)
      BY <1>19, <1>21
    <3>2. Lines(r) = IF r.keep THEN 3 ELSE 2
      BY <1>21 DEF Lines
    <3> QED BY <3>1, <3>2
  <2>2. s3[Len(s2) + 1] = c[1] /\ s3[Len(s2) + 2] = c[2] /\ s3[Len(s2) + 3] = c[3]
    <3>1. Len(c) = 3
      BY <1>7, <1>21
    <3>2. \A i \in 1..3 : s3[Len(s2) + i] = c[i]
      BY <1>11, <3>1
    <3> QED BY <3>2
  <2>3. \A i \in 1..Len(s3) : s5[i] = s3[i]
    BY <1>15
  <2>4. 3 * Lines(r) - 2 = Len(s2) + 1 /\ 3 * Lines(r) - 1 = Len(s2) + 2 /\ 3 * Lines(r) = Len(s2) + 3
    BY <2>1
  <2>5. Len(s2) + 1 \in 1..Len(s3) /\ Len(s2) + 2 \in 1..Len(s3) /\ Len(s2) + 3 \in 1..Len(s3)
    BY <1>10, <2>1
  <2> QED BY <1>7, <1>21, <2>2, <2>3, <2>4, <2>5
<1>22. ASSUME r.ends = "CRLF"
       PROVE  s5[3 * Lines(r) + 1] = "CR" /\ s5[3 * Lines(r) + 2] = "LF"
  <2>1. Len(s3) = 3 * Lines(r) /\ Len(s4) = Len(s3) + 2 /\ Len(s3) \in Nat
    BY <1>9, <1>11, <1>12, <1>19, <1>22
  <2>2. s4[Len(s3) + 1] = "CR" /\ s4[Len(s3) + 2] = "LF"
    <3>1. Len(e) = 2 /\ e[1] = "CR" /\ e[2] = "LF"
      BY <1>9, <1>22
    <3>2. \A i \in 1..2 : s4[Len(s3) + i] = e[i]
      BY <1>12, <3>1
    <3> QED BY <3>1, <3>2
  <2>3. Len(s3) + 1 \in 1..Len(s4) /\ Len(s3) + 2 \in 1..Len(s4)
    BY <2>1
  <2> QED BY <1>13, <2>1, <2>2, <2>3
<1>23. r.ends = "CRLF" => Len(s5) = 3 * Lines(r) + 2 + (IF r.body THEN Len(Body) ELSE 0)
  BY <1>8, <1>13, <1>19
<1> QED BY <1>1, <1>13, <1>18, <1>19, <1>20, <1>21, <1>22, <1>23

-----------------------------------------------------------------------------
(* parse_line.                                                             *)

\* The line that is being read has no end before checked_idx, and starts after
\* the end of the one before.
CleanLine ==
    /\ \A p \in (start_line + 1)..checked_idx : read_buf[p] \notin Marks
    /\ start_line > 0 => read_buf[start_line] = "LF"

IndicesOK ==
    /\ read_buf \in Seq(Texts)
    /\ checked_idx \in 0..Len(read_buf)
    /\ start_line \in 0..checked_idx

LEMMA MinIs ==
    ASSUME NEW S \in SUBSET Nat, S # {}
    PROVE  Min(S) \in S /\ \A y \in S : Min(S) <= y
<1> DEFINE R == OpToRel(<, Nat)
<1>1. IsWellFoundedOn(R, Nat)
  BY NatLessThanWellFounded
<1>2. PICK x \in S : \A y \in S : ~(<<y, x>> \in R)
  <2> HIDE DEF R
  <2> QED BY <1>1, WFMin
<1>3. \A y \in S : ~(y < x)
  BY <1>2 DEF OpToRel
<1>4. \A y \in S : x <= y
  BY <1>3
<1> QED BY <1>4 DEF Min

LEMMA ParseLineIs ==
    ASSUME IndicesOK
    PROVE  /\ ParseLine.checked \in checked_idx..Len(read_buf)
           /\ CleanLine /\ ParseLine.state # "OK" =>
                \A p \in (start_line + 1)..ParseLine.checked : read_buf[p] \notin Marks
           /\ CleanLine /\ ParseLine.state = "OK" =>
                \E c \in (start_line + 1)..(Len(read_buf) - 1) :
                    /\ read_buf[c] = "CR" /\ read_buf[c + 1] = "LF"
                    /\ \A p \in (start_line + 1)..(c - 1) : read_buf[p] \notin Marks
                    /\ ParseLine.checked = c + 1
                    /\ ParseLine.text = SubSeq(read_buf, start_line + 1, c - 1)
<1> DEFINE ends == {j \in (checked_idx + 1)..Len(read_buf) : read_buf[j] \in {"CR", "LF"}}
           i == Min(ends)
           stop(s, checked, last) == [state |-> s, checked |-> checked,
                                      text |-> SubSeq(read_buf, start_line + 1, last)]
           line == IF ends = {} THEN stop("OPEN", Len(read_buf), 0)
                   ELSE IF read_buf[i] = "CR"
                   THEN IF i = Len(read_buf) THEN stop("OPEN", i - 1, 0)
                        ELSE IF read_buf[i + 1] = "LF" THEN stop("OK", i + 1, i - 1)
                        ELSE stop("BAD", i - 1, 0)
                   ELSE IF i > 2 /\ read_buf[i - 1] = "CR" THEN stop("OK", i, i - 2)
                   ELSE stop("BAD", i - 1, 0)
<1>1. ParseLine = line
  BY DEF ParseLine
<1>2. /\ Len(read_buf) \in Nat /\ checked_idx \in Nat /\ start_line \in Nat
      /\ checked_idx <= Len(read_buf) /\ start_line <= checked_idx
  BY DEF IndicesOK
<1>3. ends \in SUBSET Nat
  BY <1>2
<1>4. ASSUME ends # {}
      PROVE  /\ i \in (checked_idx + 1)..Len(read_buf)
             /\ read_buf[i] \in {"CR", "LF"}
             /\ \A j \in (checked_idx + 1)..(i - 1) : read_buf[j] \notin Marks
  <2>1. i \in ends /\ \A y \in ends : i <= y
    BY <1>3, <1>4, MinIs
  <2>2. i \in (checked_idx + 1)..Len(read_buf) /\ read_buf[i] \in {"CR", "LF"}
    BY <2>1
  <2>3. ASSUME NEW j \in (checked_idx + 1)..(i - 1), read_buf[j] \in Marks PROVE FALSE
    <3>1. j \in (checked_idx + 1)..Len(read_buf) /\ ~(i <= j)
      BY <1>2, <2>2
    <3>2. j \in ends
      BY <2>3, <3>1 DEF Marks
    <3> QED BY <2>1, <3>1, <3>2
  <2> QED BY <2>2, <2>3
<1>5. ASSUME ends = {}
      PROVE  \A j \in (checked_idx + 1)..Len(read_buf) : read_buf[j] \notin Marks
  BY <1>5 DEF Marks
<1> HIDE DEF ends, i
<1>6. CASE ends = {}
  <2>1. ParseLine = stop("OPEN", Len(read_buf), 0)
    BY <1>1, <1>6
  <2>2. ParseLine.state = "OPEN" /\ ParseLine.checked = Len(read_buf)
    BY <2>1
  <2>3. CleanLine => \A p \in (start_line + 1)..Len(read_buf) : read_buf[p] \notin Marks
    BY <1>2, <1>5, <1>6 DEF CleanLine
  <2> QED BY <1>2, <2>2, <2>3
<1>7. ASSUME ends # {}, ParseLine.state # "OK", ParseLine.checked = i - 1
      PROVE  /\ ParseLine.checked \in checked_idx..Len(read_buf)
             /\ CleanLine => \A p \in (start_line + 1)..ParseLine.checked : read_buf[p] \notin Marks
  BY <1>2, <1>4, <1>7 DEF CleanLine
<1>8. CASE ends # {} /\ read_buf[i] = "CR" /\ (i = Len(read_buf) \/ read_buf[i + 1] # "LF")
  <2>1. ParseLine = stop("OPEN", i - 1, 0) \/ ParseLine = stop("BAD", i - 1, 0)
    BY <1>1, <1>8
  <2>2. ParseLine.state # "OK" /\ ParseLine.checked = i - 1
    BY <2>1
  <2> QED BY <1>7, <1>8, <2>2
<1>9. CASE ends # {} /\ read_buf[i] = "CR" /\ i # Len(read_buf) /\ read_buf[i + 1] = "LF"
  <2>1. ParseLine = stop("OK", i + 1, i - 1)
    BY <1>1, <1>9
  <2>2. /\ ParseLine.state = "OK" /\ ParseLine.checked = i + 1
        /\ ParseLine.text = SubSeq(read_buf, start_line + 1, i - 1)
    BY <2>1
  <2>3. i \in (start_line + 1)..(Len(read_buf) - 1) /\ i + 1 \in checked_idx..Len(read_buf)
    BY <1>2, <1>4, <1>9
  <2>4. CleanLine => \A p \in (start_line + 1)..(i - 1) : read_buf[p] \notin Marks
    BY <1>2, <1>4, <1>9 DEF CleanLine
  <2> QED BY <1>9, <2>2, <2>3, <2>4
<1>10. CASE ends # {} /\ read_buf[i] # "CR" /\ ~(i > 2 /\ read_buf[i - 1] = "CR")
  <2>1. ParseLine = stop("BAD", i - 1, 0)
    BY <1>1, <1>10
  <2>2. ParseLine.state # "OK" /\ ParseLine.checked = i - 1
    BY <2>1
  <2> QED BY <1>7, <1>10, <2>2
<1>11. CASE ends # {} /\ read_buf[i] # "CR" /\ i > 2 /\ read_buf[i - 1] = "CR"
  <2>1. ParseLine = stop("OK", i, i - 2)
    BY <1>1, <1>11
  <2>2. ParseLine.state = "OK" /\ ParseLine.checked = i
    BY <2>1
  <2>3. i \in checked_idx..Len(read_buf)
    BY <1>2, <1>4, <1>11
  <2>4. ASSUME CleanLine PROVE FALSE
    <3>1. i \in (checked_idx + 1)..Len(read_buf) /\ i - 1 \in Nat
      BY <1>2, <1>4, <1>11
    <3>2. CASE i - 1 > checked_idx
      <4>1. i - 1 \in (checked_idx + 1)..(i - 1)
        BY <1>2, <3>1, <3>2
      <4> QED BY <1>4, <1>11, <4>1 DEF Marks
    <3>3. CASE i - 1 = checked_idx /\ checked_idx > start_line
      <4>1. i - 1 \in (start_line + 1)..checked_idx
        BY <1>2, <3>3
      <4> QED BY <1>11, <2>4, <4>1 DEF CleanLine, Marks
    <3>4. CASE i - 1 = start_line
      <4>1. start_line > 0
        BY <1>2, <1>11, <3>1, <3>4
      <4> QED BY <1>11, <2>4, <3>4, <4>1 DEF CleanLine
    <3> QED BY <1>2, <3>1, <3>2, <3>3, <3>4
  <2> QED BY <2>2, <2>3, <2>4
<1> QED BY <1>6, <1>8, <1>9, <1>10, <1>11

-----------------------------------------------------------------------------
(* The stream of everything the client has sent.                           *)

\* Request k is what follows the first off[k] elements.
StreamOf(q, all, off) ==
    /\ all \in Seq(Texts)
    /\ off \in [1..(Len(q) + 1) -> Nat]
    /\ off[Len(q) + 1] = Len(all)
    /\ \A k \in 1..Len(q) : off[k + 1] = off[k] + Len(Bytes(q[k]))
    /\ \A k \in 1..Len(q) : \A i \in 1..Len(Bytes(q[k])) :
            all[off[k] + i] = Bytes(q[k])[i]
    /\ \A i, j \in 1..(Len(q) + 1) : i < j => off[i] < off[j]
    /\ \A p \in 1..Len(all) : \E k \in 1..Len(q) : off[k] < p /\ p <= off[k + 1]

\* What earlier answers have done away with; the buffer and what is unread follow.
Taken(all) == Len(all) - Len(read_buf) - Len(unread)

Held(all) ==
    /\ Taken(all) >= 0
    /\ \A i \in 1..Len(read_buf) : read_buf[i] = all[Taken(all) + i]
    /\ \A i \in 1..Len(unread) : unread[i] = all[Taken(all) + Len(read_buf) + i]

LEMMA BytesText ==
    ASSUME NEW r \in Requests
    PROVE  /\ r \in RequestType
           /\ Bytes(r) \in Seq(Texts)
           /\ Len(Bytes(r)) \in Nat /\ Len(Bytes(r)) >= 2
<1>1. r \in RequestType
  BY HttpConnAssumption
<1>2. Bytes(r) \in Seq(Letters) /\ Len(Bytes(r)) >= 2
  BY <1>1, BytesAre DEF OneLine
<1> DEFINE b == Bytes(r)
           N == Len(b)
<1>3. N \in Nat /\ b \in [1..N -> Letters]
  BY <1>2, LenProperties
<1>4. \A i \in 1..N : b[i] \in Range(b)
  BY <1>3 DEF Range
<1>5. Range(b) \subseteq Texts
  BY DEF Texts
<1> HIDE DEF b
<1>6. \A i \in 1..N : b[i] \in Texts
  BY <1>4, <1>5
<1>7. b \in [1..N -> Texts]
  BY <1>3, <1>6
<1>8. b \in Seq(Texts)
  BY <1>3, <1>7
<1> QED BY <1>1, <1>2, <1>8 DEF b

\* all is followed by b, and the first n + 1 offsets are the same.
Extends(all2, off2, all, off, b, n) ==
    /\ Len(all2) = Len(all) + Len(b)
    /\ \A i \in 1..Len(all) : all2[i] = all[i]
    /\ \A i \in 1..Len(b) : all2[Len(all) + i] = b[i]
    /\ \A k \in 1..(n + 1) : off2[k] = off[k]

\* A further request makes the stream longer.
LEMMA StreamAsk ==
    ASSUME NEW q \in Seq(Requests), NEW r \in Requests, NEW all, NEW off, StreamOf(q, all, off)
    PROVE  \E all2, off2 : /\ StreamOf(Append(q, r), all2, off2)
                           /\ Extends(all2, off2, all, off, Bytes(r), Len(q))
<1> DEFINE b == Bytes(r)
           n == Len(q)
           q2 == Append(q, r)
<1>0. PICK all2, off2 :
          /\ all2 = all \o b
          /\ off2 = [k \in 1..(n + 2) |-> IF k <= n + 1 THEN off[k] ELSE Len(all) + Len(b)]
  OBVIOUS
<1>1. b \in Seq(Texts) /\ Len(b) \in Nat /\ Len(b) >= 2
  BY BytesText
<1>2. /\ n \in Nat /\ Len(q2) = n + 1 /\ q2 \in Seq(Requests)
      /\ \A k \in 1..n : q2[k] = q[k]
      /\ q2[n + 1] = r
  OBVIOUS
<1>3. /\ all \in Seq(Texts) /\ Len(all) \in Nat
      /\ off \in [1..(n + 1) -> Nat] /\ off[n + 1] = Len(all)
      /\ n + 1 \in 1..(n + 1) /\ n + 2 \in 1..(n + 2) /\ (n + 1) + 1 = n + 2
  BY DEF StreamOf
<1>14. /\ \A k \in 1..n : off[k + 1] = off[k] + Len(Bytes(q[k]))
       /\ \A k \in 1..n : \A i \in 1..Len(Bytes(q[k])) : all[off[k] + i] = Bytes(q[k])[i]
       /\ \A i, j \in 1..(n + 1) : i < j => off[i] < off[j]
       /\ \A p \in 1..Len(all) : \E k \in 1..n : off[k] < p /\ p <= off[k + 1]
  BY DEF StreamOf
<1>4. /\ all2 \in Seq(Texts) /\ Len(all2) = Len(all) + Len(b)
      /\ \A i \in 1..(Len(all) + Len(b)) : all2[i] = IF i <= Len(all) THEN all[i] ELSE b[i - Len(all)]
  BY <1>0, <1>1, <1>3, ConcatProperties
<1>5. \A i \in 1..Len(all) : all2[i] = all[i]
  BY <1>1, <1>3, <1>4
<1>15. /\ \A k \in 1..(n + 1) : off2[k] = off[k]
       /\ off2[n + 2] = Len(all) + Len(b)
       /\ off2 \in [1..(n + 2) -> Nat]
  BY <1>0, <1>1, <1>2, <1>3
<1> HIDE DEF b, n, q2
<1>6. ASSUME NEW i \in 1..Len(b) PROVE all2[Len(all) + i] = b[i]
  <2>1. PICK j \in 1..(Len(all) + Len(b)) : j = Len(all) + i
    BY <1>1, <1>3
  <2>2. ~(j <= Len(all)) /\ j - Len(all) = i
    BY <1>3, <2>1
  <2>3. all2[j] = b[j - Len(all)]
    BY <1>4, <2>2
  <2> QED BY <2>1, <2>2, <2>3, Zenon
<1>17. ASSUME NEW i \in 1..(n + 1) PROVE off[i] \in Nat /\ off[i] <= off[n + 1]
  <2>1. off[i] \in Nat /\ off[n + 1] \in Nat
    BY <1>3
  <2>2. i = n + 1 \/ i < n + 1
    BY <1>2
  <2>3. i < n + 1 => off[i] < off[n + 1]
    BY <1>3, <1>14
  <2> QED BY <2>1, <2>2, <2>3
<1>8. ASSUME NEW k \in 1..(n + 1) PROVE off2[k + 1] = off2[k] + Len(Bytes(q2[k]))
  <2>1. CASE k = n + 1
    <3>1. off2[k + 1] = Len(all) + Len(b) /\ off2[k] = Len(all)
      BY <1>2, <1>3, <1>15, <2>1
    <3> QED BY <1>2, <2>1, <3>1 DEF b
  <2>2. CASE k \in 1..n
    <3>1. off[k + 1] = off[k] + Len(Bytes(q[k]))
      BY <1>14, <2>2
    <3>2. off2[k + 1] = off[k + 1] /\ off2[k] = off[k]
      BY <1>2, <1>15, <2>2
    <3> QED BY <1>2, <2>2, <3>1, <3>2
  <2> QED BY <1>2, <2>1, <2>2
<1>9. ASSUME NEW k \in 1..(n + 1), NEW i \in 1..Len(Bytes(q2[k]))
      PROVE  all2[off2[k] + i] = Bytes(q2[k])[i]
  <2>1. CASE k = n + 1
    <3>1. off2[k] = Len(all) /\ q2[k] = r
      BY <1>2, <1>3, <1>15, <2>1
    <3> QED BY <1>6, <3>1 DEF b
  <2>2. CASE k \in 1..n
    <3>1. q2[k] = q[k] /\ q[k] \in Requests /\ off2[k] = off[k]
      BY <1>2, <1>15, <2>2
    <3>2. all[off[k] + i] = Bytes(q[k])[i] /\ off[k + 1] = off[k] + Len(Bytes(q[k]))
      BY <1>14, <2>2, <3>1
    <3>3. off[k + 1] <= off[n + 1]
      <4>1. k + 1 \in 1..(n + 1)
        BY <1>2, <2>2
      <4> QED BY <1>17, <4>1
    <3>4. off[k] + i \in 1..Len(all)
      <4>1. off[k] \in Nat /\ Len(Bytes(q[k])) \in Nat /\ off[n + 1] = Len(all)
        BY <1>2, <1>3, <1>17, <2>2, <3>1, BytesText
      <4>2. i \in 1..Len(Bytes(q[k]))
        BY <3>1
      <4> QED BY <1>3, <3>2, <3>3, <4>1, <4>2
    <3> QED BY <1>5, <3>1, <3>2, <3>4
  <2> QED BY <1>2, <2>1, <2>2
<1>10. ASSUME NEW i \in 1..(n + 2), NEW j \in 1..(n + 2), i < j
       PROVE  off2[i] < off2[j]
  <2>1. CASE j = n + 2
    <3>1. i \in 1..(n + 1)
      BY <1>2, <1>10, <2>1
    <3>2. off[i] \in Nat /\ off[i] <= Len(all)
      BY <1>3, <1>17, <3>1
    <3>3. off2[i] = off[i] /\ off2[j] = Len(all) + Len(b)
      BY <1>15, <2>1, <3>1
    <3> QED BY <1>1, <1>3, <3>2, <3>3
  <2>2. CASE j \in 1..(n + 1)
    <3>1. i \in 1..(n + 1)
      BY <1>2, <1>10, <2>2
    <3> QED BY <1>15, <1>10, <1>14, <2>2, <3>1
  <2> QED BY <1>2, <2>1, <2>2
<1>11. ASSUME NEW p \in 1..Len(all2)
       PROVE  \E k \in 1..(n + 1) : off2[k] < p /\ p <= off2[k + 1]
  <2>1. CASE p \in 1..Len(all)
    <3>1. PICK k \in 1..n : off[k] < p /\ p <= off[k + 1]
      BY <1>14, <2>1
    <3>2. k \in 1..(n + 1) /\ off2[k] = off[k] /\ off2[k + 1] = off[k + 1]
      BY <1>2, <1>15
    <3> QED BY <3>1, <3>2
  <2>2. CASE p > Len(all)
    <3>1. n + 1 \in 1..(n + 1) /\ off2[n + 1] = Len(all) /\ off2[(n + 1) + 1] = Len(all2)
      BY <1>2, <1>3, <1>4, <1>15
    <3> QED BY <1>4, <2>2, <3>1
  <2> QED BY <1>1, <1>3, <1>4, <2>1, <2>2
<1>12. StreamOf(q2, all2, off2)
  <2>1. Len(q2) + 1 = n + 2
    BY <1>2
  <2>2. off2[Len(q2) + 1] = Len(all2)
    BY <1>4, <1>15, <2>1
  <2>3. off2 \in [1..(Len(q2) + 1) -> Nat]
    BY <1>15, <2>1
  <2>4. \A k \in 1..Len(q2) : off2[k + 1] = off2[k] + Len(Bytes(q2[k]))
    BY <1>2, <1>8
  <2>5. \A k \in 1..Len(q2) : \A i \in 1..Len(Bytes(q2[k])) :
            all2[off2[k] + i] = Bytes(q2[k])[i]
    BY <1>2, <1>9
  <2>6. \A i, j \in 1..(Len(q2) + 1) : i < j => off2[i] < off2[j]
    BY <1>10, <2>1
  <2>7. \A p \in 1..Len(all2) : \E k \in 1..Len(q2) : off2[k] < p /\ p <= off2[k + 1]
    BY <1>2, <1>11
  <2> QED BY <1>4, <2>2, <2>3, <2>4, <2>5, <2>6, <2>7, Zenon DEF StreamOf
<1>13. \A i \in 1..Len(b) : all2[Len(all) + i] = b[i]
  BY <1>6
<1>16. Extends(all2, off2, all, off, b, n)
  BY <1>4, <1>5, <1>13, <1>15 DEF Extends
<1> QED BY <1>12, <1>16 DEF b, n, q2

-----------------------------------------------------------------------------
(* Types.                                                                  *)

Codes == {"FILE_REQUEST", "NO_RESOURCE", "FORBIDDEN_REQUEST", "BAD_REQUEST"}
Answers == [code : Codes \cup {"none"}, keep : BOOLEAN]

ConnTypes ==
    /\ asked \in Seq(Requests) /\ Len(asked) <= MaxRequests
    /\ unread \in Seq(Texts)
    /\ answers \in Seq(Answers) /\ answer \in Codes \cup {"none"}
    /\ odd \subseteq {"eager", "split", "cut", "failed"}
    /\ phase \in {"in", "process", "out", "spin", "closed"}
    /\ IndicesOK
    /\ Len(read_buf) <= Capacity
    /\ phase \in {"in", "process"} => Len(read_buf) < Capacity
    /\ check_state \in {"REQUESTLINE", "HEADER", "CONTENT"}
    /\ content_len \in {0, Len(Body)}
    /\ linger \in BOOLEAN
    /\ url \in Targets \cup {"none"}
    /\ line_state \in {"OK", "OPEN"}

LEMMA DoRequestType == DoRequest \in Codes
BY DEF DoRequest, Codes

LEMMA TypesInit == Init => ConnTypes
<1> SUFFICES ASSUME Init PROVE ConnTypes
  OBVIOUS
<1>1. /\ asked = <<>> /\ unread = <<>> /\ answers = <<>> /\ read_buf = <<>>
      /\ checked_idx = 0 /\ start_line = 0
  BY DEF Init
<1>2. asked \in Seq(Requests) /\ Len(asked) = 0 /\ unread \in Seq(Texts) /\ answers \in Seq(Answers)
  BY <1>1
<1>3. IndicesOK /\ Len(read_buf) = 0
  BY <1>1 DEF IndicesOK
<1>4. 0 <= MaxRequests /\ 0 <= Capacity /\ 0 < Capacity
  BY HttpConnAssumption
<1>5. Len(asked) <= MaxRequests /\ Len(read_buf) <= Capacity /\ Len(read_buf) < Capacity
  BY <1>2, <1>3, <1>4
<1> QED BY <1>2, <1>3, <1>5 DEF Init, ConnTypes

LEMMA TypesAsk == ASSUME ConnTypes, NEW r \in Requests, Ask(r) PROVE ConnTypes'
<1>1. asked' \in Seq(Requests) /\ Len(asked') <= MaxRequests
  BY HttpConnAssumption DEF ConnTypes, Ask
<1>2. unread' \in Seq(Texts)
  BY BytesText, ConcatProperties DEF ConnTypes, Ask
<1>3. odd' \subseteq {"eager", "split", "cut", "failed"}
  BY DEF ConnTypes, Ask
<1> QED BY <1>1, <1>2, <1>3 DEF ConnTypes, Ask, parser, writer, IndicesOK

\* What read_conn takes, and what it leaves.
LEMMA Reading ==
    ASSUME ConnTypes, NEW n \in 1..Len(unread), ReadConn(n)
    PROVE  /\ unread' \in Seq(Texts) /\ Len(unread') = Len(unread) - n
           /\ \A i \in 1..(Len(unread) - n) : unread'[i] = unread[n + i]
           /\ Room(n) =>
                /\ read_buf' \in Seq(Texts) /\ Len(read_buf') = Len(read_buf) + n
                /\ \A i \in 1..Len(read_buf) : read_buf'[i] = read_buf[i]
                /\ \A i \in 1..n : read_buf'[Len(read_buf) + i] = unread[i]
<1> DEFINE u == unread
           N == Len(u)
           t == SubSeq(u, 1, n)
<1>1. u \in Seq(Texts) /\ N \in Nat /\ n \in Nat /\ n <= N /\ \A i \in 1..N : u[i] \in Texts
  BY DEF ConnTypes
<1>2. unread' = SubSeq(u, n + 1, N)
  BY DEF ReadConn
<1>3. Room(n) => read_buf' = read_buf \o t
  BY DEF ReadConn
<1>4. read_buf \in Seq(Texts)
  BY DEF ConnTypes, IndicesOK
<1> HIDE DEF u
<1>5. /\ t \in Seq(Texts) /\ Len(t) = n
      /\ \A i \in 1..n : t[i] = u[i]
  BY <1>1
<1>6. /\ SubSeq(u, n + 1, N) \in Seq(Texts) /\ Len(SubSeq(u, n + 1, N)) = N - n
      /\ \A i \in 1..(N - n) : SubSeq(u, n + 1, N)[i] = u[n + i]
  BY <1>1
<1> HIDE DEF t, N
<1>7. /\ unread' \in Seq(Texts) /\ Len(unread') = N - n
      /\ \A i \in 1..(N - n) : unread'[i] = u[n + i]
  BY <1>2, <1>6
<1> DEFINE c == read_buf \o t
           M == Len(read_buf)
<1>8. /\ c \in Seq(Texts) /\ Len(c) = M + n /\ M \in Nat
      /\ \A i \in 1..(M + n) : c[i] = IF i <= M THEN read_buf[i] ELSE t[i - M]
  <2>1. /\ c \in Seq(Texts) /\ Len(c) = M + Len(t)
        /\ \A i \in 1..(M + Len(t)) : c[i] = IF i <= M THEN read_buf[i] ELSE t[i - M]
    BY <1>4, <1>5, ConcatProperties
  <2>2. M \in Nat
    BY <1>4
  <2> QED BY ONLY <1>5, <2>1, <2>2
<1> HIDE DEF c, M
<1>9. \A i \in 1..M : c[i] = read_buf[i]
  BY <1>1, <1>8
<1>10. ASSUME NEW i \in 1..n PROVE c[M + i] = u[i]
  <2>1. PICK j \in 1..(M + n) : j = M + i
    BY <1>1, <1>8
  <2>2. ~(j <= M) /\ j - M = i
    BY <1>8, <2>1
  <2>3. c[j] = t[j - M]
    BY <1>8, <2>2
  <2> QED BY <1>5, <2>1, <2>2, <2>3
<1>11. Room(n) => read_buf' = c
  BY <1>3 DEF c
<1>12. \A i \in 1..n : c[M + i] = u[i]
  BY <1>10
<1>13. Room(n) => /\ read_buf' \in Seq(Texts) /\ Len(read_buf') = M + n
                  /\ \A i \in 1..M : read_buf'[i] = read_buf[i]
                  /\ \A i \in 1..n : read_buf'[M + i] = u[i]
  BY <1>8, <1>9, <1>11, <1>12
<1> QED BY <1>7, <1>13 DEF M, N, u

LEMMA TypesRead == ASSUME ConnTypes, NEW n \in 1..Len(unread), ReadConn(n) PROVE ConnTypes'
<1>1. unread' \in Seq(Texts)
  BY Reading
<1>2. Len(read_buf) \in Nat /\ checked_idx \in Nat /\ start_line \in Nat /\ n \in Nat
      /\ Capacity \in Nat
  BY HttpConnAssumption DEF ConnTypes, IndicesOK
<1>3. CASE Room(n)
  <2>1. read_buf' \in Seq(Texts) /\ Len(read_buf') = Len(read_buf) + n
    BY <1>3, Reading
  <2>2. Len(read_buf') < Capacity
    BY <1>2, <1>3, <2>1 DEF Room
  <2>3. IndicesOK'
    BY <1>2, <2>1 DEF ConnTypes, IndicesOK, ReadConn
  <2> QED BY <1>1, <1>2, <1>3, <2>1, <2>2, <2>3 DEF ConnTypes, ReadConn, writer
<1>4. CASE ~Room(n)
  BY <1>1, <1>4 DEF ConnTypes, IndicesOK, ReadConn, writer
<1> QED BY <1>3, <1>4

LEMMA TypesPrepared ==
    ASSUME NEW code \in Codes, ProcessWrite(code)
    PROVE  answer' \in Codes \cup {"none"} /\ phase' = "out"
BY DEF ProcessWrite

\* The steps of the worker and of write_conn.
LEMMA TypesLine ==
    ASSUME ConnTypes, phase = "process", UNCHANGED <<asked, unread, answers, read_buf>>,
           checked_idx' \in checked_idx..Len(read_buf),
           start_line' \in {start_line, checked_idx'}, 
           answer' \in Codes \cup {"none"},
           odd' \subseteq odd \cup {"split"}, phase' \in {"in", "process", "out"},
           check_state' \in {"REQUESTLINE", "HEADER", "CONTENT"},
           content_len' \in {0, Len(Body)}, linger' \in BOOLEAN,
           url' \in Targets \cup {"none"}, line_state' \in {"OK", "OPEN"}
    PROVE  ConnTypes'
<1>1. Len(read_buf) \in Nat /\ checked_idx \in Nat /\ start_line \in Nat
      /\ start_line <= checked_idx /\ checked_idx <= Len(read_buf)
  BY DEF ConnTypes, IndicesOK
<1>2. IndicesOK'
  BY <1>1 DEF ConnTypes, IndicesOK
<1>3. odd' \subseteq {"eager", "split", "cut", "failed"}
  BY DEF ConnTypes
<1> QED BY <1>2, <1>3 DEF ConnTypes

LEMMA TypesProcess == ASSUME ConnTypes, Process PROVE ConnTypes'
<1>1. ParseLine.checked \in checked_idx..Len(read_buf) /\ checked_idx \in checked_idx..Len(read_buf)
  BY ParseLineIs DEF ConnTypes, IndicesOK
<1>2. CASE RequestLine
  <2>1. PICK t \in Targets : url' = t
    BY <1>2 DEF RequestLine
  <2> QED BY <1>1, <1>2, <2>1, TypesLine DEF ConnTypes, RequestLine, LineRead, client, writer
<1>3. CASE BadRequestLine
  <2>1. answer' \in Codes \cup {"none"} /\ phase' = "out"
    BY <1>3, TypesPrepared DEF BadRequestLine, Codes
  <2> QED BY <1>1, <1>3, <2>1, TypesLine DEF ConnTypes, BadRequestLine, LineRead, client
<1>4. CASE Header
  <2>1. linger' \in BOOLEAN /\ content_len' \in {0, Len(Body)}
    BY <1>4 DEF ConnTypes, Header
  <2> QED BY <1>1, <1>4, <2>1, TypesLine DEF ConnTypes, Header, LineRead, client, writer
<1>5. CASE HeaderEnd
  <2>1. answer' \in Codes \cup {"none"} /\ phase' \in {"process", "out"}
        /\ check_state' \in {"REQUESTLINE", "HEADER", "CONTENT"}
    BY <1>5, TypesPrepared, DoRequestType DEF ConnTypes, HeaderEnd, LineRead, writer
  <2> QED BY <1>1, <1>5, <2>1, TypesLine DEF ConnTypes, HeaderEnd, LineRead, client
<1>6. CASE Content
  <2>1. answer' \in Codes \cup {"none"} /\ phase' \in {"process", "out"}
        /\ line_state' \in {"OK", "OPEN"}
    BY <1>6, TypesPrepared, DoRequestType DEF ConnTypes, Content, writer
  <2> QED BY <1>1, <1>6, <2>1, TypesLine DEF ConnTypes, Content, client
<1>7. CASE LineInBody
  BY <1>1, <1>7, TypesLine DEF ConnTypes, LineInBody, LineRead, writer
<1>8. CASE NoRequest
  BY <1>1, <1>8, TypesLine DEF ConnTypes, NoRequest, writer
<1> QED BY <1>2, <1>3, <1>4, <1>5, <1>6, <1>7, <1>8 DEF Process

LEMMA TypesWrite == ASSUME ConnTypes, Write \/ WriteFails \/ UNCHANGED vars PROVE ConnTypes'
<1>1. CASE WriteEnd
  <2>1. answers' \in Seq(Answers)
    <3>1. [code |-> answer, keep |-> linger] \in Answers
      BY DEF ConnTypes, Answers
    <3> QED BY <1>1, <3>1, AppendProperties DEF ConnTypes, WriteEnd
  <2>2. CASE linger
    <3>1. /\ Cleared /\ phase' = "in"
      BY <1>1, <2>2 DEF WriteEnd
    <3>2. IndicesOK' /\ Len(read_buf') = 0
      BY <3>1 DEF Cleared, IndicesOK
    <3>3. check_state' = "REQUESTLINE" /\ content_len' = 0 /\ linger' = FALSE /\ url' = "none"
      BY <3>1 DEF Cleared
    <3>4. Len(read_buf') <= Capacity /\ Len(read_buf') < Capacity
      BY <3>2, HttpConnAssumption
    <3>5. UNCHANGED <<asked, unread, odd, line_state>> /\ answer' = "none"
      BY <1>1 DEF WriteEnd
    <3> QED BY <2>1, <3>1, <3>2, <3>3, <3>4, <3>5 DEF ConnTypes
  <2>3. CASE ~linger
    BY <1>1, <2>1, <2>3 DEF ConnTypes, WriteEnd, parser, IndicesOK
  <2> QED BY <2>2, <2>3
<1>2. CASE \E n \in 1..to_send : WritePart(n)
  BY <1>2 DEF ConnTypes, WritePart, parser, IndicesOK
<1>3. CASE Spin \/ WriteFails
  BY <1>3 DEF ConnTypes, Spin, WriteFails, client, parser, writer, IndicesOK
<1>4. CASE UNCHANGED vars
  BY <1>4 DEF ConnTypes, vars, client, parser, writer, IndicesOK
<1> QED BY <1>1, <1>2, <1>3, <1>4 DEF Write

-----------------------------------------------------------------------------
(* The invariant of reading.                                               *)

\* start_line - 3 elements of the header of r are behind the parser.
InHead(r) ==
    /\ start_line \in {3, 6, 9} /\ start_line <= 3 * Lines(r)
    /\ linger = (r.keep /\ start_line > 3)
    /\ content_len = IF r.body /\ start_line = 3 * Lines(r) THEN Len(Body) ELSE 0

InBody(r) ==
    /\ r.body /\ linger = r.keep /\ content_len = Len(Body)
    /\ checked_idx >= 3 * Lines(r) + 2

InRequest(r) ==
    /\ r.ends = "CRLF" /\ r.line \in Targets /\ url = r.line
    /\ check_state = "HEADER" => InHead(r)
    /\ check_state = "CONTENT" => InBody(r)

BeforeAnswer(all, off) ==
    /\ off[Len(answers) + 1] <= Taken(all)
    /\ "eager" \notin odd => off[Len(answers) + 1] = Taken(all)
    /\ check_state # "CONTENT" => CleanLine
    /\ check_state = "REQUESTLINE" =>
            start_line = 0 /\ url = "none" /\ linger = FALSE /\ content_len = 0
    /\ check_state # "REQUESTLINE" =>
            \E j \in (Len(answers) + 1)..Len(asked), r \in Requests :
                off[j] = Taken(all) /\ asked[j] = r /\ InRequest(r)

AtAnswer(all, off) ==
    /\ Len(answers) < Len(asked)
    /\ linger => off[Len(answers) + 2] <= Taken(all) + Len(read_buf)
    /\ "eager" \notin odd =>
            /\ [code |-> answer, keep |-> linger] = Expected(Last(asked))
            /\ Legal(Last(asked)) => read_buf = Bytes(Last(asked))

Told(all, off) ==
    /\ StreamOf(asked, all, off) /\ Held(all)
    /\ phase \in {"in", "process"} => BeforeAnswer(all, off)
    /\ phase = "out" => AtAnswer(all, off)

\* Each answer is for a request of its own.
Counted ==
    /\ Len(answers) <= Len(asked)
    /\ "eager" \notin odd =>
            /\ Len(asked) <= Len(answers) + 1
            /\ \A k \in 1..Len(answers) : answers[k] = Expected(asked[k])

ConnInv ==
    /\ ConnTypes /\ Counted
    /\ phase # "closed" => \E all, off : Told(all, off)

LEMMA Lengths ==
    ASSUME ConnTypes
    PROVE  /\ Len(asked) \in Nat /\ Len(answers) \in Nat /\ Len(unread) \in Nat
           /\ Len(read_buf) \in Nat /\ checked_idx \in Nat /\ start_line \in Nat
           /\ checked_idx <= Len(read_buf) /\ start_line <= checked_idx
BY DEF ConnTypes, IndicesOK

LEMMA Offsets ==
    ASSUME ConnTypes, NEW all, NEW off, StreamOf(asked, all, off)
    PROVE  /\ Len(all) \in Nat /\ off[Len(asked) + 1] = Len(all)
           /\ Taken(all) \in Int
           /\ \A i \in 1..(Len(asked) + 1) : off[i] \in Nat
           /\ \A i, j \in 1..(Len(asked) + 1) : i <= j => off[i] <= off[j]
           /\ \A i, j \in 1..(Len(asked) + 1) : off[i] <= off[j] => i <= j
<1> DEFINE N == Len(asked) + 1
<1>1. /\ Len(all) \in Nat /\ off[N] = Len(all) /\ Len(asked) \in Nat
      /\ \A i \in 1..N : off[i] \in Nat
      /\ \A i, j \in 1..N : i < j => off[i] < off[j]
  <2>1. Len(asked) \in Nat
    BY Lengths
  <2>2. all \in Seq(Texts) /\ off \in [1..N -> Nat] /\ off[N] = Len(all)
    BY DEF StreamOf
  <2>3. \A i, j \in 1..N : i < j => off[i] < off[j]
    BY DEF StreamOf
  <2>4. Len(all) \in Nat
    BY <2>2
  <2>5. \A i \in 1..N : off[i] \in Nat
    BY <2>2
  <2> QED BY <2>1, <2>2, <2>3, <2>4, <2>5
<1>2. Taken(all) \in Int
  BY <1>1, Lengths DEF Taken
<1>3. N \in Nat
  BY <1>1
<1> HIDE DEF N
<1>4. ASSUME NEW i \in 1..N, NEW j \in 1..N PROVE (i <= j => off[i] <= off[j]) /\ (off[i] <= off[j] => i <= j)
  <2>1. i < j \/ i = j \/ j < i
    BY <1>3
  <2>2. off[i] \in Nat /\ off[j] \in Nat
    BY <1>1
  <2>3. CASE i < j
    <3>1. off[i] < off[j]
      BY <1>1, <2>3
    <3> QED BY <1>3, <2>2, <2>3, <3>1
  <2>4. CASE i = j
    BY <1>3, <2>2, <2>4
  <2>5. CASE j < i
    <3>1. off[j] < off[i]
      BY <1>1, <2>5
    <3> QED BY <1>3, <2>2, <2>5, <3>1
  <2> QED BY <2>1, <2>3, <2>4, <2>5
<1> QED BY <1>1, <1>2, <1>4 DEF N

LEMMA ConnInit == Init => ConnInv
<1> SUFFICES ASSUME Init PROVE ConnInv
  OBVIOUS
<1>1. /\ asked = <<>> /\ unread = <<>> /\ answers = <<>> /\ read_buf = <<>>
      /\ Len(asked) = 0 /\ Len(unread) = 0 /\ Len(answers) = 0 /\ Len(read_buf) = 0
  BY DEF Init
<1>2. PICK all, off : all = <<>> /\ off = [k \in 1..1 |-> 0]
  OBVIOUS
<1>3. all \in Seq(Texts) /\ Len(all) = 0 /\ off \in [1..1 -> Nat] /\ off[1] = 0
  BY <1>2
<1>4. StreamOf(asked, all, off)
  <2>1. Len(asked) + 1 = 1
    BY <1>1
  <2>2. off \in [1..(Len(asked) + 1) -> Nat] /\ off[Len(asked) + 1] = Len(all)
    BY <1>3, <2>1
  <2>3. \A i, j \in 1..(Len(asked) + 1) : i < j => off[i] < off[j]
    <3>1. \A i, j \in 1..1 : ~(i < j)
      OBVIOUS
    <3> QED BY <2>1, <3>1
  <2>4. \A k \in 1..Len(asked) : FALSE
    BY <1>1
  <2>5. \A q \in 1..Len(all) : FALSE
    BY <1>3
  <2> QED BY <1>3, <2>2, <2>3, <2>4, <2>5, Zenon DEF StreamOf
<1>5. Held(all) /\ Taken(all) = 0
  <2>1. Taken(all) = 0
    <3>1. Taken(all) = 0 - 0 - 0
      BY <1>1, <1>3, Zenon DEF Taken
    <3> QED BY <3>1
  <2>2. /\ \A i \in 1..Len(read_buf) : FALSE
        /\ \A i \in 1..Len(unread) : FALSE
    BY <1>1
  <2>3. Taken(all) >= 0
    BY <2>1
  <2> QED BY <2>1, <2>2, <2>3, Zenon DEF Held
<1>6. BeforeAnswer(all, off)
  <2>1. start_line = 0 /\ checked_idx = 0 /\ check_state = "REQUESTLINE"
        /\ url = "none" /\ linger = FALSE /\ content_len = 0
    BY DEF Init
  <2>2. \A k \in (start_line + 1)..checked_idx : FALSE
    BY <2>1
  <2>3. CleanLine
    BY <2>1, <2>2 DEF CleanLine
  <2>4. off[Len(answers) + 1] = 0
    BY <1>1, <1>3
  <2> QED BY <1>5, <2>1, <2>3, <2>4 DEF BeforeAnswer
<1>7. Told(all, off)
  BY <1>4, <1>5, <1>6 DEF Told, Init
<1>8. Counted
  BY <1>1 DEF Counted
<1> QED BY <1>7, <1>8, TypesInit DEF ConnInv

\* The client asks: the stream is longer, and what was known of it still holds.
LEMMA ConnAsk == ASSUME ConnInv, NEW r \in Requests, Ask(r) PROVE ConnInv'
<1> DEFINE b == Bytes(r)
           n == Len(asked)
           a == Len(answers)
<1>1. /\ ConnTypes /\ phase # "closed" /\ asked' = Append(asked, r) /\ unread' = unread \o b
      /\ UNCHANGED <<answers, phase, read_buf, checked_idx, start_line, check_state,
                     content_len, linger, url, answer>>
  BY DEF ConnInv, Ask, parser, writer
<1>2. PICK all, off : Told(all, off)
  BY <1>1 DEF ConnInv
<1>3. StreamOf(asked, all, off) /\ Held(all)
  BY <1>2 DEF Told
<1>4. asked \in Seq(Requests) /\ n \in Nat /\ a \in Nat /\ a <= n
  BY <1>1, Lengths DEF ConnTypes, ConnInv, Counted
<1>5. /\ Len(asked') = n + 1 /\ asked'[n + 1] = r
      /\ \A k \in 1..n : asked'[k] = asked[k]
  BY <1>1, <1>4
<1>6. PICK all2, off2 :
          /\ StreamOf(asked', all2, off2)
          /\ Len(all2) = Len(all) + Len(b)
          /\ \A i \in 1..Len(all) : all2[i] = all[i]
          /\ \A i \in 1..Len(b) : all2[Len(all) + i] = b[i]
          /\ \A k \in 1..(n + 1) : off2[k] = off[k]
  <2>1. asked' = Append(asked, r) /\ asked \in Seq(Requests) /\ StreamOf(asked, all, off)
    BY <1>1, <1>3, <1>4
  <2>2. PICK all2, off2 : /\ StreamOf(Append(asked, r), all2, off2)
                          /\ Extends(all2, off2, all, off, Bytes(r), Len(asked))
    BY <2>1, StreamAsk
  <2> QED BY <2>1, <2>2 DEF Extends
<1>7. /\ Len(all) \in Nat /\ Len(b) \in Nat /\ Len(unread) \in Nat /\ Len(read_buf) \in Nat
      /\ b \in Seq(Texts) /\ unread \in Seq(Texts)
  BY <1>1, <1>3, BytesText, Lengths, Offsets DEF ConnTypes
<1>8. /\ Len(unread') = Len(unread) + Len(b)
      /\ \A i \in 1..(Len(unread) + Len(b)) :
            unread'[i] = IF i <= Len(unread) THEN unread[i] ELSE b[i - Len(unread)]
  BY <1>1, <1>7, ConcatProperties
<1>9. Taken(all2)' = Taken(all)
  BY <1>1, <1>6, <1>7, <1>8 DEF Taken
<1> HIDE DEF b, n, a
<1>10. Held(all2)'
  <2> DEFINE d == Taken(all)
             m == Len(read_buf)
             u == Len(unread)
             w == Len(all)
  <2>1. /\ d \in Nat /\ m \in Nat /\ u \in Nat /\ w \in Nat /\ d + m + u = w
    BY <1>3, <1>7 DEF Held, Taken
  <2>2. /\ \A i \in 1..m : read_buf[i] = all[d + i]
        /\ \A i \in 1..u : unread[i] = all[d + m + i]
    BY <1>3 DEF Held
  <2>3. /\ \A i \in 1..w : all2[i] = all[i]
        /\ \A i \in 1..Len(b) : all2[w + i] = b[i]
        /\ \A i \in 1..(u + Len(b)) : unread'[i] = IF i <= u THEN unread[i] ELSE b[i - u]
    BY <1>6, <1>8
  <2>4. /\ Taken(all2)' = d /\ Len(read_buf') = m /\ read_buf' = read_buf /\ Len(unread') = u + Len(b)
    BY <1>1, <1>8, <1>9
  <2> HIDE DEF d, m, u, w
  <2>5. ASSUME NEW i \in 1..m PROVE read_buf[i] = all2[d + i]
    <3>1. d + i \in 1..w
      BY <2>1
    <3> QED BY <2>2, <2>3, <3>1
  <2>6. ASSUME NEW i \in 1..(u + Len(b)) PROVE unread'[i] = all2[d + m + i]
    <3>1. CASE i <= u
      <4>1. i \in 1..u /\ d + m + i \in 1..w
        BY <2>1, <3>1
      <4>2. unread'[i] = unread[i]
        BY <2>3, <3>1
      <4> QED BY <2>2, <2>3, <4>1, <4>2
    <3>2. CASE ~(i <= u)
      <4>1. PICK j \in 1..Len(b) : j = i - u
        BY <1>7, <2>1, <3>2
      <4>2. unread'[i] = b[i - u] /\ d + m + i = w + j
        BY <2>1, <2>3, <3>2, <4>1
      <4>3. all2[w + j] = b[j]
        BY <2>3
      <4> QED BY <4>1, <4>2, <4>3
    <3> QED BY <3>1, <3>2
  <2>7. d >= 0
    BY <2>1
  <2> QED BY <2>4, <2>5, <2>6, <2>7 DEF Held
<1>11. /\ Len(asked') = n + 1 /\ Len(answers') = a
       /\ "eager" \notin odd' => "eager" \notin odd /\ n <= a
  BY <1>1, <1>4, <1>5 DEF Ask, n, a
<1>12. ASSUME NEW q, InRequest(q) PROVE InRequest(q)'
  BY <1>1, <1>12 DEF InRequest, InHead, InBody
<1>13. ASSUME phase \in {"in", "process"} PROVE BeforeAnswer(all2, off2)'
  <2>1. BeforeAnswer(all, off)
    BY <1>2, <1>13 DEF Told
  <2>2. off2[a + 1] = off[a + 1]
    BY <1>4, <1>6
  <2>3. /\ off2[Len(answers') + 1] <= Taken(all2)'
        /\ "eager" \notin odd' => off2[Len(answers') + 1] = Taken(all2)'
    BY <1>9, <1>11, <2>1, <2>2 DEF BeforeAnswer, a
  <2>4. check_state' # "CONTENT" => CleanLine'
    BY <1>1, <2>1 DEF BeforeAnswer, CleanLine
  <2>5. check_state' = "REQUESTLINE" =>
            start_line' = 0 /\ url' = "none" /\ linger' = FALSE /\ content_len' = 0
    BY <1>1, <2>1 DEF BeforeAnswer
  <2>6. check_state' # "REQUESTLINE" =>
            \E j \in (Len(answers') + 1)..Len(asked'), q \in Requests :
                off2[j] = Taken(all2)' /\ asked'[j] = q /\ InRequest(q)'
    <3> SUFFICES ASSUME check_state' # "REQUESTLINE"
                 PROVE  \E j \in (a + 1)..(n + 1), q \in Requests :
                            off2[j] = Taken(all) /\ asked'[j] = q /\ InRequest(q)'
      BY <1>9, <1>11
    <3>1. PICK j \in (a + 1)..n, q \in Requests :
              off[j] = Taken(all) /\ asked[j] = q /\ InRequest(q)
      BY <1>1, <2>1 DEF BeforeAnswer, a, n
    <3>2. j \in 1..n /\ j \in 1..(n + 1) /\ j \in (a + 1)..(n + 1)
      BY <1>4
    <3>3. off2[j] = off[j] /\ asked'[j] = asked[j]
      BY <1>5, <1>6, <3>2
    <3>4. InRequest(q)'
      BY <1>12, <3>1
    <3> QED BY <3>1, <3>2, <3>3, <3>4
  <2> QED BY <2>3, <2>4, <2>5, <2>6, Zenon DEF BeforeAnswer
<1>14. ASSUME phase = "out" PROVE AtAnswer(all2, off2)'
  <2>1. AtAnswer(all, off)
    BY <1>2, <1>14 DEF Told
  <2>2. a < n /\ (linger => off[a + 2] <= Taken(all) + Len(read_buf))
    BY <2>1 DEF AtAnswer, a, n
  <2>3. a + 2 \in 1..(n + 1)
    BY <1>4, <2>2
  <2>4. off2[a + 2] = off[a + 2]
    BY <1>6, <2>3
  <2>5. Len(answers') < Len(asked') /\ "eager" \in odd'
    BY <1>4, <1>11, <2>2
  <2>6. linger' => off2[Len(answers') + 2] <= Taken(all2)' + Len(read_buf')
    BY <1>1, <1>9, <1>11, <2>2, <2>4
  <2> QED BY <2>5, <2>6 DEF AtAnswer
<1>15. Told(all2, off2)'
  BY <1>1, <1>6, <1>10, <1>13, <1>14 DEF Told
<1>16. Counted'
  <2>1. ASSUME "eager" \notin odd', NEW k \in 1..a PROVE answers'[k] = Expected(asked'[k])
    <3>1. k \in 1..n /\ "eager" \notin odd
      BY <1>4, <1>11, <2>1
    <3>2. answers[k] = Expected(asked[k])
      BY <3>1 DEF ConnInv, Counted, a
    <3> QED BY <1>1, <1>5, <3>1, <3>2 DEF Expected, n
  <2>2. Len(answers') <= Len(asked') /\ ("eager" \notin odd' => Len(asked') <= Len(answers') + 1)
    BY <1>4, <1>11
  <2> QED BY <1>11, <2>1, <2>2 DEF Counted
<1> QED BY <1>1, <1>15, <1>16, TypesAsk DEF ConnInv

-----------------------------------------------------------------------------
(* What is in the buffer.                                                  *)

LEMMA SameStream ==
    ASSUME NEW all, NEW off, StreamOf(asked, all, off), Held(all),
           UNCHANGED <<asked, unread, read_buf>>
    PROVE  StreamOf(asked', all, off) /\ Held(all)' /\ Taken(all)' = Taken(all)
<1>1. StreamOf(asked', all, off)
  <2>1. asked' = asked
    OBVIOUS
  <2> QED BY <2>1
<1>2. Taken(all)' = Taken(all)
  BY DEF Taken
<1>3. Held(all)'
  BY <1>2 DEF Held
<1> QED BY <1>1, <1>2, <1>3

\* Before an answer.
Parsing(all, off) ==
    /\ ConnTypes /\ Counted /\ phase = "process"
    /\ StreamOf(asked, all, off) /\ Held(all)
    /\ BeforeAnswer(all, off)

\* The buffer starts with request j.
StartsAt(all, off, j, r) ==
    j \in (Len(answers) + 1)..Len(asked) /\ r \in Requests /\ asked[j] = r /\ off[j] = Taken(all)

LEMMA AtStart ==
    ASSUME NEW all, NEW off, Parsing(all, off), NEW j, NEW r, StartsAt(all, off, j, r)
    PROVE  \A k \in 1..Len(read_buf) : k <= Len(Bytes(r)) => read_buf[k] = Bytes(r)[k]
<1> SUFFICES ASSUME NEW k \in 1..Len(read_buf), k <= Len(Bytes(r)) PROVE read_buf[k] = Bytes(r)[k]
  OBVIOUS
<1>1. /\ ConnTypes /\ StreamOf(asked, all, off) /\ Held(all)
      /\ j \in (Len(answers) + 1)..Len(asked) /\ r \in Requests /\ asked[j] = r /\ off[j] = Taken(all)
  BY DEF Parsing, StartsAt
<1>2. Len(read_buf) \in Nat /\ Len(asked) \in Nat /\ Len(answers) \in Nat
  BY <1>1, Lengths
<1>3. j \in 1..Len(asked) /\ k \in 1..Len(Bytes(r))
  BY <1>1, <1>2, BytesText
<1>4. read_buf[k] = all[Taken(all) + k]
  BY <1>1 DEF Held
<1>5. all[off[j] + k] = Bytes(asked[j])[k]
  BY <1>1, <1>3 DEF StreamOf
<1> QED BY <1>1, <1>4, <1>5

\* If all of the request has been read, the answer is for the client's next
\* request, and a client that waits has sent nothing else.
LEMMA AnsweredWhole ==
    ASSUME NEW all, NEW off, Parsing(all, off), NEW j, NEW r, StartsAt(all, off, j, r),
           Len(Bytes(r)) <= Len(read_buf)
    PROVE  /\ Len(answers) < Len(asked)
           /\ off[Len(answers) + 2] <= Taken(all) + Len(read_buf)
           /\ "eager" \notin odd => r = Last(asked) /\ read_buf = Bytes(r)
<1> DEFINE a == Len(answers)
           n == Len(asked)
           m == Len(read_buf)
           b == Bytes(r)
           d == Taken(all)
           w == Len(all)
<1>1. /\ ConnTypes /\ StreamOf(asked, all, off) /\ Held(all)
      /\ j \in (a + 1)..n /\ r \in Requests /\ asked[j] = r /\ off[j] = d
  BY DEF Parsing, StartsAt
<1>2. /\ n \in Nat /\ a \in Nat /\ m \in Nat /\ Len(unread) \in Nat /\ Len(b) \in Nat /\ w \in Nat
      /\ d = w - m - Len(unread) /\ d \in Int
  BY <1>1, Lengths, BytesText, Offsets DEF Taken
<1>3. j \in 1..n /\ j + 1 \in 1..(n + 1) /\ a + 2 \in 1..(n + 1) /\ a + 2 <= j + 1 /\ a < n
  BY <1>1, <1>2
<1>4. off[j + 1] = d + Len(b)
  BY <1>1, <1>3 DEF StreamOf
<1>5. /\ off[a + 2] <= off[j + 1] /\ off[a + 2] \in Nat /\ off[n + 1] = w
      /\ j + 1 <= n + 1 => off[j + 1] <= off[n + 1]
  <2>1. n + 1 \in 1..(n + 1)
    BY <1>2
  <2> QED BY <1>1, <1>3, <2>1, Offsets
<1>6. off[a + 2] <= d + m
  <2>1. Len(b) <= m
    OBVIOUS
  <2> HIDE DEF a, n, m, b, d, w
  <2> QED BY <1>2, <1>4, <1>5, <2>1
<1>7. ASSUME "eager" \notin odd PROVE r = Last(asked) /\ read_buf = b
  <2>1. n <= a + 1
    BY <1>7 DEF Parsing, Counted
  <2>2. j = n /\ off[n + 1] = d + Len(b)
    BY <1>1, <1>2, <1>3, <1>4, <2>1
  <2>3. r = Last(asked)
    BY <1>1, <2>2 DEF Last
  <2>4. Len(b) <= m
    OBVIOUS
  <2>5. m = Len(b)
    <3> HIDE DEF a, n, m, b, d, w
    <3> QED BY <1>2, <1>5, <2>2, <2>4
  <2>6. \A k \in 1..m : read_buf[k] = b[k]
    BY <2>5, AtStart
  <2>7. read_buf \in Seq(Texts) /\ b \in Seq(Texts)
    BY <1>1, BytesText DEF ConnTypes, IndicesOK
  <2>8. read_buf = b
    <3> HIDE DEF b
    <3> QED BY <2>5, <2>6, <2>7, SeqEqual
  <2> QED BY <2>3, <2>8
<1> QED BY <1>3, <1>6, <1>7

-----------------------------------------------------------------------------
(* Reading lines.                                                          *)

\* A line ends at the first CR, and the next one starts after its LF.
LEMMA LineIs ==
    ASSUME NEW all, NEW off, Parsing(all, off), NEW state, LineRead(state), state # "CONTENT"
    PROVE  /\ check_state = state /\ UNCHANGED read_buf
           /\ \E c \in (start_line + 1)..(Len(read_buf) - 1) :
                /\ read_buf[c] = "CR" /\ read_buf[c + 1] = "LF"
                /\ \A k \in (start_line + 1)..(c - 1) : read_buf[k] \notin Marks
                /\ checked_idx' = c + 1 /\ start_line' = c + 1
                /\ ParseLine.text \in Seq(Texts) /\ Len(ParseLine.text) = c - 1 - start_line
                /\ \A i \in 1..(c - 1 - start_line) : ParseLine.text[i] = read_buf[start_line + i]
                /\ CleanLine'
<1>1. /\ check_state = state /\ read_buf' = read_buf /\ ParseLine.state = "OK"
      /\ checked_idx' = ParseLine.checked /\ start_line' = ParseLine.checked
  BY DEF LineRead
<1>2. IndicesOK /\ CleanLine
  BY <1>1 DEF Parsing, ConnTypes, BeforeAnswer
<1>3. PICK c \in (start_line + 1)..(Len(read_buf) - 1) :
          /\ read_buf[c] = "CR" /\ read_buf[c + 1] = "LF"
          /\ \A k \in (start_line + 1)..(c - 1) : read_buf[k] \notin Marks
          /\ ParseLine.checked = c + 1
          /\ ParseLine.text = SubSeq(read_buf, start_line + 1, c - 1)
  BY <1>1, <1>2, ParseLineIs
<1>4. read_buf \in Seq(Texts) /\ Len(read_buf) \in Nat /\ start_line \in Nat /\ c \in Nat
      /\ start_line + 1 <= c /\ c <= Len(read_buf) - 1
  BY <1>2 DEF IndicesOK
<1>5. PICK t : t = SubSeq(read_buf, start_line + 1, c - 1)
  OBVIOUS
<1>6. /\ t \in Seq(Texts) /\ Len(t) = c - 1 - start_line
      /\ \A i \in 1..(c - 1 - start_line) : t[i] = read_buf[start_line + i]
  BY <1>4, <1>5
<1>7. ParseLine.text = t
  BY <1>3, <1>5
<1>8. CleanLine'
  <2>1. start_line' = c + 1 /\ checked_idx' = c + 1 /\ read_buf'[c + 1] = "LF"
    BY <1>1, <1>3
  <2>2. \A k \in (start_line' + 1)..checked_idx' : FALSE
    BY <1>4, <2>1
  <2> QED BY <2>1, <2>2 DEF CleanLine
<1> QED BY <1>1, <1>3, <1>6, <1>7, <1>8

\* A line that names a target is the first line of a request.
LEMMA TargetStarts ==
    ASSUME NEW all, NEW off, Parsing(all, off), NEW t \in Targets,
           Len(read_buf) >= 2, read_buf[1] = t, read_buf[2] = "CR"
    PROVE  \E j, r : /\ StartsAt(all, off, j, r)
                     /\ r \in RequestType /\ r.ends = "CRLF" /\ r.line = t
<1> DEFINE d == Taken(all)
           n == Len(asked)
           m == Len(read_buf)
<1>1. ConnTypes /\ StreamOf(asked, all, off) /\ Held(all) /\ off[Len(answers) + 1] <= d
  BY DEF Parsing, BeforeAnswer
<1>2. /\ n \in Nat /\ m \in Nat /\ Len(unread) \in Nat /\ Len(all) \in Nat /\ Len(answers) \in Nat
      /\ d = Len(all) - m - Len(unread) /\ d \in Int /\ d >= 0 /\ m >= 2
  BY <1>1, Lengths, Offsets DEF Taken, Held
<1>3. all[d + 1] = t
  <2>1. 1 \in 1..m
    BY <1>2
  <2> QED BY <1>1, <2>1 DEF Held
<1>4. d + 1 \in 1..Len(all)
  <2> HIDE DEF d, m
  <2> QED BY <1>2
<1>5. PICK j \in 1..n : off[j] < d + 1 /\ d + 1 <= off[j + 1]
  BY <1>1, <1>4 DEF StreamOf
<1>6. PICK r \in Requests : r = asked[j]
  BY <1>1 DEF ConnTypes
<1>7. /\ off[j + 1] = off[j] + Len(Bytes(r)) /\ off[j] \in Nat
      /\ \A i \in 1..Len(Bytes(r)) : all[off[j] + i] = Bytes(r)[i]
  <2>1. j \in 1..(n + 1)
    BY <1>2
  <2> QED BY <1>1, <1>6, <2>1, Offsets DEF StreamOf
<1>8. /\ r \in RequestType /\ Len(Bytes(r)) \in Nat /\ Len(Bytes(r)) >= 2
      /\ \A i \in 2..Len(Bytes(r)) : Bytes(r)[i] \in Names
      /\ Bytes(r)[1] = r.line
      /\ r.ends # "CRLF" => Bytes(r)[2] = "LF"
  BY BytesText, BytesAre DEF OneLine
<1> HIDE DEF d, n, m
<1>9. PICK i \in 1..Len(Bytes(r)) : off[j] + i = d + 1
  <2>1. PICK o, l : o = off[j] /\ l = Len(Bytes(r))
    OBVIOUS
  <2>2. o \in Nat /\ l \in Nat /\ d \in Int /\ o < d + 1 /\ d + 1 <= o + l
    BY <1>2, <1>5, <1>7, <1>8, <2>1
  <2>3. PICK i \in 1..l : o + i = d + 1
    <3>1. (d + 1) - o \in 1..l /\ o + ((d + 1) - o) = d + 1
      BY ONLY <2>2
    <3> QED BY <3>1
  <2> QED BY <2>1, <2>3
<1>10. Bytes(r)[i] = t
  BY <1>3, <1>7, <1>9
<1>11. i = 1
  <2>1. t \notin Names
    BY DEF Targets, Names, Marks
  <2>2. i \notin 2..Len(Bytes(r))
    BY <1>8, <1>10, <2>1
  <2> QED BY <1>8, <2>2
<1>12. off[j] = d /\ r.line = t
  <2>1. off[j] + 1 = d + 1 /\ off[j] \in Nat /\ d \in Int
    BY <1>2, <1>7, <1>9, <1>11
  <2>2. r.line = t
    BY <1>8, <1>10, <1>11
  <2> QED BY <2>1, <2>2
<1>13. j \in (Len(answers) + 1)..n
  <2>1. Len(answers) + 1 \in 1..(n + 1) /\ j \in 1..(n + 1)
    BY <1>2 DEF Parsing, Counted, n
  <2>2. off[Len(answers) + 1] <= off[j]
    BY <1>1, <1>12
  <2>3. Len(answers) + 1 <= j
    BY <1>1, <2>1, <2>2, Offsets DEF n
  <2> QED BY <1>2, <2>3
<1>14. StartsAt(all, off, j, r)
  BY <1>6, <1>12, <1>13 DEF StartsAt, d, n
<1>15. r.ends = "CRLF"
  <2>1. read_buf[2] = Bytes(r)[2]
    <3>1. 2 \in 1..Len(read_buf) /\ 2 <= Len(Bytes(r))
      BY <1>2, <1>8 DEF m
    <3> QED BY <1>14, <3>1, AtStart
  <2> QED BY <1>8, <2>1
<1> QED BY <1>8, <1>12, <1>14, <1>15

\* What lets the parser go on with request j.
LEMMA GoesOn ==
    ASSUME NEW all, NEW off, Parsing(all, off),
           UNCHANGED <<asked, unread, answers, read_buf>>, phase' \in {"in", "process"},
           "eager" \in odd => "eager" \in odd',
           check_state' # "CONTENT" => CleanLine',
           check_state' = "REQUESTLINE" =>
                /\ check_state = "REQUESTLINE"
                /\ UNCHANGED <<start_line, url, linger, content_len>>,
           check_state' # "REQUESTLINE" =>
                \E j, r : StartsAt(all, off, j, r) /\ InRequest(r)'
    PROVE  Told(all, off)'
<1>1. StreamOf(asked', all, off) /\ Held(all)' /\ Taken(all)' = Taken(all)
  BY SameStream DEF Parsing
<1>2. BeforeAnswer(all, off)'
  <2>1. /\ off[Len(answers') + 1] <= Taken(all)'
        /\ "eager" \notin odd' => off[Len(answers') + 1] = Taken(all)'
    <3>1. answers' = answers
      OBVIOUS
    <3> QED BY <1>1, <3>1 DEF Parsing, BeforeAnswer
  <2>2. check_state' # "CONTENT" => CleanLine'
    OBVIOUS
  <2>3. check_state' = "REQUESTLINE" =>
            start_line' = 0 /\ url' = "none" /\ linger' = FALSE /\ content_len' = 0
    BY DEF Parsing, BeforeAnswer
  <2>4. check_state' # "REQUESTLINE" =>
            \E j \in (Len(answers') + 1)..Len(asked'), r \in Requests :
                off[j] = Taken(all)' /\ asked'[j] = r /\ InRequest(r)'
    BY <1>1 DEF StartsAt
  <2> QED BY <2>1, <2>2, <2>3, <2>4, Zenon DEF BeforeAnswer
<1> QED BY <1>1, <1>2 DEF Told

\* What lets the parser end with an answer.
LEMMA EndsWith ==
    ASSUME NEW all, NEW off, Parsing(all, off),
           UNCHANGED <<asked, unread, answers, read_buf, odd>>, phase' = "out",
           Len(answers) < Len(asked),
           linger' => off[Len(answers) + 2] <= Taken(all) + Len(read_buf),
           "eager" \notin odd =>
                /\ [code |-> answer', keep |-> linger'] = Expected(Last(asked))
                /\ Legal(Last(asked)) => read_buf = Bytes(Last(asked))
    PROVE  Told(all, off)'
<1>1. StreamOf(asked', all, off) /\ Held(all)' /\ Taken(all)' = Taken(all)
  BY SameStream DEF Parsing
<1>2. AtAnswer(all, off)'
  <2>1. asked' = asked /\ answers' = answers /\ read_buf' = read_buf /\ odd' = odd
    OBVIOUS
  <2> QED BY <1>1, <2>1 DEF AtAnswer
<1> QED BY <1>1, <1>2 DEF Told

LEMMA RequestLineStep ==
    ASSUME NEW all, NEW off, Parsing(all, off), RequestLine
    PROVE  Told(all, off)'
<1>1. /\ LineRead("REQUESTLINE") /\ check_state' = "HEADER"
      /\ UNCHANGED <<asked, unread, answers, odd, phase, content_len, linger>>
      /\ phase = "process" /\ check_state = "REQUESTLINE"
  BY DEF RequestLine, LineRead, client, Parsing
<1>2. PICK t \in Targets : ParseLine.text = <<t>> /\ url' = t
  BY DEF RequestLine
<1>3. start_line = 0 /\ linger = FALSE /\ content_len = 0
  BY <1>1 DEF Parsing, BeforeAnswer
<1>4. PICK c \in (start_line + 1)..(Len(read_buf) - 1) :
          /\ read_buf' = read_buf
          /\ read_buf[c] = "CR" /\ start_line' = c + 1
          /\ Len(ParseLine.text) = c - 1 - start_line
          /\ \A i \in 1..(c - 1 - start_line) : ParseLine.text[i] = read_buf[start_line + i]
          /\ CleanLine'
  BY <1>1, LineIs
<1>5. Len(read_buf) \in Nat
  BY Lengths DEF Parsing
<1>6. c = 2 /\ Len(read_buf) >= 2
  <2>1. Len(ParseLine.text) = 1
    BY <1>2
  <2>2. c - 1 - 0 = 1
    BY <1>3, <1>4, <2>1, Zenon
  <2>3. c \in 1..(Len(read_buf) - 1)
    BY <1>3, <1>4, <1>5
  <2> QED BY <1>5, <2>2, <2>3
<1>7. read_buf[1] = t /\ read_buf[2] = "CR" /\ start_line' = 3
  BY <1>2, <1>3, <1>4, <1>6
<1>8. PICK j, r : StartsAt(all, off, j, r) /\ r \in RequestType /\ r.ends = "CRLF" /\ r.line = t
  BY <1>6, <1>7, TargetStarts
<1>9. InRequest(r)'
  <2>1. Lines(r) \in Nat /\ Lines(r) >= 1 /\ (r.body => Lines(r) >= 2)
    BY DEF Lines
  <2>2. start_line' \in {3, 6, 9} /\ start_line' <= 3 * Lines(r) /\ ~(start_line' > 3)
        /\ (r.body => start_line' # 3 * Lines(r))
    BY <1>7, <2>1
  <2>3. linger' = (r.keep /\ start_line' > 3)
    BY <1>1, <1>3, <2>2
  <2>4. content_len' = IF r.body /\ start_line' = 3 * Lines(r) THEN Len(Body) ELSE 0
    BY <1>1, <1>3, <2>2
  <2>5. InHead(r)'
    BY <2>2, <2>3, <2>4 DEF InHead
  <2> QED BY <1>1, <1>2, <1>8, <2>5 DEF InRequest
<1> QED BY <1>1, <1>4, <1>8, <1>9, GoesOn

LEMMA BadRequestLineStep ==
    ASSUME NEW all, NEW off, Parsing(all, off), BadRequestLine
    PROVE  Told(all, off)'
<1> DEFINE a == Len(answers)
           n == Len(asked)
           m == Len(read_buf)
           d == Taken(all)
<1>1. /\ LineRead("REQUESTLINE") /\ \A t \in Targets : ParseLine.text # <<t>>
      /\ UNCHANGED <<asked, unread, answers, odd, linger>>
      /\ phase' = "out" /\ answer' = "BAD_REQUEST" /\ check_state = "REQUESTLINE"
  BY DEF BadRequestLine, LineRead, client, ProcessWrite
<1>2. /\ start_line = 0 /\ linger = FALSE /\ off[a + 1] <= d
      /\ "eager" \notin odd => off[a + 1] = d /\ n <= a + 1
      /\ a <= n /\ ConnTypes /\ StreamOf(asked, all, off)
  BY <1>1 DEF Parsing, BeforeAnswer, Counted
<1>3. PICK c \in (start_line + 1)..(m - 1) :
          /\ read_buf' = read_buf
          /\ read_buf[c] = "CR"
          /\ \A k \in (start_line + 1)..(c - 1) : read_buf[k] \notin Marks
          /\ ParseLine.text \in Seq(Texts) /\ Len(ParseLine.text) = c - 1 - start_line
          /\ \A i \in 1..(c - 1 - start_line) : ParseLine.text[i] = read_buf[start_line + i]
  BY <1>1, LineIs
<1>4. /\ n \in Nat /\ a \in Nat /\ m \in Nat /\ Len(unread) \in Nat /\ Len(all) \in Nat
      /\ d = Len(all) - m - Len(unread) /\ off[n + 1] = Len(all)
  BY <1>2, Lengths, Offsets DEF Taken
<1> HIDE DEF a, n, m, d
<1>5. c \in 1..(m - 1) /\ m >= 2
  BY <1>2, <1>3, <1>4
<1>6. a < n
  <2>1. ASSUME a = n PROVE FALSE
    <3>1. Len(all) <= d
      BY <1>2, <1>4, <2>1
    <3> QED BY <1>4, <1>5, <3>1
  <2> QED BY <1>2, <1>4, <2>1
<1>7. ASSUME "eager" \notin odd
      PROVE  [code |-> answer', keep |-> linger'] = Expected(Last(asked)) /\ ~Legal(Last(asked))
  <2>1. n = a + 1 /\ n \in (a + 1)..n
    BY <1>2, <1>4, <1>6, <1>7
  <2>2. PICK r \in Requests : r = asked[n]
    <3>1. n \in 1..n
      BY <1>4, <2>1
    <3> QED BY <1>2, <3>1 DEF ConnTypes, n
  <2>3. StartsAt(all, off, n, r) /\ r = Last(asked)
    BY <1>2, <1>7, <2>1, <2>2 DEF StartsAt, Last, a, n, d
  <2>4. /\ r \in RequestType /\ Len(Bytes(r)) \in Nat /\ Len(Bytes(r)) >= 2
        /\ Bytes(r)[1] = r.line /\ Bytes(r)[2] \in Marks
    BY BytesText, BytesAre DEF RequestType, Marks
  <2>5. read_buf[1] = r.line /\ read_buf[2] \in Marks
    <3>1. 1 \in 1..m /\ 1 <= Len(Bytes(r)) /\ 2 \in 1..m /\ 2 <= Len(Bytes(r))
      BY <1>4, <1>5, <2>4
    <3> QED BY <2>3, <2>4, <3>1, AtStart DEF m
  <2>6. r.line \in Targets \cup {"junk"} /\ r.line # "CR"
    BY <2>4 DEF RequestType, Targets
  <2>7. c = 2
    <3>1. c # 1
      BY <1>3, <2>5, <2>6
    <3>2. ~(c > 2)
      <4>1. c > 2 => 2 \in (start_line + 1)..(c - 1)
        BY <1>2, <1>5
      <4> QED BY <1>3, <2>5, <4>1
    <3> QED BY <1>5, <3>1, <3>2
  <2>8. ParseLine.text = <<r.line>>
    <3>1. Len(ParseLine.text) = 1 /\ ParseLine.text[1] = read_buf[1] /\ ParseLine.text \in Seq(Texts)
      BY <1>2, <1>3, <2>7
    <3> QED BY <2>5, <3>1
  <2>9. r.line = "junk"
    BY <1>1, <2>6, <2>8
  <2>10. Expected(r) = [code |-> "BAD_REQUEST", keep |-> FALSE] /\ ~Legal(r)
    BY <2>9 DEF Expected, Legal, Targets
  <2> QED BY <1>1, <1>2, <2>3, <2>10
<1>8. ~linger'
  BY <1>1, <1>2
<1> QED BY <1>1, <1>3, <1>6, <1>7, <1>8, EndsWith DEF a, n

\* The line that follows the first s elements of a request.
LineAfter(s, r) == IF s = 3 /\ r.keep THEN "keep-alive" ELSE "content-length"

LEMMA HeaderLines ==
    ASSUME NEW r \in RequestType, r.ends = "CRLF", NEW s \in {3, 6, 9}, s < 3 * Lines(r)
    PROVE  /\ s + 3 \in {6, 9} /\ s + 3 <= 3 * Lines(r) /\ s + 3 <= Len(Bytes(r))
           /\ Bytes(r)[s + 1] = LineAfter(s, r) /\ Bytes(r)[s + 2] = "CR"
           /\ LineAfter(s, r) = "content-length" => r.body /\ s + 3 = 3 * Lines(r) /\ (s = 3 => ~r.keep)
           /\ LineAfter(s, r) # "content-length" =>
                LineAfter(s, r) = "keep-alive" /\ r.keep /\ ~(r.body /\ s + 3 = 3 * Lines(r))
           /\ s # 3 => r.keep
<1>1. /\ Lines(r) \in 1..3 /\ (Lines(r) = 3 => r.keep /\ r.body) /\ (r.keep /\ r.body => Lines(r) = 3)
      /\ (~r.keep /\ Lines(r) = 2 => r.body) /\ (~r.keep => Lines(r) <= 2) /\ (~r.keep /\ ~r.body => Lines(r) = 1)
  BY DEF Lines, RequestType
<1>2. /\ Len(Bytes(r)) = 3 * Lines(r) + 2 + (IF r.body THEN Len(Body) ELSE 0)
      /\ r.keep => Bytes(r)[4] = "keep-alive" /\ Bytes(r)[5] = "CR"
      /\ r.body => Bytes(r)[3 * Lines(r) - 2] = "content-length" /\ Bytes(r)[3 * Lines(r) - 1] = "CR"
  BY BytesAre
<1>3. Len(Bytes(r)) >= 3 * Lines(r) /\ s + 3 \in {6, 9} /\ s + 3 <= 3 * Lines(r)
  <2>1. Len(Body) \in Nat
    BY HttpConnAssumption
  <2> QED BY <1>1, <1>2, <2>1
<1>4. s + 3 <= Len(Bytes(r))
  BY <1>1, <1>2, <1>3, HttpConnAssumption
<1>5. CASE s = 3 /\ r.keep
  <2>1. LineAfter(s, r) = "keep-alive"
    BY <1>5 DEF LineAfter
  <2> QED BY <1>1, <1>2, <1>3, <1>4, <1>5, <2>1
<1>6. CASE ~(s = 3 /\ r.keep)
  <2>1. LineAfter(s, r) = "content-length"
    BY <1>6 DEF LineAfter
  <2>2. r.body /\ s + 3 = 3 * Lines(r) /\ (s # 3 => r.keep)
    BY <1>1, <1>3, <1>6
  <2>3. s + 1 = 3 * Lines(r) - 2 /\ s + 2 = 3 * Lines(r) - 1
    BY <1>1, <2>2
  <2> QED BY <1>2, <1>3, <1>4, <1>6, <2>1, <2>2, <2>3
<1> QED BY <1>5, <1>6

\* Where the parser is in the header of request j, and where its line ends.
LEMMA InHeader ==
    ASSUME NEW all, NEW off, Parsing(all, off), LineRead("HEADER")
    PROVE  \E j, r : \E s \in {3, 6, 9}, c \in Nat :
              /\ StartsAt(all, off, j, r) /\ InRequest(r) /\ InHead(r)
              /\ r \in RequestType
              /\ start_line = s /\ c + 1 <= Len(read_buf) /\ UNCHANGED read_buf
              /\ checked_idx' = c + 1 /\ start_line' = c + 1 /\ CleanLine'
              /\ s < 3 * Lines(r) => c = s + 2 /\ ParseLine.text = <<LineAfter(s, r)>>
              /\ ~(s < 3 * Lines(r)) => s = 3 * Lines(r) /\ c = s + 1 /\ ParseLine.text = <<>>
<1>1. check_state = "HEADER" /\ phase = "process" /\ ConnTypes
  BY DEF LineRead, Parsing
<1>2. PICK j \in (Len(answers) + 1)..Len(asked), r \in Requests :
          off[j] = Taken(all) /\ asked[j] = r /\ InRequest(r)
  BY <1>1 DEF Parsing, BeforeAnswer
<1>3. StartsAt(all, off, j, r) /\ InHead(r) /\ r.ends = "CRLF" /\ r \in RequestType
  BY <1>1, <1>2, HttpConnAssumption DEF StartsAt, InRequest
<1>4. PICK s \in {3, 6, 9} : start_line = s /\ s <= 3 * Lines(r)
  BY <1>3 DEF InHead
<1>5. Len(read_buf) \in Nat /\ start_line \in Nat /\ Lines(r) \in 1..3
  BY <1>1, Lengths DEF Lines
<1>6. PICK c \in (start_line + 1)..(Len(read_buf) - 1) :
          /\ read_buf' = read_buf /\ read_buf[c] = "CR"
          /\ \A k \in (start_line + 1)..(c - 1) : read_buf[k] \notin Marks
          /\ checked_idx' = c + 1 /\ start_line' = c + 1
          /\ ParseLine.text \in Seq(Texts) /\ Len(ParseLine.text) = c - 1 - start_line
          /\ \A i \in 1..(c - 1 - start_line) : ParseLine.text[i] = read_buf[start_line + i]
          /\ CleanLine'
  BY <1>1, LineIs
<1>7. c \in Nat /\ s + 1 <= c /\ c + 1 <= Len(read_buf)
  BY <1>4, <1>5, <1>6
<1>8. ASSUME s < 3 * Lines(r) PROVE c = s + 2 /\ ParseLine.text = <<LineAfter(s, r)>>
  <2>1. /\ s + 3 <= Len(Bytes(r))
        /\ Bytes(r)[s + 1] = LineAfter(s, r) /\ Bytes(r)[s + 2] = "CR"
        /\ LineAfter(s, r) # "CR"
    BY <1>3, <1>8, HeaderLines DEF LineAfter
  <2>2. Len(Bytes(r)) \in Nat
    BY BytesText
  <2>3. \A k \in 1..Len(read_buf) : k <= Len(Bytes(r)) => read_buf[k] = Bytes(r)[k]
    BY <1>3, AtStart
  <2>4. s + 1 \in 1..Len(read_buf) /\ s + 1 <= Len(Bytes(r)) /\ s + 2 \in 1..Len(read_buf) /\ s + 2 <= Len(Bytes(r))
    BY <1>5, <1>7, <2>1, <2>2
  <2>5. read_buf[s + 1] = LineAfter(s, r) /\ read_buf[s + 2] = "CR"
    BY <2>1, <2>3, <2>4
  <2>6. c # s + 1
    BY <1>6, <2>1, <2>5
  <2>7. ~(c > s + 2)
    <3>1. c > s + 2 => s + 2 \in (start_line + 1)..(c - 1)
      BY <1>4, <1>7
    <3> QED BY <1>6, <2>5, <3>1 DEF Marks
  <2>8. c = s + 2
    BY <1>7, <2>6, <2>7
  <2>9. Len(ParseLine.text) = 1 /\ ParseLine.text[1] = LineAfter(s, r) /\ ParseLine.text \in Seq(Texts)
    <3>1. c - 1 - start_line = 1
      BY <1>4, <2>8
    <3>2. Len(ParseLine.text) = 1 /\ ParseLine.text[1] = read_buf[start_line + 1]
      BY <1>6, <3>1
    <3> QED BY <1>4, <1>6, <2>5, <3>2
  <2> QED BY <2>8, <2>9
<1>9. ASSUME ~(s < 3 * Lines(r)) PROVE s = 3 * Lines(r) /\ c = s + 1 /\ ParseLine.text = <<>>
  <2>1. s = 3 * Lines(r)
    BY <1>4, <1>5, <1>9
  <2>2. Bytes(r)[s + 1] = "CR" /\ s + 1 <= Len(Bytes(r))
    <3>1. /\ Len(Bytes(r)) = 3 * Lines(r) + 2 + (IF r.body THEN Len(Body) ELSE 0)
          /\ Bytes(r)[3 * Lines(r) + 1] = "CR"
      BY <1>3, BytesAre
    <3> QED BY <1>5, <2>1, <3>1, HttpConnAssumption
  <2>3. s + 1 \in 1..Len(read_buf)
    BY <1>5, <1>7
  <2>4. read_buf[s + 1] = "CR"
    BY <1>3, <2>2, <2>3, AtStart
  <2>5. ~(c > s + 1)
    <3>1. c > s + 1 => s + 1 \in (start_line + 1)..(c - 1)
      BY <1>4, <1>7
    <3> QED BY <1>6, <2>4, <3>1 DEF Marks
  <2>6. c = s + 1
    BY <1>7, <2>5
  <2>7. Len(ParseLine.text) = 0 /\ ParseLine.text \in Seq(Texts)
    BY <1>4, <1>6, <2>6
  <2>8. ParseLine.text = <<>>
    BY <2>7, EmptySeq
  <2> QED BY <2>1, <2>6, <2>8
<1>10. /\ checked_idx' = c + 1 /\ start_line' = c + 1 /\ CleanLine' /\ UNCHANGED read_buf
  BY <1>6
<1> QED BY <1>2, <1>3, <1>4, <1>7, <1>8, <1>9, <1>10

LEMMA HeaderStep ==
    ASSUME NEW all, NEW off, Parsing(all, off), Header
    PROVE  Told(all, off)'
<1>1. /\ LineRead("HEADER") /\ ParseLine.text # <<>>
      /\ linger' = (linger \/ ParseLine.text = <<"keep-alive">>)
      /\ content_len' = IF ParseLine.text = <<"content-length">> THEN Len(Body) ELSE content_len
      /\ UNCHANGED <<asked, unread, answers, odd, phase, check_state, url>>
      /\ phase = "process" /\ check_state = "HEADER"
  BY DEF Header, LineRead, client, Parsing
<1>2. PICK j, r : \E s \in {3, 6, 9}, c \in Nat :
              /\ StartsAt(all, off, j, r) /\ InRequest(r) /\ InHead(r)
              /\ r \in RequestType
              /\ start_line = s /\ c + 1 <= Len(read_buf) /\ UNCHANGED read_buf
              /\ checked_idx' = c + 1 /\ start_line' = c + 1 /\ CleanLine'
              /\ s < 3 * Lines(r) => c = s + 2 /\ ParseLine.text = <<LineAfter(s, r)>>
              /\ ~(s < 3 * Lines(r)) => s = 3 * Lines(r) /\ c = s + 1 /\ ParseLine.text = <<>>
  BY <1>1, InHeader
<1>3. PICK s \in {3, 6, 9} :
          /\ StartsAt(all, off, j, r) /\ InRequest(r) /\ InHead(r) /\ r \in RequestType
          /\ start_line = s /\ s < 3 * Lines(r) /\ UNCHANGED read_buf
          /\ start_line' = s + 3 /\ CleanLine' /\ ParseLine.text = <<LineAfter(s, r)>>
  BY <1>1, <1>2
<1>4. r.ends = "CRLF" /\ r.keep \in BOOLEAN /\ r.body \in BOOLEAN
  BY <1>3 DEF InRequest, RequestType
<1>5. /\ s + 3 \in {6, 9} /\ s + 3 <= 3 * Lines(r) /\ Lines(r) \in Nat
      /\ LineAfter(s, r) = "content-length" => r.body /\ s + 3 = 3 * Lines(r) /\ (s = 3 => ~r.keep)
      /\ LineAfter(s, r) # "content-length" =>
            LineAfter(s, r) = "keep-alive" /\ r.keep /\ ~(r.body /\ s + 3 = 3 * Lines(r))
      /\ s # 3 => r.keep
  BY <1>3, <1>4, HeaderLines DEF Lines
<1>6. linger = (r.keep /\ s > 3) /\ content_len = 0
  <2>1. s # 3 * Lines(r)
    BY <1>3, <1>5
  <2> QED BY <1>3, <2>1 DEF InHead
<1>7. linger' = r.keep
  <2>1. linger' = (linger \/ LineAfter(s, r) = "keep-alive")
    BY <1>1, <1>3
  <2> QED BY <1>4, <1>5, <1>6, <2>1
<1>8. content_len' = IF r.body /\ s + 3 = 3 * Lines(r) THEN Len(Body) ELSE 0
  <2>1. content_len' = IF LineAfter(s, r) = "content-length" THEN Len(Body) ELSE 0
    BY <1>1, <1>3, <1>6
  <2> QED BY <1>4, <1>5, <2>1
<1>9. InHead(r)'
  <2>1. s + 3 > 3
    BY <1>5
  <2>2. /\ start_line' \in {3, 6, 9} /\ start_line' <= 3 * Lines(r)
        /\ linger' = (r.keep /\ start_line' > 3)
    BY <1>3, <1>4, <1>5, <1>7, <2>1
  <2>3. content_len' = IF r.body /\ start_line' = 3 * Lines(r) THEN Len(Body) ELSE 0
    BY <1>3, <1>8
  <2> QED BY <2>2, <2>3 DEF InHead
<1>10. InRequest(r)'
  BY <1>1, <1>3, <1>9 DEF InRequest
<1> QED BY <1>1, <1>3, <1>10, GoesOn

\* A whole request is answered for what it is.
LEMMA WholeStep ==
    ASSUME NEW all, NEW off, Parsing(all, off), NEW j, NEW r, StartsAt(all, off, j, r),
           r \in RequestType, r.line \in Targets, url = r.line, linger = r.keep,
           Len(Bytes(r)) <= Len(read_buf), ProcessWrite(DoRequest),
           UNCHANGED <<asked, unread, answers, read_buf, odd, linger>>
    PROVE  Told(all, off)'
<1>1. /\ Len(answers) < Len(asked)
      /\ off[Len(answers) + 2] <= Taken(all) + Len(read_buf)
      /\ "eager" \notin odd => r = Last(asked) /\ read_buf = Bytes(r)
  BY AnsweredWhole
<1>2. phase' = "out" /\ answer' = DoRequest
  BY DEF ProcessWrite
<1>3. Expected(r) = [code |-> DoRequest, keep |-> r.keep]
  <2>1. r.line # "junk"
    BY DEF Targets
  <2>2. (r.line # "junk" /\ r.keep) = r.keep
    BY <2>1 DEF RequestType
  <2> QED BY <2>2 DEF Expected, DoRequest
<1>4. "eager" \notin odd =>
          /\ [code |-> answer', keep |-> linger'] = Expected(Last(asked))
          /\ Legal(Last(asked)) => read_buf = Bytes(Last(asked))
  BY <1>1, <1>2, <1>3
<1> QED BY <1>1, <1>2, <1>4, EndsWith

LEMMA HeaderEndStep ==
    ASSUME NEW all, NEW off, Parsing(all, off), HeaderEnd
    PROVE  Told(all, off)'
<1>1. /\ LineRead("HEADER") /\ ParseLine.text = <<>>
      /\ UNCHANGED <<asked, unread, answers, odd, content_len, linger, url>>
      /\ phase = "process" /\ check_state = "HEADER"
  BY DEF HeaderEnd, LineRead, client, Parsing
<1>2. PICK j, r : \E s \in {3, 6, 9}, c \in Nat :
              /\ StartsAt(all, off, j, r) /\ InRequest(r) /\ InHead(r)
              /\ r \in RequestType
              /\ start_line = s /\ c + 1 <= Len(read_buf) /\ UNCHANGED read_buf
              /\ checked_idx' = c + 1 /\ start_line' = c + 1 /\ CleanLine'
              /\ s < 3 * Lines(r) => c = s + 2 /\ ParseLine.text = <<LineAfter(s, r)>>
              /\ ~(s < 3 * Lines(r)) => s = 3 * Lines(r) /\ c = s + 1 /\ ParseLine.text = <<>>
  BY <1>1, InHeader
<1>3. PICK s \in {3, 6, 9} :
          /\ StartsAt(all, off, j, r) /\ InRequest(r) /\ InHead(r) /\ r \in RequestType
          /\ start_line = s /\ s = 3 * Lines(r) /\ s + 2 <= Len(read_buf) /\ UNCHANGED read_buf
          /\ checked_idx' = s + 2
  <2>1. \A x : <<x>> # <<>>
    OBVIOUS
  <2> QED BY <1>1, <1>2, <2>1
<1>4. r.ends = "CRLF" /\ r.line \in Targets /\ url = r.line /\ r.keep \in BOOLEAN /\ r.body \in BOOLEAN
  BY <1>3 DEF InRequest, RequestType
<1>5. linger = r.keep
  <2>1. linger = (r.keep /\ s > 3)
    BY <1>3 DEF InHead
  <2>2. r.keep => s > 3
    BY <1>3, <1>4 DEF Lines
  <2> QED BY <1>4, <2>1, <2>2
<1>6. content_len = IF r.body THEN Len(Body) ELSE 0
  BY <1>3 DEF InHead
<1>7. CASE content_len # 0
  <2>1. r.body /\ content_len = Len(Body)
    BY <1>6, <1>7
  <2>2. check_state' = "CONTENT" /\ phase' = phase
    BY <1>7 DEF HeaderEnd
  <2>3. InBody(r)'
    <3>1. checked_idx' >= 3 * Lines(r) + 2
      BY <1>3
    <3> QED BY <1>1, <1>5, <2>1, <3>1 DEF InBody
  <2>4. InRequest(r)'
    BY <1>1, <1>4, <2>2, <2>3 DEF InRequest
  <2> QED BY <1>1, <1>3, <2>2, <2>4, GoesOn
<1>8. CASE content_len = 0
  <2>1. ~r.body
    <3>1. Len(Body) # 0
      BY HttpConnAssumption, EmptySeq
    <3> QED BY <1>6, <1>8, <3>1
  <2>2. Len(Bytes(r)) = 3 * Lines(r) + 2 + 0
    BY <1>3, <1>4, <2>1, BytesAre
  <2>3. Len(Bytes(r)) <= Len(read_buf)
    BY <1>3, <2>2
  <2>4. ProcessWrite(DoRequest)
    BY <1>8 DEF HeaderEnd
  <2> QED BY <1>1, <1>3, <1>4, <1>5, <2>3, <2>4, WholeStep
<1> QED BY <1>7, <1>8

\* Steps that leave the parser in the line or the body it is in.
LEMMA InPlace ==
    ASSUME NEW all, NEW off, Parsing(all, off),
           UNCHANGED <<asked, unread, answers, read_buf, check_state, content_len, linger, url>>,
           phase' \in {"in", "process"}, "eager" \in odd => "eager" \in odd',
           checked_idx' \in checked_idx..Len(read_buf),
           check_state # "CONTENT" => CleanLine' /\ start_line' = start_line
    PROVE  Told(all, off)'
<1>1. checked_idx \in Nat
  BY Lengths DEF Parsing
<1>2. ASSUME NEW r \in Requests, InRequest(r), check_state # "REQUESTLINE" PROVE InRequest(r)'
  <2>1. CASE check_state = "HEADER"
    BY <1>2, <2>1 DEF InRequest, InHead
  <2>2. CASE check_state # "HEADER"
    <3>1. check_state = "CONTENT"
      BY <1>2, <2>2 DEF Parsing, ConnTypes
    <3>2. InBody(r)
      BY <1>2, <3>1 DEF InRequest
    <3>3. checked_idx >= 3 * Lines(r) + 2 => checked_idx' >= 3 * Lines(r) + 2
      <4>1. Lines(r) \in Nat
        BY DEF Lines
      <4> QED BY <1>1, <4>1
    <3> QED BY <1>2, <3>1, <3>2, <3>3 DEF InRequest, InBody
  <2> QED BY <2>1, <2>2
<1>3. ASSUME check_state # "REQUESTLINE" PROVE \E j, r : StartsAt(all, off, j, r) /\ InRequest(r)'
  <2>1. PICK j \in (Len(answers) + 1)..Len(asked), r \in Requests :
            off[j] = Taken(all) /\ asked[j] = r /\ InRequest(r)
    BY <1>3 DEF Parsing, BeforeAnswer
  <2>2. StartsAt(all, off, j, r)
    BY <2>1 DEF StartsAt
  <2> QED BY <1>2, <1>3, <2>1, <2>2
<1> QED BY <1>3, GoesOn

LEMMA ContentStep ==
    ASSUME NEW all, NEW off, Parsing(all, off), Content
    PROVE  Told(all, off)'
<1>1. /\ check_state = "CONTENT" /\ phase = "process"
      /\ UNCHANGED <<asked, unread, answers, odd, read_buf, checked_idx, check_state, content_len, linger, url>>
  BY DEF Content, AtContent, client
<1>2. ConnTypes /\ checked_idx \in Nat /\ Len(read_buf) \in Nat /\ checked_idx <= Len(read_buf)
  BY Lengths DEF Parsing
<1>3. CASE ParseContent
  <2>1. PICK j \in (Len(answers) + 1)..Len(asked), r \in Requests :
            off[j] = Taken(all) /\ asked[j] = r /\ InRequest(r)
    BY <1>1 DEF Parsing, BeforeAnswer
  <2>2. StartsAt(all, off, j, r) /\ InBody(r) /\ r \in RequestType
    BY <1>1, <2>1, HttpConnAssumption DEF StartsAt, InRequest
  <2>3. Len(Bytes(r)) <= Len(read_buf)
    <3>1. Len(Bytes(r)) = 3 * Lines(r) + 2 + Len(Body)
      BY <2>1, <2>2, BytesAre DEF InBody, InRequest
    <3>2. Len(read_buf) >= Len(Body) + checked_idx /\ checked_idx >= 3 * Lines(r) + 2
      BY <1>3, <2>2 DEF ParseContent, InBody
    <3>3. Len(Body) \in Nat /\ Lines(r) \in Nat
      BY HttpConnAssumption DEF Lines
    <3> QED BY <1>2, <3>1, <3>2, <3>3
  <2>4. r.line \in Targets /\ url = r.line /\ linger = r.keep
    BY <2>1, <2>2 DEF InRequest, InBody
  <2>5. ProcessWrite(DoRequest)
    BY <1>3 DEF Content
  <2> QED BY <1>1, <2>2, <2>3, <2>4, <2>5, WholeStep
<1>4. CASE ~ParseContent
  <2>1. phase' = phase
    BY <1>4 DEF Content
  <2> QED BY <1>1, <1>2, <2>1, InPlace
<1> QED BY <1>3, <1>4

LEMMA LineInBodyStep ==
    ASSUME NEW all, NEW off, Parsing(all, off), LineInBody
    PROVE  Told(all, off)'
<1>1. /\ check_state = "CONTENT" /\ phase = "process" /\ checked_idx' = ParseLine.checked
      /\ UNCHANGED <<asked, unread, answers, read_buf, phase, check_state, content_len, linger, url>>
      /\ odd' = odd \cup {"split"}
  BY DEF LineInBody, LineRead
<1>2. ParseLine.checked \in checked_idx..Len(read_buf)
  BY ParseLineIs DEF Parsing, ConnTypes, IndicesOK
<1> QED BY <1>1, <1>2, InPlace

LEMMA NoRequestStep ==
    ASSUME NEW all, NEW off, Parsing(all, off), NoRequest
    PROVE  Told(all, off)'
<1>1. /\ ParseLine.state # "OK" /\ phase' = "in" /\ checked_idx' = ParseLine.checked
      /\ UNCHANGED <<asked, unread, answers, read_buf, start_line, check_state, content_len, linger, url>>
      /\ odd \subseteq odd'
  BY DEF NoRequest
<1>2. IndicesOK /\ (check_state # "CONTENT" => CleanLine)
  BY DEF Parsing, ConnTypes, BeforeAnswer
<1>3. /\ ParseLine.checked \in checked_idx..Len(read_buf)
      /\ CleanLine => \A k \in (start_line + 1)..ParseLine.checked : read_buf[k] \notin Marks
  BY <1>1, <1>2, ParseLineIs
<1>4. check_state # "CONTENT" => CleanLine'
  BY <1>1, <1>2, <1>3 DEF CleanLine
<1> QED BY <1>1, <1>3, <1>4, InPlace

-----------------------------------------------------------------------------
(* read_conn and write_conn.                                               *)

LEMMA ReadStep ==
    ASSUME ConnTypes, NEW all, NEW off, Told(all, off),
           NEW n \in 1..Len(unread), ReadConn(n), Room(n)
    PROVE  Told(all, off)'
<1> DEFINE m == Len(read_buf)
           u == Len(unread)
           d == Taken(all)
<1>1. /\ phase = "in" /\ phase' = "process"
      /\ UNCHANGED <<asked, answers, odd, checked_idx, start_line, check_state, content_len, linger, url>>
  BY DEF ReadConn
<1>2. StreamOf(asked, all, off) /\ Held(all) /\ BeforeAnswer(all, off)
  BY <1>1 DEF Told
<1>3. /\ Len(unread') = u - n /\ Len(read_buf') = m + n
      /\ \A i \in 1..(u - n) : unread'[i] = unread[n + i]
      /\ \A i \in 1..m : read_buf'[i] = read_buf[i]
      /\ \A i \in 1..n : read_buf'[m + i] = unread[i]
  BY Reading
<1>4. /\ m \in Nat /\ u \in Nat /\ Len(all) \in Nat /\ d = Len(all) - m - u
      /\ n \in 1..u /\ d \in Int /\ d >= 0
      /\ checked_idx \in Nat /\ start_line \in Nat /\ checked_idx <= m /\ start_line <= checked_idx
  BY <1>2, Lengths, Offsets DEF Taken, Held
<1>5. /\ \A i \in 1..m : read_buf[i] = all[d + i]
      /\ \A i \in 1..u : unread[i] = all[d + m + i]
  BY <1>2 DEF Held
<1>6. Taken(all)' = Len(all) - Len(read_buf') - Len(unread')
  BY DEF Taken
<1>7. CleanLine => CleanLine'
  <2> SUFFICES ASSUME CleanLine PROVE CleanLine'
    OBVIOUS
  <2>1. ASSUME NEW k \in (start_line + 1)..checked_idx PROVE read_buf'[k] \notin Marks
    <3>1. k \in 1..m
      BY <1>4
    <3>2. read_buf'[k] = read_buf[k]
      BY <1>3, <3>1
    <3> QED BY <3>2 DEF CleanLine
  <2>2. ASSUME start_line > 0 PROVE read_buf'[start_line] = "LF"
    <3>1. start_line \in 1..m
      BY <1>4, <2>2
    <3>2. read_buf'[start_line] = read_buf[start_line]
      BY <1>3, <3>1
    <3> QED BY <2>2, <3>2 DEF CleanLine
  <2> QED BY <1>1, <2>1, <2>2 DEF CleanLine
<1> HIDE DEF m, u, d
<1>8. Taken(all)' = d
  BY <1>3, <1>4, <1>6
<1>9. Held(all)'
  <2>1. ASSUME NEW i \in 1..(m + n) PROVE read_buf'[i] = all[d + i]
    <3>1. CASE i <= m
      BY <1>3, <1>4, <1>5, <3>1
    <3>2. CASE ~(i <= m)
      <4>1. PICK k \in 1..n : m + k = i
        <5>1. i - m \in 1..n /\ m + (i - m) = i
          BY <1>4, <3>2
        <5> QED BY <5>1
      <4>2. k \in 1..u /\ d + m + k = d + i
        BY <1>4, <4>1
      <4>3. read_buf'[i] = unread[k] /\ unread[k] = all[d + m + k]
        BY <1>3, <1>5, <4>1, <4>2
      <4> QED BY <4>2, <4>3
    <3> QED BY <3>1, <3>2
  <2>2. ASSUME NEW i \in 1..(u - n) PROVE unread'[i] = all[d + (m + n) + i]
    <3>1. PICK k \in 1..u : k = n + i
      BY <1>4
    <3>2. d + m + k = d + (m + n) + i
      BY <1>4, <3>1
    <3>3. unread'[i] = unread[k] /\ unread[k] = all[d + m + k]
      BY <1>3, <1>5, <3>1
    <3> QED BY <3>2, <3>3
  <2>3. Taken(all)' >= 0
    BY <1>4, <1>8
  <2> QED BY <1>3, <1>8, <2>1, <2>2, <2>3 DEF Held
<1>10. ASSUME NEW r, InRequest(r) PROVE InRequest(r)'
  BY <1>1, <1>10 DEF InRequest, InHead, InBody
<1>11. BeforeAnswer(all, off)'
  <2>1. /\ off[Len(answers') + 1] <= Taken(all)'
        /\ "eager" \notin odd' => off[Len(answers') + 1] = Taken(all)'
    BY <1>1, <1>2, <1>8 DEF BeforeAnswer, d
  <2>2. check_state' # "CONTENT" => CleanLine'
    BY <1>1, <1>2, <1>7 DEF BeforeAnswer
  <2>3. check_state' = "REQUESTLINE" =>
            start_line' = 0 /\ url' = "none" /\ linger' = FALSE /\ content_len' = 0
    BY <1>1, <1>2 DEF BeforeAnswer
  <2>4. check_state' # "REQUESTLINE" =>
            \E j \in (Len(answers') + 1)..Len(asked'), r \in Requests :
                off[j] = Taken(all)' /\ asked'[j] = r /\ InRequest(r)'
    <3> SUFFICES ASSUME check_state' # "REQUESTLINE"
                 PROVE  \E j \in (Len(answers) + 1)..Len(asked), r \in Requests :
                            off[j] = d /\ asked[j] = r /\ InRequest(r)'
      BY <1>1, <1>8
    <3>1. PICK j \in (Len(answers) + 1)..Len(asked), r \in Requests :
              off[j] = d /\ asked[j] = r /\ InRequest(r)
      BY <1>1, <1>2 DEF BeforeAnswer, d
    <3> QED BY <1>10, <3>1
  <2> QED BY <2>1, <2>2, <2>3, <2>4, Zenon DEF BeforeAnswer
<1>12. asked' = asked
  BY <1>1
<1> QED BY <1>1, <1>2, <1>9, <1>11, <1>12 DEF Told

\* init() between two answers.
LEMMA WriteEndStep ==
    ASSUME ConnTypes, Counted, NEW all, NEW off, Told(all, off), WriteEnd, linger
    PROVE  Told(all, off)'
<1> DEFINE m == Len(read_buf)
           u == Len(unread)
           d == Taken(all)
           a == Len(answers)
           n == Len(asked)
<1>1. /\ phase = "out" /\ phase' = "in" /\ Cleared
      /\ answers' = Append(answers, [code |-> answer, keep |-> linger])
      /\ UNCHANGED <<asked, unread, odd>>
  BY DEF WriteEnd
<1>2. /\ StreamOf(asked, all, off) /\ Held(all) /\ AtAnswer(all, off)
  BY <1>1 DEF Told
<1>3. /\ m \in Nat /\ u \in Nat /\ Len(all) \in Nat /\ d = Len(all) - m - u
      /\ a \in Nat /\ n \in Nat /\ a < n
      /\ d \in Int /\ d >= 0 /\ off[n + 1] = Len(all)
  BY <1>2, Lengths, Offsets DEF Taken, Held, AtAnswer
<1>4. off[a + 2] <= d + m /\ off[a + 2] \in Nat
  <2>1. a + 2 \in 1..(n + 1)
    BY <1>3
  <2> QED BY <1>2, <2>1, Offsets DEF AtAnswer
<1>5. /\ read_buf' = <<>> /\ Len(read_buf') = 0 /\ checked_idx' = 0 /\ start_line' = 0
      /\ check_state' = "REQUESTLINE" /\ content_len' = 0 /\ linger' = FALSE /\ url' = "none"
  BY <1>1 DEF Cleared
<1>6. Len(answers') = a + 1
  BY <1>1 DEF ConnTypes
<1>7. \A i \in 1..u : unread[i] = all[d + m + i]
  BY <1>2 DEF Held
<1>8. Taken(all)' = Len(all) - Len(read_buf') - Len(unread')
  BY DEF Taken
<1>9. "eager" \notin odd => n <= a + 1
  BY DEF Counted
<1> HIDE DEF m, u, d, a, n
<1>10. Taken(all)' = d + m
  <2>1. Len(unread') = u
    BY <1>1 DEF u
  <2> QED BY <1>3, <1>5, <1>8, <2>1
<1>11. Held(all)'
  <2>1. \A i \in 1..Len(read_buf') : FALSE
    BY <1>5
  <2>2. ASSUME NEW i \in 1..Len(unread') PROVE unread'[i] = all[Taken(all)' + Len(read_buf') + i]
    <3>1. i \in 1..u /\ unread' = unread
      BY <1>1 DEF u
    <3>2. Taken(all)' + Len(read_buf') + i = d + m + i
      BY <1>3, <1>5, <1>10
    <3> QED BY <1>7, <3>1, <3>2
  <2>3. Taken(all)' >= 0
    BY <1>3, <1>10
  <2> QED BY <2>1, <2>2, <2>3 DEF Held
<1>12. BeforeAnswer(all, off)'
  <2>1. off[Len(answers') + 1] <= Taken(all)'
    <3>1. Len(answers') + 1 = a + 2
      BY <1>3, <1>6
    <3> QED BY <1>4, <1>10, <3>1
  <2>2. "eager" \notin odd' => off[Len(answers') + 1] = Taken(all)'
    <3>1. ASSUME "eager" \notin odd PROVE off[a + 2] = d + m
      <4>1. n + 1 = a + 2
        BY <1>3, <1>9, <3>1
      <4> QED BY <1>3, <1>4, <4>1
    <3>2. Len(answers') + 1 = a + 2
      BY <1>3, <1>6
    <3> QED BY <1>1, <1>10, <3>1, <3>2
  <2>3. CleanLine'
    <3>1. \A k \in (start_line' + 1)..checked_idx' : FALSE
      BY <1>5
    <3> QED BY <1>5, <3>1 DEF CleanLine
  <2> QED BY <1>5, <2>1, <2>2, <2>3 DEF BeforeAnswer
<1>13. asked' = asked
  BY <1>1
<1> QED BY <1>1, <1>2, <1>11, <1>12, <1>13 DEF Told

\* Steps of write_conn before the end, and steps that change nothing.
LEMMA WaitStep ==
    ASSUME NEW all, NEW off, Told(all, off),
           UNCHANGED <<asked, unread, answers, parser, answer>>,
           phase' \in {phase, "spin"}, "eager" \in odd => "eager" \in odd'
    PROVE  Told(all, off)'
<1>1. StreamOf(asked', all, off) /\ Held(all)' /\ Taken(all)' = Taken(all)
  BY SameStream DEF Told, parser
<1>2. ASSUME phase = "out" PROVE AtAnswer(all, off)'
  <2>1. AtAnswer(all, off)
    BY <1>2 DEF Told
  <2>2. asked' = asked /\ answers' = answers /\ read_buf' = read_buf /\ linger' = linger /\ answer' = answer
    BY DEF parser
  <2> QED BY <1>1, <2>1, <2>2 DEF AtAnswer
<1>3. ASSUME phase \in {"in", "process"} PROVE BeforeAnswer(all, off)'
  <2>1. BeforeAnswer(all, off)
    BY <1>3 DEF Told
  <2>2. ASSUME NEW r, InRequest(r) PROVE InRequest(r)'
    BY <2>2 DEF InRequest, InHead, InBody, parser
  <2>3. CleanLine => CleanLine'
    BY DEF CleanLine, parser
  <2>4. /\ off[Len(answers') + 1] <= Taken(all)'
        /\ "eager" \notin odd' => off[Len(answers') + 1] = Taken(all)'
        /\ check_state' # "CONTENT" => CleanLine'
        /\ check_state' = "REQUESTLINE" =>
            start_line' = 0 /\ url' = "none" /\ linger' = FALSE /\ content_len' = 0
    BY <1>1, <2>1, <2>3 DEF BeforeAnswer, parser
  <2>5. check_state' # "REQUESTLINE" =>
            \E j \in (Len(answers') + 1)..Len(asked'), r \in Requests :
                off[j] = Taken(all)' /\ asked'[j] = r /\ InRequest(r)'
    <3> SUFFICES ASSUME check_state' # "REQUESTLINE"
                 PROVE  \E j \in (Len(answers) + 1)..Len(asked), r \in Requests :
                            off[j] = Taken(all) /\ asked[j] = r /\ InRequest(r)'
      BY <1>1
    <3>1. PICK j \in (Len(answers) + 1)..Len(asked), r \in Requests :
              off[j] = Taken(all) /\ asked[j] = r /\ InRequest(r)
      BY <2>1 DEF BeforeAnswer, parser
    <3> QED BY <2>2, <3>1
  <2> QED BY <2>4, <2>5, Zenon DEF BeforeAnswer
<1> QED BY <1>1, <1>2, <1>3 DEF Told

LEMMA CountedEnd ==
    ASSUME ConnTypes, Counted, NEW all, NEW off, Told(all, off), WriteEnd
    PROVE  Counted'
<1> DEFINE a == Len(answers)
           n == Len(asked)
           v == [code |-> answer, keep |-> linger]
<1>1. /\ AtAnswer(all, off) /\ answers' = Append(answers, v)
      /\ UNCHANGED <<asked, odd>>
  BY DEF WriteEnd, Told
<1>2. a \in Nat /\ n \in Nat /\ a < n /\ ("eager" \notin odd => n <= a + 1 /\ v = Expected(Last(asked)))
  BY <1>1, Lengths DEF AtAnswer, Counted
<1>3. Len(answers') = a + 1 /\ answers'[a + 1] = v /\ \A k \in 1..a : answers'[k] = answers[k]
  <2>1. answers \in Seq(Answers)
    BY DEF ConnTypes
  <2>2. v \in Answers
    BY DEF ConnTypes, Answers
  <2> HIDE DEF v
  <2> QED BY <1>1, <2>1, <2>2
<1>4. ASSUME "eager" \notin odd, NEW k \in 1..(a + 1) PROVE answers'[k] = Expected(asked[k])
  <2>1. CASE k \in 1..a
    BY <1>3, <1>4, <2>1 DEF Counted
  <2>2. CASE k = a + 1
    <3>1. n = k
      BY <1>2, <1>4, <2>2
    <3> QED BY <1>2, <1>3, <1>4, <2>2, <3>1 DEF Last
  <2> QED BY <1>2, <2>1, <2>2
<1> HIDE DEF a, n, v
<1>5. Len(asked') = n /\ Len(answers') = a + 1 /\ asked' = asked /\ odd' = odd
  BY <1>1, <1>3 DEF n
<1>6. a + 1 <= n /\ ("eager" \notin odd => n <= (a + 1) + 1)
  BY <1>2
<1> QED BY <1>4, <1>5, <1>6 DEF Counted

\* Counted is about the requests and the answers.
LEMMA CountedSame ==
    ASSUME Counted, UNCHANGED <<asked, answers>>, "eager" \in odd => "eager" \in odd'
    PROVE  Counted'
BY DEF Counted

LEMMA ConnNext == ConnInv /\ [Next]_vars => ConnInv'
<1> SUFFICES ASSUME ConnInv, [Next]_vars PROVE ConnInv'
  OBVIOUS
<1>1. ConnTypes /\ Counted /\ (phase # "closed" => \E all, off : Told(all, off))
  BY DEF ConnInv
<1>2. CASE \E r \in Requests : Ask(r)
  BY <1>2, ConnAsk
<1>3. ASSUME NEW n \in 1..Len(unread), ReadConn(n) PROVE ConnInv'
  <2>1. ConnTypes' /\ Counted'
    BY <1>1, <1>3, TypesRead, CountedSame DEF ReadConn
  <2>2. PICK all, off : Told(all, off)
    BY <1>1, <1>3 DEF ReadConn
  <2>3. phase' # "closed" => Told(all, off)'
    BY <1>1, <1>3, <2>2, ReadStep DEF ReadConn
  <2> QED BY <2>1, <2>3 DEF ConnInv
<1>4. CASE Process
  <2>1. /\ phase = "process" /\ UNCHANGED <<asked, answers>>
        /\ "eager" \in odd => "eager" \in odd'
    BY <1>4 DEF Process, RequestLine, BadRequestLine, Header, HeaderEnd, Content, LineInBody,
                NoRequest, LineRead, client
  <2>2. ConnTypes' /\ Counted'
    BY <1>1, <1>4, <2>1, TypesProcess, CountedSame
  <2>3. PICK all, off : Told(all, off)
    BY <1>1, <2>1
  <2>4. Parsing(all, off)
    BY <1>1, <2>1, <2>3 DEF Parsing, Told
  <2>5. Told(all, off)'
    BY <1>4, <2>4, RequestLineStep, BadRequestLineStep, HeaderStep, HeaderEndStep, ContentStep,
       LineInBodyStep, NoRequestStep DEF Process
  <2> QED BY <2>2, <2>5 DEF ConnInv
<1>5. CASE WriteEnd
  <2>1. phase = "out" /\ (phase' # "closed" => linger)
    BY <1>5 DEF WriteEnd
  <2>2. PICK all, off : Told(all, off)
    BY <1>1, <2>1
  <2>3. ConnTypes' /\ Counted'
    BY <1>1, <1>5, <2>2, TypesWrite, CountedEnd DEF Write
  <2>4. phase' # "closed" => Told(all, off)'
    BY <1>1, <1>5, <2>1, <2>2, WriteEndStep
  <2> QED BY <2>3, <2>4 DEF ConnInv
<1>6. CASE (\E n \in 1..to_send : WritePart(n)) \/ Spin \/ UNCHANGED vars
  <2>1. /\ UNCHANGED <<asked, unread, answers, parser, answer>>
        /\ phase' \in {phase, "spin"} /\ ("eager" \in odd => "eager" \in odd')
        /\ phase = "closed" => phase' = "closed"
    BY <1>6 DEF WritePart, Spin, vars, client, writer
  <2>2. ConnTypes'
    BY <1>1, <1>6, TypesWrite DEF Write
  <2>3. Counted'
    BY <1>1, <2>1, CountedSame
  <2>4. ASSUME phase # "closed" PROVE \E all, off : Told(all, off)'
    <3>1. PICK all, off : Told(all, off)
      BY <1>1, <2>4
    <3>2. Told(all, off)'
      BY <2>1, <3>1, WaitStep
    <3> QED BY <3>2
  <2> QED BY <2>1, <2>2, <2>3, <2>4 DEF ConnInv
<1>7. CASE WriteFails
  <2>1. phase' = "closed" /\ UNCHANGED <<asked, answers>> /\ ("eager" \in odd => "eager" \in odd')
    BY <1>7 DEF WriteFails
  <2>2. ConnTypes' /\ Counted'
    BY <1>1, <1>7, <2>1, TypesWrite, CountedSame
  <2> QED BY <2>1, <2>2 DEF ConnInv
<1> QED BY <1>2, <1>3, <1>4, <1>5, <1>6, <1>7 DEF Next, Read, Write

\* Whatever is asked and in what pieces it arrives, a client that waits for
\* each answer gets the answers its requests deserve, in their order: nothing
\* of one request is left in the parser for the next (process_read, init).
THEOREM AnswersForRequests == Spec => []AnswersMatch
<1>1. ConnInv => AnswersMatch
  BY DEF ConnInv, Counted, AnswersMatch
<1> QED BY <1>1, ConnInit, ConnNext, PTL DEF Spec

\* A well-formed request is answered only when all of it is in the buffer and,
\* if the client waits, nothing else is (parse_content, init); the indices of
\* the parser stay within the buffer.
THEOREM AnsweredInWhole == Spec => []AnswersWhole
<1>1. ConnInv /\ WriterInv => AnswersWhole
  <2> SUFFICES ASSUME ConnInv, WriterInv PROVE AnswersWhole
    OBVIOUS
  <2>1. ConnTypes /\ Counted /\ (phase # "closed" => \E all, off : Told(all, off))
    BY DEF ConnInv
  <2>2. TypeOK
    BY <2>1 DEF TypeOK, ConnTypes, Counted, IndicesOK, WriterInv, Texts
  <2>3. ASSUME phase = "out", "eager" \notin odd, Legal(Last(asked))
        PROVE  read_buf = Bytes(Last(asked))
    BY <2>1, <2>3 DEF Told, AtAnswer
  <2> QED BY <2>2, <2>3 DEF AnswersWhole
<1> QED BY <1>1, ConnInit, ConnNext, WriterInit, WriterNext, PTL DEF Spec

=============================================================================
