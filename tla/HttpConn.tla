------------------------------ MODULE HttpConn ------------------------------
(***************************************************************************)
(* One connection of the web server: http_conn.h from the bytes that       *)
(* arrive to the bytes that leave.                                         *)
(*                                                                         *)
(* The main thread reads (read_conn) and writes (write_conn), a worker     *)
(* parses and prepares the answer (process); WebServer shows that they     *)
(* never overlap on one connection, so each is a sequence of steps here.   *)
(* A request arrives in pieces of any size, the kernel takes an answer in  *)
(* pieces of any size.                                                     *)
(*                                                                         *)
(* A byte is CR, LF, another byte of a body, or the whole text of a line,  *)
(* which counts as one.                                                    *)
(***************************************************************************)
EXTENDS Integers, Sequences, SequencesExt, FiniteSetsExt

CONSTANTS
    Capacity,       \* READ_BUFFER_SIZE
    Body,           \* the body of a POST, as its Content-Length announces it
    HeadLength,     \* bytes of a prepared answer in m_write_buf
    FileLength,     \* bytes of the file that follows
    Requests,       \* what clients may ask
    MaxRequests     \* bound: requests on this connection

Targets == {"file", "missing", "forbidden", "directory"}

(***************************************************************************)
(* A request has a request line - a good one for one of the targets, or    *)
(* junk -, perhaps a keep-alive header, perhaps a body that its            *)
(* Content-Length header announces; "ends" tells whether lines end in CR   *)
(* LF or in LF alone.                                                      *)
(***************************************************************************)
RequestType == [line : Targets \cup {"junk"}, keep : BOOLEAN,
                body : BOOLEAN, ends : {"CRLF", "LF"}]

ASSUME HttpConnAssumption ==
    /\ Capacity \in Nat \ {0} /\ MaxRequests \in Nat
    /\ Body \in Seq({"CR", "LF", "b"}) /\ Body # <<>>
    /\ HeadLength \in Nat \ {0} /\ FileLength \in Nat
    /\ Requests \subseteq RequestType

VARIABLES
    asked,        \* the requests of the client, in order
    unread,       \* what it has sent and read_conn has not read
    answers,      \* the answers it has got to the end
    received,     \* what it has got of the answer in progress
    odd,          \* history: unusual things that have happened
    phase,        \* whose turn it is: epoll ("in", "out"), the worker, no one
    read_buf,     \* m_read_buf up to m_read_idx
    checked_idx, start_line, check_state, content_len, linger, url,
    line_state,   \* local to process_read
    answer,       \* what process_write was asked to prepare
    iov,          \* m_iv, m_iv_count
    to_send, have_send

client == <<asked, unread, answers, received, odd>>
parser == <<read_buf, checked_idx, start_line, check_state, content_len, linger, url>>
writer == <<answer, iov, to_send, have_send>>
vars == <<client, phase, parser, line_state, writer>>

Eol(r) == IF r.ends = "CRLF" THEN <<"CR", "LF">> ELSE <<"LF">>

\* A request as it is sent.
Bytes(r) ==
    <<r.line>> \o Eol(r)
    \o (IF r.keep THEN <<"keep-alive">> \o Eol(r) ELSE <<>>)
    \o (IF r.body THEN <<"content-length">> \o Eol(r) ELSE <<>>)
    \o Eol(r)
    \o (IF r.body THEN Body ELSE <<>>)

NoIov == [base0 |-> 0, len0 |-> 0, base1 |-> 0, len1 |-> 0, count |-> 0]

TypeOK ==
    /\ asked \in Seq(Requests)
    /\ Len(asked) <= MaxRequests
    /\ unread \in Seq(UNION {Range(Bytes(r)) : r \in Requests})
    /\ Len(answers) <= Len(asked)
    /\ odd \subseteq {"eager", "split", "cut", "failed"}
    /\ phase \in {"in", "process", "out", "spin", "closed"}
    /\ Len(read_buf) <= Capacity
    /\ start_line \in 0..checked_idx
    /\ checked_idx \in 0..Len(read_buf)
    /\ check_state \in {"REQUESTLINE", "HEADER", "CONTENT"}
    /\ content_len \in {0, Len(Body)}
    /\ linger \in BOOLEAN
    /\ url \in Targets \cup {"none"}
    /\ line_state \in {"OK", "OPEN"}
    /\ to_send >= 0 /\ have_send >= 0
    /\ phase = "in" => Len(read_buf) < Capacity

\* Mutant: whether to keep the connection is remembered from the last request.
StickyCleared ==
    /\ read_buf' = <<>> /\ checked_idx' = 0 /\ start_line' = 0
    /\ check_state' = "REQUESTLINE" /\ content_len' = 0
    /\ url' = "none"
    /\ to_send' = 0 /\ have_send' = 0
    /\ UNCHANGED linger

\* init(): everything that was read is forgotten, parsed or not.
Cleared ==
    /\ read_buf' = <<>> /\ checked_idx' = 0 /\ start_line' = 0
    /\ check_state' = "REQUESTLINE" /\ content_len' = 0
    /\ linger' = FALSE /\ url' = "none"
    /\ to_send' = 0 /\ have_send' = 0

Init ==
    /\ asked = <<>> /\ unread = <<>> /\ answers = <<>> /\ received = <<>> /\ odd = {}
    /\ phase = "in"
    /\ read_buf = <<>> /\ checked_idx = 0 /\ start_line = 0
    /\ check_state = "REQUESTLINE" /\ content_len = 0 /\ linger = FALSE /\ url = "none"
    /\ line_state = "OK"
    /\ answer = "none" /\ iov = NoIov /\ to_send = 0 /\ have_send = 0

-----------------------------------------------------------------------------
(***************************************************************************)
(* The client.  It may ask before the last answer has ended ("eager").     *)
(***************************************************************************)

Ask(r) ==
    /\ phase # "closed"
    /\ Len(asked) < MaxRequests
    /\ asked' = Append(asked, r)
    /\ unread' = unread \o Bytes(r)
    /\ odd' = IF Len(answers) < Len(asked) THEN odd \cup {"eager"} ELSE odd
    /\ UNCHANGED <<answers, received, phase, parser, line_state, writer>>

-----------------------------------------------------------------------------
(***************************************************************************)
(* The main thread reads until the socket is empty, n bytes of what the    *)
(* client has sent.  A buffer that becomes full makes the next recv ask    *)
(* for 0 bytes and answer 0, which counts as the end of the connection.    *)
(***************************************************************************)

Room(n) == Len(read_buf) + n < Capacity

ReadConn(n) ==
    /\ phase = "in"
    /\ n <= Len(unread)
    /\ unread' = SubSeq(unread, n + 1, Len(unread))
    /\ IF Room(n)
       THEN /\ read_buf' = read_buf \o SubSeq(unread, 1, n)
            /\ phase' = "process"
       ELSE /\ phase' = "closed"
            /\ UNCHANGED read_buf
    /\ line_state' = "OK"
    /\ UNCHANGED <<asked, answers, received, odd, checked_idx, start_line,
                   check_state, content_len, linger, url, writer>>

-----------------------------------------------------------------------------
(***************************************************************************)
(* The worker: process_read is a loop over lines, one iteration a step.    *)
(***************************************************************************)

\* Mutant: a CR at the end of what has been read is passed over.
HastyParseLine ==
    LET ends == {i \in (checked_idx + 1)..Len(read_buf) : read_buf[i] \in {"CR", "LF"}}
        i == Min(ends)
        stop(s, checked, last) == [state |-> s, checked |-> checked,
                                   text |-> SubSeq(read_buf, start_line + 1, last)]
    IN  IF ends = {} THEN stop("OPEN", Len(read_buf), 0)
        ELSE IF read_buf[i] = "CR"
        THEN IF i = Len(read_buf) THEN stop("OPEN", i, 0)
             ELSE IF read_buf[i + 1] = "LF" THEN stop("OK", i + 1, i - 1)
             ELSE stop("BAD", i - 1, 0)
        ELSE stop("BAD", i - 1, 0)

(***************************************************************************)
(* parse_line scans from m_checked_idx to the next CR or LF.  A CR at the  *)
(* end of the buffer is looked at again when more has been read.           *)
(***************************************************************************)
ParseLine ==
    LET ends == {i \in (checked_idx + 1)..Len(read_buf) : read_buf[i] \in {"CR", "LF"}}
        i == Min(ends)
        stop(s, checked, last) == [state |-> s, checked |-> checked,
                                   text |-> SubSeq(read_buf, start_line + 1, last)]
    IN  IF ends = {} THEN stop("OPEN", Len(read_buf), 0)
        ELSE IF read_buf[i] = "CR"
        THEN IF i = Len(read_buf) THEN stop("OPEN", i - 1, 0)
             ELSE IF read_buf[i + 1] = "LF" THEN stop("OK", i + 1, i - 1)
             ELSE stop("BAD", i - 1, 0)
        ELSE IF i > 2 /\ read_buf[i - 1] = "CR" THEN stop("OK", i, i - 2)
        ELSE stop("BAD", i - 1, 0)

\* The loop goes on with the body only right after a good line.
AtContent == check_state = "CONTENT" /\ line_state = "OK"

\* do_request: what stat says of the file.
DoRequest ==
    CASE url = "file"      -> "FILE_REQUEST"
      [] url = "missing"   -> "NO_RESOURCE"
      [] url = "forbidden" -> "FORBIDDEN_REQUEST"
      [] OTHER             -> "BAD_REQUEST"

(***************************************************************************)
(* process_write, and the end of process(): the head of the answer is in   *)
(* m_write_buf, a file follows from its mapping.                           *)
(***************************************************************************)
ProcessWrite(code) ==
    /\ answer' = code
    /\ IF code = "FILE_REQUEST"
       THEN /\ iov' = [base0 |-> 0, len0 |-> HeadLength,
                       base1 |-> 0, len1 |-> FileLength, count |-> 2]
            /\ to_send' = HeadLength + FileLength
       ELSE /\ iov' = [iov EXCEPT !.base0 = 0, !.len0 = HeadLength, !.count = 1]
            /\ to_send' = HeadLength
    /\ phase' = "out"
    /\ UNCHANGED have_send

\* A line has been read: it is passed over, then looked at.
LineRead(state) ==
    /\ phase = "process"
    /\ ~AtContent
    /\ check_state = state
    /\ ParseLine.state = "OK"
    /\ line_state' = "OK"
    /\ checked_idx' = ParseLine.checked
    /\ start_line' = ParseLine.checked
    /\ UNCHANGED read_buf

RequestLine ==
    /\ LineRead("REQUESTLINE")
    /\ \E t \in Targets :
        /\ ParseLine.text = <<t>>
        /\ url' = t
        /\ check_state' = "HEADER"
    /\ UNCHANGED <<client, phase, content_len, linger, writer>>

BadRequestLine ==
    /\ LineRead("REQUESTLINE")
    /\ \A t \in Targets : ParseLine.text # <<t>>
    /\ ProcessWrite("BAD_REQUEST")
    /\ UNCHANGED <<client, check_state, content_len, linger, url>>

Header ==
    /\ LineRead("HEADER")
    /\ ParseLine.text # <<>>
    /\ linger' = (linger \/ ParseLine.text = <<"keep-alive">>)
    /\ content_len' = IF ParseLine.text = <<"content-length">>
                      THEN Len(Body) ELSE content_len
    /\ UNCHANGED <<client, phase, check_state, url, writer>>

\* The empty line ends the header; a body follows if one was announced.
HeaderEnd ==
    /\ LineRead("HEADER")
    /\ ParseLine.text = <<>>
    /\ IF content_len # 0
       THEN check_state' = "CONTENT" /\ UNCHANGED <<phase, writer>>
       ELSE ProcessWrite(DoRequest) /\ UNCHANGED check_state
    /\ UNCHANGED <<client, content_len, linger, url>>

\* Mutant: the body is taken to be there when its last byte is missing.
ShortParseContent == Len(read_buf) + 1 >= content_len + checked_idx

ParseContent == Len(read_buf) >= content_len + checked_idx

(***************************************************************************)
(* The body is not looked at, only counted from m_checked_idx on.          *)
(***************************************************************************)
Content ==
    /\ phase = "process"
    /\ AtContent
    /\ start_line' = checked_idx
    /\ IF ParseContent
       THEN ProcessWrite(DoRequest) /\ UNCHANGED line_state
       ELSE line_state' = "OPEN" /\ UNCHANGED <<phase, writer>>
    /\ UNCHANGED <<client, read_buf, checked_idx, check_state, content_len, linger, url>>

(***************************************************************************)
(* No further line: NO_REQUEST, and epoll is asked for more input.  A bad  *)
(* line counts as an incomplete one.  Within a body, parse_line still      *)
(* moves m_checked_idx: what has arrived of it is no longer counted        *)
(* ("split").                                                              *)
(***************************************************************************)
NoRequest ==
    /\ phase = "process"
    /\ ~AtContent
    /\ ParseLine.state # "OK"
    /\ checked_idx' = ParseLine.checked
    /\ odd' = IF check_state = "CONTENT" /\ checked_idx' # checked_idx
              THEN odd \cup {"split"} ELSE odd
    /\ phase' = "in"
    /\ UNCHANGED <<asked, unread, answers, received, read_buf, start_line,
                   check_state, content_len, linger, url, line_state, writer>>

\* In a body that holds line ends, parse_line may even find a line, and the
\* loop then counts the body from there.
LineInBody ==
    /\ LineRead("CONTENT")
    /\ odd' = odd \cup {"split"}
    /\ UNCHANGED <<asked, unread, answers, received, phase, check_state, content_len, linger, url, writer>>

-----------------------------------------------------------------------------
(***************************************************************************)
(* The main thread writes.  One call of writev is one step; EAGAIN changes *)
(* nothing, as EPOLLOUT is asked for again.                                *)
(***************************************************************************)

InIov == iov.len0 + IF iov.count = 2 THEN iov.len1 ELSE 0

\* The first n bytes that the iovec points to.
Gathered(n) ==
    [i \in 1..n |-> IF i <= iov.len0 THEN <<"head", iov.base0 + i - 1>>
                    ELSE <<"file", iov.base1 + i - iov.len0 - 1>>]

\* Mutant: after a partial write the rest of the head is written from its beginning.
RepeatedRest(n) ==
    IF have_send + n >= iov.len0
    THEN [iov EXCEPT !.len0 = 0, !.base1 = have_send + n - HeadLength, !.len1 = to_send - n]
    ELSE [iov EXCEPT !.len0 = @ - n]

\* What is to be written after n more bytes: len0 is what was left of the
\* head, but is compared with all bytes that have been sent.
Rest(n) ==
    IF have_send + n >= iov.len0
    THEN [iov EXCEPT !.len0 = 0, !.base1 = have_send + n - HeadLength, !.len1 = to_send - n]
    ELSE [iov EXCEPT !.base0 = have_send + n, !.len0 = @ - n]

\* The kernel takes the last bytes: the connection is kept or closed.
WriteEnd ==
    /\ phase = "out"
    /\ InIov = to_send
    /\ answers' = Append(answers, [code |-> answer, keep |-> linger])
    /\ received' = <<>>
    /\ answer' = "none"
    /\ iov' = Rest(to_send)
    /\ IF linger
       THEN phase' = "in" /\ Cleared
       ELSE /\ phase' = "closed"
            /\ to_send' = 0 /\ have_send' = have_send + to_send
            /\ UNCHANGED parser
    /\ UNCHANGED <<asked, unread, odd, line_state>>

\* The kernel takes n bytes, and more are to follow.
WritePart(n) ==
    /\ phase = "out"
    /\ n <= InIov /\ n < to_send
    /\ received' = received \o Gathered(n)
    /\ iov' = Rest(n)
    /\ have_send' = have_send + n
    /\ to_send' = to_send - n
    /\ odd' = IF iov.base0 > 0 /\ have_send + n < HeadLength
              THEN odd \cup {"cut"} ELSE odd
    /\ UNCHANGED <<asked, unread, answers, phase, parser, line_state, answer>>

\* Nothing is left in the iovec although bytes are to be sent: writev returns
\* 0, and the loop has no way out.
Spin ==
    /\ phase = "out"
    /\ InIov = 0
    /\ phase' = "spin"
    /\ UNCHANGED <<client, parser, line_state, writer>>

\* Another error than EAGAIN.
WriteFails ==
    /\ phase = "out"
    /\ phase' = "closed"
    /\ odd' = odd \cup {"failed"}
    /\ UNCHANGED <<asked, unread, answers, received, parser, line_state, writer>>

-----------------------------------------------------------------------------

Read == \E n \in 1..Len(unread) : ReadConn(n)
Process == \/ RequestLine \/ BadRequestLine \/ Header \/ HeaderEnd
           \/ Content \/ LineInBody \/ NoRequest
Write == WriteEnd \/ (\E n \in 1..to_send : WritePart(n)) \/ Spin

Next ==
    \/ \E r \in Requests : Ask(r)
    \/ Read
    \/ Process
    \/ Write
    \/ WriteFails

\* Both threads go on, what was sent arrives, and the client takes its answer.
Fairness == WF_vars(Read) /\ WF_vars(Process) /\ WF_vars(Write)

Spec == Init /\ [][Next]_vars /\ Fairness

-----------------------------------------------------------------------------
(***************************************************************************)
(* Properties.                                                             *)
(***************************************************************************)

\* A request that is well-formed, and leaves a byte of the buffer free.
Legal(r) == r.ends = "CRLF" /\ r.line \in Targets /\ Len(Bytes(r)) < Capacity

\* What the request as a whole says, whatever the pieces.
Expected(r) ==
    [code |-> CASE r.line = "file"      -> "FILE_REQUEST"
                [] r.line = "missing"   -> "NO_RESOURCE"
                [] r.line = "forbidden" -> "FORBIDDEN_REQUEST"
                [] OTHER                -> "BAD_REQUEST",
     keep |-> r.line # "junk" /\ r.keep]

WholeAnswer ==
    [i \in 1..HeadLength |-> <<"head", i - 1>>]
    \o IF answer = "FILE_REQUEST"
       THEN [i \in 1..FileLength |-> <<"file", i - 1>>] ELSE <<>>

\* A client that waits for each answer gets, as its k-th answer, the one its
\* k-th request deserves, however the requests were cut in pieces, and nothing
\* of one request is left in the parser for the next (process_read, init).
AnswersMatch ==
    "eager" \notin odd =>
        \A k \in 1..Len(answers) : answers[k] = Expected(asked[k])

\* When a well-formed request is answered, the buffer holds all of it and not a
\* byte more, so that nothing is answered early (parse_content, http_conn.h:613),
\* and init() forgets nothing when the answer has ended (http_conn.h:222) - unless
\* the client asks ahead: what was read of its next request is then lost.
AnswersWhole ==
    /\ TypeOK
    /\ phase = "out" /\ "eager" \notin odd /\ Legal(Last(asked)) =>
        read_buf = Bytes(Last(asked))

\* What the client has got of an answer is a beginning of that answer: no byte
\* of the head is skipped or repeated, none is sent that is not in the file, and
\* the iovec holds the rest, without which the loop of write_conn would not end.
\* It holds as long as no answer is cut twice within its head (http_conn.h:202).
WrittenInOrder ==
    phase = "out" /\ "cut" \notin odd =>
        /\ IsPrefix(received, WholeAnswer)
        /\ InIov = to_send
        /\ received \o Gathered(InIov) = WholeAnswer

\* A well-formed request of a client that waits for its answers is answered,
\* wherever it was cut in pieces - between CR and LF, within the header, before
\* the body -, except within the body ("split"), or if a write fails.
Answered ==
    \A k \in 1..MaxRequests :
        (k = Len(asked) /\ Legal(asked[k])) ~> (Len(answers) >= k \/ odd # {})

\* The connection takes its turns as ConnTurns says, which WebServer implements
\* for many of them.
Turn == IF phase = "process" THEN "work" ELSE IF phase = "spin" THEN "out" ELSE phase
Turns == INSTANCE ConnTurns WITH Conns <- {1}, turn <- [c \in {1} |-> Turn],
                                 prepared <- {c \in {1} : to_send > 0}
TakesTurns == Turns!Spec

=============================================================================
