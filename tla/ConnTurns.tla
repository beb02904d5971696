------------------------------ MODULE ConnTurns ------------------------------
(***************************************************************************)
(* How the connections of the web server take turns (main.cpp:170-345,     *)
(* process() and write_conn() of http_conn.h): epoll waits for input, the  *)
(* connection is with the pool, epoll waits for room to write, and again.  *)
(*                                                                         *)
(* WebServer implements this for many connections and leaves open what is  *)
(* read and answered; HttpConn implements it for one, byte by byte.        *)
(***************************************************************************)
CONSTANT Conns

VARIABLES
    turn,       \* of each connection; a lost one is open, and nobody's
    prepared    \* the connections with an answer that has not been written

Turned(c, from, to) == turn[c] = from /\ turn' = [turn EXCEPT ![c] = to]

Init ==
    /\ turn \in [Conns -> {"closed", "in"}]
    /\ prepared = {}

Accepted(c) == Turned(c, "closed", "in") /\ prepared' = prepared \ {c}

\* What is read goes to the pool, with no answer left from before.
IsRead(c) == c \notin prepared /\ Turned(c, "in", "work") /\ UNCHANGED prepared

\* process() asks for more, or prepares an answer and hands it over.
AsksForMore(c) == c \notin prepared /\ Turned(c, "work", "in") /\ UNCHANGED prepared

Prepares(c) ==
    /\ c \notin prepared /\ prepared' = prepared \cup {c}
    /\ Turned(c, "work", "work") \/ Turned(c, "work", "out")

HandsOver(c) == c \in prepared /\ Turned(c, "work", "out") /\ UNCHANGED prepared

Written(c) == c \in prepared /\ Turned(c, "out", "in") /\ prepared' = prepared \ {c}

\* Only the main thread closes, and never what is with the pool.
Closes(c) ==
    /\ Turned(c, "in", "closed") \/ Turned(c, "out", "closed")
    /\ prepared' \in {prepared, prepared \ {c}}

\* init() of another connection has taken the descriptor (http_conn.h:406).
Loses(c) ==
    /\ Turned(c, "work", "lost") \/ Turned(c, "out", "lost")
    /\ prepared' \in {prepared, prepared \ {c}}

Next == \E c \in Conns :
    \/ Accepted(c) \/ IsRead(c) \/ AsksForMore(c) \/ Prepares(c) \/ HandsOver(c)
    \/ Written(c) \/ Closes(c) \/ Loses(c)

Spec == Init /\ [][Next]_<<turn, prepared>>

=============================================================================
