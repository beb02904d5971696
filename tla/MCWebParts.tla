----------------------------- MODULE MCWebParts -----------------------------
(***************************************************************************)
(* Two parts of the web server that never meet in main.cpp but through a   *)
(* closed connection, checked in one run: a connection and what it reads   *)
(* and writes, and the timer list.  One of them is chosen at the start,    *)
(* and only it takes steps.                                                *)
(*                                                                         *)
(* The connection gets requests for each target, kept and not kept, with a *)
(* body, with a bad request line, with lines that end in LF alone, and one *)
(* that is too long for the buffer.                                        *)
(***************************************************************************)
EXTENDS HttpConn, TimerList

Plain(line, keep) == [line |-> line, keep |-> keep, body |-> FALSE, ends |-> "CRLF"]

MCBody == <<"b", "CR", "LF">>

MCRequests ==
    {Plain("file", TRUE), Plain("missing", FALSE), Plain("directory", TRUE),
     Plain("forbidden", TRUE), Plain("junk", TRUE),
     [Plain("file", FALSE) EXCEPT !.body = TRUE],
     [Plain("file", TRUE) EXCEPT !.body = TRUE],
     [Plain("file", FALSE) EXCEPT !.ends = "LF"]}

VARIABLE part

partsVars == <<part, vars, timerVars>>

PartsInit == part \in {"connection", "timers"} /\ Init /\ TimerInit

PartsNext ==
    \/ part = "connection" /\ Next /\ UNCHANGED <<part, timerVars>>
    \/ part = "timers" /\ TimerNext /\ UNCHANGED <<part, vars>>

PartsSpec == PartsInit /\ [][PartsNext]_partsVars /\ Fairness

=============================================================================
