----------------------------- MODULE ChatClient -----------------------------
(***************************************************************************)
(* The command line client (ChatServer/src/client/main.cpp): a main thread *)
(* that talks to the user, and a receiver thread that is started at the    *)
(* first login, which share one socket; and the server as this connection  *)
(* sees it (ChatServer::onMessage and the handlers it calls).              *)
(*                                                                         *)
(* The socket is a stream: a recv returns any beginning of what has        *)
(* arrived, and both sides parse what one recv returned as one JSON text.  *)
(* A message of the server is one or several pieces, a request is one.     *)
(***************************************************************************)
EXTENDS Naturals, Sequences

CONSTANTS
    Users,
    Nobody,
    AnswerSizes,    \* pieces of a successful login's answer, which carries the
                    \* friends, the groups and the offline messages
    BufPieces,      \* pieces that fit in a buffer of 1024 bytes
    MaxAsked,       \* bound: requests of this client
    MaxPushed       \* bound: chat messages for it

ASSUME ChatClientAssumption ==
    /\ Nobody \notin Users
    /\ AnswerSizes \subseteq Nat \ {0} /\ BufPieces \in Nat \ {0}
    /\ MaxAsked \in Nat /\ MaxPushed \in Nat

VARIABLES
    main,       \* where the main thread is
    user,       \* current_user
    lists,      \* whose friends and groups the lists hold, in the order of pushes
    receiver,   \* recvThreadFlag: the receiver thread runs
    inbox,      \* pieces on their way to the client
    outbox,     \* requests on their way to the server
    server,     \* whether its process runs
    session,    \* the user that the server's table has for this connection
    asked, pushed, logouts, \* history: how many there have been
    odd         \* history: unusual things that have happened

clientVars == <<main, user, lists, receiver, inbox, outbox, server, session,
                asked, pushed, logouts, odd>>

ClientInit ==
    /\ main = "menu"
    /\ user = Nobody
    /\ lists = <<>>
    /\ receiver = FALSE
    /\ inbox = <<>> /\ outbox = <<>>
    /\ server = "up"
    /\ session = Nobody
    /\ asked = 0 /\ pushed = 0 /\ logouts = 0
    /\ odd = {}

-----------------------------------------------------------------------------
(***************************************************************************)
(* Messages.                                                               *)
(***************************************************************************)

\* The pieces of a message; err is its errno, which a chat message has not.
Message(type, u, err, size) ==
    [i \in 1..size |-> [type |-> type, user |-> u, err |-> err,
                        first |-> i = 1, last |-> i = size]]

\* json::parse throws unless it is given one message, the whole of it.
Parses(p) ==
    /\ p[1].first /\ p[Len(p)].last
    /\ \A i \in 2..Len(p) : ~p[i].first

Running == main \notin {"quit", "crashed"}
Waiting == main \in {"login", "register"}

\* An exception that nobody catches ends the process, and the connection.
Crash(why) ==
    /\ main' = "crashed"
    /\ odd' = odd \cup why
    /\ inbox' = <<>>
    /\ UNCHANGED <<user, lists, receiver>>

Send(request) ==
    /\ asked < MaxAsked
    /\ asked' = asked + 1
    /\ outbox' = IF server = "up" THEN Append(outbox, request) ELSE outbox

-----------------------------------------------------------------------------
(***************************************************************************)
(* The main thread.                                                        *)
(***************************************************************************)

\* Mutant: the receiver is started before the answer has come.
EarlyAskLogin(u) ==
    /\ main = "menu"
    /\ main' = "login"
    /\ receiver' = TRUE
    /\ Send([type |-> "login", user |-> u])
    /\ UNCHANGED <<user, lists, inbox, server, session, pushed, logouts, odd>>

AskLogin(u) ==
    /\ main = "menu"
    /\ main' = "login"
    /\ Send([type |-> "login", user |-> u])
    /\ UNCHANGED <<user, lists, receiver, inbox, server, session, pushed, logouts, odd>>

AskRegister ==
    /\ main = "menu"
    /\ main' = "register"
    /\ Send([type |-> "reg", user |-> Nobody])
    /\ UNCHANGED <<user, lists, receiver, inbox, server, session, pushed, logouts, odd>>

LeaveMenu ==
    /\ main = "menu"
    /\ main' = "quit"
    /\ lists' = <<>>
    /\ inbox' = <<>>
    /\ UNCHANGED <<user, receiver, outbox, server, session, asked, pushed, logouts, odd>>

\* recv in main: an answer is looked at by its errno, the one of a login also
\* for the name and the lists, which only a successful login has.
MainRecv(n) ==
    /\ Waiting
    /\ n <= Len(inbox) /\ n <= BufPieces
    /\ LET p == SubSeq(inbox, 1, n)
       IN  IF ~Parses(p) THEN Crash({"misframed"})
           ELSE IF p[1].type = "chat" \/ (main = "login" /\ p[1].type # "login")
           THEN Crash({"raced"})
           ELSE /\ inbox' = SubSeq(inbox, n + 1, Len(inbox))
                /\ IF main = "login" /\ p[1].err = 0
                   THEN /\ main' = "chat"
                        /\ user' = p[1].user
                        /\ lists' = Append(lists, p[1].user)
                        /\ receiver' = TRUE
                   ELSE main' = "menu" /\ UNCHANGED <<user, lists, receiver>>
                /\ UNCHANGED odd
    /\ UNCHANGED <<outbox, server, session, asked, pushed, logouts>>

\* addfriend, chat, creategroup, addgroup, groupchat: nothing is answered.
Command ==
    /\ main = "chat"
    /\ Send([type |-> "other", user |-> user])
    /\ UNCHANGED <<main, user, lists, receiver, inbox, server, session, pushed, logouts, odd>>

\* Mutant: the lists of the user who logs out are kept.
KeptLists(l) == l

\* loginout clears the lists.
ClearedLists(l) == <<>>

\* loginout: the connection and the receiver stay.
Loginout ==
    /\ main = "chat"
    /\ Send([type |-> "logout", user |-> user])
    /\ lists' = ClearedLists(lists)
    /\ main' = "menu"
    /\ logouts' = logouts + 1
    /\ UNCHANGED <<user, receiver, inbox, server, session, pushed, odd>>

-----------------------------------------------------------------------------
(***************************************************************************)
(* The receiver thread takes whatever arrives, an answer to the main       *)
(* thread as well ("sth else happened").                                   *)
(***************************************************************************)

ThreadRecv(n) ==
    /\ Running /\ receiver
    /\ n <= Len(inbox) /\ n <= BufPieces
    /\ LET p == SubSeq(inbox, 1, n)
       IN  IF ~Parses(p) THEN Crash({"misframed"})
           ELSE /\ inbox' = SubSeq(inbox, n + 1, Len(inbox))
                /\ odd' = IF p[1].type = "chat" THEN odd ELSE odd \cup {"raced"}
                /\ UNCHANGED <<main, user, lists, receiver>>
    /\ UNCHANGED <<outbox, server, session, asked, pushed, logouts>>

\* The server is gone: recv returns 0, and the empty text does not parse.
EndOfStream ==
    /\ Running
    /\ server = "aborted" /\ inbox = <<>>
    /\ Waiting \/ receiver
    /\ Crash({})
    /\ UNCHANGED <<outbox, server, session, asked, pushed, logouts>>

-----------------------------------------------------------------------------
(***************************************************************************)
(* The server.                                                             *)
(***************************************************************************)

Pushes(p) == inbox' = IF Running THEN inbox \o p ELSE inbox

\* A login is refused with a wrong password, or if the user is online.
ServeLogin(r) ==
    /\ r.type = "login"
    /\ \/ /\ session' = r.user
          /\ \E size \in AnswerSizes : Pushes(Message("login", r.user, 0, size))
       \/ /\ Pushes(Message("login", r.user, 2, 1))
          /\ UNCHANGED session

\* Mutant: a failed registration is not answered.
SilentServeRegister(r) ==
    /\ r.type = "reg"
    /\ \/ Pushes(Message("reg", Nobody, 0, 1))
       \/ UNCHANGED inbox
    /\ UNCHANGED session

ServeRegister(r) ==
    /\ r.type = "reg"
    /\ \E err \in {0, 1} : Pushes(Message("reg", Nobody, err, 1))
    /\ UNCHANGED session

ServeLogout(r) ==
    /\ r.type = "logout"
    /\ session' = Nobody
    /\ UNCHANGED inbox

ServeOther(r) ==
    /\ r.type = "other"
    /\ UNCHANGED <<inbox, session>>

\* onMessage takes all that has arrived.
OneRequest ==
    /\ server = "up" /\ outbox # <<>>
    /\ outbox' = Tail(outbox)
    /\ LET r == Head(outbox)
       IN  ServeLogin(r) \/ ServeRegister(r) \/ ServeLogout(r) \/ ServeOther(r)
    /\ UNCHANGED <<main, user, lists, receiver, server, asked, pushed, logouts, odd>>

\* Several requests at once do not parse: the exception ends the server.
SeveralRequests ==
    /\ server = "up" /\ Len(outbox) > 1
    /\ server' = "aborted"
    /\ outbox' = <<>>
    /\ session' = Nobody
    /\ odd' = odd \cup {"merged"}
    /\ UNCHANGED <<main, user, lists, receiver, inbox, asked, pushed, logouts>>

\* Another user's message for the user of this connection.
PushChat ==
    /\ session # Nobody /\ pushed < MaxPushed
    /\ pushed' = pushed + 1
    /\ Pushes(Message("chat", session, 0, 1))
    /\ UNCHANGED <<main, user, lists, receiver, outbox, server, session, asked, logouts, odd>>

\* The client is gone (clientCloseException).
ClientGone ==
    /\ ~Running /\ outbox = <<>>
    /\ session # Nobody
    /\ session' = Nobody
    /\ UNCHANGED <<main, user, lists, receiver, inbox, outbox, server,
                   asked, pushed, logouts, odd>>

-----------------------------------------------------------------------------

MainAnswered == \E n \in 1..BufPieces : MainRecv(n)
Received == \E n \in 1..BufPieces : ThreadRecv(n)

ClientNext ==
    \/ \E u \in Users : AskLogin(u)
    \/ AskRegister \/ LeaveMenu \/ Command \/ Loginout
    \/ MainAnswered \/ Received \/ EndOfStream
    \/ OneRequest \/ SeveralRequests \/ PushChat \/ ClientGone

\* Both threads go on, what was sent arrives, and the server handles it.
ClientFairness ==
    WF_clientVars(MainAnswered) /\ WF_clientVars(Received) /\ WF_clientVars(OneRequest)

ClientSpec == ClientInit /\ [][ClientNext]_clientVars /\ ClientFairness

-----------------------------------------------------------------------------
(***************************************************************************)
(* Properties.                                                             *)
(***************************************************************************)

Pieces == [type : {"login", "reg", "chat"}, user : Users \cup {Nobody}, err : 0..2,
           first : BOOLEAN, last : BOOLEAN]
RequestMessages == [type : {"login", "reg", "logout", "other"}, user : Users \cup {Nobody}]

ClientTypeOK ==
    /\ main \in {"menu", "login", "register", "chat", "quit", "crashed"}
    /\ user \in Users \cup {Nobody}
    /\ lists \in Seq(Users)
    /\ receiver \in BOOLEAN
    /\ inbox \in Seq(Pieces)
    /\ outbox \in Seq(RequestMessages)
    /\ server \in {"up", "aborted"}
    /\ session \in Users \cup {Nobody}
    /\ asked \in 0..MaxAsked /\ pushed \in 0..MaxPushed /\ logouts \in 0..MaxAsked
    /\ odd \subseteq {"misframed", "raced", "merged"}

\* While the menu of a user is shown, the server's table has this user for the
\* connection, and the lists are this user's alone; back in the first menu, the
\* lists are empty and the server has no user, or the logout is still on its way
\* (main.cpp:529-556) - through any number of logins on the one connection.
SessionAgrees ==
    /\ ClientTypeOK
    /\ server = "up" =>
        /\ main = "chat" => session = user /\ lists = <<user>>
        /\ main = "menu" =>
            /\ lists = <<>>
            /\ session = Nobody \/ \E i \in 1..Len(outbox) : outbox[i].type = "logout"

\* An answer is only on its way while the main thread waits for just this one,
\* and until the first logout it comes before any chat message: the two threads
\* can take each other's messages only after a logout, when the receiver goes on
\* while the main thread waits again (main.cpp:164, 236, 616).
ThreadsApart ==
    /\ \A i \in 1..Len(inbox) : inbox[i].type # "chat" =>
        /\ Waiting
        /\ inbox[i].type = "login" <=> main = "login"
    /\ logouts = 0 =>
        /\ "raced" \notin odd
        /\ Waiting /\ inbox # <<>> => inbox[1].type # "chat"

\* A login or a registration is answered, unless one of these things happens: an
\* answer that the receiver takes leaves the main thread waiting (main.cpp:236).
AnswerComes == Waiting ~> (~Waiting \/ odd # {})

=============================================================================
