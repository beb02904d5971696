----------------------------- MODULE IdleTimers -----------------------------
(***************************************************************************)
(* What the timers of the web server promise (main.cpp:60-73): each open   *)
(* connection has a time at which it is due, activity puts it off, and a   *)
(* tick closes exactly the connections that are due.                       *)
(***************************************************************************)
EXTENDS Naturals, Functions

CONSTANTS Connections, Timeout

VARIABLES
    due,    \* for each open connection, when it is due
    time

idleVars == <<due, time>>

IdleInit == due = <<>> /\ time = 0

\* A new connection, or one that has done something.
Active(c) ==
    /\ due' = [d \in DOMAIN due \cup {c} |-> IF d = c THEN time + Timeout ELSE due[d]]
    /\ UNCHANGED time

Closed(c) ==
    /\ c \in DOMAIN due
    /\ due' = Restrict(due, DOMAIN due \ {c})
    /\ UNCHANGED time

Expire ==
    /\ due' = Restrict(due, {c \in DOMAIN due : due[c] > time})
    /\ UNCHANGED time

TimePasses == time' > time /\ UNCHANGED due

IdleNext ==
    \/ \E c \in Connections : Active(c) \/ Closed(c)
    \/ Expire
    \/ TimePasses

IdleSpec == IdleInit /\ [][IdleNext]_idleVars

=============================================================================
