----------------------------- MODULE TimerList ------------------------------
(***************************************************************************)
(* The timers of the web server: the doubly linked list of                 *)
(* timer/lst_timer.cpp with the calls that main.cpp makes.  Only the main  *)
(* thread touches the list, so a call is one step.                         *)
(*                                                                         *)
(* A connection is known by its timer node, which is allocated when the    *)
(* connection is accepted and deleted by del_timer.                        *)
(***************************************************************************)
EXTENDS Naturals, FiniteSets, FiniteSetsExt

CONSTANTS
    Timers,     \* nodes
    Null,
    Timeout,    \* 3 * TIMESLOT
    MaxTime     \* bound of the clock

ASSUME TimerListAssumption ==
    /\ Null \notin Timers /\ IsFiniteSet(Timers)
    /\ Timeout \in Nat \ {0} /\ MaxTime \in Nat

VARIABLES
    list,       \* head, tail, and the ne and pre of every node
    expire,
    allocated,  \* nodes that have been allocated and not deleted
    open,       \* nodes of open connections
    now,
    tied        \* history: two connections were due in the same second while a
                \* tick had left its traces at the head of the list

timerVars == <<list, expire, allocated, open, now, tied>>

\* The n-th node on the way from l.head, or Null past the end.
Nodes(l) ==
    LET node[n \in 0..Cardinality(Timers)] ==
            IF n = 0 THEN l.head
            ELSE IF node[n - 1] = Null THEN Null ELSE l.ne[node[n - 1]]
    IN  node

\* The nodes that are reached from head.
Chain(l) == {Nodes(l)[n] : n \in DOMAIN Nodes(l)} \ {Null}

TimerInit ==
    /\ list = [head |-> Null, tail |-> Null,
               ne |-> [t \in Timers |-> Null], pre |-> [t \in Timers |-> Null]]
    /\ expire = [t \in Timers |-> 0]
    /\ allocated = {}
    /\ open = {}
    /\ now = 0
    /\ tied = FALSE

-----------------------------------------------------------------------------
(***************************************************************************)
(* The list.                                                               *)
(***************************************************************************)

(***************************************************************************)
(* add_timer(timer, lst_head): the node goes before the first one that is  *)
(* not due earlier, or to the end.                                         *)
(***************************************************************************)
Insert(l, exp, t) ==
    LET node == Nodes(l)
        stop == Min({n \in DOMAIN node : node[n] = Null \/ exp[t] <= exp[node[n]]})
        cur  == node[stop]
    IN  IF cur = Null
        THEN [l EXCEPT !.ne = [@ EXCEPT ![node[stop - 1]] = t, ![t] = Null],
                       !.pre[t] = node[stop - 1],
                       !.tail = t]
        ELSE [l EXCEPT !.ne = [u \in Timers |-> IF u = t THEN cur
                                                ELSE IF u = l.pre[cur] THEN t ELSE @[u]],
                       !.pre = [@ EXCEPT ![t] = l.pre[cur], ![cur] = t],
                       !.head = IF l.pre[cur] = Null THEN t ELSE @]

\* add_timer(timer): a node that is due before all others is linked before the
\* head, but does not become the head.
AddTimer(l, exp, t) ==
    IF l.head = Null
    THEN [l EXCEPT !.head = t, !.tail = t]
    ELSE IF exp[l.head] > exp[t]
    THEN [l EXCEPT !.ne[t] = l.head, !.pre = [@ EXCEPT ![l.head] = t, ![t] = Null]]
    ELSE Insert(l, exp, t)

\* adjust_timer: the node is taken out and added again, unless it is the last
\* one or in place already.
AdjustTimer(l, exp, t) ==
    IF l.ne[t] = Null \/ l.head = l.tail \/ exp[t] < exp[l.ne[t]]
    THEN l
    ELSE AddTimer([l EXCEPT !.pre[l.ne[t]] = l.pre[t],
                            !.ne = IF l.head = t THEN @ ELSE [@ EXCEPT ![l.pre[t]] = l.ne[t]],
                            !.head = IF @ = t THEN l.ne[t] ELSE @],
                  exp, t)

\* Mutant: when the last node is deleted, tail stays where it was.
TailDelTimer(l, t) ==
    IF l.head = l.tail /\ l.head = t THEN [l EXCEPT !.head = Null, !.tail = Null]
    ELSE IF t \notin Chain(l) THEN l
    ELSE LET left == IF t = l.head
                     THEN [l EXCEPT !.pre[l.ne[t]] = Null, !.head = l.ne[t]]
                     ELSE [l EXCEPT !.ne[l.pre[t]] = l.ne[t]]
         IN  IF t = l.tail THEN left ELSE [left EXCEPT !.pre[l.ne[t]] = l.pre[t]]

\* del_timer looks for the node from head on; one that is not found stays.
DelTimer(l, t) ==
    IF l.head = l.tail /\ l.head = t THEN [l EXCEPT !.head = Null, !.tail = Null]
    ELSE IF t \notin Chain(l) THEN l
    ELSE LET left == IF t = l.head
                     THEN [l EXCEPT !.pre[l.ne[t]] = Null, !.head = l.ne[t]]
                     ELSE [l EXCEPT !.ne[l.pre[t]] = l.ne[t]]
         IN  IF t = l.tail
             THEN [left EXCEPT !.ne[l.pre[t]] = Null, !.tail = l.pre[t]]
             ELSE [left EXCEPT !.pre[l.ne[t]] = l.pre[t]]

-----------------------------------------------------------------------------
(***************************************************************************)
(* The calls of main.cpp.                                                  *)
(***************************************************************************)

\* A tick, or a deletion after it, has left the pre of the head set.
Stale == list.head # Null /\ list.pre[list.head] # Null

\* cur + 3 * TIMESLOT: when the connection becomes due.
Renewed(t) ==
    /\ tied' = (tied \/ (Stale /\ \E u \in open \ {t} : expire[u] = now + Timeout))
    /\ expire' = [expire EXCEPT ![t] = now + Timeout]

\* A new connection: a new node, which may be where a deleted one was.
Accepted(t) ==
    /\ t \notin allocated
    /\ Renewed(t)
    /\ allocated' = allocated \cup {t}
    /\ open' = open \cup {t}
    /\ list' = AddTimer([list EXCEPT !.ne[t] = Null, !.pre[t] = Null], expire', t)
    /\ UNCHANGED now

\* Something was read from it or written to it.
Adjusted(t) ==
    /\ t \in open
    /\ Renewed(t)
    /\ list' = AdjustTimer(list, expire', t)
    /\ UNCHANGED <<allocated, open, now>>

\* It hung up, or a read or a write failed: cb_func, then del_timer.
Ended(t) ==
    /\ t \in open
    /\ open' = open \ {t}
    /\ list' = DelTimer(list, t)
    /\ allocated' = IF t \in Chain(list) THEN allocated \ {t} ELSE allocated
    /\ UNCHANGED <<expire, now, tied>>

\* Mutant: what is due this very second is left for the next tick.
LateDue(t) == expire[t] < now

Due(t) == expire[t] <= now

(***************************************************************************)
(* tick calls cb_func for the nodes that are due, from head on.  It moves  *)
(* head to the next node before it calls del_timer for the last one, which *)
(* therefore does not find it: the node is not deleted, and neither pre of *)
(* the new head nor, if none is left, tail is set.                         *)
(***************************************************************************)
Tick ==
    /\ list.head # Null
    /\ LET node == Nodes(list)
           stop == Min({n \in DOMAIN node : node[n] = Null \/ ~Due(node[n])})
       IN  /\ open' = open \ {node[n] : n \in 0..(stop - 1)}
           /\ list' = [list EXCEPT !.head = node[stop]]
    /\ UNCHANGED <<expire, allocated, now, tied>>

Clock ==
    /\ now < MaxTime
    /\ now' = now + 1
    /\ UNCHANGED <<list, expire, allocated, open, tied>>

TimerNext ==
    \/ \E t \in Timers : Accepted(t) \/ Adjusted(t) \/ Ended(t)
    \/ Tick
    \/ Clock

TimerSpec == TimerInit /\ [][TimerNext]_timerVars

-----------------------------------------------------------------------------
(***************************************************************************)
(* Properties.                                                             *)
(***************************************************************************)

TimerTypeOK ==
    /\ expire \in [Timers -> 0..(MaxTime + Timeout)]
    /\ open \subseteq allocated /\ allocated \subseteq Timers
    /\ now \in 0..MaxTime

ListTypeOK ==
    list \in [head : Timers \cup {Null}, tail : Timers \cup {Null},
             ne : [Timers -> Timers \cup {Null}], pre : [Timers -> Timers \cup {Null}]]

\* As long as no two tie while a tick has left its traces, the list holds
\* exactly the open connections, each linked to the one due next in both
\* directions, tail is the last of them, and whatever pre of the head points
\* to since a tick, it is no deleted node (add_timer, adjust_timer, del_timer,
\* tick).
Linked ==
    /\ Chain(list) = open
    /\ \A t \in open :
        /\ list.ne[t] # Null => /\ expire[t] <= expire[list.ne[t]]
                                /\ list.pre[list.ne[t]] = t
        /\ list.ne[t] = Null <=> list.tail = t
    /\ list.head # Null => list.pre[list.head] \in (allocated \ open) \cup {Null}

TimersLinked == TimerTypeOK /\ (~tied => ListTypeOK /\ Linked)

\* Under the same condition the list implements the promise of IdleTimers: a
\* tick closes the connections that are due, all of them and no other, after any
\* history of activity, hang-ups and earlier ticks (main.cpp:60-73).
Promise ==
    INSTANCE IdleTimers WITH
        Connections <- Timers, due <- [t \in open |-> expire[t]], time <- now
TimersKeepPromise ==
    /\ Promise!IdleInit
    /\ [][~tied => Promise!IdleNext \/ UNCHANGED Promise!idleVars]_timerVars

=============================================================================
