-------------------------- MODULE ChatCluster_proofs --------------------------
(***************************************************************************)
(* Proofs about ChatCluster for any users, servers, connections, messages   *)
(* and bounds.  TabledSessions and LockHolder are not inductive alone: the  *)
(* inductive invariant IInv adds the types and what each handler step       *)
(* relies on (HandlerArgs).                                                 *)
(***************************************************************************)
EXTENDS ChatCluster, TLAPS

(* Facts about the channels as sequences. *)
LEMMA AppendNotEmpty ==
  ASSUME NEW S, NEW q \in Seq(S), NEW e \in S
  PROVE  Append(q, e) # <<>>
<1>1. Len(Append(q, e)) = Len(q) + 1 /\ Len(q) \in Nat
  OBVIOUS
<1> QED
  BY <1>1

(* A sequence over a set is one over any larger set. *)
LEMMA SeqMono ==
  ASSUME NEW S, NEW T, S \subseteq T, NEW q \in Seq(S)
  PROVE  q \in Seq(T)
OBVIOUS

(* The head and the tail of a channel that is not empty. *)
LEMMA HeadTail ==
  ASSUME NEW S, NEW q \in Seq(S), q # <<>>
  PROVE  Head(q) \in S /\ Tail(q) \in Seq(S)
OBVIOUS

(* An idle connection has no recipient and no message. *)
LEMMA IdleArgs ==
  ASSUME IInv, NEW c \in Conns, pc[c] = "idle"
  PROVE  rest[c] = {} /\ to[c] = None /\ msg[c] = None
<1> USE ClusterAssumption DEF IInv, TypeOK, HandlerArgs, LockHolder, RoutePcs, GroupPcs
<1>1. lock[Home[c]] # c
  OBVIOUS
<1> QED
  BY <1>1

(* The initial state satisfies the inductive invariant. *)
LEMMA InitInv == ASSUME Init PROVE IInv /\ OnlyAddressees
<1> USE ClusterAssumption DEF Init
<1>1. TypeOK
  BY DEF TypeOK, Pcs
<1>2. HandlerArgs
  BY DEF HandlerArgs, LoginPcs, LogoutPcs, GroupPcs, RoutePcs
<1>3. TabledSessions
  BY DEF TabledSessions
<1>4. LockHolder
  BY DEF LockHolder
<1>5. OnlyAddressees
  BY DEF OnlyAddressees
<1> QED
  BY <1>1, <1>2, <1>3, <1>4, <1>5 DEF IInv

-----------------------------------------------------------------------------
(* Every step keeps the types.  Published messages need HandlerArgs. *)
LEMMA TypeStep ==
  ASSUME IInv, [Next]_vars
  PROVE  TypeOK'
<1> USE ClusterAssumption DEF IInv, TypeOK, HandlerArgs, Pcs,
        LoginPcs, LogoutPcs, ClosePcs, GroupPcs, RoutePcs, db, redis, process, conns, locals,
        handler, history
<1>1. ASSUME NEW c \in Conns, Drop(c) PROVE TypeOK'
  BY <1>1 DEF Drop, CalmWithout
<1>2. ASSUME NEW c \in Conns, LogoutRequest(c) PROVE TypeOK'
  BY <1>2 DEF LogoutRequest, Ready, CalmWithout
<1>3. ASSUME NEW c \in Conns, NEW u \in Users, LoginRequest(c, u) PROVE TypeOK'
  BY <1>3 DEF LoginRequest, Ready, CalmWithout
<1>4. ASSUME NEW c \in Conns, NEW m \in Msgs, GroupRequest(c, m) PROVE TypeOK'
  BY <1>4 DEF GroupRequest, Ready, Address
<1>5. ASSUME NEW c \in Conns, NEW u \in Users, NEW m \in Msgs, ChatRequest(c, u, m)
       PROVE  TypeOK'
  BY <1>5 DEF ChatRequest, Ready, Address
<1>6. ASSUME NEW c \in Conns, LoginRefuse(c) PROVE TypeOK'
  BY <1>6 DEF LoginRefuse, Step
<1>7. ASSUME NEW c \in Conns, LoginQuery(c) PROVE TypeOK'
  BY <1>7 DEF LoginQuery, Step
<1>8. ASSUME NEW c \in Conns, LoginTable(c) PROVE TypeOK'
  BY <1>8 DEF LoginTable, Step, Unlocked
<1>9. ASSUME NEW c \in Conns, LoginState(c) PROVE TypeOK'
  BY <1>9 DEF LoginState, Step
<1>10. ASSUME NEW c \in Conns, LoginSubscribe(c) PROVE TypeOK'
  BY <1>10 DEF LoginSubscribe, Step
<1>11. ASSUME NEW c \in Conns, LoginAnswer(c) PROVE TypeOK'
  BY <1>11 DEF LoginAnswer, Step, Sent
<1>12. ASSUME NEW c \in Conns, LoginClear(c) PROVE TypeOK'
  BY <1>12 DEF LoginClear, Step
<1>13. ASSUME NEW c \in Conns, LogoutErase(c) PROVE TypeOK'
  BY <1>13 DEF LogoutErase, Step, Unlocked
<1>14. ASSUME NEW c \in Conns, LogoutUnsubscribe(c) PROVE TypeOK'
  BY <1>14 DEF LogoutUnsubscribe, Step
<1>15. ASSUME NEW c \in Conns, LogoutState(c) PROVE TypeOK'
  BY <1>15 DEF LogoutState, Step
<1>16. ASSUME NEW c \in Conns, CloseEvent(c) PROVE TypeOK'
  BY <1>16 DEF CloseEvent, Step
<1>17. ASSUME NEW c \in Conns, CloseErase(c) PROVE TypeOK'
  BY <1>17 DEF CloseErase, Step, Unlocked, Entries
<1>18. ASSUME NEW c \in Conns, CloseGarbage(c) PROVE TypeOK'
  BY <1>18 DEF CloseGarbage, Unlocked, Entries, Gone
<1>19. ASSUME NEW c \in Conns, CloseUnknown(c) PROVE TypeOK'
  BY <1>19 DEF CloseUnknown, Unlocked, Entries, Gone
<1>20. ASSUME NEW c \in Conns, CloseState(c) PROVE TypeOK'
  BY <1>20 DEF CloseState, Step
<1>21. ASSUME NEW c \in Conns, CloseUnsubscribe(c) PROVE TypeOK'
  BY <1>21 DEF CloseUnsubscribe, Gone
<1>22. ASSUME NEW c \in Conns, ChatLocal(c) PROVE TypeOK'
  BY <1>22 DEF ChatLocal, Unlocked, Forward, Sent, Served
<1>23. ASSUME NEW c \in Conns, ChatRemote(c) PROVE TypeOK'
  BY <1>23 DEF ChatRemote, Step, Unlocked
<1>24. ASSUME NEW c \in Conns, GroupLock(c) PROVE TypeOK'
  BY <1>24 DEF GroupLock, Step, Unlocked
<1>25. ASSUME NEW c \in Conns, GroupLocal(c) PROVE TypeOK'
  BY <1>25 DEF GroupLocal, Forward, Sent
<1>26. ASSUME NEW c \in Conns, GroupRemote(c) PROVE TypeOK'
  BY <1>26 DEF GroupRemote, Step
<1>27. ASSUME NEW c \in Conns, GroupUnlock(c) PROVE TypeOK'
  BY <1>27 DEF GroupUnlock, Served
<1>28. ASSUME NEW c \in Conns, QueryState(c) PROVE TypeOK'
  BY <1>28 DEF QueryState
<1>29. ASSUME NEW c \in Conns, Publish(c) PROVE TypeOK'
  BY <1>29 DEF Publish, Published, Served, NextPc
<1>30. ASSUME NEW c \in Conns, Save(c) PROVE TypeOK'
  BY <1>30 DEF Save, Served, NextPc
<1>31. ASSUME NEW s \in Servers, ObserveForward(s) PROVE TypeOK'
  BY <1>31 DEF ObserveForward, Forward, Sent
<1>32. ASSUME NEW s \in Servers, ObserveSave(s) PROVE TypeOK'
  BY <1>32 DEF ObserveSave
<1>33. ASSUME NEW s \in Servers, Interrupt(s) PROVE TypeOK'
  BY <1>33 DEF Interrupt
<1>34. ASSUME NEW s \in Servers, Exit(s) PROVE TypeOK'
  BY <1>34 DEF Exit, Vanish
<1>35. ASSUME NEW s \in Servers, Kill(s) PROVE TypeOK'
  BY <1>35 DEF Kill, Vanish
<1>36. ASSUME NEW s \in Servers, Restart(s) PROVE TypeOK'
  BY <1>36 DEF Restart
<1>37. CASE UNCHANGED vars
  BY <1>37 DEF vars
<1>38. QED
  BY <1>1, <1>2, <1>3, <1>4, <1>5, <1>6, <1>7, <1>8, <1>9, <1>10, <1>11,
      <1>12, <1>13, <1>14, <1>15, <1>16, <1>17, <1>18, <1>19, <1>20, <1>21,
      <1>22, <1>23, <1>24, <1>25, <1>26, <1>27, <1>28, <1>29, <1>30, <1>31,
      <1>32, <1>33, <1>34, <1>35, <1>36, <1>37
     DEF Next, Client, Handler, Login, Logout, Close, Chat, Observer, Process

(* Every step keeps a handler's connection, user, recipient and message. *)
LEMMA HandlerArgsStep ==
  ASSUME IInv, [Next]_vars
  PROVE  HandlerArgs'
<1> USE ClusterAssumption DEF IInv, TypeOK, HandlerArgs, Pcs,
        LoginPcs, LogoutPcs, ClosePcs, GroupPcs, RoutePcs, db, redis, process, conns, locals,
        handler, history, LockHolder
<1>1. ASSUME NEW c \in Conns, Drop(c) PROVE HandlerArgs'
  BY <1>1 DEF Drop, CalmWithout
<1>2. ASSUME NEW c \in Conns, LogoutRequest(c) PROVE HandlerArgs'
  BY <1>2 DEF LogoutRequest, Ready, CalmWithout
<1>3. ASSUME NEW c \in Conns, NEW u \in Users, LoginRequest(c, u) PROVE HandlerArgs'
  BY <1>3 DEF LoginRequest, Ready, CalmWithout
<1>4. ASSUME NEW c \in Conns, NEW m \in Msgs, GroupRequest(c, m) PROVE HandlerArgs'
  BY <1>4 DEF GroupRequest, Ready, Address
<1>5. ASSUME NEW c \in Conns, NEW u \in Users, NEW m \in Msgs, ChatRequest(c, u, m)
       PROVE  HandlerArgs'
  BY <1>5 DEF ChatRequest, Ready, Address
<1>6. ASSUME NEW c \in Conns, LoginRefuse(c) PROVE HandlerArgs'
  BY <1>6 DEF LoginRefuse, Step
<1>7. ASSUME NEW c \in Conns, LoginQuery(c) PROVE HandlerArgs'
  BY <1>7 DEF LoginQuery, Step
<1>8. ASSUME NEW c \in Conns, LoginTable(c) PROVE HandlerArgs'
  BY <1>8 DEF LoginTable, Step, Unlocked
<1>9. ASSUME NEW c \in Conns, LoginState(c) PROVE HandlerArgs'
  BY <1>9 DEF LoginState, Step
<1>10. ASSUME NEW c \in Conns, LoginSubscribe(c) PROVE HandlerArgs'
  BY <1>10 DEF LoginSubscribe, Step
<1>11. ASSUME NEW c \in Conns, LoginAnswer(c) PROVE HandlerArgs'
  BY <1>11 DEF LoginAnswer, Step, Sent
<1>12. ASSUME NEW c \in Conns, LoginClear(c) PROVE HandlerArgs'
  BY <1>12 DEF LoginClear, Step
<1>13. ASSUME NEW c \in Conns, LogoutErase(c) PROVE HandlerArgs'
  BY <1>13 DEF LogoutErase, Step, Unlocked
<1>14. ASSUME NEW c \in Conns, LogoutUnsubscribe(c) PROVE HandlerArgs'
  BY <1>14 DEF LogoutUnsubscribe, Step
<1>15. ASSUME NEW c \in Conns, LogoutState(c) PROVE HandlerArgs'
  BY <1>15 DEF LogoutState, Step
<1>16. ASSUME NEW c \in Conns, CloseEvent(c) PROVE HandlerArgs'
  BY <1>16 DEF CloseEvent, Step
<1>17. ASSUME NEW c \in Conns, CloseErase(c) PROVE HandlerArgs'
  BY <1>17 DEF CloseErase, Step, Unlocked, Entries
<1>18. ASSUME NEW c \in Conns, CloseGarbage(c) PROVE HandlerArgs'
  BY <1>18 DEF CloseGarbage, Unlocked, Entries, Gone
<1>19. ASSUME NEW c \in Conns, CloseUnknown(c) PROVE HandlerArgs'
  BY <1>19 DEF CloseUnknown, Unlocked, Entries, Gone
<1>20. ASSUME NEW c \in Conns, CloseState(c) PROVE HandlerArgs'
  BY <1>20 DEF CloseState, Step
<1>21. ASSUME NEW c \in Conns, CloseUnsubscribe(c) PROVE HandlerArgs'
  BY <1>21 DEF CloseUnsubscribe, Gone
<1>22. ASSUME NEW c \in Conns, ChatLocal(c) PROVE HandlerArgs'
  BY <1>22 DEF ChatLocal, Unlocked, Forward, Sent, Served
<1>23. ASSUME NEW c \in Conns, ChatRemote(c) PROVE HandlerArgs'
  BY <1>23 DEF ChatRemote, Step, Unlocked
<1>24. ASSUME NEW c \in Conns, GroupLock(c) PROVE HandlerArgs'
  BY <1>24 DEF GroupLock, Step, Unlocked
<1>25. ASSUME NEW c \in Conns, GroupLocal(c) PROVE HandlerArgs'
  BY <1>25 DEF GroupLocal, Forward, Sent
<1>26. ASSUME NEW c \in Conns, GroupRemote(c) PROVE HandlerArgs'
  BY <1>26 DEF GroupRemote, Step
<1>27. ASSUME NEW c \in Conns, GroupUnlock(c) PROVE HandlerArgs'
  BY <1>27 DEF GroupUnlock, Served
<1>28. ASSUME NEW c \in Conns, QueryState(c) PROVE HandlerArgs'
  BY <1>28 DEF QueryState
<1>29. ASSUME NEW c \in Conns, Publish(c) PROVE HandlerArgs'
  <2>1. chan' = Published(to[c], msg[c]) /\ watch' = watch
    BY <1>29 DEF Publish
  <2>2. \A s \in Servers : chan[s] # <<>> => chan'[s] # <<>>
    <3> TAKE s \in Servers
    <3>1. chan[s] \in Seq(Users \X Msgs)
      OBVIOUS
    <3>2. <<to[c], msg[c]>> \in Users \X Msgs
      BY <1>29 DEF Publish
    <3>3. Append(chan[s], <<to[c], msg[c]>>) # <<>>
      BY ONLY <3>1, <3>2, AppendNotEmpty
    <3> QED
      BY <2>1, <3>3 DEF Published
  <2>3. \A d \in Conns :
           /\ pc'[d] # "idle" => link'[d] \in {"up", "dropped"}
           /\ pc'[d] \in LoginPcs \cup LogoutPcs => user'[d] # None
           /\ to'[d] # None <=> pc'[d] \in RoutePcs \cup {"c_state", "c_unsub"}
           /\ msg'[d] # None <=> pc'[d] \in RoutePcs \cup GroupPcs
           /\ pc'[d] = "g_each" => lock'[Home[d]] = d
           /\ rest'[d] # {} => pc'[d] = "g_lock" \/ lock'[Home[d]] = d
    BY <1>29 DEF Publish, Served, NextPc
  <2> QED
    BY <2>1, <2>2, <2>3
<1>30. ASSUME NEW c \in Conns, Save(c) PROVE HandlerArgs'
  BY <1>30 DEF Save, Served, NextPc
<1>31. ASSUME NEW s \in Servers, ObserveForward(s) PROVE HandlerArgs'
  BY <1>31 DEF ObserveForward, Forward, Sent
<1>32. ASSUME NEW s \in Servers, ObserveSave(s) PROVE HandlerArgs'
  BY <1>32 DEF ObserveSave
<1>33. ASSUME NEW s \in Servers, Interrupt(s) PROVE HandlerArgs'
  BY <1>33 DEF Interrupt
<1>34. ASSUME NEW s \in Servers, Exit(s) PROVE HandlerArgs'
  BY <1>34 DEF Exit, Vanish
<1>35. ASSUME NEW s \in Servers, Kill(s) PROVE HandlerArgs'
  BY <1>35 DEF Kill, Vanish
<1>36. ASSUME NEW s \in Servers, Restart(s) PROVE HandlerArgs'
  BY <1>36 DEF Restart
<1>37. CASE UNCHANGED vars
  BY <1>37 DEF vars
<1>38. QED
  BY <1>1, <1>2, <1>3, <1>4, <1>5, <1>6, <1>7, <1>8, <1>9, <1>10, <1>11,
      <1>12, <1>13, <1>14, <1>15, <1>16, <1>17, <1>18, <1>19, <1>20, <1>21,
      <1>22, <1>23, <1>24, <1>25, <1>26, <1>27, <1>28, <1>29, <1>30, <1>31,
      <1>32, <1>33, <1>34, <1>35, <1>36, <1>37
     DEF Next, Client, Handler, Login, Logout, Close, Chat, Observer, Process

(* Every step keeps the table: only LoginTable adds an entry, for the       *)
(* connection and user of the login; a connection that ends its session has *)
(* at most one entry, the one it erases.                                    *)
LEMMA TabledStep ==
  ASSUME IInv, [Next]_vars
  PROVE  TabledSessions'
<1> USE ClusterAssumption DEF IInv, TypeOK, HandlerArgs, Pcs,
        LoginPcs, LogoutPcs, ClosePcs, GroupPcs, RoutePcs, db, redis, process, conns, locals,
        handler, history, TabledSessions
<1>1. ASSUME NEW c \in Conns, Drop(c) PROVE TabledSessions'
  BY <1>1 DEF Drop, CalmWithout
<1>2. ASSUME NEW c \in Conns, LogoutRequest(c) PROVE TabledSessions'
  BY <1>2 DEF LogoutRequest, Ready, CalmWithout
<1>3. ASSUME NEW c \in Conns, NEW u \in Users, LoginRequest(c, u)
       PROVE  TabledSessions'
  BY <1>3 DEF LoginRequest, Ready, CalmWithout
<1>4. ASSUME NEW c \in Conns, NEW m \in Msgs, GroupRequest(c, m)
       PROVE  TabledSessions'
  BY <1>4 DEF GroupRequest, Ready, Address
<1>5. ASSUME NEW c \in Conns, NEW u \in Users, NEW m \in Msgs, ChatRequest(c, u, m)
       PROVE  TabledSessions'
  BY <1>5 DEF ChatRequest, Ready, Address
<1>6. ASSUME NEW c \in Conns, LoginRefuse(c) PROVE TabledSessions'
  BY <1>6 DEF LoginRefuse, Step
<1>7. ASSUME NEW c \in Conns, LoginQuery(c) PROVE TabledSessions'
  BY <1>7 DEF LoginQuery, Step
<1>8. ASSUME NEW c \in Conns, LoginTable(c) PROVE TabledSessions'
  BY <1>8 DEF LoginTable, Step, Unlocked
<1>9. ASSUME NEW c \in Conns, LoginState(c) PROVE TabledSessions'
  BY <1>9 DEF LoginState, Step
<1>10. ASSUME NEW c \in Conns, LoginSubscribe(c) PROVE TabledSessions'
  BY <1>10 DEF LoginSubscribe, Step
<1>11. ASSUME NEW c \in Conns, LoginAnswer(c) PROVE TabledSessions'
  BY <1>11 DEF LoginAnswer, Step, Sent
<1>12. ASSUME NEW c \in Conns, LoginClear(c) PROVE TabledSessions'
  BY <1>12 DEF LoginClear, Step
<1>13. ASSUME NEW c \in Conns, LogoutErase(c) PROVE TabledSessions'
  BY <1>13 DEF LogoutErase, Step, Unlocked
<1>14. ASSUME NEW c \in Conns, LogoutUnsubscribe(c) PROVE TabledSessions'
  BY <1>14 DEF LogoutUnsubscribe, Step
<1>15. ASSUME NEW c \in Conns, LogoutState(c) PROVE TabledSessions'
  BY <1>15 DEF LogoutState, Step
<1>16. ASSUME NEW c \in Conns, CloseEvent(c) PROVE TabledSessions'
  BY <1>16 DEF CloseEvent, Step
<1>17. ASSUME NEW c \in Conns, CloseErase(c) PROVE TabledSessions'
  BY <1>17 DEF CloseErase, Step, Unlocked, Entries
<1>18. ASSUME NEW c \in Conns, CloseGarbage(c) PROVE TabledSessions'
  BY <1>18 DEF CloseGarbage, Unlocked, Entries, Gone
<1>19. ASSUME NEW c \in Conns, CloseUnknown(c) PROVE TabledSessions'
  BY <1>19 DEF CloseUnknown, Unlocked, Entries, Gone
<1>20. ASSUME NEW c \in Conns, CloseState(c) PROVE TabledSessions'
  BY <1>20 DEF CloseState, Step
<1>21. ASSUME NEW c \in Conns, CloseUnsubscribe(c) PROVE TabledSessions'
  BY <1>21 DEF CloseUnsubscribe, Gone
<1>22. ASSUME NEW c \in Conns, ChatLocal(c) PROVE TabledSessions'
  BY <1>22 DEF ChatLocal, Unlocked, Forward, Sent, Served
<1>23. ASSUME NEW c \in Conns, ChatRemote(c) PROVE TabledSessions'
  BY <1>23 DEF ChatRemote, Step, Unlocked
<1>24. ASSUME NEW c \in Conns, GroupLock(c) PROVE TabledSessions'
  BY <1>24 DEF GroupLock, Step, Unlocked
<1>25. ASSUME NEW c \in Conns, GroupLocal(c) PROVE TabledSessions'
  BY <1>25 DEF GroupLocal, Forward, Sent
<1>26. ASSUME NEW c \in Conns, GroupRemote(c) PROVE TabledSessions'
  BY <1>26 DEF GroupRemote, Step
<1>27. ASSUME NEW c \in Conns, GroupUnlock(c) PROVE TabledSessions'
  BY <1>27 DEF GroupUnlock, Served
<1>28. ASSUME NEW c \in Conns, QueryState(c) PROVE TabledSessions'
  BY <1>28 DEF QueryState
<1>29. ASSUME NEW c \in Conns, Publish(c) PROVE TabledSessions'
  BY <1>29 DEF Publish, Published, Served, NextPc
<1>30. ASSUME NEW c \in Conns, Save(c) PROVE TabledSessions'
  BY <1>30 DEF Save, Served, NextPc
<1>31. ASSUME NEW s \in Servers, ObserveForward(s) PROVE TabledSessions'
  BY <1>31 DEF ObserveForward, Forward, Sent
<1>32. ASSUME NEW s \in Servers, ObserveSave(s) PROVE TabledSessions'
  BY <1>32 DEF ObserveSave
<1>33. ASSUME NEW s \in Servers, Interrupt(s) PROVE TabledSessions'
  BY <1>33 DEF Interrupt
<1>34. ASSUME NEW s \in Servers, Exit(s) PROVE TabledSessions'
  BY <1>34 DEF Exit, Vanish
<1>35. ASSUME NEW s \in Servers, Kill(s) PROVE TabledSessions'
  BY <1>35 DEF Kill, Vanish
<1>36. ASSUME NEW s \in Servers, Restart(s) PROVE TabledSessions'
  BY <1>36 DEF Restart
<1>37. CASE UNCHANGED vars
  BY <1>37 DEF vars
<1>38. QED
  BY <1>1, <1>2, <1>3, <1>4, <1>5, <1>6, <1>7, <1>8, <1>9, <1>10, <1>11,
      <1>12, <1>13, <1>14, <1>15, <1>16, <1>17, <1>18, <1>19, <1>20, <1>21,
      <1>22, <1>23, <1>24, <1>25, <1>26, <1>27, <1>28, <1>29, <1>30, <1>31,
      <1>32, <1>33, <1>34, <1>35, <1>36, <1>37
     DEF Next, Client, Handler, Login, Logout, Close, Chat, Observer, Process

(* Every step keeps the lock: taken in GroupLock, and released by the end of *)
(* the loop or with the process.                                            *)
LEMMA LockStep ==
  ASSUME IInv, [Next]_vars
  PROVE  LockHolder'
<1> USE ClusterAssumption DEF IInv, TypeOK, HandlerArgs, Pcs,
        LoginPcs, LogoutPcs, ClosePcs, GroupPcs, RoutePcs, db, redis, process, conns, locals,
        handler, history, LockHolder
<1>1. ASSUME NEW c \in Conns, Drop(c) PROVE LockHolder'
  BY <1>1 DEF Drop, CalmWithout
<1>2. ASSUME NEW c \in Conns, LogoutRequest(c) PROVE LockHolder'
  BY <1>2 DEF LogoutRequest, Ready, CalmWithout
<1>3. ASSUME NEW c \in Conns, NEW u \in Users, LoginRequest(c, u) PROVE LockHolder'
  BY <1>3 DEF LoginRequest, Ready, CalmWithout
<1>4. ASSUME NEW c \in Conns, NEW m \in Msgs, GroupRequest(c, m) PROVE LockHolder'
  BY <1>4 DEF GroupRequest, Ready, Address
<1>5. ASSUME NEW c \in Conns, NEW u \in Users, NEW m \in Msgs, ChatRequest(c, u, m)
       PROVE  LockHolder'
  BY <1>5 DEF ChatRequest, Ready, Address
<1>6. ASSUME NEW c \in Conns, LoginRefuse(c) PROVE LockHolder'
  BY <1>6 DEF LoginRefuse, Step
<1>7. ASSUME NEW c \in Conns, LoginQuery(c) PROVE LockHolder'
  BY <1>7 DEF LoginQuery, Step
<1>8. ASSUME NEW c \in Conns, LoginTable(c) PROVE LockHolder'
  BY <1>8 DEF LoginTable, Step, Unlocked
<1>9. ASSUME NEW c \in Conns, LoginState(c) PROVE LockHolder'
  BY <1>9 DEF LoginState, Step
<1>10. ASSUME NEW c \in Conns, LoginSubscribe(c) PROVE LockHolder'
  BY <1>10 DEF LoginSubscribe, Step
<1>11. ASSUME NEW c \in Conns, LoginAnswer(c) PROVE LockHolder'
  BY <1>11 DEF LoginAnswer, Step, Sent
<1>12. ASSUME NEW c \in Conns, LoginClear(c) PROVE LockHolder'
  BY <1>12 DEF LoginClear, Step
<1>13. ASSUME NEW c \in Conns, LogoutErase(c) PROVE LockHolder'
  BY <1>13 DEF LogoutErase, Step, Unlocked
<1>14. ASSUME NEW c \in Conns, LogoutUnsubscribe(c) PROVE LockHolder'
  BY <1>14 DEF LogoutUnsubscribe, Step
<1>15. ASSUME NEW c \in Conns, LogoutState(c) PROVE LockHolder'
  BY <1>15 DEF LogoutState, Step
<1>16. ASSUME NEW c \in Conns, CloseEvent(c) PROVE LockHolder'
  BY <1>16 DEF CloseEvent, Step
<1>17. ASSUME NEW c \in Conns, CloseErase(c) PROVE LockHolder'
  BY <1>17 DEF CloseErase, Step, Unlocked, Entries
<1>18. ASSUME NEW c \in Conns, CloseGarbage(c) PROVE LockHolder'
  BY <1>18 DEF CloseGarbage, Unlocked, Entries, Gone
<1>19. ASSUME NEW c \in Conns, CloseUnknown(c) PROVE LockHolder'
  BY <1>19 DEF CloseUnknown, Unlocked, Entries, Gone
<1>20. ASSUME NEW c \in Conns, CloseState(c) PROVE LockHolder'
  BY <1>20 DEF CloseState, Step
<1>21. ASSUME NEW c \in Conns, CloseUnsubscribe(c) PROVE LockHolder'
  BY <1>21 DEF CloseUnsubscribe, Gone
<1>22. ASSUME NEW c \in Conns, ChatLocal(c) PROVE LockHolder'
  BY <1>22 DEF ChatLocal, Unlocked, Forward, Sent, Served
<1>23. ASSUME NEW c \in Conns, ChatRemote(c) PROVE LockHolder'
  BY <1>23 DEF ChatRemote, Step, Unlocked
<1>24. ASSUME NEW c \in Conns, GroupLock(c) PROVE LockHolder'
  BY <1>24 DEF GroupLock, Step, Unlocked
<1>25. ASSUME NEW c \in Conns, GroupLocal(c) PROVE LockHolder'
  BY <1>25 DEF GroupLocal, Forward, Sent
<1>26. ASSUME NEW c \in Conns, GroupRemote(c) PROVE LockHolder'
  BY <1>26 DEF GroupRemote, Step
<1>27. ASSUME NEW c \in Conns, GroupUnlock(c) PROVE LockHolder'
  BY <1>27 DEF GroupUnlock, Served
<1>28. ASSUME NEW c \in Conns, QueryState(c) PROVE LockHolder'
  BY <1>28 DEF QueryState
<1>29. ASSUME NEW c \in Conns, Publish(c) PROVE LockHolder'
  BY <1>29 DEF Publish, Published, Served, NextPc
<1>30. ASSUME NEW c \in Conns, Save(c) PROVE LockHolder'
  BY <1>30 DEF Save, Served, NextPc
<1>31. ASSUME NEW s \in Servers, ObserveForward(s) PROVE LockHolder'
  BY <1>31 DEF ObserveForward, Forward, Sent
<1>32. ASSUME NEW s \in Servers, ObserveSave(s) PROVE LockHolder'
  BY <1>32 DEF ObserveSave
<1>33. ASSUME NEW s \in Servers, Interrupt(s) PROVE LockHolder'
  BY <1>33 DEF Interrupt
<1>34. ASSUME NEW s \in Servers, Exit(s) PROVE LockHolder'
  BY <1>34 DEF Exit, Vanish
<1>35. ASSUME NEW s \in Servers, Kill(s) PROVE LockHolder'
  BY <1>35 DEF Kill, Vanish
<1>36. ASSUME NEW s \in Servers, Restart(s) PROVE LockHolder'
  BY <1>36 DEF Restart
<1>37. CASE UNCHANGED vars
  BY <1>37 DEF vars
<1>38. QED
  BY <1>1, <1>2, <1>3, <1>4, <1>5, <1>6, <1>7, <1>8, <1>9, <1>10, <1>11,
      <1>12, <1>13, <1>14, <1>15, <1>16, <1>17, <1>18, <1>19, <1>20, <1>21,
      <1>22, <1>23, <1>24, <1>25, <1>26, <1>27, <1>28, <1>29, <1>30, <1>31,
      <1>32, <1>33, <1>34, <1>35, <1>36, <1>37
     DEF Next, Client, Handler, Login, Logout, Close, Chat, Observer, Process

(* Every step hands a message on only to those it is addressed to. *)
LEMMA AddresseeStep ==
  ASSUME IInv, OnlyAddressees, [Next]_vars
  PROVE  OnlyAddressees'
<1> USE ClusterAssumption DEF IInv, TypeOK, HandlerArgs, Pcs,
        LoginPcs, LogoutPcs, ClosePcs, GroupPcs, RoutePcs, db, redis, process, conns, locals,
        handler, history, OnlyAddressees, LockHolder
<1>1. ASSUME NEW c \in Conns, Drop(c) PROVE OnlyAddressees'
  BY <1>1 DEF Drop, CalmWithout
<1>2. ASSUME NEW c \in Conns, LogoutRequest(c) PROVE OnlyAddressees'
  BY <1>2 DEF LogoutRequest, Ready, CalmWithout
<1>3. ASSUME NEW c \in Conns, NEW u \in Users, LoginRequest(c, u)
       PROVE  OnlyAddressees'
  BY <1>3 DEF LoginRequest, Ready, CalmWithout
<1>4. ASSUME NEW c \in Conns, NEW m \in Msgs, GroupRequest(c, m)
       PROVE  OnlyAddressees'
  <2>1. addressed' = addressed \cup ((GroupUsers \ {user[c]}) \X {m}) /\ m \in Msgs
    BY <1>4 DEF GroupRequest, Address
  <2>2. delivered' \subseteq addressed'
    BY <1>4, <2>1 DEF GroupRequest
  <2>3. \A v \in Users : \A n \in stored'[v] : <<v, n>> \in addressed'
    BY <1>4, <2>1 DEF GroupRequest
  <2>4. \A s \in Servers : chan'[s] \in Seq(addressed')
    BY <1>4, <2>1, SeqMono DEF GroupRequest
  <2>5. ASSUME NEW d \in Conns, NEW v \in Users, NEW n \in Msgs,
               msg'[d] = n, v = to'[d] \/ v \in rest'[d]
        PROVE  <<v, n>> \in addressed'
    <3>1. CASE d = c
      <4>1. pc[c] = "idle" /\ rest[c] = {} /\ to[c] = None
        BY <1>4, IdleArgs DEF GroupRequest, Ready
      <4>2. msg'[c] = m /\ to'[c] = to[c] /\ rest'[c] = GroupUsers \ {user[c]}
        BY <1>4 DEF GroupRequest
      <4>3. n = m /\ v \in (GroupUsers \ {user[c]})
        BY <2>5, <3>1, <4>1, <4>2
      <4> QED
        BY <2>1, <4>3
    <3>2. CASE d # c
      BY <1>4, <2>1, <2>5, <3>2 DEF GroupRequest
    <3> QED
      BY <3>1, <3>2
  <2> QED
    BY <2>2, <2>3, <2>4, <2>5
<1>5. ASSUME NEW c \in Conns, NEW u \in Users, NEW m \in Msgs, ChatRequest(c, u, m)
       PROVE  OnlyAddressees'
  <2>1. addressed' = addressed \cup ({u} \X {m}) /\ m \in Msgs
    BY <1>5 DEF ChatRequest, Address
  <2>2. delivered' \subseteq addressed'
    BY <1>5, <2>1 DEF ChatRequest
  <2>3. \A v \in Users : \A n \in stored'[v] : <<v, n>> \in addressed'
    BY <1>5, <2>1 DEF ChatRequest
  <2>4. \A s \in Servers : chan'[s] \in Seq(addressed')
    BY <1>5, <2>1, SeqMono DEF ChatRequest
  <2>5. ASSUME NEW d \in Conns, NEW v \in Users, NEW n \in Msgs,
               msg'[d] = n, v = to'[d] \/ v \in rest'[d]
        PROVE  <<v, n>> \in addressed'
    <3>1. CASE d = c
      <4>1. pc[c] = "idle" /\ rest[c] = {} /\ to[c] = None
        BY <1>5, IdleArgs DEF ChatRequest, Ready
      <4>2. msg'[c] = m /\ to'[c] = u /\ rest'[c] = rest[c]
        BY <1>5 DEF ChatRequest
      <4>3. n = m /\ v \in {u}
        BY <2>5, <3>1, <4>1, <4>2
      <4> QED
        BY <2>1, <4>3
    <3>2. CASE d # c
      BY <1>5, <2>1, <2>5, <3>2 DEF ChatRequest
    <3> QED
      BY <3>1, <3>2
  <2> QED
    BY <2>2, <2>3, <2>4, <2>5
<1>6. ASSUME NEW c \in Conns, LoginRefuse(c) PROVE OnlyAddressees'
  BY <1>6 DEF LoginRefuse, Step
<1>7. ASSUME NEW c \in Conns, LoginQuery(c) PROVE OnlyAddressees'
  BY <1>7 DEF LoginQuery, Step
<1>8. ASSUME NEW c \in Conns, LoginTable(c) PROVE OnlyAddressees'
  BY <1>8 DEF LoginTable, Step, Unlocked
<1>9. ASSUME NEW c \in Conns, LoginState(c) PROVE OnlyAddressees'
  BY <1>9 DEF LoginState, Step
<1>10. ASSUME NEW c \in Conns, LoginSubscribe(c) PROVE OnlyAddressees'
  BY <1>10 DEF LoginSubscribe, Step
<1>11. ASSUME NEW c \in Conns, LoginAnswer(c) PROVE OnlyAddressees'
  BY <1>11 DEF LoginAnswer, Step, Sent
<1>12. ASSUME NEW c \in Conns, LoginClear(c) PROVE OnlyAddressees'
  BY <1>12 DEF LoginClear, Step
<1>13. ASSUME NEW c \in Conns, LogoutErase(c) PROVE OnlyAddressees'
  BY <1>13 DEF LogoutErase, Step, Unlocked
<1>14. ASSUME NEW c \in Conns, LogoutUnsubscribe(c) PROVE OnlyAddressees'
  BY <1>14 DEF LogoutUnsubscribe, Step
<1>15. ASSUME NEW c \in Conns, LogoutState(c) PROVE OnlyAddressees'
  BY <1>15 DEF LogoutState, Step
<1>16. ASSUME NEW c \in Conns, CloseEvent(c) PROVE OnlyAddressees'
  BY <1>16 DEF CloseEvent, Step
<1>17. ASSUME NEW c \in Conns, CloseErase(c) PROVE OnlyAddressees'
  <2>1. pc[c] = "c_erase" /\ msg[c] = None /\ rest[c] = {}
    BY <1>17 DEF CloseErase, Step
  <2>2. /\ UNCHANGED <<stored, chan, msg, rest, addressed, delivered>>
        /\ \A d \in Conns : d # c => to'[d] = to[d]
    BY <1>17 DEF CloseErase
  <2>3. \A d \in Conns, u \in Users, m \in Msgs :
          msg'[d] = m /\ (u = to'[d] \/ u \in rest'[d]) => <<u, m>> \in addressed'
    BY <2>1, <2>2
  <2> QED
    BY <2>2, <2>3
<1>18. ASSUME NEW c \in Conns, CloseGarbage(c) PROVE OnlyAddressees'
  BY <1>18 DEF CloseGarbage, Unlocked, Entries, Gone
<1>19. ASSUME NEW c \in Conns, CloseUnknown(c) PROVE OnlyAddressees'
  BY <1>19 DEF CloseUnknown, Unlocked, Entries, Gone
<1>20. ASSUME NEW c \in Conns, CloseState(c) PROVE OnlyAddressees'
  BY <1>20 DEF CloseState, Step
<1>21. ASSUME NEW c \in Conns, CloseUnsubscribe(c) PROVE OnlyAddressees'
  BY <1>21 DEF CloseUnsubscribe, Gone
<1>22. ASSUME NEW c \in Conns, ChatLocal(c) PROVE OnlyAddressees'
  BY <1>22 DEF ChatLocal, Unlocked, Forward, Sent, Served
<1>23. ASSUME NEW c \in Conns, ChatRemote(c) PROVE OnlyAddressees'
  BY <1>23 DEF ChatRemote, Step, Unlocked
<1>24. ASSUME NEW c \in Conns, GroupLock(c) PROVE OnlyAddressees'
  BY <1>24 DEF GroupLock, Step, Unlocked
<1>25. ASSUME NEW c \in Conns, GroupLocal(c) PROVE OnlyAddressees'
  BY <1>25 DEF GroupLocal, Forward, Sent
<1>26. ASSUME NEW c \in Conns, GroupRemote(c) PROVE OnlyAddressees'
  BY <1>26 DEF GroupRemote, Step
<1>27. ASSUME NEW c \in Conns, GroupUnlock(c) PROVE OnlyAddressees'
  BY <1>27 DEF GroupUnlock, Served
<1>28. ASSUME NEW c \in Conns, QueryState(c) PROVE OnlyAddressees'
  BY <1>28 DEF QueryState
<1>29. ASSUME NEW c \in Conns, Publish(c) PROVE OnlyAddressees'
  BY <1>29 DEF Publish, Published, Served, NextPc
<1>30. ASSUME NEW c \in Conns, Save(c) PROVE OnlyAddressees'
  BY <1>30 DEF Save, Served, NextPc
<1>31. ASSUME NEW s \in Servers, ObserveForward(s) PROVE OnlyAddressees'
  <2>1. chan[s] # <<>> /\ chan[s] \in Seq(addressed) /\ addressed \subseteq Users \X Msgs
    BY <1>31 DEF ObserveForward
  <2>2. Head(chan[s]) \in addressed /\ Tail(chan[s]) \in Seq(addressed)
    BY ONLY <2>1, HeadTail
  <2>3. PICK u \in Users, m \in Msgs : Head(chan[s]) = <<u, m>>
    BY ONLY <2>1, <2>2
  <2>4. <<u, m>> \in addressed
    BY ONLY <2>2, <2>3
  <2>5. delivered \subseteq addressed /\ delivered' \subseteq delivered \cup {<<u, m>>}
    BY <1>31, <2>3 DEF ObserveForward, Forward, Sent
  <2>6. delivered' \subseteq addressed
    BY ONLY <2>4, <2>5
  <2>7. UNCHANGED <<stored, chan, msg, to, rest, addressed>>
    BY <1>31 DEF ObserveForward
  <2> QED
    BY <2>6, <2>7
<1>32. ASSUME NEW s \in Servers, ObserveSave(s) PROVE OnlyAddressees'
  <2>1. chan[s] # <<>> /\ chan[s] \in Seq(addressed) /\ addressed \subseteq Users \X Msgs
    BY <1>32 DEF ObserveSave
  <2>2. Head(chan[s]) \in addressed /\ Tail(chan[s]) \in Seq(addressed)
    BY ONLY <2>1, HeadTail
  <2>3. PICK u \in Users, m \in Msgs : Head(chan[s]) = <<u, m>>
    BY ONLY <2>1, <2>2
  <2>4. <<u, m>> \in addressed
    BY ONLY <2>2, <2>3
  <2>5. /\ stored' = [stored EXCEPT ![u] = @ \cup {m}]
        /\ chan' = [chan EXCEPT ![s] = Tail(chan[s])]
        /\ UNCHANGED <<msg, to, rest, addressed, delivered>>
    <3>1. Head(chan[s])[1] = u /\ Head(chan[s])[2] = m
      BY ONLY <2>3
    <3>2. /\ stored' = [stored EXCEPT ![Head(chan[s])[1]] = @ \cup {Head(chan[s])[2]}]
          /\ chan' = [chan EXCEPT ![s] = Tail(chan[s])]
          /\ UNCHANGED <<msg, to, rest, addressed, delivered>>
      BY <1>32 DEF ObserveSave
    <3> QED
      BY ONLY <3>1, <3>2
  <2>6. ASSUME NEW v \in Users, NEW n \in stored'[v]
        PROVE  <<v, n>> \in addressed
    <3>1. n \in stored[v] \/ (v = u /\ n = m)
      BY <2>5, <2>6
    <3> QED
      BY <2>4, <3>1
  <2>7. \A t \in Servers : chan'[t] \in Seq(addressed)
    BY <2>2, <2>5
  <2> QED
    BY <2>5, <2>6, <2>7
<1>33. ASSUME NEW s \in Servers, Interrupt(s) PROVE OnlyAddressees'
  BY <1>33 DEF Interrupt
<1>34. ASSUME NEW s \in Servers, Exit(s) PROVE OnlyAddressees'
  BY <1>34 DEF Exit, Vanish
<1>35. ASSUME NEW s \in Servers, Kill(s) PROVE OnlyAddressees'
  BY <1>35 DEF Kill, Vanish
<1>36. ASSUME NEW s \in Servers, Restart(s) PROVE OnlyAddressees'
  BY <1>36 DEF Restart
<1>37. CASE UNCHANGED vars
  BY <1>37 DEF vars
<1>38. QED
  BY <1>1, <1>2, <1>3, <1>4, <1>5, <1>6, <1>7, <1>8, <1>9, <1>10, <1>11,
      <1>12, <1>13, <1>14, <1>15, <1>16, <1>17, <1>18, <1>19, <1>20, <1>21,
      <1>22, <1>23, <1>24, <1>25, <1>26, <1>27, <1>28, <1>29, <1>30, <1>31,
      <1>32, <1>33, <1>34, <1>35, <1>36, <1>37
     DEF Next, Client, Handler, Login, Logout, Close, Chat, Observer, Process

(* No step changes the table under a lock that stays with its holder. *)
LEMMA GuardStep ==
  ASSUME IInv, [Next]_vars, NEW s \in Servers, lock[s] # None, lock'[s] = lock[s]
  PROVE  table'[s] = table[s]
<1> USE ClusterAssumption DEF IInv, TypeOK, HandlerArgs, Pcs,
        LoginPcs, LogoutPcs, ClosePcs, GroupPcs, RoutePcs, db, redis, process, conns, locals,
        handler, history
<1>1. ASSUME NEW c \in Conns, Drop(c) PROVE table'[s] = table[s]
  BY <1>1 DEF Drop, CalmWithout
<1>2. ASSUME NEW c \in Conns, LogoutRequest(c) PROVE table'[s] = table[s]
  BY <1>2 DEF LogoutRequest, Ready, CalmWithout
<1>3. ASSUME NEW c \in Conns, NEW u \in Users, LoginRequest(c, u)
       PROVE  table'[s] = table[s]
  BY <1>3 DEF LoginRequest, Ready, CalmWithout
<1>4. ASSUME NEW c \in Conns, NEW m \in Msgs, GroupRequest(c, m)
       PROVE  table'[s] = table[s]
  BY <1>4 DEF GroupRequest, Ready, Address
<1>5. ASSUME NEW c \in Conns, NEW u \in Users, NEW m \in Msgs, ChatRequest(c, u, m)
       PROVE  table'[s] = table[s]
  BY <1>5 DEF ChatRequest, Ready, Address
<1>6. ASSUME NEW c \in Conns, LoginRefuse(c) PROVE table'[s] = table[s]
  BY <1>6 DEF LoginRefuse, Step
<1>7. ASSUME NEW c \in Conns, LoginQuery(c) PROVE table'[s] = table[s]
  BY <1>7 DEF LoginQuery, Step
<1>8. ASSUME NEW c \in Conns, LoginTable(c) PROVE table'[s] = table[s]
  BY <1>8 DEF LoginTable, Step, Unlocked
<1>9. ASSUME NEW c \in Conns, LoginState(c) PROVE table'[s] = table[s]
  BY <1>9 DEF LoginState, Step
<1>10. ASSUME NEW c \in Conns, LoginSubscribe(c) PROVE table'[s] = table[s]
  BY <1>10 DEF LoginSubscribe, Step
<1>11. ASSUME NEW c \in Conns, LoginAnswer(c) PROVE table'[s] = table[s]
  BY <1>11 DEF LoginAnswer, Step, Sent
<1>12. ASSUME NEW c \in Conns, LoginClear(c) PROVE table'[s] = table[s]
  BY <1>12 DEF LoginClear, Step
<1>13. ASSUME NEW c \in Conns, LogoutErase(c) PROVE table'[s] = table[s]
  BY <1>13 DEF LogoutErase, Step, Unlocked
<1>14. ASSUME NEW c \in Conns, LogoutUnsubscribe(c) PROVE table'[s] = table[s]
  BY <1>14 DEF LogoutUnsubscribe, Step
<1>15. ASSUME NEW c \in Conns, LogoutState(c) PROVE table'[s] = table[s]
  BY <1>15 DEF LogoutState, Step
<1>16. ASSUME NEW c \in Conns, CloseEvent(c) PROVE table'[s] = table[s]
  BY <1>16 DEF CloseEvent, Step
<1>17. ASSUME NEW c \in Conns, CloseErase(c) PROVE table'[s] = table[s]
  BY <1>17 DEF CloseErase, Step, Unlocked, Entries
<1>18. ASSUME NEW c \in Conns, CloseGarbage(c) PROVE table'[s] = table[s]
  BY <1>18 DEF CloseGarbage, Unlocked, Entries, Gone
<1>19. ASSUME NEW c \in Conns, CloseUnknown(c) PROVE table'[s] = table[s]
  BY <1>19 DEF CloseUnknown, Unlocked, Entries, Gone
<1>20. ASSUME NEW c \in Conns, CloseState(c) PROVE table'[s] = table[s]
  BY <1>20 DEF CloseState, Step
<1>21. ASSUME NEW c \in Conns, CloseUnsubscribe(c) PROVE table'[s] = table[s]
  BY <1>21 DEF CloseUnsubscribe, Gone
<1>22. ASSUME NEW c \in Conns, ChatLocal(c) PROVE table'[s] = table[s]
  BY <1>22 DEF ChatLocal, Unlocked, Forward, Sent, Served
<1>23. ASSUME NEW c \in Conns, ChatRemote(c) PROVE table'[s] = table[s]
  BY <1>23 DEF ChatRemote, Step, Unlocked
<1>24. ASSUME NEW c \in Conns, GroupLock(c) PROVE table'[s] = table[s]
  BY <1>24 DEF GroupLock, Step, Unlocked
<1>25. ASSUME NEW c \in Conns, GroupLocal(c) PROVE table'[s] = table[s]
  BY <1>25 DEF GroupLocal, Forward, Sent
<1>26. ASSUME NEW c \in Conns, GroupRemote(c) PROVE table'[s] = table[s]
  BY <1>26 DEF GroupRemote, Step
<1>27. ASSUME NEW c \in Conns, GroupUnlock(c) PROVE table'[s] = table[s]
  BY <1>27 DEF GroupUnlock, Served
<1>28. ASSUME NEW c \in Conns, QueryState(c) PROVE table'[s] = table[s]
  BY <1>28 DEF QueryState
<1>29. ASSUME NEW c \in Conns, Publish(c) PROVE table'[s] = table[s]
  BY <1>29 DEF Publish, Published, Served, NextPc
<1>30. ASSUME NEW c \in Conns, Save(c) PROVE table'[s] = table[s]
  BY <1>30 DEF Save, Served, NextPc
<1>31. ASSUME NEW t \in Servers, ObserveForward(t) PROVE table'[s] = table[s]
  BY <1>31 DEF ObserveForward, Forward, Sent
<1>32. ASSUME NEW t \in Servers, ObserveSave(t) PROVE table'[s] = table[s]
  BY <1>32 DEF ObserveSave
<1>33. ASSUME NEW t \in Servers, Interrupt(t) PROVE table'[s] = table[s]
  BY <1>33 DEF Interrupt
<1>34. ASSUME NEW t \in Servers, Exit(t) PROVE table'[s] = table[s]
  BY <1>34 DEF Exit, Vanish
<1>35. ASSUME NEW t \in Servers, Kill(t) PROVE table'[s] = table[s]
  BY <1>35 DEF Kill, Vanish
<1>36. ASSUME NEW t \in Servers, Restart(t) PROVE table'[s] = table[s]
  BY <1>36 DEF Restart
<1>37. CASE UNCHANGED vars
  BY <1>37 DEF vars
<1>38. QED
  BY <1>1, <1>2, <1>3, <1>4, <1>5, <1>6, <1>7, <1>8, <1>9, <1>10, <1>11,
      <1>12, <1>13, <1>14, <1>15, <1>16, <1>17, <1>18, <1>19, <1>20, <1>21,
      <1>22, <1>23, <1>24, <1>25, <1>26, <1>27, <1>28, <1>29, <1>30, <1>31,
      <1>32, <1>33, <1>34, <1>35, <1>36, <1>37
     DEF Next, Client, Handler, Login, Logout, Close, Chat, Observer, Process

-----------------------------------------------------------------------------
(* The inductive invariant holds in every reachable state. *)
LEMMA Invariance == Spec => []IInv
<1>1. Init => IInv
  BY InitInv
<1>2. IInv /\ [Next]_vars => IInv'
  BY TypeStep, HandlerArgsStep, TabledStep, LockStep DEF IInv
<1> QED
  BY <1>1, <1>2, PTL DEF Spec

(* Every variable keeps its type. *)
THEOREM Typing == Spec => []TypeOK
<1>1. IInv => TypeOK
  BY DEF IInv
<1> QED
  BY <1>1, Invariance, PTL

(* userConnTable_ names, for a user, only a live connection on which that    *)
(* user has logged in and not yet logged out.                               *)
THEOREM SessionsTabled == Spec => []TabledSessions
<1>1. IInv => TabledSessions
  BY DEF IInv
<1> QED
  BY <1>1, Invariance, PTL

(* connMtx_ is held across steps only by a groupChat in its loop. *)
THEOREM LockHeldInLoop == Spec => []LockHolder
<1>1. IInv => LockHolder
  BY DEF IInv
<1> QED
  BY <1>1, Invariance, PTL

(* Every copy of a message is for a user its sender addressed. *)
THEOREM Addressees == Spec => []OnlyAddressees
<1>1. Init => OnlyAddressees
  BY InitInv
<1>2. IInv /\ OnlyAddressees /\ [Next]_vars => OnlyAddressees'
  BY AddresseeStep
<1> QED
  BY <1>1, <1>2, Invariance, PTL DEF Spec

(* userConnTable_ does not change while a groupChat goes on holding connMtx_. *)
THEOREM LockGuards == Spec => LockGuardsTable
<1>1. IInv /\ [Next]_vars =>
        [\A s \in Servers :
           lock[s] # None /\ lock'[s] = lock[s] => table'[s] = table[s]]_vars
  BY GuardStep
<1> QED
  BY <1>1, Invariance, PTL DEF Spec, LockGuardsTable

-----------------------------------------------------------------------------
(* Sessions of a user that never overlap, on servers that never stop: the   *)
(* database, the tables and the subscriptions go through the same phases    *)
(* with the connection the user has.                                        *)

OneSession ==
  /\ \A c, d \in Conns : user[c] # None /\ user[c] = user[d] => c = d
  /\ \A c \in Conns : pc[c] \in {"c_state", "c_unsub"} => user[c] = to[c]
  /\ \A s \in Servers : proc[s] = "running"

(* The steps at which the user is not in the table, not online, or not       *)
(* subscribed.  Until the state has been read, the session has nothing.     *)
Untabled == {"l_query", "l_table", "o_unsub", "o_state", "c_state", "c_unsub"}
Offline  == {"l_table", "l_state", "c_unsub"}
Deaf     == {"l_table", "l_state", "l_sub", "o_state"}
Partly   == Untabled \cup Offline \cup Deaf

InPhase(c, u) ==
  /\ \A s \in Servers : table[s][u] = IF s = Home[c] /\ pc[c] \notin Untabled THEN c ELSE None
  /\ pc[c] = "l_query" => (state[u] = "online" <=> \E s \in Servers : u \in subs[s])
  /\ pc[c] # "l_query" =>
       /\ state[u] = IF pc[c] \in Offline THEN "offline" ELSE "online"
       /\ \A s \in Servers : u \in subs[s] <=> s = Home[c] /\ pc[c] \notin Deaf

Away(u) ==
  /\ \A s \in Servers : table[s][u] = None
  /\ state[u] = "online" <=> \E s \in Servers : u \in subs[s]

SessionInv ==
  /\ \A c \in Conns, u \in Users : user[c] = u => InPhase(c, u)
  /\ \A u \in Users : (\A c \in Conns : user[c] # u) => Away(u)

LEMMA SessionInit == Init => OneSession /\ SessionInv
<1> SUFFICES ASSUME Init PROVE OneSession /\ SessionInv
  OBVIOUS
<1>1. OneSession
  BY DEF Init, OneSession
<1>2. \A c \in Conns, u \in Users : user[c] # u
  BY ClusterAssumption DEF Init
<1>3. \A u \in Users : Away(u)
  BY DEF Init, Away
<1> QED
  BY <1>1, <1>2, <1>3 DEF SessionInv

(* What an action that leaves the sessions of all users alone keeps. *)
LEMMA SessionRests ==
  ASSUME SessionInv, UNCHANGED <<state, subs, table, user>>,
         \A c \in Conns : pc'[c] = pc[c] \/ (pc[c] \notin Partly /\ pc'[c] \notin Partly)
  PROVE  SessionInv'
<1>1. ASSUME NEW c \in Conns, NEW u \in Users, user[c] = u PROVE InPhase(c, u)'
  <2>1. InPhase(c, u)
    BY <1>1 DEF SessionInv
  <2> QED
    BY <2>1 DEF InPhase, Partly, Untabled, Offline, Deaf
<1>2. ASSUME NEW u \in Users, \A c \in Conns : user[c] # u PROVE Away(u)'
  BY <1>2 DEF SessionInv, Away
<1> QED
  BY <1>1, <1>2 DEF SessionInv

(* A step of the one session of u leaves the other users alone. *)
LEMMA SessionMoves ==
  ASSUME TypeOK, SessionInv, NEW c \in Conns, NEW u \in Users,
         user[c] \in {u, None}, user'[c] \in {u, None},
         \A d \in Conns : d # c => user[d] # u /\ user'[d] = user[d] /\ pc'[d] = pc[d],
         \A v \in Users : v # u =>
           /\ state'[v] = state[v]
           /\ \A s \in Servers : table'[s][v] = table[s][v] /\ (v \in subs'[s] <=> v \in subs[s]),
         user'[c] = u => InPhase(c, u)',
         user'[c] # u => Away(u)'
  PROVE  SessionInv'
<1> USE ClusterAssumption
<1>1. ASSUME NEW d \in Conns, NEW v \in Users, user'[d] = v PROVE InPhase(d, v)'
  <2>1. CASE d = c
    BY <1>1, <2>1
  <2>2. CASE d # c
    <3>1. InPhase(d, v) /\ v # u /\ pc'[d] = pc[d]
      BY <1>1, <2>2 DEF SessionInv
    <3> QED
      BY <3>1 DEF InPhase
  <2> QED
    BY <2>1, <2>2
<1>2. ASSUME NEW v \in Users, \A d \in Conns : user'[d] # v PROVE Away(v)'
  <2>1. CASE v = u
    BY <1>2, <2>1
  <2>2. CASE v # u
    <3>1. \A d \in Conns : user[d] # v
      BY <1>2, <2>2
    <3>2. Away(v)
      BY <3>1 DEF SessionInv
    <3> QED
      BY <2>2, <3>2 DEF Away
  <2> QED
    BY <2>1, <2>2
<1> QED
  BY <1>1, <1>2 DEF SessionInv

LEMMA OneSessionStep ==
  ASSUME ~Overlap, ~Stops, IInv, OneSession, [Next]_vars
  PROVE  OneSession'
<1> USE ClusterAssumption DEF IInv, TypeOK, HandlerArgs, OneSession,
        LoginPcs, LogoutPcs, ClosePcs, GroupPcs, RoutePcs, db, redis, process, conns, locals,
        handler, history
<1>1. ASSUME NEW c \in Conns, Client(c) PROVE OneSession'
  <2>1. CASE Drop(c)
    BY <2>1 DEF Drop
  <2>2. CASE LogoutRequest(c)
    BY <2>2 DEF LogoutRequest, Ready
  <2>3. ASSUME NEW u \in Users, LoginRequest(c, u) PROVE OneSession'
    BY <2>3 DEF LoginRequest, Ready
  <2>4. ASSUME NEW m \in Msgs, GroupRequest(c, m) PROVE OneSession'
    BY <2>4 DEF GroupRequest, Ready
  <2>5. ASSUME NEW u \in Users, NEW m \in Msgs, ChatRequest(c, u, m) PROVE OneSession'
    BY <2>5 DEF ChatRequest, Ready
  <2> QED
    BY <1>1, <2>1, <2>2, <2>3, <2>4, <2>5 DEF Client
<1>2. ASSUME NEW c \in Conns, Login(c) \/ Logout(c) PROVE OneSession'
  <2>1. CASE LoginRefuse(c)
    BY <2>1 DEF LoginRefuse, Step
  <2>2. CASE LoginQuery(c) \/ LoginTable(c) \/ LoginState(c) \/ LoginSubscribe(c) \/ LoginAnswer(c)
             \/ LoginClear(c)
    BY <2>2 DEF LoginQuery, LoginTable, LoginState, LoginSubscribe, LoginAnswer, LoginClear, Step
  <2>3. CASE LogoutErase(c) \/ LogoutUnsubscribe(c)
    BY <2>3 DEF LogoutErase, LogoutUnsubscribe, Step
  <2>4. CASE LogoutState(c)
    BY <2>4 DEF LogoutState, Step
  <2> QED
    BY <1>2, <2>1, <2>2, <2>3, <2>4 DEF Login, Logout
<1>3. ASSUME NEW c \in Conns, Close(c) PROVE OneSession'
  <2>1. CASE CloseEvent(c)
    BY <2>1 DEF CloseEvent, Step
  <2>2. CASE CloseErase(c)
    <3>1. PICK u \in Users : table[Home[c]][u] = c /\ to' = [to EXCEPT ![c] = u]
      BY <2>2 DEF CloseErase, Entries
    <3>2. user[c] = u
      <4>1. TabledSessions /\ Home[c] \in Servers /\ c # None
        OBVIOUS
      <4> QED
        BY ONLY <3>1, <4>1 DEF TabledSessions
    <3>3. UNCHANGED <<user, proc>> /\ \A d \in Conns : d # c => pc'[d] = pc[d]
      BY <2>2 DEF CloseErase, Step
    <3>4. to'[c] = u /\ \A d \in Conns : d # c => to'[d] = to[d]
      BY <3>1
    <3>5. ASSUME NEW d \in Conns, pc'[d] \in {"c_state", "c_unsub"} PROVE user'[d] = to'[d]
      BY <3>2, <3>3, <3>4, <3>5
    <3> QED
      BY <3>3, <3>5
  <2>3. CASE CloseGarbage(c)
    BY <2>3 DEF CloseGarbage, Gone
  <2>4. CASE CloseUnknown(c)
    BY <2>4 DEF CloseUnknown, Gone
  <2>5. CASE CloseState(c)
    BY <2>5 DEF CloseState, Step
  <2>6. CASE CloseUnsubscribe(c)
    BY <2>6 DEF CloseUnsubscribe, Gone
  <2> QED
    BY <1>3, <2>1, <2>2, <2>3, <2>4, <2>5, <2>6 DEF Close
<1>4. ASSUME NEW c \in Conns, Chat(c) PROVE OneSession'
  <2>1. UNCHANGED <<user, proc>>
    BY <1>4 DEF Chat, ChatLocal, ChatRemote, GroupLock, GroupLocal, GroupRemote, GroupUnlock,
            QueryState, Publish, Save
  <2>2. \A d \in Conns : pc'[d] \in {"c_state", "c_unsub"} => pc[d] \in {"c_state", "c_unsub"} /\ d # c
    BY <1>4 DEF Chat, ChatLocal, ChatRemote, GroupLock, GroupLocal, GroupRemote, GroupUnlock,
            QueryState, Publish, Save, Step, Served, NextPc
  <2>3. \A d \in Conns : d # c => to'[d] = to[d]
    BY <1>4 DEF Chat, ChatLocal, ChatRemote, GroupLock, GroupLocal, GroupRemote, GroupUnlock,
            QueryState, Publish, Save, Served
  <2> QED
    BY <2>1, <2>2, <2>3
<1>5. ASSUME NEW s \in Servers, Observer(s) PROVE OneSession'
  BY <1>5 DEF Observer, ObserveForward, ObserveSave
<1>6. ASSUME NEW s \in Servers, Process(s) PROVE FALSE
  BY <1>6 DEF Process, Interrupt, Exit, Kill, Restart
<1>7. CASE UNCHANGED vars
  BY <1>7 DEF vars
<1> QED
  BY <1>1, <1>2, <1>3, <1>4, <1>5, <1>6, <1>7 DEF Next, Handler

(* The user of a login or a logout, whose only session it is. *)
LEMMA SessionUser ==
  ASSUME IInv, OneSession, SessionInv, NEW c \in Conns, pc[c] \in LoginPcs \cup LogoutPcs
  PROVE  \E u \in Users : /\ user[c] = u /\ InPhase(c, u)
                          /\ \A d \in Conns : d # c => user[d] # u
<1>1. user[c] \in Users
  BY ClusterAssumption DEF IInv, HandlerArgs, TypeOK
<1> QED
  BY <1>1, ClusterAssumption DEF SessionInv, OneSession

LEMMA SessionLogin ==
  ASSUME IInv, OneSession, SessionInv, NEW c \in Conns, Login(c)
  PROVE  SessionInv'
<1> USE ClusterAssumption DEF db, redis, process, conns, locals, handler, history
<1>1. TypeOK
  BY DEF IInv
<1>2. PICK u \in Users : user[c] = u /\ InPhase(c, u) /\ \A d \in Conns : d # c => user[d] # u
  <2>1. pc[c] \in LoginPcs
    BY DEF Login, LoginRefuse, LoginQuery, LoginTable, LoginState, LoginSubscribe, LoginAnswer,
           LoginClear, Step, LoginPcs
  <2> QED
    BY <2>1, SessionUser
<1> USE DEF Step
<1>3. CASE LoginRefuse(c)
  <2>1. /\ pc[c] = "l_query" /\ \A d \in Conns : d # c => pc'[d] = pc[d] /\ user'[d] = user[d]
        /\ user'[c] = None /\ UNCHANGED <<state, subs, table>>
    BY <1>1, <1>3 DEF LoginRefuse, TypeOK
  <2>2. Away(u)'
    BY <1>2, <2>1 DEF Away, InPhase, Untabled
  <2> QED
    BY <1>1, <1>2, <2>1, <2>2, SessionMoves
<1>4. CASE LoginQuery(c)
  <2>1. /\ pc[c] = "l_query" /\ pc'[c] = "l_table" /\ \A d \in Conns : d # c => pc'[d] = pc[d]
        /\ state[u] = "offline" /\ UNCHANGED <<state, subs, table, user>>
    BY <1>1, <1>2, <1>4 DEF LoginQuery, TypeOK
  <2>2. InPhase(c, u)'
    BY <1>2, <2>1 DEF InPhase, Untabled, Offline, Deaf
  <2> QED
    BY <1>1, <1>2, <2>1, <2>2, SessionMoves
<1>5. CASE LoginTable(c)
  <2>1. /\ pc[c] = "l_table" /\ pc'[c] = "l_state" /\ \A d \in Conns : d # c => pc'[d] = pc[d]
        /\ table' = [table EXCEPT ![Home[c]][u] = IF @ = None THEN c ELSE @]
        /\ UNCHANGED <<state, subs, user>>
    BY <1>1, <1>2, <1>5 DEF LoginTable, TypeOK
  <2>2. table[Home[c]][u] = None
    BY <1>2, <2>1 DEF InPhase, Untabled
  <2>3. /\ table'[Home[c]][u] = c /\ \A s \in Servers : s # Home[c] => table'[s][u] = table[s][u]
        /\ \A v \in Users : v # u => \A s \in Servers : table'[s][v] = table[s][v]
    BY <1>1, <2>1, <2>2 DEF TypeOK
  <2>4. InPhase(c, u)'
    BY <1>2, <2>1, <2>3 DEF InPhase, Untabled, Offline, Deaf
  <2> QED
    BY <1>1, <1>2, <2>1, <2>3, <2>4, SessionMoves
<1>6. CASE LoginState(c)
  <2>1. /\ pc[c] = "l_state" /\ pc'[c] = "l_sub" /\ \A d \in Conns : d # c => pc'[d] = pc[d]
        /\ state'[u] = "online" /\ \A v \in Users : v # u => state'[v] = state[v]
        /\ UNCHANGED <<subs, table, user>>
    BY <1>1, <1>2, <1>6 DEF LoginState, TypeOK
  <2>2. InPhase(c, u)'
    BY <1>2, <2>1 DEF InPhase, Untabled, Offline, Deaf
  <2> QED
    BY <1>1, <1>2, <2>1, <2>2, SessionMoves
<1>7. CASE LoginSubscribe(c)
  <2>1. /\ pc[c] = "l_sub" /\ pc'[c] = "l_answer" /\ \A d \in Conns : d # c => pc'[d] = pc[d]
        /\ subs' = [subs EXCEPT ![Home[c]] = @ \cup {u}]
        /\ UNCHANGED <<state, table, user>>
    BY <1>1, <1>2, <1>7 DEF LoginSubscribe, TypeOK
  <2>2. /\ \A s \in Servers : u \in subs'[s] <=> u \in subs[s] \/ s = Home[c]
        /\ \A v \in Users : v # u => \A s \in Servers : v \in subs'[s] <=> v \in subs[s]
    BY <1>1, <2>1 DEF TypeOK
  <2>3. InPhase(c, u)'
    BY <1>2, <2>1, <2>2 DEF InPhase, Untabled, Offline, Deaf
  <2> QED
    BY <1>1, <1>2, <2>1, <2>2, <2>3, SessionMoves
<1>8. CASE LoginAnswer(c)
  BY <1>1, <1>8, SessionRests DEF LoginAnswer, TypeOK, Partly, Untabled, Offline, Deaf
<1>9. CASE LoginClear(c)
  BY <1>1, <1>9, SessionRests DEF LoginClear, TypeOK, Partly, Untabled, Offline, Deaf
<1> QED
  BY <1>3, <1>4, <1>5, <1>6, <1>7, <1>8, <1>9 DEF Login

LEMMA SessionLogout ==
  ASSUME IInv, OneSession, SessionInv, NEW c \in Conns, Logout(c)
  PROVE  SessionInv'
<1> USE ClusterAssumption DEF db, redis, process, conns, locals, handler, history
<1>1. TypeOK
  BY DEF IInv
<1>2. PICK u \in Users : user[c] = u /\ InPhase(c, u) /\ \A d \in Conns : d # c => user[d] # u
  <2>1. pc[c] \in LogoutPcs
    BY DEF Logout, LogoutErase, LogoutUnsubscribe, LogoutState, Step, LogoutPcs
  <2> QED
    BY <2>1, SessionUser
<1> USE DEF Step
<1>3. CASE LogoutErase(c)
  <2>1. /\ pc[c] = "o_erase" /\ pc'[c] = "o_unsub" /\ \A d \in Conns : d # c => pc'[d] = pc[d]
        /\ table' = [table EXCEPT ![Home[c]][u] = None]
        /\ UNCHANGED <<state, subs, user>>
    BY <1>1, <1>2, <1>3 DEF LogoutErase, TypeOK
  <2>2. /\ table'[Home[c]][u] = None /\ \A s \in Servers : s # Home[c] => table'[s][u] = table[s][u]
        /\ \A v \in Users : v # u => \A s \in Servers : table'[s][v] = table[s][v]
    BY <1>1, <2>1 DEF TypeOK
  <2>3. InPhase(c, u)'
    BY <1>2, <2>1, <2>2 DEF InPhase, Untabled, Offline, Deaf
  <2> QED
    BY <1>1, <1>2, <2>1, <2>2, <2>3, SessionMoves
<1>4. CASE LogoutUnsubscribe(c)
  <2>1. /\ pc[c] = "o_unsub" /\ pc'[c] = "o_state" /\ \A d \in Conns : d # c => pc'[d] = pc[d]
        /\ subs' = [subs EXCEPT ![Home[c]] = @ \ {u}]
        /\ UNCHANGED <<state, table, user>>
    BY <1>1, <1>2, <1>4 DEF LogoutUnsubscribe, TypeOK
  <2>2. /\ \A s \in Servers : u \in subs'[s] <=> u \in subs[s] /\ s # Home[c]
        /\ \A v \in Users : v # u => \A s \in Servers : v \in subs'[s] <=> v \in subs[s]
    BY <1>1, <2>1 DEF TypeOK
  <2>3. InPhase(c, u)'
    BY <1>2, <2>1, <2>2 DEF InPhase, Untabled, Offline, Deaf
  <2> QED
    BY <1>1, <1>2, <2>1, <2>2, <2>3, SessionMoves
<1>5. CASE LogoutState(c)
  <2>1. /\ pc[c] = "o_state" /\ \A d \in Conns : d # c => pc'[d] = pc[d] /\ user'[d] = user[d]
        /\ user'[c] = None /\ UNCHANGED <<subs, table>>
        /\ state'[u] = "offline" /\ \A v \in Users : v # u => state'[v] = state[v]
    BY <1>1, <1>2, <1>5 DEF LogoutState, TypeOK
  <2>2. Away(u)'
    BY <1>2, <2>1 DEF Away, InPhase, Untabled, Offline, Deaf
  <2> QED
    BY <1>1, <1>2, <2>1, <2>2, SessionMoves
<1> QED
  BY <1>3, <1>4, <1>5 DEF Logout

LEMMA SessionClose ==
  ASSUME IInv, OneSession, SessionInv, NEW c \in Conns, Close(c)
  PROVE  SessionInv'
<1> USE ClusterAssumption DEF db, redis, process, conns, locals, handler, history, Step
<1>1. TypeOK /\ TabledSessions
  BY DEF IInv
<1>2. CASE CloseEvent(c)
  BY <1>1, <1>2, SessionRests DEF CloseEvent, TypeOK, Partly, Untabled, Offline, Deaf
<1>3. ASSUME NEW u \in Users, user[c] = u
      PROVE  InPhase(c, u) /\ \A d \in Conns : d # c => user[d] # u
  BY <1>3 DEF SessionInv, OneSession
<1>4. ASSUME NEW u \in Users, table[Home[c]][u] = c, pc[c] = "c_erase",
             table' = [table EXCEPT ![Home[c]][u] = None], UNCHANGED <<state, subs>>
      PROVE  /\ user[c] = u
             /\ table'[Home[c]][u] = None /\ \A s \in Servers : s # Home[c] => table'[s][u] = table[s][u]
             /\ \A v \in Users : v # u => \A s \in Servers : table'[s][v] = table[s][v]
  BY <1>1, <1>4 DEF TypeOK, TabledSessions
<1>5. CASE CloseErase(c)
  <2>1. PICK u \in Users : table[Home[c]][u] = c /\ table' = [table EXCEPT ![Home[c]][u] = None]
    BY <1>5 DEF CloseErase, Entries
  <2>2. /\ pc[c] = "c_erase" /\ pc'[c] = "c_state" /\ \A d \in Conns : d # c => pc'[d] = pc[d]
        /\ UNCHANGED <<state, subs, user>>
    BY <1>1, <1>5 DEF CloseErase, TypeOK
  <2>3. /\ user[c] = u /\ table'[Home[c]][u] = None
        /\ \A s \in Servers : s # Home[c] => table'[s][u] = table[s][u]
        /\ \A v \in Users : v # u => \A s \in Servers : table'[s][v] = table[s][v]
    BY <1>4, <2>1, <2>2
  <2>4. InPhase(c, u)'
    BY <1>3, <2>2, <2>3 DEF InPhase, Untabled, Offline, Deaf
  <2> QED
    BY <1>1, <1>3, <2>2, <2>3, <2>4, SessionMoves
<1>6. CASE CloseGarbage(c)
  <2>1. PICK u \in Users : table[Home[c]][u] = c /\ table' = [table EXCEPT ![Home[c]][u] = None]
    BY <1>6 DEF CloseGarbage, Entries
  <2>2. /\ pc[c] = "c_erase" /\ \A d \in Conns : d # c => pc'[d] = pc[d] /\ user'[d] = user[d]
        /\ user'[c] = None /\ UNCHANGED <<state, subs>>
    BY <1>1, <1>6 DEF CloseGarbage, Gone, TypeOK
  <2>3. /\ user[c] = u /\ table'[Home[c]][u] = None
        /\ \A s \in Servers : s # Home[c] => table'[s][u] = table[s][u]
        /\ \A v \in Users : v # u => \A s \in Servers : table'[s][v] = table[s][v]
    BY <1>4, <2>1, <2>2
  <2>4. Away(u)'
    BY <1>3, <2>2, <2>3 DEF Away, InPhase, Untabled, Offline, Deaf
  <2> QED
    BY <1>1, <1>3, <2>2, <2>3, <2>4, SessionMoves
<1>7. CASE CloseUnknown(c)
  <2>1. /\ pc[c] = "c_erase" /\ \A d \in Conns : d # c => pc'[d] = pc[d] /\ user'[d] = user[d]
        /\ user'[c] = None /\ UNCHANGED <<state, subs, table>> /\ \A u \in Users : table[Home[c]][u] # c
    BY <1>1, <1>7 DEF CloseUnknown, Gone, Entries, TypeOK
  <2>2. user[c] = None
    BY <1>1, <1>3, <2>1 DEF InPhase, Untabled, TypeOK
  <2>3. UNCHANGED user
    BY <1>1, <1>7, <2>2 DEF CloseUnknown, Gone, TypeOK
  <2>4. pc'[c] = "idle"
    BY <1>1, <1>7 DEF CloseUnknown, Gone, TypeOK
  <2> QED
    BY <2>1, <2>3, <2>4, SessionRests DEF Partly, Untabled, Offline, Deaf
<1>8. ASSUME pc[c] \in {"c_state", "c_unsub"}
      PROVE  \E u \in Users : user[c] = u /\ to[c] = u
  BY <1>8 DEF IInv, HandlerArgs, OneSession, TypeOK
<1>9. CASE CloseState(c)
  <2>1. /\ pc[c] = "c_state" /\ pc'[c] = "c_unsub" /\ \A d \in Conns : d # c => pc'[d] = pc[d]
        /\ state' = [state EXCEPT ![to[c]] = "offline"] /\ UNCHANGED <<subs, table, user>>
    BY <1>1, <1>9 DEF CloseState, TypeOK
  <2>2. PICK u \in Users : user[c] = u /\ to[c] = u
    BY <1>8, <2>1
  <2>3. state'[u] = "offline" /\ \A v \in Users : v # u => state'[v] = state[v]
    BY <1>1, <2>1, <2>2 DEF TypeOK
  <2>4. InPhase(c, u)'
    BY <1>3, <2>1, <2>2, <2>3 DEF InPhase, Untabled, Offline, Deaf
  <2> QED
    BY <1>1, <1>3, <2>1, <2>2, <2>3, <2>4, SessionMoves
<1>10. CASE CloseUnsubscribe(c)
  <2>1. /\ pc[c] = "c_unsub" /\ \A d \in Conns : d # c => pc'[d] = pc[d] /\ user'[d] = user[d]
        /\ user'[c] = None /\ subs' = [subs EXCEPT ![Home[c]] = @ \ {to[c]}]
        /\ UNCHANGED <<state, table>>
    BY <1>1, <1>10 DEF CloseUnsubscribe, Gone, TypeOK
  <2>2. PICK u \in Users : user[c] = u /\ to[c] = u
    BY <1>8, <2>1
  <2>3. /\ \A s \in Servers : u \in subs'[s] <=> u \in subs[s] /\ s # Home[c]
        /\ \A v \in Users : v # u => \A s \in Servers : v \in subs'[s] <=> v \in subs[s]
    BY <1>1, <2>1, <2>2 DEF TypeOK
  <2>4. Away(u)'
    BY <1>3, <2>1, <2>2, <2>3 DEF Away, InPhase, Untabled, Offline, Deaf
  <2> QED
    BY <1>1, <1>3, <2>1, <2>2, <2>3, <2>4, SessionMoves
<1> QED
  BY <1>2, <1>5, <1>6, <1>7, <1>9, <1>10 DEF Close

LEMMA SessionStep ==
  ASSUME ~Overlap, ~Stops, IInv, OneSession, SessionInv, [Next]_vars
  PROVE  SessionInv'
<1> USE ClusterAssumption DEF db, redis, process, conns, locals, handler, history
<1>1. TypeOK
  BY DEF IInv
<1>2. ASSUME NEW c \in Conns, Client(c) PROVE SessionInv'
  <2>1. CASE Drop(c)
    BY <2>1, SessionRests DEF Drop
  <2>2. CASE LogoutRequest(c)
    BY <1>1, <2>2, SessionRests DEF LogoutRequest, Ready, TypeOK, Partly, Untabled, Offline, Deaf
  <2>3. ASSUME NEW u \in Users, LoginRequest(c, u) PROVE SessionInv'
    <3>1. /\ user[c] = None /\ user' = [user EXCEPT ![c] = u] /\ \A d \in Conns : user[d] # u
          /\ pc' = [pc EXCEPT ![c] = "l_query"] /\ UNCHANGED <<state, subs, table>>
      BY <2>3 DEF LoginRequest
    <3>2. Away(u)
      BY <3>1 DEF SessionInv
    <3>3. InPhase(c, u)'
      BY <1>1, <3>1, <3>2 DEF Away, InPhase, TypeOK, Untabled
    <3> QED
      BY <1>1, <3>1, <3>3, SessionMoves DEF TypeOK
  <2>4. ASSUME NEW m \in Msgs, GroupRequest(c, m) PROVE SessionInv'
    BY <1>1, <2>4, SessionRests DEF GroupRequest, Ready, TypeOK, Partly, Untabled, Offline, Deaf
  <2>5. ASSUME NEW u \in Users, NEW m \in Msgs, ChatRequest(c, u, m) PROVE SessionInv'
    BY <1>1, <2>5, SessionRests DEF ChatRequest, Ready, TypeOK, Partly, Untabled, Offline, Deaf
  <2> QED
    BY <1>2, <2>1, <2>2, <2>3, <2>4, <2>5 DEF Client
<1>3. ASSUME NEW c \in Conns, Chat(c) PROVE SessionInv'
  <2>1. UNCHANGED <<state, subs, table, user>>
    BY <1>3 DEF Chat, ChatLocal, ChatRemote, GroupLock, GroupLocal, GroupRemote, GroupUnlock,
            QueryState, Publish, Save
  <2>2. \A d \in Conns : pc'[d] = pc[d] \/ (pc[d] \notin Partly /\ pc'[d] \notin Partly)
    BY <1>1, <1>3 DEF Chat, ChatLocal, ChatRemote, GroupLock, GroupLocal, GroupRemote, GroupUnlock,
            QueryState, Publish, Save, Step, Served, NextPc, TypeOK, Partly, Untabled, Offline, Deaf
  <2> QED
    BY <2>1, <2>2, SessionRests
<1>4. ASSUME NEW s \in Servers, Observer(s) PROVE SessionInv'
  BY <1>4, SessionRests DEF Observer, ObserveForward, ObserveSave
<1>5. ASSUME NEW s \in Servers, Process(s) PROVE FALSE
  BY <1>5 DEF Process, Interrupt, Exit, Kill, Restart, OneSession
<1>6. CASE UNCHANGED vars
  BY <1>6, SessionRests DEF vars
<1> QED
  BY <1>2, <1>3, <1>4, <1>5, <1>6, SessionLogin, SessionLogout, SessionClose DEF Next, Handler


LEMMA SessionInvariance ==
  ASSUME ~Overlap, ~Stops
  PROVE  Spec => [](OneSession /\ SessionInv)
<1>1. Init => OneSession /\ SessionInv
  BY SessionInit
<1>2. IInv /\ (OneSession /\ SessionInv) /\ [Next]_vars => (OneSession /\ SessionInv)'
  BY OneSessionStep, SessionStep
<1> QED
  BY <1>1, <1>2, Invariance, PTL DEF Spec

LEMMA SettledSession == ASSUME SessionInv PROVE SettledAgree
<1> SUFFICES ASSUME NEW c \in Conns, NEW u \in Users, LoggedIn(c, u)
             PROVE  /\ state[u] = "online"
                    /\ \A s \in Servers : /\ table[s][u] = IF s = Home[c] THEN c ELSE None
                                          /\ u \in subs[s] <=> s = Home[c]
  BY DEF SettledAgree
<1>1. InPhase(c, u) /\ pc[c] \notin Partly
  BY DEF LoggedIn, SessionInv, LoginPcs, LogoutPcs, ClosePcs, Partly, Untabled, Offline, Deaf
<1> QED
  BY <1>1 DEF InPhase, Partly, Untabled, Offline, Deaf

(* When a user never opens a second session while one is active, and no      *)
(* server stops, the database, the tables of all servers and the Redis       *)
(* subscriptions agree with the connection a logged-in user has: the steps   *)
(* of login, clientLoginout and clientCloseException (47-167, 239-258,       *)
(* 200-236) leave nothing half done, however the handlers of the other       *)
(* connections interleave.                                                   *)
THEOREM SettledSessionsAgree ==
  ASSUME ~Overlap, ~Stops
  PROVE  Spec => []SettledAgree
<1>1. Spec => [](OneSession /\ SessionInv)
  BY SessionInvariance
<1>2. OneSession /\ SessionInv => SettledAgree
  BY SettledSession
<1> QED
  BY <1>1, <1>2, PTL

(* Under the same conditions a user without a connection is in no table, and *)
(* is "online" in the database only with the subscription through which      *)
(* messages for the user are stored.                                         *)
THEOREM AwayUsersAgree ==
  ASSUME ~Overlap, ~Stops
  PROVE  Spec => []AwayAgree
<1>1. Spec => [](OneSession /\ SessionInv)
  BY SessionInvariance
<1>2. OneSession /\ SessionInv => AwayAgree
  BY DEF SessionInv, Away, AwayAgree
<1> QED
  BY <1>1, <1>2, PTL

-----------------------------------------------------------------------------
(* Messages to users whose session does not change.  Beside the session      *)
(* invariants this needs that the user of such a message is settled, and     *)
(* that a state read as "online" before a PUBLISH still is.                  *)

Kept(u, m) == InHand(u, m) \/ InChannel(u, m) \/ m \in stored[u] \/ <<u, m>> \in delivered

CalmKept    == \A u \in Users, m \in Msgs : <<u, m>> \in calm => Kept(u, m)
CalmSettled == \A u \in Users, m \in Msgs : <<u, m>> \in calm => Settled(u)
PublishOnline ==
  \A c \in Conns : pc[c] = "publish" /\ <<to[c], msg[c]>> \in calm => state[to[c]] = "online"

CalmInv == CalmKept /\ CalmSettled /\ PublishOnline

LEMMA CalmInit == Init => CalmInv
<1>1. Init => calm = {}
  BY DEF Init
<1> QED
  BY <1>1 DEF CalmInv, CalmKept, CalmSettled, PublishOnline

LEMMA NoLossFromKept ==
  ASSUME TypeOK, CalmKept
  PROVE  NoLossWhenCalm
<1> SUFFICES ASSUME NEW p \in calm
             PROVE  LET u == p[1]  m == p[2] IN
                    InHand(u, m) \/ InChannel(u, m) \/ m \in stored[u] \/ p \in delivered
  BY DEF NoLossWhenCalm
<1>1. PICK u \in Users, m \in Msgs : p = <<u, m>>
  BY DEF TypeOK
<1>2. Kept(u, m)
  BY <1>1 DEF CalmKept
<1> QED
  BY <1>1, <1>2 DEF Kept

(* What a channel holds stays in it when a message is appended to it, and    *)
(* all but its head when the observer takes one.                             *)
LEMMA AppendKeeps ==
  ASSUME NEW S, NEW q \in Seq(S), NEW e \in S
  PROVE  /\ \A i \in DOMAIN q : i \in DOMAIN Append(q, e) /\ Append(q, e)[i] = q[i]
         /\ \E i \in DOMAIN Append(q, e) : Append(q, e)[i] = e
<1>1. Len(q) \in Nat /\ Len(Append(q, e)) = Len(q) + 1 /\ Append(q, e)[Len(q) + 1] = e
  OBVIOUS
<1>2. DOMAIN q = 1 .. Len(q) /\ DOMAIN Append(q, e) = 1 .. Len(Append(q, e))
  OBVIOUS
<1>3. Len(q) + 1 \in DOMAIN Append(q, e)
  BY <1>1, <1>2
<1>4. \A i \in 1 .. Len(q) : Append(q, e)[i] = q[i]
  OBVIOUS
<1>5. \A i \in DOMAIN q : i \in DOMAIN Append(q, e)
  BY <1>1, <1>2
<1> QED
  BY <1>1, <1>2, <1>3, <1>4, <1>5

LEMMA TailKeeps ==
  ASSUME NEW S, NEW q \in Seq(S), NEW i \in DOMAIN q, i # 1
  PROVE  \E j \in DOMAIN Tail(q) : Tail(q)[j] = q[i]
<1>1. Len(q) \in Nat /\ i \in 1 .. Len(q) /\ q # <<>>
  OBVIOUS
<1>2. Tail(q) \in Seq(S) /\ Len(Tail(q)) = Len(q) - 1
  BY <1>1
<1>3. i - 1 \in 1 .. Len(Tail(q)) /\ (i - 1) + 1 = i
  BY <1>1, <1>2
<1>4. Tail(q)[i - 1] = q[i]
  BY <1>1, <1>2, <1>3
<1>5. i - 1 \in DOMAIN Tail(q)
  BY <1>2, <1>3
<1> QED
  BY <1>4, <1>5

(* A settled user who is online is subscribed to on some server, and a       *)
(* connection in the table of a server is there to receive.                  *)
LEMMA OnlineSubscribed ==
  ASSUME SessionInv, NEW u \in Users, Settled(u), state[u] = "online"
  PROVE  \E s \in Servers : u \in subs[s]
<1> USE ClusterAssumption
<1>1. CASE \E c \in Conns : user[c] = u
  <2>1. PICK c \in Conns : user[c] = u
    BY <1>1
  <2>2. InPhase(c, u) /\ ~Busy(c)
    BY <2>1 DEF SessionInv, Settled
  <2>3. pc[c] # "l_query" /\ pc[c] \notin Deaf
    BY <2>2 DEF Busy, LoginPcs, LogoutPcs, ClosePcs, Deaf
  <2> QED
    BY <2>2, <2>3 DEF InPhase
<1>2. CASE \A c \in Conns : user[c] # u
  BY <1>2 DEF SessionInv, Away
<1> QED
  BY <1>1, <1>2

LEMMA TabledReceives ==
  ASSUME IInv, NEW s \in Servers, NEW u \in Users, NEW m, Settled(u), table[s][u] # None
  PROVE  Sent(table[s][u], {<<u, m>>}) = {<<u, m>>}
<1>1. table[s][u] \in Conns
  BY DEF IInv, TypeOK
<1>2. user[table[s][u]] = u /\ link[table[s][u]] \in {"up", "dropped"}
  BY DEF IInv, TabledSessions
<1>3. ~Busy(table[s][u])
  BY <1>1, <1>2 DEF Settled
<1> QED
  BY <1>2, <1>3 DEF Busy, Sent

(* A message is kept by a step that leaves the handlers with it, and the      *)
(* rest of its copies, alone.                                                *)
LEMMA KeptRests ==
  ASSUME NEW u \in Users, NEW m \in Msgs, Kept(u, m), TypeOK,
         \A c \in Conns : msg[c] # None =>
           msg'[c] = msg[c] /\ to'[c] = to[c] /\ rest'[c] = rest[c],
         m \in stored[u] => m \in stored'[u],
         UNCHANGED chan, delivered \subseteq delivered'
  PROVE  Kept(u, m)'
<1> USE ClusterAssumption
<1>1. CASE InHand(u, m)
  BY <1>1 DEF InHand, Kept
<1>2. CASE InChannel(u, m)
  BY <1>2 DEF InChannel, Kept
<1>3. CASE m \in stored[u] \/ <<u, m>> \in delivered
  BY <1>3 DEF Kept
<1> QED
  BY <1>1, <1>2, <1>3 DEF Kept

(* A pair that becomes calm is of a message nobody has sent before. *)
LEMMA NewlyCalm ==
  ASSUME [Next]_vars, NEW u \in Users, NEW m \in Msgs, <<u, m>> \in calm', <<u, m>> \notin calm
  PROVE  /\ \A p \in addressed : p[2] # m
         /\ Settled(u)
         /\ \E c \in Conns : \/ ChatRequest(c, u, m)
                             \/ GroupRequest(c, m) /\ u \in GroupUsers \ {user[c]}
<1> USE DEF db, redis, process, conns, locals, handler, history
<1>1. ASSUME NEW c \in Conns, Client(c)
      PROVE  \/ GroupRequest(c, m) /\ Address(GroupUsers \ {user[c]}, m) /\ u \in GroupUsers \ {user[c]}
             \/ ChatRequest(c, u, m) /\ Address({u}, m)
  <2>1. ASSUME Drop(c) \/ LogoutRequest(c) PROVE FALSE
    BY <2>1 DEF Drop, LogoutRequest, CalmWithout
  <2>2. ASSUME NEW v \in Users, LoginRequest(c, v) PROVE FALSE
    BY <2>2 DEF LoginRequest, CalmWithout
  <2>3. ASSUME NEW n \in Msgs, GroupRequest(c, n)
        PROVE  n = m /\ Address(GroupUsers \ {user[c]}, n) /\ u \in GroupUsers \ {user[c]}
    <3>1. Address(GroupUsers \ {user[c]}, n)
      BY <2>3 DEF GroupRequest
    <3> QED
      BY <3>1 DEF Address
  <2>4. ASSUME NEW v \in Users, NEW n \in Msgs, ChatRequest(c, v, n)
        PROVE  v = u /\ n = m /\ Address({v}, n)
    <3>1. Address({v}, n)
      BY <2>4 DEF ChatRequest
    <3> QED
      BY <3>1 DEF Address
  <2> QED
    BY <1>1, <2>1, <2>2, <2>3, <2>4 DEF Client
<1>2. ASSUME NEW c \in Conns, Handler(c) PROVE FALSE
  <2>1. calm' = calm
    BY <1>2 DEF Handler, Login, Logout, Close, Chat, LoginRefuse, LoginQuery, LoginTable,
           LoginState, LoginSubscribe, LoginAnswer, LoginClear, LogoutErase, LogoutUnsubscribe,
           LogoutState, CloseEvent, CloseErase, CloseGarbage, CloseUnknown, CloseState,
           CloseUnsubscribe, ChatLocal, ChatRemote, GroupLock, GroupLocal, GroupRemote,
           GroupUnlock, QueryState, Publish, Save
  <2> QED
    BY <2>1
<1>3. ASSUME NEW s \in Servers, Observer(s) \/ Process(s) PROVE FALSE
  BY <1>3 DEF Observer, ObserveForward, ObserveSave, Process, Interrupt, Exit, Kill, Restart
<1>4. ASSUME UNCHANGED vars PROVE FALSE
  BY <1>4 DEF vars
<1>5. PICK c \in Conns : Client(c)
  BY <1>2, <1>3, <1>4 DEF Next
<1>6. \/ GroupRequest(c, m) /\ Address(GroupUsers \ {user[c]}, m) /\ u \in GroupUsers \ {user[c]}
      \/ ChatRequest(c, u, m) /\ Address({u}, m)
  BY <1>1, <1>5
<1>7. (\A p \in addressed : p[2] # m) /\ Settled(u)
  BY <1>6 DEF Address
<1> QED
  BY <1>6, <1>7

(* A user stays settled as long as no session of the user changes, and no     *)
(* message of a user who does not stay settled remains calm.                 *)
LEMMA SettledStep ==
  ASSUME IInv, CalmSettled, [Next]_vars, ~Stops, OneSession
  PROVE  CalmSettled'
<1> SUFFICES ASSUME NEW u \in Users, NEW m \in Msgs, <<u, m>> \in calm' PROVE Settled(u)'
  BY DEF CalmSettled
<1>1. Settled(u)
  BY NewlyCalm DEF CalmSettled
<1> USE ClusterAssumption DEF IInv, TypeOK, LoginPcs, LogoutPcs, ClosePcs,
        db, redis, process, conns, locals, handler, history
<1>2. ASSUME \A c \in Conns : user'[c] = u => user[c] = u /\ (Busy(c)' => Busy(c))
      PROVE  Settled(u)'
  BY <1>1, <1>2 DEF Settled
<1>3. ASSUME NEW c \in Conns, Client(c) PROVE Settled(u)'
  <2>1. CASE Drop(c)
    <3>1. user[c] # u /\ \A d \in Conns : d # c => (Busy(d)' <=> Busy(d))
      BY <2>1 DEF Drop, CalmWithout, Busy
    <3>2. UNCHANGED user
      BY <2>1 DEF Drop
    <3> QED
      BY <1>2, <3>1, <3>2
  <2>2. CASE LogoutRequest(c)
    <3>1. user[c] # u /\ \A d \in Conns : d # c => (Busy(d)' <=> Busy(d))
      BY <2>2 DEF LogoutRequest, CalmWithout, Busy
    <3>2. UNCHANGED user
      BY <2>2 DEF LogoutRequest
    <3> QED
      BY <1>2, <3>1, <3>2
  <2>3. ASSUME NEW v \in Users, LoginRequest(c, v) PROVE Settled(u)'
    <3>1. v # u /\ \A d \in Conns : d # c => (Busy(d)' <=> Busy(d))
      BY <2>3 DEF LoginRequest, CalmWithout, Busy
    <3>2. user' = [user EXCEPT ![c] = v]
      BY <2>3 DEF LoginRequest
    <3> QED
      BY <1>2, <3>1, <3>2
  <2>4. ASSUME NEW n \in Msgs, GroupRequest(c, n) PROVE Settled(u)'
    <3>1. UNCHANGED user /\ \A d \in Conns : Busy(d)' => Busy(d)
      BY <2>4 DEF GroupRequest, Busy
    <3> QED
      BY <1>2, <3>1
  <2>5. ASSUME NEW v \in Users, NEW n \in Msgs, ChatRequest(c, v, n) PROVE Settled(u)'
    <3>1. UNCHANGED user /\ \A d \in Conns : Busy(d)' => Busy(d)
      BY <2>5 DEF ChatRequest, Busy
    <3> QED
      BY <1>2, <3>1
  <2> QED
    BY <1>3, <2>1, <2>2, <2>3, <2>4, <2>5 DEF Client
<1>4. ASSUME NEW c \in Conns, Handler(c) PROVE Settled(u)'
  <2>1. \A d \in Conns : user'[d] = u => user[d] = u
    BY <1>4 DEF Handler, Login, Logout, Close, Chat, LoginRefuse, LoginQuery, LoginTable,
           LoginState, LoginSubscribe, LoginAnswer, LoginClear, LogoutErase, LogoutUnsubscribe,
           LogoutState, CloseEvent, CloseErase, CloseGarbage, CloseUnknown, CloseState,
           CloseUnsubscribe, ChatLocal, ChatRemote, GroupLock, GroupLocal, GroupRemote,
           GroupUnlock, QueryState, Publish, Save, Gone
  <2>2. CASE Login(c)
    BY <1>2, <2>1, <2>2 DEF Login, LoginRefuse, LoginQuery, LoginTable, LoginState,
           LoginSubscribe, LoginAnswer, LoginClear, Step, Busy
  <2>3. CASE Logout(c)
    BY <1>2, <2>1, <2>3 DEF Logout, LogoutErase, LogoutUnsubscribe, LogoutState, Step, Busy
  <2>4. CASE Close(c)
    BY <1>2, <2>1, <2>4 DEF Close, CloseEvent, CloseErase, CloseGarbage, CloseUnknown, CloseState,
           CloseUnsubscribe, Gone, Step, Busy
  <2>5. CASE Chat(c)
    BY <1>2, <2>1, <2>5 DEF Chat, ChatLocal, ChatRemote, GroupLock, GroupLocal, GroupRemote,
           GroupUnlock, QueryState, Publish, Save, Step, Served, NextPc, Busy
  <2> QED
    BY <1>4, <2>2, <2>3, <2>4, <2>5 DEF Handler
<1>5. ASSUME NEW s \in Servers, Observer(s) PROVE Settled(u)'
  BY <1>2, <1>5 DEF Observer, ObserveForward, ObserveSave, Busy
<1>6. ASSUME NEW s \in Servers, Process(s) PROVE FALSE
  BY <1>6 DEF Process, Interrupt, Exit, Kill, Restart, OneSession
<1>7. CASE UNCHANGED vars
  BY <1>2, <1>7 DEF vars, Busy
<1> QED
  BY <1>3, <1>4, <1>5, <1>6, <1>7 DEF Next

(* The state of a calm message's user is still the one that was read. *)
LEMMA OnlineStep ==
  ASSUME IInv, OnlyAddressees, OneSession, CalmSettled, PublishOnline, [Next]_vars, ~Stops
  PROVE  PublishOnline'
<1> USE ClusterAssumption DEF db, redis, process, conns, locals, handler, history
<1>1. TypeOK /\ HandlerArgs /\ TypeOK' /\ HandlerArgs'
  BY TypeStep, HandlerArgsStep DEF IInv
<1>2. ASSUME NEW d \in Conns, \/ pc'[d] # "publish"
                              \/ <<to'[d], msg'[d]>> \notin calm'
                              \/ state'[to'[d]] = "online"
                              \/ /\ pc[d] = "publish" /\ to'[d] = to[d] /\ msg'[d] = msg[d]
                                 /\ state'[to[d]] = state[to[d]]
      PROVE  pc'[d] = "publish" /\ <<to'[d], msg'[d]>> \in calm' => state'[to'[d]] = "online"
  <2> SUFFICES ASSUME pc[d] = "publish", to'[d] = to[d], msg'[d] = msg[d],
                      state'[to[d]] = state[to[d]], <<to[d], msg[d]>> \in calm'
               PROVE  state[to[d]] = "online"
    BY <1>2
  <2>1. to[d] \in Users /\ msg[d] \in Msgs
    BY <1>1 DEF HandlerArgs, RoutePcs, TypeOK
  <2>2. <<to[d], msg[d]>> \in addressed
    BY <2>1 DEF OnlyAddressees
  <2>3. <<to[d], msg[d]>> \in calm
    BY <2>1, <2>2, NewlyCalm
  <2> QED
    BY <2>3 DEF PublishOnline
<1>3. ASSUME NEW d \in Conns, \/ pc'[d] # "publish"
                              \/ /\ pc[d] = "publish" /\ to'[d] = to[d] /\ msg'[d] = msg[d]
                                 /\ UNCHANGED state
      PROVE  pc'[d] = "publish" /\ <<to'[d], msg'[d]>> \in calm' => state'[to'[d]] = "online"
  BY <1>2, <1>3
(* A step of the session of u, which is not settled. *)
<1>4. ASSUME NEW c \in Conns, NEW u \in Users, user[c] = u, pc[c] \in LogoutPcs \cup ClosePcs,
             state' = [state EXCEPT ![u] = "offline"], UNCHANGED calm,
             \A d \in Conns : d # c => pc'[d] = pc[d] /\ to'[d] = to[d] /\ msg'[d] = msg[d],
             pc'[c] # "publish"
      PROVE  PublishOnline'
  <2>1. ASSUME NEW d \in Conns
        PROVE  pc'[d] = "publish" /\ <<to'[d], msg'[d]>> \in calm' => state'[to'[d]] = "online"
    <3>1. CASE d = c \/ pc[d] # "publish"
      BY <1>4, <3>1
    <3>2. CASE d # c /\ pc[d] = "publish" /\ to[d] # u
      <4>1. to[d] \in Users
        BY <1>1, <3>2 DEF HandlerArgs, RoutePcs, TypeOK
      <4>2. state'[to[d]] = state[to[d]]
        BY <1>1, <1>4, <3>2, <4>1 DEF TypeOK
      <4> QED
        BY <1>2, <1>4, <3>2, <4>2
    <3>3. CASE d # c /\ pc[d] = "publish" /\ to[d] = u
      <4>1. Busy(c) /\ ~Settled(u)
        BY <1>4 DEF Busy, Settled
      <4>2. msg[d] \in Msgs
        BY <1>1, <3>3 DEF HandlerArgs, RoutePcs, TypeOK
      <4>3. <<u, msg[d]>> \notin calm
        BY <4>1, <4>2 DEF CalmSettled
      <4> QED
        BY <1>4, <3>3, <4>3
    <3> QED
      BY <3>1, <3>2, <3>3
  <2> QED
    BY <2>1 DEF PublishOnline
<1>5. ASSUME NEW c \in Conns, Client(c) PROVE PublishOnline'
  <2>1. ASSUME NEW d \in Conns
        PROVE  pc'[d] # "publish" \/ (pc[d] = "publish" /\ to'[d] = to[d] /\ msg'[d] = msg[d]
                                       /\ UNCHANGED state)
    <3>1. CASE Drop(c)
      BY <3>1 DEF Drop
    <3>2. CASE LogoutRequest(c)
      BY <1>1, <3>2 DEF LogoutRequest, TypeOK
    <3>3. ASSUME NEW u \in Users, LoginRequest(c, u)
          PROVE  UNCHANGED <<state, to, msg>> /\ (pc'[d] = "publish" => pc[d] = "publish")
      BY <1>1, <3>3 DEF LoginRequest, TypeOK
    <3>4. ASSUME NEW m \in Msgs, GroupRequest(c, m)
          PROVE  /\ UNCHANGED <<state, to>>
                 /\ pc'[d] = "publish" => pc[d] = "publish" /\ msg'[d] = msg[d]
      BY <1>1, <3>4 DEF GroupRequest, TypeOK
    <3>5. ASSUME NEW u \in Users, NEW m \in Msgs, ChatRequest(c, u, m)
          PROVE  /\ UNCHANGED state
                 /\ pc'[d] = "publish" => pc[d] = "publish" /\ msg'[d] = msg[d] /\ to'[d] = to[d]
      BY <1>1, <3>5 DEF ChatRequest, TypeOK
    <3> QED
      BY <1>5, <3>1, <3>2, <3>3, <3>4, <3>5 DEF Client
  <2> QED
    BY <1>3, <2>1 DEF PublishOnline
<1>6. ASSUME NEW c \in Conns, Login(c) PROVE PublishOnline'
  <2>1. CASE LoginState(c)
    <3>1. ASSUME NEW d \in Conns
          PROVE  \/ pc'[d] # "publish"
                 \/ state'[to'[d]] = "online"
                 \/ /\ pc[d] = "publish" /\ to'[d] = to[d] /\ msg'[d] = msg[d]
                    /\ state'[to[d]] = state[to[d]]
      BY <1>1, <2>1 DEF LoginState, Step, TypeOK, HandlerArgs, RoutePcs
    <3> QED
      BY <1>2, <3>1 DEF PublishOnline
  <2>2. CASE ~LoginState(c)
    <3>1. ASSUME NEW d \in Conns
          PROVE  pc'[d] # "publish" \/ (pc[d] = "publish" /\ to'[d] = to[d] /\ msg'[d] = msg[d]
                                         /\ UNCHANGED state)
      BY <1>1, <1>6, <2>2 DEF Login, LoginRefuse, LoginQuery, LoginTable, LoginSubscribe,
             LoginAnswer, LoginClear, Step, TypeOK
    <3> QED
      BY <1>3, <3>1 DEF PublishOnline
  <2> QED
    BY <2>1, <2>2
<1>7. ASSUME NEW c \in Conns, Logout(c) PROVE PublishOnline'
  <2>1. CASE LogoutState(c)
    <3>1. PICK u \in Users : user[c] = u
      BY <1>1, <2>1 DEF LogoutState, Step, HandlerArgs, LogoutPcs, TypeOK
    <3>2. /\ pc[c] \in LogoutPcs /\ state' = [state EXCEPT ![u] = "offline"] /\ UNCHANGED calm
          /\ \A d \in Conns : d # c => pc'[d] = pc[d] /\ to'[d] = to[d] /\ msg'[d] = msg[d]
          /\ pc'[c] # "publish"
      BY <1>1, <2>1, <3>1 DEF LogoutState, Step, LogoutPcs, TypeOK
    <3> QED
      BY <1>4, <3>1, <3>2
  <2>2. CASE ~LogoutState(c)
    <3>1. ASSUME NEW d \in Conns
          PROVE  pc'[d] # "publish" \/ (pc[d] = "publish" /\ to'[d] = to[d] /\ msg'[d] = msg[d]
                                         /\ UNCHANGED state)
      BY <1>1, <1>7, <2>2 DEF Logout, LogoutErase, LogoutUnsubscribe, Step, TypeOK
    <3> QED
      BY <1>3, <3>1 DEF PublishOnline
  <2> QED
    BY <2>1, <2>2
<1>8. ASSUME NEW c \in Conns, Close(c) PROVE PublishOnline'
  <2>1. CASE CloseState(c)
    <3>1. PICK u \in Users : user[c] = u /\ to[c] = u
      BY <1>1, <2>1 DEF CloseState, Step, OneSession, HandlerArgs, TypeOK
    <3>2. /\ pc[c] \in ClosePcs /\ state' = [state EXCEPT ![u] = "offline"] /\ UNCHANGED calm
          /\ \A d \in Conns : d # c => pc'[d] = pc[d] /\ to'[d] = to[d] /\ msg'[d] = msg[d]
          /\ pc'[c] # "publish"
      BY <1>1, <2>1, <3>1 DEF CloseState, Step, ClosePcs, TypeOK
    <3> QED
      BY <1>4, <3>1, <3>2
  <2>2. CASE ~CloseState(c)
    <3>1. ASSUME NEW d \in Conns
          PROVE  pc'[d] # "publish" \/ (pc[d] = "publish" /\ to'[d] = to[d] /\ msg'[d] = msg[d]
                                         /\ UNCHANGED state)
      BY <1>1, <1>8, <2>2 DEF Close, CloseEvent, CloseErase, CloseGarbage, CloseUnknown,
             CloseUnsubscribe, Gone, Step, TypeOK
    <3> QED
      BY <1>3, <3>1 DEF PublishOnline
  <2> QED
    BY <2>1, <2>2
<1>9. ASSUME NEW c \in Conns, Chat(c) PROVE PublishOnline'
  <2>1. CASE QueryState(c)
    <3>1. ASSUME NEW d \in Conns
          PROVE  \/ pc'[d] # "publish"
                 \/ state'[to'[d]] = "online"
                 \/ /\ pc[d] = "publish" /\ to'[d] = to[d] /\ msg'[d] = msg[d]
                    /\ state'[to[d]] = state[to[d]]
      BY <1>1, <2>1 DEF QueryState, TypeOK
    <3> QED
      BY <1>2, <3>1 DEF PublishOnline
  <2>2. CASE ~QueryState(c)
    <3>1. ASSUME NEW d \in Conns
          PROVE  pc'[d] # "publish" \/ (pc[d] = "publish" /\ to'[d] = to[d] /\ msg'[d] = msg[d]
                                         /\ UNCHANGED state)
      BY <1>1, <1>9, <2>2 DEF Chat, ChatLocal, ChatRemote, GroupLock, GroupLocal, GroupRemote,
             GroupUnlock, Publish, Save, Served, NextPc, Step, TypeOK
    <3> QED
      BY <1>3, <3>1 DEF PublishOnline
  <2> QED
    BY <2>1, <2>2
<1>10. ASSUME NEW s \in Servers, Observer(s) PROVE PublishOnline'
  <2>1. UNCHANGED <<pc, to, msg, state>>
    BY <1>10 DEF Observer, ObserveForward, ObserveSave
  <2> QED
    BY <1>3, <2>1 DEF PublishOnline
<1>11. ASSUME NEW s \in Servers, Process(s) PROVE FALSE
  BY <1>11 DEF Process, Interrupt, Exit, Kill, Restart, OneSession
<1>12. CASE UNCHANGED vars
  BY <1>3, <1>12 DEF vars, PublishOnline
<1> QED
  BY <1>5, <1>6, <1>7, <1>8, <1>9, <1>10, <1>11, <1>12 DEF Next, Handler

(* No step loses a message whose user is settled. *)
LEMMA KeptStep ==
  ASSUME IInv, OneSession, SessionInv, CalmInv, [Next]_vars, ~Stops,
         NEW u \in Users, NEW m \in Msgs, <<u, m>> \in calm, <<u, m>> \in calm'
  PROVE  Kept(u, m)'
<1> USE ClusterAssumption DEF db, redis, process, conns, locals, handler, history
<1>1. TypeOK /\ HandlerArgs /\ Kept(u, m) /\ Settled(u) /\ PublishOnline
  BY DEF IInv, CalmInv, CalmKept, CalmSettled
(* A step of the handler of c keeps what other handlers have in hand, what    *)
(* is in a channel, stored or delivered; left is what c has in hand.         *)
<1>2. ASSUME NEW c \in Conns,
             \A d \in Conns : d # c =>
               msg'[d] = msg[d] /\ to'[d] = to[d] /\ rest'[d] = rest[d],
             InChannel(u, m) => InChannel(u, m)', m \in stored[u] => m \in stored'[u],
             delivered \subseteq delivered',
             msg[c] = m /\ (u = to[c] \/ u \in rest[c]) => Kept(u, m)'
      PROVE  Kept(u, m)'
  <2>1. CASE InHand(u, m)
    <3>1. PICK d \in Conns : msg[d] = m /\ (u = to[d] \/ u \in rest[d])
      BY <2>1 DEF InHand
    <3>2. CASE d = c
      BY <1>2, <3>1, <3>2
    <3>3. CASE d # c
      <4>1. msg'[d] = m /\ (u = to'[d] \/ u \in rest'[d])
        BY <1>2, <3>1, <3>3
      <4> QED
        BY <4>1 DEF InHand, Kept
    <3> QED
      BY <3>2, <3>3
  <2>2. CASE InChannel(u, m)
    BY <1>2, <2>2 DEF Kept
  <2>3. CASE m \in stored[u] \/ <<u, m>> \in delivered
    BY <1>2, <2>3 DEF Kept
  <2> QED
    BY <1>1, <2>1, <2>2, <2>3 DEF Kept
<1>3. UNCHANGED chan => (InChannel(u, m) => InChannel(u, m)')
  BY DEF InChannel
<1>4. ASSUME NEW c \in Conns, Client(c) PROVE Kept(u, m)'
  <2>1. CASE Drop(c) \/ LogoutRequest(c)
    BY <1>1, <2>1, KeptRests DEF Drop, LogoutRequest
  <2>2. ASSUME NEW v \in Users, LoginRequest(c, v) PROVE Kept(u, m)'
    BY <1>1, <2>2, KeptRests DEF LoginRequest
  <2>3. ASSUME NEW n \in Msgs, GroupRequest(c, n) PROVE Kept(u, m)'
    <3>1. msg[c] = None
      BY <2>3, IdleArgs DEF GroupRequest, Ready
    <3>2. /\ \A d \in Conns : d # c => msg'[d] = msg[d] /\ to'[d] = to[d] /\ rest'[d] = rest[d]
          /\ UNCHANGED <<chan, stored, delivered>>
      BY <1>1, <2>3 DEF GroupRequest, TypeOK
    <3> QED
      BY <1>1, <3>1, <3>2, KeptRests
  <2>4. ASSUME NEW v \in Users, NEW n \in Msgs, ChatRequest(c, v, n) PROVE Kept(u, m)'
    <3>1. msg[c] = None
      BY <2>4, IdleArgs DEF ChatRequest, Ready
    <3>2. /\ \A d \in Conns : d # c => msg'[d] = msg[d] /\ to'[d] = to[d] /\ rest'[d] = rest[d]
          /\ UNCHANGED <<chan, stored, delivered>>
      BY <1>1, <2>4 DEF ChatRequest, TypeOK
    <3> QED
      BY <1>1, <3>1, <3>2, KeptRests
  <2> QED
    BY <1>4, <2>1, <2>2, <2>3, <2>4 DEF Client
<1>5. ASSUME NEW c \in Conns, Login(c) PROVE Kept(u, m)'
  <2>1. CASE LoginClear(c)
    <3>1. user[c] # u
      BY <1>1, <2>1 DEF LoginClear, Step, Settled, Busy, LoginPcs
    <3>2. /\ m \in stored[u] => m \in stored'[u]
          /\ UNCHANGED <<msg, to, rest, chan, delivered>>
      BY <1>1, <2>1, <3>1 DEF LoginClear, TypeOK
    <3> QED
      BY <1>1, <3>2, KeptRests
  <2>2. CASE ~LoginClear(c)
    <3>1. UNCHANGED <<msg, to, rest, chan, stored>> /\ delivered \subseteq delivered'
      BY <1>5, <2>2 DEF Login, LoginRefuse, LoginQuery, LoginTable, LoginState,
             LoginSubscribe, LoginAnswer
    <3> QED
      BY <1>1, <3>1, KeptRests
  <2> QED
    BY <2>1, <2>2
<1>6. ASSUME NEW c \in Conns, Logout(c) PROVE Kept(u, m)'
  <2>1. UNCHANGED <<msg, to, rest, chan, stored, delivered>>
    BY <1>6 DEF Logout, LogoutErase, LogoutUnsubscribe, LogoutState
  <2> QED
    BY <1>1, <2>1, KeptRests
<1>7. ASSUME NEW c \in Conns, Close(c) PROVE Kept(u, m)'
  <2>1. msg[c] = None
    BY <1>1, <1>7, IdleArgs DEF Close, CloseEvent, CloseErase, CloseGarbage, CloseUnknown,
           CloseState, CloseUnsubscribe, Step, HandlerArgs, RoutePcs, GroupPcs
  <2>2. /\ UNCHANGED <<msg, rest, chan, stored, delivered>>
        /\ \A d \in Conns : d # c => to'[d] = to[d]
    BY <1>1, <1>7 DEF Close, CloseEvent, CloseErase, CloseGarbage, CloseUnknown,
           CloseState, CloseUnsubscribe, Gone, TypeOK
  <2> QED
    BY <1>1, <2>1, <2>2, KeptRests
<1> DEFINE Hold(c) == msg[c] = m /\ (u = to[c] \/ u \in rest[c])
<1>8. ASSUME NEW c \in Conns, Chat(c) PROVE Kept(u, m)'
  <2>1. CASE ChatLocal(c)
    <3>1. /\ \A d \in Conns : d # c => msg'[d] = msg[d] /\ to'[d] = to[d] /\ rest'[d] = rest[d]
          /\ UNCHANGED <<chan, stored>> /\ delivered \subseteq delivered'
      BY <1>1, <2>1 DEF ChatLocal, Served, Forward, TypeOK
    <3>2. ASSUME Hold(c) PROVE <<u, m>> \in delivered'
      <4>1. rest[c] = {} /\ to[c] = u /\ table[Home[c]][u] # None
        BY <1>1, <2>1, <3>2 DEF ChatLocal, Unlocked, HandlerArgs
      <4>2. Home[c] \in Servers
        OBVIOUS
      <4>3. Sent(table[Home[c]][u], {<<u, m>>}) = {<<u, m>>}
        BY ONLY IInv, <1>1, <4>1, <4>2, TabledReceives
      <4> QED
        BY <2>1, <3>2, <4>1, <4>3 DEF ChatLocal, Forward
    <3> QED
      BY <1>2, <1>3, <3>1, <3>2 DEF Kept
  <2>2. CASE ChatRemote(c) \/ GroupLock(c) \/ QueryState(c)
    <3>1. UNCHANGED <<msg, to, rest, chan, stored, delivered>>
      BY <2>2 DEF ChatRemote, GroupLock, QueryState
    <3> QED
      BY <1>1, <3>1, KeptRests
  <2>3. CASE GroupLocal(c)
    <3>1. PICK v \in rest[c] : /\ table[Home[c]][v] # None
                               /\ Forward(Home[c], v, msg[c])
                               /\ rest' = [rest EXCEPT ![c] = @ \ {v}]
      BY <2>3 DEF GroupLocal
    <3>2. UNCHANGED <<chan, stored, msg, to>> /\ delivered \subseteq delivered'
      BY <2>3 DEF GroupLocal, Forward
    <3>3. \A d \in Conns : d # c => rest'[d] = rest[d]
      BY <3>1
    <3>4. ASSUME Hold(c) PROVE Kept(u, m)'
      <4>1. CASE u = v
        <5>1. Sent(table[Home[c]][u], {<<u, m>>}) = {<<u, m>>}
          BY <1>1, <3>1, <4>1, TabledReceives
        <5> QED
          BY <3>1, <3>4, <4>1, <5>1 DEF Forward, Kept
      <4>2. CASE u # v
        <5>1. msg'[c] = m /\ (u = to'[c] \/ u \in rest'[c])
          BY <1>1, <3>1, <3>2, <3>4, <4>2 DEF TypeOK
        <5> QED
          BY <5>1 DEF InHand, Kept
      <4> QED
        BY <4>1, <4>2
    <3> QED
      BY <1>2, <1>3, <3>2, <3>3, <3>4
  <2>4. CASE GroupRemote(c)
    <3>1. PICK v \in rest[c] : to' = [to EXCEPT ![c] = v] /\ rest' = [rest EXCEPT ![c] = @ \ {v}]
      BY <2>4 DEF GroupRemote
    <3>2. UNCHANGED <<chan, stored, msg, delivered>> /\ pc[c] = "g_each"
      BY <2>4 DEF GroupRemote, Step
    <3>3. \A d \in Conns : d # c => rest'[d] = rest[d] /\ to'[d] = to[d]
      BY <3>1
    <3>4. to[c] = None
      BY <1>1, <3>2 DEF HandlerArgs, RoutePcs
    <3>5. ASSUME Hold(c) PROVE Kept(u, m)'
      <4>1. msg'[c] = m /\ (u = to'[c] \/ u \in rest'[c])
        BY <1>1, <3>1, <3>2, <3>4, <3>5 DEF TypeOK
      <4> QED
        BY <4>1 DEF InHand, Kept
    <3> QED
      BY <1>2, <1>3, <3>2, <3>3, <3>5
  <2>5. CASE GroupUnlock(c)
    <3>1. /\ \A d \in Conns : d # c => msg'[d] = msg[d] /\ to'[d] = to[d] /\ rest'[d] = rest[d]
          /\ UNCHANGED <<chan, stored, delivered>>
      BY <1>1, <2>5 DEF GroupUnlock, Served, TypeOK
    <3>2. rest[c] = {} /\ to[c] = None
      BY <1>1, <2>5 DEF GroupUnlock, HandlerArgs, RoutePcs
    <3> QED
      BY <1>2, <1>3, <3>1, <3>2
  (* The handler is done with to[c]: it goes on to the others, under the lock. *)
  <2>6. ASSUME pc[c] \in {"publish", "save"}, Served(c, NextPc(c)), UNCHANGED rest,
               msg[c] = m, u \in rest[c]
        PROVE  Kept(u, m)'
    <3>1. lock[Home[c]] = c
      BY <1>1, <2>6 DEF HandlerArgs
    <3>2. msg'[c] = m /\ u \in rest'[c]
      BY <1>1, <2>6, <3>1 DEF Served, NextPc, TypeOK
    <3> QED
      BY <3>2 DEF InHand, Kept
  <2>7. ASSUME pc[c] \in {"publish", "save"}
        PROVE  to[c] \in Users /\ msg[c] \in Msgs
    BY <1>1, <2>7 DEF HandlerArgs, RoutePcs, TypeOK
  <2>8. CASE Publish(c)
    <3>1. /\ \A d \in Conns : d # c => msg'[d] = msg[d] /\ to'[d] = to[d] /\ rest'[d] = rest[d]
          /\ UNCHANGED <<stored, delivered, rest>> /\ pc[c] = "publish"
      BY <1>1, <2>8 DEF Publish, Served, TypeOK
    <3>2. to[c] \in Users /\ msg[c] \in Msgs
      BY <2>7, <3>1
    <3>3. \A s \in Servers : chan[s] \in Seq(Users \X Msgs) /\ <<to[c], msg[c]>> \in Users \X Msgs
      BY <1>1, <3>2 DEF TypeOK
    <3>4. \A s \in Servers :
            chan'[s] = IF to[c] \in subs[s] THEN Append(chan[s], <<to[c], msg[c]>>) ELSE chan[s]
      BY <2>8 DEF Publish, Published
    <3>5. \A s \in Servers :
            LET q == Append(chan[s], <<to[c], msg[c]>>) IN
            /\ \A i \in DOMAIN chan[s] : i \in DOMAIN q /\ q[i] = chan[s][i]
            /\ \E i \in DOMAIN q : q[i] = <<to[c], msg[c]>>
      <4> DEFINE S == Users \X Msgs
                 p == <<to[c], msg[c]>>
      <4>1. \A s \in Servers : chan[s] \in Seq(S) /\ p \in S
        BY ONLY <3>3
      <4> HIDE DEF S, p
      <4>2. ASSUME NEW s \in Servers
            PROVE  /\ \A i \in DOMAIN chan[s] :
                        i \in DOMAIN Append(chan[s], p) /\ Append(chan[s], p)[i] = chan[s][i]
                   /\ \E i \in DOMAIN Append(chan[s], p) : Append(chan[s], p)[i] = p
        <5>1. chan[s] \in Seq(S) /\ p \in S
          BY <4>1, <4>2
        <5> QED
          BY ONLY <5>1, AppendKeeps
      <4> QED
        BY ONLY <4>2 DEF p
    <3>6. ASSUME InChannel(u, m) PROVE InChannel(u, m)'
      <4>1. PICK s \in Servers : \E i \in DOMAIN chan[s] : chan[s][i] = <<u, m>>
        BY <3>6 DEF InChannel
      <4>2. PICK i \in DOMAIN chan[s] : chan[s][i] = <<u, m>>
        BY <4>1
      <4>3. i \in DOMAIN chan'[s] /\ chan'[s][i] = <<u, m>>
        BY <3>4, <3>5, <4>2
      <4> QED
        BY <4>3 DEF InChannel
    <3>7. ASSUME msg[c] = m, u = to[c] PROVE Kept(u, m)'
      <4>1. state[u] = "online"
        BY <1>1, <3>1, <3>7 DEF PublishOnline
      <4>2. PICK s \in Servers : u \in subs[s]
        BY <1>1, <4>1, OnlineSubscribed
      <4>3. chan'[s] = Append(chan[s], <<u, m>>)
        BY <3>4, <3>7, <4>2
      <4>4. \E i \in DOMAIN chan'[s] : chan'[s][i] = <<u, m>>
        BY <3>5, <3>7, <4>3
      <4> QED
        BY <4>4 DEF InChannel, Kept
    <3>8. ASSUME msg[c] = m, u \in rest[c] PROVE Kept(u, m)'
      BY <2>6, <2>8, <3>1, <3>8 DEF Publish
    <3> QED
      BY <1>2, <3>1, <3>6, <3>7, <3>8
  <2>9. CASE Save(c)
    <3>1. /\ \A d \in Conns : d # c => msg'[d] = msg[d] /\ to'[d] = to[d] /\ rest'[d] = rest[d]
          /\ UNCHANGED <<chan, delivered, rest>> /\ pc[c] = "save"
      BY <1>1, <2>9 DEF Save, Served, TypeOK
    <3>2. stored' = [stored EXCEPT ![to[c]] = @ \cup {msg[c]}]
      BY <2>9 DEF Save
    <3>3. m \in stored[u] \/ (msg[c] = m /\ u = to[c]) => m \in stored'[u]
      BY <1>1, <3>2 DEF TypeOK
    <3>4. ASSUME msg[c] = m, u \in rest[c] PROVE Kept(u, m)'
      BY <2>6, <2>9, <3>1, <3>4 DEF Save
    <3> QED
      BY <1>2, <1>3, <3>1, <3>3, <3>4 DEF Kept
  <2> QED
    BY <1>8, <2>1, <2>2, <2>3, <2>4, <2>5, <2>8, <2>9 DEF Chat
<1>9. ASSUME NEW s \in Servers, Observer(s) PROVE Kept(u, m)'
  <2>1. CASE ObserveForward(s)
    <3>1. UNCHANGED <<msg, to, rest, chan, stored>> /\ delivered \subseteq delivered'
      BY <2>1 DEF ObserveForward, Forward
    <3> QED
      BY <1>1, <3>1, KeptRests
  <2>2. CASE ObserveSave(s)
    <3>1. chan[s] \in Seq(Users \X Msgs) /\ chan[s] # <<>>
      BY <1>1, <2>2 DEF ObserveSave, HandlerArgs, TypeOK
    <3>2. /\ stored' = [stored EXCEPT ![Head(chan[s])[1]] = @ \cup {Head(chan[s])[2]}]
          /\ chan' = [chan EXCEPT ![s] = Tail(chan[s])]
          /\ UNCHANGED <<msg, to, rest, delivered>>
      BY <2>2 DEF ObserveSave
    <3>3. Head(chan[s]) \in Users \X Msgs /\ Head(chan[s]) = chan[s][1]
      BY <3>1
    <3>4. m \in stored[u] \/ <<u, m>> = Head(chan[s]) => m \in stored'[u]
      BY <1>1, <3>2, <3>3 DEF TypeOK
    <3>5. chan'[s] = Tail(chan[s]) /\ \A t \in Servers : t # s => chan'[t] = chan[t]
      BY <1>1, <3>2 DEF TypeOK
    <3>6. ASSUME InChannel(u, m) PROVE Kept(u, m)'
      <4>1. PICK t \in Servers : \E i \in DOMAIN chan[t] : chan[t][i] = <<u, m>>
        BY <3>6 DEF InChannel
      <4>2. PICK i \in DOMAIN chan[t] : chan[t][i] = <<u, m>>
        BY <4>1
      <4>3. CASE t # s
        BY <3>5, <4>2, <4>3 DEF InChannel, Kept
      <4>4. CASE t = s /\ i = 1
        BY <3>3, <3>4, <4>2, <4>4 DEF Kept
      <4>5. CASE t = s /\ i # 1
        <5>1. \E j \in DOMAIN Tail(chan[s]) : Tail(chan[s])[j] = chan[s][i]
          BY <3>1, <4>2, <4>5, TailKeeps
        <5> QED
          BY <3>5, <4>2, <4>5, <5>1 DEF InChannel, Kept
      <4> QED
        BY <4>3, <4>4, <4>5
    <3>7. ASSUME ~InChannel(u, m) PROVE Kept(u, m)'
      BY <1>1, <3>2, <3>4, <3>7 DEF InHand, Kept
    <3> QED
      BY <3>6, <3>7
  <2> QED
    BY <1>9, <2>1, <2>2 DEF Observer
<1>10. ASSUME NEW s \in Servers, Process(s) PROVE FALSE
  BY <1>10 DEF Process, Interrupt, Exit, Kill, Restart, OneSession
<1>11. CASE UNCHANGED vars
  BY <1>1, <1>11, KeptRests DEF vars
<1> QED
  BY <1>4, <1>5, <1>6, <1>7, <1>8, <1>9, <1>10, <1>11 DEF Next, Handler

LEMMA CalmStep ==
  ASSUME ~Stops, IInv, OnlyAddressees, OneSession, SessionInv, CalmInv, [Next]_vars
  PROVE  CalmInv'
<1> USE ClusterAssumption
<1>1. ASSUME NEW u \in Users, NEW m \in Msgs, <<u, m>> \in calm' PROVE Kept(u, m)'
  <2>1. CASE <<u, m>> \in calm
    BY <1>1, <2>1, KeptStep
  <2>2. CASE <<u, m>> \notin calm
    <3>1. PICK c \in Conns : \/ ChatRequest(c, u, m)
                             \/ GroupRequest(c, m) /\ u \in GroupUsers \ {user[c]}
      BY <1>1, <2>2, NewlyCalm
    <3>2. msg'[c] = m /\ (u = to'[c] \/ u \in rest'[c])
      BY <3>1 DEF ChatRequest, GroupRequest, IInv, TypeOK
    <3> QED
      BY <3>2 DEF InHand, Kept
  <2> QED
    BY <2>1, <2>2
<1>2. CalmSettled'
  BY SettledStep DEF CalmInv
<1>3. PublishOnline'
  BY OnlineStep DEF CalmInv
<1> QED
  BY <1>1, <1>2, <1>3 DEF CalmInv, CalmKept

(* When no server stops and a user never opens a second session while one is *)
(* active, a message to a user whose session does not change is never lost   *)
(* on its way through toPChat or groupChat, the database, Redis and the      *)
(* observer of another server (261-302, 349-398): it is in the hands of a    *)
(* handler, in a channel, stored, or has reached the client.                 *)
THEOREM CalmMessagesKept ==
  ASSUME ~Overlap, ~Stops
  PROVE  Spec => []NoLossWhenCalm
<1>1. Init => CalmInv
  BY CalmInit
<1>2. IInv /\ OnlyAddressees /\ (OneSession /\ SessionInv) /\ CalmInv /\ [Next]_vars => CalmInv'
  BY CalmStep
<1>3. Spec => []CalmInv
  BY <1>1, <1>2, Invariance, Addressees, SessionInvariance, PTL DEF Spec
<1>4. IInv /\ CalmInv => NoLossWhenCalm
  BY NoLossFromKept DEF IInv, CalmInv
<1> QED
  BY <1>3, <1>4, Invariance, PTL

=============================================================================
