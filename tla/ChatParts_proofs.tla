--------------------------- MODULE ChatParts_proofs ---------------------------
(***************************************************************************)
(* Proofs about the accounts of the chat and about its client, two systems *)
(* that are modelled apart.                                                *)
(***************************************************************************)
EXTENDS ChatAccounts, ChatClient, TLAPS

-----------------------------------------------------------------------------
(***************************************************************************)
(* ChatAccounts, for any number of threads, users, groups and requests.    *)
(***************************************************************************)

\* What a handler remembers between its statements is right for its place.
Handling(h) ==
    /\ handler[h].at \in {"friend", "back"} =>
        handler[h].who \in Uids /\ handler[h].arg \in Uids
    /\ handler[h].at \in {"group", "creator", "member"} => handler[h].who \in Uids
    /\ handler[h].at = "member" => handler[h].arg \in Gids
    /\ handler[h].at \in {"reg", "registered"} => handler[h].who \in 1..MaxRequests
    /\ handler[h].at = "registered" /\ handler[h].id # 0 =>
        handler[h].id <= Len(user_rows) /\ user_rows[handler[h].id] = handler[h].who
    /\ handler[h].at = "creator" =>
        /\ handler[h].id \in 1..Len(allgroup)
        /\ allgroup[handler[h].id] = handler[h].who

\* Nobody else is about to enter, or has entered, a creator for the group that
\* a handler has just inserted.
OneCreator ==
    \A h \in Handlers : handler[h].at = "creator" =>
        /\ \A r \in groupuser : r.role = "creator" => r.gid # handler[h].id
        /\ \A k \in Handlers \ {h} : handler[k].at = "creator" => handler[k].id # handler[h].id

\* Creators are creators of groups that are there, and are who asked for them.
CreatorsAsked ==
    \A r \in groupuser : r.role = "creator" =>
        r.gid \in 1..Len(allgroup) /\ allgroup[r.gid] = r.uid

\* Every group has its creator, or waits for it, or was torn.
Founded ==
    \A g \in 1..Len(allgroup) :
        \/ \E r \in groupuser : r.gid = g /\ r.role = "creator"
        \/ g \in torn.groups
        \/ \E h \in Handlers : handler[h].at = "creator" /\ handler[h].id = g

ToldOwn == \A t \in told : t.id # 0 => t.id <= Len(user_rows) /\ user_rows[t.id] = t.for

Sizes == Len(user_rows) <= MaxUsers /\ Len(allgroup) <= MaxGroups

AccountsInv ==
    /\ AccountsTypeOK /\ Sizes
    /\ \A h \in Handlers : Handling(h)
    /\ OneCreator /\ CreatorsAsked /\ Founded /\ ToldOwn

-----------------------------------------------------------------------------

\* How the places of the handlers change.
LEMMA GoesOn ==
    ASSUME AccountsTypeOK, NEW h \in Handlers, NEW at \in Places, NEW id \in Nat,
           Goes(h, at, id)
    PROVE  /\ handler' \in [Handlers -> [at : Places, who : Nat, arg : Nat, id : Nat]]
           /\ handler'[h].at = at /\ handler'[h].id = id
           /\ handler'[h].who = handler[h].who /\ handler'[h].arg = handler[h].arg
           /\ \A k \in Handlers \ {h} : handler'[k] = handler[k]
  BY DEF AccountsTypeOK, Goes

\* A handler that is done forgets what it was doing; the others stay as they are.
LEMMA IsDone ==
    ASSUME AccountsTypeOK, NEW h \in Handlers, Done(h)
    PROVE  /\ handler' \in [Handlers -> [at : Places, who : Nat, arg : Nat, id : Nat]]
           /\ handler'[h].at = "idle" /\ handler'[h].id = 0
           /\ \A k \in Handlers \ {h} : handler'[k] = handler[k]
  BY DEF AccountsTypeOK, Done, Idle, Places

\* Initially nothing is stored but the first two users.
LEMMA Initially == AccountsInit => AccountsInv
  <1> SUFFICES ASSUME AccountsInit PROVE AccountsInv
    OBVIOUS
  <1> USE ChatAccountsAssumption DEF AccountsInit, Idle
  <1>1. AccountsTypeOK
    BY DEF AccountsTypeOK, Places
  <1>2. Sizes
    BY DEF Sizes
  <1>3. \A h \in Handlers : Handling(h)
    BY DEF Handling
  <1>4. OneCreator /\ CreatorsAsked /\ Founded /\ ToldOwn
    BY DEF OneCreator, CreatorsAsked, Founded, ToldOwn
  <1> QED BY <1>1, <1>2, <1>3, <1>4 DEF AccountsInv

\* No group loses its creator in a step of a handler that was not about to
\* insert it.
LEMMA StaysFounded ==
    ASSUME Founded, NEW h \in Handlers,
           \A k \in Handlers \ {h} : handler'[k] = handler[k],
           handler[h].at # "creator",
           UNCHANGED allgroup, groupuser \subseteq groupuser', torn.groups \subseteq torn'.groups
    PROVE  Founded'
  <1> SUFFICES ASSUME NEW g \in 1..Len(allgroup)
               PROVE  \/ \E r \in groupuser' : r.gid = g /\ r.role = "creator"
                      \/ g \in torn'.groups
                      \/ \E k \in Handlers : handler'[k].at = "creator" /\ handler'[k].id = g
    BY DEF Founded
  <1>1. CASE \E r \in groupuser : r.gid = g /\ r.role = "creator"
    BY <1>1
  <1>2. CASE g \in torn.groups
    BY <1>2
  <1>3. CASE \E k \in Handlers : handler[k].at = "creator" /\ handler[k].id = g
    <2>1. PICK k \in Handlers : handler[k].at = "creator" /\ handler[k].id = g
      BY <1>3
    <2> QED BY <2>1
  <1> QED BY <1>1, <1>2, <1>3 DEF Founded

\* A request arrives.
LEMMA RequestKeeps ==
    ASSUME AccountsInv, NEW h \in Handlers, Request(h)
    PROVE  AccountsInv'
  <1> USE ChatAccountsAssumption DEF AccountsInv
  <1>1. PICK at \in {"reg", "friend", "group", "member"}, who \in Nat, arg \in Nat :
            /\ Asks(h, at, who, arg)
            /\ at = "reg" => who = requests + 1
            /\ at # "reg" => who \in Uids
            /\ at = "friend" => arg \in Uids
            /\ at = "member" => arg \in Gids
    BY DEF Request, Sizes, Uids, Gids, AccountsTypeOK
  <1>2. /\ handler' \in [Handlers -> [at : Places, who : Nat, arg : Nat, id : Nat]]
        /\ handler'[h] = [at |-> at, who |-> who, arg |-> arg, id |-> 0]
        /\ \A k \in Handlers \ {h} : handler'[k] = handler[k]
        /\ requests' \in 1..MaxRequests
        /\ handler[h].at = "idle"
    BY <1>1 DEF Asks, AccountsTypeOK, Places, Idle
  <1>3. UNCHANGED <<user_rows, friend, allgroup, groupuser, told, torn>>
    BY <1>1 DEF Asks
  <1>4. AccountsTypeOK' /\ Sizes'
    BY <1>2, <1>3 DEF AccountsTypeOK, Sizes
  <1>5. ASSUME NEW k \in Handlers PROVE Handling(k)'
    <2>1. CASE k = h
      BY <1>1, <1>2, <2>1 DEF Handling, Asks
    <2>2. CASE k # h
      BY <1>2, <1>3, <2>2 DEF Handling
    <2> QED BY <2>1, <2>2
  <1>6. CreatorsAsked' /\ ToldOwn'
    BY <1>3 DEF CreatorsAsked, ToldOwn
  <1>7. Founded'
    <2>1. Founded /\ handler[h].at # "creator"
      BY <1>2
    <2> QED BY <1>2, <1>3, <2>1, StaysFounded
  <1>8. OneCreator'
    BY <1>2, <1>3 DEF OneCreator
  <1> QED BY <1>4, <1>5, <1>6, <1>7, <1>8

\* What a step of h leaves to the other handlers, as long as no row goes away.
LEMMA OthersHandling ==
    ASSUME AccountsInv, NEW h \in Handlers, NEW k \in Handlers \ {h},
           handler'[k] = handler[k],
           \A i \in 1..Len(user_rows) : user_rows'[i] = user_rows[i],
           Len(user_rows') >= Len(user_rows), Len(user_rows') \in Nat,
           \A i \in 1..Len(allgroup) : allgroup'[i] = allgroup[i],
           Len(allgroup') >= Len(allgroup), Len(allgroup') \in Nat
    PROVE  Handling(k)'
  <1>1. Handling(k) /\ handler[k].id \in Nat /\ Len(user_rows) \in Nat /\ Len(allgroup) \in Nat
    BY DEF AccountsInv, AccountsTypeOK
  <1> QED BY <1>1 DEF Handling

\* A registration is inserted.
LEMMA InsertUserKeeps ==
    ASSUME AccountsInv, NEW h \in Handlers, InsertUser(h)
    PROVE  AccountsInv'
  <1> USE ChatAccountsAssumption DEF AccountsInv
  <1>1. /\ handler' \in [Handlers -> [at : Places, who : Nat, arg : Nat, id : Nat]]
        /\ handler'[h].at = "registered" /\ handler'[h].id = Len(user_rows) + 1
        /\ handler'[h].who = handler[h].who
        /\ \A k \in Handlers \ {h} : handler'[k] = handler[k]
        /\ handler[h].at = "reg" /\ handler[h].who \in 1..MaxRequests
    <2>1. Len(user_rows) + 1 \in Nat /\ "registered" \in Places
      BY DEF AccountsTypeOK, Places
    <2> QED BY <2>1, GoesOn DEF InsertUser, Handling
  <1>2. /\ user_rows' = Append(user_rows, handler[h].who)
        /\ user_rows' \in Seq(0..MaxRequests)
        /\ Len(user_rows') = Len(user_rows) + 1 /\ Len(user_rows) \in Nat
        /\ Len(user_rows') <= MaxUsers
        /\ user_rows'[Len(user_rows) + 1] = handler[h].who
        /\ \A i \in 1..Len(user_rows) : user_rows'[i] = user_rows[i]
    BY <1>1 DEF InsertUser, AccountsTypeOK
  <1>3. UNCHANGED <<friend, allgroup, groupuser, requests, told, torn>>
    BY DEF InsertUser
  <1>4. AccountsTypeOK' /\ Sizes'
    BY <1>1, <1>2, <1>3 DEF AccountsTypeOK, Sizes
  <1>5. ASSUME NEW k \in Handlers PROVE Handling(k)'
    <2>1. CASE k = h
      BY <1>1, <1>2, <2>1 DEF Handling
    <2>2. CASE k # h
      <3>1. Len(allgroup) \in Nat
        BY DEF AccountsTypeOK
      <3> QED BY <1>1, <1>2, <1>3, <2>2, <3>1, OthersHandling
    <2> QED BY <2>1, <2>2
  <1>6. CreatorsAsked'
    BY <1>3 DEF CreatorsAsked
  <1>7. Founded'
    BY <1>1, <1>3, StaysFounded
  <1>8. OneCreator'
    BY <1>1, <1>3 DEF OneCreator
  <1>9. ToldOwn'
    BY <1>2, <1>3 DEF ToldOwn, AccountsTypeOK
  <1> QED BY <1>4, <1>5, <1>6, <1>7, <1>8, <1>9

\* A step that leaves the tables and has no creator to lose: a registration is
\* refused, fails or is answered, a group is not created.
LEMMA PlaceKeeps ==
    ASSUME AccountsInv, NEW h \in Handlers,
           InsertUserFails(h) \/ Refused(h) \/ Answered(h) \/ CreateGroupFails(h)
    PROVE  AccountsInv'
  <1> USE ChatAccountsAssumption DEF AccountsInv
  <1>1. /\ handler' \in [Handlers -> [at : Places, who : Nat, arg : Nat, id : Nat]]
        /\ handler'[h].at \in {"registered", "idle"} /\ handler'[h].id = 0
        /\ \A k \in Handlers \ {h} : handler'[k] = handler[k]
        /\ handler[h].at \in {"reg", "registered", "group"}
        /\ handler'[h].at = "registered" => handler'[h].who \in 1..MaxRequests
    <2>1. CASE InsertUserFails(h)
      <3>1. 0 \in Nat /\ "registered" \in Places
        BY DEF Places
      <3> QED BY <2>1, <3>1, GoesOn DEF InsertUserFails, Handling
    <2>2. CASE Refused(h) \/ Answered(h) \/ CreateGroupFails(h)
      BY <2>2, IsDone DEF Refused, Answered, CreateGroupFails
    <2> QED BY <2>1, <2>2
  <1>2. UNCHANGED <<user_rows, friend, allgroup, groupuser, requests, torn>>
    BY DEF InsertUserFails, Refused, Answered, CreateGroupFails
  <1>3. \/ UNCHANGED told
        \/ /\ handler[h].at = "registered"
           /\ told' = told \cup {[for |-> handler[h].who, id |-> handler[h].id]}
    BY DEF InsertUserFails, Refused, Answered, CreateGroupFails, InsertId
  <1>4. AccountsTypeOK' /\ Sizes'
    <2>1. told' \subseteq [for : 1..MaxRequests, id : Nat]
      BY <1>3 DEF AccountsTypeOK, Handling
    <2> QED BY <1>1, <1>2, <2>1 DEF AccountsTypeOK, Sizes
  <1>5. ASSUME NEW k \in Handlers PROVE Handling(k)'
    <2>1. CASE k = h
      BY <1>1, <2>1 DEF Handling
    <2>2. CASE k # h
      BY <1>1, <1>2, <2>2 DEF Handling
    <2> QED BY <2>1, <2>2
  <1>6. CreatorsAsked'
    BY <1>2 DEF CreatorsAsked
  <1>7. Founded'
    BY <1>1, <1>2, StaysFounded
  <1>8. OneCreator'
    BY <1>1, <1>2 DEF OneCreator
  <1>9. ToldOwn'
    BY <1>2, <1>3 DEF ToldOwn, Handling
  <1> QED BY <1>4, <1>5, <1>6, <1>7, <1>8, <1>9

\* One of the two rows of a friendship is inserted or fails.
LEMMA FriendKeeps ==
    ASSUME AccountsInv, NEW h \in Handlers, AddFriend(h) \/ AddFriendBack(h)
    PROVE  AccountsInv'
  <1> USE ChatAccountsAssumption DEF AccountsInv
  <1>1. /\ handler' \in [Handlers -> [at : Places, who : Nat, arg : Nat, id : Nat]]
        /\ \A k \in Handlers \ {h} : handler'[k] = handler[k]
        /\ handler[h].at \in {"friend", "back"}
        /\ handler'[h].at \in {"back", "idle"}
        /\ handler'[h].at = "back" =>
            handler'[h].who = handler[h].who /\ handler'[h].arg = handler[h].arg
    <2>1. CASE AddFriend(h)
      <3>1. 0 \in Nat /\ "back" \in Places
        BY DEF Places
      <3> QED BY <2>1, <3>1, GoesOn DEF AddFriend
    <2>2. CASE AddFriendBack(h)
      BY <2>2, IsDone DEF AddFriendBack
    <2> QED BY <2>1, <2>2
  <1>2. UNCHANGED <<user_rows, allgroup, groupuser, requests, told>> /\ torn'.groups = torn.groups
    BY DEF AddFriend, AddFriendBack, InsertFriend, AccountsTypeOK
  <1>3. handler[h].who \in Uids /\ handler[h].arg \in Uids
    BY <1>1 DEF Handling
  <1>4. AccountsTypeOK' /\ Sizes'
    <2>1. friend' \subseteq Uids \X Uids
      BY <1>3 DEF AddFriend, AddFriendBack, InsertFriend, AccountsTypeOK
    <2>2. torn' \in [friends : SUBSET SUBSET Uids, groups : SUBSET Gids]
      <3>1. Pair(h) \in SUBSET Uids
        BY <1>3 DEF Pair
      <3>2. \/ UNCHANGED torn
            \/ torn' = [torn EXCEPT !.friends = @ \cup {Pair(h)}]
        BY DEF AddFriend, AddFriendBack, InsertFriend
      <3>3. torn.friends \cup {Pair(h)} \in SUBSET SUBSET Uids
        BY <3>1 DEF AccountsTypeOK
      <3>4. torn \in [friends : SUBSET SUBSET Uids, groups : SUBSET Gids]
        BY DEF AccountsTypeOK
      <3> QED BY <3>2, <3>3, <3>4
    <2> QED BY <1>1, <1>2, <2>1, <2>2 DEF AccountsTypeOK, Sizes
  <1>5. ASSUME NEW k \in Handlers PROVE Handling(k)'
    <2>1. CASE k = h
      BY <1>1, <1>3, <2>1 DEF Handling
    <2>2. CASE k # h
      BY <1>1, <1>2, <2>2 DEF Handling
    <2> QED BY <2>1, <2>2
  <1>6. CreatorsAsked'
    BY <1>2 DEF CreatorsAsked
  <1>7. Founded'
    BY <1>1, <1>2, StaysFounded
  <1>8. OneCreator'
    BY <1>1, <1>2 DEF OneCreator
  <1>9. ToldOwn'
    BY <1>2 DEF ToldOwn
  <1> QED BY <1>4, <1>5, <1>6, <1>7, <1>8, <1>9

\* A group is inserted; its id is not that of any other group.
LEMMA CreateGroupKeeps ==
    ASSUME AccountsInv, NEW h \in Handlers, CreateGroup(h)
    PROVE  AccountsInv'
  <1> USE ChatAccountsAssumption DEF AccountsInv
  <1>1. /\ handler' \in [Handlers -> [at : Places, who : Nat, arg : Nat, id : Nat]]
        /\ handler'[h].at = "creator" /\ handler'[h].id = Len(allgroup) + 1
        /\ handler'[h].who = handler[h].who
        /\ \A k \in Handlers \ {h} : handler'[k] = handler[k]
        /\ handler[h].at = "group" /\ handler[h].who \in Uids
    <2>1. Len(allgroup) + 1 \in Nat /\ "creator" \in Places
      BY DEF AccountsTypeOK, Places
    <2> QED BY <2>1, GoesOn DEF CreateGroup, Handling
  <1>2. /\ allgroup' \in Seq(Uids)
        /\ Len(allgroup') = Len(allgroup) + 1 /\ Len(allgroup) \in Nat
        /\ Len(allgroup') <= MaxGroups
        /\ allgroup'[Len(allgroup) + 1] = handler[h].who
        /\ \A i \in 1..Len(allgroup) : allgroup'[i] = allgroup[i]
    BY <1>1 DEF CreateGroup, AccountsTypeOK
  <1>3. UNCHANGED <<user_rows, friend, groupuser, requests, told, torn>>
    BY DEF CreateGroup
  <1>4. AccountsTypeOK' /\ Sizes'
    BY <1>1, <1>2, <1>3 DEF AccountsTypeOK, Sizes
  <1>5. ASSUME NEW k \in Handlers PROVE Handling(k)'
    <2>1. CASE k = h
      BY <1>1, <1>2, <2>1 DEF Handling
    <2>2. CASE k # h
      <3>1. Len(user_rows) \in Nat
        BY DEF AccountsTypeOK
      <3> QED BY <1>1, <1>2, <1>3, <2>2, <3>1, OthersHandling
    <2> QED BY <2>1, <2>2
  <1>6. CreatorsAsked'
    BY <1>2, <1>3 DEF CreatorsAsked
  <1>7. Founded'
    <2> SUFFICES ASSUME NEW g \in 1..Len(allgroup'),
                        ~ \E r \in groupuser : r.gid = g /\ r.role = "creator",
                        g \notin torn.groups
                 PROVE  \E k \in Handlers : handler'[k].at = "creator" /\ handler'[k].id = g
      BY <1>3 DEF Founded
    <2>1. CASE g = Len(allgroup) + 1
      BY <1>1, <2>1
    <2>2. CASE g # Len(allgroup) + 1
      <3>1. g \in 1..Len(allgroup)
        BY <1>2, <2>2
      <3>2. PICK k \in Handlers : handler[k].at = "creator" /\ handler[k].id = g
        BY <3>1 DEF Founded
      <3> QED BY <1>1, <3>2
    <2> QED BY <2>1, <2>2
  <1>8. OneCreator'
    <2>1. \A r \in groupuser : r.role = "creator" => r.gid # Len(allgroup) + 1
      BY <1>2 DEF CreatorsAsked
    <2>2. \A k \in Handlers : handler[k].at = "creator" => handler[k].id # Len(allgroup) + 1
      BY <1>2 DEF Handling
    <2> QED BY <1>1, <1>3, <2>1, <2>2 DEF OneCreator
  <1>9. ToldOwn'
    BY <1>3 DEF ToldOwn
  <1> QED BY <1>4, <1>5, <1>6, <1>7, <1>8, <1>9

\* The creator is inserted, or the statement fails.
LEMMA AddCreatorKeeps ==
    ASSUME AccountsInv, NEW h \in Handlers, AddCreator(h)
    PROVE  AccountsInv'
  <1> USE ChatAccountsAssumption DEF AccountsInv
  <1> DEFINE row == [gid |-> handler[h].id, uid |-> handler[h].who, role |-> "creator"]
  <1>1. /\ handler' \in [Handlers -> [at : Places, who : Nat, arg : Nat, id : Nat]]
        /\ handler'[h].at = "idle"
        /\ \A k \in Handlers \ {h} : handler'[k] = handler[k]
    BY IsDone DEF AddCreator
  <1>2. /\ handler[h].at = "creator" /\ handler[h].who \in Uids
        /\ handler[h].id \in 1..Len(allgroup) /\ allgroup[handler[h].id] = handler[h].who
        /\ handler[h].id \in Gids
    BY DEF AddCreator, Handling, Sizes, Gids, AccountsTypeOK
  <1>3. UNCHANGED <<user_rows, friend, allgroup, requests, told>>
    BY DEF AddCreator
  <1>4. \/ groupuser' = groupuser \cup {row} /\ UNCHANGED torn
        \/ torn' = [torn EXCEPT !.groups = @ \cup {handler[h].id}] /\ UNCHANGED groupuser
    BY DEF AddCreator, AddIntoGroup, InsertId
  <1>5. AccountsTypeOK' /\ Sizes'
    <2>1. groupuser' \subseteq [gid : Gids, uid : Uids, role : {"creator", "normal"}]
      BY <1>2, <1>4 DEF AccountsTypeOK
    <2>2. torn' \in [friends : SUBSET SUBSET Uids, groups : SUBSET Gids]
      <3>1. torn.groups \cup {handler[h].id} \in SUBSET Gids
        BY <1>2 DEF AccountsTypeOK
      <3>2. torn \in [friends : SUBSET SUBSET Uids, groups : SUBSET Gids]
        BY DEF AccountsTypeOK
      <3> QED BY <1>4, <3>1, <3>2
    <2> QED BY <1>1, <1>3, <2>1, <2>2 DEF AccountsTypeOK, Sizes
  <1>6. ASSUME NEW k \in Handlers PROVE Handling(k)'
    <2>1. CASE k = h
      BY <1>1, <2>1 DEF Handling
    <2>2. CASE k # h
      BY <1>1, <1>3, <2>2 DEF Handling
    <2> QED BY <2>1, <2>2
  <1>7. CreatorsAsked'
    BY <1>2, <1>3, <1>4 DEF CreatorsAsked
  <1>8. Founded'
    <2> SUFFICES ASSUME NEW g \in 1..Len(allgroup)
                 PROVE  \/ \E r \in groupuser' : r.gid = g /\ r.role = "creator"
                        \/ g \in torn'.groups
                        \/ \E k \in Handlers : handler'[k].at = "creator" /\ handler'[k].id = g
      BY <1>3 DEF Founded
    <2>1. CASE g = handler[h].id
      <3>1. CASE groupuser' = groupuser \cup {row}
        <4>1. row \in groupuser' /\ row.gid = g /\ row.role = "creator"
          BY <2>1, <3>1
        <4> QED BY <4>1
      <3>2. CASE torn' = [torn EXCEPT !.groups = @ \cup {handler[h].id}]
        BY <2>1, <3>2 DEF AccountsTypeOK
      <3> QED BY <1>4, <3>1, <3>2
    <2>2. CASE g # handler[h].id
      <3>1. CASE \E r \in groupuser : r.gid = g /\ r.role = "creator"
        BY <1>4, <3>1
      <3>2. CASE g \in torn.groups
        BY <1>4, <3>2 DEF AccountsTypeOK
      <3>3. CASE \E k \in Handlers : handler[k].at = "creator" /\ handler[k].id = g
        <4>1. PICK k \in Handlers : handler[k].at = "creator" /\ handler[k].id = g
          BY <3>3
        <4> QED BY <1>1, <2>2, <4>1
      <3> QED BY <3>1, <3>2, <3>3 DEF Founded
    <2> QED BY <2>1, <2>2
  <1>9. OneCreator'
    <2> SUFFICES ASSUME NEW k \in Handlers, handler'[k].at = "creator"
                 PROVE  /\ \A r \in groupuser' : r.role = "creator" => r.gid # handler'[k].id
                        /\ \A j \in Handlers \ {k} :
                              handler'[j].at = "creator" => handler'[j].id # handler'[k].id
      BY DEF OneCreator
    <2>1. k # h /\ handler'[k] = handler[k] /\ handler[k].at = "creator"
      BY <1>1
    <2>2. handler[h].id # handler[k].id
      BY <1>2, <2>1 DEF OneCreator
    <2>3. \A r \in groupuser' : r.role = "creator" => r.gid # handler'[k].id
      BY <1>4, <2>1, <2>2 DEF OneCreator
    <2>4. \A j \in Handlers \ {k} : handler'[j].at = "creator" => handler'[j].id # handler'[k].id
      BY <1>1, <2>1 DEF OneCreator
    <2> QED BY <2>3, <2>4
  <1>10. ToldOwn'
    BY <1>3 DEF ToldOwn
  <1> QED BY <1>5, <1>6, <1>7, <1>8, <1>9, <1>10

\* A member is added, or not.
LEMMA AddGroupKeeps ==
    ASSUME AccountsInv, NEW h \in Handlers, AddGroup(h)
    PROVE  AccountsInv'
  <1> USE ChatAccountsAssumption DEF AccountsInv
  <1> DEFINE row == [gid |-> handler[h].arg, uid |-> handler[h].who, role |-> "normal"]
  <1>1. /\ handler' \in [Handlers -> [at : Places, who : Nat, arg : Nat, id : Nat]]
        /\ handler'[h].at = "idle"
        /\ \A k \in Handlers \ {h} : handler'[k] = handler[k]
    BY IsDone DEF AddGroup
  <1>2. handler[h].at = "member" /\ handler[h].who \in Uids /\ handler[h].arg \in Gids
    BY DEF AddGroup, Handling
  <1>3. UNCHANGED <<user_rows, friend, allgroup, requests, told, torn>>
    BY DEF AddGroup
  <1>4. groupuser' = groupuser \cup {row} \/ UNCHANGED groupuser
    BY DEF AddGroup, AddIntoGroup
  <1>5. AccountsTypeOK' /\ Sizes'
    <2>1. groupuser' \subseteq [gid : Gids, uid : Uids, role : {"creator", "normal"}]
      BY <1>2, <1>4 DEF AccountsTypeOK
    <2> QED BY <1>1, <1>3, <2>1 DEF AccountsTypeOK, Sizes
  <1>6. ASSUME NEW k \in Handlers PROVE Handling(k)'
    <2>1. CASE k = h
      BY <1>1, <2>1 DEF Handling
    <2>2. CASE k # h
      BY <1>1, <1>3, <2>2 DEF Handling
    <2> QED BY <2>1, <2>2
  <1>7. CreatorsAsked'
    BY <1>3, <1>4 DEF CreatorsAsked
  <1>8. Founded'
    BY <1>1, <1>2, <1>3, <1>4, StaysFounded
  <1>9. OneCreator'
    BY <1>1, <1>4 DEF OneCreator
  <1>10. ToldOwn'
    BY <1>3 DEF ToldOwn
  <1> QED BY <1>5, <1>6, <1>7, <1>8, <1>9, <1>10

\* A server stops in the middle of a request.
LEMMA StoppedKeeps ==
    ASSUME AccountsInv, NEW h \in Handlers, Stopped(h)
    PROVE  AccountsInv'
  <1> USE ChatAccountsAssumption DEF AccountsInv
  <1>1. /\ handler' \in [Handlers -> [at : Places, who : Nat, arg : Nat, id : Nat]]
        /\ handler'[h].at = "idle"
        /\ \A k \in Handlers \ {h} : handler'[k] = handler[k]
    BY IsDone DEF Stopped
  <1>2. UNCHANGED <<user_rows, friend, allgroup, groupuser, requests, told>>
    BY DEF Stopped
  <1>3. /\ torn' = [friends |-> torn'.friends, groups |-> torn'.groups]
        /\ torn.groups \subseteq torn'.groups
        /\ handler[h].at = "creator" => handler[h].id \in torn'.groups
    BY DEF Stopped
  <1>4. AccountsTypeOK' /\ Sizes'
    <2>1. torn'.friends \in SUBSET SUBSET Uids
      <3>1. handler[h].at = "back" => Pair(h) \in SUBSET Uids
        BY DEF Pair, Handling
      <3> QED BY <3>1 DEF Stopped, AccountsTypeOK
    <2>2. torn'.groups \in SUBSET Gids
      <3>1. handler[h].at = "creator" => handler[h].id \in Gids
        BY DEF Handling, Sizes, Gids, AccountsTypeOK
      <3> QED BY <3>1 DEF Stopped, AccountsTypeOK
    <2>3. torn' \in [friends : SUBSET SUBSET Uids, groups : SUBSET Gids]
      BY <1>3, <2>1, <2>2
    <2> QED BY <1>1, <1>2, <2>3 DEF AccountsTypeOK, Sizes
  <1>5. ASSUME NEW k \in Handlers PROVE Handling(k)'
    <2>1. CASE k = h
      BY <1>1, <2>1 DEF Handling
    <2>2. CASE k # h
      BY <1>1, <1>2, <2>2 DEF Handling
    <2> QED BY <2>1, <2>2
  <1>6. CreatorsAsked'
    BY <1>2 DEF CreatorsAsked
  <1>7. Founded'
    <2>1. CASE handler[h].at # "creator"
      BY <1>1, <1>2, <1>3, <2>1, StaysFounded
    <2>2. CASE handler[h].at = "creator"
      <3> SUFFICES ASSUME NEW g \in 1..Len(allgroup),
                          ~ \E r \in groupuser : r.gid = g /\ r.role = "creator",
                          g \notin torn'.groups
                   PROVE  \E k \in Handlers : handler'[k].at = "creator" /\ handler'[k].id = g
        BY <1>2 DEF Founded
      <3>1. PICK k \in Handlers : handler[k].at = "creator" /\ handler[k].id = g
        BY <1>3 DEF Founded
      <3> QED BY <1>1, <1>3, <3>1
    <2> QED BY <2>1, <2>2
  <1>8. OneCreator'
    BY <1>1, <1>2 DEF OneCreator
  <1>9. ToldOwn'
    BY <1>2 DEF ToldOwn
  <1> QED BY <1>4, <1>5, <1>6, <1>7, <1>8, <1>9

-----------------------------------------------------------------------------

\* The invariant is inductive.
THEOREM AccountsInductive == AccountsSpec => []AccountsInv
  <1>1. AccountsInv /\ [AccountsNext]_accountsVars => AccountsInv'
    <2> SUFFICES ASSUME AccountsInv, [AccountsNext]_accountsVars PROVE AccountsInv'
      OBVIOUS
    <2>1. CASE UNCHANGED accountsVars
      BY <2>1 DEF accountsVars, AccountsInv, AccountsTypeOK, Sizes, Handling, OneCreator,
                  CreatorsAsked, Founded, ToldOwn
    <2>2. ASSUME NEW h \in Handlers, Request(h) PROVE AccountsInv'
      BY <2>2, RequestKeeps
    <2>3. ASSUME NEW h \in Handlers, InsertUser(h) PROVE AccountsInv'
      BY <2>3, InsertUserKeeps
    <2>4. ASSUME NEW h \in Handlers,
                 InsertUserFails(h) \/ Refused(h) \/ Answered(h) \/ CreateGroupFails(h)
          PROVE  AccountsInv'
      BY <2>4, PlaceKeeps
    <2>5. ASSUME NEW h \in Handlers, AddFriend(h) \/ AddFriendBack(h) PROVE AccountsInv'
      BY <2>5, FriendKeeps
    <2>6. ASSUME NEW h \in Handlers, CreateGroup(h) PROVE AccountsInv'
      BY <2>6, CreateGroupKeeps
    <2>7. ASSUME NEW h \in Handlers, AddCreator(h) PROVE AccountsInv'
      BY <2>7, AddCreatorKeeps
    <2>8. ASSUME NEW h \in Handlers, AddGroup(h) PROVE AccountsInv'
      BY <2>8, AddGroupKeeps
    <2>9. ASSUME NEW h \in Handlers, Stopped(h) PROVE AccountsInv'
      BY <2>9, StoppedKeeps
    <2> QED BY <2>1, <2>2, <2>3, <2>4, <2>5, <2>6, <2>7, <2>8, <2>9 DEF AccountsNext
  <1> QED BY <1>1, Initially, PTL DEF AccountsSpec

\* Every client is told the id of its own user, and every group belongs to the
\* user who asked for it, whatever the interleaving (UserModel.cpp:21,
\* GroupModel.cpp:21).
THEOREM Owners == AccountsSpec => []OwnIds
  <1>1. AccountsInv => OwnIds
    <2> SUFFICES ASSUME AccountsInv PROVE OwnIds
      OBVIOUS
    <2>1. ASSUME NEW g \in 1..Len(allgroup)
          PROVE  \/ Creators(g) = {allgroup[g]}
                 \/ /\ Creators(g) = {}
                    /\ \/ g \in torn.groups
                       \/ \E h \in Handlers : handler[h].at = "creator" /\ handler[h].id = g
      <3>1. \A u \in Creators(g) : u = allgroup[g]
        BY DEF Creators, AccountsInv, CreatorsAsked
      <3>2. CASE \E r \in groupuser : r.gid = g /\ r.role = "creator"
        <4>1. Creators(g) # {}
          BY <3>2 DEF Creators
        <4> QED BY <3>1, <4>1
      <3>3. CASE ~ \E r \in groupuser : r.gid = g /\ r.role = "creator"
        <4>1. Creators(g) = {}
          BY <3>3 DEF Creators
        <4> QED BY <3>3, <4>1 DEF AccountsInv, Founded
      <3> QED BY <3>2, <3>3
    <2> QED BY <2>1 DEF OwnIds, AccountsInv, ToldOwn
  <1> QED BY <1>1, AccountsInductive, PTL

\* Between the two rows of a friendship, the first one is there, or has failed.
Befriending ==
    \A h \in Handlers : handler[h].at = "back" =>
        <<handler[h].who, handler[h].arg>> \in friend \/ Pair(h) \in torn.friends

FriendsInv == FriendsBothWays /\ Befriending

\* A step that is not one of addFriend, or that ends it early and marks it.
LEMMA OthersBefriend ==
    ASSUME FriendsInv, NEW h \in Handlers,
           UNCHANGED friend, torn.friends \subseteq torn'.friends,
           \A k \in Handlers \ {h} : handler'[k] = handler[k],
           handler[h].at = "back" => Pair(h) \in torn'.friends,
           handler'[h].at # "back"
    PROVE  FriendsInv'
  <1>1. FriendsBothWays'
    <2> SUFFICES ASSUME NEW p \in friend
                 PROVE  \/ <<p[2], p[1]>> \in friend
                        \/ {p[1], p[2]} \in torn'.friends
                        \/ \E k \in Handlers : handler'[k].at = "back"
                                               /\ {handler'[k].who, handler'[k].arg} = {p[1], p[2]}
      BY DEF FriendsBothWays, Pair
    <2>1. CASE <<p[2], p[1]>> \in friend \/ {p[1], p[2]} \in torn.friends
      BY <2>1
    <2>2. CASE \E k \in Handlers : handler[k].at = "back" /\ Pair(k) = {p[1], p[2]}
      <3>1. PICK k \in Handlers : handler[k].at = "back" /\ Pair(k) = {p[1], p[2]}
        BY <2>2
      <3>2. CASE k = h
        BY <3>1, <3>2
      <3>3. CASE k # h
        BY <3>1, <3>3 DEF Pair
      <3> QED BY <3>2, <3>3
    <2> QED BY <2>1, <2>2 DEF FriendsInv, FriendsBothWays
  <1>2. Befriending'
    BY DEF FriendsInv, Befriending, Pair
  <1> QED BY <1>1, <1>2 DEF FriendsInv

\* The two statements of addFriend.
LEMMA AddFriendBefriends ==
    ASSUME AccountsInv, FriendsInv, NEW h \in Handlers, AddFriend(h) \/ AddFriendBack(h)
    PROVE  FriendsInv'
  <1> DEFINE who == handler[h].who
             arg == handler[h].arg
             row == IF handler[h].at = "friend" THEN <<who, arg>> ELSE <<arg, who>>
             both == {who, arg}
  <1>1. /\ \A k \in Handlers \ {h} : handler'[k] = handler[k]
        /\ \/ /\ handler[h].at = "friend" /\ handler'[h].at = "back"
              /\ handler'[h].who = who /\ handler'[h].arg = arg
           \/ handler[h].at = "back" /\ handler'[h].at = "idle"
    <2>1. 0 \in Nat /\ "back" \in Places
      BY DEF Places
    <2> QED BY <2>1, GoesOn, IsDone DEF AddFriend, AddFriendBack, AccountsInv
  <1>2. \/ UNCHANGED torn /\ friend' = friend \cup {row}
        \/ UNCHANGED friend /\ both \in torn'.friends /\ torn.friends \subseteq torn'.friends
    <2>1. \/ UNCHANGED torn /\ friend' = friend \cup {row}
          \/ UNCHANGED friend /\ torn' = [torn EXCEPT !.friends = @ \cup {both}]
      BY DEF AddFriend, AddFriendBack, InsertFriend, Pair
    <2> QED BY <2>1 DEF AccountsInv, AccountsTypeOK
  <1>3. friend \subseteq friend' /\ torn.friends \subseteq torn'.friends
    BY <1>2
  <1>4. Befriending'
    <2> SUFFICES ASSUME NEW k \in Handlers, handler'[k].at = "back"
                 PROVE  \/ <<handler'[k].who, handler'[k].arg>> \in friend'
                        \/ {handler'[k].who, handler'[k].arg} \in torn'.friends
      BY DEF Befriending, Pair
    <2>1. CASE k = h
      BY <1>1, <1>2, <2>1
    <2>2. CASE k # h
      BY <1>1, <1>3, <2>2 DEF FriendsInv, Befriending, Pair
    <2> QED BY <2>1, <2>2
  <1>5. FriendsBothWays'
    <2> SUFFICES ASSUME NEW p \in friend'
                 PROVE  \/ <<p[2], p[1]>> \in friend'
                        \/ {p[1], p[2]} \in torn'.friends
                        \/ \E k \in Handlers : handler'[k].at = "back"
                                               /\ {handler'[k].who, handler'[k].arg} = {p[1], p[2]}
      BY DEF FriendsBothWays, Pair
    <2>1. p = <<p[1], p[2]>>
      <3>1. friend' \subseteq Uids \X Uids
        BY FriendKeeps DEF AccountsInv, AccountsTypeOK
      <3> QED BY <3>1
    <2>2. CASE {p[1], p[2]} = both /\ handler[h].at = "friend"
      BY <1>1, <2>2
    <2>3. CASE {p[1], p[2]} = both /\ handler[h].at = "back"
      <3>1. CASE both \in torn'.friends
        BY <2>3, <3>1
      <3>2. CASE both \notin torn'.friends
        <4>1. <<who, arg>> \in friend' /\ <<arg, who>> \in friend'
          BY <1>2, <1>3, <2>3, <3>2 DEF FriendsInv, Befriending, Pair
        <4>2. p = <<who, arg>> \/ p = <<arg, who>>
          BY <2>1, <2>3
        <4> QED BY <4>1, <4>2
      <3> QED BY <3>1, <3>2
    <2>4. CASE {p[1], p[2]} # both
      <3>1. p \in friend
        BY <1>2, <2>4
      <3>2. CASE <<p[2], p[1]>> \in friend \/ {p[1], p[2]} \in torn.friends
        BY <1>3, <3>2
      <3>3. CASE \E k \in Handlers : handler[k].at = "back" /\ Pair(k) = {p[1], p[2]}
        <4>1. PICK k \in Handlers : handler[k].at = "back" /\ Pair(k) = {p[1], p[2]}
          BY <3>3
        <4>2. k # h
          BY <2>4, <4>1 DEF Pair
        <4> QED BY <1>1, <4>1, <4>2 DEF Pair
      <3> QED BY <3>1, <3>2, <3>3 DEF FriendsInv, FriendsBothWays
    <2> QED BY <1>1, <2>2, <2>3, <2>4
  <1> QED BY <1>4, <1>5 DEF FriendsInv

\* Friends have each other, unless a statement failed or is still to come
\* (ChatService.cpp:317-318).
THEOREM Friendship == AccountsSpec => []FriendsBothWays
  <1>1. AccountsInit => FriendsInv
    BY DEF AccountsInit, FriendsInv, FriendsBothWays, Befriending, Idle
  <1>2. AccountsInv /\ FriendsInv /\ [AccountsNext]_accountsVars => FriendsInv'
    <2> SUFFICES ASSUME AccountsInv, FriendsInv, [AccountsNext]_accountsVars PROVE FriendsInv'
      OBVIOUS
    <2>1. CASE UNCHANGED accountsVars
      BY <2>1 DEF accountsVars, FriendsInv, FriendsBothWays, Befriending, Pair
    <2>2. ASSUME NEW h \in Handlers, AddFriend(h) \/ AddFriendBack(h) PROVE FriendsInv'
      BY <2>2, AddFriendBefriends
    <2>3. ASSUME NEW h \in Handlers,
                 \/ Request(h) \/ InsertUser(h) \/ InsertUserFails(h) \/ Refused(h) \/ Answered(h)
                 \/ CreateGroup(h) \/ CreateGroupFails(h) \/ AddCreator(h) \/ AddGroup(h)
          PROVE  FriendsInv'
      <3>1. /\ \A k \in Handlers \ {h} : handler'[k] = handler[k]
            /\ handler'[h].at # "back"
        BY <2>3 DEF AccountsInv, AccountsTypeOK, Request, Asks, InsertUser, InsertUserFails, Refused,
                    Answered, CreateGroup, CreateGroupFails, AddCreator, AddGroup, Goes, Done, Idle
      <3>2. handler[h].at # "back"
        BY <2>3 DEF Request, Asks, Idle, InsertUser, InsertUserFails, Refused, Answered,
                    CreateGroup, CreateGroupFails, AddCreator, AddGroup
      <3>3. UNCHANGED friend /\ torn.friends \subseteq torn'.friends
        <4>1. CASE AddCreator(h)
          BY <4>1 DEF AddCreator, AccountsInv, AccountsTypeOK
        <4> QED BY <2>3, <4>1 DEF Request, Asks, InsertUser, InsertUserFails, Refused, Answered,
                                  CreateGroup, CreateGroupFails, AddGroup
      <3> QED BY <3>1, <3>2, <3>3, OthersBefriend
    <2>4. ASSUME NEW h \in Handlers, Stopped(h) PROVE FriendsInv'
      <3>1. UNCHANGED friend /\ torn.friends \subseteq torn'.friends
        BY <2>4 DEF Stopped
      <3>2. handler[h].at = "back" => Pair(h) \in torn'.friends
        BY <2>4 DEF Stopped
      <3>3. handler'[h].at = "idle" /\ \A k \in Handlers \ {h} : handler'[k] = handler[k]
        BY <2>4, IsDone DEF Stopped, AccountsInv
      <3> QED BY <3>1, <3>2, <3>3, OthersBefriend
    <2> QED BY <2>1, <2>2, <2>3, <2>4 DEF AccountsNext
  <1>3. FriendsInv => FriendsBothWays
    BY DEF FriendsInv
  <1> QED BY <1>1, <1>2, <1>3, AccountsInductive, PTL DEF AccountsSpec


-----------------------------------------------------------------------------
(***************************************************************************)
(* ChatClient, for any users, sizes of answers, size of the buffer and     *)
(* bounds: the menu that is shown agrees with the session the server has,  *)
(* and the two threads of the client take only their own messages until    *)
(* the first logout.                                                       *)
(***************************************************************************)

Expects(r) == r.type \in {"login", "reg"}
Answer(p) == p.type # "chat"
LogoutSent == \E i \in 1..Len(outbox) : outbox[i].type = "logout"

\* A chat message is one piece; of two pieces of answers that are on their way,
\* none ends and none begins an answer between them: they are of the same one.
Framed ==
    /\ \A i \in 1..Len(inbox) :
        /\ inbox[i].type = "login" => inbox[i].user \in Users
        /\ inbox[i].type = "chat" => inbox[i].first /\ inbox[i].last
    /\ \A i, j \in 1..Len(inbox) :
        i < j /\ Answer(inbox[i]) /\ Answer(inbox[j]) => ~inbox[i].last /\ ~inbox[j].first

\* An answer is on its way only to a thread that waits for it.
Awaited ==
    \A i \in 1..Len(inbox) :
        Answer(inbox[i]) => Waiting /\ (inbox[i].type = "login" <=> main = "login")

\* A request that asks for an answer is the last one, and is not answered yet.
LastRequest ==
    Running => \A i \in 1..Len(outbox) : Expects(outbox[i]) =>
        /\ i = Len(outbox) /\ Waiting /\ (outbox[i].type = "login" <=> main = "login")
        /\ outbox[i].type = "login" => outbox[i].user \in Users
        /\ \A k \in 1..Len(inbox) : ~Answer(inbox[k])

\* What the server has for this connection, in each place of the main thread.
ServerKnows ==
    server = "up" =>
        /\ main = "chat" =>
            /\ session = user /\ lists = <<user>>
            /\ \A i \in 1..Len(outbox) : outbox[i].type = "other"
        /\ main = "menu" => lists = <<>> /\ (session = Nobody \/ LogoutSent)
        /\ Waiting =>
            /\ lists = <<>>
            /\ outbox # <<>> => Expects(outbox[Len(outbox)]) /\ (session = Nobody \/ LogoutSent)
            /\ \A i \in 1..Len(inbox) : Answer(inbox[i]) =>
                session = IF inbox[i].type = "login" /\ inbox[i].err = 0
                          THEN inbox[i].user ELSE Nobody

\* Until the first login has succeeded only answers reach the client first.
FirstLogin ==
    logouts = 0 =>
        /\ "raced" \notin odd
        /\ main \in {"menu", "login", "register"} =>
            /\ server = "up" /\ ~receiver /\ Len(outbox) <= 1
            /\ inbox = <<>> => session = Nobody
            /\ inbox # <<>> => Answer(inbox[1])
            /\ session = Nobody => \A i \in 1..Len(inbox) : Answer(inbox[i])
            /\ main = "menu" => outbox = <<>>

ClientInv ==
    /\ ClientTypeOK /\ logouts <= asked
    /\ Framed /\ Awaited /\ LastRequest /\ ServerKnows /\ FirstLogin

-----------------------------------------------------------------------------

\* What is left of a sequence.
LEMMA Rest ==
    ASSUME NEW S, NEW s \in Seq(S), NEW n \in 1..Len(s)
    PROVE  /\ SubSeq(s, n + 1, Len(s)) \in Seq(S)
           /\ Len(SubSeq(s, n + 1, Len(s))) = Len(s) - n
           /\ \A i \in 1..(Len(s) - n) : SubSeq(s, n + 1, Len(s))[i] = s[n + i]
  OBVIOUS

\* A recv that parses has taken one message; if that was an answer, no other
\* piece of an answer is left.
LEMMA Taken ==
    ASSUME ClientTypeOK, Framed, NEW n \in 1..BufPieces, n <= Len(inbox),
           Parses(SubSeq(inbox, 1, n)), inbox' = SubSeq(inbox, n + 1, Len(inbox))
    PROVE  /\ inbox' \in Seq(Pieces) /\ Framed'
           /\ \A i \in 1..Len(inbox') : \E k \in 1..Len(inbox) : inbox'[i] = inbox[k]
           /\ SubSeq(inbox, 1, n)[1] = inbox[1] /\ 1 \in 1..Len(inbox)
           /\ Answer(inbox[1]) => \A i \in 1..Len(inbox') : ~Answer(inbox'[i])
  <1>1. inbox \in Seq(Pieces) /\ n \in 1..Len(inbox)
    BY ChatClientAssumption DEF ClientTypeOK
  <1>2. /\ inbox' \in Seq(Pieces)
        /\ Len(inbox') = Len(inbox) - n
        /\ \A i \in 1..(Len(inbox) - n) : inbox'[i] = inbox[n + i]
    BY <1>1, Rest
  <1>3. \A i \in 1..Len(inbox') : n + i \in 1..Len(inbox) /\ inbox'[i] = inbox[n + i]
    BY <1>1, <1>2
  <1>4. Framed'
    <2>1. ASSUME NEW i \in 1..Len(inbox')
          PROVE  /\ inbox'[i].type = "login" => inbox'[i].user \in Users
                 /\ inbox'[i].type = "chat" => inbox'[i].first /\ inbox'[i].last
      BY <1>3 DEF Framed
    <2>2. ASSUME NEW i \in 1..Len(inbox'), NEW j \in 1..Len(inbox'), i < j,
                 inbox'[i].type # "chat", inbox'[j].type # "chat"
          PROVE  ~inbox'[i].last /\ ~inbox'[j].first
      <3>1. n + i < n + j
        BY <1>1, <1>2, <2>2
      <3> QED BY <1>3, <2>2, <3>1 DEF Framed, Answer
    <2> QED BY <2>1, <2>2 DEF Framed, Answer
  <1>5. /\ Len(SubSeq(inbox, 1, n)) = n
        /\ \A i \in 1..n : SubSeq(inbox, 1, n)[i] = inbox[i]
    BY <1>1
  <1>6. inbox[n].last /\ \A i \in 2..n : ~inbox[i].first
    BY <1>1, <1>5 DEF Parses
  <1>7. ASSUME Answer(inbox[1]), NEW i \in 1..Len(inbox') PROVE ~Answer(inbox'[i])
    <2>1. Answer(inbox[n])
      <3>1. CASE n = 1
        BY <3>1, <1>7
      <3>2. CASE n # 1
        <4>1. ~inbox[n].first
          BY <3>2, <1>1, <1>6
        <4>2. inbox[n].type = "chat" => inbox[n].first
          BY <1>1 DEF Framed
        <4> QED BY <4>1, <4>2 DEF Answer
      <3> QED BY <3>1, <3>2
    <2>2. n < n + i /\ n + i \in 1..Len(inbox)
      BY <1>1, <1>2, <1>3
    <2> QED BY <1>1, <1>3, <1>6, <2>1, <2>2 DEF Framed
  <1>8. \A i \in 1..Len(inbox') : \E k \in 1..Len(inbox) : inbox'[i] = inbox[k]
    BY <1>3
  <1>9. SubSeq(inbox, 1, n)[1] = inbox[1] /\ 1 \in 1..Len(inbox)
    BY <1>1, <1>5
  <1> QED BY <1>2, <1>4, <1>7, <1>8, <1>9

\* The pieces of a message.
IsMessage(p, type, u, err, size) ==
    /\ p \in Seq(Pieces) /\ Len(p) = size
    /\ \A i \in 1..size :
        /\ p[i].type = type /\ p[i].user = u /\ p[i].err = err
        /\ i # 1 => ~p[i].first
        /\ i # size => ~p[i].last

LEMMA MessagePieces ==
    ASSUME NEW type \in {"login", "reg", "chat"}, NEW u \in Users \cup {Nobody},
           NEW err \in 0..2, NEW size \in Nat \ {0},
           NEW p, p = Message(type, u, err, size)
    PROVE  IsMessage(p, type, u, err, size)
  <1>1. ASSUME NEW i \in 1..size
        PROVE  [type |-> type, user |-> u, err |-> err, first |-> i = 1, last |-> i = size] \in Pieces
    <2> DEFINE first == i = 1
               last == i = size
    <2>1. first \in BOOLEAN /\ last \in BOOLEAN
      OBVIOUS
    <2> HIDE DEF first, last
    <2>2. [type |-> type, user |-> u, err |-> err, first |-> first, last |-> last] \in Pieces
      BY <2>1 DEF Pieces
    <2> QED BY <2>2 DEF first, last
  <1>2. p \in Seq(Pieces) /\ Len(p) = size
    <2> DEFINE piece(i) == [type |-> type, user |-> u, err |-> err,
                            first |-> i = 1, last |-> i = size]
    <2>1. p = [i \in 1..size |-> piece(i)]
      BY DEF Message
    <2>2. \A i \in 1..size : piece(i) \in Pieces
      BY <1>1
    <2> HIDE DEF piece
    <2> QED BY <2>1, <2>2
  <1>3. ASSUME NEW i \in 1..size
        PROVE  /\ p[i].type = type /\ p[i].user = u /\ p[i].err = err
               /\ i # 1 => ~p[i].first
               /\ i # size => ~p[i].last
    <2> DEFINE first == i = 1
               last == i = size
    <2>1. p[i] = [type |-> type, user |-> u, err |-> err, first |-> first, last |-> last]
      BY DEF Message
    <2> HIDE DEF first, last
    <2>2. p[i].type = type /\ p[i].user = u /\ p[i].err = err
      BY <2>1
    <2>3. p[i].first = first
      BY <2>1
    <2>4. p[i].last = last
      BY <2>1
    <2> QED BY <2>2, <2>3, <2>4 DEF first, last
  <1> QED BY <1>2, <1>3 DEF IsMessage

\* A message of the server lies behind what was there.
LEMMA Pushed ==
    ASSUME ClientTypeOK, NEW p \in Seq(Pieces), Running, Pushes(p)
    PROVE  /\ inbox' \in Seq(Pieces)
           /\ Len(inbox') = Len(inbox) + Len(p)
           /\ \A i \in 1..Len(inbox) : inbox'[i] = inbox[i]
           /\ \A i \in 1..Len(p) : inbox'[Len(inbox) + i] = p[i]
           /\ \A i \in 1..Len(inbox') :
                i \in 1..Len(inbox) \/ (i - Len(inbox) \in 1..Len(p)
                                        /\ inbox'[i] = p[i - Len(inbox)])
  <1>1. inbox' = inbox \o p /\ inbox \in Seq(Pieces)
    BY DEF Pushes, ClientTypeOK
  <1> QED BY <1>1

-----------------------------------------------------------------------------
(***************************************************************************)
(* The main thread.                                                        *)
(***************************************************************************)

\* In the first menu no answer is on its way.
LEMMA MenuIsQuiet ==
    ASSUME ClientInv, ~Waiting
    PROVE  /\ \A i \in 1..Len(inbox) : ~Answer(inbox[i])
           /\ main = "menu" /\ logouts = 0 => inbox = <<>> /\ outbox = <<>> /\ session = Nobody
  <1>1. \A i \in 1..Len(inbox) : ~Answer(inbox[i])
    BY DEF ClientInv, Awaited
  <1>2. ASSUME main = "menu", logouts = 0
        PROVE  inbox = <<>> /\ outbox = <<>> /\ session = Nobody
    <2>1. inbox # <<>> => 1 \in 1..Len(inbox)
      BY DEF ClientInv, ClientTypeOK
    <2>2. inbox = <<>>
      BY <1>1, <1>2, <2>1 DEF ClientInv, FirstLogin
    <2> QED BY <1>2, <2>2 DEF ClientInv, FirstLogin
  <1> QED BY <1>1, <1>2

\* What a request does to what is on its way to the server.
LEMMA Sent ==
    ASSUME ClientTypeOK, NEW r \in RequestMessages, Send(r)
    PROVE  /\ asked' \in 0..MaxAsked /\ asked' = asked + 1
           /\ outbox' \in Seq(RequestMessages)
           /\ server # "up" => outbox' = outbox
           /\ server = "up" =>
                /\ outbox' # <<>> /\ Len(outbox') = Len(outbox) + 1
                /\ outbox'[Len(outbox')] = r
                /\ \A i \in 1..Len(outbox) : i \in 1..Len(outbox') /\ outbox'[i] = outbox[i]
                /\ \A i \in 1..Len(outbox') : i \in 1..Len(outbox) \/ i = Len(outbox')
  <1>1. outbox \in Seq(RequestMessages) /\ asked \in Nat /\ MaxAsked \in Nat
    BY ChatClientAssumption DEF ClientTypeOK
  <1>2. /\ asked' \in 0..MaxAsked /\ asked' = asked + 1
        /\ outbox' = IF server = "up" THEN Append(outbox, r) ELSE outbox
    BY <1>1 DEF Send
  <1>3. /\ Append(outbox, r) \in Seq(RequestMessages)
        /\ Len(Append(outbox, r)) = Len(outbox) + 1
        /\ Append(outbox, r)[Len(outbox) + 1] = r
        /\ \A i \in 1..Len(outbox) : Append(outbox, r)[i] = outbox[i]
    <2>1. /\ Append(outbox, r) \in Seq(RequestMessages)
          /\ Len(Append(outbox, r)) = Len(outbox) + 1
      BY <1>1
    <2>2. Append(outbox, r)[Len(outbox) + 1] = r
      BY <1>1
    <2>3. \A i \in 1..Len(outbox) : Append(outbox, r)[i] = outbox[i]
      BY <1>1
    <2> QED BY <2>1, <2>2, <2>3
  <1>4. Append(outbox, r) # <<>>
    <2>1. Len(<<>>) = 0 /\ Len(outbox) + 1 # 0
      BY <1>1
    <2> QED BY <1>3, <2>1
  <1>5. Len(outbox) \in Nat
    BY <1>1
  <1> QED BY <1>2, <1>3, <1>4, <1>5

\* A login or a registration.
LEMMA AskStep ==
    ASSUME ClientInv, main = "menu", NEW r \in RequestMessages, Expects(r), Send(r),
           r.type = "login" => r.user \in Users,
           main' \in {"login", "register"}, r.type = "login" <=> main' = "login",
           UNCHANGED <<user, lists, receiver, inbox, server, session, pushed, logouts, odd>>
    PROVE  ClientInv'
  <1>1. ClientTypeOK /\ ~Waiting /\ Running
    BY DEF ClientInv, Waiting, Running
  <1>2. /\ \A i \in 1..Len(inbox) : ~Answer(inbox[i])
        /\ logouts = 0 => inbox = <<>> /\ outbox = <<>> /\ session = Nobody
    BY <1>1, MenuIsQuiet
  <1>3. /\ asked' \in 0..MaxAsked /\ asked' = asked + 1
        /\ outbox' \in Seq(RequestMessages)
        /\ server # "up" => outbox' = outbox
        /\ server = "up" =>
            /\ outbox' # <<>> /\ Len(outbox') = Len(outbox) + 1
            /\ outbox'[Len(outbox')] = r
            /\ \A i \in 1..Len(outbox) : i \in 1..Len(outbox') /\ outbox'[i] = outbox[i]
            /\ \A i \in 1..Len(outbox') : i \in 1..Len(outbox) \/ i = Len(outbox')
    BY <1>1, Sent
  <1>4. \A i \in 1..Len(outbox) : ~Expects(outbox[i])
    BY <1>1 DEF ClientInv, LastRequest
  <1>5. ClientTypeOK'
    BY <1>1, <1>3 DEF ClientTypeOK
  <1>6. Framed' /\ Awaited'
    BY <1>2 DEF ClientInv, Framed, Awaited, Answer
  <1>7. LastRequest'
    <2>1. ASSUME NEW i \in 1..Len(outbox'), Expects(outbox'[i])
          PROVE  /\ i = Len(outbox') /\ Waiting'
                 /\ (outbox'[i].type = "login" <=> main' = "login")
                 /\ outbox'[i].type = "login" => outbox'[i].user \in Users
                 /\ \A k \in 1..Len(inbox') : ~Answer(inbox'[k])
      <3>1. server = "up"
        BY <1>3, <1>4, <2>1
      <3>2. i = Len(outbox')
        BY <1>3, <1>4, <2>1, <3>1
      <3> QED BY <1>2, <1>3, <3>1, <3>2 DEF Waiting
    <2> QED BY <2>1 DEF LastRequest, Expects, Answer
  <1>8. ServerKnows'
    <2> SUFFICES ASSUME server = "up" PROVE ServerKnows'
      BY DEF ServerKnows
    <2>1. lists = <<>> /\ (session = Nobody \/ LogoutSent)
      BY DEF ClientInv, ServerKnows
    <2>2. session' = Nobody \/ LogoutSent'
      BY <1>3, <2>1 DEF LogoutSent
    <2> QED BY <1>2, <1>3, <2>1, <2>2 DEF ServerKnows, Expects, Answer, Waiting, LogoutSent
  <1>9. FirstLogin'
    BY <1>2, <1>3 DEF ClientInv, FirstLogin
  <1>10. logouts' <= asked'
    BY <1>1, <1>3 DEF ClientInv, ClientTypeOK
  <1> QED BY <1>5, <1>6, <1>7, <1>8, <1>9, <1>10 DEF ClientInv

\* The process of the client ends.
LEMMA EndStep ==
    ASSUME ClientInv, main' \in {"quit", "crashed"}, inbox' = <<>>,
           lists' \in Seq(Users), odd' \subseteq {"misframed", "raced", "merged"},
           logouts = 0 => "raced" \notin odd',
           UNCHANGED <<user, receiver, outbox, server, session, asked, pushed, logouts>>
    PROVE  ClientInv'
  <1>1. ClientTypeOK'
    BY DEF ClientInv, ClientTypeOK
  <1>2. Framed' /\ Awaited' /\ LastRequest' /\ ServerKnows' /\ FirstLogin'
    BY DEF Framed, Awaited, LastRequest, ServerKnows, FirstLogin, Running, Waiting
  <1> QED BY <1>1, <1>2 DEF ClientInv

\* An exception, which is no race before the first logout.
LEMMA CrashStep ==
    ASSUME ClientInv, NEW why \in SUBSET {"misframed", "raced"}, Crash(why),
           logouts = 0 => "raced" \notin why,
           UNCHANGED <<outbox, server, session, asked, pushed, logouts>>
    PROVE  ClientInv'
  <1>1. logouts = 0 => "raced" \notin odd
    BY DEF ClientInv, FirstLogin
  <1>2. /\ main' \in {"quit", "crashed"} /\ inbox' = <<>>
        /\ lists' \in Seq(Users) /\ odd' \subseteq {"misframed", "raced", "merged"}
        /\ logouts = 0 => "raced" \notin odd'
        /\ UNCHANGED <<user, receiver>>
    BY <1>1 DEF Crash, ClientInv, ClientTypeOK
  <1> QED BY <1>2, EndStep

\* What the main thread takes while it waits.
LEMMA MainRecvStep ==
    ASSUME ClientInv, NEW n \in 1..BufPieces, MainRecv(n)
    PROVE  ClientInv'
  <1> DEFINE p == SubSeq(inbox, 1, n)
  <1>1. Waiting /\ n <= Len(inbox) /\ UNCHANGED <<outbox, server, session, asked, pushed, logouts>>
    BY DEF MainRecv
  <1>2. CASE ~Parses(p)
    <2>1. Crash({"misframed"})
      BY <1>2 DEF MainRecv
    <2> QED BY <1>1, <2>1, CrashStep
  <1>3. CASE Parses(p) /\ (p[1].type = "chat" \/ (main = "login" /\ p[1].type # "login"))
    <2>1. Crash({"raced"})
      BY <1>3 DEF MainRecv
    <2>2. p[1] = inbox[1] /\ 1 \in 1..Len(inbox)
      BY <1>1, ChatClientAssumption DEF ClientInv, ClientTypeOK
    <2>3. logouts # 0
      <3>1. SUFFICES ASSUME logouts = 0 PROVE FALSE
        OBVIOUS
      <3>2. inbox # <<>> /\ main \in {"menu", "login", "register"}
        BY <1>1, <2>2 DEF Waiting
      <3>3. Answer(inbox[1])
        BY <3>1, <3>2 DEF ClientInv, FirstLogin
      <3> QED BY <1>3, <2>2, <3>3 DEF ClientInv, Awaited, Answer
    <2> QED BY <1>1, <2>1, <2>3, CrashStep
  <1>4. CASE Parses(p) /\ ~(p[1].type = "chat" \/ (main = "login" /\ p[1].type # "login"))
    <2>1. /\ inbox' = SubSeq(inbox, n + 1, Len(inbox))
          /\ odd' = odd
          /\ \/ /\ main = "login" /\ p[1].err = 0
                /\ main' = "chat" /\ user' = p[1].user
                /\ lists' = Append(lists, p[1].user) /\ receiver' = TRUE
             \/ /\ ~(main = "login" /\ p[1].err = 0)
                /\ main' = "menu" /\ UNCHANGED <<user, lists, receiver>>
      BY <1>4 DEF MainRecv
    <2>2. /\ inbox' \in Seq(Pieces) /\ Framed'
          /\ p[1] = inbox[1] /\ 1 \in 1..Len(inbox)
          /\ Answer(inbox[1]) => \A i \in 1..Len(inbox') : ~Answer(inbox'[i])
          /\ \A i \in 1..Len(inbox') : \E k \in 1..Len(inbox) : inbox'[i] = inbox[k]
      BY <1>1, <1>4, <2>1, Taken DEF ClientInv
    <2>3. Answer(inbox[1]) /\ \A i \in 1..Len(inbox') : ~Answer(inbox'[i])
      BY <1>4, <2>2 DEF Answer
    <2>4. inbox[1].user \in Users \cup {Nobody}
      <3>1. inbox[1] \in Pieces
        BY <2>2 DEF ClientInv, ClientTypeOK
      <3> QED BY <3>1 DEF Pieces
    <2>5. main = "login" => inbox[1].type = "login" /\ inbox[1].user \in Users
      BY <1>4, <2>2 DEF ClientInv, Framed
    <2>6. main = "register" => inbox[1].type # "login"
      BY <2>2, <2>3 DEF ClientInv, Awaited
    <2>7. ClientTypeOK'
      <3>1. ClientTypeOK
        BY DEF ClientInv
      <3>2. main' \in {"menu", "chat"} /\ user' \in Users \cup {Nobody} /\ receiver' \in BOOLEAN
        BY <2>1, <2>2, <2>4, <3>1 DEF ClientTypeOK
      <3>3. lists' \in Seq(Users)
        <4>1. lists \in Seq(Users)
          BY <3>1 DEF ClientTypeOK
        <4>2. lists' = lists \/ (inbox[1].user \in Users /\ lists' = Append(lists, inbox[1].user))
          BY <2>1, <2>2, <2>5
        <4> QED BY <4>1, <4>2
      <3>4. /\ outbox' \in Seq(RequestMessages) /\ server' \in {"up", "aborted"}
            /\ session' \in Users \cup {Nobody}
            /\ asked' \in 0..MaxAsked /\ pushed' \in 0..MaxPushed /\ logouts' \in 0..MaxAsked
            /\ odd' \subseteq {"misframed", "raced", "merged"}
        BY <1>1, <2>1, <3>1 DEF ClientTypeOK
      <3> QED BY <2>2, <3>2, <3>3, <3>4 DEF ClientTypeOK
    <2>8. Awaited'
      BY <2>3 DEF Awaited
    <2>9. \A i \in 1..Len(outbox) : ~Expects(outbox[i])
      BY <1>1, <2>2, <2>3 DEF ClientInv, LastRequest, Running, Waiting
    <2>10. LastRequest'
      BY <1>1, <2>9 DEF LastRequest, Expects
    <2>11. server = "up" =>
              /\ outbox = <<>> /\ lists = <<>>
              /\ session = IF inbox[1].type = "login" /\ inbox[1].err = 0
                           THEN inbox[1].user ELSE Nobody
      <3>1. outbox # <<>> => Len(outbox) \in 1..Len(outbox)
        BY DEF ClientInv, ClientTypeOK
      <3> QED BY <1>1, <2>2, <2>3, <2>9, <3>1 DEF ClientInv, ServerKnows
    <2>12. ServerKnows'
      <3>1. ASSUME server = "up", main' = "chat"
            PROVE session' = user' /\ lists' = <<user'>> /\ outbox' = <<>>
        BY <3>1, <1>1, <2>1, <2>2, <2>5, <2>11
      <3>2. ASSUME server = "up", main' = "menu"
            PROVE lists' = <<>> /\ session' = Nobody
        BY <3>2, <1>1, <2>1, <2>2, <2>6, <2>11 DEF Waiting
      <3> QED BY <1>1, <2>1, <3>1, <3>2 DEF ServerKnows, Waiting
    <2>13. FirstLogin'
      <3>1. ASSUME logouts = 0, main' = "menu"
            PROVE  /\ server = "up" /\ ~receiver /\ outbox = <<>> /\ session = Nobody /\ inbox' = <<>>
        <4>1. server = "up" /\ ~receiver
          BY <1>1, <3>1 DEF ClientInv, FirstLogin, Waiting
        <4>2. session = Nobody
          BY <1>1, <2>1, <2>2, <2>6, <2>11, <3>1, <4>1 DEF Waiting
        <4>3. \A i \in 1..Len(inbox) : Answer(inbox[i])
          BY <1>1, <3>1, <4>2 DEF ClientInv, FirstLogin, Waiting
        <4>4. inbox' # <<>> => 1 \in 1..Len(inbox')
          BY <2>2
        <4>5. inbox' = <<>>
          BY <2>2, <2>3, <4>3, <4>4
        <4> QED BY <2>11, <4>1, <4>2, <4>5
      <3>2. logouts = 0 => "raced" \notin odd
        BY DEF ClientInv, FirstLogin
      <3>3. logouts' = logouts /\ odd' = odd /\ server' = server /\ session' = session
            /\ outbox' = outbox /\ main' \in {"chat", "menu"}
        BY <1>1, <2>1
      <3>4. main' = "menu" => receiver' = receiver
        BY <2>1
      <3>5. Len(<<>>) = 0
        OBVIOUS
      <3> QED BY <2>2, <3>1, <3>2, <3>3, <3>4, <3>5 DEF FirstLogin
    <2>14. logouts' <= asked'
      BY <1>1 DEF ClientInv
    <2> QED BY <2>2, <2>7, <2>8, <2>10, <2>12, <2>13, <2>14 DEF ClientInv
  <1> QED BY <1>2, <1>3, <1>4

\* Commands of a user who is logged in.
LEMMA CommandStep ==
    ASSUME ClientInv, Command
    PROVE  ClientInv'
  <1> DEFINE r == [type |-> "other", user |-> user]
  <1>1. ClientTypeOK /\ Send(r) /\ main = "chat" /\ Running
    BY DEF ClientInv, Command, Running
  <1>2. UNCHANGED <<main, user, lists, receiver, inbox, server, session, pushed, logouts, odd>>
    BY DEF Command
  <1>3. r \in RequestMessages
    BY <1>1 DEF ClientTypeOK, RequestMessages
  <1>4. /\ asked' \in 0..MaxAsked /\ asked' = asked + 1
        /\ outbox' \in Seq(RequestMessages)
        /\ server # "up" => outbox' = outbox
        /\ server = "up" =>
            /\ outbox'[Len(outbox')] = r
            /\ \A i \in 1..Len(outbox) : i \in 1..Len(outbox') /\ outbox'[i] = outbox[i]
            /\ \A i \in 1..Len(outbox') : i \in 1..Len(outbox) \/ i = Len(outbox')
    <2> HIDE DEF r
    <2> QED BY <1>1, <1>3, Sent
  <1>5. ClientTypeOK' /\ logouts' <= asked'
    BY <1>1, <1>2, <1>4 DEF ClientTypeOK, ClientInv
  <1>6. Framed' /\ Awaited' /\ FirstLogin'
    BY <1>1, <1>2 DEF ClientInv, Framed, Awaited, FirstLogin, Answer, Waiting
  <1>7. \A i \in 1..Len(outbox) : ~Expects(outbox[i])
    BY <1>1 DEF ClientInv, LastRequest, Waiting
  <1>8. \A i \in 1..Len(outbox') : ~Expects(outbox'[i])
    BY <1>4, <1>7 DEF Expects
  <1>9. LastRequest'
    BY <1>8 DEF LastRequest, Expects
  <1>10. ServerKnows'
    BY <1>1, <1>2, <1>4 DEF ClientInv, ServerKnows, Waiting
  <1> QED BY <1>5, <1>6, <1>9, <1>10 DEF ClientInv

\* A logout.
LEMMA LoginoutStep ==
    ASSUME ClientInv, Loginout
    PROVE  ClientInv'
  <1> DEFINE r == [type |-> "logout", user |-> user]
  <1>1. ClientTypeOK /\ Send(r) /\ main = "chat" /\ Running
    BY DEF ClientInv, Loginout, Running
  <1>2. /\ lists' = <<>> /\ main' = "menu" /\ logouts' = logouts + 1
        /\ UNCHANGED <<user, receiver, inbox, server, session, pushed, odd>>
    BY DEF Loginout, ClearedLists
  <1>3. r \in RequestMessages
    BY <1>1 DEF ClientTypeOK, RequestMessages
  <1>4. /\ asked' \in 0..MaxAsked /\ asked' = asked + 1
        /\ outbox' \in Seq(RequestMessages)
        /\ server # "up" => outbox' = outbox
        /\ server = "up" =>
            /\ outbox' # <<>> /\ Len(outbox') = Len(outbox) + 1
            /\ outbox'[Len(outbox')] = r
            /\ \A i \in 1..Len(outbox) : i \in 1..Len(outbox') /\ outbox'[i] = outbox[i]
            /\ \A i \in 1..Len(outbox') : i \in 1..Len(outbox) \/ i = Len(outbox')
    <2> HIDE DEF r
    <2> QED BY <1>1, <1>3, Sent
  <1>5. logouts' <= asked' /\ logouts' \in 0..MaxAsked /\ logouts' # 0
    BY <1>1, <1>2, <1>4, ChatClientAssumption DEF ClientTypeOK, ClientInv
  <1>6. ClientTypeOK'
    <2>1. /\ main' \in {"menu", "login", "register", "chat", "quit", "crashed"}
          /\ user' \in Users \cup {Nobody} /\ lists' \in Seq(Users)
          /\ inbox' \in Seq(Pieces) /\ server' \in {"up", "aborted"}
          /\ session' \in Users \cup {Nobody} /\ pushed' \in 0..MaxPushed
          /\ odd' \subseteq {"misframed", "raced", "merged"}
      BY <1>1, <1>2 DEF ClientTypeOK
    <2>2. receiver' \in BOOLEAN
      BY <1>1, <1>2 DEF ClientTypeOK
    <2> QED BY <1>4, <1>5, <2>1, <2>2 DEF ClientTypeOK
  <1>7. \A i \in 1..Len(inbox) : ~Answer(inbox[i])
    BY <1>1, MenuIsQuiet DEF Waiting
  <1>8. Framed' /\ Awaited'
    BY <1>2, <1>7 DEF ClientInv, Framed, Awaited, Answer
  <1>9. FirstLogin'
    BY <1>5 DEF FirstLogin
  <1>10. \A i \in 1..Len(outbox) : ~Expects(outbox[i])
    BY <1>1 DEF ClientInv, LastRequest, Waiting
  <1>11. \A i \in 1..Len(outbox') : ~Expects(outbox'[i])
    BY <1>4, <1>10 DEF Expects
  <1>12. LastRequest'
    BY <1>11 DEF LastRequest, Expects
  <1>13. ServerKnows'
    <2>1. server = "up" => LogoutSent'
      <3>1. server = "up" => Len(outbox') \in 1..Len(outbox')
        BY <1>1, <1>4 DEF ClientTypeOK
      <3> QED BY <1>4, <3>1 DEF LogoutSent
    <2> QED BY <1>2, <2>1 DEF ServerKnows, Waiting, LogoutSent
  <1> QED BY <1>5, <1>6, <1>8, <1>9, <1>12, <1>13 DEF ClientInv

-----------------------------------------------------------------------------
(***************************************************************************)
(* The receiver thread.                                                    *)
(***************************************************************************)

\* It takes what arrives: an answer only after the first logout.
LEMMA ThreadRecvStep ==
    ASSUME ClientInv, NEW n \in 1..BufPieces, ThreadRecv(n)
    PROVE  ClientInv'
  <1> DEFINE p == SubSeq(inbox, 1, n)
  <1>1. /\ Running /\ receiver = TRUE /\ n <= Len(inbox)
        /\ UNCHANGED <<outbox, server, session, asked, pushed, logouts>>
    BY DEF ThreadRecv, ClientInv, ClientTypeOK
  <1>2. CASE ~Parses(p)
    <2>1. Crash({"misframed"})
      BY <1>2 DEF ThreadRecv
    <2> QED BY <1>1, <2>1, CrashStep
  <1>3. CASE Parses(p)
    <2>1. /\ inbox' = SubSeq(inbox, n + 1, Len(inbox))
          /\ odd' = IF p[1].type = "chat" THEN odd ELSE odd \cup {"raced"}
          /\ UNCHANGED <<main, user, lists, receiver>>
      BY <1>3 DEF ThreadRecv
    <2>2. /\ inbox' \in Seq(Pieces) /\ Framed'
          /\ p[1] = inbox[1] /\ 1 \in 1..Len(inbox)
          /\ \A i \in 1..Len(inbox') : \E k \in 1..Len(inbox) : inbox'[i] = inbox[k]
      BY <1>1, <1>3, <2>1, Taken DEF ClientInv
    <2>3. ClientTypeOK'
      <3>1. odd' \subseteq {"misframed", "raced", "merged"}
        BY <2>1 DEF ClientInv, ClientTypeOK
      <3> HIDE DEF p
      <3> QED BY <1>1, <2>1, <2>2, <3>1 DEF ClientInv, ClientTypeOK
    <2>4. Awaited' /\ LastRequest' /\ logouts' <= asked'
      <3> HIDE DEF p
      <3>1. Awaited'
        BY <2>1, <2>2 DEF ClientInv, Awaited, Answer, Waiting
      <3>2. LastRequest'
        <4>1. (\A k \in 1..Len(inbox) : ~Answer(inbox[k]))
              => \A i \in 1..Len(inbox') : ~Answer(inbox'[i])
          BY <2>2 DEF Answer
        <4>2. LastRequest /\ UNCHANGED <<main, outbox>>
          BY <1>1, <2>1 DEF ClientInv
        <4> QED BY <4>1, <4>2 DEF LastRequest, Expects, Answer, Waiting, Running
      <3>3. logouts' <= asked'
        BY <1>1 DEF ClientInv
      <3> QED BY <3>1, <3>2, <3>3
    <2>5. ServerKnows'
      BY <1>1, <2>1, <2>2 DEF ClientInv, ServerKnows, Answer, Expects, Waiting, LogoutSent
    <2>6. FirstLogin'
      <3>1. ASSUME logouts = 0
            PROVE  main \notin {"menu", "login", "register"} /\ odd' = odd /\ "raced" \notin odd
        <4>1. main \notin {"menu", "login", "register"} /\ "raced" \notin odd
          BY <1>1, <3>1 DEF ClientInv, FirstLogin
        <4>2. ~Answer(inbox[1])
          BY <2>2, <4>1 DEF ClientInv, Awaited, Waiting
        <4> QED BY <2>1, <2>2, <4>1, <4>2 DEF Answer
      <3> QED BY <1>1, <2>1, <3>1 DEF FirstLogin
    <2> QED BY <2>2, <2>3, <2>4, <2>5, <2>6 DEF ClientInv
  <1> QED BY <1>2, <1>3

-----------------------------------------------------------------------------
(***************************************************************************)
(* The server.                                                             *)
(***************************************************************************)

\* What is left after the oldest request.
LEMMA Tails ==
    ASSUME ClientTypeOK, outbox # <<>>, outbox' = Tail(outbox)
    PROVE  /\ Head(outbox) = outbox[1] /\ Head(outbox) \in RequestMessages
           /\ 1 \in 1..Len(outbox) /\ Len(outbox) \in 1..Len(outbox) /\ Len(outbox) \in Nat
           /\ outbox' \in Seq(RequestMessages)
           /\ Len(outbox') = Len(outbox) - 1 /\ Len(outbox') \in Nat
           /\ Len(outbox) = 1 => outbox' = <<>> /\ Len(outbox') <= 1
           /\ \A i \in 1..Len(outbox') : i + 1 \in 1..Len(outbox) /\ outbox'[i] = outbox[i + 1]
           /\ \A i \in 1..Len(outbox) : i # 1 =>
                i - 1 \in 1..Len(outbox') /\ outbox'[i - 1] = outbox[i]
  <1>1. outbox \in Seq(RequestMessages)
    BY DEF ClientTypeOK
  <1>2. /\ outbox' \in Seq(RequestMessages) /\ Len(outbox') = Len(outbox) - 1
        /\ Len(outbox) \in Nat /\ Len(outbox) # 0
    BY <1>1
  <1>3. Len(outbox) = 1 => outbox' = <<>> /\ Len(outbox') <= 1
    BY <1>2
  <1>4. \A i \in 1..Len(outbox') : outbox'[i] = outbox[i + 1]
    BY <1>1
  <1>5. Head(outbox) = outbox[1] /\ outbox[1] \in RequestMessages
    BY <1>1
  <1>6. \A i \in 1..Len(outbox) : i # 1 =>
            i - 1 \in 1..Len(outbox') /\ outbox'[i - 1] = outbox[i]
    <2>1. ASSUME NEW i \in 1..Len(outbox), i # 1
          PROVE  i - 1 \in 1..Len(outbox') /\ (i - 1) + 1 = i
      BY <1>2, <2>1
    <2> QED BY <1>4, <2>1
  <1> QED BY <1>2, <1>3, <1>4, <1>5, <1>6

\* A request is taken; an answer is sent, or none.
Takes ==
    /\ server = "up" /\ outbox # <<>> /\ outbox' = Tail(outbox)
    /\ session' \in Users \cup {Nobody}
    /\ UNCHANGED <<main, user, lists, receiver, server, asked, pushed, logouts, odd>>

Answers(u, err, size) ==
    /\ Takes
    /\ Expects(Head(outbox))
    /\ Head(outbox).type = "login" => u \in Users
    /\ Pushes(Message(Head(outbox).type, u, err, size))
    /\ session = Nobody =>
          session' = IF Head(outbox).type = "login" /\ err = 0 THEN u ELSE Nobody

Silent ==
    /\ Takes
    /\ ~Expects(Head(outbox))
    /\ IF Head(outbox).type = "logout" THEN session' = Nobody ELSE session' = session
    /\ UNCHANGED inbox

\* A request that is answered, while the client runs.
LEMMA AnswerStep ==
    ASSUME ClientInv, Running, NEW u \in Users \cup {Nobody}, NEW err \in 0..2, NEW size \in Nat \ {0},
           Answers(u, err, size)
    PROVE  ClientInv'
  <1> DEFINE type == outbox[1].type
             p == Message(type, u, err, size)
  <1>1. ClientTypeOK
    BY DEF ClientInv
  <1>2. /\ Head(outbox) = outbox[1] /\ 1 \in 1..Len(outbox)
        /\ outbox' \in Seq(RequestMessages)
        /\ Len(outbox) = 1 => outbox' = <<>> /\ Len(outbox') <= 1
    BY <1>1, Tails DEF Answers, Takes
  <1>3. /\ server = "up" /\ server' = "up" /\ Expects(outbox[1])
        /\ session' \in Users \cup {Nobody}
        /\ UNCHANGED <<main, user, lists, receiver, asked, pushed, logouts, odd>>
        /\ session = Nobody => session' = IF type = "login" /\ err = 0 THEN u ELSE Nobody
        /\ type = "login" => u \in Users
        /\ Pushes(p)
    BY <1>2 DEF Answers, Takes
  <1>4. type \in {"login", "reg"} /\ type \in {"login", "reg", "chat"}
    BY <1>3 DEF Expects
  <1>5. /\ p \in Seq(Pieces) /\ Len(p) = size
        /\ \A i \in 1..size :
            /\ p[i].type = type /\ p[i].user = u /\ p[i].err = err
            /\ i # 1 => ~p[i].first
            /\ i # size => ~p[i].last
    <2>1. p = Message(type, u, err, size)
      OBVIOUS
    <2> HIDE DEF type, p
    <2>2. type \in {"login", "reg", "chat"}
      BY <1>4
    <2>3. IsMessage(p, type, u, err, size)
      BY <2>1, <2>2, MessagePieces
    <2> QED BY <2>3 DEF IsMessage
  <1> HIDE DEF p
  <1>6. /\ Len(outbox) = 1 /\ Waiting /\ (type = "login" <=> main = "login")
        /\ \A k \in 1..Len(inbox) : ~Answer(inbox[k])
    BY <1>2, <1>3 DEF ClientInv, LastRequest
  <1>7. outbox' = <<>> /\ Len(outbox') = 0 /\ Len(outbox') <= 1
    BY <1>2, <1>6
  <1>8. ~LogoutSent
    BY <1>2, <1>3, <1>6 DEF LogoutSent, Expects
  <1>9. session = Nobody /\ lists = <<>>
    <2>1. Waiting => /\ lists = <<>>
                     /\ outbox # <<>> => Expects(outbox[Len(outbox)]) /\ (session = Nobody \/ LogoutSent)
      BY <1>3 DEF ClientInv, ServerKnows
    <2>2. outbox # <<>>
      BY <1>6
    <2> QED BY <1>6, <1>8, <2>1, <2>2
  <1>10. /\ inbox' \in Seq(Pieces) /\ Len(inbox') = Len(inbox) + Len(p)
         /\ \A i \in 1..Len(inbox) : inbox'[i] = inbox[i]
         /\ \A i \in 1..Len(inbox') :
              i \in 1..Len(inbox) \/ (i - Len(inbox) \in 1..size /\ inbox'[i] = p[i - Len(inbox)])
    BY <1>1, <1>3, <1>5, Pushed
  <1>11. \A i \in 1..Len(inbox') :
            IF i \in 1..Len(inbox) THEN inbox'[i] = inbox[i] /\ ~Answer(inbox'[i])
            ELSE /\ i - Len(inbox) \in 1..size
                 /\ inbox'[i].type = type /\ inbox'[i].user = u /\ inbox'[i].err = err
                 /\ i - Len(inbox) # 1 => ~inbox'[i].first
                 /\ i - Len(inbox) # size => ~inbox'[i].last
    <2>1. ASSUME NEW i \in 1..Len(inbox), i \in 1..Len(inbox')
          PROVE  inbox'[i] = inbox[i] /\ ~Answer(inbox'[i])
      BY <1>6, <1>10
    <2>2. ASSUME NEW i \in 1..Len(inbox'), i \notin 1..Len(inbox)
          PROVE  /\ i - Len(inbox) \in 1..size
                 /\ inbox'[i].type = type /\ inbox'[i].user = u /\ inbox'[i].err = err
                 /\ i - Len(inbox) # 1 => ~inbox'[i].first
                 /\ i - Len(inbox) # size => ~inbox'[i].last
      <3>1. i - Len(inbox) \in 1..size /\ inbox'[i] = p[i - Len(inbox)]
        BY <1>10, <2>2
      <3> HIDE DEF type
      <3>2. /\ p[i - Len(inbox)].type = type /\ p[i - Len(inbox)].user = u
            /\ p[i - Len(inbox)].err = err
            /\ i - Len(inbox) # 1 => ~p[i - Len(inbox)].first
            /\ i - Len(inbox) # size => ~p[i - Len(inbox)].last
        BY <1>5, <3>1
      <3> QED BY <3>1, <3>2
    <2> QED BY <2>1, <2>2
  <1>12. ClientTypeOK' /\ logouts' <= asked'
    BY <1>1, <1>2, <1>3, <1>10 DEF ClientInv, ClientTypeOK
  <1>13. Framed'
    <2>1. ASSUME NEW i \in 1..Len(inbox')
          PROVE  /\ inbox'[i].type = "login" => inbox'[i].user \in Users
                 /\ inbox'[i].type = "chat" => inbox'[i].first /\ inbox'[i].last
      <3>1. CASE i \in 1..Len(inbox)
        BY <3>1, <1>11 DEF ClientInv, Framed
      <3>2. CASE i \notin 1..Len(inbox)
        BY <3>2, <1>3, <1>4, <1>11
      <3> QED BY <3>1, <3>2
    <2>2. ASSUME NEW i \in 1..Len(inbox'), NEW j \in 1..Len(inbox'), i < j,
                 Answer(inbox'[i]), Answer(inbox'[j])
          PROVE  ~inbox'[i].last /\ ~inbox'[j].first
      <3>1. i \notin 1..Len(inbox) /\ j \notin 1..Len(inbox)
        BY <1>11, <2>2
      <3>2. i - Len(inbox) # size /\ j - Len(inbox) # 1
        BY <1>1, <1>11, <2>2, <3>1 DEF ClientTypeOK
      <3> QED BY <1>11, <3>1, <3>2
    <2> QED BY <2>1, <2>2 DEF Framed, Answer
  <1>14. Awaited'
    BY <1>3, <1>4, <1>6, <1>11 DEF Awaited, Waiting, Answer
  <1>15. LastRequest'
    <2>1. \A i \in 1..Len(outbox') : FALSE
      BY <1>7
    <2> QED BY <2>1 DEF LastRequest
  <1>16. ServerKnows'
    BY <1>3, <1>6, <1>7, <1>9, <1>11 DEF ServerKnows, Waiting, Answer
  <1>17. FirstLogin'
    <2> SUFFICES ASSUME logouts = 0 PROVE FirstLogin'
      BY <1>3 DEF FirstLogin
    <2>1. /\ "raced" \notin odd /\ ~receiver
          /\ \A i \in 1..Len(inbox) : Answer(inbox[i])
      BY <1>6, <1>9 DEF ClientInv, FirstLogin, Waiting
    <2>2. Len(inbox) = 0
      <3>1. Len(inbox) \in Nat
        BY <1>1 DEF ClientTypeOK
      <3> QED BY <1>6, <2>1, <3>1
    <2>3. \A i \in 1..Len(inbox') : Answer(inbox'[i])
      BY <1>4, <1>11, <2>2 DEF Answer
    <2>4. Len(inbox') # 0 /\ 1 \in 1..Len(inbox') /\ inbox' # <<>>
      BY <1>5, <1>10, <2>2
    <2>5. main' # "menu" /\ server' = "up"
      BY <1>3, <1>6 DEF Waiting
    <2>6. ~receiver' /\ "raced" \notin odd'
      BY <1>3, <2>1
    <2>7. Answer(inbox[1])'
      BY <2>3, <2>4 DEF Answer
    <2>8. \A i \in 1..Len(inbox') : Answer(inbox[i])'
      BY <2>3 DEF Answer
    <2> QED BY <1>7, <2>4, <2>5, <2>6, <2>7, <2>8 DEF FirstLogin
  <1> QED BY <1>12, <1>13, <1>14, <1>15, <1>16, <1>17 DEF ClientInv

\* A logout or another request, while the client runs.
LEMMA SilentStep ==
    ASSUME ClientInv, Running, Silent
    PROVE  ClientInv'
  <1>1. ClientTypeOK
    BY DEF ClientInv
  <1>2. /\ Head(outbox) = outbox[1] /\ 1 \in 1..Len(outbox) /\ Len(outbox) \in 1..Len(outbox)
        /\ Len(outbox) \in Nat /\ outbox' \in Seq(RequestMessages)
        /\ Len(outbox') = Len(outbox) - 1 /\ Len(outbox') \in Nat
        /\ \A i \in 1..Len(outbox') : i + 1 \in 1..Len(outbox) /\ outbox'[i] = outbox[i + 1]
        /\ \A i \in 1..Len(outbox) : i # 1 =>
                i - 1 \in 1..Len(outbox') /\ outbox'[i - 1] = outbox[i]
    BY <1>1, Tails DEF Silent, Takes
  <1>10. /\ server = "up" /\ server' = "up" /\ outbox # <<>> /\ ~Expects(outbox[1])
         /\ outbox[1].type = "logout" => session' = Nobody
         /\ outbox[1].type # "logout" => session' = session
         /\ session' \in Users \cup {Nobody}
         /\ UNCHANGED <<main, user, lists, receiver, inbox, asked, pushed, logouts, odd>>
    BY <1>2 DEF Silent, Takes
  <1>11. outbox' \in Seq(RequestMessages)
    BY <1>2
  <1>3. ClientTypeOK' /\ logouts' <= asked'
    <2>1. logouts' <= asked'
      BY <1>10 DEF ClientInv
    <2>2. ClientTypeOK'
      BY <1>10, <1>1, <1>11 DEF ClientTypeOK
    <2> QED BY <2>1, <2>2
  <1>4. Framed' /\ Awaited'
    BY <1>10 DEF ClientInv, Framed, Awaited, Answer, Waiting
  <1>5. LastRequest'
    <2>1. ASSUME NEW i \in 1..Len(outbox'), Expects(outbox'[i])
          PROVE  /\ i = Len(outbox') /\ Waiting'
                 /\ (outbox'[i].type = "login" <=> main' = "login")
                 /\ outbox'[i].type = "login" => outbox'[i].user \in Users
                 /\ \A k \in 1..Len(inbox') : ~Answer(inbox'[k])
      <3>1. outbox'[i] = outbox[i + 1] /\ i + 1 \in 1..Len(outbox)
        BY <1>10, <1>2
      <3>2. /\ i + 1 = Len(outbox) /\ Waiting
            /\ (outbox[i + 1].type = "login" <=> main = "login")
            /\ outbox[i + 1].type = "login" => outbox[i + 1].user \in Users
            /\ \A k \in 1..Len(inbox) : ~Answer(inbox[k])
        BY <1>10, <2>1, <3>1 DEF ClientInv, LastRequest
      <3>3. i = Len(outbox')
        <4>1. i + 1 = Len(outbox) /\ i \in Nat
          BY <1>10, <1>2, <3>2
        <4> QED BY <1>10, <1>2, <4>1
      <3>4. outbox'[i] = outbox[i + 1] /\ main' = main /\ inbox' = inbox
        BY <1>10, <3>1
      <3>5. (outbox'[i].type = "login" <=> main' = "login")
        BY <1>10, <3>2, <3>4
      <3> QED BY <1>10, <3>2, <3>3, <3>4, <3>5 DEF Waiting
    <2> QED BY <1>10, <2>1 DEF LastRequest, Expects, Answer
  <1>6. LogoutSent /\ outbox[1].type # "logout" => LogoutSent'
    BY <1>10, <1>2 DEF LogoutSent
  <1>7. CASE main = "chat"
    <2>1. outbox[1].type = "other" /\ session' = session
      BY <1>10, <1>2, <1>7 DEF ClientInv, ServerKnows
    <2>2. ServerKnows'
      BY <1>10, <1>2, <1>7, <2>1 DEF ClientInv, ServerKnows, Waiting
    <2>3. FirstLogin'
      BY <1>10, <1>7 DEF ClientInv, FirstLogin
    <2> QED BY <1>10, <1>3, <1>4, <1>5, <2>2, <2>3 DEF ClientInv
  <1>8. CASE main = "menu"
    <2>1. ServerKnows'
      BY <1>10, <1>6, <1>8 DEF ClientInv, ServerKnows, Waiting, LogoutSent
    <2>2. logouts # 0
      BY <1>10, <1>8 DEF ClientInv, FirstLogin
    <2>3. FirstLogin'
      BY <1>10, <2>2 DEF FirstLogin
    <2> QED BY <1>10, <1>3, <1>4, <1>5, <2>1, <2>3 DEF ClientInv
  <1>9. CASE Waiting
    <2>1. /\ lists = <<>> /\ Expects(outbox[Len(outbox)]) /\ (session = Nobody \/ LogoutSent)
          /\ \A k \in 1..Len(inbox) : ~Answer(inbox[k])
      <3>1. lists = <<>> /\ Expects(outbox[Len(outbox)]) /\ (session = Nobody \/ LogoutSent)
        BY <1>10, <1>9 DEF ClientInv, ServerKnows
      <3> QED BY <1>10, <1>2, <3>1 DEF ClientInv, LastRequest
    <2>2. Len(outbox) # 1
      BY <1>10, <1>2, <2>1
    <2>3. outbox' # <<>> => Expects(outbox'[Len(outbox')])
      <3>1. Len(outbox') = Len(outbox) - 1 /\ outbox'[Len(outbox) - 1] = outbox[Len(outbox)]
        BY <1>10, <1>2, <2>2
      <3> QED BY <1>10, <2>1, <3>1
    <2>4. session' = Nobody \/ LogoutSent'
      BY <1>10, <1>6, <2>1
    <2>5. ServerKnows'
      BY <1>10, <1>9, <2>1, <2>3, <2>4 DEF ServerKnows, Waiting, LogoutSent, Expects, Answer
    <2>6. logouts # 0
      <3>1. Len(outbox) \in Nat /\ Len(outbox) >= 1
        BY <1>10, <1>2
      <3>2. logouts = 0 => Len(outbox) <= 1
        <4>1. main \in {"menu", "login", "register"}
          BY <1>10, <1>9 DEF Waiting
        <4> QED BY <1>10, <4>1 DEF ClientInv, FirstLogin
      <3>3. ~(Len(outbox) <= 1)
        <4> DEFINE l == Len(outbox)
        <4>1. l # 1 /\ l \in Nat /\ l >= 1
          BY <2>2, <3>1
        <4>2. ~(l <= 1)
          <5> HIDE DEF l
          <5> QED BY <4>1
        <4> QED BY <4>2
      <3> QED BY <1>10, <3>2, <3>3
    <2>7. FirstLogin'
      BY <1>10, <2>6 DEF FirstLogin
    <2> QED BY <1>10, <1>3, <1>4, <1>5, <2>5, <2>7 DEF ClientInv
  <1> QED BY <1>10, <1>1, <1>7, <1>8, <1>9 DEF Running, Waiting, ClientTypeOK

\* A request of a client that is gone.
LEMMA UnheardStep ==
    ASSUME ClientInv, ~Running, outbox' \in Seq(RequestMessages), session' \in Users \cup {Nobody},
           UNCHANGED <<main, user, lists, receiver, inbox, server, asked, pushed, logouts, odd>>
    PROVE  ClientInv'
  <1>1. ClientTypeOK' /\ logouts' <= asked'
    BY DEF ClientInv, ClientTypeOK
  <1>2. Framed' /\ Awaited'
    BY DEF ClientInv, Framed, Awaited, Answer, Waiting
  <1>3. LastRequest' /\ ServerKnows' /\ FirstLogin'
    BY DEF ClientInv, LastRequest, ServerKnows, FirstLogin, Running, Waiting
  <1> QED BY <1>1, <1>2, <1>3 DEF ClientInv

\* onMessage with one request.
LEMMA OneRequestStep ==
    ASSUME ClientInv, OneRequest
    PROVE  ClientInv'
  <1> DEFINE r == Head(outbox)
  <1>1. /\ server = "up" /\ outbox # <<>> /\ outbox' = Tail(outbox)
        /\ ServeLogin(r) \/ ServeRegister(r) \/ ServeLogout(r) \/ ServeOther(r)
        /\ UNCHANGED <<main, user, lists, receiver, server, asked, pushed, logouts, odd>>
    BY DEF OneRequest
  <1>2. r = outbox[1] /\ r \in RequestMessages /\ 1 \in 1..Len(outbox)
        /\ outbox' \in Seq(RequestMessages)
    BY <1>1, Tails DEF ClientInv
  <1>3. r.user \in Users \cup {Nobody} /\ session \in Users \cup {Nobody}
    BY <1>2 DEF RequestMessages, ClientInv, ClientTypeOK
  <1>4. session' \in Users \cup {Nobody}
    BY <1>1, <1>3 DEF ServeLogin, ServeRegister, ServeLogout, ServeOther
  <1>5. CASE ~Running
    <2>1. UNCHANGED inbox
      BY <1>1, <1>5 DEF ServeLogin, ServeRegister, ServeLogout, ServeOther, Pushes
    <2> QED BY <1>1, <1>2, <1>4, <1>5, <2>1, UnheardStep
  <1>6. CASE Running
    <2>1. Takes
      BY <1>1, <1>4 DEF Takes
    <2>2. CASE ServeLogin(r)
      <3>1. r.type = "login" /\ Expects(r) /\ r.user \in Users
        BY <1>2, <1>6, <2>2 DEF ServeLogin, Expects, ClientInv, LastRequest
      <3>2. CASE session' = r.user /\ \E size \in AnswerSizes : Pushes(Message("login", r.user, 0, size))
        <4>1. PICK size \in AnswerSizes : Pushes(Message("login", r.user, 0, size))
          BY <3>2
        <4>2. size \in Nat \ {0}
          BY ChatClientAssumption
        <4>3. Answers(r.user, 0, size)
          BY <2>1, <3>1, <3>2, <4>1 DEF Answers
        <4> QED BY <1>3, <1>6, <4>2, <4>3, AnswerStep
      <3>3. CASE Pushes(Message("login", r.user, 2, 1)) /\ UNCHANGED session
        <4>1. Answers(r.user, 2, 1)
          BY <2>1, <3>1, <3>3 DEF Answers
        <4> QED BY <1>3, <1>6, <4>1, AnswerStep
      <3> QED BY <2>2, <3>2, <3>3 DEF ServeLogin
    <2>3. CASE ServeRegister(r)
      <3>1. PICK err \in {0, 1} : Pushes(Message("reg", Nobody, err, 1))
        BY <2>3 DEF ServeRegister
      <3>2. Answers(Nobody, err, 1)
        BY <2>1, <2>3, <3>1 DEF Answers, Expects, ServeRegister
      <3> QED BY <1>6, <3>1, <3>2, AnswerStep
    <2>4. CASE ServeLogout(r) \/ ServeOther(r)
      <3>1. Silent
        BY <2>1, <2>4 DEF Silent, Expects, ServeLogout, ServeOther
      <3> QED BY <1>6, <3>1, SilentStep
    <2> QED BY <1>1, <2>2, <2>3, <2>4
  <1> QED BY <1>5, <1>6

\* onMessage with several requests: the server is gone.
LEMMA SeveralRequestsStep ==
    ASSUME ClientInv, SeveralRequests
    PROVE  ClientInv'
  <1>1. /\ server' = "aborted" /\ outbox' = <<>> /\ session' = Nobody
        /\ odd' = odd \cup {"merged"} /\ server = "up"
        /\ UNCHANGED <<main, user, lists, receiver, inbox, asked, pushed, logouts>>
    BY DEF SeveralRequests
  <1>2. ClientTypeOK' /\ logouts' <= asked'
    BY <1>1 DEF ClientInv, ClientTypeOK
  <1>3. Framed' /\ Awaited' /\ ServerKnows'
    BY <1>1 DEF ClientInv, Framed, Awaited, ServerKnows, Answer, Waiting
  <1>4. LastRequest'
    <2>1. \A i \in 1..Len(outbox') : FALSE
      BY <1>1
    <2> QED BY <2>1 DEF LastRequest
  <1>5. FirstLogin'
    <2> DEFINE l == Len(outbox)
    <2>1. l \in Nat /\ l > 1
      BY DEF SeveralRequests, ClientInv, ClientTypeOK
    <2>2. ~(l <= 1)
      <3> HIDE DEF l
      <3> QED BY <2>1
    <2>3. logouts = 0 => main \notin {"menu", "login", "register"} /\ "raced" \notin odd
      BY <2>2 DEF ClientInv, FirstLogin
    <2> QED BY <1>1, <2>3 DEF FirstLogin
  <1> QED BY <1>2, <1>3, <1>4, <1>5 DEF ClientInv

\* A chat message for the user of the connection.
LEMMA PushStep ==
    ASSUME ClientInv, PushChat
    PROVE  ClientInv'
  <1> DEFINE p == Message("chat", session, 0, 1)
  <1>1. ClientTypeOK
    BY DEF ClientInv
  <1>2. /\ session # Nobody /\ session \in Users \cup {Nobody}
        /\ pushed' \in 0..MaxPushed
        /\ Pushes(p)
        /\ UNCHANGED <<main, user, lists, receiver, outbox, server, session, asked, logouts, odd>>
    BY <1>1, ChatClientAssumption DEF PushChat, ClientTypeOK
  <1>3. CASE ~Running
    <2>1. inbox' = inbox
      BY <1>2, <1>3 DEF Pushes
    <2>2. ClientTypeOK' /\ logouts' <= asked'
      BY <1>1, <1>2, <2>1 DEF ClientInv, ClientTypeOK
    <2>3. Framed' /\ Awaited'
      BY <1>2, <2>1 DEF ClientInv, Framed, Awaited, Answer, Waiting
    <2>4. LastRequest' /\ ServerKnows' /\ FirstLogin'
      BY <1>2, <1>3 DEF ClientInv, LastRequest, ServerKnows, FirstLogin, Running, Waiting
    <2> QED BY <2>2, <2>3, <2>4 DEF ClientInv
  <1>4. CASE Running
    <2>1. p \in Seq(Pieces) /\ Len(p) = 1 /\ p[1].type = "chat" /\ p[1].first = TRUE /\ p[1].last = TRUE
      <3> DEFINE one == 1 = 1
      <3>1. p[1] = [type |-> "chat", user |-> session, err |-> 0, first |-> one, last |-> one]
        BY DEF Message
      <3>2. one = TRUE
        OBVIOUS
      <3>3. p = Message("chat", session, 0, 1)
        OBVIOUS
      <3> HIDE DEF p, one
      <3>4. p[1].type = "chat" /\ p[1].first = one /\ p[1].last = one
        BY <3>1
      <3>5. p \in Seq(Pieces) /\ Len(p) = 1
        <4> DEFINE type == "chat"
                   err == 0
                   size == 1
        <4>1. type \in {"login", "reg", "chat"} /\ err \in 0..2 /\ size \in Nat \ {0}
          OBVIOUS
        <4>2. p = Message(type, session, err, size)
          BY <3>3
        <4>3. size = 1
          OBVIOUS
        <4>4. session \in Users \cup {Nobody}
          BY <1>2
        <4> HIDE DEF type, err, size
        <4>5. p \in Seq(Pieces) /\ Len(p) = size
          BY <4>1, <4>2, <4>4, MessagePieces DEF IsMessage
        <4> QED BY <4>3, <4>5
      <3> QED BY <3>2, <3>4, <3>5
    <2> HIDE DEF p
    <2>2. /\ inbox' \in Seq(Pieces) /\ Len(inbox') = Len(inbox) + Len(p)
          /\ \A i \in 1..Len(inbox) : inbox'[i] = inbox[i]
          /\ \A i \in 1..Len(inbox') :
              i \in 1..Len(inbox) \/ (i - Len(inbox) \in 1..Len(p) /\ inbox'[i] = p[i - Len(inbox)])
      BY <1>1, <1>2, <1>4, <2>1, Pushed
    <2>3. \A i \in 1..Len(inbox') :
            \/ i \in 1..Len(inbox) /\ inbox'[i] = inbox[i]
            \/ ~Answer(inbox'[i]) /\ inbox'[i].type = "chat" /\ inbox'[i].first = TRUE /\ inbox'[i].last = TRUE
      <3>1. ASSUME NEW i \in 1..Len(inbox'), i \notin 1..Len(inbox) PROVE inbox'[i] = p[1]
        <4>1. i - Len(inbox) \in 1..1 /\ inbox'[i] = p[i - Len(inbox)]
          BY <2>1, <2>2, <3>1
        <4>2. i - Len(inbox) = 1
          BY <4>1
        <4> QED BY <4>1, <4>2
      <3> QED BY <2>1, <2>2, <3>1 DEF Answer
    <2>4. ClientTypeOK' /\ logouts' <= asked'
      BY <1>1, <1>2, <2>2 DEF ClientInv, ClientTypeOK
    <2>5. Framed'
      BY <2>3 DEF ClientInv, Framed, Answer
    <2>6. Awaited' /\ LastRequest'
      BY <1>2, <2>3 DEF ClientInv, Awaited, LastRequest, Answer, Waiting, Expects, Running
    <2>7. ServerKnows'
      BY <1>2, <2>3 DEF ClientInv, ServerKnows, Answer, Waiting, Expects, LogoutSent
    <2>8. FirstLogin'
      <3> SUFFICES ASSUME logouts = 0, main \in {"menu", "login", "register"}
                   PROVE  inbox # <<>> /\ inbox' # <<>> /\ inbox'[1] = inbox[1]
        BY <1>2 DEF ClientInv, FirstLogin, Answer
      <3>1. inbox # <<>>
        BY <1>2 DEF ClientInv, FirstLogin
      <3>2. 1 \in 1..Len(inbox) /\ Len(inbox) \in Nat
        BY <1>1, <3>1 DEF ClientTypeOK
      <3>3. inbox'[1] = inbox[1]
        BY <2>2, <3>2
      <3>4. Len(inbox') # 0
        BY <2>1, <2>2, <3>2
      <3>5. inbox' # <<>>
        BY <3>4
      <3> QED BY <3>1, <3>3, <3>5
    <2> QED BY <2>2, <2>4, <2>5, <2>6, <2>7, <2>8 DEF ClientInv
  <1> QED BY <1>3, <1>4

\* clientCloseException.
LEMMA ClientGoneStep ==
    ASSUME ClientInv, ClientGone
    PROVE  ClientInv'
  <1>1. /\ ~Running /\ session' = Nobody /\ outbox' = outbox
        /\ UNCHANGED <<main, user, lists, receiver, inbox, server, asked, pushed, logouts, odd>>
    BY DEF ClientGone
  <1>2. outbox' \in Seq(RequestMessages)
    BY <1>1 DEF ClientInv, ClientTypeOK
  <1> QED BY <1>1, <1>2, UnheardStep

-----------------------------------------------------------------------------

\* Every reachable state satisfies the inductive invariant.
THEOREM ClientInductive == ClientSpec => []ClientInv
  <1>1. ClientInit => ClientInv
    <2> SUFFICES ASSUME ClientInit PROVE ClientInv
      OBVIOUS
    <2>1. ClientTypeOK /\ logouts <= asked
      <3>1. receiver \in BOOLEAN
        BY DEF ClientInit
      <3>2. <<>> \in Seq(Users) /\ <<>> \in Seq(Pieces) /\ <<>> \in Seq(RequestMessages)
        OBVIOUS
      <3>3. asked \in 0..MaxAsked /\ pushed \in 0..MaxPushed /\ logouts \in 0..MaxAsked
        BY ChatClientAssumption DEF ClientInit
      <3>4. logouts <= asked
        BY DEF ClientInit
      <3> QED BY <3>1, <3>2, <3>3, <3>4 DEF ClientInit, ClientTypeOK
    <2>2. Len(inbox) = 0 /\ Len(outbox) = 0 /\ Len(outbox) <= 1
      BY DEF ClientInit
    <2>3. (\A i \in 1..Len(inbox) : FALSE) /\ (\A i \in 1..Len(outbox) : FALSE)
      BY DEF ClientInit
    <2>4. Framed /\ Awaited /\ LastRequest
      BY <2>3 DEF Framed, Awaited, LastRequest
    <2>5. ServerKnows
      BY DEF ClientInit, ServerKnows, Waiting
    <2>6. FirstLogin
      BY <2>2, <2>3 DEF ClientInit, FirstLogin
    <2> QED BY <2>1, <2>4, <2>5, <2>6 DEF ClientInv
  <1>2. ClientInv /\ [ClientNext]_clientVars => ClientInv'
    <2> SUFFICES ASSUME ClientInv, [ClientNext]_clientVars PROVE ClientInv'
      OBVIOUS
    <2>1. ASSUME NEW u \in Users, AskLogin(u) PROVE ClientInv'
      <3> DEFINE r == [type |-> "login", user |-> u]
      <3>1. /\ main = "menu" /\ main' = "login" /\ Send(r)
            /\ UNCHANGED <<user, lists, receiver, inbox, server, session, pushed, logouts, odd>>
        BY <2>1 DEF AskLogin
      <3>2. r \in RequestMessages /\ Expects(r) /\ r.type = "login" /\ r.user \in Users
        BY DEF RequestMessages, Expects
      <3> HIDE DEF r
      <3> QED BY <3>1, <3>2, AskStep
    <2>2. CASE AskRegister
      <3> DEFINE r == [type |-> "reg", user |-> Nobody]
      <3>1. /\ main = "menu" /\ main' = "register" /\ Send(r)
            /\ UNCHANGED <<user, lists, receiver, inbox, server, session, pushed, logouts, odd>>
        BY <2>2 DEF AskRegister
      <3>2. r \in RequestMessages /\ Expects(r) /\ r.type = "reg"
        BY DEF RequestMessages, Expects
      <3> HIDE DEF r
      <3> QED BY <3>1, <3>2, AskStep
    <2>3. CASE LeaveMenu
      <3>1. /\ main' \in {"quit", "crashed"} /\ inbox' = <<>> /\ lists' \in Seq(Users)
            /\ odd' = odd
            /\ UNCHANGED <<user, receiver, outbox, server, session, asked, pushed, logouts>>
        BY <2>3 DEF LeaveMenu
      <3>2. odd' \subseteq {"misframed", "raced", "merged"} /\ (logouts = 0 => "raced" \notin odd')
        BY <3>1 DEF ClientInv, ClientTypeOK, FirstLogin
      <3> QED BY <3>1, <3>2, EndStep
    <2>4. CASE MainAnswered
      BY <2>4, MainRecvStep DEF MainAnswered
    <2>5. CASE Received
      BY <2>5, ThreadRecvStep DEF Received
    <2>6. CASE EndOfStream
      <3>1. Crash({}) /\ UNCHANGED <<outbox, server, session, asked, pushed, logouts>>
        BY <2>6 DEF EndOfStream
      <3> QED BY <3>1, CrashStep
    <2>7. CASE Command \/ Loginout
      BY <2>7, CommandStep, LoginoutStep
    <2>8. CASE OneRequest \/ SeveralRequests \/ PushChat \/ ClientGone
      BY <2>8, OneRequestStep, SeveralRequestsStep, PushStep, ClientGoneStep
    <2>9. CASE UNCHANGED clientVars
      <3>1. UNCHANGED <<main, user, lists, receiver, inbox, outbox, server, session,
                        asked, pushed, logouts, odd>>
        BY <2>9 DEF clientVars
      <3>2. ClientTypeOK' /\ logouts' <= asked' /\ Framed' /\ Awaited'
        BY <3>1 DEF ClientInv, ClientTypeOK, Framed, Awaited, Answer, Waiting
      <3>3. LastRequest' /\ ServerKnows' /\ FirstLogin'
        BY <3>1 DEF ClientInv, LastRequest, ServerKnows, FirstLogin, Answer, Waiting, Running,
                    Expects, LogoutSent
      <3> QED BY <3>2, <3>3 DEF ClientInv
    <2> QED BY <2>1, <2>2, <2>3, <2>4, <2>5, <2>6, <2>7, <2>8, <2>9 DEF ClientNext
  <1> QED BY <1>1, <1>2, PTL DEF ClientSpec

\* The menu that is shown agrees with the server's session and with the lists.
THEOREM MenuAgrees == ClientSpec => []SessionAgrees
  <1>1. ClientInv => SessionAgrees
    BY DEF ClientInv, ServerKnows, SessionAgrees, LogoutSent
  <1> QED BY <1>1, ClientInductive, PTL

\* The threads take each other's messages only after a logout.
THEOREM OwnMessages == ClientSpec => []ThreadsApart
  <1>1. ASSUME ClientInv PROVE ThreadsApart
    <2>1. \A i \in 1..Len(inbox) : inbox[i].type # "chat" =>
            Waiting /\ (inbox[i].type = "login" <=> main = "login")
      BY <1>1 DEF ClientInv, Awaited, Answer
    <2>2. ASSUME logouts = 0
          PROVE  "raced" \notin odd /\ (Waiting /\ inbox # <<>> => inbox[1].type # "chat")
      BY <1>1, <2>2 DEF ClientInv, FirstLogin, Answer, Waiting
    <2> QED BY <2>1, <2>2 DEF ThreadsApart
  <1> QED BY <1>1, ClientInductive, PTL

=============================================================================
