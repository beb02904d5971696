---------------------------- MODULE ChatAccounts ----------------------------
(***************************************************************************)
(* The accounts of the chat server: reg, addFriend, createGroup and        *)
(* addGroup of ChatService over the tables user, friend, allgroup and      *)
(* groupuser.                                                              *)
(*                                                                         *)
(* Each call of a model is one SQL statement on a connection of its own,   *)
(* and one step; any of them may fail, and nothing undoes or repeats one.  *)
(* The handlers run in the IO threads of any number of servers.            *)
(***************************************************************************)
EXTENDS Naturals, Sequences

CONSTANTS
    Handlers,       \* IO threads of the servers
    MaxUsers,       \* bound: rows of user
    MaxGroups,      \* bound: rows of allgroup
    MaxRequests     \* bound: requests

ASSUME ChatAccountsAssumption ==
    MaxUsers \in Nat \ {0, 1} /\ MaxGroups \in Nat /\ MaxRequests \in Nat

Uids == 1..MaxUsers
Gids == 1..MaxGroups

VARIABLES
    user_rows,  \* user: the row of id i is user_rows[i], the request that made it
    friend,     \* friend: pairs of ids
    allgroup,   \* allgroup: the row of id g is allgroup[g], the user who asked for it
    groupuser,  \* groupuser: group, member and role
    handler,    \* the request that a thread handles, and how far it is
    requests,   \* history: how many there have been
    told,       \* history: registrations that were answered with an id, and the id
    torn        \* history: friendships and groups of which a statement was not executed

accountsVars == <<user_rows, friend, allgroup, groupuser, handler, requests, told, torn>>

Idle == [at |-> "idle", who |-> 0, arg |-> 0, id |-> 0]

\* Two users have registered before.
AccountsInit ==
    /\ user_rows = <<0, 0>>
    /\ friend = {} /\ allgroup = <<>> /\ groupuser = {}
    /\ handler = [h \in Handlers |-> Idle]
    /\ requests = 0 /\ told = {}
    /\ torn = [friends |-> {}, groups |-> {}]

-----------------------------------------------------------------------------

Asks(h, at, who, arg) ==
    /\ handler[h] = Idle
    /\ requests < MaxRequests
    /\ requests' = requests + 1
    /\ handler' = [handler EXCEPT ![h] = [at |-> at, who |-> who, arg |-> arg, id |-> 0]]
    /\ UNCHANGED <<user_rows, friend, allgroup, groupuser, told, torn>>

\* A user asks under the own id, for any id: friends and groups need not exist.
Request(h) ==
    \/ Asks(h, "reg", requests + 1, 0)
    \/ \E u \in 1..Len(user_rows) :
        \/ \E f \in Uids : Asks(h, "friend", u, f)
        \/ Asks(h, "group", u, 0)
        \/ \E g \in Gids : Asks(h, "member", u, g)

Goes(h, at, id) == handler' = [handler EXCEPT ![h].at = at, ![h].id = id]
Done(h) == handler' = [handler EXCEPT ![h] = Idle]

-----------------------------------------------------------------------------
(***************************************************************************)
(* reg.                                                                    *)
(***************************************************************************)

\* UserModel::insert.
InsertUser(h) ==
    /\ handler[h].at = "reg"
    /\ Len(user_rows) < MaxUsers
    /\ user_rows' = Append(user_rows, handler[h].who)
    /\ Goes(h, "registered", Len(user_rows) + 1)
    /\ UNCHANGED <<friend, allgroup, groupuser, requests, told, torn>>

\* The statement fails, which insert does not look at.
InsertUserFails(h) ==
    /\ handler[h].at = "reg"
    /\ Goes(h, "registered", 0)
    /\ UNCHANGED <<user_rows, friend, allgroup, groupuser, requests, told, torn>>

\* There is no connection: errno 1.
Refused(h) ==
    /\ handler[h].at = "reg"
    /\ Done(h)
    /\ UNCHANGED <<user_rows, friend, allgroup, groupuser, requests, told, torn>>

\* Mutant: the last id of the table, not of the connection.
LatestId(h) == Len(user_rows)

\* mysql_insert_id: the id of the last insert on this connection, or 0.
InsertId(h) == handler[h].id

Answered(h) ==
    /\ handler[h].at = "registered"
    /\ told' = told \cup {[for |-> handler[h].who, id |-> InsertId(h)]}
    /\ Done(h)
    /\ UNCHANGED <<user_rows, friend, allgroup, groupuser, requests, torn>>

-----------------------------------------------------------------------------
(***************************************************************************)
(* addFriend, createGroup and addGroup: nothing is answered.               *)
(***************************************************************************)

Pair(h) == {handler[h].who, handler[h].arg}

InsertFriend(h, row) ==
    /\ \/ friend' = friend \cup {row} /\ UNCHANGED torn
       \/ torn' = [torn EXCEPT !.friends = @ \cup {Pair(h)}] /\ UNCHANGED friend
    /\ UNCHANGED <<user_rows, allgroup, groupuser, requests, told>>

AddFriend(h) ==
    /\ handler[h].at = "friend"
    /\ InsertFriend(h, <<handler[h].who, handler[h].arg>>)
    /\ Goes(h, "back", 0)

\* Mutant: the same row again.
SameFriendBack(h) ==
    /\ handler[h].at = "back"
    /\ InsertFriend(h, <<handler[h].who, handler[h].arg>>)
    /\ Done(h)

AddFriendBack(h) ==
    /\ handler[h].at = "back"
    /\ InsertFriend(h, <<handler[h].arg, handler[h].who>>)
    /\ Done(h)

CreateGroup(h) ==
    /\ handler[h].at = "group"
    /\ Len(allgroup) < MaxGroups
    /\ allgroup' = Append(allgroup, handler[h].who)
    /\ Goes(h, "creator", Len(allgroup) + 1)
    /\ UNCHANGED <<user_rows, friend, groupuser, requests, told, torn>>

\* The group is not there, and gets no creator.
CreateGroupFails(h) ==
    /\ handler[h].at = "group"
    /\ Done(h)
    /\ UNCHANGED <<user_rows, friend, allgroup, groupuser, requests, told, torn>>

AddIntoGroup(h, gid, role) ==
    groupuser' = groupuser \cup {[gid |-> gid, uid |-> handler[h].who, role |-> role]}

AddCreator(h) ==
    /\ handler[h].at = "creator"
    /\ \/ AddIntoGroup(h, InsertId(h), "creator") /\ UNCHANGED torn
       \/ torn' = [torn EXCEPT !.groups = @ \cup {handler[h].id}] /\ UNCHANGED groupuser
    /\ Done(h)
    /\ UNCHANGED <<user_rows, friend, allgroup, requests, told>>

AddGroup(h) ==
    /\ handler[h].at = "member"
    /\ AddIntoGroup(h, handler[h].arg, "normal") \/ UNCHANGED groupuser
    /\ Done(h)
    /\ UNCHANGED <<user_rows, friend, allgroup, requests, told, torn>>

-----------------------------------------------------------------------------

\* The server of this thread stops between two statements.
Stopped(h) ==
    /\ handler[h] # Idle
    /\ Done(h)
    /\ torn' = [friends |-> torn.friends \cup
                    IF handler[h].at = "back" THEN {Pair(h)} ELSE {},
                groups |-> torn.groups \cup
                    IF handler[h].at = "creator" THEN {handler[h].id} ELSE {}]
    /\ UNCHANGED <<user_rows, friend, allgroup, groupuser, requests, told>>

AccountsNext ==
    \E h \in Handlers :
        \/ Request(h)
        \/ InsertUser(h) \/ InsertUserFails(h) \/ Refused(h) \/ Answered(h)
        \/ AddFriend(h) \/ AddFriendBack(h)
        \/ CreateGroup(h) \/ CreateGroupFails(h) \/ AddCreator(h)
        \/ AddGroup(h)
        \/ Stopped(h)

AccountsSpec == AccountsInit /\ [][AccountsNext]_accountsVars

-----------------------------------------------------------------------------
(***************************************************************************)
(* Properties.                                                             *)
(***************************************************************************)

Places == {"idle", "reg", "registered", "friend", "back", "group", "creator", "member"}

AccountsTypeOK ==
    /\ user_rows \in Seq(0..MaxRequests)
    /\ friend \subseteq Uids \X Uids
    /\ allgroup \in Seq(Uids)
    /\ groupuser \subseteq [gid : Gids, uid : Uids, role : {"creator", "normal"}]
    /\ handler \in [Handlers -> [at : Places, who : Nat, arg : Nat, id : Nat]]
    /\ requests \in 0..MaxRequests
    /\ told \subseteq [for : 1..MaxRequests, id : Nat]
    /\ torn \in [friends : SUBSET SUBSET Uids, groups : SUBSET Gids]

Creators(g) == {r.uid : r \in {s \in groupuser : s.gid = g /\ s.role = "creator"}}

\* However the handlers of several servers interleave, each gets the id of the
\* row it has inserted itself: a client is told the id of its own user - or 0 if
\* there is no row, which the answer calls a success (UserModel.cpp:20-22) - and
\* a group belongs to who asked for it and to nobody else (GroupModel.cpp:21,
\* ChatService.cpp:334).  A group is without its creator only while it is being
\* created, or after a failure in the middle of it.
OwnIds ==
    /\ AccountsTypeOK
    /\ \A t \in told : t.id # 0 => t.id <= Len(user_rows) /\ user_rows[t.id] = t.for
    /\ \A g \in 1..Len(allgroup) :
        \/ Creators(g) = {allgroup[g]}
        \/ /\ Creators(g) = {}
           /\ \/ g \in torn.groups
              \/ \E h \in Handlers : handler[h].at = "creator" /\ handler[h].id = g

\* Friends have each other in their lists, except between the two statements of
\* an addFriend, or if one of them has failed or the server stopped between them
\* (ChatService.cpp:317-318).
FriendsBothWays ==
    \A p \in friend :
        \/ <<p[2], p[1]>> \in friend
        \/ {p[1], p[2]} \in torn.friends
        \/ \E h \in Handlers : handler[h].at = "back" /\ Pair(h) = {p[1], p[2]}

=============================================================================
