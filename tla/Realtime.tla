--------------------------------- MODULE Realtime ---------------------------------
(***************************************************************************)
(* RealtimeGateway: who is online, what the clients are told of it, and    *)
(* whose sockets are in the room of the group chat of module Chat.         *)
(*                                                                         *)
(* The server is one process; a handler runs from one await to the next    *)
(* without interruption.  handleConnection awaits the user, and after it   *)
(* has added the socket the user's chats; onChatJoin awaits the check of   *)
(* membership.  A client may disconnect meanwhile, which the handler does  *)
(* not notice.  A socket does not come back: a client that reconnects has  *)
(* another.  "drop" in mishaps lets a client disconnect while its user is  *)
(* looked up.                                                              *)
(*                                                                         *)
(* Left out: tokens (a refused one is a refused user), typing, reading and *)
(* sending, which are Chat's; a message sent here goes to the room.        *)
(*                                                                         *)
(* A definition marked "Fault" is no part of the model: it is the          *)
(* definition after it with a mistake, which the properties must notice.   *)
(***************************************************************************)
EXTENDS Chat

CONSTANTS
    Sockets,
    UserOf          \* whose token a socket presents

ASSUME SocketsAssumption == UserOf \in [Sockets -> Users]

VARIABLES
    handler,        \* where a socket's handler waits
    activeUsers,    \* sockets by user; a user without an entry has none
    room,           \* the sockets in the room
    told            \* the users a client takes to be online

realtimeVars == <<handler, activeUsers, room, told>>

At(s, h) == handler' = [handler EXCEPT ![s] = h]
Connected == {s \in Sockets : handler[s] \notin {"off", "gone"}}

\* Object.keys of activeUsers.
OnlineUsers == {u \in Users : activeUsers[u] # {}}

\* server.emit('presence:update'): to whoever is connected.
Broadcast(user, online) ==
    told' = [s \in Sockets |-> IF s \notin Connected THEN told[s]
                               ELSE IF online THEN told[s] \cup {user} ELSE told[s] \ {user}]

\* handleConnection, up to the first await.
HandleConnection(s) ==
    /\ handler[s] = "off"
    /\ At(s, "verify")
    /\ UNCHANGED <<chatVars, activeUsers, room, told>>

\* The token or the user is not accepted.
RefuseConnection(s) ==
    /\ handler[s] \in {"verify", "lost"}
    /\ At(s, "gone")
    /\ UNCHANGED <<chatVars, activeUsers, room, told>>

\* The user is found: whether or not the client is still there, its socket is added.
Track(s) ==
    LET u == UserOf[s]
    IN  /\ handler[s] \in {"verify", "lost"}
        /\ activeUsers' = [activeUsers EXCEPT ![u] = @ \cup {s}]
        /\ IF activeUsers[u] = {} THEN Broadcast(u, TRUE) ELSE UNCHANGED told
        /\ At(s, IF handler[s] = "lost" THEN "gone" ELSE "joining")
        /\ UNCHANGED <<chatVars, room>>

\* The user's chats are joined, and the client is told who is online.
AutoJoin(s) ==
    /\ handler[s] = "joining"
    /\ room' = IF UserOf[s] \in members THEN room \cup {s} ELSE room
    /\ told' = [told EXCEPT ![s] = OnlineUsers]
    /\ At(s, "on")
    /\ UNCHANGED <<chatVars, activeUsers>>

\* getUserChatIds fails: that is caught.
FailToAutoJoin(s) ==
    /\ handler[s] = "joining"
    /\ told' = [told EXCEPT ![s] = OnlineUsers]
    /\ At(s, "on")
    /\ UNCHANGED <<chatVars, activeUsers, room>>

\* presence:getInitial
HandlePresenceSync(s) ==
    /\ handler[s] \in {"joining", "on"}
    /\ told' = [told EXCEPT ![s] = OnlineUsers]
    /\ UNCHANGED <<chatVars, handler, activeUsers, room>>

\* handleDisconnect of a socket that has no user yet.
DropConnection(s) ==
    /\ "drop" \in amiss
    /\ handler[s] = "verify"
    /\ At(s, "lost")
    /\ UNCHANGED <<chatVars, activeUsers, room, told>>

\* Fault: the user is taken to have no other socket.
HandleDisconnectOfAll(s) ==
    LET u == UserOf[s]
    IN  /\ handler[s] \in {"joining", "on", "join"}
        /\ activeUsers' = [activeUsers EXCEPT ![u] = {}]
        /\ Broadcast(u, FALSE)
        /\ room' = room \ {s}
        /\ At(s, "gone")
        /\ UNCHANGED chatVars

HandleDisconnect(s) ==
    LET u == UserOf[s]
    IN  /\ handler[s] \in {"joining", "on", "join"}
        /\ activeUsers' = [activeUsers EXCEPT ![u] = @ \ {s}]
        /\ IF activeUsers[u] = {s} THEN Broadcast(u, FALSE) ELSE UNCHANGED told
        /\ room' = room \ {s}
        /\ At(s, "gone")
        /\ UNCHANGED chatVars

\* onChatJoin: the check of membership, then the room.
OnChatJoin(s) ==
    /\ handler[s] = "on"
    /\ UserOf[s] \in members
    /\ At(s, "join")
    /\ UNCHANGED <<chatVars, activeUsers, room, told>>

JoinRoom(s) ==
    /\ handler[s] = "join"
    /\ room' = room \cup {s}
    /\ At(s, "on")
    /\ UNCHANGED <<chatVars, activeUsers, told>>

OnChatLeave(s) ==
    /\ handler[s] \in {"joining", "on"}
    /\ room' = room \ {s}
    /\ UNCHANGED <<chatVars, handler, activeUsers, told>>

RealtimeInit ==
    /\ handler = [s \in Sockets |-> "off"]
    /\ activeUsers = [u \in Users |-> {}]
    /\ room = {}
    /\ told = [s \in Sockets |-> {}]

SocketNext ==
    \E s \in Sockets :
        \/ HandleConnection(s)
        \/ RefuseConnection(s)
        \/ Track(s)
        \/ AutoJoin(s)
        \/ FailToAutoJoin(s)
        \/ HandlePresenceSync(s)
        \/ DropConnection(s)
        \/ HandleDisconnect(s)
        \/ OnChatJoin(s)
        \/ JoinRoom(s)
        \/ OnChatLeave(s)

\* Chat members come and go while sockets do.
RealtimeNext ==
    \/ SocketNext
    \/ \E u, v \in Users : (AddMember(u, v) \/ RemoveMember(u)) /\ UNCHANGED realtimeVars

\* Chats and sockets together.
ChatSpec ==
    /\ ChatInit /\ RealtimeInit
    /\ [][((DmNext \/ GroupNext) /\ UNCHANGED realtimeVars) \/ RealtimeNext]_<<chatVars, realtimeVars>>
=============================================================================
