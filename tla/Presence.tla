------------------------------ MODULE Presence ------------------------------
(***************************************************************************)
(* Who is online and which rooms a socket is in: handleConnection and      *)
(* handleDisconnect of socket.handler.ts, the is_online column they write, *)
(* and login and logout of auth.service.ts, which write it too.            *)
(*                                                                         *)
(* Nobody awaits either handler.  They run side by side when a socket goes *)
(* while it is still being set up, and a statement of theirs that fails is *)
(* an unhandled rejection, which ends the process a second later           *)
(* (error.middleware.ts); no handler runs for the sockets that go with it, *)
(* and nothing resets is_online when the server starts again.              *)
(***************************************************************************)
EXTENDS Integers, FiniteSets

CONSTANTS
    Users,      \* rows of the users table
    Channels,   \* rows of the channels table
    Sockets,    \* connections; each opens once, so Sockets bounds a run
    Owner,      \* Owner[s]: the user socket s authenticated as
    Sessions    \* TRUE: users also log in and out over HTTP

ASSUME PresenceAssumption ==
    /\ Owner \in [Sockets -> Users]
    /\ Sessions \in BOOLEAN

VARIABLES
    members,    \* members[c]: the channel_members rows of c
    online,     \* online[u]: the is_online column
    lastEvent,  \* lastEvent[u]: the last presence event broadcast about u
    conn,       \* conn[s]: the connection itself
    setup,      \* setup[s]: where handleConnection is
    teardown,   \* teardown[s]: where handleDisconnect is
    toJoin,     \* toJoin[s]: channels handleConnection has yet to join s to
    rooms,      \* rooms[s]: the channels whose room s is in
    disturbed,  \* disturbed[s]: channels that changed for s since its channels were read
    tangled,    \* users whose presence was not just one socket's to write, see below
    process     \* the server process

vars == <<members, online, lastEvent, conn, setup, teardown, toJoin, rooms,
          disturbed, tangled, process>>

TypeOK ==
    /\ members \in [Channels -> SUBSET Users]
    /\ online \in [Users -> BOOLEAN]
    /\ lastEvent \in [Users -> {"none", "online", "offline"}]
    /\ conn \in [Sockets -> {"new", "open", "closed"}]
    /\ setup \in [Sockets -> {"none", "status", "query", "join", "done", "died"}]
    /\ teardown \in [Sockets -> {"none", "status", "announce", "done", "died"}]
    /\ toJoin \in [Sockets -> SUBSET Channels]
    /\ rooms \in [Sockets -> SUBSET Channels]
    /\ disturbed \in [Sockets -> SUBSET Channels]
    /\ tangled \subseteq Users
    /\ process \in {"up", "dying", "down"}
    /\ \A s \in Sockets : toJoin[s] # {} => setup[s] \in {"join", "died"}

Init ==
    /\ members \in [Channels -> SUBSET Users]
    /\ online = [u \in Users |-> FALSE]
    /\ lastEvent = [u \in Users |-> "none"]
    /\ conn = [s \in Sockets |-> "new"]
    /\ setup = [s \in Sockets |-> "none"]
    /\ teardown = [s \in Sockets |-> "none"]
    /\ toJoin = [s \in Sockets |-> {}]
    /\ rooms = [s \in Sockets |-> {}]
    /\ disturbed = [s \in Sockets |-> {}]
    /\ tangled = {}
    /\ process = "up"

Alive == process # "down"
ChannelsOf(u) == {c \in Channels : u \in members[c]}
InSetup(s) == setup[s] \in {"status", "query", "join"}
InTeardown(s) == teardown[s] \in {"status", "announce"}

\* A history: tangled holds the users of whom a socket opened beside another or beside
\* the handlers of another, or closed before its set-up was through, or was cut off by
\* an exit, and those who logged in or out over HTTP.
Busy(s) == conn[s] = "open" \/ InSetup(s) \/ InTeardown(s)
-----------------------------------------------------------------------------
(* handleConnection.  A definition whose comment starts with Fault is a     *)
(* wrong version of the next one, kept to show that a property notices it.  *)

Connect(s) ==
    /\ Alive
    /\ conn[s] = "new"
    /\ conn' = [conn EXCEPT ![s] = "open"]
    /\ setup' = [setup EXCEPT ![s] = "status"]
    /\ tangled' = IF \E q \in Sockets \ {s} : Owner[q] = Owner[s] /\ Busy(q)
                  THEN tangled \union {Owner[s]} ELSE tangled
    /\ UNCHANGED <<members, online, lastEvent, teardown, toJoin, rooms, disturbed,
                   process>>

\* updateOnlineStatus(userId, true), whether or not the socket is still there.
SetOnline(s) ==
    /\ Alive
    /\ setup[s] = "status"
    /\ online' = [online EXCEPT ![Owner[s]] = TRUE]
    /\ setup' = [setup EXCEPT ![s] = "query"]
    /\ UNCHANGED <<members, lastEvent, conn, teardown, toJoin, rooms, disturbed,
                   tangled, process>>

\* Fault: a user without channels needs nothing more.
ReadChannelsEarlyReturn(s) ==
    /\ Alive
    /\ setup[s] = "query"
    /\ toJoin' = [toJoin EXCEPT ![s] = ChannelsOf(Owner[s])]
    /\ setup' = [setup EXCEPT ![s] = IF ChannelsOf(Owner[s]) = {} THEN "done" ELSE "join"]
    /\ UNCHANGED <<members, online, lastEvent, conn, teardown, rooms, disturbed,
                   tangled, process>>

\* getUserChannels: one SELECT.
ReadChannels(s) ==
    /\ Alive
    /\ setup[s] = "query"
    /\ toJoin' = [toJoin EXCEPT ![s] = ChannelsOf(Owner[s])]
    /\ setup' = [setup EXCEPT ![s] = "join"]
    /\ UNCHANGED <<members, online, lastEvent, conn, teardown, rooms, disturbed,
                   tangled, process>>

\* Fault: the room is joined behind the socket's back.
JoinSnapshotRoomAlways(s, c) ==
    /\ Alive
    /\ setup[s] = "join"
    /\ c \in toJoin[s]
    /\ toJoin' = [toJoin EXCEPT ![s] = @ \ {c}]
    /\ rooms' = [rooms EXCEPT ![s] = @ \union {c}]
    /\ UNCHANGED <<members, online, lastEvent, conn, setup, teardown, disturbed,
                   tangled, process>>

\* One turn of the loop; join does nothing once the socket is closed.
JoinSnapshotRoom(s, c) ==
    /\ Alive
    /\ setup[s] = "join"
    /\ c \in toJoin[s]
    /\ toJoin' = [toJoin EXCEPT ![s] = @ \ {c}]
    /\ rooms' = IF conn[s] = "open" THEN [rooms EXCEPT ![s] = @ \union {c}] ELSE rooms
    /\ UNCHANGED <<members, online, lastEvent, conn, setup, teardown, disturbed,
                   tangled, process>>

\* Fault: announced as soon as the channels are known.
AnnounceOnlineEarly(s) ==
    /\ Alive
    /\ setup[s] = "join"
    /\ lastEvent' = [lastEvent EXCEPT ![Owner[s]] = "online"]
    /\ setup' = [setup EXCEPT ![s] = "done"]
    /\ UNCHANGED <<members, online, conn, teardown, toJoin, rooms, disturbed,
                   tangled, process>>

\* user:online to everyone, though the socket may be gone by now.
AnnounceOnline(s) ==
    /\ Alive
    /\ setup[s] = "join"
    /\ toJoin[s] = {}
    /\ lastEvent' = [lastEvent EXCEPT ![Owner[s]] = "online"]
    /\ setup' = [setup EXCEPT ![s] = "done"]
    /\ UNCHANGED <<members, online, conn, teardown, toJoin, rooms, disturbed,
                   tangled, process>>
-----------------------------------------------------------------------------
(* handleDisconnect.                                                        *)

\* socket.io drops the rooms, then runs the handler.
Disconnect(s) ==
    /\ Alive
    /\ conn[s] = "open"
    /\ conn' = [conn EXCEPT ![s] = "closed"]
    /\ rooms' = [rooms EXCEPT ![s] = {}]
    /\ teardown' = [teardown EXCEPT ![s] = "status"]
    /\ tangled' = IF InSetup(s) THEN tangled \union {Owner[s]} ELSE tangled
    /\ UNCHANGED <<members, online, lastEvent, setup, toJoin, disturbed, process>>

\* updateOnlineStatus(userId, false), whatever other sockets the user has.
SetOffline(s) ==
    /\ Alive
    /\ teardown[s] = "status"
    /\ online' = [online EXCEPT ![Owner[s]] = FALSE]
    /\ teardown' = [teardown EXCEPT ![s] = "announce"]
    /\ UNCHANGED <<members, lastEvent, conn, setup, toJoin, rooms, disturbed,
                   tangled, process>>

AnnounceOffline(s) ==
    /\ Alive
    /\ teardown[s] = "announce"
    /\ lastEvent' = [lastEvent EXCEPT ![Owner[s]] = "offline"]
    /\ teardown' = [teardown EXCEPT ![s] = "done"]
    /\ UNCHANGED <<members, online, conn, setup, toJoin, rooms, disturbed, tangled,
                   process>>
-----------------------------------------------------------------------------
(* Failures.                                                                *)

\* Fault: the rejection of handleConnection is logged and forgotten.
ConnectErrorIgnored(s) ==
    /\ Alive
    /\ setup[s] \in {"status", "query"}
    /\ setup' = [setup EXCEPT ![s] = "died"]
    /\ UNCHANGED <<members, online, lastEvent, conn, teardown, toJoin, rooms,
                   disturbed, tangled, process>>

\* A statement of handleConnection throws and nobody catches it.
ConnectError(s) ==
    /\ Alive
    /\ setup[s] \in {"status", "query"}
    /\ setup' = [setup EXCEPT ![s] = "died"]
    /\ process' = "dying"
    /\ UNCHANGED <<members, online, lastEvent, conn, teardown, toJoin, rooms,
                   disturbed, tangled>>

DisconnectError(s) ==
    /\ Alive
    /\ teardown[s] = "status"
    /\ teardown' = [teardown EXCEPT ![s] = "died"]
    /\ process' = "dying"
    /\ UNCHANGED <<members, online, lastEvent, conn, setup, toJoin, rooms, disturbed,
                   tangled>>

\* process.exit(1) of handleUnhandledRejection: every handler and socket is gone.
Exit ==
    /\ process = "dying"
    /\ process' = "down"
    /\ conn' = [s \in Sockets |-> IF conn[s] = "open" THEN "closed" ELSE conn[s]]
    /\ setup' = [s \in Sockets |-> IF InSetup(s) THEN "died" ELSE setup[s]]
    /\ teardown' = [s \in Sockets |-> IF InTeardown(s) THEN "died" ELSE teardown[s]]
    /\ rooms' = [s \in Sockets |-> {}]
    /\ tangled' = tangled \union {Owner[s] : s \in {q \in Sockets : Busy(q)}}
    /\ UNCHANGED <<members, online, lastEvent, toJoin, disturbed>>

Restart ==
    /\ process = "down"
    /\ process' = "up"
    /\ UNCHANGED <<members, online, lastEvent, conn, setup, teardown, toJoin, rooms,
                   disturbed, tangled>>
-----------------------------------------------------------------------------
(* Everybody else.                                                          *)

\* joinChannel and leaveChannel over HTTP; neither tells the sockets' rooms.
ChangeMembership(u, c) ==
    /\ Alive
    /\ members' = [members EXCEPT ![c] = IF u \in @ THEN @ \ {u} ELSE @ \union {u}]
    /\ disturbed' = [s \in Sockets |-> IF Owner[s] = u /\ setup[s] \in {"join", "done"}
                                       THEN disturbed[s] \union {c} ELSE disturbed[s]]
    /\ UNCHANGED <<online, lastEvent, conn, setup, teardown, toJoin, rooms, tangled,
                   process>>

\* channel:join and channel:leave from the client.
MoveRoom(s, c) ==
    /\ Alive
    /\ conn[s] = "open"
    /\ rooms' = [rooms EXCEPT ![s] = IF c \in @ THEN @ \ {c} ELSE @ \union {c}]
    /\ disturbed' = [disturbed EXCEPT ![s] = @ \union {c}]
    /\ UNCHANGED <<members, online, lastEvent, conn, setup, teardown, toJoin,
                   tangled, process>>

LogIn(u) ==
    /\ Alive /\ Sessions
    /\ online' = [online EXCEPT ![u] = TRUE]
    /\ tangled' = tangled \union {u}
    /\ UNCHANGED <<members, lastEvent, conn, setup, teardown, toJoin, rooms,
                   disturbed, process>>

LogOut(u) ==
    /\ Alive /\ Sessions
    /\ online' = [online EXCEPT ![u] = FALSE]
    /\ tangled' = tangled \union {u}
    /\ UNCHANGED <<members, lastEvent, conn, setup, teardown, toJoin, rooms,
                   disturbed, process>>
-----------------------------------------------------------------------------
SetupStep(s) ==
    \/ SetOnline(s)
    \/ ReadChannels(s)
    \/ \E c \in Channels : JoinSnapshotRoom(s, c)
    \/ AnnounceOnline(s)

TeardownStep(s) == SetOffline(s) \/ AnnounceOffline(s)

Next ==
    \/ \E s \in Sockets : \/ Connect(s) \/ SetupStep(s) \/ ConnectError(s)
                          \/ Disconnect(s) \/ TeardownStep(s) \/ DisconnectError(s)
                          \/ \E c \in Channels : MoveRoom(s, c)
    \/ \E u \in Users : \/ LogIn(u) \/ LogOut(u)
                        \/ \E c \in Channels : ChangeMembership(u, c)
    \/ Exit
    \/ Restart

Spec == Init /\ [][Next]_vars

\* Node resumes the handlers and fires the exit timer.
Fairness ==
    /\ \A s \in Sockets : WF_vars(SetupStep(s)) /\ WF_vars(TeardownStep(s))
    /\ WF_vars(Exit)

FairSpec == Spec /\ Fairness
-----------------------------------------------------------------------------
(* Once handleConnection is through, a connected socket hears exactly the  *)
(* channels its user belongs to, except those whose membership changed     *)
(* after the channels were read or whose room the client moved itself: the *)
(* comment "Join user's channels" is kept, and only for that instant.      *)
RoomsMatchRoster ==
    \A s \in Sockets : setup[s] = "done" /\ conn[s] = "open" =>
        \A c \in Channels \ disturbed[s] : c \in rooms[s] <=> Owner[s] \in members[c]

(* A socket that closed while handleConnection was still joining rooms for *)
(* it is in none, then or later, so no event is addressed to it.           *)
ClosedHoldsNoRoom == \A s \in Sockets : conn[s] = "closed" => rooms[s] = {}

(* No socket stays connected half set up: either handleConnection gets to  *)
(* its end, or the socket closes, or the error that stopped the handler    *)
(* takes the process down and the client can connect anew.                 *)
ConnectSettles ==
    \A s \in Sockets : (conn[s] = "open") ~> (setup[s] = "done" \/ conn[s] = "closed")

Connected(u) == \E s \in Sockets : Owner[s] = u /\ conn[s] = "open"

\* Nothing about u is on its way in a running process.
Quiet(u) ==
    /\ process = "up"
    /\ \A s \in Sockets : Owner[s] = u => /\ setup[s] \in {"none", "done"}
                                          /\ teardown[s] \in {"none", "done"}

(* is_online and the last of the broadcasts "user:online" and              *)
(* "user:offline" are right about a user once no handler about the user is *)
(* running, provided the user had one socket at a time, which closed only  *)
(* after its set-up, no exit cut it off and nobody logged in or out.  Each *)
(* of these conditions is needed.                                          *)
PresenceFollowsSocket ==
    \A u \in Users \ tangled :
        Quiet(u) => /\ online[u] <=> Connected(u)
                    /\ lastEvent[u] = "online" <=> Connected(u)
=============================================================================
