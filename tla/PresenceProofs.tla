--------------------------- MODULE PresenceProofs ---------------------------
(***************************************************************************)
(* Theorems about Presence for any users, channels and sockets.  The rooms *)
(* of a socket are followed through handleConnection: what it still has to *)
(* join and what it has joined are together the channels it read.  The     *)
(* column and the broadcasts are followed through the one socket that a    *)
(* user outside tangled has at a time.                                     *)
(***************************************************************************)
EXTENDS Presence, TLAPS

\* How a connection and its two handlers belong together.
ShapeOK(s) ==
    /\ conn[s] = "new" => setup[s] = "none" /\ toJoin[s] = {} /\ rooms[s] = {}
    /\ conn[s] = "open" => setup[s] # "none"
    /\ conn[s] # "closed" => teardown[s] = "none"

\* An open socket in set-up: before its channels are read it is in no room that the
\* client did not ask for; then it is in the rooms read, or has them still to join.
RoomsOK(s) ==
    conn[s] = "open" =>
        /\ setup[s] \in {"status", "query"} => rooms[s] \subseteq disturbed[s]
        /\ setup[s] \in {"join", "done"} =>
             \A c \in Channels \ disturbed[s] :
                c \in rooms[s] \union toJoin[s] <=> Owner[s] \in members[c]

IInv ==
    /\ TypeOK /\ ClosedHoldsNoRoom
    /\ \A s \in Sockets : ShapeOK(s) /\ RoomsOK(s)

\* What the column and the broadcasts say while socket s is the user's only busy one.
PhaseOK(s) ==
    /\ online[Owner[s]] <=> \/ setup[s] \in {"query", "join"}
                            \/ setup[s] = "done" /\ teardown[s] # "announce"
    /\ lastEvent[Owner[s]] = "online" <=> setup[s] = "done"

\* No handler about u ended in an error.
Sound(u) ==
    \A s \in Sockets : Owner[s] = u => setup[s] # "died" /\ teardown[s] # "died"

PresenceOK(u) ==
    u \notin tangled =>
        /\ \A s \in Sockets : Owner[s] = u /\ InSetup(s) => conn[s] = "open"
        /\ \A s, q \in Sockets :
             Owner[s] = u /\ Owner[q] = u /\ Busy(s) /\ Busy(q) => s = q
        /\ Sound(u) =>
             /\ \A s \in Sockets : Owner[s] = u /\ Busy(s) => PhaseOK(s)
             /\ (\A s \in Sockets : Owner[s] = u => ~Busy(s))
                  => ~online[u] /\ lastEvent[u] # "online"
-----------------------------------------------------------------------------
LEMMA InitIInv == Init => IInv
  BY DEF Init, IInv, TypeOK, ClosedHoldsNoRoom, ShapeOK, RoomsOK

LEMMA NextKeepsIInv == IInv /\ [Next]_vars => IInv'
<1> SUFFICES ASSUME IInv, [Next]_vars
             PROVE  IInv'
  OBVIOUS
<1> USE PresenceAssumption DEF IInv, TypeOK, ClosedHoldsNoRoom, ShapeOK, RoomsOK, Alive
<1>1. ASSUME NEW s \in Sockets, Connect(s)
      PROVE  IInv'
  BY <1>1 DEF Connect
<1>2. ASSUME NEW s \in Sockets, SetOnline(s)
      PROVE  IInv'
  BY <1>2 DEF SetOnline
<1>3. ASSUME NEW s \in Sockets, ReadChannels(s)
      PROVE  IInv'
  BY <1>3 DEF ReadChannels, ChannelsOf
<1>4. ASSUME NEW s \in Sockets, NEW c \in Channels, JoinSnapshotRoom(s, c)
      PROVE  IInv'
  BY <1>4 DEF JoinSnapshotRoom
<1>5. ASSUME NEW s \in Sockets, AnnounceOnline(s)
      PROVE  IInv'
  BY <1>5 DEF AnnounceOnline
<1>6. ASSUME NEW s \in Sockets, Disconnect(s)
      PROVE  IInv'
  BY <1>6 DEF Disconnect
<1>7. ASSUME NEW s \in Sockets, SetOffline(s) \/ AnnounceOffline(s)
      PROVE  IInv'
  <2>1. CASE SetOffline(s)
    BY <2>1 DEF SetOffline
  <2>2. CASE AnnounceOffline(s)
    BY <2>2 DEF AnnounceOffline
  <2>3. QED
    BY <1>7, <2>1, <2>2
<1>8. ASSUME NEW s \in Sockets, ConnectError(s) \/ DisconnectError(s)
      PROVE  IInv'
  BY <1>8 DEF ConnectError, DisconnectError
<1>9. ASSUME NEW s \in Sockets, NEW c \in Channels, MoveRoom(s, c)
      PROVE  IInv'
  BY <1>9 DEF MoveRoom
<1>10. ASSUME NEW u \in Users, NEW c \in Channels, ChangeMembership(u, c)
       PROVE  IInv'
  BY <1>10 DEF ChangeMembership
<1>11. ASSUME NEW u \in Users, LogIn(u) \/ LogOut(u)
       PROVE  IInv'
  <2>1. /\ UNCHANGED <<members, lastEvent, conn, setup, teardown, toJoin, rooms, disturbed,
                       process>>
        /\ tangled' = tangled \union {u}
        /\ online' \in {[online EXCEPT ![u] = TRUE], [online EXCEPT ![u] = FALSE]}
    BY <1>11 DEF LogIn, LogOut
  <2>2. TypeOK'
    BY <2>1
  <2>3. ClosedHoldsNoRoom'
    BY <2>1
  <2>4. ASSUME NEW s \in Sockets
        PROVE  ShapeOK(s)' /\ RoomsOK(s)'
    BY <2>1
  <2>5. QED
    BY <2>2, <2>3, <2>4
<1>12. CASE Exit
  BY <1>12 DEF Exit, InSetup, InTeardown
<1>13. CASE Restart
  BY <1>13 DEF Restart
<1>14. CASE UNCHANGED vars
  BY <1>14 DEF vars
<1>15. QED
  BY <1>1, <1>2, <1>3, <1>4, <1>5, <1>6, <1>7, <1>8, <1>9, <1>10, <1>11, <1>12, <1>13, <1>14
     DEF Next, SetupStep, TeardownStep
-----------------------------------------------------------------------------
LEMMA InitPresenceOK == Init => \A u \in Users : PresenceOK(u)
  BY DEF Init, PresenceOK, Sound, Busy, InSetup, InTeardown

LEMMA NextKeepsPresenceOK ==
  ASSUME IInv, [Next]_vars, NEW u \in Users, PresenceOK(u)
  PROVE  PresenceOK(u)'
<1> USE PresenceAssumption
    DEF PresenceOK, PhaseOK, Sound, Busy, InSetup, InTeardown, Alive
<1>0. TypeOK /\ \A s \in Sockets : ShapeOK(s)
  BY DEF IInv
<1> USE <1>0 DEF TypeOK, ShapeOK
<1>1. ASSUME NEW s \in Sockets, Connect(s)
      PROVE  PresenceOK(u)'
  BY <1>1 DEF Connect
<1>2. ASSUME NEW s \in Sockets, SetOnline(s)
      PROVE  PresenceOK(u)'
  BY <1>2 DEF SetOnline
<1>3. ASSUME NEW s \in Sockets, ReadChannels(s)
      PROVE  PresenceOK(u)'
  BY <1>3 DEF ReadChannels
<1>4. ASSUME NEW s \in Sockets, NEW c \in Channels, JoinSnapshotRoom(s, c)
      PROVE  PresenceOK(u)'
  BY <1>4 DEF JoinSnapshotRoom
<1>5. ASSUME NEW s \in Sockets, AnnounceOnline(s)
      PROVE  PresenceOK(u)'
  BY <1>5 DEF AnnounceOnline
<1>6. ASSUME NEW s \in Sockets, Disconnect(s)
      PROVE  PresenceOK(u)'
  BY <1>6 DEF Disconnect
<1>7. ASSUME NEW s \in Sockets, SetOffline(s)
      PROVE  PresenceOK(u)'
  BY <1>7 DEF SetOffline
<1>8. ASSUME NEW s \in Sockets, AnnounceOffline(s)
      PROVE  PresenceOK(u)'
  BY <1>8 DEF AnnounceOffline
<1>9. ASSUME NEW s \in Sockets, ConnectError(s) \/ DisconnectError(s)
      PROVE  PresenceOK(u)'
  BY <1>9 DEF ConnectError, DisconnectError
<1>10. ASSUME NEW v \in Users, LogIn(v) \/ LogOut(v)
       PROVE  PresenceOK(u)'
  BY <1>10 DEF LogIn, LogOut
<1>11. CASE Exit
  BY <1>11 DEF Exit
<1>12. CASE Restart \/ UNCHANGED vars
  BY <1>12 DEF Restart, vars
<1>13. ASSUME NEW s \in Sockets, NEW c \in Channels, MoveRoom(s, c)
       PROVE  PresenceOK(u)'
  BY <1>13 DEF MoveRoom
<1>14. ASSUME NEW v \in Users, NEW c \in Channels, ChangeMembership(v, c)
       PROVE  PresenceOK(u)'
  BY <1>14 DEF ChangeMembership
<1>15. QED
  BY <1>1, <1>2, <1>3, <1>4, <1>5, <1>6, <1>7, <1>8, <1>9, <1>10, <1>11, <1>12, <1>13, <1>14
     DEF Next, SetupStep, TeardownStep
-----------------------------------------------------------------------------
LEMMA Inductive == Spec => []IInv
  BY InitIInv, NextKeepsIInv, PTL DEF Spec

LEMMA InductivePresence == Spec => []\A u \in Users : PresenceOK(u)
<1>1. IInv /\ (\A u \in Users : PresenceOK(u)) /\ [Next]_vars
        => (\A u \in Users : PresenceOK(u))'
  BY NextKeepsPresenceOK
<1>2. QED
  BY <1>1, InitPresenceOK, Inductive, PTL DEF Spec

(* Connections, handlers, columns and rooms keep their types, and only a   *)
(* handler that joins rooms, or was cut off there, has rooms to join       *)
(* (handleConnection, handleDisconnect).                                   *)
THEOREM TypeCorrect == Spec => []TypeOK
<1>1. IInv => TypeOK
  BY DEF IInv
<1>2. QED
  BY <1>1, Inductive, PTL

(* Once a connection is set up its rooms are the channels of its user,     *)
(* except those that changed after they were read ("Join user's            *)
(* channels", handleConnection).                                           *)
THEOREM RoomsCorrect == Spec => []RoomsMatchRoster
<1>1. IInv => RoomsMatchRoster
  BY DEF IInv, TypeOK, RoomsOK, RoomsMatchRoster
<1>2. QED
  BY <1>1, Inductive, PTL

(* No closed socket is in a room, also one that closed while               *)
(* handleConnection was joining rooms for it.                              *)
THEOREM ClosedInNoRoom == Spec => []ClosedHoldsNoRoom
<1>1. IInv => ClosedHoldsNoRoom
  BY DEF IInv
<1>2. QED
  BY <1>1, Inductive, PTL

(* is_online and the last broadcast are right about every user who had one *)
(* socket at a time and whom no error, exit or login disturbed             *)
(* (updateOnlineStatus, user:online, user:offline).                        *)
THEOREM PresenceCorrect == Spec => []PresenceFollowsSocket
<1>1. ASSUME IInv, \A u \in Users : PresenceOK(u)
      PROVE  PresenceFollowsSocket
  <2> SUFFICES ASSUME NEW u \in Users, u \notin tangled, Quiet(u)
               PROVE  /\ online[u] <=> Connected(u)
                      /\ lastEvent[u] = "online" <=> Connected(u)
    BY DEF PresenceFollowsSocket
  <2>1. PresenceOK(u) /\ \A s \in Sockets : ShapeOK(s)
    BY <1>1 DEF IInv
  <2>2. Sound(u)
    BY DEF Quiet, Sound
  <2>3. CASE Connected(u)
    <3>1. PICK s \in Sockets : Owner[s] = u /\ conn[s] = "open"
      BY <2>3 DEF Connected
    <3>2. setup[s] = "done" /\ teardown[s] = "none" /\ Busy(s)
      BY <2>1, <3>1 DEF Quiet, ShapeOK, Busy
    <3>3. PhaseOK(s)
      BY <2>1, <2>2, <3>1, <3>2 DEF PresenceOK
    <3>4. QED
      BY <2>3, <3>1, <3>2, <3>3 DEF PhaseOK
  <2>4. CASE ~Connected(u)
    <3>1. \A s \in Sockets : Owner[s] = u => ~Busy(s)
      BY <2>4 DEF Connected, Quiet, Busy, InSetup, InTeardown
    <3>2. QED
      BY <2>1, <2>2, <2>4, <3>1 DEF PresenceOK
  <2>5. QED
    BY <2>3, <2>4
<1>2. QED
  BY <1>1, Inductive, InductivePresence, PTL
=============================================================================
