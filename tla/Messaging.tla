----------------------------- MODULE Messaging -----------------------------
(***************************************************************************)
(* Messages from the request to the sockets: sendMessage and deleteMessage *)
(* of business.services.ts, called by the REST controller or by the        *)
(* message:send handler of socket.handler.ts, the statements they run, and *)
(* the events the rooms get.  Handlers interleave at every await, and any  *)
(* statement may fail; what ran before stays, nothing is retried.          *)
(*                                                                         *)
(* A send request and the message it stores have one name.  Of a text only *)
(* the names after its @ signs matter.  Membership changes by the INSERT   *)
(* and DELETE of module Channels.  Typing and read receipts are relayed    *)
(* without any state and are left out.                                     *)
(***************************************************************************)
EXTENDS Integers, FiniteSets, Sequences

CONSTANTS
    Users,      \* rows of the users table; a user's name stands for the user
    Channels,   \* rows of the channels table
    Messages,   \* send requests, each served once: Messages bounds a run
    Deletes,    \* delete requests, likewise
    Sockets,    \* connected sockets
    Owner,      \* Owner[s]: the user socket s authenticated as
    Texts,      \* the sequences of names a text may mention, users or not
    Nobody      \* the user, channel or message of a request not yet made

ASSUME MessagingAssumption ==
    /\ Owner \in [Sockets -> Users]
    /\ Nobody \notin Users \union Channels \union Messages
    /\ IsFiniteSet(Messages)
    /\ \A text \in Texts : text \in Seq({text[i] : i \in DOMAIN text})

VARIABLES
    members,        \* members[c]: the channel_members rows of c
    messageCount,   \* messageCount[c]: the message_count column
    lastMessage,    \* lastMessage[c]: the message that set last_message_at
    stored,         \* the messages with a row
    deleted,        \* those of them whose deleted_at is set
    mentions,       \* mentions[m]: the users of m's mentions rows, in order
    send, del,      \* how far each request has come
    rooms,          \* rooms[s]: the channels whose room socket s is in
    view,           \* view[s]: messages s was told of and not told to remove
    copies,         \* copies[s][m]: message:new events of m that s got
    missed,         \* missed[s]: channels with an event while s was not in the room
    overtaken,      \* messages whose last message:deleted went out before message:new
    entitled        \* sends whose sender was a member at some time since they came

tables == <<members, messageCount, lastMessage, stored, deleted, mentions>>
clients == <<rooms, view, copies, missed, overtaken>>
vars == <<tables, send, del, clients, entitled>>

SendStages == {"check", "create", "mention", "count", "stamp"}
DeleteStages == {"find", "softDelete"}
Ended == {"done", "rejected", "failed"}

TypeOK ==
    /\ members \in [Channels -> SUBSET Users]
    /\ messageCount \in [Channels -> Nat]
    /\ lastMessage \in [Channels -> Messages \union {Nobody}]
    /\ deleted \subseteq stored /\ stored \subseteq Messages
    /\ mentions \in [Messages -> Seq(Users)]
    /\ send \in [Messages -> [sender: Users \union {Nobody},
                              channel: Channels \union {Nobody},
                              via: {"http", "socket"},
                              text: Texts \union {<< >>},
                              handled: Nat,
                              at: {"idle", "emit"} \union SendStages \union Ended]]
    /\ del \in [Deletes -> [user: Users \union {Nobody},
                            message: Messages \union {Nobody},
                            at: {"idle", "emit"} \union DeleteStages \union Ended]]
    /\ rooms \in [Sockets -> SUBSET Channels]
    /\ view \in [Sockets -> SUBSET Messages]
    /\ copies \in [Sockets -> [Messages -> Nat]]
    /\ missed \in [Sockets -> SUBSET Channels]
    /\ overtaken \subseteq Messages
    /\ entitled \subseteq Messages

IdleSend == [sender |-> Nobody, channel |-> Nobody, via |-> "http", text |-> << >>,
             handled |-> 0, at |-> "idle"]
IdleDelete == [user |-> Nobody, message |-> Nobody, at |-> "idle"]

Init ==
    /\ members = [c \in Channels |-> {}]
    /\ messageCount = [c \in Channels |-> 0]
    /\ lastMessage = [c \in Channels |-> Nobody]
    /\ stored = {} /\ deleted = {}
    /\ mentions = [m \in Messages |-> << >>]
    /\ send = [m \in Messages |-> IdleSend]
    /\ del = [d \in Deletes |-> IdleDelete]
    /\ rooms = [s \in Sockets |-> {}]
    /\ view = [s \in Sockets |-> {}]
    /\ copies = [s \in Sockets |-> [m \in Messages |-> 0]]
    /\ missed = [s \in Sockets |-> {}]
    /\ overtaken = {}
    /\ entitled = {}

GotoSend(m, stage) == send' = [send EXCEPT ![m].at = stage]
GotoDelete(d, stage) == del' = [del EXCEPT ![d].at = stage]
-----------------------------------------------------------------------------
(* Membership and rooms.                                                    *)

MemberJoins(c, u) ==
    /\ u \notin members[c]
    /\ members' = [members EXCEPT ![c] = @ \union {u}]
    /\ entitled' = entitled \union
          {m \in Messages : send[m].at = "check" /\ send[m].sender = u /\ send[m].channel = c}
    /\ UNCHANGED <<messageCount, lastMessage, stored, deleted, mentions, send, del, clients>>

\* No room is left: the sockets of a user who leaves go on hearing the channel.
MemberLeaves(c, u) ==
    /\ u \in members[c]
    /\ members' = [members EXCEPT ![c] = @ \ {u}]
    /\ UNCHANGED <<messageCount, lastMessage, stored, deleted, mentions, send, del,
                   clients, entitled>>

\* handleJoinChannel: the channel:join event.
JoinRoom(s, c) ==
    /\ rooms' = [rooms EXCEPT ![s] = @ \union {c}]
    /\ UNCHANGED <<tables, send, del, view, copies, missed, overtaken, entitled>>

\* handleLeaveChannel: the channel:leave event.
LeaveRoom(s, c) ==
    /\ rooms' = [rooms EXCEPT ![s] = @ \ {c}]
    /\ UNCHANGED <<tables, send, del, view, copies, missed, overtaken, entitled>>
-----------------------------------------------------------------------------
(* sendMessage.  A definition whose comment starts with Fault is a wrong    *)
(* version of the next one, kept to show that a property notices it.        *)

ArriveSend(m, u, c, via, text) ==
    /\ send[m].at = "idle"
    /\ send' = [send EXCEPT ![m] = [sender |-> u, channel |-> c, via |-> via, text |-> text,
                                    handled |-> 0, at |-> "check"]]
    /\ entitled' = IF u \in members[c] THEN entitled \union {m} ELSE entitled
    /\ UNCHANGED <<tables, del, clients>>

\* Fault: membership of any channel will do.
CheckAnyMember(m) ==
    /\ send[m].at = "check"
    /\ GotoSend(m, IF \E c \in Channels : send[m].sender \in members[c]
                   THEN "create" ELSE "rejected")
    /\ UNCHANGED <<tables, del, clients, entitled>>

\* isUserMember.
CheckMember(m) ==
    /\ send[m].at = "check"
    /\ GotoSend(m, IF send[m].sender \in members[send[m].channel]
                   THEN "create" ELSE "rejected")
    /\ UNCHANGED <<tables, del, clients, entitled>>

\* Fault: the event goes out as soon as the row is there.
StoreAndAnnounce(m) ==
    /\ send[m].at = "create"
    /\ stored' = stored \union {m}
    /\ GotoSend(m, "emit")
    /\ UNCHANGED <<members, messageCount, lastMessage, deleted, mentions, del, clients, entitled>>

\* messageRepository.create.  The membership read before is not looked at again.
StoreMessage(m) ==
    /\ send[m].at = "create"
    /\ stored' = stored \union {m}
    /\ GotoSend(m, IF send[m].text = << >> THEN "count" ELSE "mention")
    /\ UNCHANGED <<members, messageCount, lastMessage, deleted, mentions, del, clients, entitled>>

\* Fault: a name that is nobody's is not stepped over.
StoreMentionStuck(m) ==
    /\ send[m].at = "mention"
    /\ LET name == send[m].text[send[m].handled + 1]
       IN  /\ name \in Users
           /\ mentions' = [mentions EXCEPT ![m] = Append(@, name)]
    /\ send' = [send EXCEPT ![m].handled = @ + 1,
                            ![m].at = IF send[m].handled + 1 = Len(send[m].text)
                                      THEN "count" ELSE "mention"]
    /\ UNCHANGED <<members, messageCount, lastMessage, stored, deleted, del, clients, entitled>>

\* One turn of the mention loop: findByUsername, then a row if it names a user.
StoreMention(m) ==
    /\ send[m].at = "mention"
    /\ LET name == send[m].text[send[m].handled + 1]
       IN  mentions' = IF name \in Users
                       THEN [mentions EXCEPT ![m] = Append(@, name)]
                       ELSE mentions
    /\ send' = [send EXCEPT ![m].handled = @ + 1,
                            ![m].at = IF send[m].handled + 1 = Len(send[m].text)
                                      THEN "count" ELSE "mention"]
    /\ UNCHANGED <<members, messageCount, lastMessage, stored, deleted, del, clients, entitled>>

\* incrementMessageCount, first statement.
CountMessage(m) ==
    /\ send[m].at = "count"
    /\ messageCount' = [messageCount EXCEPT ![send[m].channel] = @ + 1]
    /\ GotoSend(m, "stamp")
    /\ UNCHANGED <<members, lastMessage, stored, deleted, mentions, del, clients, entitled>>

\* incrementMessageCount, second statement.
StampChannel(m) ==
    /\ send[m].at = "stamp"
    /\ lastMessage' = [lastMessage EXCEPT ![send[m].channel] = m]
    /\ GotoSend(m, "emit")
    /\ UNCHANGED <<members, messageCount, stored, deleted, mentions, del, clients, entitled>>

\* n events about message m to channel c's room; heard[s] is what s shows once it has them.
Emit(c, m, n, heard) ==
    LET there == {s \in Sockets : c \in rooms[s]}
    IN  /\ view' = [s \in Sockets |-> IF s \in there THEN heard[s] ELSE view[s]]
        /\ copies' = [s \in Sockets |-> IF s \in there
                                        THEN [copies[s] EXCEPT ![m] = @ + n] ELSE copies[s]]
        /\ missed' = [s \in Sockets |-> IF s \in there
                                        THEN missed[s] ELSE missed[s] \union {c}]
        /\ UNCHANGED rooms

\* Fault: socket.to(room), which leaves the sender's own sockets out.
EmitNewToOthers(m) ==
    /\ send[m].at = "emit"
    /\ Emit(send[m].channel, m, IF send[m].via = "socket" THEN 2 ELSE 1,
            [s \in Sockets |-> IF Owner[s] = send[m].sender THEN view[s] ELSE view[s] \union {m}])
    /\ GotoSend(m, "done")
    /\ UNCHANGED <<tables, del, overtaken, entitled>>

\* sendMessage emits message:new; handleSendMessage emits it again, in the same turn
\* of the event loop.  Then the reply.
EmitNew(m) ==
    /\ send[m].at = "emit"
    /\ Emit(send[m].channel, m, IF send[m].via = "socket" THEN 2 ELSE 1,
            [s \in Sockets |-> view[s] \union {m}])
    /\ GotoSend(m, "done")
    /\ UNCHANGED <<tables, del, overtaken, entitled>>

\* Fault: incrementMessageCount is run again when its second statement fails.
SendErrorRetriesCount(m) ==
    /\ send[m].at \in SendStages
    /\ GotoSend(m, IF send[m].at = "stamp" THEN "count" ELSE "failed")
    /\ UNCHANGED <<tables, del, clients, entitled>>

\* A statement throws: a 500, or an error event to the sending socket.
SendError(m) ==
    /\ send[m].at \in SendStages
    /\ GotoSend(m, "failed")
    /\ UNCHANGED <<tables, del, clients, entitled>>
-----------------------------------------------------------------------------
(* deleteMessage.                                                           *)

\* getChannelMessages shows the row, and with it the id, from create on: a delete
\* may come while the send still has mentions, count, stamp or event before it.
ArriveDelete(d, u, m) ==
    /\ del[d].at = "idle"
    /\ m \in stored
    /\ del' = [del EXCEPT ![d] = [user |-> u, message |-> m, at |-> "find"]]
    /\ UNCHANGED <<tables, send, clients, entitled>>

\* findById, which sees no deleted row, then the sender's id.
FindMessage(d) ==
    /\ del[d].at = "find"
    /\ LET m == del[d].message
       IN  GotoDelete(d, IF m \in stored \ deleted /\ send[m].sender = del[d].user
                         THEN "softDelete" ELSE "rejected")
    /\ UNCHANGED <<tables, send, clients, entitled>>

\* Fault: the message is also taken off its channel's count.
SoftDeleteUncounts(d) ==
    /\ del[d].at = "softDelete"
    /\ deleted' = deleted \union {del[d].message}
    /\ messageCount' = [messageCount EXCEPT ![send[del[d].message].channel] = @ - 1]
    /\ GotoDelete(d, "emit")
    /\ UNCHANGED <<members, lastMessage, stored, mentions, send, clients, entitled>>

\* messageRepository.delete, on whatever is there by now: two deletes of one
\* message may both get here.
SoftDelete(d) ==
    /\ del[d].at = "softDelete"
    /\ deleted' = deleted \union {del[d].message}
    /\ GotoDelete(d, "emit")
    /\ UNCHANGED <<members, messageCount, lastMessage, stored, mentions, send, clients, entitled>>

EmitDeleted(d) ==
    /\ del[d].at = "emit"
    /\ LET m == del[d].message
       IN  /\ Emit(send[m].channel, m, 0, [s \in Sockets |-> view[s] \ {m}])
           /\ overtaken' = IF send[m].at \in Ended
                           THEN overtaken \ {m} ELSE overtaken \union {m}
    /\ GotoDelete(d, "done")
    /\ UNCHANGED <<tables, send, entitled>>

DeleteError(d) ==
    /\ del[d].at \in DeleteStages
    /\ GotoDelete(d, "failed")
    /\ UNCHANGED <<tables, send, clients, entitled>>
-----------------------------------------------------------------------------
SendStep(m) ==
    \/ CheckMember(m)
    \/ StoreMessage(m)
    \/ StoreMention(m)
    \/ CountMessage(m)
    \/ StampChannel(m)
    \/ EmitNew(m)

DeleteStep(d) == FindMessage(d) \/ SoftDelete(d) \/ EmitDeleted(d)

Arrive ==
    \/ \E m \in Messages, u \in Users, c \in Channels, via \in {"http", "socket"},
          text \in Texts : ArriveSend(m, u, c, via, text)
    \/ \E d \in Deletes, u \in Users, m \in Messages : ArriveDelete(d, u, m)

Next ==
    \/ Arrive
    \/ \E m \in Messages : SendStep(m) \/ SendError(m)
    \/ \E d \in Deletes : DeleteStep(d) \/ DeleteError(d)
    \/ \E c \in Channels, u \in Users : MemberJoins(c, u) \/ MemberLeaves(c, u)
    \/ \E s \in Sockets, c \in Channels : JoinRoom(s, c) \/ LeaveRoom(s, c)

Spec == Init /\ [][Next]_vars

\* Node resumes every handler whose statement was answered, and the database
\* answers every statement, with a result or an error.
Fairness ==
    /\ \A m \in Messages : WF_vars(SendStep(m))
    /\ \A d \in Deletes : WF_vars(DeleteStep(d))

FairSpec == Spec /\ Fairness
-----------------------------------------------------------------------------
Posts(c) == {m \in stored : send[m].channel = c}

\* How many of the first n names of a text are users'.
UsersAmong(text, n) == Cardinality({i \in 1..n : text[i] \in Users})

\* rows holds the users' names among the first n of a text, in their order.
Recorded(rows, text, n) ==
    /\ Len(rows) = UsersAmong(text, n)
    /\ \A i \in 1..n : text[i] \in Users => rows[UsersAmong(text, i)] = text[i]

(* What a client hears of is complete: whenever a socket has a message:new *)
(* event of a message, its row, all its mention rows (one per name that is *)
(* a user's, repeated names included) and its channel's count and stamp    *)
(* are already there for whoever reads them on hearing it (the row perhaps *)
(* with deleted_at set by then).                                           *)
AnnouncedIsComplete ==
    \A s \in Sockets, m \in Messages :
        copies[s][m] > 0 =>
            /\ m \in stored
            /\ Recorded(mentions[m], send[m].text, Len(send[m].text))
            /\ lastMessage[send[m].channel] # Nobody
            /\ messageCount[send[m].channel] > 0

(* message_count never claims a message that is not there, and counts      *)
(* every message whose send got past its increment, each once, whatever    *)
(* else fails; deleting a message leaves it counted.                       *)
CountBounded ==
    \A c \in Channels :
        /\ messageCount[c] <= Cardinality(Posts(c))
        /\ messageCount[c] >=
              Cardinality({m \in Posts(c) : send[m].at \in {"stamp", "emit", "done"}})

(* The membership sendMessage reads may be gone when the row is written,   *)
(* but no message is ever stored for a user who was not a member of that   *)
(* channel at some moment of the request.                                  *)
OnlyEntitledPost == stored \subseteq entitled

Settled(c) ==
    /\ \A m \in Messages : send[m].channel = c => send[m].at \in {"done", "rejected"}
    /\ \A d \in Deletes : del[d].at \in {"idle", "done", "rejected"}

(* A client that was in the room for every event of a channel and applies  *)
(* message:new and message:deleted as they come shows, once the channel's  *)
(* requests have ended without an error, exactly the messages              *)
(* getChannelMessages would return and those overtaken: deleted while they *)
(* were still being sent, so that message:deleted found nothing to remove  *)
(* and message:new came after it.  No other message is lost or comes back  *)
(* after its removal, and repeated events do no harm.                      *)
ViewConverges ==
    \A s \in Sockets, c \in Channels :
        Settled(c) /\ c \notin missed[s] =>
            {m \in view[s] : send[m].channel = c} = Posts(c) \ (deleted \ overtaken)

(* Every request that came is answered: no text keeps the mention loop     *)
(* from ending, and the errors of others do not hold a handler up.         *)
EveryRequestEnds ==
    /\ \A m \in Messages : (send[m].at = "check") ~> (send[m].at \in Ended)
    /\ \A d \in Deletes : (del[d].at = "find") ~> (del[d].at \in Ended)

(* README.md: "@mention system with real-time notifications".  When a send *)
(* has succeeded, each user it mentions who has sockets connected has      *)
(* heard of it on one of them.                                             *)
MentionsNotified ==
    \A m \in Messages : send[m].at = "done" =>
        \A i \in DOMAIN mentions[m] :
            LET theirs == {s \in Sockets : Owner[s] = mentions[m][i]}
            IN  theirs # {} => \E s \in theirs : copies[s][m] > 0
=============================================================================
