------------------------------ MODULE Channels ------------------------------
(***************************************************************************)
(* Channel membership as the server keeps it: createChannel, joinChannel   *)
(* and leaveChannel of business.services.ts over the statements of         *)
(* channel.repository.ts.  Each request is an async handler; between two   *)
(* of its awaits any other request may run, and any statement may fail.    *)
(* No handler opens a transaction, so what ran before a failure stays.     *)
(***************************************************************************)
EXTENDS Integers, FiniteSets

CONSTANTS
    Users,          \* rows of the users table
    Channels,       \* ids a channel row may get
    Kinds,          \* the ChannelType values in use
    Nobody,         \* createdById of a row that does not exist
    Requests,       \* HTTP requests; each is served once, so Requests bounds a run
    Nowhere         \* the channel of a request that has none yet

ASSUME ChannelsAssumption ==
    /\ "private" \in Kinds
    /\ "absent" \notin Kinds
    /\ Nobody \notin Users
    /\ Nowhere \notin Channels
    /\ IsFiniteSet(Users)
    /\ IsFiniteSet(Requests)

VARIABLES
    kind, creator, members,  \* as in Roster: the channels and channel_members tables
    memberCount,    \* memberCount[c]: the member_count column
    req,            \* req[r]: how far request r has come
    heard           \* heard[c][u]: last member event about u emitted to room channel:c

vars == <<kind, creator, members, memberCount, req, heard>>

\* The await a handler is suspended at, or how it ended.
DbStages == {"save", "find", "insert", "increment", "delete", "decrement"}
Active == DbStages \union {"emit"}
Ended == {"done", "rejected", "failed"}

\* row: what the channel_members statement of this request did;
\* counted: how often its member_count statement ran;
\* met: 1 when another request of the user was running as this one came.
Request == [op: {"none", "create", "join", "leave"},
            user: Users \union {Nobody},
            channel: Channels \union {Nowhere},
            kind: Kinds \union {"absent"},
            at: {"idle"} \union Active \union Ended,
            row: {"none", "inserted", "deleted", "noop"},
            counted: {0, 1},
            met: {0, 1}]

TypeOK ==
    /\ kind \in [Channels -> Kinds \union {"absent"}]
    /\ creator \in [Channels -> Users \union {Nobody}]
    /\ members \in [Channels -> SUBSET Users]
    /\ memberCount \in [Channels -> Int]
    /\ req \in [Requests -> Request]
    /\ heard \in [Channels -> [Users -> {"nothing", "joined", "left"}]]
    /\ \A c \in Channels : kind[c] # "absent" => creator[c] \in Users

Idle == [op |-> "none", user |-> Nobody, channel |-> Nowhere, kind |-> "absent",
         at |-> "idle", row |-> "none", counted |-> 0, met |-> 0]

Init ==
    /\ kind = [c \in Channels |-> "absent"]
    /\ creator = [c \in Channels |-> Nobody]
    /\ members = [c \in Channels |-> {}]
    /\ memberCount = [c \in Channels |-> 0]
    /\ req = [r \in Requests |-> Idle]
    /\ heard = [c \in Channels |-> [u \in Users |-> "nothing"]]

Running(r) == req[r].at \in Active
Put(r, request) == req' = [req EXCEPT ![r] = request]
Goto(r, stage) == Put(r, [req[r] EXCEPT !.at = stage])

Others(u) == IF \E q \in Requests : req[q].user = u /\ Running(q) THEN 1 ELSE 0
-----------------------------------------------------------------------------
(* Arrivals: the routes call the service with the authenticated user.       *)

\* The body has the fields channelValidators.create checks, and no id of its own.
ArriveCreate(r, u, k) ==
    /\ req[r].at = "idle"
    /\ Put(r, [Idle EXCEPT !.op = "create", !.user = u, !.kind = k, !.at = "save",
                           !.met = Others(u)])
    /\ UNCHANGED <<kind, creator, members, memberCount, heard>>

ArriveJoin(r, u, c) ==
    /\ req[r].at = "idle"
    /\ Put(r, [Idle EXCEPT !.op = "join", !.user = u, !.channel = c, !.at = "find",
                           !.met = Others(u)])
    /\ UNCHANGED <<kind, creator, members, memberCount, heard>>

\* leaveChannel looks nothing up; ids are random, so a client knows only ids of rows.
ArriveLeave(r, u, c) ==
    /\ req[r].at = "idle"
    /\ kind[c] # "absent"
    /\ Put(r, [Idle EXCEPT !.op = "leave", !.user = u, !.channel = c, !.at = "delete",
                           !.met = Others(u)])
    /\ UNCHANGED <<kind, creator, members, memberCount, heard>>
-----------------------------------------------------------------------------
(* Statements.  One action per await of the handlers.  A definition whose   *)
(* comment starts with Fault is a wrong version of the next one, kept to    *)
(* show that a property notices it.                                         *)

\* Fault: created_by_id is not stored.
SaveChannelAnonymous(r) ==
    /\ req[r].at = "save"
    /\ \E c \in Channels :
        /\ kind[c] = "absent"
        /\ kind' = [kind EXCEPT ![c] = req[r].kind]
        /\ Put(r, [req[r] EXCEPT !.channel = c, !.at = "insert"])
    /\ UNCHANGED <<creator, members, memberCount, heard>>

\* Fault: save() over a row that is already there.
SaveChannelOverExisting(r) ==
    /\ req[r].at = "save"
    /\ \E c \in Channels :
        /\ kind' = [kind EXCEPT ![c] = req[r].kind]
        /\ creator' = [creator EXCEPT ![c] = req[r].user]
        /\ Put(r, [req[r] EXCEPT !.channel = c, !.at = "insert"])
    /\ UNCHANGED <<members, memberCount, heard>>

\* createChannel: channelRepository.create, under a fresh id.
SaveChannel(r) ==
    /\ req[r].at = "save"
    /\ \E c \in Channels :
        /\ kind[c] = "absent"
        /\ kind' = [kind EXCEPT ![c] = req[r].kind]
        /\ creator' = [creator EXCEPT ![c] = req[r].user]
        /\ Put(r, [req[r] EXCEPT !.channel = c, !.at = "insert"])
    /\ UNCHANGED <<members, memberCount, heard>>

\* Fault: the check for private channels is dropped.
FindAnyChannel(r) ==
    /\ req[r].at = "find"
    /\ Goto(r, IF kind[req[r].channel] = "absent" THEN "rejected" ELSE "insert")
    /\ UNCHANGED <<kind, creator, members, memberCount, heard>>

\* Fault: the creator may come back to a private channel.
FindOwnChannel(r) ==
    /\ req[r].at = "find"
    /\ LET c == req[r].channel
       IN  Goto(r, IF \/ kind[c] = "absent"
                      \/ kind[c] = "private" /\ creator[c] # req[r].user
                   THEN "rejected" ELSE "insert")
    /\ UNCHANGED <<kind, creator, members, memberCount, heard>>

\* joinChannel: findById, then NotFoundError or AuthorizationError.
FindChannel(r) ==
    /\ req[r].at = "find"
    /\ LET k == kind[req[r].channel]
       IN  Goto(r, IF k \in {"absent", "private"} THEN "rejected" ELSE "insert")
    /\ UNCHANGED <<kind, creator, members, memberCount, heard>>

\* Fault: ON CONFLICT DO NOTHING, then count the member anyway.
InsertMemberIfAbsent(r) ==
    /\ req[r].at = "insert"
    /\ members' = [members EXCEPT ![req[r].channel] = @ \union {req[r].user}]
    /\ Put(r, [req[r] EXCEPT !.row = "inserted", !.at = "increment"])
    /\ UNCHANGED <<kind, creator, memberCount, heard>>

\* addMember: the INSERT; a second row for the same pair breaks the primary key.
InsertMember(r) ==
    /\ req[r].at = "insert"
    /\ LET c == req[r].channel
           u == req[r].user
       IN  IF u \in members[c]
           THEN /\ Goto(r, "failed")
                /\ UNCHANGED members
           ELSE /\ members' = [members EXCEPT ![c] = @ \union {u}]
                /\ Put(r, [req[r] EXCEPT !.row = "inserted", !.at = "increment"])
    /\ UNCHANGED <<kind, creator, memberCount, heard>>

\* addMember: incrementMemberCount.  createChannel emits no event.
IncrementMemberCount(r) ==
    /\ req[r].at = "increment"
    /\ memberCount' = [memberCount EXCEPT ![req[r].channel] = @ + 1]
    /\ Put(r, [req[r] EXCEPT !.counted = 1,
                          !.at = IF req[r].op = "create" THEN "done" ELSE "emit"])
    /\ UNCHANGED <<kind, creator, members, heard>>

\* removeMember: the DELETE, which is content to find no row.
DeleteMember(r) ==
    /\ req[r].at = "delete"
    /\ LET c == req[r].channel
           u == req[r].user
       IN  /\ members' = [members EXCEPT ![c] = @ \ {u}]
           /\ Put(r, [req[r] EXCEPT !.row = IF u \in members[c] THEN "deleted" ELSE "noop",
                                     !.at = "decrement"])
    /\ UNCHANGED <<kind, creator, memberCount, heard>>

\* removeMember: decrementMemberCount, whatever the DELETE found.
DecrementMemberCount(r) ==
    /\ req[r].at = "decrement"
    /\ memberCount' = [memberCount EXCEPT ![req[r].channel] = @ - 1]
    /\ Put(r, [req[r] EXCEPT !.counted = 1, !.at = "emit"])
    /\ UNCHANGED <<kind, creator, members, heard>>

\* channel:member_joined or channel:member_left to the room, then the reply.
EmitMemberEvent(r) ==
    /\ req[r].at = "emit"
    /\ heard' = [heard EXCEPT ![req[r].channel][req[r].user] =
                    IF req[r].op = "join" THEN "joined" ELSE "left"]
    /\ Goto(r, "done")
    /\ UNCHANGED <<kind, creator, members, memberCount>>

\* Fault: the repository logs the error and does not rethrow it.
DbErrorSwallowed(r) ==
    /\ req[r].at \in DbStages
    /\ Goto(r, IF req[r].op \in {"join", "leave"} THEN "emit" ELSE "failed")
    /\ UNCHANGED <<kind, creator, members, memberCount, heard>>

\* A statement throws: the handler rethrows and the client gets a 500.
DbError(r) ==
    /\ req[r].at \in DbStages
    /\ Goto(r, "failed")
    /\ UNCHANGED <<kind, creator, members, memberCount, heard>>

\* Every request of the run has been answered.
AllServed ==
    /\ \A r \in Requests : req[r].at \in Ended
    /\ UNCHANGED vars

Step(r) ==
    \/ SaveChannel(r)
    \/ FindChannel(r)
    \/ InsertMember(r)
    \/ IncrementMemberCount(r)
    \/ DeleteMember(r)
    \/ DecrementMemberCount(r)
    \/ EmitMemberEvent(r)
    \/ DbError(r)

Arrive(r) ==
    \E u \in Users :
        \/ \E k \in Kinds : ArriveCreate(r, u, k)
        \/ \E c \in Channels : ArriveJoin(r, u, c) \/ ArriveLeave(r, u, c)

Next ==
    \/ \E r \in Requests : Arrive(r) \/ Step(r)
    \/ AllServed

Spec == Init /\ [][Next]_vars
-----------------------------------------------------------------------------
Rows(c, row, counted) ==
    {r \in Requests : /\ req[r].channel = c
                      /\ req[r].row = row
                      /\ req[r].counted = counted}

(* The member_count column (channel.repository.ts, "Update member count")  *)
(* is exactly the number of channel_members rows, less the joins whose     *)
(* increment is pending or was lost, plus the leaves whose decrement is    *)
(* pending or was lost, less the leaves that removed no row and were       *)
(* counted all the same.  Nothing else can make the column drift.          *)
CountLedger ==
    \A c \in Channels :
        memberCount[c] = Cardinality(members[c])
                         - Cardinality(Rows(c, "inserted", 0))
                         + Cardinality(Rows(c, "deleted", 0))
                         - Cardinality(Rows(c, "noop", 1))

About(c, u) == {r \in Requests : req[r].channel = c /\ req[r].user = u}

(* A client that follows channel:member_joined and channel:member_left     *)
(* knows who is in the channel: when user u has sent the requests about c  *)
(* one at a time, and each has been answered, the last event about u       *)
(* agrees with the table.  A request that failed may come in between, as   *)
(* long as it failed before it had changed anything.                       *)
FeedMatchesRoster ==
    \A c \in Channels, u \in Users :
        (\A r \in About(c, u) : /\ req[r].at \in Ended
                                /\ req[r].met = 0
                                /\ req[r].at = "failed" => req[r].row = "none") =>
            /\ heard[c][u] = "joined" => u \in members[c]
            /\ heard[c][u] = "left" => u \notin members[c]

(* A private channel never has a member other than the user who created    *)
(* it, though joinChannel reads the type an await before it inserts.       *)
PrivateOnlyCreator ==
    \A c \in Channels : kind[c] = "private" => members[c] \subseteq {creator[c]}

\* createChannel r saved c and is about to add its creator.
Waits(r, c) == req[r].op = "create" /\ req[r].channel = c /\ req[r].at = "insert"

awaiting == [c \in Channels |-> \E r \in Requests : Waits(r, c)]

Abandoned(c) == kind[c] = "private" /\ members[c] = {} /\ ~awaiting[c]

(* A private channel whose creator left it, or was never added because     *)
(* createChannel failed half way, is empty for good: no request that is    *)
(* running or still to come can bring anyone back in.                      *)
AbandonedStaysEmpty ==
    [][\A c \in Channels : Abandoned(c) => members'[c] = {}]_vars

Promise == INSTANCE Roster WITH awaited <- awaiting

(* The handlers implement the abstract roster: whatever the interleaving   *)
(* and wherever a statement fails, the tables change only as Roster allows.*)
ImplementsRoster == Promise!Spec
=============================================================================
