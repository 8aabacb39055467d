------------------------------- MODULE Roster -------------------------------
(***************************************************************************)
(* What the channel roster promises, free of the statements that keep it:  *)
(* a channel is created once with a type that never changes, its creator   *)
(* is added in a second transaction, anyone may join a channel that is not *)
(* private, anyone may leave.  Module Channels implements it with the      *)
(* statements of channel.repository.ts and names the constants.            *)
(***************************************************************************)
CONSTANTS
    Users,      \* rows of the users table
    Channels,   \* ids a channel row may get
    Kinds,      \* the ChannelType values in use
    Nobody      \* createdById of a row that does not exist

VARIABLES
    kind,       \* kind[c]: the type column of channel c, "absent" before it is saved
    creator,    \* creator[c]: its created_by_id
    members,    \* members[c]: the users with a channel_members row for c
    awaited     \* awaited[c]: createChannel saved c and has yet to add its creator

rosterVars == <<kind, creator, members, awaited>>

Exists(c) == kind[c] # "absent"

Init ==
    /\ kind = [c \in Channels |-> "absent"]
    /\ creator = [c \in Channels |-> Nobody]
    /\ members = [c \in Channels |-> {}]
    /\ awaited = [c \in Channels |-> FALSE]

Create(c, u, k) ==
    /\ ~Exists(c)
    /\ kind' = [kind EXCEPT ![c] = k]
    /\ creator' = [creator EXCEPT ![c] = u]
    /\ awaited' = [awaited EXCEPT ![c] = TRUE]
    /\ UNCHANGED members

AddCreator(c) ==
    /\ awaited[c]
    /\ members' = [members EXCEPT ![c] = @ \union {creator[c]}]
    /\ awaited' = [awaited EXCEPT ![c] = FALSE]
    /\ UNCHANGED <<kind, creator>>

\* createChannel ends in an error between its two transactions.
LoseCreator(c) ==
    /\ awaited[c]
    /\ awaited' = [awaited EXCEPT ![c] = FALSE]
    /\ UNCHANGED <<kind, creator, members>>

\* joinChannel.
Join(c, u) ==
    /\ Exists(c)
    /\ kind[c] # "private"
    /\ members' = [members EXCEPT ![c] = @ \union {u}]
    /\ UNCHANGED <<kind, creator, awaited>>

\* leaveChannel looks nothing up.
Leave(c, u) ==
    /\ members' = [members EXCEPT ![c] = @ \ {u}]
    /\ UNCHANGED <<kind, creator, awaited>>

Next ==
    \E c \in Channels :
        \/ \E u \in Users, k \in Kinds : Create(c, u, k)
        \/ AddCreator(c)
        \/ LoseCreator(c)
        \/ \E u \in Users : Join(c, u) \/ Leave(c, u)

Spec == Init /\ [][Next]_rosterVars
=============================================================================
