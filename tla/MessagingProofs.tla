-------------------------- MODULE MessagingProofs ---------------------------
(***************************************************************************)
(* Theorems about Messaging for any users, channels, requests, sockets and *)
(* texts.  A send is followed from stage to stage: what the statements it  *)
(* has passed left in the tables is still there when its event goes out.   *)
(* A client that missed nothing is followed through both events: what it   *)
(* does not show was deleted, and a deleted message that it still shows    *)
(* was overtaken or has a delete about to tell it.                         *)
(***************************************************************************)
EXTENDS Messaging, FiniteSetTheorems, TLAPS

Stages == {"idle", "emit"} \union SendStages \union Ended

\* What is behind a send at each of its stages.
RowsOK(m) ==
    /\ send[m].at \in {"mention", "count", "stamp", "emit", "done"} => m \in stored
    /\ send[m].at \in {"idle", "check", "create", "rejected"} =>
          m \notin stored /\ send[m].handled = 0
    /\ send[m].at = "mention" => send[m].handled < Len(send[m].text)
    /\ send[m].at \in {"count", "stamp", "emit", "done"} =>
          send[m].handled = Len(send[m].text)
    /\ send[m].at # "idle" => send[m].sender \in Users /\ send[m].channel \in Channels

ChannelRowOK(m) ==
    /\ send[m].at \in {"stamp", "emit", "done"} => messageCount[send[m].channel] > 0
    /\ send[m].at \in {"emit", "done"} => lastMessage[send[m].channel] # Nobody

MentionsOK(m) == Recorded(mentions[m], send[m].text, send[m].handled)

EntitledOK(m) ==
    /\ m \in stored => m \in entitled
    /\ send[m].at = "create" => m \in entitled
    /\ send[m].at = "check" /\ send[m].sender \in members[send[m].channel] => m \in entitled

\* What a client shows was sent to the end.
HeardOK(m) == \A s \in Sockets : copies[s][m] > 0 \/ m \in view[s] => send[m].at = "done"

\* A delete is of a message with a row; its event comes after its statement.
DeleteOK(d) ==
    /\ del[d].at # "idle" => del[d].message \in Messages /\ del[d].message \in stored
    /\ del[d].at = "emit" => del[d].message \in deleted

ToBeTold(m) == \E d \in Deletes : del[d].at = "emit" /\ del[d].message = m

\* A message deleted during its send has its message:deleted behind it or before it.
OvertakenOK(m) ==
    /\ m \in overtaken => m \in deleted
    /\ m \in deleted /\ send[m].at \notin Ended => m \in overtaken \/ ToBeTold(m)

\* What a client shows of a channel of which it missed no event.
ViewOK(s, m) ==
    send[m].at = "done" /\ send[m].channel \notin missed[s] =>
        /\ m \notin deleted \/ m \in overtaken => m \in view[s]
        /\ m \in view[s] /\ m \in deleted => m \in overtaken \/ ToBeTold(m)

\* The messages counted for certain, and those that may have been.
Counted(c) == {m \in Posts(c) : send[m].at \in {"stamp", "emit", "done"}}
MaybeCounted(c) == {m \in Posts(c) : send[m].at \in {"stamp", "emit", "done", "failed"}}

CountOK(c) ==
    /\ Cardinality(Counted(c)) <= messageCount[c]
    /\ messageCount[c] <= Cardinality(MaybeCounted(c))

IInv ==
    /\ TypeOK
    /\ \A m \in Messages : RowsOK(m) /\ ChannelRowOK(m) /\ MentionsOK(m) /\ EntitledOK(m)
    /\ \A m \in Messages : HeardOK(m) /\ OvertakenOK(m)
    /\ \A d \in Deletes : DeleteOK(d)
    /\ \A s \in Sockets, m \in Messages : ViewOK(s, m)
    /\ \A c \in Channels : CountOK(c)
-----------------------------------------------------------------------------
(* The names of a text *)

\* One more name is one more user or none.
LEMMA UsersAmongNext ==
  ASSUME NEW text, NEW n \in Nat
  PROVE  /\ UsersAmong(text, n) \in Nat
         /\ UsersAmong(text, n + 1) =
              UsersAmong(text, n) + (IF text[n + 1] \in Users THEN 1 ELSE 0)
<1> DEFINE A == {i \in 1..n : text[i] \in Users}
           B == {i \in 1..(n + 1) : text[i] \in Users}
<1>1. IsFiniteSet(A) /\ Cardinality(A) \in Nat
  <2>1. IsFiniteSet(1..n)
    BY FS_Interval
  <2>2. IsFiniteSet(A)
    BY <2>1, FS_Subset
  <2>3. QED
    BY <2>2, FS_CardinalityType
<1>2. CASE text[n + 1] \in Users
  <2>1. B = A \union {n + 1} /\ n + 1 \notin A
    BY <1>2
  <2>2. Cardinality(B) = Cardinality(A) + 1
    BY <1>1, <2>1, FS_AddElement
  <2>3. QED
    BY <1>1, <1>2, <2>2 DEF UsersAmong
<1>3. CASE text[n + 1] \notin Users
  <2>1. B = A
    BY <1>3
  <2>2. QED
    BY <1>1, <1>3, <2>1 DEF UsersAmong
<1>4. QED
  BY <1>2, <1>3

\* A user's name has a place among the users' names of every longer part of the text.
LEMMA UsersAmongPlace ==
  ASSUME NEW text, NEW n \in Nat, NEW i \in 1..n
  PROVE  /\ UsersAmong(text, i) \in Nat
         /\ UsersAmong(text, i) <= UsersAmong(text, n)
         /\ text[i] \in Users => UsersAmong(text, i) >= 1
<1> DEFINE A == {j \in 1..i : text[j] \in Users}
           B == {j \in 1..n : text[j] \in Users}
<1>1. IsFiniteSet(1..n)
  BY FS_Interval
<1>2. IsFiniteSet(B) /\ A \subseteq B
  BY <1>1, FS_Subset
<1>3. IsFiniteSet(A) /\ Cardinality(A) <= Cardinality(B)
  BY <1>2, FS_Subset
<1>4. Cardinality(A) \in Nat
  BY <1>3, FS_CardinalityType
<1>5. ASSUME text[i] \in Users
      PROVE  Cardinality(A) # 0
  <2>1. A # {}
    BY <1>5
  <2>2. QED
    BY <1>3, <2>1, FS_EmptySet
<1>6. QED
  BY <1>3, <1>4, <1>5 DEF UsersAmong

LEMMA NothingRecorded ==
  ASSUME NEW text
  PROVE  Recorded(<< >>, text, 0)
<1>1. Cardinality({}) = 0
  BY FS_EmptySet
<1>2. {i \in 1..0 : text[i] \in Users} = {}
  OBVIOUS
<1>3. UsersAmong(text, 0) = 0
  BY <1>1, <1>2 DEF UsersAmong
<1>4. QED
  BY <1>3 DEF Recorded

\* One turn of the mention loop records one name.
LEMMA RecordNext ==
  ASSUME NEW text, NEW n \in Nat, NEW rows \in Seq(Users), Recorded(rows, text, n)
  PROVE  /\ text[n + 1] \in Users => Recorded(Append(rows, text[n + 1]), text, n + 1)
         /\ text[n + 1] \notin Users => Recorded(rows, text, n + 1)
<1>1. \A i \in 1..(n + 1) : i \in 1..n \/ i = n + 1
  OBVIOUS
<1>2. UsersAmong(text, n) \in Nat /\ Len(rows) = UsersAmong(text, n)
  BY UsersAmongNext DEF Recorded
<1>3. ASSUME text[n + 1] \in Users
      PROVE  Recorded(Append(rows, text[n + 1]), text, n + 1)
  <2> DEFINE more == Append(rows, text[n + 1])
  <2>1. UsersAmong(text, n + 1) = Len(rows) + 1
    BY <1>2, <1>3, UsersAmongNext
  <2>2. Len(more) = Len(rows) + 1 /\ more[Len(rows) + 1] = text[n + 1]
    BY <1>3
  <2>3. \A k \in 1..Len(rows) : more[k] = rows[k]
    BY <1>3
  <2>4. ASSUME NEW i \in 1..n, text[i] \in Users
        PROVE  more[UsersAmong(text, i)] = text[i]
    <3>1. UsersAmong(text, i) \in 1..Len(rows)
      BY <1>2, <2>4, UsersAmongPlace
    <3>2. QED
      BY <2>3, <2>4, <3>1 DEF Recorded
  <2>5. QED
    BY <1>1, <2>1, <2>2, <2>4 DEF Recorded
<1>4. ASSUME text[n + 1] \notin Users
      PROVE  Recorded(rows, text, n + 1)
  <2>1. UsersAmong(text, n + 1) = Len(rows)
    BY <1>2, <1>4, UsersAmongNext
  <2>2. QED
    BY <1>1, <1>4, <2>1 DEF Recorded
<1>5. QED
  BY <1>3, <1>4
-----------------------------------------------------------------------------
(* What a step does to its request *)

SendRecord == [sender: Users \union {Nobody}, channel: Channels \union {Nobody},
               via: {"http", "socket"}, text: Texts \union {<< >>}, handled: Nat, at: Stages]

\* Send m is at stage now, and nothing else of it or of another send has changed.
Moved(m, stage) ==
    /\ send' \in [Messages -> SendRecord]
    /\ \A q \in Messages \ {m} : send'[q] = send[q]
    /\ send'[m].at = stage
    /\ send'[m].sender = send[m].sender /\ send'[m].channel = send[m].channel
    /\ send'[m].text = send[m].text

LEMMA SendType == TypeOK => send \in [Messages -> SendRecord]
  BY DEF TypeOK, SendRecord, Stages

LEMMA GotoSendMoves ==
  ASSUME TypeOK, NEW m \in Messages, NEW stage \in Stages, GotoSend(m, stage)
  PROVE  Moved(m, stage) /\ send'[m].handled = send[m].handled
<1>1. send \in [Messages -> SendRecord]
  BY SendType
<1>2. send' = [send EXCEPT ![m] = [send[m] EXCEPT !.at = stage]]
  BY <1>1 DEF GotoSend
<1>3. send[m] \in SendRecord
  BY <1>1
<1>4. ASSUME NEW new \in SendRecord, new = [send[m] EXCEPT !.at = stage]
      PROVE  Moved(m, stage) /\ send'[m].handled = send[m].handled
  <2>1. send' = [send EXCEPT ![m] = new]
    BY <1>2, <1>4
  <2>2. send'[m] = new /\ send' \in [Messages -> SendRecord]
        /\ \A q \in Messages \ {m} : send'[q] = send[q]
    BY <1>1, <2>1
  <2>3. QED
    BY <1>3, <1>4, <2>2 DEF Moved, SendRecord
<1>5. [send[m] EXCEPT !.at = stage] \in SendRecord
  BY <1>3 DEF SendRecord
<1>6. QED
  BY <1>4, <1>5

LEMMA MentionMoves ==
  ASSUME TypeOK, NEW m \in Messages, StoreMention(m)
  PROVE  /\ Moved(m, IF send[m].handled + 1 = Len(send[m].text) THEN "count" ELSE "mention")
         /\ send'[m].handled = send[m].handled + 1
<1> DEFINE stage == IF send[m].handled + 1 = Len(send[m].text) THEN "count" ELSE "mention"
           next == [send[m] EXCEPT !.handled = @ + 1, !.at = stage]
<1>1. send \in [Messages -> SendRecord] /\ send[m] \in SendRecord
  BY SendType
<1>2. send' = [send EXCEPT ![m].handled = @ + 1, ![m].at = stage]
  BY DEF StoreMention
<1>3. stage \in Stages
  BY DEF Stages, SendStages
<1> HIDE DEF stage
<1>4. ASSUME NEW new \in SendRecord, new = next
      PROVE  Moved(m, stage) /\ send'[m].handled = send[m].handled + 1
  <2>1. send'[m] = new
    BY <1>1, <1>2, <1>4 DEF SendRecord
  <2>2. send' \in [Messages -> SendRecord] /\ \A q \in Messages \ {m} : send'[q] = send[q]
    BY <1>1, <1>2, <2>1
  <2>3. QED
    BY <1>1, <1>4, <2>1, <2>2 DEF Moved, SendRecord
<1>5. next \in SendRecord
  <2>1. ASSUME NEW n \in Nat, NEW at \in Stages
        PROVE  [send[m] EXCEPT !.handled = n, !.at = at] \in SendRecord
    BY <1>1 DEF SendRecord
  <2>2. send[m].handled + 1 \in Nat
    BY <1>1 DEF SendRecord
  <2>3. QED
    BY <1>3, <2>1, <2>2
<1>6. Moved(m, stage) /\ send'[m].handled = send[m].handled + 1
  <2> HIDE DEF next
  <2>1. QED
    BY <1>4, <1>5
<1>7. QED
  BY <1>6 DEF stage

LEMMA ArriveMoves ==
  ASSUME TypeOK, NEW m \in Messages, NEW u \in Users, NEW c \in Channels,
         NEW via \in {"http", "socket"}, NEW text \in Texts, ArriveSend(m, u, c, via, text)
  PROVE  /\ send' \in [Messages -> SendRecord]
         /\ \A q \in Messages \ {m} : send'[q] = send[q]
         /\ send'[m].at = "check" /\ send'[m].handled = 0
         /\ send'[m].sender = u /\ send'[m].channel = c /\ send'[m].text = text
<1>1. send \in [Messages -> SendRecord]
  BY SendType
<1>2. [sender |-> u, channel |-> c, via |-> via, text |-> text, handled |-> 0, at |-> "check"]
        \in SendRecord
  BY DEF SendRecord, Stages, SendStages
<1>3. QED
  BY <1>1, <1>2 DEF ArriveSend

DeleteRecord == [user: Users \union {Nobody}, message: Messages \union {Nobody},
                 at: {"idle", "emit"} \union DeleteStages \union Ended]

\* Delete d is at stage now, and nothing else of it or of another delete has changed.
DeleteMoved(d, stage) ==
    /\ del' \in [Deletes -> DeleteRecord]
    /\ \A e \in Deletes \ {d} : del'[e] = del[e]
    /\ del'[d].at = stage /\ del'[d].message = del[d].message

LEMMA GotoDeleteMoves ==
  ASSUME TypeOK, NEW d \in Deletes, NEW stage \in {"emit"} \union DeleteStages \union Ended,
         GotoDelete(d, stage)
  PROVE  DeleteMoved(d, stage)
<1>1. del \in [Deletes -> DeleteRecord] /\ del[d] \in DeleteRecord
  BY DEF TypeOK, DeleteRecord
<1>2. PICK new \in DeleteRecord : new = [del[d] EXCEPT !.at = stage]
  BY <1>1 DEF DeleteRecord
<1>3. del' = [del EXCEPT ![d] = new]
  BY <1>1, <1>2 DEF GotoDelete
<1>4. QED
  BY <1>1, <1>2, <1>3 DEF DeleteMoved, DeleteRecord

\* What a room's event does to the clients in it and to the others.
LEMMA EmitHeard ==
  ASSUME TypeOK, NEW c \in Channels, NEW m \in Messages, NEW n \in Nat,
         NEW heard \in [Sockets -> SUBSET Messages], Emit(c, m, n, heard)
  PROVE  /\ view' \in [Sockets -> SUBSET Messages]
         /\ copies' \in [Sockets -> [Messages -> Nat]]
         /\ missed' \in [Sockets -> SUBSET Channels]
         /\ rooms' = rooms
         /\ \A s \in Sockets :
              /\ \/ view'[s] = heard[s] /\ missed'[s] = missed[s]
                 \/ view'[s] = view[s] /\ missed'[s] = missed[s] \union {c}
              /\ \A q \in Messages : q # m \/ n = 0 => copies'[s][q] = copies[s][q]
<1> USE DEF TypeOK
<1>1. /\ view' = [s \in Sockets |-> IF c \in rooms[s] THEN heard[s] ELSE view[s]]
      /\ copies' = [s \in Sockets |-> IF c \in rooms[s]
                       THEN [copies[s] EXCEPT ![m] = @ + n] ELSE copies[s]]
      /\ missed' = [s \in Sockets |-> IF c \in rooms[s]
                       THEN missed[s] ELSE missed[s] \union {c}]
      /\ rooms' = rooms
  BY DEF Emit
<1>2. \A s \in Sockets : [copies[s] EXCEPT ![m] = @ + n] \in [Messages -> Nat]
  OBVIOUS
<1>3. copies' \in [Sockets -> [Messages -> Nat]]
  BY <1>1, <1>2
<1>4. ASSUME NEW s \in Sockets, NEW q \in Messages, q # m \/ n = 0
      PROVE  copies'[s][q] = copies[s][q]
  <2>1. CASE c \in rooms[s]
    <3>1. copies'[s] = [copies[s] EXCEPT ![m] = @ + n] /\ copies[s] \in [Messages -> Nat]
      BY <1>1, <2>1
    <3>2. QED
      BY <1>4, <3>1
  <2>2. CASE c \notin rooms[s]
    BY <1>1, <2>2
  <2>3. QED
    BY <2>1, <2>2
<1>5. /\ view' \in [Sockets -> SUBSET Messages]
      /\ missed' \in [Sockets -> SUBSET Channels]
  BY <1>1
<1>6. ASSUME NEW s \in Sockets
      PROVE  \/ view'[s] = heard[s] /\ missed'[s] = missed[s]
             \/ view'[s] = view[s] /\ missed'[s] = missed[s] \union {c}
  BY <1>1
<1>7. QED
  BY <1>1, <1>3, <1>4, <1>5, <1>6

\* message:new and message:deleted, to those in the room and to the others.
LEMMA EmitNewHeard ==
  ASSUME TypeOK, NEW m \in Messages, RowsOK(m), EmitNew(m)
  PROVE  /\ view' \in [Sockets -> SUBSET Messages]
         /\ copies' \in [Sockets -> [Messages -> Nat]]
         /\ missed' \in [Sockets -> SUBSET Channels]
         /\ rooms' = rooms
         /\ \A s \in Sockets :
              /\ \/ view'[s] = view[s] \union {m} /\ missed'[s] = missed[s]
                 \/ view'[s] = view[s] /\ missed'[s] = missed[s] \union {send[m].channel}
              /\ \A q \in Messages \ {m} : copies'[s][q] = copies[s][q]
<1> DEFINE heard == [s \in Sockets |-> view[s] \union {m}]
<1>1. send[m].channel \in Channels
  BY DEF RowsOK, EmitNew
<1>2. heard \in [Sockets -> SUBSET Messages]
  BY DEF TypeOK
<1>3. \E n \in Nat : Emit(send[m].channel, m, n, heard)
  BY DEF EmitNew
<1>4. \A s \in Sockets : heard[s] = view[s] \union {m}
  OBVIOUS
<1> HIDE DEF heard
<1>5. QED
  BY <1>1, <1>2, <1>3, <1>4, EmitHeard

LEMMA EmitDeletedHeard ==
  ASSUME TypeOK, NEW d \in Deletes, NEW m \in Messages, RowsOK(m),
         m = del[d].message, send[m].at # "idle", EmitDeleted(d)
  PROVE  /\ view' \in [Sockets -> SUBSET Messages]
         /\ copies' \in [Sockets -> [Messages -> Nat]]
         /\ missed' \in [Sockets -> SUBSET Channels]
         /\ rooms' = rooms
         /\ \A s \in Sockets :
              /\ \/ view'[s] = view[s] \ {m} /\ missed'[s] = missed[s]
                 \/ view'[s] = view[s] /\ missed'[s] = missed[s] \union {send[m].channel}
              /\ \A q \in Messages : copies'[s][q] = copies[s][q]
<1> DEFINE heard == [s \in Sockets |-> view[s] \ {m}]
<1>1. send[m].channel \in Channels
  BY DEF RowsOK
<1>2. heard \in [Sockets -> SUBSET Messages]
  BY DEF TypeOK
<1>3. Emit(send[m].channel, m, 0, heard)
  BY DEF EmitDeleted
<1>4. \A s \in Sockets : heard[s] = view[s] \ {m}
  OBVIOUS
<1> HIDE DEF heard
<1>5. QED
  BY <1>1, <1>2, <1>3, <1>4, EmitHeard
-----------------------------------------------------------------------------
LEMMA InitIInv == Init => IInv
<1> SUFFICES ASSUME Init PROVE IInv
  OBVIOUS
<1> USE MessagingAssumption
<1>1. \A m \in Messages : /\ send[m] = IdleSend /\ mentions[m] = << >>
  BY DEF Init
<1>2. TypeOK
  <2>1. IdleSend \in SendRecord
    BY DEF IdleSend, SendRecord, Stages
  <2>2. send \in [Messages -> SendRecord]
    BY <2>1 DEF Init
  <2>3. << >> \in Seq(Users)
    OBVIOUS
  <2>4. mentions \in [Messages -> Seq(Users)]
    BY <2>3 DEF Init
  <2>5. QED
    BY <2>2, <2>4 DEF Init, TypeOK, SendRecord, Stages, IdleDelete
<1>3. ASSUME NEW m \in Messages
      PROVE  RowsOK(m) /\ ChannelRowOK(m) /\ MentionsOK(m) /\ EntitledOK(m)
             /\ HeardOK(m) /\ OvertakenOK(m)
  BY <1>1, NothingRecorded
     DEF Init, IdleSend, RowsOK, ChannelRowOK, MentionsOK, EntitledOK, HeardOK, OvertakenOK
<1>4. \A d \in Deletes : DeleteOK(d)
  BY DEF Init, IdleDelete, DeleteOK
<1>5. \A s \in Sockets, m \in Messages : ViewOK(s, m)
  BY <1>1 DEF IdleSend, ViewOK
<1>6. ASSUME NEW c \in Channels
      PROVE  CountOK(c)
  <2>1. Counted(c) = {} /\ MaybeCounted(c) = {}
    BY DEF Init, Counted, MaybeCounted, Posts
  <2>2. Cardinality({}) = 0
    BY FS_EmptySet
  <2>3. messageCount[c] = 0
    BY DEF Init
  <2>4. QED
    BY <2>1, <2>2, <2>3 DEF CountOK
<1>7. QED
  BY <1>2, <1>3, <1>4, <1>5, <1>6 DEF IInv
-----------------------------------------------------------------------------
(* The types *)

LEMMA SendKeepsType ==
  ASSUME TypeOK, NEW m \in Messages, RowsOK(m), SendStep(m) \/ SendError(m)
  PROVE  TypeOK'
<1> USE MessagingAssumption DEF TypeOK
<1>1. ASSUME NEW stage \in Stages, Moved(m, stage)
      PROVE  send' \in [Messages -> [sender: Users \union {Nobody},
                              channel: Channels \union {Nobody},
                              via: {"http", "socket"},
                              text: Texts \union {<< >>},
                              handled: Nat,
                              at: {"idle", "emit"} \union SendStages \union Ended]]
  BY <1>1 DEF Moved, SendRecord, Stages
<1>2. CASE CheckMember(m)
  <2>1. \E stage \in Stages : Moved(m, stage)
    BY <1>2, GotoSendMoves DEF CheckMember, Stages, SendStages, Ended
  <2>2. QED
    BY <1>1, <1>2, <2>1 DEF CheckMember, clients, tables
<1>3. CASE StoreMessage(m)
  <2>1. \E stage \in Stages : Moved(m, stage)
    BY <1>3, GotoSendMoves DEF StoreMessage, Stages, SendStages
  <2>2. QED
    BY <1>1, <1>3, <2>1 DEF StoreMessage, clients
<1>4. CASE StoreMention(m)
  <2>1. \E stage \in Stages : Moved(m, stage)
    BY <1>4, MentionMoves DEF Stages, SendStages
  <2>2. mentions' \in [Messages -> Seq(Users)]
    BY <1>4 DEF StoreMention
  <2>3. QED
    BY <1>1, <1>4, <2>1, <2>2 DEF StoreMention, clients
<1>5. CASE CountMessage(m)
  <2>1. \E stage \in Stages : Moved(m, stage)
    BY <1>5, GotoSendMoves DEF CountMessage, Stages, SendStages
  <2>2. messageCount' \in [Channels -> Nat]
    <3>1. send[m].channel \in Channels
      BY <1>5 DEF RowsOK, CountMessage
    <3>2. QED
      BY <1>5, <3>1 DEF CountMessage
  <2>3. QED
    BY <1>1, <1>5, <2>1, <2>2 DEF CountMessage, clients
<1>6. CASE StampChannel(m)
  <2>1. \E stage \in Stages : Moved(m, stage)
    BY <1>6, GotoSendMoves DEF StampChannel, Stages
  <2>2. lastMessage' \in [Channels -> Messages \union {Nobody}]
    BY <1>6 DEF StampChannel
  <2>3. QED
    BY <1>1, <1>6, <2>1, <2>2 DEF StampChannel, clients
<1>7. CASE EmitNew(m)
  <2>1. \E stage \in Stages : Moved(m, stage)
    BY <1>7, GotoSendMoves DEF EmitNew, Stages, Ended
  <2>2. QED
    BY <1>1, <1>7, <2>1, EmitNewHeard DEF EmitNew, tables
<1>8. CASE SendError(m)
  <2>1. \E stage \in Stages : Moved(m, stage)
    BY <1>8, GotoSendMoves DEF SendError, Stages, Ended
  <2>2. QED
    BY <1>1, <1>8, <2>1 DEF SendError, clients, tables
<1>9. QED
  BY <1>2, <1>3, <1>4, <1>5, <1>6, <1>7, <1>8 DEF SendStep

LEMMA DeleteKeepsType ==
  ASSUME TypeOK, NEW d \in Deletes, DeleteOK(d), \A m \in Messages : RowsOK(m),
         DeleteStep(d) \/ DeleteError(d)
  PROVE  TypeOK'
<1>1. del' \in [Deletes -> DeleteRecord]
  <2>1. \E stage \in {"emit"} \union DeleteStages \union Ended : GotoDelete(d, stage)
    BY DEF DeleteStep, FindMessage, SoftDelete, EmitDeleted, DeleteError, DeleteStages, Ended
  <2>2. QED
    BY <2>1, GotoDeleteMoves DEF DeleteMoved
<1>2. /\ members' = members /\ messageCount' = messageCount /\ lastMessage' = lastMessage
      /\ stored' = stored /\ mentions' = mentions /\ send' = send /\ entitled' = entitled
  BY DEF DeleteStep, FindMessage, SoftDelete, EmitDeleted, DeleteError, tables
<1>3. deleted' \subseteq stored
  <2>1. CASE SoftDelete(d)
    <3>1. del[d].message \in stored
      BY <2>1 DEF SoftDelete, DeleteOK
    <3>2. QED
      BY <2>1, <3>1 DEF TypeOK, SoftDelete
  <2>2. CASE ~SoftDelete(d)
    BY <2>2 DEF TypeOK, DeleteStep, FindMessage, EmitDeleted, DeleteError, tables
  <2>3. QED
    BY <2>1, <2>2
<1>4. /\ view' \in [Sockets -> SUBSET Messages]
      /\ copies' \in [Sockets -> [Messages -> Nat]]
      /\ missed' \in [Sockets -> SUBSET Channels]
      /\ rooms' = rooms /\ overtaken' \subseteq Messages
  <2>1. CASE EmitDeleted(d)
    <3>1. del[d].message \in Messages /\ send[del[d].message].at # "idle"
      BY <2>1 DEF EmitDeleted, DeleteOK, RowsOK
    <3>2. overtaken' \subseteq Messages
      BY <2>1, <3>1 DEF EmitDeleted, TypeOK
    <3>3. QED
      BY <2>1, <3>1, <3>2, EmitDeletedHeard
  <2>2. CASE ~EmitDeleted(d)
    BY <2>2 DEF TypeOK, DeleteStep, FindMessage, SoftDelete, DeleteError, clients
  <2>3. QED
    BY <2>1, <2>2
<1>5. QED
  BY <1>1, <1>2, <1>3, <1>4 DEF TypeOK, DeleteRecord

LEMMA NextKeepsType == IInv /\ [Next]_vars => TypeOK'
<1> SUFFICES ASSUME IInv, [Next]_vars
             PROVE  TypeOK'
  OBVIOUS
<1>1. /\ TypeOK
      /\ \A m \in Messages : RowsOK(m)
      /\ \A d \in Deletes : DeleteOK(d)
  BY DEF IInv
<1>2. ASSUME NEW m \in Messages, NEW u \in Users, NEW c \in Channels,
             NEW via \in {"http", "socket"}, NEW text \in Texts,
             ArriveSend(m, u, c, via, text)
      PROVE  TypeOK'
  <2>1. send' \in [Messages -> SendRecord]
    BY <1>1, <1>2, ArriveMoves
  <2>2. QED
    BY <1>1, <1>2, <2>1
       DEF ArriveSend, TypeOK, SendRecord, Stages, clients, tables
<1>3. ASSUME NEW d \in Deletes, NEW u \in Users, NEW m \in Messages, ArriveDelete(d, u, m)
      PROVE  TypeOK'
  BY <1>1, <1>3 DEF ArriveDelete, TypeOK, DeleteStages, clients, tables
<1>4. ASSUME NEW m \in Messages, SendStep(m) \/ SendError(m)
      PROVE  TypeOK'
  BY <1>1, <1>4, SendKeepsType
<1>5. ASSUME NEW d \in Deletes, DeleteStep(d) \/ DeleteError(d)
      PROVE  TypeOK'
  BY <1>1, <1>5, DeleteKeepsType
<1>6. ASSUME NEW c \in Channels, NEW u \in Users, MemberJoins(c, u) \/ MemberLeaves(c, u)
      PROVE  TypeOK'
  <2>1. members' \in [Channels -> SUBSET Users] /\ entitled' \subseteq Messages
    <3>1. /\ members \in [Channels -> SUBSET Users] /\ entitled \subseteq Messages
          /\ members[c] \union {u} \in SUBSET Users /\ members[c] \ {u} \in SUBSET Users
      BY <1>1 DEF TypeOK
    <3>2. CASE MemberJoins(c, u)
      BY <3>1, <3>2 DEF MemberJoins
    <3>3. CASE MemberLeaves(c, u)
      BY <3>1, <3>3 DEF MemberLeaves
    <3>4. QED
      BY <1>6, <3>2, <3>3
  <2>2. UNCHANGED <<messageCount, lastMessage, stored, deleted, mentions, send, del, clients>>
    BY <1>6 DEF MemberJoins, MemberLeaves
  <2>3. QED
    BY <1>1, <2>1, <2>2 DEF TypeOK, clients
<1>7. ASSUME NEW s \in Sockets, NEW c \in Channels, JoinRoom(s, c) \/ LeaveRoom(s, c)
      PROVE  TypeOK'
  <2>1. rooms' \in [Sockets -> SUBSET Channels]
    <3>1. /\ rooms \in [Sockets -> SUBSET Channels]
          /\ rooms[s] \union {c} \in SUBSET Channels /\ rooms[s] \ {c} \in SUBSET Channels
      BY <1>1 DEF TypeOK
    <3>2. QED
      BY <1>7, <3>1 DEF JoinRoom, LeaveRoom
  <2>2. UNCHANGED <<tables, send, del, view, copies, missed, overtaken, entitled>>
    BY <1>7 DEF JoinRoom, LeaveRoom
  <2>3. QED
    BY <1>1, <2>1, <2>2 DEF TypeOK, tables
<1>8. CASE UNCHANGED vars
  BY <1>1, <1>8 DEF vars, tables, clients, TypeOK
<1>9. QED
  BY <1>2, <1>3, <1>4, <1>5, <1>6, <1>7, <1>8 DEF Next, Arrive
-----------------------------------------------------------------------------
(* A send's step *)

\* What a step of send m leaves as it was, for the other sends and for the deletes.
Frame(m) ==
    /\ \A q \in Messages \ {m} :
         /\ send'[q] = send[q] /\ mentions'[q] = mentions[q]
         /\ q \in stored' <=> q \in stored
         /\ \A s \in Sockets : /\ q \in view'[s] <=> q \in view[s]
                               /\ copies'[s][q] = copies[s][q]
    /\ \A c \in Channels : /\ messageCount'[c] >= messageCount[c]
                           /\ lastMessage[c] # Nobody => lastMessage'[c] # Nobody
    /\ \A s \in Sockets : missed[s] \subseteq missed'[s]
    /\ stored \subseteq stored'
    /\ UNCHANGED <<members, deleted, del, overtaken, entitled>>
    /\ send[m].at \in SendStages \union {"emit"}

LEMMA SendFrame ==
  ASSUME TypeOK, NEW m \in Messages, RowsOK(m), SendStep(m) \/ SendError(m)
  PROVE  Frame(m)
<1> USE MessagingAssumption
<1>1. /\ messageCount \in [Channels -> Nat] /\ mentions \in [Messages -> Seq(Users)]
      /\ lastMessage \in [Channels -> Messages \union {Nobody}]
  BY DEF TypeOK
<1>2. ASSUME NEW stage, Moved(m, stage)
      PROVE  \A q \in Messages \ {m} : send'[q] = send[q]
  BY <1>2 DEF Moved
<1>3. CASE CheckMember(m)
  <2>1. \E stage \in Stages : Moved(m, stage)
    BY <1>3, GotoSendMoves DEF CheckMember, Stages, SendStages, Ended
  <2>2. QED
    BY <1>1, <1>2, <1>3, <2>1 DEF CheckMember, clients, tables, Frame, SendStages
<1>4. CASE StoreMessage(m)
  <2>1. \E stage \in Stages : Moved(m, stage)
    BY <1>4, GotoSendMoves DEF StoreMessage, Stages, SendStages
  <2>2. QED
    BY <1>1, <1>2, <1>4, <2>1 DEF StoreMessage, clients, Frame, SendStages
<1>5. CASE StoreMention(m)
  <2>1. \E stage \in Stages : Moved(m, stage)
    BY <1>5, MentionMoves DEF Stages, SendStages
  <2>2. \A q \in Messages \ {m} : mentions'[q] = mentions[q]
    BY <1>1, <1>5 DEF StoreMention
  <2>3. /\ send[m].at = "mention"
        /\ UNCHANGED <<members, messageCount, lastMessage, stored, deleted, del, clients, entitled>>
    BY <1>5 DEF StoreMention
  <2>4. QED
    BY <1>1, <1>2, <2>1, <2>2, <2>3 DEF clients, Frame, SendStages
<1>6. CASE CountMessage(m)
  <2>1. \E stage \in Stages : Moved(m, stage)
    BY <1>6, GotoSendMoves DEF CountMessage, Stages, SendStages
  <2>2. \A c \in Channels : messageCount'[c] >= messageCount[c]
    BY <1>1, <1>6 DEF CountMessage
  <2>3. QED
    BY <1>1, <1>2, <1>6, <2>1, <2>2 DEF CountMessage, clients, Frame, SendStages
<1>7. CASE StampChannel(m)
  <2>1. \E stage \in Stages : Moved(m, stage)
    BY <1>7, GotoSendMoves DEF StampChannel, Stages
  <2>2. \A c \in Channels : lastMessage[c] # Nobody => lastMessage'[c] # Nobody
    BY <1>1, <1>7 DEF StampChannel
  <2>3. QED
    BY <1>1, <1>2, <1>7, <2>1, <2>2 DEF StampChannel, clients, Frame, SendStages
<1>8. CASE EmitNew(m)
  <2>1. \E stage \in Stages : Moved(m, stage)
    BY <1>8, GotoSendMoves DEF EmitNew, Stages, Ended
  <2>2. \A s \in Sockets :
          /\ missed[s] \subseteq missed'[s]
          /\ \A q \in Messages \ {m} : /\ q \in view'[s] <=> q \in view[s]
                                       /\ copies'[s][q] = copies[s][q]
    BY <1>8, EmitNewHeard
  <2>3. QED
    BY <1>1, <1>2, <1>8, <2>1, <2>2 DEF EmitNew, tables, Frame
<1>9. CASE SendError(m)
  <2>1. \E stage \in Stages : Moved(m, stage)
    BY <1>9, GotoSendMoves DEF SendError, Stages, Ended
  <2>2. QED
    BY <1>1, <1>2, <1>9, <2>1 DEF SendError, clients, tables, Frame
<1>10. QED
  BY <1>3, <1>4, <1>5, <1>6, <1>7, <1>8, <1>9 DEF SendStep

\* What the frame keeps true.
SendOK(m) == RowsOK(m) /\ ChannelRowOK(m) /\ MentionsOK(m) /\ EntitledOK(m)
TellOK(m) == HeardOK(m) /\ OvertakenOK(m)

LEMMA FrameKeeps ==
  ASSUME IInv, NEW m \in Messages, Frame(m), TypeOK'
  PROVE  /\ \A q \in Messages \ {m} : SendOK(q)' /\ TellOK(q)'
         /\ \A d \in Deletes : DeleteOK(d)'
         /\ \A s \in Sockets, q \in Messages \ {m} : ViewOK(s, q)'
<1>1. ASSUME NEW q \in Messages \ {m}
      PROVE  RowsOK(q)' /\ MentionsOK(q)' /\ EntitledOK(q)' /\ TellOK(q)'
  <2>1. RowsOK(q)' /\ EntitledOK(q)'
    BY <1>1 DEF IInv, Frame, RowsOK, EntitledOK
  <2>2. MentionsOK(q)'
    BY <1>1 DEF IInv, Frame, MentionsOK
  <2>3. TellOK(q)'
    BY <1>1 DEF IInv, Frame, TellOK, HeardOK, OvertakenOK, ToBeTold
  <2>4. QED
    BY <2>1, <2>2, <2>3
<1>2. ASSUME NEW q \in Messages \ {m}
      PROVE  ChannelRowOK(q)'
  BY <1>2 DEF IInv, Frame, RowsOK, ChannelRowOK, TypeOK
<1>3. ASSUME NEW d \in Deletes
      PROVE  DeleteOK(d)'
  BY <1>3 DEF IInv, Frame, DeleteOK
<1>4. ASSUME NEW s \in Sockets, NEW q \in Messages \ {m}
      PROVE  ViewOK(s, q)'
  BY <1>4 DEF IInv, Frame, ViewOK, ToBeTold
<1>5. QED
  BY <1>1, <1>2, <1>3, <1>4 DEF SendOK

\* What the step does for its own message.
LEMMA SendKeepsOwn ==
  ASSUME IInv, NEW m \in Messages, SendStep(m) \/ SendError(m)
  PROVE  SendOK(m)' /\ TellOK(m)' /\ \A s \in Sockets : ViewOK(s, m)'
<1> USE MessagingAssumption DEF Stages, SendStages, Ended
<1>1. /\ TypeOK /\ RowsOK(m) /\ ChannelRowOK(m) /\ MentionsOK(m) /\ EntitledOK(m)
      /\ HeardOK(m) /\ OvertakenOK(m)
      /\ \A s \in Sockets : ViewOK(s, m)
  BY DEF IInv
<1>2. /\ send[m] \in SendRecord /\ messageCount \in [Channels -> Nat]
      /\ lastMessage \in [Channels -> Messages \union {Nobody}]
      /\ Len(send[m].text) \in Nat
  <2>1. send[m] \in SendRecord
    BY <1>1, SendType
  <2>2. Len(send[m].text) \in Nat
    BY <2>1 DEF SendRecord
  <2>3. QED
    BY <1>1, <2>1, <2>2 DEF TypeOK
<1>3. CASE CheckMember(m)
  <2>1. PICK stage \in {"create", "rejected"} :
          /\ Moved(m, stage) /\ send'[m].handled = send[m].handled
          /\ stage = "create" => send[m].sender \in members[send[m].channel]
    BY <1>1, <1>3, GotoSendMoves DEF CheckMember
  <2>2. UNCHANGED <<tables, del, clients, entitled>> /\ send[m].at = "check"
    BY <1>3 DEF CheckMember
  <2>3. SendOK(m)'
    BY <1>1, <2>1, <2>2
       DEF Moved, tables, SendOK, RowsOK, ChannelRowOK, MentionsOK, EntitledOK
  <2>4. QED
    BY <1>1, <2>1, <2>2, <2>3
       DEF Moved, tables, clients, TellOK, HeardOK, OvertakenOK, ToBeTold, ViewOK
<1>4. CASE StoreMessage(m)
  <2>1. PICK stage \in {"count", "mention"} :
          /\ Moved(m, stage) /\ send'[m].handled = send[m].handled
          /\ stage = "count" <=> send[m].text = << >>
    BY <1>1, <1>4, GotoSendMoves DEF StoreMessage
  <2>2. /\ stored' = stored \union {m} /\ send[m].at = "create"
        /\ UNCHANGED <<members, messageCount, lastMessage, deleted, mentions, del, clients, entitled>>
    BY <1>4 DEF StoreMessage
  <2>3. send[m].text # << >> => 0 < Len(send[m].text)
    BY <1>2 DEF SendRecord
  <2>4. SendOK(m)'
    BY <1>1, <2>1, <2>2, <2>3
       DEF Moved, SendOK, RowsOK, ChannelRowOK, MentionsOK, EntitledOK
  <2>5. QED
    BY <1>1, <2>1, <2>2, <2>4 DEF Moved, clients, TellOK, HeardOK, OvertakenOK, ToBeTold, ViewOK
<1>5. CASE StoreMention(m)
  <2>1. PICK stage \in {"count", "mention"} :
          /\ Moved(m, stage) /\ send'[m].handled = send[m].handled + 1
          /\ stage = "count" <=> send[m].handled + 1 = Len(send[m].text)
    BY <1>1, <1>5, MentionMoves
  <2>2. /\ send[m].at = "mention"
        /\ UNCHANGED <<members, messageCount, lastMessage, stored, deleted, del, clients, entitled>>
    BY <1>5 DEF StoreMention
  <2>3. MentionsOK(m)'
    <3> DEFINE name == send[m].text[send[m].handled + 1]
    <3>1. mentions[m] \in Seq(Users) /\ send[m].handled \in Nat
      BY <1>1, <1>2 DEF TypeOK, SendRecord
    <3>2. mentions'[m] = IF name \in Users THEN Append(mentions[m], name) ELSE mentions[m]
      BY <1>1, <1>5 DEF StoreMention, TypeOK
    <3>3. Recorded(mentions[m], send[m].text, send[m].handled)
      BY <1>1 DEF MentionsOK
    <3>4. Recorded(mentions'[m], send[m].text, send[m].handled + 1)
      BY <3>1, <3>2, <3>3, RecordNext
    <3>5. QED
      BY <2>1, <3>4 DEF Moved, MentionsOK
  <2>4. RowsOK(m)'
    <3>1. send[m].handled < Len(send[m].text) /\ send[m].handled \in Nat
      BY <1>1, <1>2, <2>2 DEF RowsOK, SendRecord
    <3>2. send[m].handled + 1 # Len(send[m].text) =>
             send[m].handled + 1 < Len(send[m].text)
      BY <1>2, <3>1
    <3>3. QED
      BY <1>1, <2>1, <2>2, <3>2 DEF Moved, RowsOK
  <2>5. QED
    BY <1>1, <2>1, <2>2, <2>3, <2>4
       DEF Moved, clients, SendOK, ChannelRowOK, EntitledOK, TellOK, HeardOK, OvertakenOK,
           ToBeTold, ViewOK
<1>6. CASE CountMessage(m)
  <2>1. Moved(m, "stamp") /\ send'[m].handled = send[m].handled
    BY <1>1, <1>6, GotoSendMoves DEF CountMessage
  <2>2. /\ send[m].at = "count"
        /\ UNCHANGED <<members, lastMessage, stored, deleted, mentions, del, clients, entitled>>
    BY <1>6 DEF CountMessage
  <2>3. messageCount'[send[m].channel] > 0
    BY <1>1, <1>2, <1>6, <2>2 DEF CountMessage, RowsOK
  <2>4. SendOK(m)'
    BY <1>1, <2>1, <2>2, <2>3
       DEF Moved, SendOK, RowsOK, ChannelRowOK, MentionsOK, EntitledOK
  <2>5. QED
    BY <1>1, <2>1, <2>2, <2>4 DEF Moved, clients, TellOK, HeardOK, OvertakenOK, ToBeTold, ViewOK
<1>7. CASE StampChannel(m)
  <2>1. Moved(m, "emit") /\ send'[m].handled = send[m].handled
    BY <1>1, <1>7, GotoSendMoves DEF StampChannel
  <2>2. /\ send[m].at = "stamp"
        /\ UNCHANGED <<members, messageCount, stored, deleted, mentions, del, clients, entitled>>
    BY <1>7 DEF StampChannel
  <2>3. lastMessage'[send[m].channel] # Nobody
    BY <1>1, <1>2, <1>7, <2>2 DEF StampChannel, RowsOK
  <2>4. SendOK(m)'
    BY <1>1, <2>1, <2>2, <2>3
       DEF Moved, SendOK, RowsOK, ChannelRowOK, MentionsOK, EntitledOK
  <2>5. QED
    BY <1>1, <2>1, <2>2, <2>4 DEF Moved, clients, TellOK, HeardOK, OvertakenOK, ToBeTold, ViewOK
<1>8. CASE EmitNew(m)
  <2>1. Moved(m, "done") /\ send'[m].handled = send[m].handled
    BY <1>1, <1>8, GotoSendMoves DEF EmitNew
  <2>2. UNCHANGED <<tables, del, overtaken, entitled>> /\ send[m].at = "emit"
    BY <1>8 DEF EmitNew
  <2>3. SendOK(m)'
    BY <1>1, <2>1, <2>2
       DEF Moved, tables, SendOK, RowsOK, ChannelRowOK, MentionsOK, EntitledOK
  <2>4. m \in deleted => m \in overtaken \/ ToBeTold(m)
    BY <1>1, <2>2 DEF OvertakenOK
  <2>5. ASSUME NEW s \in Sockets
        PROVE  ViewOK(s, m)'
    <3>1. \/ view'[s] = view[s] \union {m}
          \/ missed'[s] = missed[s] \union {send[m].channel}
      BY <1>1, <1>8, EmitNewHeard
    <3>2. QED
      BY <2>1, <2>2, <2>4, <3>1 DEF Moved, tables, ToBeTold, ViewOK
  <2>6. TellOK(m)'
    BY <1>1, <2>1, <2>2 DEF Moved, tables, TellOK, HeardOK, OvertakenOK
  <2>7. QED
    BY <2>3, <2>5, <2>6
<1>9. CASE SendError(m)
  <2>1. Moved(m, "failed") /\ send'[m].handled = send[m].handled
    BY <1>1, <1>9, GotoSendMoves DEF SendError
  <2>2. UNCHANGED <<tables, del, clients, entitled>> /\ send[m].at \in SendStages
    BY <1>9 DEF SendError
  <2>3. SendOK(m)'
    BY <1>1, <2>1, <2>2
       DEF Moved, tables, SendOK, RowsOK, ChannelRowOK, MentionsOK, EntitledOK
  <2>4. QED
    BY <1>1, <2>1, <2>2, <2>3
       DEF Moved, tables, clients, TellOK, HeardOK, OvertakenOK, ToBeTold, ViewOK
<1>10. QED
  BY <1>3, <1>4, <1>5, <1>6, <1>7, <1>8, <1>9 DEF SendStep
-----------------------------------------------------------------------------
(* The count *)

LEMMA CountFinite ==
  ASSUME TypeOK, NEW c
  PROVE  /\ IsFiniteSet(Posts(c)) /\ Cardinality(Posts(c)) \in Nat
         /\ IsFiniteSet(Counted(c)) /\ Cardinality(Counted(c)) \in Nat
         /\ IsFiniteSet(MaybeCounted(c)) /\ Cardinality(MaybeCounted(c)) \in Nat
         /\ Cardinality(MaybeCounted(c)) <= Cardinality(Posts(c))
<1>1. Posts(c) \subseteq Messages
  BY DEF Posts, TypeOK
<1>2. IsFiniteSet(Posts(c))
  BY <1>1, MessagingAssumption, FS_Subset
<1>3. Counted(c) \subseteq Posts(c) /\ MaybeCounted(c) \subseteq Posts(c)
  BY DEF Counted, MaybeCounted
<1>4. QED
  BY <1>2, <1>3, FS_Subset, FS_CardinalityType

LEMMA CountFiniteNext ==
  ASSUME TypeOK', NEW c
  PROVE  /\ IsFiniteSet(MaybeCounted(c)') /\ Cardinality(MaybeCounted(c)') \in Nat
         /\ Cardinality(Counted(c)') \in Nat
<1>1. Posts(c)' \subseteq Messages
  BY DEF Posts, TypeOK
<1>2. Counted(c)' \subseteq Messages /\ MaybeCounted(c)' \subseteq Messages
  BY <1>1 DEF Counted, MaybeCounted
<1>3. QED
  BY <1>2, MessagingAssumption, FS_Subset, FS_CardinalityType

LEMMA CountStays ==
  ASSUME TypeOK, TypeOK', NEW c \in Channels, CountOK(c), messageCount'[c] = messageCount[c],
         Counted(c)' \subseteq Counted(c), MaybeCounted(c) \subseteq MaybeCounted(c)'
  PROVE  CountOK(c)'
<1>1. Cardinality(Counted(c)') <= Cardinality(Counted(c))
  BY CountFinite, FS_Subset
<1>2. Cardinality(MaybeCounted(c)) <= Cardinality(MaybeCounted(c)')
  BY CountFiniteNext, FS_Subset
<1>3. messageCount[c] \in Nat
  BY DEF TypeOK
<1>4. QED
  BY <1>1, <1>2, <1>3, CountFinite, CountFiniteNext DEF CountOK

\* The increment counts a message that was not counted.
LEMMA CountMessageCounts ==
  ASSUME IInv, TypeOK', NEW m \in Messages, CountMessage(m), NEW c \in Channels
  PROVE  CountOK(c)'
<1>1. /\ TypeOK /\ RowsOK(m) /\ CountOK(c) /\ messageCount \in [Channels -> Nat]
      /\ send[m].at = "count"
  BY DEF IInv, TypeOK, CountMessage
<1>2. Moved(m, "stamp") /\ stored' = stored /\ m \in stored
  BY <1>1, GotoSendMoves DEF CountMessage, RowsOK, Stages, SendStages
<1>3. messageCount' = [messageCount EXCEPT ![send[m].channel] = @ + 1]
  BY DEF CountMessage
<1>4. stored \subseteq Messages
  BY <1>1 DEF TypeOK
<1>5. CASE c # send[m].channel
  <2>1. Counted(c)' = Counted(c) /\ MaybeCounted(c)' = MaybeCounted(c)
    BY <1>1, <1>2, <1>4, <1>5 DEF Moved, Counted, MaybeCounted, Posts
  <2>2. messageCount'[c] = messageCount[c]
    BY <1>1, <1>3, <1>5
  <2>3. QED
    BY <1>1, <2>1, <2>2, CountStays
<1>6. CASE c = send[m].channel
  <2>1. /\ Counted(c)' = Counted(c) \union {m} /\ m \notin Counted(c)
        /\ MaybeCounted(c)' = MaybeCounted(c) \union {m} /\ m \notin MaybeCounted(c)
    BY <1>1, <1>2, <1>4, <1>6 DEF Moved, Counted, MaybeCounted, Posts
  <2>2. /\ Cardinality(Counted(c)') = Cardinality(Counted(c)) + 1
        /\ Cardinality(MaybeCounted(c)') = Cardinality(MaybeCounted(c)) + 1
    BY <1>1, <2>1, CountFinite, FS_AddElement
  <2>3. messageCount'[c] = messageCount[c] + 1
    BY <1>1, <1>3, <1>6
  <2>4. QED
    BY <1>1, <2>2, <2>3, CountFinite DEF CountOK
<1>7. QED
  BY <1>5, <1>6

LEMMA SendKeepsCount ==
  ASSUME IInv, TypeOK', NEW m \in Messages, SendStep(m) \/ SendError(m), NEW c \in Channels
  PROVE  CountOK(c)'
<1>1. /\ TypeOK /\ RowsOK(m) /\ CountOK(c) /\ stored \subseteq Messages
  BY DEF IInv, TypeOK
<1>2. ASSUME NEW stage, Moved(m, stage), messageCount' = messageCount,
             stored \subseteq stored', stored' \subseteq stored \union {m},
             stage \in {"stamp", "emit", "done"} =>
                send[m].at \in {"stamp", "emit", "done"} /\ m \in stored,
             send[m].at \in {"stamp", "emit", "done", "failed"} =>
                stage \in {"stamp", "emit", "done", "failed"}
      PROVE  CountOK(c)'
  <2>1. Counted(c)' \subseteq Counted(c)
    BY <1>1, <1>2 DEF Moved, Counted, Posts
  <2>2. MaybeCounted(c) \subseteq MaybeCounted(c)'
    BY <1>1, <1>2 DEF Moved, MaybeCounted, Posts
  <2>3. QED
    BY <1>1, <1>2, <2>1, <2>2, CountStays
<1>3. CASE CheckMember(m)
  <2>1. \E stage \in {"create", "rejected"} : Moved(m, stage)
    BY <1>1, <1>3, GotoSendMoves DEF CheckMember, Stages, SendStages, Ended
  <2>2. QED
    BY <1>2, <1>3, <2>1 DEF CheckMember, tables, SendStages
<1>4. CASE StoreMessage(m)
  <2>1. \E stage \in {"mention", "count"} : Moved(m, stage)
    BY <1>1, <1>4, GotoSendMoves DEF StoreMessage, Stages, SendStages
  <2>2. QED
    BY <1>2, <1>4, <2>1 DEF StoreMessage, SendStages
<1>5. CASE StoreMention(m)
  <2>1. \E stage \in {"mention", "count"} : Moved(m, stage)
    BY <1>1, <1>5, MentionMoves
  <2>2. /\ send[m].at = "mention" /\ messageCount' = messageCount /\ stored' = stored
    BY <1>5 DEF StoreMention
  <2>3. QED
    BY <1>2, <2>1, <2>2 DEF SendStages
<1>6. CASE CountMessage(m)
  BY <1>6, CountMessageCounts
<1>7. CASE StampChannel(m)
  <2>1. Moved(m, "emit")
    BY <1>1, <1>7, GotoSendMoves DEF StampChannel, Stages
  <2>2. QED
    BY <1>1, <1>2, <1>7, <2>1 DEF StampChannel, RowsOK
<1>8. CASE EmitNew(m)
  <2>1. Moved(m, "done")
    BY <1>1, <1>8, GotoSendMoves DEF EmitNew, Stages, Ended
  <2>2. QED
    BY <1>1, <1>2, <1>8, <2>1 DEF EmitNew, tables, RowsOK
<1>9. CASE SendError(m)
  <2>1. Moved(m, "failed")
    BY <1>1, <1>9, GotoSendMoves DEF SendError, Stages, Ended
  <2>2. QED
    BY <1>2, <1>9, <2>1 DEF SendError, tables, SendStages
<1>10. QED
  BY <1>3, <1>4, <1>5, <1>6, <1>7, <1>8, <1>9 DEF SendStep
-----------------------------------------------------------------------------
(* A delete's step *)

LEMMA DeleteKeepsRest ==
  ASSUME IInv, TypeOK', NEW d \in Deletes, DeleteStep(d) \/ DeleteError(d)
  PROVE  IInv'
<1>1. /\ TypeOK /\ DeleteOK(d)
      /\ \A e \in Deletes : DeleteOK(e)
      /\ \A q \in Messages : SendOK(q) /\ TellOK(q)
      /\ \A s \in Sockets, q \in Messages : ViewOK(s, q)
      /\ \A c \in Channels : CountOK(c)
  BY DEF IInv, SendOK, TellOK
<1>2. /\ members' = members /\ messageCount' = messageCount /\ lastMessage' = lastMessage
      /\ stored' = stored /\ mentions' = mentions /\ send' = send /\ entitled' = entitled
  BY DEF DeleteStep, FindMessage, SoftDelete, EmitDeleted, DeleteError, tables
<1>3. \A q \in Messages : SendOK(q)'
  BY <1>1, <1>2 DEF SendOK, RowsOK, ChannelRowOK, MentionsOK, EntitledOK
<1>4. \A c \in Channels : CountOK(c)'
  BY <1>1, <1>2 DEF CountOK, Counted, MaybeCounted, Posts
<1>5. ASSUME NEW stage \in DeleteStages \union Ended, DeleteMoved(d, stage),
             deleted' = deleted, UNCHANGED clients, del[d].at \in DeleteStages,
             stage = "softDelete" => del[d].message \in stored
      PROVE  /\ \A q \in Messages : TellOK(q)'
             /\ \A e \in Deletes : DeleteOK(e)'
             /\ \A s \in Sockets, q \in Messages : ViewOK(s, q)'
  <2>1. \A q \in Messages : TellOK(q)'
    <3>1. \A q \in Messages : ToBeTold(q) => ToBeTold(q)'
      BY <1>5 DEF DeleteMoved, DeleteStages, ToBeTold
    <3>2. QED
      BY <1>1, <1>2, <1>5, <3>1 DEF clients, TellOK, HeardOK, OvertakenOK
  <2>2. \A e \in Deletes : DeleteOK(e)'
    BY <1>1, <1>2, <1>5 DEF DeleteMoved, DeleteOK, DeleteStages, Ended
  <2>3. ASSUME NEW s \in Sockets, NEW q \in Messages
        PROVE  ViewOK(s, q)'
    <3>1. \A e \in Deletes : del[e].at = "emit" => del'[e] = del[e]
      BY <1>5 DEF DeleteMoved, DeleteStages
    <3>2. ViewOK(s, q)
      BY <1>1
    <3>3. QED
      BY <1>2, <1>5, <3>1, <3>2 DEF clients, ViewOK, ToBeTold
  <2>4. QED
    BY <2>1, <2>2, <2>3
<1>6. CASE FindMessage(d) \/ DeleteError(d)
  <2>1. PICK stage \in {"softDelete", "rejected", "failed"} :
          /\ GotoDelete(d, stage)
          /\ stage = "softDelete" => del[d].message \in stored
    BY <1>6 DEF FindMessage, DeleteError
  <2>2. DeleteMoved(d, stage)
    BY <1>1, <2>1, GotoDeleteMoves DEF DeleteStages, Ended
  <2>3. del[d].at \in DeleteStages /\ deleted' = deleted /\ UNCHANGED clients
    BY <1>6 DEF FindMessage, DeleteError, DeleteStages, tables
  <2>4. QED
    BY <1>2, <1>3, <1>4, <1>5, <2>1, <2>2, <2>3
       DEF DeleteStages, Ended, IInv, SendOK, TellOK
<1>7. CASE SoftDelete(d)
  <2> DEFINE m == del[d].message
  <2>1. /\ del[d].at = "softDelete" /\ deleted' = deleted \union {m} /\ UNCHANGED clients
        /\ GotoDelete(d, "emit")
    BY <1>7 DEF SoftDelete
  <2>2. DeleteMoved(d, "emit")
    BY <1>1, <2>1, GotoDeleteMoves
  <2>3. m \in Messages /\ m \in stored
    BY <1>1, <2>1 DEF DeleteOK
  <2>4. \A q \in Messages : TellOK(q)'
    <3>1. \A q \in Messages : ToBeTold(q) => ToBeTold(q)'
      BY <2>1, <2>2 DEF DeleteMoved, ToBeTold
    <3>2. \A q \in Messages : q = m => ToBeTold(q)'
      BY <2>2 DEF DeleteMoved, ToBeTold
    <3>3. overtaken' = overtaken
      BY <2>1 DEF clients
    <3> HIDE DEF m
    <3>4. QED
      BY <1>1, <1>2, <2>1, <3>1, <3>2, <3>3 DEF clients, TellOK, HeardOK, OvertakenOK
  <2> HIDE DEF m
  <2>5. \A e \in Deletes : DeleteOK(e)'
    BY <1>1, <1>2, <2>1, <2>2 DEF DeleteMoved, DeleteOK, m
  <2>6. ASSUME NEW s \in Sockets, NEW q \in Messages
        PROVE  ViewOK(s, q)'
    <3>1. \A e \in Deletes : del[e].at = "emit" => del'[e] = del[e]
      BY <2>1, <2>2 DEF DeleteMoved
    <3>2. del'[d].at = "emit" /\ del'[d].message = m
      BY <2>2 DEF DeleteMoved, m
    <3>3. ViewOK(s, q)
      BY <1>1
    <3>4. QED
      BY <1>2, <2>1, <3>1, <3>2, <3>3 DEF clients, ViewOK, ToBeTold
  <2>7. QED
    BY <1>2, <1>3, <1>4, <2>4, <2>5, <2>6 DEF IInv, SendOK, TellOK
<1>8. CASE EmitDeleted(d)
  <2> DEFINE m == del[d].message
  <2>1. del[d].at = "emit" /\ deleted' = deleted /\ GotoDelete(d, "done")
    BY <1>8 DEF EmitDeleted, tables
  <2>2. DeleteMoved(d, "done")
    BY <1>1, <2>1, GotoDeleteMoves DEF Ended
  <2>3. m \in Messages /\ m \in stored /\ m \in deleted /\ send[m].at # "idle"
    BY <1>1, <2>1 DEF DeleteOK, SendOK, RowsOK
  <2>4. \A s \in Sockets :
           /\ \/ view'[s] = view[s] \ {m} /\ missed'[s] = missed[s]
              \/ view'[s] = view[s] /\ missed'[s] = missed[s] \union {send[m].channel}
           /\ \A q \in Messages : copies'[s][q] = copies[s][q]
    BY <1>1, <1>8, <2>3, EmitDeletedHeard DEF SendOK
  <2>5. del'[d].at = "done" /\ \A e \in Deletes \ {d} : del'[e] = del[e]
    BY <2>2 DEF DeleteMoved
  <2>6. \A e \in Deletes : DeleteOK(e)'
    BY <1>1, <1>2, <2>1, <2>2 DEF DeleteMoved, DeleteOK
  <2>7. overtaken' = IF send[m].at \in Ended THEN overtaken \ {m} ELSE overtaken \union {m}
    BY <1>8 DEF EmitDeleted
  <2>8. \A q \in Messages : q # m /\ ToBeTold(q) => ToBeTold(q)'
    <3>1. \A q \in Messages, e \in Deletes : q # m /\ del[e].message = q => del'[e] = del[e]
      BY <2>5
    <3>2. QED
      BY <3>1 DEF ToBeTold
  <2> HIDE DEF m
  <2>9. \A q \in Messages : TellOK(q)'
    BY <1>1, <1>2, <2>1, <2>3, <2>4, <2>7, <2>8 DEF TellOK, HeardOK, OvertakenOK
  <2>10. ASSUME NEW s \in Sockets, NEW q \in Messages
         PROVE  ViewOK(s, q)'
    <3>1. ViewOK(s, q)
      BY <1>1
    <3>2. CASE q = m
      BY <1>2, <2>1, <2>3, <2>4, <2>7, <3>1, <3>2 DEF ViewOK, Ended
    <3>3. CASE q # m
      BY <1>2, <2>1, <2>4, <2>7, <2>8, <3>1, <3>3 DEF ViewOK
    <3>4. QED
      BY <3>2, <3>3
  <2>11. QED
    BY <1>2, <1>3, <1>4, <2>6, <2>9, <2>10 DEF IInv, SendOK, TellOK
<1>9. QED
  BY <1>6, <1>7, <1>8 DEF DeleteStep
-----------------------------------------------------------------------------
(* The other steps *)

LEMMA ArriveSendKeeps ==
  ASSUME IInv, TypeOK', NEW m \in Messages, NEW u \in Users, NEW c \in Channels,
         NEW via \in {"http", "socket"}, NEW text \in Texts, ArriveSend(m, u, c, via, text)
  PROVE  IInv'
<1>1. /\ TypeOK
      /\ \A e \in Deletes : DeleteOK(e)
      /\ \A q \in Messages : SendOK(q) /\ TellOK(q)
      /\ \A s \in Sockets, q \in Messages : ViewOK(s, q)
      /\ \A b \in Channels : CountOK(b)
  BY DEF IInv, SendOK, TellOK
<1>2. /\ send[m].at = "idle"
      /\ UNCHANGED <<tables, del, clients>>
      /\ entitled' = IF u \in members[c] THEN entitled \union {m} ELSE entitled
  BY DEF ArriveSend
<1>3. /\ \A q \in Messages \ {m} : send'[q] = send[q]
      /\ send'[m].at = "check" /\ send'[m].handled = 0
      /\ send'[m].sender = u /\ send'[m].channel = c /\ send'[m].text = text
  BY <1>1, ArriveMoves
<1>4. m \notin stored /\ send[m].handled = 0
  BY <1>1, <1>2 DEF SendOK, RowsOK
<1>5. ASSUME NEW q \in Messages
      PROVE  RowsOK(q)' /\ ChannelRowOK(q)' /\ EntitledOK(q)' /\ TellOK(q)'
  <2>1. SendOK(q) /\ TellOK(q) /\ deleted \subseteq stored
    BY <1>1 DEF TypeOK
  <2>2. CASE q = m
    BY <1>2, <1>3, <1>4, <2>1, <2>2
       DEF tables, clients, SendOK, RowsOK, ChannelRowOK, EntitledOK,
           TellOK, HeardOK, OvertakenOK, ToBeTold
  <2>3. CASE q # m
    BY <1>2, <1>3, <2>1, <2>3
       DEF tables, clients, SendOK, RowsOK, ChannelRowOK, EntitledOK,
           TellOK, HeardOK, OvertakenOK, ToBeTold
  <2>4. QED
    BY <2>2, <2>3
<1>6. ASSUME NEW q \in Messages
      PROVE  MentionsOK(q)'
  <2>1. MentionsOK(q) /\ mentions' = mentions
    BY <1>1, <1>2 DEF SendOK, tables
  <2>2. CASE q = m
    <3>1. Len(mentions[m]) = 0
      <4>1. Len(mentions[m]) = UsersAmong(send[m].text, 0)
        BY <1>4, <2>1, <2>2 DEF MentionsOK, Recorded
      <4>2. Recorded(<< >>, send[m].text, 0)
        BY NothingRecorded
      <4>3. QED
        BY <4>1, <4>2 DEF Recorded
    <3>2. mentions[m] = << >>
      BY <1>1, <3>1 DEF TypeOK
    <3>3. QED
      BY <1>3, <2>1, <2>2, <3>2, NothingRecorded DEF MentionsOK
  <2>3. CASE q # m
    BY <1>3, <2>1, <2>3 DEF MentionsOK
  <2>4. QED
    BY <2>2, <2>3
<1>7. \A e \in Deletes : DeleteOK(e)'
  BY <1>1, <1>2, <1>3 DEF tables, DeleteOK
<1>8. ASSUME NEW s \in Sockets, NEW q \in Messages
      PROVE  ViewOK(s, q)'
  BY <1>1, <1>2, <1>3 DEF tables, clients, ViewOK, ToBeTold
<1>9. ASSUME NEW b \in Channels
      PROVE  CountOK(b)'
  <2>1. Counted(b)' = Counted(b) /\ MaybeCounted(b)' = MaybeCounted(b)
    <3>1. \A q \in stored : send'[q] = send[q]
      BY <1>1, <1>3, <1>4 DEF TypeOK
    <3>2. stored' = stored
      BY <1>2 DEF tables
    <3>3. QED
      BY <3>1, <3>2 DEF Counted, MaybeCounted, Posts
  <2>2. QED
    BY <1>1, <1>2, <2>1, CountStays DEF tables
<1>10. QED
  BY <1>1, <1>5, <1>6, <1>7, <1>8, <1>9 DEF IInv, TellOK

LEMMA NextKeepsIInv == IInv /\ [Next]_vars => IInv'
<1> SUFFICES ASSUME IInv, [Next]_vars
             PROVE  IInv'
  OBVIOUS
<1>1. TypeOK'
  BY NextKeepsType
<1>2. /\ TypeOK
      /\ \A e \in Deletes : DeleteOK(e)
      /\ \A q \in Messages : SendOK(q) /\ TellOK(q)
      /\ \A s \in Sockets, q \in Messages : ViewOK(s, q)
      /\ \A c \in Channels : CountOK(c)
  BY DEF IInv, SendOK, TellOK
<1>3. ASSUME NEW m \in Messages, NEW u \in Users, NEW c \in Channels,
             NEW via \in {"http", "socket"}, NEW text \in Texts,
             ArriveSend(m, u, c, via, text)
      PROVE  IInv'
  BY <1>1, <1>3, ArriveSendKeeps
<1>4. ASSUME NEW d \in Deletes, NEW u \in Users, NEW m \in Messages, ArriveDelete(d, u, m)
      PROVE  IInv'
  <2>1. /\ del[d].at = "idle" /\ UNCHANGED <<tables, send, clients, entitled>>
        /\ \A e \in Deletes \ {d} : del'[e] = del[e]
        /\ del'[d].at = "find" /\ del'[d].message = m
    BY <1>2, <1>4 DEF ArriveDelete, TypeOK
  <2>2. m \in stored
    BY <1>4 DEF ArriveDelete
  <2>3. \A q \in Messages : SendOK(q)' /\ TellOK(q)'
    BY <1>2, <2>1
       DEF tables, clients, SendOK, RowsOK, ChannelRowOK, MentionsOK, EntitledOK,
           TellOK, HeardOK, OvertakenOK, ToBeTold
  <2>4. \A e \in Deletes : DeleteOK(e)'
    BY <1>2, <2>1, <2>2 DEF tables, DeleteOK
  <2>5. ASSUME NEW s \in Sockets, NEW q \in Messages
        PROVE  ViewOK(s, q)'
    <3>1. \A e \in Deletes : del[e].at = "emit" => del'[e] = del[e]
      BY <2>1
    <3>2. ViewOK(s, q)
      BY <1>2
    <3>3. QED
      BY <2>1, <3>1, <3>2 DEF tables, clients, ViewOK, ToBeTold
  <2>6. \A c \in Channels : CountOK(c)'
    BY <1>2, <2>1 DEF tables, CountOK, Counted, MaybeCounted, Posts
  <2>7. QED
    BY <1>1, <2>3, <2>4, <2>5, <2>6 DEF IInv, SendOK, TellOK
<1>5. ASSUME NEW m \in Messages, SendStep(m) \/ SendError(m)
      PROVE  IInv'
  <2>1. Frame(m)
    BY <1>2, <1>5, SendFrame DEF SendOK
  <2>2. SendOK(m)' /\ TellOK(m)' /\ \A s \in Sockets : ViewOK(s, m)'
    BY <1>5, SendKeepsOwn
  <2>3. /\ \A q \in Messages \ {m} : SendOK(q)' /\ TellOK(q)'
        /\ \A d \in Deletes : DeleteOK(d)'
        /\ \A s \in Sockets, q \in Messages \ {m} : ViewOK(s, q)'
    BY <1>1, <2>1, FrameKeeps
  <2>4. \A c \in Channels : CountOK(c)'
    BY <1>1, <1>5, SendKeepsCount
  <2>5. /\ \A q \in Messages : SendOK(q)' /\ TellOK(q)'
        /\ \A s \in Sockets, q \in Messages : ViewOK(s, q)'
    BY <2>2, <2>3
  <2>6. QED
    BY <1>1, <2>3, <2>4, <2>5 DEF IInv, SendOK, TellOK
<1>6. ASSUME NEW d \in Deletes, DeleteStep(d) \/ DeleteError(d)
      PROVE  IInv'
  BY <1>1, <1>6, DeleteKeepsRest
<1>7. ASSUME NEW c \in Channels, NEW u \in Users, MemberJoins(c, u) \/ MemberLeaves(c, u)
      PROVE  IInv'
  <2>1. UNCHANGED <<messageCount, lastMessage, stored, deleted, mentions, send, del, clients>>
    BY <1>7 DEF MemberJoins, MemberLeaves
  <2>2. ASSUME NEW q \in Messages
        PROVE  EntitledOK(q)'
    <3>1. EntitledOK(q)
      BY <1>2 DEF SendOK
    <3>2. CASE MemberLeaves(c, u)
      BY <1>2, <2>1, <3>1, <3>2 DEF MemberLeaves, EntitledOK, TypeOK
    <3>3. CASE MemberJoins(c, u)
      <4>1. \A b, v : v \in members'[b] /\ b \in Channels =>
               v \in members[b] \/ (b = c /\ v = u)
        BY <1>2, <3>3 DEF MemberJoins, TypeOK
      <4>2. send[q].at = "check" => send[q].channel \in Channels
        BY <1>2 DEF SendOK, RowsOK
      <4>3. /\ entitled \subseteq entitled'
            /\ send[q].at = "check" /\ send[q].sender = u /\ send[q].channel = c
                 => q \in entitled'
        BY <3>3 DEF MemberJoins
      <4>4. QED
        BY <2>1, <3>1, <4>1, <4>2, <4>3 DEF EntitledOK
    <3>4. QED
      BY <1>7, <3>2, <3>3
  <2>3. \A q \in Messages : SendOK(q)' /\ TellOK(q)'
    BY <1>2, <2>1, <2>2
       DEF clients, SendOK, RowsOK, ChannelRowOK, MentionsOK,
           TellOK, HeardOK, OvertakenOK, ToBeTold
  <2>4. /\ \A e \in Deletes : DeleteOK(e)'
        /\ \A s \in Sockets, q \in Messages : ViewOK(s, q)'
        /\ \A b \in Channels : CountOK(b)'
    BY <1>2, <2>1
       DEF clients, DeleteOK, ViewOK, ToBeTold, CountOK, Counted, MaybeCounted, Posts
  <2>5. QED
    BY <1>1, <2>3, <2>4 DEF IInv, SendOK, TellOK
<1>8. CASE \/ \E s \in Sockets, c \in Channels : JoinRoom(s, c) \/ LeaveRoom(s, c)
           \/ UNCHANGED vars
  <2>1. UNCHANGED <<tables, send, del, view, copies, missed, overtaken, entitled>>
    BY <1>8 DEF JoinRoom, LeaveRoom, vars, clients
  <2>2. \A q \in Messages : SendOK(q)' /\ TellOK(q)'
    BY <1>2, <2>1
       DEF tables, SendOK, RowsOK, ChannelRowOK, MentionsOK, EntitledOK,
           TellOK, HeardOK, OvertakenOK, ToBeTold
  <2>3. /\ \A e \in Deletes : DeleteOK(e)'
        /\ \A s \in Sockets, q \in Messages : ViewOK(s, q)'
        /\ \A b \in Channels : CountOK(b)'
    BY <1>2, <2>1 DEF tables, DeleteOK, ViewOK, ToBeTold, CountOK, Counted, MaybeCounted, Posts
  <2>4. QED
    BY <1>1, <2>2, <2>3 DEF IInv, SendOK, TellOK
<1>9. QED
  BY <1>3, <1>4, <1>5, <1>6, <1>7, <1>8 DEF Next, Arrive
-----------------------------------------------------------------------------
LEMMA Invariance == Spec => []IInv
<1>1. Init => IInv
  BY InitIInv
<1>2. IInv /\ [Next]_vars => IInv'
  BY NextKeepsIInv
<1>3. QED
  BY <1>1, <1>2, PTL DEF Spec

(* Every variable of Messaging keeps to its type; a message with deleted_at *)
(* set has a row.                                                           *)
THEOREM TypeCorrect == Spec => []TypeOK
<1>1. IInv => TypeOK
  BY DEF IInv
<1>2. QED
  BY <1>1, Invariance, PTL

(* sendMessage: whoever is told of a message finds its row, all its mention *)
(* rows and its channel's count and stamp there, whatever other requests    *)
(* did in between.                                                          *)
THEOREM AnnouncedComplete == Spec => []AnnouncedIsComplete
<1>1. IInv => AnnouncedIsComplete
  <2> SUFFICES ASSUME IInv, NEW s \in Sockets, NEW m \in Messages, copies[s][m] > 0
               PROVE  /\ m \in stored
                      /\ Recorded(mentions[m], send[m].text, Len(send[m].text))
                      /\ lastMessage[send[m].channel] # Nobody
                      /\ messageCount[send[m].channel] > 0
    BY DEF AnnouncedIsComplete
  <2>1. RowsOK(m) /\ ChannelRowOK(m) /\ MentionsOK(m) /\ HeardOK(m)
    BY DEF IInv
  <2>2. send[m].at = "done"
    BY <2>1 DEF HeardOK
  <2>3. QED
    BY <2>1, <2>2 DEF RowsOK, ChannelRowOK, MentionsOK
<1>2. QED
  BY <1>1, Invariance, PTL

(* incrementMessageCount: message_count stays between the sends that got    *)
(* past the increment and the messages of the channel, deleted ones among   *)
(* them.                                                                    *)
THEOREM CountCorrect == Spec => []CountBounded
<1>1. IInv => CountBounded
  <2> SUFFICES ASSUME IInv, NEW c \in Channels
               PROVE  /\ messageCount[c] <= Cardinality(Posts(c))
                      /\ messageCount[c] >= Cardinality(Counted(c))
    BY DEF CountBounded, Counted
  <2>1. TypeOK /\ CountOK(c)
    BY DEF IInv
  <2>2. messageCount[c] \in Nat
    BY <2>1 DEF TypeOK
  <2>3. QED
    BY <2>1, <2>2, CountFinite DEF CountOK
<1>2. QED
  BY <1>1, Invariance, PTL

(* isUserMember before create: a stored message's sender was a member of    *)
(* the channel at some moment of the request.                               *)
THEOREM PostsEntitled == Spec => []OnlyEntitledPost
<1>1. IInv => OnlyEntitledPost
  BY DEF IInv, TypeOK, EntitledOK, OnlyEntitledPost
<1>2. QED
  BY <1>1, Invariance, PTL

(* message:new and message:deleted: once a channel's requests have ended    *)
(* without an error, a client that missed no event of it shows what         *)
(* getChannelMessages would return, and of the deleted messages those whose *)
(* message:deleted went out before message:new.                             *)
THEOREM ViewsConverge == Spec => []ViewConverges
<1>1. IInv => ViewConverges
  <2> SUFFICES ASSUME IInv, NEW s \in Sockets, NEW c \in Channels,
                      Settled(c), c \notin missed[s]
               PROVE  {m \in view[s] : send[m].channel = c} = Posts(c) \ (deleted \ overtaken)
    BY DEF ViewConverges
  <2>1. stored \subseteq Messages /\ view[s] \subseteq Messages
    BY DEF IInv, TypeOK
  <2>2. ASSUME NEW m \in Messages, send[m].channel = c
        PROVE  m \in view[s] <=> m \in stored \ (deleted \ overtaken)
    <3>1. RowsOK(m) /\ HeardOK(m) /\ ViewOK(s, m)
      BY DEF IInv
    <3>2. send[m].at \in {"done", "rejected"}
      BY <2>2 DEF Settled
    <3>3. ~ToBeTold(m)
      BY DEF Settled, ToBeTold
    <3>4. QED
      BY <2>2, <3>1, <3>2, <3>3 DEF RowsOK, HeardOK, ViewOK
  <2>3. QED
    BY <2>1, <2>2 DEF Posts
<1>2. QED
  BY <1>1, Invariance, PTL
=============================================================================
