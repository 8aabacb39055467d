------------------------------ MODULE Records -------------------------------
(***************************************************************************)
(* The operations of message.repository.ts on stored messages: reactions   *)
(* and edits, which read a row, change the copy and write whole columns    *)
(* back, replies, pins, deletions, and a client that reads the messages of *)
(* a channel page by page (getChannelMessages of the controller).          *)
(*                                                                         *)
(* The messages are those of one channel, numbered as they were created.   *)
(* Number 1 is the one that is reacted to, edited, replied to and pinned.  *)
(* Sending and deleting in full are module Messaging's; here they are the  *)
(* statement that changes the list.                                        *)
(***************************************************************************)
EXTENDS Pagination, Sequences, FiniteSets, SequencesExt

CONSTANTS
    Users,      \* who reacts
    NoOne,      \* neither a user nor an emoji
    Emojis,     \* with what
    MaxJobs,    \* repository calls in a run, numbered as they come
    Readers,    \* clients that read the channel, each once
    Backlog,    \* messages at the start
    PageSize,   \* limit of findByChannel, which its only caller leaves at the default
    Limits      \* what clients pass as ?limit=

ASSUME RecordsAssumption ==
    /\ MaxJobs \in Nat
    /\ Backlog \in Nat \ {0}
    /\ PageSize \in Nat \ {0}
    /\ Limits \subseteq 1..MaxLimit /\ Limits # {}

VARIABLES
    reactions,  \* reactions[e]: the entry of e in the reactions column of message 1
    content,    \* which edit its content is, 0 for the original
    history,    \* metadata.editHistory: the contents it had
    marks,      \* which of isPinned and isThreadParent are set
    replies,    \* replyCount
    created,    \* messages created so far
    deleted,    \* those with deleted_at
    purged,     \* those whose rows are gone
    job,        \* job[j]: how far a repository call has come
    reader,     \* reader[c]: how far a client has read
    asked,      \* asked[e]: whose reactions the writes so far were to leave
    edits,      \* the contents in the order in which they were written
    tangled     \* columns that were written from a copy that was out of date

row == <<reactions, content, history, marks, replies>>
list == <<created, deleted, purged>>
ledger == <<asked, edits, tangled>>
recordVars == <<row, list, job, reader, ledger>>

Jobs == 1..MaxJobs
NoReactions == [e \in Emojis |-> [users |-> {}, count |-> 0]]

\* entries, contents: the copy of the row that the call has changed and will write back.
Job == [at: {"idle", "adding", "removing", "editing", "replying", "done"},
        user: Users \union {NoOne}, emoji: Emojis \union {NoOne},
        entries: [Emojis -> [users: SUBSET Users, count: Int]], contents: Seq(0..MaxJobs)]

\* had: the messages when it began; met: one was deleted since.
Reader == [at: {"idle", "reading", "counting", "done", "failed"}, page: Nat, limit: Limits,
           seen: SUBSET Nat, had: SUBSET Nat, met: BOOLEAN]

RecordsTypeOK ==
    /\ reactions \in [Emojis -> [users: SUBSET Users, count: Int]]
    /\ content \in 0..MaxJobs /\ history \in Seq(0..MaxJobs)
    /\ marks \subseteq {"pinned", "thread"}
    /\ replies \in Nat
    /\ created \in Nat /\ deleted \subseteq 1..created /\ purged \subseteq 1..created
    /\ job \in [Jobs -> Job]
    /\ reader \in [Readers -> Reader]
    /\ asked \in [Emojis -> SUBSET Users] /\ edits \in Seq(0..MaxJobs)
    /\ tangled \subseteq {"reactions", "metadata"}

NoJob(at) == [at |-> at, user |-> NoOne, emoji |-> NoOne, entries |-> NoReactions,
              contents |-> << >>]

RecordsInit ==
    /\ reactions = NoReactions
    /\ content = 0 /\ history = << >>
    /\ marks = {} /\ replies = 0
    /\ created = Backlog /\ deleted = {} /\ purged = {}
    /\ job = [j \in Jobs |-> NoJob("idle")]
    /\ reader = [c \in Readers |->
                   [at |-> "idle", page |-> 1, limit |-> CHOOSE l \in Limits : TRUE,
                    seen |-> {}, had |-> {}, met |-> FALSE]]
    /\ asked = [e \in Emojis |-> {}] /\ edits = <<0>>
    /\ tangled = {}

Live == 1..created \ (deleted \union purged)

PutJob(j, q) == job' = [job EXCEPT ![j] = q]
End(j) == PutJob(j, NoJob("done"))

\* A call comes: its first statement runs.
Comes(j) == job[j].at = "idle" /\ \A i \in 1 .. j - 1 : job[i].at # "idle"
-----------------------------------------------------------------------------
(* Reactions and edits: find, change the copy, write it back *)

\* Fault: without the test whether the user is in the list already.
AddedAgain(entries, emoji, user) ==
    [entries EXCEPT ![emoji] = [users |-> @.users \union {user}, count |-> @.count + 1]]

Added(entries, emoji, user) ==
    IF user \in entries[emoji].users THEN entries
    ELSE [entries EXCEPT ![emoji] = [users |-> @.users \union {user}, count |-> @.count + 1]]

Removed(entries, emoji, user) ==
    IF user \notin entries[emoji].users THEN entries
    ELSE [entries EXCEPT ![emoji] = [users |-> @.users \ {user}, count |-> @.count - 1]]

\* A deleted message is not found: removeReaction returns, the others throw.
FindMissing(j) ==
    /\ Comes(j) /\ 1 \notin Live
    /\ End(j)
    /\ UNCHANGED <<row, list, reader, ledger>>

FindToReact(j, user, emoji) ==
    /\ Comes(j) /\ 1 \in Live
    /\ PutJob(j, [NoJob("adding") EXCEPT !.user = user, !.emoji = emoji,
                    !.entries = Added(reactions, emoji, user)])
    /\ UNCHANGED <<row, list, reader, ledger>>

\* A message that was never reacted to has no list, and removeReaction returns; the
\* model does not tell that from an empty list.
FindToUnreact(j, user, emoji) ==
    /\ Comes(j) /\ 1 \in Live
    /\ \/ reactions = NoReactions /\ End(j)
       \/ PutJob(j, [NoJob("removing") EXCEPT !.user = user, !.emoji = emoji,
                       !.entries = Removed(reactions, emoji, user)])
    /\ UNCHANGED <<row, list, reader, ledger>>

FindToEdit(j) ==
    /\ Comes(j) /\ 1 \in Live
    /\ PutJob(j, [NoJob("editing") EXCEPT !.contents = Append(history, content)])
    /\ UNCHANGED <<row, list, reader, ledger>>

\* What the write would have been, had the row been read at this moment.
Fresh(j) ==
    IF job[j].at = "adding" THEN Added(reactions, job[j].emoji, job[j].user)
    ELSE Removed(reactions, job[j].emoji, job[j].user)

\* The UPDATE also finds a row with deleted_at; without a row it changes nothing.
WriteReactions(j) ==
    /\ job[j].at \in {"adding", "removing"}
    /\ IF 1 \in purged THEN UNCHANGED <<reactions, asked, tangled>>
       ELSE /\ reactions' = job[j].entries
            /\ asked' = [asked EXCEPT ![job[j].emoji] = IF job[j].at = "adding"
                                                        THEN @ \union {job[j].user}
                                                        ELSE @ \ {job[j].user}]
            /\ tangled' = IF job[j].entries = Fresh(j) THEN tangled
                          ELSE tangled \union {"reactions"}
    /\ End(j)
    /\ UNCHANGED <<content, history, marks, replies, list, reader, edits>>

\* Fault: the new content goes into the history.
WriteEditWrongContent(j) ==
    /\ job[j].at = "editing"
    /\ IF 1 \in purged THEN UNCHANGED <<content, history, edits, tangled>>
       ELSE /\ content' = j /\ history' = Append(history, j)
            /\ edits' = Append(edits, j)
            /\ tangled' = tangled
    /\ End(j)
    /\ UNCHANGED <<reactions, marks, replies, list, reader, asked>>

WriteEdit(j) ==
    /\ job[j].at = "editing"
    /\ IF 1 \in purged THEN UNCHANGED <<content, history, edits, tangled>>
       ELSE /\ content' = j /\ history' = job[j].contents
            /\ edits' = Append(edits, j)
            /\ tangled' = IF job[j].contents = Append(history, content) THEN tangled
                          ELSE tangled \union {"metadata"}
    /\ End(j)
    /\ UNCHANGED <<reactions, marks, replies, list, reader, asked>>
-----------------------------------------------------------------------------
(* Replies and pins *)

\* Fault: a decrement.
DecrementReplyCount(j) ==
    /\ Comes(j)
    /\ replies' = IF 1 \in purged THEN replies ELSE replies - 1
    /\ PutJob(j, NoJob("replying"))
    /\ UNCHANGED <<reactions, content, history, marks, list, reader, ledger>>

\* The increment is one statement, lastReplyAt and isThreadParent are the next.
IncrementReplyCount(j) ==
    /\ Comes(j)
    /\ replies' = IF 1 \in purged THEN replies ELSE replies + 1
    /\ PutJob(j, NoJob("replying"))
    /\ UNCHANGED <<reactions, content, history, marks, list, reader, ledger>>

StampReply(j) ==
    /\ job[j].at = "replying"
    /\ marks' = IF 1 \in purged THEN marks ELSE marks \union {"thread"}
    /\ End(j)
    /\ UNCHANGED <<reactions, content, history, replies, list, reader, ledger>>

PinMessage(j) ==
    /\ Comes(j)
    /\ marks' = IF 1 \in purged THEN marks ELSE marks \union {"pinned"}
    /\ End(j)
    /\ UNCHANGED <<reactions, content, history, replies, list, reader, ledger>>

UnpinMessage(j) ==
    /\ Comes(j)
    /\ marks' = marks \ {"pinned"}
    /\ End(j)
    /\ UNCHANGED <<reactions, content, history, replies, list, reader, ledger>>

\* The second statement fails.  (A call whose first one fails has done nothing.)
JobError(j) ==
    /\ job[j].at \notin {"idle", "done"}
    /\ End(j)
    /\ UNCHANGED <<row, list, reader, ledger>>
-----------------------------------------------------------------------------
(* The list of messages *)

\* Readers at work when a message goes.
Disturb == reader' = [c \in Readers |->
             IF reader[c].at \in {"reading", "counting"} THEN [reader[c] EXCEPT !.met = TRUE]
             ELSE reader[c]]

Send(j) ==
    /\ Comes(j)
    /\ created' = created + 1
    /\ End(j)
    /\ UNCHANGED <<row, deleted, purged, reader, ledger>>

SoftDelete(j) ==
    /\ Comes(j)
    /\ \E m \in Live : deleted' = deleted \union {m}
    /\ End(j)
    /\ Disturb
    /\ UNCHANGED <<row, created, purged, ledger>>

\* The rows older than a date go, those with deleted_at too.
DeleteOldMessages(j) ==
    /\ Comes(j)
    /\ \E last \in 0..created : purged' = purged \union 1..last
    /\ End(j)
    /\ Disturb
    /\ UNCHANGED <<row, created, deleted, ledger>>
-----------------------------------------------------------------------------
(* A client reads page after page, as long as the answer says hasNext *)

PutReader(c, q) == reader' = [reader EXCEPT ![c] = q]

StartReading(c, limit) ==
    /\ reader[c].at = "idle"
    /\ PutReader(c, [reader[c] EXCEPT !.at = "reading", !.limit = limit, !.had = Live])
    /\ UNCHANGED <<row, list, job, ledger>>

\* Fault: pages counted from 0.
PageOfZero(page) ==
    LET skip == page * PageSize
        rank(m) == Cardinality({n \in Live : n >= m})
    IN  {m \in Live : rank(m) > skip /\ rank(m) <= skip + PageSize}

\* ORDER BY created_at DESC, OFFSET, LIMIT.
PageOf(page) ==
    LET skip == CalculateSkip(page, PageSize)
        rank(m) == Cardinality({n \in Live : n >= m})
    IN  {m \in Live : rank(m) > skip /\ rank(m) <= skip + PageSize}

\* findAndCount selects the page and then counts.
ReadPage(c) ==
    /\ reader[c].at = "reading"
    /\ PutReader(c, [reader[c] EXCEPT !.at = "counting",
                                      !.seen = @ \union PageOf(reader[c].page)])
    /\ UNCHANGED <<row, list, job, ledger>>

\* The answer is computed with the limit of the request, not the size of the page.
CountMessages(c) ==
    /\ reader[c].at = "counting"
    /\ LET result == CreatePaginatedResult(Cardinality(Live), reader[c].page, reader[c].limit)
       IN  PutReader(c, IF result.hasNext
                        THEN [reader[c] EXCEPT !.at = "reading", !.page = @ + 1]
                        ELSE [reader[c] EXCEPT !.at = "done"])
    /\ UNCHANGED <<row, list, job, ledger>>

ReadError(c) ==
    /\ reader[c].at \in {"reading", "counting"}
    /\ PutReader(c, [reader[c] EXCEPT !.at = "failed"])
    /\ UNCHANGED <<row, list, job, ledger>>
-----------------------------------------------------------------------------
RecordsNext ==
    \/ \E j \in Jobs :
         \/ \E user \in Users, emoji \in Emojis :
              FindToReact(j, user, emoji) \/ FindToUnreact(j, user, emoji)
         \/ FindMissing(j) \/ FindToEdit(j) \/ WriteReactions(j) \/ WriteEdit(j)
         \/ IncrementReplyCount(j) \/ StampReply(j) \/ PinMessage(j) \/ UnpinMessage(j)
         \/ Send(j) \/ SoftDelete(j) \/ DeleteOldMessages(j) \/ JobError(j)
    \/ \E c \in Readers :
         \/ \E limit \in Limits : StartReading(c, limit)
         \/ ReadPage(c) \/ CountMessages(c) \/ ReadError(c)

(***************************************************************************)
(* An update that nothing overlapped stands.  The count of a reaction is   *)
(* the number of its users whatever overlaps; as long as every write was   *)
(* made from the row as it was, the users are those who reacted and did    *)
(* not take it back, and the edit history is every content the message     *)
(* had, in order (addReaction, removeReaction, markAsEdited).  Overlapping *)
(* calls lose updates, of other users' reactions and of other edits.       *)
(***************************************************************************)
UpdatesStand ==
    /\ \A e \in Emojis : reactions[e].count = Cardinality(reactions[e].users)
    /\ "reactions" \notin tangled => \A e \in Emojis : reactions[e].users = asked[e]
    /\ content = Last(edits)
    /\ "metadata" \notin tangled => Append(history, content) = edits

(***************************************************************************)
(* A client that follows hasNext has seen every message that was there     *)
(* when it began, whatever was sent meanwhile, if none was deleted and it  *)
(* asked for no more than a page holds: the answer reckons with the limit  *)
(* it asked for (getChannelMessages, findByChannel).  The arithmetic       *)
(* itself is right.                                                        *)
(***************************************************************************)
PagesCover ==
    /\ PageArithmetic
    /\ \A c \in Readers :
         (reader[c].at = "done" /\ ~reader[c].met /\ reader[c].limit <= PageSize)
           => reader[c].had \subseteq reader[c].seen
=============================================================================
