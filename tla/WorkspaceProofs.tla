--------------------------- MODULE WorkspaceProofs ---------------------------
(***************************************************************************)
(* Theorems about Workspace, that is about Records, Tasks and Pagination,  *)
(* for any users, calls, readers, pages, limits, tasks and requests.  A    *)
(* copy of a row that is out of date still counts what it holds; a reader  *)
(* that nothing disturbed has every message of a rank up to the pages it   *)
(* has read; and what a request remembers of rows is still true of them    *)
(* until another request changes one.                                      *)
(***************************************************************************)
EXTENDS Workspace, FiniteSetTheorems, TLAPS

(* The page arithmetic, for all totals, pages and limits *)

LEMMA Division ==
  ASSUME NEW a \in Nat, NEW b \in Nat \ {0}
  PROVE  /\ a \div b \in Nat
         /\ (a \div b) * b \in Nat
         /\ (a \div b) * b <= a /\ a < (a \div b) * b + b
<1>0. a \in Int /\ b \in Int /\ b > 0
  OBVIOUS
<1>1. a = b * (a \div b) + (a % b)
  BY <1>0
<1>4. 0 <= a % b /\ a % b < b
  BY <1>0
<1>2. a \div b \in Int
  OBVIOUS
<1>3. QED
  BY <1>1, <1>2, <1>4

LEMMA Products ==
  ASSUME NEW p \in Int, NEW q \in Int, NEW b \in Nat
  PROVE  /\ p * b \in Int
         /\ (p + 1) * b = p * b + b /\ (p - 1) * b = p * b - b
         /\ p <= q => p * b <= q * b
<1>1. p * b \in Int /\ q * b \in Int
  OBVIOUS
<1>2. (p + 1) * b = p * b + b
  OBVIOUS
<1>3. (p - 1) * b = p * b - b
  OBVIOUS
<1>4. p <= q => p * b <= q * b
  OBVIOUS
<1>5. QED
  BY <1>1, <1>2, <1>3, <1>4

\* A page is before the last one exactly if items follow it.
LEMMA PagesReach ==
  ASSUME NEW total \in Nat, NEW limit \in Nat \ {0}, NEW page \in Int
  PROVE  /\ CalculateTotalPages(total, limit) \in Nat
         /\ page < CalculateTotalPages(total, limit) <=> page * limit < total
<1> DEFINE T == (total + limit - 1) \div limit
<1>1. total + limit - 1 \in Nat
  OBVIOUS
<1>2. /\ T \in Nat /\ T * limit \in Nat
      /\ T * limit <= total + limit - 1 /\ total + limit - 1 < T * limit + limit
  BY <1>1, Division
<1> HIDE DEF T
<1>3. page * limit \in Int /\ (page + 1) * limit = page * limit + limit
  BY Products
<1>4. ASSUME page < T
      PROVE  page * limit < total
  <2>1. page + 1 <= T /\ page + 1 \in Int /\ T \in Int /\ limit \in Nat
    BY <1>2, <1>4
  <2>2. (page + 1) * limit <= T * limit
    BY <2>1, Products
  <2>3. QED
    BY <1>2, <1>3, <2>2
<1>5. ASSUME ~(page < T)
      PROVE  ~(page * limit < total)
  <2>1. T <= page /\ T \in Int /\ limit \in Nat
    BY <1>2, <1>5
  <2>2. T * limit <= page * limit
    BY <2>1, Products
  <2>3. QED
    BY <1>2, <1>3, <2>2
<1>6. QED
  BY <1>2, <1>4, <1>5 DEF CalculateTotalPages, T

\* The places of a page among all items.
Items(total, limit, p) ==
    CalculateSkip(p, limit) + 1 .. Smaller(total, CalculateSkip(p + 1, limit))

\* The pages together hold every item, and none is empty.
LEMMA PagesHold ==
  ASSUME NEW total \in Nat, NEW limit \in Nat \ {0}
  PROVE  /\ UNION {Items(total, limit, p) : p \in 1..CalculateTotalPages(total, limit)}
              = 1..total
         /\ \A p \in 1..CalculateTotalPages(total, limit) : Items(total, limit, p) # {}
<1> DEFINE T == CalculateTotalPages(total, limit)
<1>1. T \in Nat
  BY PagesReach
<1>2. ASSUME NEW p \in Int
      PROVE  /\ p < T <=> p * limit < total
             /\ p * limit \in Int /\ (p - 1) * limit = p * limit - limit
             /\ CalculateSkip(p, limit) = p * limit - limit
             /\ CalculateSkip(p + 1, limit) = p * limit
  <2>1. (p + 1) - 1 = p /\ limit \in Nat
    OBVIOUS
  <2>2. p * limit \in Int /\ (p - 1) * limit = p * limit - limit
    BY <2>1, Products
  <2>3. p < T <=> p * limit < total
    BY PagesReach
  <2>4. QED
    BY <2>1, <2>2, <2>3 DEF CalculateSkip
<1> HIDE DEF T
<1>3. ASSUME NEW p \in 1..T
      PROVE  /\ Items(total, limit, p) \subseteq 1..total
             /\ Items(total, limit, p) # {}
  <2>1. p \in Int /\ p - 1 \in Int /\ p - 1 < T /\ p >= 1 /\ limit \in Nat
    BY <1>1
  <2>2. (p - 1) * limit < total
    BY <1>2, <2>1
  <2>3. /\ p * limit \in Int /\ p * limit - limit < total
        /\ CalculateSkip(p, limit) = p * limit - limit
        /\ CalculateSkip(p + 1, limit) = p * limit
    BY <1>2, <2>1, <2>2
  <2>4. 0 * limit <= (p - 1) * limit /\ 0 * limit = 0
    BY <2>1, Products
  <2>5. p * limit - limit >= 0
    BY <1>2, <2>1, <2>4
  <2> DEFINE k == p * limit
  <2>6. k \in Int /\ k - limit >= 0 /\ k - limit < total
        /\ Items(total, limit, p) = k - limit + 1 .. Smaller(total, k)
    BY <2>3, <2>5 DEF Items
  <2> HIDE DEF k
  <2>7. Smaller(total, k) \in Int /\ Smaller(total, k) <= total
        /\ k - limit + 1 <= Smaller(total, k)
    BY <2>6 DEF Smaller
  <2>8. k - limit + 1 \in Items(total, limit, p)
    BY <2>6, <2>7
  <2>9. QED
    BY <2>6, <2>7, <2>8
<1>4. ASSUME NEW m \in 1..total
      PROVE  \E p \in 1..T : m \in Items(total, limit, p)
  <2> DEFINE q == (m - 1) \div limit
  <2>1. m - 1 \in Nat
    OBVIOUS
  <2>2. /\ q \in Nat /\ q * limit \in Nat
        /\ q * limit <= m - 1 /\ m - 1 < q * limit + limit
    BY <2>1, Division
  <2> HIDE DEF q
  <2>3. q < T
    <3>1. q * limit < total
      BY <2>2
    <3>2. QED
      BY <1>2, <2>2, <3>1
  <2>4. q + 1 \in 1..T
    BY <1>1, <2>2, <2>3
  <2>5. q + 1 \in Int /\ (q + 1) * limit = q * limit + limit /\ q \in Int
    BY <2>2, Products
  <2>6. CalculateSkip(q + 1, limit) = q * limit
    BY <1>2, <2>5
  <2>7. CalculateSkip((q + 1) + 1, limit) = q * limit + limit
    BY <1>2, <2>5
  <2>8. m \in Items(total, limit, q + 1)
    BY <2>2, <2>6, <2>7 DEF Items, Smaller
  <2>9. QED
    BY <2>4, <2>8
<1>5. QED
  BY <1>3, <1>4 DEF T

\* A page selector shows pages there are, the current one among them.
LEMMA PageRange ==
  ASSUME NEW total \in Nat, NEW visible \in Nat \ {0}, NEW current \in 1..total
  PROVE  LET range == GetPageRange(current, total, visible)
         IN  /\ current \in range /\ range \subseteq 1..total
             /\ Cardinality(range) = Smaller(visible, total)
<1> DEFINE h == visible \div 2
           first == Larger(1, current - h)
           end == Smaller(total, first + visible - 1)
           start == IF end - first + 1 < visible THEN Larger(1, end - visible + 1) ELSE first
<1>1. h \in Int /\ 0 <= h /\ h <= visible - 1
  <2>1. 2 \in Nat \ {0} /\ visible \in Nat
    OBVIOUS
  <2>2. h \in Nat /\ h * 2 <= visible
    BY <2>1, Division
  <2> HIDE DEF h
  <2>3. QED
    BY <2>2
<1> HIDE DEF h
<1>2. /\ first \in Int /\ first >= 1 /\ first <= current /\ current <= first + visible - 1
      /\ current <= total
  BY <1>1 DEF Larger
<1> HIDE DEF first
<1>3. end \in Int /\ end <= total /\ current <= end /\ end <= first + visible - 1
      /\ (end = total \/ end = first + visible - 1)
  BY <1>2 DEF Smaller
<1> HIDE DEF end
<1>4. /\ start \in Int /\ start >= 1 /\ start <= current
      /\ end - start + 1 = Smaller(visible, total)
  BY <1>2, <1>3 DEF Larger, Smaller
<1>5. GetPageRange(current, total, visible) = start .. end
  BY DEF GetPageRange, start, end, first, h
<1> HIDE DEF start
<1>6. Cardinality(start .. end) = end - start + 1
  BY <1>2, <1>3, <1>4, FS_Interval
<1>7. QED
  BY <1>3, <1>4, <1>5, <1>6

LEMMA Options ==
  ASSUME NEW page \in Int, NEW limit \in Int
  PROVE  LET options == ParsePaginationOptions(page, limit)
         IN  /\ options.page \in Int /\ options.page >= 1
             /\ options.limit \in 1..MaxLimit /\ options.limit \in Nat \ {0}
BY DEF ParsePaginationOptions, Larger, Smaller, DefaultPage, DefaultLimit, MaxLimit

LEMMA ArithmeticHolds ==
  PageArithmetic
<1> SUFFICES ASSUME NEW total \in 0..4, NEW page \in -1..4, NEW limit \in -1..4
             PROVE
      LET options == ParsePaginationOptions(page, limit)
          result == CreatePaginatedResult(total, options.page, options.limit)
          before(p) == CalculateSkip(p, options.limit)
          items(p) == before(p) + 1 .. Smaller(total, before(p + 1))
      IN  /\ options.page >= 1 /\ options.limit \in 1..MaxLimit
          /\ UNION {items(p) : p \in 1..result.totalPages} = 1..total
          /\ \A p \in 1..result.totalPages : items(p) # {}
          /\ result.hasNext <=> before(options.page + 1) < total
          /\ \A p \in 1..result.totalPages :
               LET next == GetNextPage(p, result.totalPages)
               IN  /\ next # NoPage <=> p < result.totalPages
                   /\ next # NoPage => /\ IsValidPage(next, result.totalPages)
                                       /\ GetPrevPage(next) = p
          /\ \A current \in 1..result.totalPages, visible \in 1..4 :
               LET range == GetPageRange(current, result.totalPages, visible)
               IN  /\ current \in range /\ range \subseteq 1..result.totalPages
                   /\ Cardinality(range) = Smaller(visible, result.totalPages)
  BY DEF PageArithmetic
<1> DEFINE options == ParsePaginationOptions(page, limit)
           result == CreatePaginatedResult(total, options.page, options.limit)
<1>1. /\ options.page \in Int /\ options.page >= 1
      /\ options.limit \in 1..MaxLimit /\ options.limit \in Nat \ {0} /\ total \in Nat
  <2>1. page \in Int /\ limit \in Int
    OBVIOUS
  <2>2. QED
    BY <2>1, Options
<1> HIDE DEF options
<1> DEFINE T == CalculateTotalPages(total, options.limit)
<1>2. result.totalPages = T /\ (result.hasNext <=> options.page < T)
  BY DEF CreatePaginatedResult
<1> HIDE DEF result
<1>3. T \in Nat /\ (options.page < T <=> options.page * options.limit < total)
  BY <1>1, PagesReach
<1>4. /\ UNION {Items(total, options.limit, p) : p \in 1..T} = 1..total
      /\ \A p \in 1..T : Items(total, options.limit, p) # {}
  BY <1>1, PagesHold
<1> HIDE DEF T
<1>5. CalculateSkip(options.page + 1, options.limit) = options.page * options.limit
  <2>1. (options.page + 1) - 1 = options.page
    BY <1>1
  <2>2. CalculateSkip(options.page + 1, options.limit)
          = ((options.page + 1) - 1) * options.limit
    BY Zenon DEF CalculateSkip
  <2>3. QED
    BY <2>1, <2>2, Zenon
<1>6. \A p \in 1..T : LET next == GetNextPage(p, T)
                      IN  /\ next # NoPage <=> p < T
                          /\ next # NoPage => IsValidPage(next, T) /\ GetPrevPage(next) = p
  BY <1>3 DEF GetNextPage, NoPage, IsValidPage, GetPrevPage
<1>7. ASSUME NEW current \in 1..T, NEW visible \in 1..4
      PROVE  LET range == GetPageRange(current, T, visible)
             IN  /\ current \in range /\ range \subseteq 1..T
                 /\ Cardinality(range) = Smaller(visible, T)
  <2>1. visible \in Nat \ {0}
    OBVIOUS
  <2>2. QED
    BY <1>3, <2>1, PageRange
<1>8. /\ UNION {Items(total, options.limit, p) : p \in 1..result.totalPages} = 1..total
      /\ \A p \in 1..result.totalPages : Items(total, options.limit, p) # {}
  BY <1>2, <1>4
<1>9. \A p \in 1..result.totalPages :
        LET next == GetNextPage(p, result.totalPages)
        IN  /\ next # NoPage <=> p < result.totalPages
            /\ next # NoPage => IsValidPage(next, result.totalPages) /\ GetPrevPage(next) = p
  BY <1>2, <1>6
<1>10. \A current \in 1..result.totalPages, visible \in 1..4 :
         LET range == GetPageRange(current, result.totalPages, visible)
         IN  /\ current \in range /\ range \subseteq 1..result.totalPages
             /\ Cardinality(range) = Smaller(visible, result.totalPages)
  BY <1>2, <1>7
<1>11. result.hasNext <=> CalculateSkip(options.page + 1, options.limit) < total
  BY <1>2, <1>3, <1>5
<1>12. QED
  BY <1>1, <1>8, <1>9, <1>10, <1>11, Zenon DEF Items, options, result
-----------------------------------------------------------------------------
(* Records: the invariant *)

Entries == [Emojis -> [users: SUBSET Users, count: Int]]

\* The count of every reaction is the number of its users.
Tallied(entries) ==
    \A e \in Emojis : /\ IsFiniteSet(entries[e].users)
                      /\ entries[e].count = Cardinality(entries[e].users)

RowOK ==
    /\ reactions \in Entries /\ Tallied(reactions)
    /\ asked \in [Emojis -> SUBSET Users] /\ tangled \subseteq {"reactions", "metadata"}
    /\ "reactions" \notin tangled => \A e \in Emojis : reactions[e].users = asked[e]

EditsOK ==
    /\ content \in 0..MaxJobs /\ history \in Seq(0..MaxJobs) /\ edits \in Seq(0..MaxJobs)
    /\ edits # << >> /\ content = edits[Len(edits)]
    /\ "metadata" \notin tangled => Append(history, content) = edits

MarksOK == marks \subseteq {"pinned", "thread"} /\ replies \in Nat

ListOK == created \in Nat /\ deleted \subseteq 1..created /\ purged \subseteq 1..created

\* What a call has read and changed and will write back.
CopyOK(q) ==
    /\ q \in Job /\ Tallied(q.entries)
    /\ q.at \in {"adding", "removing"} => q.user \in Users /\ q.emoji \in Emojis

JobsOK == job \in [Jobs -> Job] /\ \A j \in Jobs : CopyOK(job[j])

\* The place of m among the messages, the newest first.
Rank(m) == Cardinality({n \in Live : n >= m})

\* The first page the reader has not selected yet.
Ahead(q) == IF q.at = "counting" THEN q.page + 1 ELSE q.page

\* A message that was there from the start and that the reader has not seen is there
\* still, beyond the pages that were selected.
ReaderOK(q) ==
    /\ q \in Reader /\ q.page >= 1
    /\ q.at = "idle" => q.page = 1 /\ q.seen = {}
    /\ (q.at \in {"reading", "counting"} /\ ~q.met) =>
         /\ q.had \subseteq Live
         /\ \A m \in q.had \ q.seen : Rank(m) > CalculateSkip(Ahead(q), PageSize)
    /\ (q.at = "done" /\ ~q.met /\ q.limit <= PageSize) => q.had \subseteq q.seen

ReadersOK == reader \in [Readers -> Reader] /\ \A c \in Readers : ReaderOK(reader[c])

RecordsInv == RowOK /\ EditsOK /\ MarksOK /\ ListOK /\ JobsOK /\ ReadersOK
-----------------------------------------------------------------------------
(* Records: what stays *)

LEMMA RowStays ==
  RowOK /\ UNCHANGED <<reactions, asked, tangled>> => RowOK'
BY DEF RowOK, Tallied

LEMMA EditsStay ==
  EditsOK /\ UNCHANGED <<content, history, edits, tangled>> => EditsOK'
BY DEF EditsOK

LEMMA MarksStay ==
  MarksOK /\ UNCHANGED <<marks, replies>> => MarksOK'
BY DEF MarksOK

LEMMA ListStays ==
  ListOK /\ UNCHANGED list => ListOK'
BY DEF ListOK, list

LEMMA JobsStay ==
  JobsOK /\ UNCHANGED job => JobsOK'
BY DEF JobsOK, CopyOK, Tallied

LEMMA ReaderStays ==
  ASSUME NEW q, ReaderOK(q), UNCHANGED list
  PROVE  ReaderOK(q)'
<1>1. Live' = Live
  BY DEF list, Live
<1>2. \A m : Rank(m)' = Rank(m)
  BY <1>1 DEF Rank
<1>3. QED
  BY <1>1, <1>2 DEF ReaderOK

LEMMA ReadersStay ==
  ReadersOK /\ UNCHANGED <<list, reader>> => ReadersOK'
BY ReaderStays DEF ReadersOK, list, ReaderOK
-----------------------------------------------------------------------------
(* Records: the calls *)

LEMMA NoJobOK ==
  ASSUME NEW at \in {"idle", "adding", "removing", "editing", "replying", "done"}
  PROVE  /\ NoJob(at) \in Job /\ Tallied(NoJob(at).entries) /\ NoJob(at).at = at
         /\ at \notin {"adding", "removing"} => CopyOK(NoJob(at))
<1>1. NoReactions \in Entries /\ Tallied(NoReactions)
  <2>1. IsFiniteSet({}) /\ Cardinality({}) = 0
    BY FS_EmptySet
  <2>2. QED
    BY <2>1 DEF NoReactions, Entries, Tallied
<1>2. << >> \in Seq(0..MaxJobs)
  OBVIOUS
<1>3. NoJob(at) \in Job
  BY <1>1, <1>2 DEF NoJob, Job, Entries
<1>4. QED
  BY <1>1, <1>3 DEF NoJob, CopyOK

LEMMA PutJobKeeps ==
  ASSUME JobsOK, NEW j \in Jobs, NEW q, CopyOK(q), PutJob(j, q)
  PROVE  JobsOK'
<1>1. q \in Job /\ job' = [job EXCEPT ![j] = q] /\ job \in [Jobs -> Job]
  BY DEF CopyOK, PutJob, JobsOK
<1>2. \A i \in Jobs : job'[i] = IF i = j THEN q ELSE job[i]
  BY <1>1
<1>3. \A i \in Jobs : CopyOK(job'[i])
  BY <1>2 DEF JobsOK
<1>4. QED
  BY <1>1, <1>3 DEF JobsOK, CopyOK, Tallied

LEMMA EndKeeps ==
  ASSUME JobsOK, NEW j \in Jobs, End(j)
  PROVE  JobsOK'
<1>1. CopyOK(NoJob("done"))
  BY NoJobOK
<1>2. QED
  BY <1>1, PutJobKeeps DEF End

\* Adding a user to a reaction, or taking one off, keeps the count.
LEMMA AddedEffect ==
  ASSUME NEW entries \in Entries, Tallied(entries), NEW emoji \in Emojis, NEW user \in Users
  PROVE  /\ Added(entries, emoji, user) \in Entries /\ Tallied(Added(entries, emoji, user))
         /\ \A e \in Emojis : Added(entries, emoji, user)[e].users
                = IF e = emoji THEN entries[e].users \union {user} ELSE entries[e].users
<1>1. CASE user \in entries[emoji].users
  BY <1>1 DEF Added
<1>2. CASE user \notin entries[emoji].users
  <2> DEFINE S == entries[emoji].users
             entry == [users |-> S \union {user}, count |-> entries[emoji].count + 1]
             new == [entries EXCEPT ![emoji] = entry]
  <2>1. Added(entries, emoji, user) = new
    BY <1>2 DEF Added
  <2>2. S \in SUBSET Users /\ entries[emoji].count \in Int /\ IsFiniteSet(S)
        /\ entries[emoji].count = Cardinality(S)
    BY DEF Entries, Tallied
  <2>3. /\ IsFiniteSet(S \union {user}) /\ Cardinality(S \union {user}) = Cardinality(S) + 1
    BY <1>2, <2>2, FS_AddElement
  <2>4. entry \in [users: SUBSET Users, count: Int]
    BY <2>2
  <2>5. /\ entry.users = S \union {user} /\ IsFiniteSet(entry.users)
        /\ entry.count = Cardinality(entry.users)
    BY <2>2, <2>3
  <2> HIDE DEF entry, S
  <2>6. /\ new \in Entries /\ new[emoji] = entry
        /\ \A e \in Emojis \ {emoji} : new[e] = entries[e]
    BY <2>4 DEF Entries
  <2>7. Tallied(new)
    BY <2>5, <2>6 DEF Tallied
  <2>8. QED
    BY <2>1, <2>5, <2>6, <2>7 DEF S
<1>3. QED
  BY <1>1, <1>2

Without(users, user) == users \ {user}

LEMMA RemovedEffect ==
  ASSUME NEW entries \in Entries, Tallied(entries), NEW emoji \in Emojis, NEW user \in Users
  PROVE  /\ Removed(entries, emoji, user) \in Entries /\ Tallied(Removed(entries, emoji, user))
         /\ \A e \in Emojis : Removed(entries, emoji, user)[e].users
                = IF e = emoji THEN Without(entries[e].users, user) ELSE entries[e].users
<1>1. CASE user \notin entries[emoji].users
  BY <1>1 DEF Removed, Without
<1>2. CASE user \in entries[emoji].users
  <2> DEFINE S == entries[emoji].users
             entry == [users |-> S \ {user}, count |-> entries[emoji].count - 1]
             new == [entries EXCEPT ![emoji] = entry]
  <2>1. Removed(entries, emoji, user) = new
    BY <1>2 DEF Removed
  <2>2. S \in SUBSET Users /\ entries[emoji].count \in Int /\ IsFiniteSet(S)
        /\ entries[emoji].count = Cardinality(S)
    BY DEF Entries, Tallied
  <2>3. /\ IsFiniteSet(S \ {user}) /\ Cardinality(S \ {user}) = Cardinality(S) - 1
    BY <1>2, <2>2, FS_RemoveElement
  <2>4. entry \in [users: SUBSET Users, count: Int]
    BY <2>2
  <2>5. /\ entry.users = S \ {user} /\ IsFiniteSet(entry.users)
        /\ entry.count = Cardinality(entry.users)
    BY <2>2, <2>3
  <2> HIDE DEF entry, S
  <2>6. /\ new \in Entries /\ new[emoji] = entry
        /\ \A e \in Emojis \ {emoji} : new[e] = entries[e]
    BY <2>4 DEF Entries
  <2>7. Tallied(new)
    BY <2>5, <2>6 DEF Tallied
  <2>8. QED
    BY <2>1, <2>5, <2>6, <2>7 DEF S, Without
<1>3. QED
  BY <1>1, <1>2

LEMMA FindsKeep ==
  ASSUME RecordsInv, NEW j \in Jobs, NEW user \in Users, NEW emoji \in Emojis,
         FindToReact(j, user, emoji) \/ FindToUnreact(j, user, emoji)
  PROVE  RecordsInv'
<1>1. /\ RowOK /\ EditsOK /\ MarksOK /\ ListOK /\ JobsOK /\ ReadersOK
      /\ UNCHANGED <<reactions, content, history, marks, replies, list, reader, asked, edits,
                     tangled>>
  BY DEF RecordsInv, FindToReact, FindToUnreact, row, ledger
<1>2. RowOK' /\ EditsOK' /\ MarksOK' /\ ListOK' /\ ReadersOK'
  BY <1>1, RowStays, EditsStay, MarksStay, ListStays, ReadersStay
<1>3. reactions \in Entries /\ Tallied(reactions)
  BY <1>1 DEF RowOK
<1>4. CASE FindToReact(j, user, emoji)
  <2> DEFINE entries == Added(reactions, emoji, user)
             q == [NoJob("adding") EXCEPT !.user = user, !.emoji = emoji, !.entries = entries]
  <2>1. entries \in Entries /\ Tallied(entries)
    BY <1>3, AddedEffect
  <2> HIDE DEF entries
  <2>2. q \in Job /\ q.at = "adding" /\ q.user = user /\ q.emoji = emoji /\ q.entries = entries
    BY <2>1, NoJobOK DEF Job, Entries
  <2> HIDE DEF q
  <2>3. CopyOK(q)
    BY <2>1, <2>2 DEF CopyOK
  <2>4. PutJob(j, q)
    BY <1>4 DEF FindToReact, q, entries
  <2>5. QED
    BY <1>1, <1>2, <2>3, <2>4, PutJobKeeps DEF RecordsInv
<1>5. CASE FindToUnreact(j, user, emoji)
  <2> DEFINE entries == Removed(reactions, emoji, user)
             q == [NoJob("removing") EXCEPT !.user = user, !.emoji = emoji, !.entries = entries]
  <2>1. entries \in Entries /\ Tallied(entries)
    BY <1>3, RemovedEffect
  <2> HIDE DEF entries
  <2>2. /\ q \in Job /\ q.at = "removing" /\ q.user = user /\ q.emoji = emoji
        /\ q.entries = entries
    BY <2>1, NoJobOK DEF Job, Entries
  <2> HIDE DEF q
  <2>3. CopyOK(q)
    BY <2>1, <2>2 DEF CopyOK
  <2>4. PutJob(j, q) \/ End(j)
    BY <1>5 DEF FindToUnreact, q, entries
  <2>5. QED
    BY <1>1, <1>2, <2>3, <2>4, PutJobKeeps, EndKeeps DEF RecordsInv
<1>6. QED
  BY <1>4, <1>5

LEMMA FindToEditKeeps ==
  ASSUME RecordsInv, NEW j \in Jobs, FindToEdit(j)
  PROVE  RecordsInv'
<1>1. /\ RowOK /\ EditsOK /\ MarksOK /\ ListOK /\ JobsOK /\ ReadersOK
      /\ UNCHANGED <<reactions, content, history, marks, replies, list, reader, asked, edits,
                     tangled>>
  BY DEF RecordsInv, FindToEdit, row, ledger
<1>2. RowOK' /\ EditsOK' /\ MarksOK' /\ ListOK' /\ ReadersOK'
  BY <1>1, RowStays, EditsStay, MarksStay, ListStays, ReadersStay
<1> DEFINE contents == Append(history, content)
           q == [NoJob("editing") EXCEPT !.contents = contents]
<1>3. contents \in Seq(0..MaxJobs)
  BY <1>1 DEF EditsOK
<1> HIDE DEF contents
<1>4. q \in Job /\ q.at = "editing" /\ q.entries = NoJob("editing").entries
  BY <1>3, NoJobOK DEF Job
<1> HIDE DEF q
<1>5. CopyOK(q)
  BY <1>4, NoJobOK DEF CopyOK
<1>6. PutJob(j, q)
  BY DEF FindToEdit, q, contents
<1>7. QED
  BY <1>1, <1>2, <1>5, <1>6, PutJobKeeps DEF RecordsInv

\* What is written from a copy is counted; where the copy was up to date, it has the
\* users who asked.
LEMMA WriteReactionsKeeps ==
  ASSUME RecordsInv, NEW j \in Jobs, WriteReactions(j)
  PROVE  RecordsInv'
<1>1. /\ RowOK /\ EditsOK /\ MarksOK /\ ListOK /\ JobsOK /\ ReadersOK
      /\ UNCHANGED <<content, history, marks, replies, list, reader, edits>>
      /\ CopyOK(job[j]) /\ End(j) /\ job[j].at \in {"adding", "removing"}
  BY DEF RecordsInv, WriteReactions, JobsOK
<1>2. MarksOK' /\ ListOK' /\ ReadersOK' /\ JobsOK'
  BY <1>1, MarksStay, ListStays, ReadersStay, EndKeeps
<1>3. CASE 1 \in purged
  <2>1. UNCHANGED <<reactions, asked, tangled>>
    BY <1>3 DEF WriteReactions
  <2>2. QED
    BY <1>1, <1>2, <2>1, RowStays, EditsStay DEF RecordsInv
<1>4. CASE 1 \notin purged
  <2> DEFINE q == job[j]
             users == IF q.at = "adding" THEN asked[q.emoji] \union {q.user}
                      ELSE asked[q.emoji] \ {q.user}
  <2>1. /\ reactions' = q.entries
        /\ asked' = [asked EXCEPT ![q.emoji] = users]
        /\ tangled' = IF q.entries = Fresh(j) THEN tangled ELSE tangled \union {"reactions"}
    BY <1>4 DEF WriteReactions
  <2>2. /\ q.entries \in Entries /\ Tallied(q.entries) /\ q.user \in Users /\ q.emoji \in Emojis
    BY <1>1 DEF CopyOK, Job, Entries
  <2>3. /\ reactions \in Entries /\ Tallied(reactions) /\ asked \in [Emojis -> SUBSET Users]
        /\ tangled \subseteq {"reactions", "metadata"}
        /\ "reactions" \notin tangled => \A e \in Emojis : reactions[e].users = asked[e]
    BY <1>1 DEF RowOK
  <2>4. /\ reactions \in Entries /\ Tallied(reactions)
        /\ q.user \in Users /\ q.emoji \in Emojis
    BY <2>2, <2>3
  <2> HIDE DEF q
  <2>5. \A e \in Emojis : Fresh(j)[e].users =
           IF e # q.emoji THEN reactions[e].users
           ELSE IF q.at = "adding" THEN reactions[e].users \union {q.user}
           ELSE Without(reactions[e].users, q.user)
    <3>1. CASE q.at = "adding"
      <4>1. Fresh(j) = Added(reactions, q.emoji, q.user)
        BY <3>1 DEF Fresh, q
      <4>2. \A e \in Emojis : Added(reactions, q.emoji, q.user)[e].users
               = IF e = q.emoji THEN reactions[e].users \union {q.user} ELSE reactions[e].users
        BY <2>4, AddedEffect
      <4>3. QED
        BY <3>1, <4>1, <4>2
    <3>2. CASE q.at # "adding"
      <4>1. Fresh(j) = Removed(reactions, q.emoji, q.user)
        BY <3>2 DEF Fresh, q
      <4>2. \A e \in Emojis : Removed(reactions, q.emoji, q.user)[e].users
               = IF e = q.emoji THEN Without(reactions[e].users, q.user)
                 ELSE reactions[e].users
        BY <2>4, RemovedEffect
      <4>3. QED
        BY <3>2, <4>1, <4>2
    <3>3. QED
      BY <3>1, <3>2
  <2>6. users \in SUBSET Users
    BY <2>2, <2>3
  <2>7. /\ asked' \in [Emojis -> SUBSET Users] /\ asked'[q.emoji] = users
        /\ \A e \in Emojis \ {q.emoji} : asked'[e] = asked[e]
    BY <2>1, <2>2, <2>3, <2>6
  <2>8. /\ tangled' \subseteq {"reactions", "metadata"}
        /\ "metadata" \in tangled' <=> "metadata" \in tangled
        /\ "reactions" \notin tangled' => "reactions" \notin tangled /\ q.entries = Fresh(j)
    BY <2>1, <2>3
  <2>9. ASSUME "reactions" \notin tangled', NEW e \in Emojis
        PROVE  reactions'[e].users = asked'[e]
    <3>1. /\ reactions'[e].users = Fresh(j)[e].users /\ reactions[e].users = asked[e]
      BY <2>1, <2>3, <2>8, <2>9
    <3>2. CASE e = q.emoji
      BY <2>5, <2>7, <3>1, <3>2 DEF Without
    <3>3. CASE e # q.emoji
      BY <2>5, <2>7, <3>1, <3>3
    <3>4. QED
      BY <3>2, <3>3
  <2>10. RowOK'
    BY <2>1, <2>2, <2>7, <2>8, <2>9 DEF RowOK, Tallied
  <2>11. EditsOK'
    BY <1>1, <2>8 DEF EditsOK
  <2>12. QED
    BY <1>2, <2>10, <2>11 DEF RecordsInv
<1>5. QED
  BY <1>3, <1>4

\* An edit made from a copy that is up to date continues the history.
LEMMA WriteEditKeeps ==
  ASSUME RecordsInv, NEW j \in Jobs, WriteEdit(j)
  PROVE  RecordsInv'
<1>1. /\ RowOK /\ EditsOK /\ MarksOK /\ ListOK /\ JobsOK /\ ReadersOK
      /\ UNCHANGED <<reactions, marks, replies, list, reader, asked>>
      /\ CopyOK(job[j]) /\ End(j)
  BY DEF RecordsInv, WriteEdit, JobsOK
<1>2. MarksOK' /\ ListOK' /\ ReadersOK' /\ JobsOK'
  BY <1>1, MarksStay, ListStays, ReadersStay, EndKeeps
<1>3. CASE 1 \in purged
  <2>1. UNCHANGED <<content, history, edits, tangled>>
    BY <1>3 DEF WriteEdit
  <2>2. QED
    BY <1>1, <1>2, <2>1, RowStays, EditsStay DEF RecordsInv
<1>4. CASE 1 \notin purged
  <2> DEFINE contents == job[j].contents
  <2>1. /\ content' = j /\ history' = contents /\ edits' = Append(edits, j)
        /\ tangled' = IF contents = Append(history, content) THEN tangled
                      ELSE tangled \union {"metadata"}
    BY <1>4 DEF WriteEdit
  <2>2. contents \in Seq(0..MaxJobs)
    BY <1>1 DEF CopyOK, Job
  <2> HIDE DEF contents
  <2>3. j \in 0..MaxJobs
    BY RecordsAssumption DEF Jobs
  <2>4. /\ edits \in Seq(0..MaxJobs) /\ tangled \subseteq {"reactions", "metadata"}
        /\ "metadata" \notin tangled => Append(history, content) = edits
    BY <1>1 DEF EditsOK, RowOK
  <2>5. /\ tangled' \subseteq {"reactions", "metadata"}
        /\ "reactions" \in tangled' <=> "reactions" \in tangled
        /\ "metadata" \notin tangled' => /\ "metadata" \notin tangled
                                         /\ contents = Append(history, content)
    BY <2>1, <2>4
  <2>6. /\ edits' \in Seq(0..MaxJobs) /\ edits' # << >> /\ edits'[Len(edits')] = j
    BY <2>1, <2>3, <2>4
  <2>7. "metadata" \notin tangled' => Append(history', content') = edits'
    BY <2>1, <2>4, <2>5
  <2>8. EditsOK'
    BY <2>1, <2>2, <2>3, <2>6, <2>7 DEF EditsOK
  <2>9. RowOK'
    BY <1>1, <2>5 DEF RowOK, Tallied
  <2>10. QED
    BY <1>2, <2>8, <2>9 DEF RecordsInv
<1>5. QED
  BY <1>3, <1>4

LEMMA CallsKeep ==
  ASSUME RecordsInv, NEW j \in Jobs,
         \/ FindMissing(j) \/ IncrementReplyCount(j) \/ StampReply(j)
         \/ PinMessage(j) \/ UnpinMessage(j) \/ JobError(j)
  PROVE  RecordsInv'
<1>1. /\ RowOK /\ EditsOK /\ MarksOK /\ ListOK /\ JobsOK /\ ReadersOK
      /\ UNCHANGED <<reactions, content, history, list, reader, asked, edits, tangled>>
  BY DEF RecordsInv, FindMissing, IncrementReplyCount, StampReply, PinMessage, UnpinMessage,
         JobError, row, ledger
<1>2. RowOK' /\ EditsOK' /\ ListOK' /\ ReadersOK'
  BY <1>1, RowStays, EditsStay, ListStays, ReadersStay
<1>3. JobsOK'
  <2>1. CopyOK(NoJob("replying"))
    BY NoJobOK
  <2>2. PutJob(j, NoJob("replying")) \/ End(j)
    BY DEF FindMissing, IncrementReplyCount, StampReply, PinMessage, UnpinMessage, JobError
  <2>3. QED
    BY <1>1, <2>1, <2>2, PutJobKeeps, EndKeeps
<1>4. MarksOK'
  <2>1. marks \subseteq {"pinned", "thread"} /\ replies \in Nat /\ replies + 1 \in Nat
    BY <1>1 DEF MarksOK
  <2>2. /\ replies' \in {replies, replies + 1}
        /\ marks' \in {marks, marks \union {"thread"}, marks \union {"pinned"},
                      marks \ {"pinned"}}
    BY DEF FindMissing, IncrementReplyCount, StampReply, PinMessage, UnpinMessage, JobError, row
  <2>3. QED
    BY <2>1, <2>2 DEF MarksOK
<1>5. QED
  BY <1>2, <1>3, <1>4 DEF RecordsInv
-----------------------------------------------------------------------------
(* Records: the list and its readers *)

LEMMA LiveFinite ==
  ASSUME ListOK
  PROVE  /\ Live \subseteq Nat /\ Live \subseteq 1..created /\ IsFiniteSet(Live)
         /\ Cardinality(Live) \in Nat
         /\ \A m : /\ Rank(m) \in Nat /\ Rank(m) <= Cardinality(Live)
                   /\ m \in Live => Rank(m) >= 1
<1>1. Live \subseteq 1..created /\ created \in Nat
  BY DEF Live, ListOK
<1>2. IsFiniteSet(1..created)
  BY <1>1, FS_Interval
<1>3. IsFiniteSet(Live) /\ Cardinality(Live) \in Nat
  BY <1>1, <1>2, FS_Subset, FS_CardinalityType
<1>4. ASSUME NEW m
      PROVE  /\ Rank(m) \in Nat /\ Rank(m) <= Cardinality(Live)
             /\ m \in Live => Rank(m) >= 1
  <2> DEFINE S == {n \in Live : n >= m}
  <2>1. S \subseteq Live
    OBVIOUS
  <2>2. IsFiniteSet(S) /\ Cardinality(S) \in Nat /\ Cardinality(S) <= Cardinality(Live)
    BY <1>3, <2>1, FS_Subset, FS_CardinalityType
  <2>3. ASSUME m \in Live
        PROVE  Cardinality(S) >= 1
    <3>1. m \in S
      BY <1>1, <2>3
    <3>2. Cardinality(S) # 0
      BY <2>2, <3>1, FS_EmptySet
    <3>3. QED
      BY <2>2, <3>2
  <2>4. QED
    BY <2>2, <2>3 DEF Rank
<1>5. QED
  BY <1>1, <1>3, <1>4

LEMMA Skips ==
  ASSUME NEW p \in Nat
  PROVE  /\ CalculateSkip(p, PageSize) \in Int
         /\ CalculateSkip(p + 1, PageSize) = CalculateSkip(p, PageSize) + PageSize
         /\ CalculateSkip(p + 1, PageSize) = p * PageSize
         /\ CalculateSkip(1, PageSize) = 0
<1>1. PageSize \in Nat
  BY RecordsAssumption
<1>2. /\ p * PageSize \in Int /\ (p - 1) * PageSize = p * PageSize - PageSize
      /\ 0 * PageSize = 0
  BY <1>1, Products
<1>3. (p + 1) - 1 = p /\ 1 - 1 = 0
  OBVIOUS
<1>4. QED
  BY <1>1, <1>2, <1>3 DEF CalculateSkip

LEMMA PutReaderKeeps ==
  ASSUME ReadersOK, UNCHANGED list, NEW c \in Readers, NEW q, ReaderOK(q), PutReader(c, q)
  PROVE  ReadersOK'
<1>1. q \in Reader /\ reader' = [reader EXCEPT ![c] = q] /\ reader \in [Readers -> Reader]
  BY DEF ReaderOK, PutReader, ReadersOK
<1>2. \A d \in Readers : reader'[d] = IF d = c THEN q ELSE reader[d]
  BY <1>1
<1>3. \A d \in Readers : ReaderOK(reader'[d])
  BY <1>2 DEF ReadersOK
<1>4. ASSUME NEW d \in Readers
      PROVE  ReaderOK(reader[d])'
  <2>1. Live' = Live
    BY DEF list, Live
  <2>2. \A m : Rank(m)' = Rank(m)
    BY <2>1 DEF Rank
  <2>3. QED
    BY <1>3, <2>1, <2>2 DEF ReaderOK
<1>5. QED
  BY <1>1, <1>4 DEF ReadersOK

LEMMA StartReadingKeeps ==
  ASSUME ListOK, ReadersOK, NEW c \in Readers, NEW limit \in Limits, StartReading(c, limit)
  PROVE  ReadersOK'
<1> DEFINE q == [reader[c] EXCEPT !.at = "reading", !.limit = limit, !.had = Live]
<1>1. /\ reader[c] \in Reader /\ reader[c].at = "idle" /\ PutReader(c, q)
      /\ reader[c].page = 1 /\ reader[c].seen = {} /\ UNCHANGED list
  BY DEF ReadersOK, ReaderOK, StartReading
<1>2. Live \subseteq Nat
  BY LiveFinite
<1>3. /\ q \in Reader /\ q.at = "reading" /\ q.page = 1 /\ q.had = Live
  BY <1>1, <1>2 DEF Reader
<1> HIDE DEF q
<1>4. CalculateSkip(1, PageSize) = 0
  BY Skips
<1>5. \A m \in Live : Rank(m) > 0
  BY LiveFinite
<1>6. ReaderOK(q)
  BY <1>3, <1>4, <1>5 DEF ReaderOK, Ahead
<1>7. QED
  BY <1>1, <1>6, PutReaderKeeps

LEMMA ReadPageKeeps ==
  ASSUME ListOK, ReadersOK, NEW c \in Readers, ReadPage(c)
  PROVE  ReadersOK'
<1> DEFINE p == reader[c].page
           q == [reader[c] EXCEPT !.at = "counting", !.seen = @ \union PageOf(p)]
<1>1. /\ reader[c] \in Reader /\ reader[c].at = "reading" /\ PutReader(c, q)
      /\ ReaderOK(reader[c]) /\ UNCHANGED list /\ p \in Nat /\ p >= 1
  BY DEF ReadersOK, ReaderOK, ReadPage, Reader
<1>2. Live \subseteq Nat /\ PageOf(p) \subseteq Live
  BY LiveFinite DEF PageOf
<1>3. /\ q \in Reader /\ q.at = "counting" /\ q.page = p /\ q.had = reader[c].had
      /\ q.seen = reader[c].seen \union PageOf(p) /\ q.met = reader[c].met
  BY <1>1, <1>2 DEF Reader
<1> HIDE DEF q
<1>4. ASSUME ~q.met
      PROVE  /\ q.had \subseteq Live
             /\ \A m \in q.had \ q.seen : Rank(m) > CalculateSkip(p + 1, PageSize)
  <2>1. /\ q.had \subseteq Live
        /\ \A m \in q.had \ reader[c].seen : Rank(m) > CalculateSkip(p, PageSize)
    BY <1>1, <1>3, <1>4 DEF ReaderOK, Ahead
  <2>2. ASSUME NEW m \in q.had \ q.seen
        PROVE  Rank(m) > CalculateSkip(p + 1, PageSize)
    <3>1. m \in Live /\ m \notin PageOf(p) /\ Rank(m) > CalculateSkip(p, PageSize)
      BY <1>3, <2>1
    <3>2. ~(Rank(m) <= CalculateSkip(p, PageSize) + PageSize)
      BY <3>1 DEF PageOf, Rank
    <3>3. /\ Rank(m) \in Nat /\ CalculateSkip(p, PageSize) \in Int /\ PageSize \in Nat
          /\ CalculateSkip(p + 1, PageSize) = CalculateSkip(p, PageSize) + PageSize
      BY <1>1, LiveFinite, Skips, RecordsAssumption
    <3>4. QED
      BY <3>2, <3>3
  <2>3. QED
    BY <2>1, <2>2
<1>5. ReaderOK(q)
  BY <1>1, <1>3, <1>4 DEF ReaderOK, Ahead
<1>6. QED
  BY <1>1, <1>5, PutReaderKeeps

\* The last page was selected when the answer says that none follows.
LEMMA CountMessagesKeeps ==
  ASSUME ListOK, ReadersOK, NEW c \in Readers, CountMessages(c)
  PROVE  ReadersOK'
<1> DEFINE p == reader[c].page
           limit == reader[c].limit
           result == CreatePaginatedResult(Cardinality(Live), p, limit)
           more == [reader[c] EXCEPT !.at = "reading", !.page = @ + 1]
           done == [reader[c] EXCEPT !.at = "done"]
<1>1. /\ reader[c] \in Reader /\ reader[c].at = "counting" /\ ReaderOK(reader[c])
      /\ UNCHANGED list /\ p \in Nat /\ p >= 1 /\ limit \in Limits
      /\ PutReader(c, IF result.hasNext THEN more ELSE done)
  BY DEF ReadersOK, ReaderOK, CountMessages, Reader
<1>2. limit \in Nat \ {0} /\ PageSize \in Nat \ {0} /\ Cardinality(Live) \in Nat
  BY <1>1, LiveFinite, RecordsAssumption
<1>3. result.hasNext <=> p * limit < Cardinality(Live)
  <2>1. result.hasNext <=> p < CalculateTotalPages(Cardinality(Live), limit)
    BY DEF CreatePaginatedResult
  <2>2. p \in Int
    BY <1>1
  <2> HIDE DEF p, limit, result
  <2>3. QED
    BY <1>2, <2>1, <2>2, PagesReach
<1> HIDE DEF result
<1>4. CASE result.hasNext
  <2>0. /\ reader[c] \in Reader /\ p + 1 \in Nat /\ "page" \in DOMAIN reader[c]
        /\ more = [[reader[c] EXCEPT !.at = "reading"] EXCEPT !.page = p + 1]
    BY <1>1 DEF Reader
  <2> HIDE DEF more, p
  <2>1. /\ more \in Reader /\ more.at = "reading" /\ more.page = p + 1
        /\ more.had = reader[c].had /\ more.seen = reader[c].seen
        /\ more.met = reader[c].met
    BY <2>0 DEF Reader
  <2>2. ReaderOK(more)
    BY <1>1, <2>1 DEF ReaderOK, Ahead, p
  <2>3. QED
    BY <1>1, <1>4, <2>2, PutReaderKeeps
<1>5. CASE ~result.hasNext
  <2>1. /\ done \in Reader /\ done.at = "done" /\ done.page = p
        /\ done.had = reader[c].had /\ done.seen = reader[c].seen
        /\ done.met = reader[c].met /\ done.limit = limit
    BY <1>1 DEF Reader
  <2> HIDE DEF done
  <2>2. ASSUME ~done.met, limit <= PageSize
        PROVE  done.had \subseteq done.seen
    <3>1. ASSUME NEW m \in done.had, m \notin done.seen
          PROVE  FALSE
      <4>1. Rank(m) > CalculateSkip(p + 1, PageSize)
        BY <1>1, <2>1, <2>2, <3>1 DEF ReaderOK, Ahead
      <4>2. CalculateSkip(p + 1, PageSize) = p * PageSize
        BY <1>1, Skips
      <4>3. p * limit <= p * PageSize /\ p * limit \in Int /\ p * PageSize \in Int
        <5>1. limit * p <= PageSize * p
          BY <1>1, <1>2, <2>2, Products
        <5>2. limit * p = p * limit /\ PageSize * p = p * PageSize
          BY <1>1, <1>2
        <5>3. limit * p \in Int /\ PageSize * p \in Int
          BY <1>1, <1>2, Products
        <5>4. QED
          BY <5>1, <5>2, <5>3
      <4>4. Rank(m) \in Nat /\ Rank(m) <= Cardinality(Live)
        BY LiveFinite
      <4> HIDE DEF p, limit
      <4>5. QED
        BY <1>2, <1>3, <1>5, <4>1, <4>2, <4>3, <4>4
    <3>2. QED
      BY <3>1
  <2>3. ReaderOK(done)
    BY <1>1, <2>1, <2>2 DEF ReaderOK
  <2>4. QED
    BY <1>1, <1>5, <2>3, PutReaderKeeps
<1>6. QED
  BY <1>4, <1>5

LEMMA ReadErrorKeeps ==
  ASSUME ReadersOK, NEW c \in Readers, ReadError(c)
  PROVE  ReadersOK'
<1> DEFINE q == [reader[c] EXCEPT !.at = "failed"]
<1>1. /\ reader[c] \in Reader /\ ReaderOK(reader[c]) /\ UNCHANGED list /\ PutReader(c, q)
  BY DEF ReadersOK, ReadError
<1>2. q \in Reader /\ q.at = "failed" /\ q.page = reader[c].page
  BY <1>1 DEF Reader
<1> HIDE DEF q
<1>3. ReaderOK(q)
  BY <1>1, <1>2 DEF ReaderOK
<1>4. QED
  BY <1>1, <1>3, PutReaderKeeps

LEMMA ReadsKeep ==
  ASSUME RecordsInv, NEW c \in Readers, NEW limit \in Limits,
         StartReading(c, limit) \/ ReadPage(c) \/ CountMessages(c) \/ ReadError(c)
  PROVE  RecordsInv'
<1>1. /\ RowOK /\ EditsOK /\ MarksOK /\ ListOK /\ JobsOK /\ ReadersOK
      /\ UNCHANGED <<reactions, content, history, marks, replies, list, job, asked, edits,
                     tangled>>
  BY DEF RecordsInv, StartReading, ReadPage, CountMessages, ReadError, row, ledger
<1>2. RowOK' /\ EditsOK' /\ MarksOK' /\ ListOK' /\ JobsOK'
  BY <1>1, RowStays, EditsStay, MarksStay, ListStays, JobsStay
<1>3. ReadersOK'
  BY <1>1, StartReadingKeeps, ReadPageKeeps, CountMessagesKeeps, ReadErrorKeeps
<1>4. QED
  BY <1>2, <1>3 DEF RecordsInv

\* A message that is sent comes before those a reader waits for.
LEMMA SendKeeps ==
  ASSUME RecordsInv, NEW j \in Jobs, Send(j)
  PROVE  RecordsInv'
<1>1. /\ RowOK /\ EditsOK /\ MarksOK /\ ListOK /\ JobsOK /\ ReadersOK
      /\ UNCHANGED <<reactions, content, history, marks, replies, deleted, purged, reader,
                     asked, edits, tangled>>
      /\ created' = created + 1 /\ End(j)
  BY DEF RecordsInv, Send, row, ledger
<1>2. RowOK' /\ EditsOK' /\ MarksOK' /\ JobsOK'
  BY <1>1, RowStays, EditsStay, MarksStay, EndKeeps
<1>3. ListOK' /\ Live \subseteq Live'
  BY <1>1 DEF ListOK, Live
<1>4. \A m \in Live : Rank(m) \in Nat /\ Rank(m)' \in Nat /\ Rank(m) <= Rank(m)'
  <2>1. ASSUME NEW m \in Live
        PROVE  Rank(m) \in Nat /\ Rank(m)' \in Nat /\ Rank(m) <= Rank(m)'
    <3> DEFINE S == {n \in Live : n >= m}
               T == {n \in Live' : n >= m}
    <3>1. Live' \subseteq 1..created' /\ created' \in Nat /\ Live \subseteq 1..created
      BY <1>1, <1>3, LiveFinite DEF ListOK, Live
    <3>2. IsFiniteSet(1..created')
      BY <3>1, FS_Interval
    <3>3. T \subseteq 1..created' /\ S \subseteq T
      BY <1>3, <3>1
    <3>4. IsFiniteSet(T) /\ IsFiniteSet(S)
      BY <3>2, <3>3, FS_Subset
    <3>5. /\ Cardinality(S) \in Nat /\ Cardinality(T) \in Nat
          /\ Cardinality(S) <= Cardinality(T)
      BY <3>3, <3>4, FS_Subset, FS_CardinalityType
    <3>6. QED
      BY <3>5 DEF Rank
  <2>2. QED
    BY <2>1
<1>5. ReadersOK'
  <2>1. ASSUME NEW c \in Readers
        PROVE  ReaderOK(reader[c])'
    <3> DEFINE q == reader[c]
    <3>1. ReaderOK(q) /\ q' = q
      BY <1>1 DEF ReadersOK
    <3>2. Ahead(q) \in Nat
      BY <3>1 DEF ReaderOK, Reader, Ahead
    <3>3. CalculateSkip(Ahead(q), PageSize) \in Int
      BY <3>2, Skips
    <3>4. ASSUME q.at \in {"reading", "counting"}, ~q.met
          PROVE  /\ q.had \subseteq Live'
                 /\ \A m \in q.had \ q.seen : Rank(m)' > CalculateSkip(Ahead(q), PageSize)
      <4>1. /\ q.had \subseteq Live
            /\ \A m \in q.had \ q.seen : Rank(m) > CalculateSkip(Ahead(q), PageSize)
        BY <3>1, <3>4 DEF ReaderOK
      <4>2. QED
        BY <1>3, <1>4, <3>3, <4>1
    <3>5. QED
      BY <3>1, <3>4 DEF ReaderOK, Ahead
  <2>2. QED
    BY <1>1, <2>1 DEF ReadersOK
<1>6. QED
  BY <1>2, <1>3, <1>5 DEF RecordsInv

LEMMA DeletesKeep ==
  ASSUME RecordsInv, NEW j \in Jobs, SoftDelete(j) \/ DeleteOldMessages(j)
  PROVE  RecordsInv'
<1>1. /\ RowOK /\ EditsOK /\ MarksOK /\ ListOK /\ JobsOK /\ ReadersOK
      /\ UNCHANGED <<reactions, content, history, marks, replies, created, asked, edits,
                     tangled>>
      /\ End(j) /\ Disturb
  BY DEF RecordsInv, SoftDelete, DeleteOldMessages, row, ledger
<1>2. RowOK' /\ EditsOK' /\ MarksOK' /\ JobsOK'
  BY <1>1, RowStays, EditsStay, MarksStay, EndKeeps
<1>3. ListOK'
  <2>1. CASE SoftDelete(j)
    <3>1. PICK m \in Live : deleted' = deleted \union {m} /\ UNCHANGED <<created, purged>>
      BY <2>1 DEF SoftDelete
    <3>2. QED
      BY <1>1, <3>1 DEF ListOK, Live
  <2>2. CASE DeleteOldMessages(j)
    <3>1. PICK last \in 0..created :
            purged' = purged \union 1..last /\ UNCHANGED <<created, deleted>>
      BY <2>2 DEF DeleteOldMessages
    <3>2. QED
      BY <1>1, <3>1 DEF ListOK
  <2>3. QED
    BY <2>1, <2>2
<1>4. ReadersOK'
  <2>1. ASSUME NEW c \in Readers
        PROVE  reader'[c] \in Reader /\ ReaderOK(reader[c])'
    <3>1. ReaderOK(reader[c]) /\ reader[c] \in Reader
      BY <1>1 DEF ReadersOK
    <3>2. CASE reader[c].at \in {"reading", "counting"}
      <4> DEFINE q == [reader[c] EXCEPT !.met = TRUE]
      <4>1. reader'[c] = q
        BY <1>1, <3>2 DEF Disturb
      <4>2. q \in Reader /\ q.met /\ q.page = reader[c].page /\ q.at = reader[c].at
        BY <3>1 DEF Reader
      <4> HIDE DEF q
      <4>3. QED
        BY <3>1, <3>2, <4>1, <4>2 DEF ReaderOK
    <3>3. CASE reader[c].at \notin {"reading", "counting"}
      <4>1. reader'[c] = reader[c]
        BY <1>1, <3>3 DEF Disturb
      <4>2. QED
        BY <3>1, <3>3, <4>1 DEF ReaderOK
    <3>4. QED
      BY <3>2, <3>3
  <2>2. reader' \in [Readers -> Reader]
    BY <1>1, <2>1 DEF Disturb
  <2>3. QED
    BY <2>1, <2>2 DEF ReadersOK
<1>5. QED
  BY <1>2, <1>3, <1>4 DEF RecordsInv

LEMMA RecordsInitOK ==
  RecordsInit => RecordsInv
<1> SUFFICES ASSUME RecordsInit
             PROVE  RecordsInv
  OBVIOUS
<1>1. NoReactions \in Entries /\ Tallied(NoReactions)
  <2>1. IsFiniteSet({}) /\ Cardinality({}) = 0
    BY FS_EmptySet
  <2>2. QED
    BY <2>1 DEF NoReactions, Entries, Tallied
<1>2. RowOK
  BY <1>1 DEF RecordsInit, RowOK, NoReactions
<1>3. EditsOK
  BY RecordsAssumption DEF RecordsInit, EditsOK
<1>4. MarksOK /\ ListOK
  BY RecordsAssumption DEF RecordsInit, MarksOK, ListOK
<1>5. JobsOK
  <2>1. CopyOK(NoJob("idle")) /\ NoJob("idle") \in Job
    BY NoJobOK
  <2>2. QED
    BY <2>1 DEF RecordsInit, JobsOK
<1>6. ReadersOK
  <2> DEFINE q == [at |-> "idle", page |-> 1, limit |-> CHOOSE l \in Limits : TRUE,
                   seen |-> {}, had |-> {}, met |-> FALSE]
  <2>1. (CHOOSE l \in Limits : TRUE) \in Limits
    BY RecordsAssumption
  <2>2. q \in Reader /\ q.at = "idle" /\ q.page = 1 /\ q.seen = {}
    BY <2>1 DEF Reader
  <2>3. reader = [c \in Readers |-> q]
    BY DEF RecordsInit
  <2> HIDE DEF q
  <2>4. ReaderOK(q)
    BY <2>2 DEF ReaderOK
  <2>5. QED
    BY <2>2, <2>3, <2>4 DEF ReadersOK
<1>7. QED
  BY <1>2, <1>3, <1>4, <1>5, <1>6 DEF RecordsInv

LEMMA RecordsStep ==
  ASSUME RecordsInv, RecordsNext
  PROVE  RecordsInv'
<1>1. ASSUME NEW j \in Jobs, NEW user \in Users, NEW emoji \in Emojis,
             FindToReact(j, user, emoji) \/ FindToUnreact(j, user, emoji)
      PROVE  RecordsInv'
  BY <1>1, FindsKeep
<1>2. ASSUME NEW j \in Jobs,
             \/ FindMissing(j) \/ FindToEdit(j) \/ WriteReactions(j) \/ WriteEdit(j)
             \/ IncrementReplyCount(j) \/ StampReply(j) \/ PinMessage(j) \/ UnpinMessage(j)
             \/ Send(j) \/ SoftDelete(j) \/ DeleteOldMessages(j) \/ JobError(j)
      PROVE  RecordsInv'
  BY <1>2, FindToEditKeeps, WriteReactionsKeeps, WriteEditKeeps, CallsKeep, SendKeeps,
     DeletesKeep
<1>3. ASSUME NEW c \in Readers, NEW limit \in Limits, StartReading(c, limit)
      PROVE  RecordsInv'
  BY <1>3, ReadsKeep
<1>4. ASSUME NEW c \in Readers, ReadPage(c) \/ CountMessages(c) \/ ReadError(c)
      PROVE  RecordsInv'
  <2>1. PICK limit \in Limits : TRUE
    BY RecordsAssumption
  <2>2. QED
    BY <1>4, <2>1, ReadsKeep
<1>5. QED
  BY <1>1, <1>2, <1>3, <1>4 DEF RecordsNext

LEMMA RecordsStutter ==
  ASSUME RecordsInv, UNCHANGED recordVars
  PROVE  RecordsInv'
<1>1. /\ RowOK /\ EditsOK /\ MarksOK /\ ListOK /\ JobsOK /\ ReadersOK
      /\ UNCHANGED <<reactions, content, history, marks, replies, list, job, reader, asked,
                     edits, tangled>>
  BY DEF RecordsInv, recordVars, row, ledger
<1>2. QED
  BY <1>1, RowStays, EditsStay, MarksStay, ListStays, JobsStay, ReadersStay DEF RecordsInv
-----------------------------------------------------------------------------
(* Tasks: the invariant, as conditions on the rows and one request *)

Kinds == {"total", "todo", "in_progress", "done", "overdue"}
CountSteps == {"count todo", "count in_progress", "count done", "count overdue"}

\* Counted, as a function of the rows.
Rows(rows, user) == {t \in TaskIds : rows[t].state = "live" /\ rows[t].assignee = user}
Count(rows, user, what) ==
    Cardinality(CASE what = "total" -> Rows(rows, user)
                  [] what = "overdue" -> {t \in Rows(rows, user) : rows[t].late /\
                                                                   rows[t].status # "done"}
                  [] OTHER -> {t \in Rows(rows, user) : rows[t].status = what})

\* Which step belongs to which call.
StepOK(q) ==
    /\ q \in Order
    /\ q.at = "notifying" => q.verb = "create" /\ q.assignee \notin {Nobody, q.user}
    /\ q.at = "updating" => q.verb = "patch"
    /\ q.at = "fetching" => q.verb \in {"patch", "put"}
    /\ q.at \in CountSteps <=> (q.verb = "statistics" /\ q.at \notin {"idle", "done", "failed"})

\* A change of status nothing has met: the task it found is there, with the status it wrote,
\* and complete if that is done.
PatchOK(rows, q) ==
    (q.verb = "patch" /\ ~q.met) =>
      /\ q.at \in {"updating", "fetching"} => rows[q.target].state = "live"
      /\ q.at = "fetching" =>
           /\ rows[q.target].status = q.status
           /\ q.status = "done" => rows[q.target].completed
      /\ q.at = "done" => q.answer = q.status /\ (q.status = "done" => q.complete)

\* A creation whose row is stored, and the notification it leads to.
CreationOK(rows, notices, o, q) ==
    /\ q.at = "notifying" => rows[o].state # "none"
    /\ (q.verb = "create" /\ q.at = "done" /\ q.assignee \notin {Nobody, q.user}) =>
         notices[o].state # "none" /\ notices[o].user = q.assignee

MarkingOK(notices, q) == q.at = "marking" => notices[q.target].state # "none"

\* Statistics nothing has met: the counts that were made are right still.
CountingOK(rows, q) ==
    (q.verb = "statistics" /\ ~q.met) =>
      /\ q.at \in CountSteps => q.counts["total"] = Count(rows, q.user, "total")
      /\ q.at \in CountSteps \ {"count todo"} =>
           q.counts["todo"] = Count(rows, q.user, "todo")
      /\ q.at \in {"count done", "count overdue"} =>
           q.counts["in_progress"] = Count(rows, q.user, "in_progress")
      /\ q.at = "count overdue" => q.counts["done"] = Count(rows, q.user, "done")
      /\ q.at = "done" =>
           /\ q.counts["todo"] + q.counts["in_progress"] + q.counts["done"]
                <= q.counts["total"]
           /\ q.counts["overdue"] + q.counts["done"] <= q.counts["total"]

OrderOK(rows, notices, o, q) ==
    /\ StepOK(q) /\ PatchOK(rows, q) /\ CreationOK(rows, notices, o, q)
    /\ MarkingOK(notices, q) /\ CountingOK(rows, q)

TaskRowsOK == task \in [TaskIds -> Task]

NoticesOK ==
    /\ notice \in [TaskIds -> Notice]
    /\ \A t \in TaskIds : notice[t].state # "none" => task[t].state # "none"

OrdersOK ==
    /\ order \in [Orders -> Order]
    /\ \A o \in Orders : OrderOK(task, notice, o, order[o])

TasksInv == TaskRowsOK /\ NoticesOK /\ OrdersOK
-----------------------------------------------------------------------------
(* Tasks: what the steps have in common *)

LEMMA CountIsCounted ==
  ASSUME NEW user, NEW what
  PROVE  Cardinality(Counted(user, what)) = Count(task, user, what)
BY DEF Counted, Mine, Count, Rows

LEMMA DisjointUnion ==
  ASSUME NEW S, NEW T, IsFiniteSet(S), IsFiniteSet(T), S \intersect T = {}
  PROVE  Cardinality(S \union T) = Cardinality(S) + Cardinality(T)
<1>1. Cardinality(S \intersect T) = 0
  <2>1. Cardinality({}) = 0
    BY FS_EmptySet
  <2>2. QED
    BY <2>1, Zenon
<1>2. Cardinality(S \union T) = Cardinality(S) + Cardinality(T) - Cardinality(S \intersect T)
  BY FS_Union, Zenon
<1>3. Cardinality(S) \in Nat /\ Cardinality(T) \in Nat
  BY FS_CardinalityType
<1>4. QED
  BY <1>1, <1>2, <1>3

\* Counts of the same rows fit together.
LEMMA CountsFit ==
  ASSUME NEW rows, NEW user
  PROVE  /\ \A what \in Kinds : Count(rows, user, what) \in Nat
         /\ Count(rows, user, "todo") + Count(rows, user, "in_progress")
              + Count(rows, user, "done") <= Count(rows, user, "total")
         /\ Count(rows, user, "overdue") + Count(rows, user, "done")
              <= Count(rows, user, "total")
<1> DEFINE S == Rows(rows, user)
           With(status) == {t \in S : rows[t].status = status}
           Late == {t \in S : rows[t].late /\ rows[t].status # "done"}
<1>1. /\ Count(rows, user, "total") = Cardinality(S)
      /\ Count(rows, user, "overdue") = Cardinality(Late)
      /\ Count(rows, user, "todo") = Cardinality(With("todo"))
      /\ Count(rows, user, "in_progress") = Cardinality(With("in_progress"))
      /\ Count(rows, user, "done") = Cardinality(With("done"))
  BY DEF Count
<1>2. IsFiniteSet(S)
  <2>1. IsFiniteSet(TaskIds)
    BY TasksAssumption, FS_Interval DEF TaskIds
  <2>2. S \subseteq TaskIds
    BY DEF Rows
  <2>3. QED
    BY <2>1, <2>2, FS_Subset
<1> DEFINE A == With("todo")
           B == With("in_progress")
           C == With("done")
<1>3. /\ A \subseteq S /\ B \subseteq S /\ C \subseteq S /\ Late \subseteq S
      /\ A \intersect B = {} /\ (A \union B) \intersect C = {} /\ Late \intersect C = {}
      /\ (A \union B) \union C \subseteq S /\ Late \union C \subseteq S
  OBVIOUS
<1> HIDE DEF S, A, B, C, Late
<1>4. /\ IsFiniteSet(A) /\ IsFiniteSet(B) /\ IsFiniteSet(C) /\ IsFiniteSet(Late)
      /\ IsFiniteSet(A \union B)
  BY <1>2, <1>3, FS_Subset, FS_Union
<1>6. /\ Cardinality(A) \in Nat /\ Cardinality(B) \in Nat /\ Cardinality(C) \in Nat
      /\ Cardinality(Late) \in Nat /\ Cardinality(S) \in Nat
      /\ Cardinality(A \union B) \in Nat
  BY <1>2, <1>4, FS_CardinalityType
<1>7. Cardinality(A \union B) = Cardinality(A) + Cardinality(B)
  BY <1>3, <1>4, DisjointUnion
<1>8. Cardinality((A \union B) \union C) = Cardinality(A \union B) + Cardinality(C)
  BY <1>3, <1>4, DisjointUnion
<1>9. Cardinality(Late \union C) = Cardinality(Late) + Cardinality(C)
  BY <1>3, <1>4, DisjointUnion
<1>10. /\ Cardinality((A \union B) \union C) <= Cardinality(S)
       /\ Cardinality(Late \union C) <= Cardinality(S)
  BY <1>2, <1>3, FS_Subset
<1>11. QED
  BY <1>1, <1>6, <1>7, <1>8, <1>9, <1>10 DEF A, B, C, Kinds

LEMMA RequestsAreTasks ==
  Orders \subseteq TaskIds
BY TasksAssumption DEF Orders, TaskIds

LEMMA NoOrderParts ==
  NoCounts \in [Kinds -> Nat] /\ 0 \in TaskIds /\ "todo" \in Statuses
<1>1. NoCounts \in [Kinds -> Nat]
  BY DEF NoCounts, Kinds
<1>2. 0 \in TaskIds /\ "todo" \in Statuses
  BY TasksAssumption DEF TaskIds
<1>3. QED
  BY <1>1, <1>2

\* A request, as its first statement leaves it.
LEMMA FirstOrder ==
  ASSUME NEW at, at \in {"idle", "done", "failed", "updating", "fetching", "marking"}
                          \union {"count todo"}
  PROVE  /\ NoOrder(at) \in Order /\ NoOrder(at).at = at /\ NoOrder(at).verb = "other"
         /\ NoOrder(at).met = FALSE
BY NoOrderParts DEF NoOrder, Order, Verbs, Kinds

LEMMA NoOrderOK ==
  ASSUME NEW at \in {"idle", "done", "failed"}, NEW rows, NEW notices, NEW o
  PROVE  NoOrder(at) \in Order /\ OrderOK(rows, notices, o, NoOrder(at))
BY FirstOrder DEF OrderOK, StepOK, PatchOK, CreationOK, MarkingOK, CountingOK, CountSteps

\* Notifications that are there stay, and those about other tasks stay with their users.
NoticesStay(o) ==
    \A t \in TaskIds :
      notice[t].state # "none" => /\ notice'[t].state # "none"
                                  /\ t # o => notice'[t].user = notice[t].user

LEMMA PutOrderKeeps ==
  ASSUME OrdersOK, NEW o \in Orders, NEW q, OrderOK(task, notice', o, q),
         PutOrder(o, q), UNCHANGED task, NoticesStay(o)
  PROVE  OrdersOK'
<1>1. q \in Order /\ order' = [order EXCEPT ![o] = q] /\ order \in [Orders -> Order]
  BY DEF OrdersOK, OrderOK, StepOK, PutOrder
<1>2. order' \in [Orders -> Order]
  BY <1>1
<1>3. ASSUME NEW p \in Orders
      PROVE  OrderOK(task', notice', p, order'[p])
  <2>1. CASE p = o
    BY <1>1, <2>1
  <2>2. CASE p # o
    <3>1. OrderOK(task, notice, p, order[p]) /\ order'[p] = order[p] /\ task' = task
      BY <1>1, <2>2 DEF OrdersOK
    <3>2. p \in TaskIds /\ order[p].target \in TaskIds
      BY <3>1, RequestsAreTasks DEF OrderOK, StepOK, Order
    <3>3. CreationOK(task', notice', p, order[p])
      BY <2>2, <3>1, <3>2 DEF OrderOK, CreationOK, NoticesStay
    <3>4. MarkingOK(notice', order[p])
      BY <3>1, <3>2 DEF OrderOK, MarkingOK, NoticesStay
    <3>5. QED
      BY <3>1, <3>3, <3>4 DEF OrderOK
  <2>3. QED
    BY <2>1, <2>2
<1>4. QED
  BY <1>2, <1>3 DEF OrdersOK

\* Only the row of t changes, and no row goes away.
OnlyChanges(t) ==
    \A s \in TaskIds : /\ s # t => task'[s] = task[s]
                       /\ task[s].state # "none" => task'[s].state # "none"

LEMMA PutChangeKeeps ==
  ASSUME OrdersOK, NEW o \in Orders, NEW q, NEW t \in TaskIds, OrderOK(task', notice, o, q),
         PutChange(o, q, t), UNCHANGED notice, OnlyChanges(t)
  PROVE  OrdersOK'
<1>1. ASSUME NEW p \in Orders, p # o
      PROVE  order'[p] \in Order /\ OrderOK(task', notice, p, order'[p])
  <2> DEFINE r == order[p]
             s == [r EXCEPT !.met = @ \/ Meets(p, t)]
  <2>1. OrderOK(task, notice, p, r) /\ r \in Order /\ p \in TaskIds /\ r.target \in TaskIds
    BY RequestsAreTasks DEF OrdersOK, OrderOK, StepOK, Order
  <2>2. order'[p] = s
    BY <1>1 DEF PutChange
  <2>3. Meets(p, t) \in BOOLEAN
    BY DEF Meets
  <2>4. /\ s \in Order /\ s.at = r.at /\ s.verb = r.verb /\ s.user = r.user
        /\ s.target = r.target /\ s.status = r.status /\ s.assignee = r.assignee
        /\ s.answer = r.answer /\ s.complete = r.complete /\ s.counts = r.counts /\ s.met = (r.met \/ Meets(p, t))
    BY <2>1, <2>3 DEF Order
  <2>5. ~s.met => /\ ~r.met
                  /\ r.at \in {"idle", "done", "failed"} \/ r.verb # "statistics"
                  /\ \/ r.at \in {"idle", "done", "failed"} \/ r.verb # "patch"
                     \/ r.target # t
    BY <2>4 DEF Meets
  <2> HIDE DEF s
  <2>6. StepOK(s)
    BY <2>1, <2>4 DEF OrderOK, StepOK
  <2>7. PatchOK(task', s)
    BY <2>1, <2>4, <2>5 DEF OrderOK, PatchOK, OnlyChanges
  <2>8. CreationOK(task', notice, p, s) /\ MarkingOK(notice, s)
    BY <2>1, <2>4 DEF OrderOK, CreationOK, MarkingOK, OnlyChanges
  <2>9. CountingOK(task', s)
    BY <2>1, <2>4, <2>5 DEF OrderOK, CountingOK, CountSteps
  <2>10. QED
    BY <2>2, <2>4, <2>6, <2>7, <2>8, <2>9 DEF OrderOK
<1>2. order'[o] = q /\ q \in Order
  BY DEF PutChange, OrderOK, StepOK
<1>3. order' \in [Orders -> Order]
  BY <1>1, <1>2 DEF PutChange
<1>4. QED
  BY <1>1, <1>2, <1>3 DEF OrdersOK
-----------------------------------------------------------------------------
(* Tasks: the statements, one by one *)

\* Only a request that ends without having been told anything.
LEMMA PlainOK ==
  ASSUME NEW q \in Order, q.verb \in {"other", "put", "read"},
         q.at \in {"done", "failed"} \/ (q.at = "fetching" /\ q.verb = "put")
                                    \/ (q.at = "marking" /\ q.verb = "read"),
         NEW rows, NEW notices, NEW o, MarkingOK(notices, q)
  PROVE  OrderOK(rows, notices, o, q)
BY DEF OrderOK, StepOK, PatchOK, CreationOK, CountingOK, CountSteps

LEMMA RowsStay ==
  ASSUME TaskRowsOK, UNCHANGED task
  PROVE  TaskRowsOK'
BY DEF TaskRowsOK

LEMMA NoticesKeep ==
  ASSUME NoticesOK, UNCHANGED notice, NEW t \in TaskIds, OnlyChanges(t)
  PROVE  NoticesOK'
BY DEF NoticesOK, OnlyChanges

\* A request that changes no task and no notification.
LEMMA ReadingKeeps ==
  ASSUME TasksInv, NEW o \in Orders, NEW q, OrderOK(task, notice, o, q), PutOrder(o, q),
         UNCHANGED <<task, notice>>
  PROVE  TasksInv'
<1>1. TaskRowsOK /\ NoticesOK /\ OrdersOK /\ task' = task /\ notice' = notice
  BY DEF TasksInv
<1>2. TaskRowsOK' /\ NoticesOK'
  BY <1>1 DEF TaskRowsOK, NoticesOK
<1>3. NoticesStay(o)
  BY <1>1 DEF NoticesStay
<1>4. OrderOK(task, notice', o, q)
  BY <1>1
<1>5. OrdersOK'
  BY <1>1, <1>3, <1>4, PutOrderKeeps
<1>6. QED
  BY <1>2, <1>5 DEF TasksInv

\* A request that changes a task.
LEMMA WritingKeeps ==
  ASSUME TasksInv, NEW o \in Orders, NEW q, NEW t \in TaskIds, PutChange(o, q, t),
         UNCHANGED notice, OrderOK(task', notice, o, q), NEW written \in Task,
         task' = [task EXCEPT ![t] = written],
         task[t].state # "none" => written.state # "none"
  PROVE  TasksInv'
<1>1. TaskRowsOK /\ NoticesOK /\ OrdersOK
  BY DEF TasksInv
<1>2. TaskRowsOK'
  BY <1>1 DEF TaskRowsOK
<1>3. OnlyChanges(t)
  BY <1>1 DEF OnlyChanges, TaskRowsOK
<1>4. NoticesOK' /\ OrdersOK'
  BY <1>1, <1>3, NoticesKeep, PutChangeKeeps
<1>5. QED
  BY <1>2, <1>4 DEF TasksInv

LEMMA SaveTaskKeeps ==
  ASSUME TasksInv, NEW o \in Orders, NEW user \in Members, NEW body \in Bodies,
         SaveTask(o, user, body)
  PROVE  TasksInv'
<1> DEFINE assignee == body.assignee
           q == [NoOrder("done") EXCEPT
                   !.at = IF assignee \in {Nobody, user} THEN "done" ELSE "notifying",
                   !.verb = "create", !.user = user, !.target = o, !.assignee = assignee]
<1>1. /\ task' = [task EXCEPT ![o] = body] /\ PutChange(o, q, o) /\ UNCHANGED notice
      /\ task \in [TaskIds -> Task]
  BY DEF SaveTask, TasksInv, TaskRowsOK
<1>2. body \in Task /\ body.state # "none" /\ assignee \in Members \union {Nobody}
  BY BodiesAssumption DEF Task
<1>3. /\ q \in Order /\ q.verb = "create" /\ q.user = user /\ q.assignee = assignee
      /\ q.at \in {"done", "notifying"}
      /\ q.at = "notifying" <=> assignee \notin {Nobody, user}
  <2>1. NoOrder("done") \in Order /\ o \in TaskIds
    BY NoOrderOK, RequestsAreTasks
  <2>2. QED
    BY <1>2, <2>1 DEF Order, Verbs
<1> HIDE DEF assignee, q
<1>4. o \in TaskIds /\ task'[o] = body
  BY <1>1, RequestsAreTasks
<1>5. OrderOK(task', notice, o, q)
  <2>1. StepOK(q)
    BY <1>3 DEF StepOK, CountSteps
  <2>2. PatchOK(task', q) /\ CountingOK(task', q) /\ MarkingOK(notice, q)
    BY <1>3 DEF PatchOK, CountingOK, MarkingOK
  <2>3. CreationOK(task', notice, o, q)
    BY <1>2, <1>3, <1>4 DEF CreationOK
  <2>4. QED
    BY <2>1, <2>2, <2>3 DEF OrderOK
<1>6. QED
  BY <1>1, <1>2, <1>4, <1>5, WritingKeeps

LEMMA CreateNotificationKeeps ==
  ASSUME TasksInv, NEW o \in Orders, CreateNotification(o)
  PROVE  TasksInv'
<1> DEFINE q == [order[o] EXCEPT !.at = "done"]
           new == [state |-> "unread", user |-> order[o].assignee]
<1>1. /\ order[o].at = "notifying" /\ OrderOK(task, notice, o, order[o]) /\ order[o] \in Order
      /\ notice' = [notice EXCEPT ![o] = new] /\ PutOrder(o, q) /\ UNCHANGED task
      /\ TaskRowsOK /\ NoticesOK /\ OrdersOK /\ o \in TaskIds
  BY RequestsAreTasks DEF CreateNotification, TasksInv, OrdersOK
<1>2. /\ order[o].verb = "create" /\ task[o].state # "none"
  BY <1>1 DEF OrderOK, StepOK, CreationOK
<1>3. /\ q \in Order /\ q.at = "done" /\ q.verb = "create" /\ q.assignee = order[o].assignee
  BY <1>1, <1>2 DEF Order
<1>4. new \in Notice /\ new.state = "unread" /\ new.user = order[o].assignee
  BY <1>1 DEF Notice, Order
<1> HIDE DEF q, new
<1>5. NoticesOK'
  BY <1>1, <1>2, <1>4 DEF NoticesOK
<1>6. NoticesStay(o)
  BY <1>1, <1>4 DEF NoticesStay, NoticesOK
<1>7. OrderOK(task, notice', o, q)
  <2>1. notice'[o] = new
    BY <1>1 DEF NoticesOK
  <2>2. QED
    BY <1>3, <1>4, <2>1 DEF OrderOK, StepOK, PatchOK, CreationOK, MarkingOK, CountingOK,
                            CountSteps
<1>8. OrdersOK'
  BY <1>1, <1>6, <1>7, PutOrderKeeps
<1>9. QED
  BY <1>1, <1>5, <1>8, RowsStay DEF TasksInv

LEMMA FindTaskKeeps ==
  ASSUME TasksInv, NEW o \in Orders, NEW t \in TaskIds, NEW status \in Statuses,
         FindTask(o, t, status)
  PROVE  TasksInv'
<1> DEFINE q == [NoOrder("updating") EXCEPT !.verb = "patch", !.target = t,
                                            !.status = status]
<1>1. /\ PutOrder(o, IF task[t].state = "live" THEN q ELSE NoOrder("failed"))
      /\ UNCHANGED <<task, notice>>
  BY DEF FindTask
<1>2. CASE task[t].state = "live"
  <2> DEFINE d == NoOrder("updating")
  <2>1. d \in Order /\ d.at = "updating"
    BY FirstOrder
  <2> HIDE DEF d
  <2>2. q = [d EXCEPT !.verb = "patch", !.target = t, !.status = status]
    BY DEF d
  <2>3. /\ q \in Order /\ q.at = "updating" /\ q.verb = "patch" /\ q.target = t
    BY <2>1, <2>2 DEF Order, Verbs
  <2> HIDE DEF q
  <2>4. OrderOK(task, notice, o, q)
    BY <1>2, <2>3 DEF OrderOK, StepOK, PatchOK, CreationOK, MarkingOK, CountingOK, CountSteps
  <2>5. QED
    BY <1>1, <1>2, <2>4, ReadingKeeps
<1>3. CASE task[t].state # "live"
  <2>1. OrderOK(task, notice, o, NoOrder("failed"))
    BY NoOrderOK
  <2>2. QED
    BY <1>1, <1>3, <2>1, ReadingKeeps
<1>4. QED
  BY <1>2, <1>3

LEMMA UpdateTaskStatusKeeps ==
  ASSUME TasksInv, NEW o \in Orders, UpdateTaskStatus(o)
  PROVE  TasksInv'
<1> DEFINE r == order[o]
           t == r.target
           q == [r EXCEPT !.at = "fetching"]
           written == [task[t] EXCEPT !.status = r.status,
                                      !.completed = @ \/ r.status = "done"]
<1>1. /\ r.at = "updating" /\ OrderOK(task, notice, o, r) /\ r \in Order
      /\ PutChange(o, q, t) /\ UNCHANGED notice /\ TaskRowsOK
      /\ task' = [task EXCEPT ![t] = written]
  <2>1. /\ r.at = "updating" /\ PutChange(o, q, t) /\ UNCHANGED notice
        /\ task' = [task EXCEPT ![t] = written]
    BY DEF UpdateTaskStatus
  <2>2. OrderOK(task, notice, o, r) /\ r \in Order /\ TaskRowsOK
    BY DEF TasksInv, OrdersOK
  <2>3. QED
    BY <2>1, <2>2
<1>2. /\ t \in TaskIds /\ task[t] \in Task /\ r.status \in Statuses /\ r.verb = "patch"
      /\ ~r.met => task[t].state = "live"
  BY <1>1 DEF Order, TaskRowsOK, OrderOK, StepOK, PatchOK
<1>3. /\ q \in Order /\ q.at = "fetching" /\ q.verb = "patch" /\ q.target = t
      /\ q.status = r.status /\ q.met = r.met
  BY <1>1, <1>2 DEF Order
<1>4. /\ written \in Task /\ written.status = r.status /\ written.state = task[t].state
      /\ r.status = "done" => written.completed
  BY <1>2 DEF Task
<1>5. task'[t] = written
  BY <1>1, <1>2 DEF TaskRowsOK
<1> HIDE DEF q, written, t
<1>6. OrderOK(task', notice, o, q)
  <2>1. PatchOK(task', q)
    BY <1>2, <1>3, <1>4, <1>5 DEF PatchOK
  <2>2. QED
    BY <1>3, <2>1 DEF OrderOK, StepOK, CreationOK, MarkingOK, CountingOK, CountSteps
<1>7. QED
  BY <1>1, <1>2, <1>4, <1>6, WritingKeeps

LEMMA UpdateTaskKeeps ==
  ASSUME TasksInv, NEW o \in Orders, NEW t \in TaskIds, NEW body \in Bodies,
         UpdateTask(o, t, body)
  PROVE  TasksInv'
<1> DEFINE q == [NoOrder("fetching") EXCEPT !.verb = "put", !.target = t]
           written == IF task[t].state = "none" THEN task[t] ELSE body
<1>1. /\ task \in [TaskIds -> Task] /\ task[t] \in Task
      /\ PutChange(o, q, t) /\ UNCHANGED notice /\ task' = [task EXCEPT ![t] = written]
  <2>1. task \in [TaskIds -> Task]
    BY DEF TasksInv, TaskRowsOK
  <2>2. QED
    BY <2>1 DEF UpdateTask
<1>2. written \in Task /\ (task[t].state # "none" => written.state # "none")
  BY <1>1, BodiesAssumption
<1>3. q \in Order /\ q.at = "fetching" /\ q.verb = "put"
  <2> DEFINE d == NoOrder("fetching")
  <2>1. d \in Order /\ d.at = "fetching"
    BY FirstOrder
  <2> HIDE DEF d
  <2>2. q = [d EXCEPT !.verb = "put", !.target = t]
    BY DEF d
  <2>3. QED
    BY <2>1, <2>2 DEF Order, Verbs
<1> HIDE DEF q, written
<1>4. OrderOK(task', notice, o, q)
  BY <1>3, PlainOK DEF MarkingOK
<1>5. QED
  BY <1>1, <1>2, <1>4, WritingKeeps

LEMMA FetchTaskKeeps ==
  ASSUME TasksInv, NEW o \in Orders, FetchTask(o)
  PROVE  TasksInv'
<1> DEFINE r == order[o]
           found == task[r.target]
           q == [r EXCEPT !.at = "done",
                          !.answer = IF found.state = "live" THEN found.status ELSE "null",
                          !.complete = found.state = "live" /\ found.completed]
<1>1. /\ r.at = "fetching" /\ OrderOK(task, notice, o, r) /\ r \in Order
      /\ PutOrder(o, IF r.verb = "put" THEN NoOrder("done") ELSE q)
      /\ UNCHANGED <<task, notice>> /\ found \in Task
  BY DEF FetchTask, TasksInv, OrdersOK, TaskRowsOK, Order
<1>2. CASE r.verb = "put"
  <2>1. OrderOK(task, notice, o, NoOrder("done"))
    BY NoOrderOK
  <2>2. QED
    BY <1>1, <1>2, <2>1, ReadingKeeps
<1>3. CASE r.verb # "put"
  <2>1. /\ r.verb = "patch"
        /\ ~r.met => /\ found.state = "live" /\ found.status = r.status
                     /\ r.status = "done" => found.completed
    BY <1>1, <1>3 DEF OrderOK, StepOK, PatchOK
  <2>2. /\ (IF found.state = "live" THEN found.status ELSE "null") \in Statuses \union {"null"}
        /\ found.completed \in BOOLEAN
    BY <1>1 DEF Task
  <2>3. /\ q \in Order /\ q.at = "done" /\ q.verb = "patch" /\ q.status = r.status
        /\ q.met = r.met
        /\ q.answer = IF found.state = "live" THEN found.status ELSE "null"
        /\ q.complete = (found.state = "live" /\ found.completed)
    BY <1>1, <2>1, <2>2 DEF Order
  <2> HIDE DEF q
  <2>4. PatchOK(task, q)
    BY <2>1, <2>3 DEF PatchOK
  <2>5. OrderOK(task, notice, o, q)
    BY <2>3, <2>4 DEF OrderOK, StepOK, CreationOK, MarkingOK, CountingOK, CountSteps
  <2>6. QED
    BY <1>1, <1>3, <2>5, ReadingKeeps
<1>4. QED
  BY <1>2, <1>3

LEMMA DeleteTaskKeeps ==
  ASSUME TasksInv, NEW o \in Orders, NEW t \in TaskIds, DeleteTask(o, t)
  PROVE  TasksInv'
<1> DEFINE written == [task[t] EXCEPT !.state = IF @ = "live" THEN "deleted" ELSE @]
<1>1. /\ task[t] \in Task /\ PutChange(o, NoOrder("done"), t) /\ UNCHANGED notice
      /\ task' = [task EXCEPT ![t] = written]
  BY DEF DeleteTask, TasksInv, TaskRowsOK
<1>2. written \in Task /\ (task[t].state # "none" => written.state # "none")
  BY <1>1 DEF Task
<1> HIDE DEF written
<1>3. OrderOK(task', notice, o, NoOrder("done"))
  BY NoOrderOK
<1>4. QED
  BY <1>1, <1>2, <1>3, WritingKeeps

LEMMA CountTotalKeeps ==
  ASSUME TasksInv, NEW o \in Orders, NEW user \in Members, CountTotal(o, user)
  PROVE  TasksInv'
<1> DEFINE n == Cardinality(Counted(user, "total"))
           q == [NoOrder("count todo") EXCEPT !.verb = "statistics", !.user = user,
                                              !.counts["total"] = n]
<1>1. PutOrder(o, q) /\ UNCHANGED <<task, notice>>
  BY DEF CountTotal
<1>2. n = Count(task, user, "total") /\ n \in Nat
  BY CountIsCounted, CountsFit DEF Kinds
<1> HIDE DEF n
<1>3. /\ q \in Order /\ q.at = "count todo" /\ q.verb = "statistics" /\ q.user = user
      /\ q.counts["total"] = n
  <2> DEFINE d == NoOrder("count todo")
             e == [d.counts EXCEPT !["total"] = n]
  <2>1. d \in Order /\ d.at = "count todo"
    BY FirstOrder
  <2> HIDE DEF d
  <2>2. d.counts \in [Kinds -> Nat] /\ "total" \in Kinds
    BY <2>1 DEF Order, Kinds
  <2>3. e \in [Kinds -> Nat] /\ e["total"] = n
    BY <1>2, <2>2
  <2>4. q = [d EXCEPT !.verb = "statistics", !.user = user, !.counts = e]
    BY DEF d
  <2> HIDE DEF e
  <2>5. QED
    BY <2>1, <2>3, <2>4 DEF Order, Verbs, Kinds
<1> HIDE DEF q
<1>4. StepOK(q) /\ PatchOK(task, q) /\ CreationOK(task, notice, o, q) /\ MarkingOK(notice, q)
  BY <1>3 DEF StepOK, PatchOK, CreationOK, MarkingOK, CountSteps
<1>5. CountingOK(task, q)
  BY <1>2, <1>3 DEF CountingOK, CountSteps
<1>6. QED
  BY <1>1, <1>4, <1>5, ReadingKeeps DEF OrderOK

LEMMA CountNextKeeps ==
  ASSUME TasksInv, NEW o \in Orders, NEW at, NEW what, NEW next, CountNext(o, at, what, next),
         <<at, what, next>> \in {<<"count todo", "todo", "count in_progress">>,
                                 <<"count in_progress", "in_progress", "count done">>,
                                 <<"count done", "done", "count overdue">>,
                                 <<"count overdue", "overdue", "done">>}
  PROVE  TasksInv'
<1> DEFINE r == order[o]
           n == Cardinality(Counted(r.user, what))
           q == [r EXCEPT !.at = next, !.counts[what] = n]
<1>1. /\ r.at = at /\ OrderOK(task, notice, o, r) /\ r \in Order
      /\ PutOrder(o, q) /\ UNCHANGED <<task, notice>>
  BY DEF CountNext, TasksInv, OrdersOK
<1>2. /\ at \in CountSteps /\ what \in Kinds /\ next \in CountSteps \union {"done"}
      /\ at = "count todo" <=> what = "todo"
      /\ at = "count in_progress" <=> what = "in_progress"
      /\ at = "count done" <=> what = "done"
      /\ at = "count overdue" <=> what = "overdue"
      /\ at = "count todo" <=> next = "count in_progress"
      /\ at = "count in_progress" <=> next = "count done"
      /\ at = "count done" <=> next = "count overdue"
      /\ at = "count overdue" <=> next = "done"
  BY DEF CountSteps, Kinds
<1>3. n = Count(task, r.user, what) /\ n \in Nat
  BY <1>2, CountIsCounted, CountsFit
<1>4. r.verb = "statistics" /\ CountingOK(task, r)
  BY <1>1, <1>2 DEF OrderOK, StepOK
<1> HIDE DEF n
<1>5. /\ q \in Order /\ q.at = next /\ q.verb = "statistics" /\ q.user = r.user
      /\ q.met = r.met /\ q.counts[what] = n
      /\ \A w \in Kinds \ {what} : q.counts[w] = r.counts[w]
  <2>1. r.counts \in [Kinds -> Nat] /\ q.counts = [r.counts EXCEPT ![what] = n]
    BY <1>1 DEF Order, Kinds
  <2>2. q.counts \in [Kinds -> Nat]
    BY <1>3, <2>1
  <2>3. q = [[r EXCEPT !.at = next] EXCEPT !.counts = q.counts]
    BY <1>1 DEF Order
  <2>4. q \in Order /\ q.at = next /\ q.verb = r.verb /\ q.user = r.user /\ q.met = r.met
    BY <1>1, <1>2, <2>2, <2>3 DEF Order, CountSteps, Kinds
  <2>5. QED
    BY <1>2, <1>4, <2>1, <2>4
<1> HIDE DEF q
<1>6. StepOK(q) /\ PatchOK(task, q) /\ CreationOK(task, notice, o, q) /\ MarkingOK(notice, q)
  BY <1>2, <1>5 DEF StepOK, PatchOK, CreationOK, MarkingOK, CountSteps
<1>7. CountingOK(task, q)
  <2>1. CASE at = "count todo"
    BY <1>1, <1>2, <1>3, <1>4, <1>5, <2>1 DEF CountingOK, CountSteps, Kinds
  <2>2. CASE at = "count in_progress"
    BY <1>1, <1>2, <1>3, <1>4, <1>5, <2>2 DEF CountingOK, CountSteps, Kinds
  <2>3. CASE at = "count done"
    BY <1>1, <1>2, <1>3, <1>4, <1>5, <2>3 DEF CountingOK, CountSteps, Kinds
  <2>4. CASE at = "count overdue"
    <3>1. SUFFICES ASSUME ~q.met
                   PROVE  /\ q.counts["todo"] + q.counts["in_progress"] + q.counts["done"]
                               <= q.counts["total"]
                          /\ q.counts["overdue"] + q.counts["done"] <= q.counts["total"]
      BY <1>2, <1>5, <2>4 DEF CountingOK, CountSteps
    <3>2. /\ q.counts["total"] = Count(task, r.user, "total")
          /\ q.counts["todo"] = Count(task, r.user, "todo")
          /\ q.counts["in_progress"] = Count(task, r.user, "in_progress")
          /\ q.counts["done"] = Count(task, r.user, "done")
          /\ q.counts["overdue"] = Count(task, r.user, "overdue")
      BY <1>1, <1>2, <1>3, <1>4, <1>5, <2>4, <3>1 DEF CountingOK, CountSteps, Kinds
    <3>3. QED
      BY <3>2, CountsFit
  <2>5. QED
    BY <1>2, <2>1, <2>2, <2>3, <2>4 DEF CountSteps
<1>8. QED
  BY <1>1, <1>6, <1>7, ReadingKeeps DEF OrderOK

LEMMA CountTasksKeeps ==
  ASSUME TasksInv, NEW o \in Orders, CountTasks(o)
  PROVE  TasksInv'
BY CountNextKeeps DEF CountTasks

\* A request that changes notifications, which stay with their users.
LEMMA NotifyingKeeps ==
  ASSUME TasksInv, NEW o \in Orders, NEW q, OrderOK(task, notice', o, q), PutOrder(o, q),
         UNCHANGED task, notice' \in [TaskIds -> Notice],
         \A t \in TaskIds : /\ notice'[t].user = notice[t].user
                            /\ notice'[t].state = "none" <=> notice[t].state = "none"
  PROVE  TasksInv'
<1>1. TaskRowsOK /\ NoticesOK /\ OrdersOK
  BY DEF TasksInv
<1>2. NoticesOK' /\ NoticesStay(o)
  BY <1>1 DEF NoticesOK, NoticesStay
<1>3. OrdersOK'
  BY <1>1, <1>2, PutOrderKeeps
<1>4. QED
  BY <1>1, <1>2, <1>3, RowsStay DEF TasksInv

LEMMA FindNotificationKeeps ==
  ASSUME TasksInv, NEW o \in Orders, NEW t \in TaskIds, NEW user \in Members,
         FindNotification(o, t, user)
  PROVE  TasksInv'
<1> DEFINE q == [NoOrder("marking") EXCEPT !.verb = "read", !.target = t]
           found == notice[t].state \in {"unread", "read"} /\ notice[t].user = user
<1>1. PutOrder(o, IF found THEN q ELSE NoOrder("failed")) /\ UNCHANGED <<task, notice>>
  BY DEF FindNotification
<1>2. CASE found
  <2> DEFINE d == NoOrder("marking")
  <2>1. d \in Order /\ d.at = "marking"
    BY FirstOrder
  <2> HIDE DEF d
  <2>2. q = [d EXCEPT !.verb = "read", !.target = t]
    BY DEF d
  <2>3. q \in Order /\ q.at = "marking" /\ q.verb = "read" /\ q.target = t
    BY <2>1, <2>2 DEF Order, Verbs
  <2> HIDE DEF q
  <2>4. MarkingOK(notice, q)
    BY <1>2, <2>3 DEF MarkingOK
  <2>5. OrderOK(task, notice, o, q)
    BY <2>3, <2>4, PlainOK
  <2>6. QED
    BY <1>1, <1>2, <2>5, ReadingKeeps
<1>3. CASE ~found
  <2>1. OrderOK(task, notice, o, NoOrder("failed"))
    BY NoOrderOK
  <2>2. QED
    BY <1>1, <1>3, <2>1, ReadingKeeps
<1>4. QED
  BY <1>2, <1>3

\* The notification that was found is there still: nothing takes its row away.
LEMMA MarkAsReadKeeps ==
  ASSUME TasksInv, NEW o \in Orders, MarkAsRead(o)
  PROVE  TasksInv'
<1> DEFINE t == order[o].target
           new == [notice[t] EXCEPT !.state = IF @ = "removed" THEN @ ELSE "read"]
<1>1. /\ order[o].at = "marking" /\ PutOrder(o, NoOrder("done")) /\ UNCHANGED task
      /\ notice' = [notice EXCEPT ![t] = new]
  BY DEF MarkAsRead
<1>2. OrderOK(task, notice, o, order[o]) /\ NoticesOK
  BY DEF TasksInv, OrdersOK
<1>3. t \in TaskIds /\ notice[t].state # "none" /\ notice \in [TaskIds -> Notice]
  BY <1>1, <1>2 DEF OrderOK, StepOK, Order, MarkingOK, NoticesOK
<1>4. new \in Notice /\ new.user = notice[t].user /\ new.state # "none"
  BY <1>3 DEF Notice
<1> HIDE DEF new, t
<1>5. OrderOK(task, notice', o, NoOrder("done"))
  BY NoOrderOK
<1>6. QED
  BY <1>1, <1>3, <1>4, <1>5, NotifyingKeeps

LEMMA MarkAllAsReadKeeps ==
  ASSUME TasksInv, NEW o \in Orders, NEW user \in Members, MarkAllAsRead(o, user)
  PROVE  TasksInv'
<1>1. /\ PutOrder(o, NoOrder("done")) /\ UNCHANGED task /\ notice \in [TaskIds -> Notice]
      /\ notice' = [t \in TaskIds |->
                      IF notice[t].user = user /\ notice[t].state = "unread"
                      THEN [notice[t] EXCEPT !.state = "read"] ELSE notice[t]]
  BY DEF MarkAllAsRead, TasksInv, NoticesOK
<1>2. ASSUME NEW t \in TaskIds
      PROVE  /\ notice'[t] \in Notice /\ notice'[t].user = notice[t].user
             /\ notice'[t].state = "none" <=> notice[t].state = "none"
  <2>1. notice[t] \in Notice
    BY <1>1
  <2>2. notice'[t] = IF notice[t].user = user /\ notice[t].state = "unread"
                     THEN [notice[t] EXCEPT !.state = "read"] ELSE notice[t]
    BY <1>1
  <2>3. QED
    BY <2>1, <2>2 DEF Notice
<1>3. notice' \in [TaskIds -> Notice]
  BY <1>1, <1>2
<1>4. OrderOK(task, notice', o, NoOrder("done"))
  BY NoOrderOK
<1>5. QED
  BY <1>1, <1>2, <1>3, <1>4, NotifyingKeeps

LEMMA DeleteOldNotificationsKeeps ==
  ASSUME TasksInv, NEW o \in Orders, NEW old \in SUBSET TaskIds,
         DeleteOldNotifications(o, old)
  PROVE  TasksInv'
<1>1. /\ PutOrder(o, NoOrder("done")) /\ UNCHANGED task /\ notice \in [TaskIds -> Notice]
      /\ \A t \in old : notice[t].state = "read"
      /\ notice' = [t \in TaskIds |-> IF t \in old
                                      THEN [notice[t] EXCEPT !.state = "removed"]
                                      ELSE notice[t]]
  BY DEF DeleteOldNotifications, TasksInv, NoticesOK
<1>2. ASSUME NEW t \in TaskIds
      PROVE  /\ notice'[t] \in Notice /\ notice'[t].user = notice[t].user
             /\ notice'[t].state = "none" <=> notice[t].state = "none"
  <2>1. notice[t] \in Notice /\ (t \in old => notice[t].state = "read")
    BY <1>1
  <2>2. notice'[t] = IF t \in old THEN [notice[t] EXCEPT !.state = "removed"] ELSE notice[t]
    BY <1>1
  <2>3. QED
    BY <2>1, <2>2 DEF Notice
<1>3. notice' \in [TaskIds -> Notice]
  BY <1>1, <1>2
<1>4. OrderOK(task, notice', o, NoOrder("done"))
  BY NoOrderOK
<1>5. QED
  BY <1>1, <1>2, <1>3, <1>4, NotifyingKeeps

LEMMA OrderErrorKeeps ==
  ASSUME TasksInv, NEW o \in Orders, OrderError(o)
  PROVE  TasksInv'
<1>1. OrderOK(task, notice, o, NoOrder("failed"))
  BY NoOrderOK
<1>2. QED
  BY <1>1, ReadingKeeps DEF OrderError

LEMMA TasksInitOK ==
  TasksInit => TasksInv
<1> SUFFICES ASSUME TasksInit
             PROVE  TasksInv
  OBVIOUS
<1>1. PICK member \in Members :
        task = [t \in TaskIds |->
                  IF t = 0 THEN [NoTask EXCEPT !.state = "live", !.assignee = member,
                                               !.late = TRUE]
                  ELSE NoTask]
  BY DEF TasksInit
<1>2. TaskRowsOK
  <2> DEFINE first == [NoTask EXCEPT !.state = "live", !.assignee = member, !.late = TRUE]
  <2>1. first \in Task /\ NoTask \in Task
    BY TasksAssumption DEF NoTask, Task
  <2> HIDE DEF first
  <2>2. task \in [TaskIds -> Task]
    BY <1>1, <2>1 DEF first
  <2>3. QED
    BY <2>2 DEF TaskRowsOK
<1>3. NoticesOK
  BY DEF TasksInit, NoticesOK, Notice
<1>4. OrdersOK
  <2>1. \A o \in Orders : NoOrder("idle") \in Order /\ OrderOK(task, notice, o, NoOrder("idle"))
    BY NoOrderOK
  <2>2. order = [o \in Orders |-> NoOrder("idle")]
    BY DEF TasksInit
  <2>3. QED
    BY <2>1, <2>2 DEF OrdersOK
<1>5. QED
  BY <1>2, <1>3, <1>4 DEF TasksInv

LEMMA TasksStep ==
  ASSUME TasksInv, TasksNext
  PROVE  TasksInv'
<1>1. ASSUME NEW o \in Orders, NEW user \in Members,
             \/ \E body \in Bodies : SaveTask(o, user, body)
             \/ \E t \in TaskIds : FindNotification(o, t, user)
             \/ CountTotal(o, user) \/ MarkAllAsRead(o, user)
      PROVE  TasksInv'
  BY <1>1, SaveTaskKeeps, FindNotificationKeeps, CountTotalKeeps, MarkAllAsReadKeeps
<1>2. ASSUME NEW o \in Orders, NEW t \in TaskIds,
             \/ \E status \in Statuses : FindTask(o, t, status)
             \/ \E body \in Bodies : UpdateTask(o, t, body)
             \/ DeleteTask(o, t)
      PROVE  TasksInv'
  BY <1>2, FindTaskKeeps, UpdateTaskKeeps, DeleteTaskKeeps
<1>3. ASSUME NEW o \in Orders, NEW old \in SUBSET TaskIds, DeleteOldNotifications(o, old)
      PROVE  TasksInv'
  BY <1>3, DeleteOldNotificationsKeeps
<1>4. ASSUME NEW o \in Orders,
             \/ CreateNotification(o) \/ UpdateTaskStatus(o) \/ FetchTask(o) \/ CountTasks(o)
             \/ MarkAsRead(o) \/ OrderError(o)
      PROVE  TasksInv'
  BY <1>4, CreateNotificationKeeps, UpdateTaskStatusKeeps, FetchTaskKeeps, CountTasksKeeps,
     MarkAsReadKeeps, OrderErrorKeeps
<1>5. QED
  BY <1>1, <1>2, <1>3, <1>4 DEF TasksNext

LEMMA TasksStutter ==
  ASSUME TasksInv, UNCHANGED taskVars
  PROVE  TasksInv'
BY DEF TasksInv, taskVars, TaskRowsOK, NoticesOK, OrdersOK
-----------------------------------------------------------------------------
(* Workspace *)

IInv == RecordsInv /\ TasksInv

\* The invariant of the two parts: every step changes the rows of one of them.
THEOREM Invariance ==
  Spec => []IInv
<1>1. Init => IInv
  BY RecordsInitOK, TasksInitOK DEF Init, IInv
<1>2. IInv /\ [Next]_vars => IInv'
  <2> SUFFICES ASSUME IInv, [Next]_vars
               PROVE  IInv'
    OBVIOUS
  <2>1. RecordsInv /\ TasksInv
    BY DEF IInv
  <2>2. CASE RecordsNext /\ UNCHANGED taskVars
    BY <2>1, <2>2, RecordsStep, TasksStutter DEF IInv
  <2>3. CASE TasksNext /\ UNCHANGED recordVars
    BY <2>1, <2>3, TasksStep, RecordsStutter DEF IInv
  <2>4. CASE UNCHANGED vars
    <3>1. UNCHANGED recordVars /\ UNCHANGED taskVars
      BY <2>4 DEF vars
    <3>2. QED
      BY <2>1, <3>1, TasksStutter, RecordsStutter DEF IInv
  <2>5. QED
    BY <2>2, <2>3, <2>4 DEF Next
<1>3. QED
  BY <1>1, <1>2, PTL DEF Spec

\* Every variable has its type: the page of a reader, the copies calls write back and the
\* counts of the statistics included.
THEOREM TypeCorrect ==
  Spec => []TypeOK
<1>1. IInv => TypeOK
  <2> SUFFICES ASSUME IInv
               PROVE  TypeOK
    OBVIOUS
  <2>1. RecordsTypeOK
    BY DEF IInv, RecordsInv, RowOK, EditsOK, MarksOK, ListOK, JobsOK, ReadersOK,
           RecordsTypeOK, Entries
  <2>2. TasksTypeOK
    BY DEF IInv, TasksInv, TaskRowsOK, NoticesOK, OrdersOK, TasksTypeOK
  <2>3. QED
    BY <2>1, <2>2 DEF TypeOK
<1>2. QED
  BY <1>1, Invariance, PTL

\* The count of a reaction is the number of its users however calls overlap; users,
\* content and edit history are what the calls asked for as long as each one wrote a copy
\* of the row as it was (addReaction, removeReaction, markAsEdited).
THEOREM UpdatesCorrect ==
  Spec => []UpdatesStand
<1>1. IInv => UpdatesStand
  <2> SUFFICES ASSUME IInv
               PROVE  UpdatesStand
    OBVIOUS
  <2>1. RowOK /\ EditsOK
    BY DEF IInv, RecordsInv
  <2>2. content = Last(edits)
    BY <2>1 DEF EditsOK, Last
  <2>3. QED
    BY <2>1, <2>2 DEF RowOK, EditsOK, Tallied, UpdatesStand
<1>2. QED
  BY <1>1, Invariance, PTL

\* A client that reads on while hasNext says so has every message that was there when it
\* began, for any number of messages and any page size and limit up to it, if none was
\* deleted meanwhile; and the page arithmetic is right.
THEOREM PagesCorrect ==
  Spec => []PagesCover
<1>1. IInv => PagesCover
  BY ArithmeticHolds DEF IInv, RecordsInv, ReadersOK, ReaderOK, PagesCover
<1>2. QED
  BY <1>1, Invariance, PTL

\* The answer to a change of status shows it, with the completion of a done task, and the
\* statistics add up, if no other request changed the rows meanwhile; and a task that was
\* created has told its assignee: for any number of requests whose statements interleave as
\* they like and PUTs that write any columns (updateTaskStatus, getTaskStatistics,
\* createTask).
THEOREM TasksCorrect ==
  Spec => []TasksAgree
<1>1. IInv => TasksAgree
  <2> SUFFICES ASSUME IInv
               PROVE  TasksAgree
    OBVIOUS
  <2>1. TaskRowsOK /\ NoticesOK /\ \A o \in Orders : OrderOK(task, notice, o, order[o])
    BY DEF IInv, TasksInv, OrdersOK
  <2>2. AnswersTold
    BY <2>1 DEF AnswersTold, Finished, OrderOK, PatchOK
  <2>3. AssigneeNotified
    BY <2>1 DEF AssigneeNotified, Finished, OrderOK, CreationOK, NoticesOK
  <2>4. StatisticsAddUp
    BY <2>1 DEF StatisticsAddUp, Finished, OrderOK, CountingOK
  <2>5. QED
    BY <2>2, <2>3, <2>4 DEF TasksAgree
<1>2. QED
  BY <1>1, Invariance, PTL
=============================================================================
