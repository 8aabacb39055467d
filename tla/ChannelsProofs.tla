--------------------------- MODULE ChannelsProofs ---------------------------
(***************************************************************************)
(* Theorems about Channels for every set of users, channels and requests.  *)
(* The inductive invariant adds to the type invariant what each control    *)
(* location of a request says about the request and about its channel.     *)
(***************************************************************************)
EXTENDS Channels, FiniteSetTheorems, TLAPS

\* What a suspended handler has already established.
StageOK(r) ==
    /\ req[r].at \in {"idle", "save"} => req[r].channel = Nowhere
    /\ req[r].at \in {"find", "insert", "increment", "delete", "decrement", "emit"}
         => req[r].channel \in Channels
    /\ req[r].at # "idle" => req[r].user \in Users
    /\ req[r].at = "save" => req[r].op = "create" /\ req[r].kind \in Kinds
    /\ req[r].at = "find" => req[r].op = "join"
    /\ req[r].at = "delete" => req[r].op = "leave"
    /\ req[r].at \in {"idle", "save", "find", "insert", "delete"}
         => req[r].row = "none" /\ req[r].counted = 0
    /\ req[r].at = "increment" => req[r].row = "inserted" /\ req[r].counted = 0
    /\ req[r].at = "decrement" => req[r].row \in {"deleted", "noop"} /\ req[r].counted = 0

\* A handler about to insert has seen the channel: its creator, or one not private.
InsertOK(r) ==
    req[r].at = "insert" =>
        /\ kind[req[r].channel] # "absent"
        /\ \/ req[r].op = "create" /\ creator[req[r].channel] = req[r].user
           \/ req[r].op = "join" /\ kind[req[r].channel] # "private"

\* The request that created a channel is the only one that created it.
CreatedOK(r) ==
    req[r].op = "create" /\ req[r].channel \in Channels =>
        /\ kind[req[r].channel] # "absent"
        /\ \A q \in Requests :
              req[q].op = "create" /\ req[q].channel = req[r].channel => q = r

IInv ==
    /\ TypeOK
    /\ \A r \in Requests : StageOK(r) /\ InsertOK(r) /\ CreatedOK(r)

LEMMA InitIInv == Init => IInv
  BY ChannelsAssumption
  DEF Init, IInv, TypeOK, Idle, Request, Active, DbStages, Ended, StageOK, InsertOK, CreatedOK

\* Every action leaves the other requests alone.
LEMMA OneRequestMoves ==
  ASSUME TypeOK, NEW r \in Requests, Arrive(r) \/ Step(r)
  PROVE  \A q \in Requests \ {r} : req'[q] = req[q]
  BY DEF TypeOK, Arrive, ArriveCreate, ArriveJoin, ArriveLeave, Step, SaveChannel,
         FindChannel, InsertMember, IncrementMemberCount, DeleteMember,
         DecrementMemberCount, EmitMemberEvent, DbError, Goto, Put

LEMMA OthersTyped == \A u : Others(u) \in {0, 1}
  BY DEF Others

LEMMA PutTyped ==
  ASSUME TypeOK, NEW r \in Requests, NEW q \in Request, Put(r, q)
  PROVE  req' \in [Requests -> Request]
  BY DEF TypeOK, Put

\* A request goes on to a stage, with what its statement found.
LEMMA UpdatesTyped ==
  ASSUME NEW q \in Request, NEW s \in Active \union Ended
  PROVE  /\ [q EXCEPT !.at = s] \in Request
         /\ [q EXCEPT !.counted = 1, !.at = s] \in Request
         /\ \A x \in {"inserted", "deleted", "noop"} :
              [q EXCEPT !.row = x, !.at = s] \in Request
         /\ \A c \in Channels : [q EXCEPT !.channel = c, !.at = s] \in Request
<1>1. [q EXCEPT !.at = s] \in Request
  BY DEF Request
<1>2. [q EXCEPT !.counted = 1, !.at = s] \in Request
  BY DEF Request
<1>3. ASSUME NEW x \in {"inserted", "deleted", "noop"}
      PROVE  [q EXCEPT !.row = x, !.at = s] \in Request
  BY <1>3 DEF Request
<1>4. ASSUME NEW c \in Channels
      PROVE  [q EXCEPT !.channel = c, !.at = s] \in Request
  BY <1>4 DEF Request
<1>5. QED
  BY <1>1, <1>2, <1>3, <1>4

LEMMA StagesListed ==
  {"insert", "increment", "decrement", "emit", "done", "rejected", "failed"}
    \subseteq Active \union Ended
  BY DEF Active, DbStages, Ended

\* A step that writes no table and emits nothing.
LEMMA RequestTyped ==
  ASSUME TypeOK, req' \in [Requests -> Request],
         UNCHANGED <<kind, creator, members, memberCount, heard>>
  PROVE  TypeOK'
  BY DEF TypeOK

LEMMA TypeStep ==
  ASSUME IInv, [Next]_vars
  PROVE  TypeOK'
<1>0. TypeOK /\ \A r \in Requests : req[r] \in Request /\ StageOK(r)
  BY DEF IInv, TypeOK
<1>1. ASSUME NEW r \in Requests, Arrive(r)
      PROVE  TypeOK'
  <2>1. ASSUME NEW u \in Users, NEW k \in Kinds, ArriveCreate(r, u, k)
        PROVE  TypeOK'
    <3>1. [Idle EXCEPT !.op = "create", !.user = u, !.kind = k, !.at = "save",
                      !.met = Others(u)] \in Request
      BY OthersTyped DEF Idle, Request, Active, DbStages
    <3>2. QED
      BY <1>0, <2>1, <3>1, PutTyped, RequestTyped DEF ArriveCreate
  <2>2. ASSUME NEW u \in Users, NEW c \in Channels, ArriveJoin(r, u, c)
        PROVE  TypeOK'
    <3>1. [Idle EXCEPT !.op = "join", !.user = u, !.channel = c, !.at = "find",
                      !.met = Others(u)] \in Request
      BY OthersTyped DEF Idle, Request, Active, DbStages
    <3>2. QED
      BY <1>0, <2>2, <3>1, PutTyped, RequestTyped DEF ArriveJoin
  <2>3. ASSUME NEW u \in Users, NEW c \in Channels, ArriveLeave(r, u, c)
        PROVE  TypeOK'
    <3>1. [Idle EXCEPT !.op = "leave", !.user = u, !.channel = c, !.at = "delete",
                      !.met = Others(u)] \in Request
      BY OthersTyped DEF Idle, Request, Active, DbStages
    <3>2. QED
      BY <1>0, <2>3, <3>1, PutTyped, RequestTyped DEF ArriveLeave
  <2>4. QED
    BY <1>1, <2>1, <2>2, <2>3 DEF Arrive
<1>2. ASSUME NEW r \in Requests, SaveChannel(r)
      PROVE  TypeOK'
  <2>1. PICK c \in Channels :
           /\ kind' = [kind EXCEPT ![c] = req[r].kind]
           /\ creator' = [creator EXCEPT ![c] = req[r].user]
           /\ Put(r, [req[r] EXCEPT !.channel = c, !.at = "insert"])
    BY <1>2 DEF SaveChannel
  <2>2. [req[r] EXCEPT !.channel = c, !.at = "insert"] \in Request
    BY <1>0, UpdatesTyped, StagesListed
  <2>3. req[r].kind \in Kinds /\ req[r].user \in Users
    BY <1>0, <1>2 DEF StageOK, SaveChannel
  <2>4. QED
    <3>1. req' \in [Requests -> Request]
      BY <1>0, <2>1, <2>2, PutTyped
    <3>2. UNCHANGED <<members, memberCount, heard>>
      BY <1>2 DEF SaveChannel
    <3>3. /\ kind \in [Channels -> Kinds \union {"absent"}]
          /\ creator \in [Channels -> Users \union {Nobody}]
          /\ \A d \in Channels : kind[d] # "absent" => creator[d] \in Users
      BY <1>0 DEF TypeOK
    <3>4. /\ kind' \in [Channels -> Kinds \union {"absent"}]
          /\ creator' \in [Channels -> Users \union {Nobody}]
          /\ \A d \in Channels : kind'[d] # "absent" => creator'[d] \in Users
      BY <2>1, <2>3, <3>3
    <3>5. QED
      BY <1>0, <3>1, <3>2, <3>4 DEF TypeOK
<1>3. ASSUME NEW r \in Requests, FindChannel(r)
      PROVE  TypeOK'
  <2>1. \A s \in {"rejected", "insert"} : [req[r] EXCEPT !.at = s] \in Request
    BY <1>0, UpdatesTyped, StagesListed
  <2>2. QED
    <3>1. \E s \in {"rejected", "insert"} : Put(r, [req[r] EXCEPT !.at = s])
      BY <1>3 DEF FindChannel, Goto
    <3>2. req' \in [Requests -> Request]
      BY <1>0, <2>1, <3>1, PutTyped
    <3>3. UNCHANGED <<kind, creator, members, memberCount, heard>>
      BY <1>3 DEF FindChannel
    <3>4. QED
      BY <1>0, <3>2, <3>3, RequestTyped
<1>4. ASSUME NEW r \in Requests, InsertMember(r)
      PROVE  TypeOK'
  <2>1. /\ [req[r] EXCEPT !.at = "failed"] \in Request
        /\ [req[r] EXCEPT !.row = "inserted", !.at = "increment"] \in Request
    BY <1>0, UpdatesTyped, StagesListed
  <2>2. req[r].channel \in Channels /\ req[r].user \in Users
    BY <1>0, <1>4 DEF StageOK, InsertMember
  <2>3. req' \in [Requests -> Request]
    <3>1. \/ Put(r, [req[r] EXCEPT !.at = "failed"])
          \/ Put(r, [req[r] EXCEPT !.row = "inserted", !.at = "increment"])
      BY <1>4 DEF InsertMember, Goto
    <3>2. QED
      BY <1>0, <2>1, <3>1, PutTyped
  <2>4. members' \in [Channels -> SUBSET Users]
    <3>1. members \in [Channels -> SUBSET Users]
      BY <1>0 DEF TypeOK
    <3>2. \/ members' = members
          \/ members' = [members EXCEPT ![req[r].channel] = @ \union {req[r].user}]
      BY <1>4 DEF InsertMember
    <3>3. QED
      BY <2>2, <3>1, <3>2
  <2>5. UNCHANGED <<kind, creator, memberCount, heard>>
    BY <1>4 DEF InsertMember
  <2>6. QED
    BY <1>0, <2>3, <2>4, <2>5 DEF TypeOK
<1>5. ASSUME NEW r \in Requests, IncrementMemberCount(r)
      PROVE  TypeOK'
  <2>1. /\ [req[r] EXCEPT !.counted = 1, !.at = "done"] \in Request
        /\ [req[r] EXCEPT !.counted = 1, !.at = "emit"] \in Request
    BY <1>0, UpdatesTyped, StagesListed
  <2>2. /\ \E s \in {"done", "emit"} : Put(r, [req[r] EXCEPT !.counted = 1, !.at = s])
        /\ memberCount' = [memberCount EXCEPT ![req[r].channel] = @ + 1]
    <3> DEFINE s == IF req[r].op = "create" THEN "done" ELSE "emit"
    <3>1. /\ Put(r, [req[r] EXCEPT !.counted = 1, !.at = s])
          /\ memberCount' = [memberCount EXCEPT ![req[r].channel] = @ + 1]
      BY <1>5 DEF IncrementMemberCount
    <3>2. s \in {"done", "emit"}
      OBVIOUS
    <3> HIDE DEF s
    <3>3. QED
      BY <3>1, <3>2
  <2>3. req' \in [Requests -> Request]
    <3>1. PICK s \in {"done", "emit"} : Put(r, [req[r] EXCEPT !.counted = 1, !.at = s])
      BY <2>2
    <3>2. QED
      BY <1>0, <2>1, <3>1, PutTyped
  <2>4. memberCount' \in [Channels -> Int]
    <3>1. PICK c \in Channels : c = req[r].channel
      BY <1>0, <1>5 DEF IncrementMemberCount, StageOK
    <3>2. memberCount' = [memberCount EXCEPT ![c] = @ + 1] /\ memberCount \in [Channels -> Int]
      BY <1>0, <2>2, <3>1 DEF TypeOK
    <3>3. QED
      BY ONLY <3>2
  <2>5. QED
    BY <1>0, <1>5, <2>3, <2>4 DEF IncrementMemberCount, TypeOK
<1>6. ASSUME NEW r \in Requests, DeleteMember(r)
      PROVE  TypeOK'
  <2>1. \A x \in {"deleted", "noop"} : [req[r] EXCEPT !.row = x, !.at = "decrement"] \in Request
    BY <1>0, UpdatesTyped, StagesListed
  <2>2. \E x \in {"deleted", "noop"} : Put(r, [req[r] EXCEPT !.row = x, !.at = "decrement"])
    <3>1. CASE req[r].user \in members[req[r].channel]
      BY <1>6, <3>1 DEF DeleteMember, Put
    <3>2. CASE req[r].user \notin members[req[r].channel]
      BY <1>6, <3>2 DEF DeleteMember, Put
    <3>3. QED
      BY <3>1, <3>2
  <2>3. req' \in [Requests -> Request]
    <3>1. PICK x \in {"deleted", "noop"} :
             Put(r, [req[r] EXCEPT !.row = x, !.at = "decrement"])
      BY <2>2
    <3>2. QED
      BY <1>0, <2>1, <3>1, PutTyped
  <2>4. /\ members' = [members EXCEPT ![req[r].channel] = @ \ {req[r].user}]
        /\ UNCHANGED <<kind, creator, memberCount, heard>>
    BY <1>6 DEF DeleteMember
  <2>5. members \in [Channels -> SUBSET Users]
    BY <1>0 DEF TypeOK
  <2>6. members' \in [Channels -> SUBSET Users]
    BY <2>4, <2>5
  <2>7. QED
    BY <1>0, <2>3, <2>4, <2>6 DEF TypeOK
<1>7. ASSUME NEW r \in Requests, DecrementMemberCount(r)
      PROVE  TypeOK'
  <2> DEFINE new == [req[r] EXCEPT !.counted = 1, !.at = "emit"]
  <2>1. new \in Request
    BY <1>0, UpdatesTyped, StagesListed
  <2>2. Put(r, new) /\ memberCount' = [memberCount EXCEPT ![req[r].channel] = @ - 1]
    BY <1>7 DEF DecrementMemberCount
  <2>3. req' \in [Requests -> Request]
    BY ONLY <1>0, <2>1, <2>2, PutTyped
  <2>4. memberCount' \in [Channels -> Int]
    <3>1. PICK c \in Channels : c = req[r].channel
      BY <1>0, <1>7 DEF DecrementMemberCount, StageOK
    <3>2. memberCount' = [memberCount EXCEPT ![c] = @ - 1] /\ memberCount \in [Channels -> Int]
      BY <1>0, <2>2, <3>1 DEF TypeOK
    <3>3. QED
      BY ONLY <3>2
  <2>5. QED
    BY <1>0, <1>7, <2>3, <2>4 DEF DecrementMemberCount, TypeOK
<1>8. ASSUME NEW r \in Requests, EmitMemberEvent(r)
      PROVE  TypeOK'
  <2>1. [req[r] EXCEPT !.at = "done"] \in Request
    BY <1>0, UpdatesTyped, StagesListed
  <2>2. QED
    <3>1. req' \in [Requests -> Request]
      BY <1>0, <1>8, <2>1, PutTyped DEF EmitMemberEvent, Goto
    <3>2. UNCHANGED <<kind, creator, members, memberCount>>
      BY <1>8 DEF EmitMemberEvent
    <3>3. PICK e \in {"joined", "left"} :
             heard' = [heard EXCEPT ![req[r].channel][req[r].user] = e]
      BY <1>8 DEF EmitMemberEvent
    <3>4. heard' \in [Channels -> [Users -> {"nothing", "joined", "left"}]]
      BY <1>0, <3>3 DEF TypeOK
    <3>5. QED
      BY <1>0, <3>1, <3>2, <3>4 DEF TypeOK
<1>9. ASSUME NEW r \in Requests, DbError(r)
      PROVE  TypeOK'
  <2>1. [req[r] EXCEPT !.at = "failed"] \in Request
    BY <1>0, UpdatesTyped, StagesListed
  <2>2. QED
    BY <1>0, <1>9, <2>1, PutTyped, RequestTyped DEF DbError, Goto
<1>10. CASE UNCHANGED vars
  BY <1>0, <1>10 DEF vars, TypeOK
<1>11. QED
  BY <1>1, <1>2, <1>3, <1>4, <1>5, <1>6, <1>7, <1>8, <1>9, <1>10
  DEF Next, Step, AllServed

\* The actions, for steps that look at one request at a time.
LEMMA NextCases ==
  ASSUME [Next]_vars
  PROVE  \/ \E r \in Requests : Arrive(r) \/ Step(r)
         \/ UNCHANGED vars
  BY DEF Next, AllServed

\* What an arriving request looks like; nothing but req changes.
LEMMA ArriveShape ==
  ASSUME req \in [Requests -> Request], NEW r \in Requests, Arrive(r)
  PROVE  /\ req'[r].user \in Users
         /\ req'[r].row = "none" /\ req'[r].counted = 0
         /\ \/ /\ req'[r].op = "create" /\ req'[r].at = "save"
               /\ req'[r].channel = Nowhere /\ req'[r].kind \in Kinds
            \/ req'[r].op = "join" /\ req'[r].at = "find" /\ req'[r].channel \in Channels
            \/ req'[r].op = "leave" /\ req'[r].at = "delete" /\ req'[r].channel \in Channels
         /\ req[r].at = "idle"
         /\ UNCHANGED <<kind, creator, members, memberCount, heard>>
<1>1. ASSUME NEW u \in Users, NEW k \in Kinds, ArriveCreate(r, u, k)
      PROVE  /\ req'[r].user = u /\ req'[r].row = "none" /\ req'[r].counted = 0
             /\ req'[r].op = "create" /\ req'[r].at = "save"
             /\ req'[r].channel = Nowhere /\ req'[r].kind = k
             /\ req[r].at = "idle"
             /\ UNCHANGED <<kind, creator, members, memberCount, heard>>
  BY <1>1 DEF ArriveCreate, Put, Idle
<1>2. ASSUME NEW u \in Users, NEW c \in Channels, ArriveJoin(r, u, c)
      PROVE  /\ req'[r].user = u /\ req'[r].row = "none" /\ req'[r].counted = 0
             /\ req'[r].op = "join" /\ req'[r].at = "find" /\ req'[r].channel = c
             /\ req[r].at = "idle"
             /\ UNCHANGED <<kind, creator, members, memberCount, heard>>
  BY <1>2 DEF ArriveJoin, Put, Idle
<1>3. ASSUME NEW u \in Users, NEW c \in Channels, ArriveLeave(r, u, c)
      PROVE  /\ req'[r].user = u /\ req'[r].row = "none" /\ req'[r].counted = 0
             /\ req'[r].op = "leave" /\ req'[r].at = "delete" /\ req'[r].channel = c
             /\ req[r].at = "idle"
             /\ UNCHANGED <<kind, creator, members, memberCount, heard>>
  BY <1>3 DEF ArriveLeave, Put, Idle
<1>4. QED
  BY <1>1, <1>2, <1>3 DEF Arrive

\* What a statement does to its request: op, user and kind never change.
LEMMA StepShape ==
  ASSUME req \in [Requests -> Request], NEW r \in Requests, Step(r)
  PROVE  /\ req'[r].op = req[r].op /\ req'[r].user = req[r].user
         /\ req'[r].kind = req[r].kind
         /\ SaveChannel(r) \/ req'[r].channel = req[r].channel
         /\ req'[r].at = "insert" => SaveChannel(r) \/ FindChannel(r)
         /\ SaveChannel(r) \/ UNCHANGED <<kind, creator>>
<1> USE DEF Put, Goto, Request
<1>1. CASE SaveChannel(r)
  <2>1. PICK c : req' = [req EXCEPT ![r] = [req[r] EXCEPT !.channel = c, !.at = "insert"]]
    BY <1>1 DEF SaveChannel
  <2>2. QED
    BY <1>1, <2>1
<1>2. CASE FindChannel(r)
  <2>1. PICK s : req' = [req EXCEPT ![r] = [req[r] EXCEPT !.at = s]]
    BY <1>2 DEF FindChannel
  <2>2. QED
    BY <1>2, <2>1 DEF FindChannel
<1>3. CASE InsertMember(r)
  <2>1. \/ req' = [req EXCEPT ![r] = [req[r] EXCEPT !.at = "failed"]]
        \/ req' = [req EXCEPT ![r] = [req[r] EXCEPT !.row = "inserted", !.at = "increment"]]
    BY <1>3 DEF InsertMember
  <2>2. UNCHANGED <<kind, creator>>
    BY <1>3 DEF InsertMember
  <2>3. CASE req' = [req EXCEPT ![r] = [req[r] EXCEPT !.at = "failed"]]
    BY <2>2, <2>3
  <2>4. CASE req' = [req EXCEPT ![r] = [req[r] EXCEPT !.row = "inserted", !.at = "increment"]]
    BY <2>2, <2>4
  <2>5. QED
    BY <2>1, <2>3, <2>4
<1>4. CASE IncrementMemberCount(r)
  <2>1. PICK s \in {"done", "emit"} :
           req' = [req EXCEPT ![r] = [req[r] EXCEPT !.counted = 1, !.at = s]]
    BY <1>4 DEF IncrementMemberCount
  <2>2. QED
    BY <1>4, <2>1 DEF IncrementMemberCount
<1>5. CASE DeleteMember(r)
  <2>1. PICK x : req' = [req EXCEPT ![r] = [req[r] EXCEPT !.row = x, !.at = "decrement"]]
    BY <1>5 DEF DeleteMember
  <2>2. QED
    BY <1>5, <2>1 DEF DeleteMember
<1>6. CASE DecrementMemberCount(r)
  BY <1>6 DEF DecrementMemberCount
<1>7. CASE EmitMemberEvent(r)
  BY <1>7 DEF EmitMemberEvent
<1>8. CASE DbError(r)
  BY <1>8 DEF DbError
<1>9. QED
  BY <1>1, <1>2, <1>3, <1>4, <1>5, <1>6, <1>7, <1>8 DEF Step

LEMMA StageStep ==
  ASSUME IInv, NEW r \in Requests, Arrive(r) \/ Step(r)
  PROVE  StageOK(r)'
<1> USE ChannelsAssumption DEF Put, Goto, Active, DbStages
<1>0. /\ req \in [Requests -> Request] /\ req[r] \in Request
      /\ StageOK(r)
  BY DEF IInv, TypeOK
<1>1. CASE Arrive(r)
  BY <1>0, <1>1, ArriveShape DEF StageOK
<1>2. CASE SaveChannel(r)
  BY <1>0, <1>2 DEF SaveChannel, StageOK, Request
<1>3. CASE FindChannel(r)
  <2>1. PICK s \in {"rejected", "insert"} : req' = [req EXCEPT ![r] = [req[r] EXCEPT !.at = s]]
    BY <1>3 DEF FindChannel
  <2>2. req[r].at = "find"
    BY <1>3 DEF FindChannel
  <2>3. QED
    BY <1>0, <2>1, <2>2 DEF StageOK, Request
<1>4. CASE InsertMember(r)
  <2>1. \/ req' = [req EXCEPT ![r] = [req[r] EXCEPT !.at = "failed"]]
        \/ req' = [req EXCEPT ![r] = [req[r] EXCEPT !.row = "inserted", !.at = "increment"]]
    BY <1>4 DEF InsertMember
  <2>2. req[r].at = "insert"
    BY <1>4 DEF InsertMember
  <2>3. CASE req' = [req EXCEPT ![r] = [req[r] EXCEPT !.at = "failed"]]
    <3>1. req'[r] = [req[r] EXCEPT !.at = "failed"]
      BY <1>0, <2>3
    <3>2. QED
      BY <1>0, <2>2, <3>1 DEF StageOK, Request
  <2>4. CASE req' = [req EXCEPT ![r] = [req[r] EXCEPT !.row = "inserted", !.at = "increment"]]
    <3>1. req'[r] = [req[r] EXCEPT !.row = "inserted", !.at = "increment"]
      BY <1>0, <2>4
    <3>2. QED
      BY <1>0, <2>2, <3>1 DEF StageOK, Request
  <2>5. QED
    BY <2>1, <2>3, <2>4
<1>5. CASE IncrementMemberCount(r)
  BY <1>0, <1>5 DEF IncrementMemberCount, StageOK, Request
<1>6. CASE DeleteMember(r)
  <2>1. PICK x \in {"deleted", "noop"} :
           req' = [req EXCEPT ![r] = [req[r] EXCEPT !.row = x, !.at = "decrement"]]
    BY <1>6 DEF DeleteMember
  <2>2. req[r].at = "delete"
    BY <1>6 DEF DeleteMember
  <2>3. QED
    BY <1>0, <2>1, <2>2 DEF StageOK, Request
<1>7. CASE DecrementMemberCount(r)
  BY <1>0, <1>7 DEF DecrementMemberCount, StageOK, Request
<1>8. CASE EmitMemberEvent(r)
  BY <1>0, <1>8 DEF EmitMemberEvent, StageOK, Request
<1>9. CASE DbError(r)
  BY <1>0, <1>9 DEF DbError, StageOK, Request
<1>10. QED
  BY <1>1, <1>2, <1>3, <1>4, <1>5, <1>6, <1>7, <1>8, <1>9 DEF Step

\* A channel's row, once saved, is not written by any handler.
LEMMA ChannelRowsStay ==
  ASSUME IInv, NEW r \in Requests, Arrive(r) \/ Step(r),
         NEW c \in Channels, kind[c] # "absent"
  PROVE  kind'[c] = kind[c] /\ creator'[c] = creator[c]
  BY DEF IInv, TypeOK, Arrive, ArriveCreate, ArriveJoin, ArriveLeave, Step, SaveChannel,
         FindChannel, InsertMember, IncrementMemberCount, DeleteMember,
         DecrementMemberCount, EmitMemberEvent, DbError

LEMMA InsertStep ==
  ASSUME IInv, NEW r \in Requests, Arrive(r) \/ Step(r), NEW q \in Requests
  PROVE  InsertOK(q)'
<1>0. /\ req \in [Requests -> Request] /\ req[r] \in Request /\ req[q] \in Request
      /\ StageOK(r) /\ StageOK(q) /\ InsertOK(q)
  BY DEF IInv, TypeOK
<1>1. CASE q # r
  <2>1. req'[q] = req[q]
    BY <1>1, OneRequestMoves DEF IInv
  <2>2. req[q].at = "insert" => /\ req[q].channel \in Channels
                               /\ kind[req[q].channel] # "absent"
    BY <1>0 DEF StageOK, InsertOK
  <2>3. QED
    BY <1>0, <2>1, <2>2, ChannelRowsStay DEF InsertOK
<1>2. CASE q = r
  <2>1. ASSUME req'[r].at = "insert"
        PROVE  SaveChannel(r) \/ FindChannel(r)
    BY <1>0, <2>1, ArriveShape, StepShape
  <2>2. CASE SaveChannel(r)
    <3>1. PICK c \in Channels :
           /\ kind' = [kind EXCEPT ![c] = req[r].kind]
           /\ creator' = [creator EXCEPT ![c] = req[r].user]
           /\ req' = [req EXCEPT ![r] = [req[r] EXCEPT !.channel = c, !.at = "insert"]]
      BY <2>2 DEF SaveChannel, Put
    <3>2. req[r].op = "create" /\ req[r].kind \in Kinds
      BY <1>0, <2>2 DEF SaveChannel, StageOK
    <3>3. /\ req'[r].channel = c /\ req'[r].op = "create" /\ req'[r].user = req[r].user
          /\ kind'[c] = req[r].kind /\ creator'[c] = req[r].user
      BY <1>0, <3>1, <3>2 DEF IInv, TypeOK, Request
    <3>4. QED
      BY <1>2, <3>2, <3>3, ChannelsAssumption DEF InsertOK
  <2>3. CASE FindChannel(r)
    <3>1. PICK s : /\ req' = [req EXCEPT ![r] = [req[r] EXCEPT !.at = s]]
                   /\ s = IF kind[req[r].channel] \in {"absent", "private"}
                          THEN "rejected" ELSE "insert"
      BY <2>3 DEF FindChannel, Goto, Put
    <3>2. req[r].op = "join" /\ kind' = kind /\ creator' = creator
      BY <1>0, <2>3 DEF FindChannel, StageOK
    <3>3. req'[r] = [req[r] EXCEPT !.at = s]
      BY <1>0, <3>1
    <3>4. QED
      BY <1>0, <1>2, <3>1, <3>2, <3>3 DEF InsertOK, Request
  <2>4. QED
    BY <1>2, <2>1, <2>2, <2>3 DEF InsertOK
<1>3. QED
  BY <1>1, <1>2

LEMMA CreatedStep ==
  ASSUME IInv, NEW r \in Requests, Arrive(r) \/ Step(r), NEW q \in Requests
  PROVE  CreatedOK(q)'
<1>0. /\ req \in [Requests -> Request]
      /\ \A p \in Requests : req[p] \in Request /\ StageOK(p) /\ CreatedOK(p)
  BY DEF IInv, TypeOK
<1>1. CASE SaveChannel(r)
  <2>1. PICK c \in Channels :
           /\ kind[c] = "absent"
           /\ kind' = [kind EXCEPT ![c] = req[r].kind]
           /\ req' = [req EXCEPT ![r] = [req[r] EXCEPT !.channel = c, !.at = "insert"]]
    BY <1>1 DEF SaveChannel, Put
  <2>2. req[r].kind \in Kinds /\ req[r].op = "create" /\ req[r].channel = Nowhere
    BY <1>0, <1>1 DEF SaveChannel, StageOK
  <2>3. \A p \in Requests : req[p].op = "create" => req[p].channel # c
    BY <1>0, <2>1 DEF CreatedOK
  <2>4. /\ req'[r].op = "create" /\ req'[r].channel = c
        /\ \A p \in Requests \ {r} : req'[p] = req[p]
    BY <1>0, <2>1, <2>2 DEF Request
  <2>5. kind'[c] # "absent" /\ \A d \in Channels \ {c} : kind'[d] = kind[d]
    BY <2>1, <2>2, ChannelsAssumption DEF IInv, TypeOK
  <2>6. QED
    BY <1>0, <2>3, <2>4, <2>5, ChannelsAssumption DEF CreatedOK
<1>2. CASE ~SaveChannel(r)
  <2>1. kind' = kind
    BY <1>0, <1>2, ArriveShape, StepShape
  <2>2. \/ req'[r].op = req[r].op /\ req'[r].channel = req[r].channel
        \/ req'[r].op = "create" /\ req'[r].channel = Nowhere
        \/ req'[r].op \in {"join", "leave"}
    BY <1>0, <1>2, ArriveShape, StepShape
  <2>3. \A p \in Requests \ {r} : req'[p] = req[p]
    BY OneRequestMoves DEF IInv
  <2>4. QED
    BY <1>0, <2>1, <2>2, <2>3, ChannelsAssumption DEF CreatedOK
<1>3. QED
  BY <1>1, <1>2

LEMMA IInvStep ==
  ASSUME IInv, [Next]_vars
  PROVE  IInv'
<1>1. CASE UNCHANGED vars
  BY <1>1, TypeStep DEF IInv, vars, StageOK, InsertOK, CreatedOK
<1>2. ASSUME NEW r \in Requests, Arrive(r) \/ Step(r)
      PROVE  \A q \in Requests : StageOK(q)'
  <2>1. ASSUME NEW q \in Requests, q # r
        PROVE  StageOK(q)'
    BY <1>2, <2>1, OneRequestMoves DEF IInv, StageOK
  <2>2. QED
    BY <1>2, <2>1, StageStep
<1>3. CASE \E r \in Requests : Arrive(r) \/ Step(r)
  BY <1>2, <1>3, TypeStep, InsertStep, CreatedStep DEF IInv
<1>4. QED
  BY <1>1, <1>3, NextCases

LEMMA Inductive == Spec => []IInv
<1>1. Init => IInv
  BY InitIInv
<1>2. IInv /\ [Next]_vars => IInv'
  BY IInvStep
<1>3. QED
  BY <1>1, <1>2, PTL DEF Spec

(* Every state the handlers can reach is well typed: no interleaving and   *)
(* no failing statement leaves a channel row without its creator, a member *)
(* that is no user or a request at a location its handler does not have.   *)
THEOREM TypeCorrect == Spec => []TypeOK
<1>1. IInv => TypeOK
  BY DEF IInv
<1>2. QED
  BY <1>1, Inductive, PTL
-----------------------------------------------------------------------------
(* Who can be in a private channel.                                         *)

\* Rows are added by InsertMember alone.
LEMMA MembersShape ==
  ASSUME IInv, [Next]_vars
  PROVE  \/ /\ \A c \in Channels : members'[c] \subseteq members[c]
         \/ \E r \in Requests : InsertMember(r)
<1>1. ASSUME NEW r \in Requests, Arrive(r)
      PROVE  members' = members
  BY <1>1, ArriveShape DEF IInv, TypeOK
<1>2. ASSUME NEW r \in Requests, DeleteMember(r)
      PROVE  \A c \in Channels : members'[c] \subseteq members[c]
  BY <1>2 DEF DeleteMember, IInv, TypeOK
<1>3. ASSUME NEW r \in Requests, Step(r), ~DeleteMember(r), ~InsertMember(r)
      PROVE  members' = members
  BY <1>3 DEF Step, SaveChannel, FindChannel, IncrementMemberCount,
     DecrementMemberCount, EmitMemberEvent, DbError
<1>4. ASSUME UNCHANGED vars
      PROVE  members' = members
  BY <1>4 DEF vars
<1>5. QED
  BY <1>1, <1>2, <1>3, <1>4, NextCases

\* The columns of a channel that exists stay as they are.
LEMMA ColumnsStay ==
  ASSUME IInv, [Next]_vars, NEW c \in Channels, kind[c] # "absent"
  PROVE  kind'[c] = kind[c] /\ creator'[c] = creator[c]
<1>1. ASSUME NEW r \in Requests, SaveChannel(r)
      PROVE  kind'[c] = kind[c] /\ creator'[c] = creator[c]
  BY <1>1 DEF SaveChannel, IInv, TypeOK
<1>2. ASSUME NEW r \in Requests, Arrive(r)
      PROVE  kind' = kind /\ creator' = creator
  BY <1>2, ArriveShape DEF IInv, TypeOK
<1>3. ASSUME NEW r \in Requests, Step(r), ~SaveChannel(r)
      PROVE  kind' = kind /\ creator' = creator
  BY <1>3 DEF Step, FindChannel, InsertMember, IncrementMemberCount, DeleteMember,
     DecrementMemberCount, EmitMemberEvent, DbError
<1>4. ASSUME UNCHANGED vars
      PROVE  kind' = kind /\ creator' = creator
  BY <1>4 DEF vars
<1>5. QED
  BY <1>1, <1>2, <1>3, <1>4, NextCases

\* A channel that does not exist has no members.
RowsOK == \A c \in Channels : kind[c] = "absent" => members[c] = {}

LEMMA PrivateStep ==
  ASSUME IInv, RowsOK, PrivateOnlyCreator, [Next]_vars
  PROVE  RowsOK' /\ PrivateOnlyCreator'
<1>0. TypeOK /\ TypeOK'
  BY TypeStep DEF IInv
<1>1. ASSUME NEW r \in Requests, InsertMember(r), NEW c \in Channels
      PROVE  /\ kind'[c] = kind[c] /\ creator'[c] = creator[c]
             /\ members'[c] # members[c] =>
                   /\ kind[c] # "absent"
                   /\ members'[c] = members[c] \union {req[r].user}
                   /\ kind[c] = "private" => req[r].user = creator[c]
  <2>1. kind' = kind /\ creator' = creator
    BY <1>1 DEF InsertMember
  <2>2. /\ req[r].at = "insert"
        /\ \/ members' = members
           \/ members' = [members EXCEPT ![req[r].channel] = @ \union {req[r].user}]
    BY <1>1 DEF InsertMember
  <2>3. InsertOK(r)
    BY DEF IInv
  <2>4. QED
    BY <1>0, <2>1, <2>2, <2>3 DEF InsertOK, TypeOK
<1>2. ASSUME NEW c \in Channels, members'[c] \subseteq members[c]
      PROVE  /\ kind'[c] = "absent" => members'[c] = {}
             /\ kind'[c] = "private" => members'[c] \subseteq {creator'[c]}
  <2>1. CASE kind[c] = "absent"
    BY <1>2, <2>1 DEF RowsOK
  <2>2. CASE kind[c] # "absent"
    BY <1>2, <2>2, ColumnsStay DEF PrivateOnlyCreator
  <2>3. QED
    BY <2>1, <2>2
<1>3. ASSUME NEW c \in Channels
      PROVE  /\ kind'[c] = "absent" => members'[c] = {}
             /\ kind'[c] = "private" => members'[c] \subseteq {creator'[c]}
  <2>1. CASE \E r \in Requests : InsertMember(r)
    BY <1>1, <1>2, <2>1 DEF PrivateOnlyCreator
  <2>2. CASE ~\E r \in Requests : InsertMember(r)
    BY <1>2, <2>2, MembersShape
  <2>3. QED
    BY <2>1, <2>2
<1>4. QED
  BY <1>3 DEF RowsOK, PrivateOnlyCreator

(* joinChannel looks at the type of the channel and then awaits; still, in *)
(* every reachable state a private channel has no member but its creator.  *)
THEOREM PrivateSafe == Spec => []PrivateOnlyCreator
<1>1. Init => RowsOK /\ PrivateOnlyCreator
  BY DEF Init, RowsOK, PrivateOnlyCreator
<1>2. IInv /\ (RowsOK /\ PrivateOnlyCreator) /\ [Next]_vars
        => (RowsOK /\ PrivateOnlyCreator)'
  BY PrivateStep
<1>3. QED
  BY <1>1, <1>2, Inductive, PTL DEF Spec

(* No step of the handlers puts anybody into a private channel that is     *)
(* empty and not waiting for its creator.                                  *)
THEOREM AbandonedSafe == Spec => AbandonedStaysEmpty
<1>1. IInv /\ [Next]_vars
        => [\A c \in Channels : Abandoned(c) => members'[c] = {}]_vars
  <2> SUFFICES ASSUME IInv, [Next]_vars, NEW c \in Channels, Abandoned(c)
               PROVE  members'[c] = {}
    OBVIOUS
  <2>1. ASSUME NEW r \in Requests, InsertMember(r)
        PROVE  members'[c] = members[c]
    <3>1. /\ req[r].at = "insert"
          /\ \/ members' = members
             \/ members' = [members EXCEPT ![req[r].channel] = @ \union {req[r].user}]
      BY <2>1 DEF InsertMember
    <3>2. req[r].channel # c
      BY <3>1 DEF IInv, InsertOK, Abandoned, awaiting, Waits
    <3>3. QED
      BY <3>1, <3>2 DEF IInv, TypeOK
  <2>2. QED
    BY <2>1, MembersShape DEF Abandoned
<1>2. QED
  BY <1>1, Inductive, PTL DEF Spec, AbandonedStaysEmpty
-----------------------------------------------------------------------------
(* The ledger: a step moves one request in or out of the sets it counts.    *)

LEMMA RowsFinite ==
  ASSUME NEW c, NEW x, NEW b
  PROVE  IsFiniteSet(Rows(c, x, b)) /\ Cardinality(Rows(c, x, b)) \in Nat
<1>1. Rows(c, x, b) \subseteq Requests
  BY DEF Rows
<1>2. QED
  BY <1>1, ChannelsAssumption, FS_Subset, FS_CardinalityType

LEMMA RowsKeep ==
  ASSUME NEW r \in Requests, \A q \in Requests \ {r} : req'[q] = req[q],
         NEW c, NEW x, NEW b, r \in Rows(c, x, b) <=> r \in Rows(c, x, b)'
  PROVE  Rows(c, x, b)' = Rows(c, x, b)
  BY DEF Rows

LEMMA RowsGain ==
  ASSUME NEW r \in Requests, \A q \in Requests \ {r} : req'[q] = req[q],
         NEW c, NEW x, NEW b, r \notin Rows(c, x, b), r \in Rows(c, x, b)'
  PROVE  Cardinality(Rows(c, x, b)') = Cardinality(Rows(c, x, b)) + 1
<1>1. Rows(c, x, b)' = Rows(c, x, b) \union {r}
  BY DEF Rows
<1>2. QED
  BY <1>1, RowsFinite, FS_AddElement

LEMMA RowsLose ==
  ASSUME NEW r \in Requests, \A q \in Requests \ {r} : req'[q] = req[q],
         NEW c, NEW x, NEW b, r \in Rows(c, x, b), r \notin Rows(c, x, b)'
  PROVE  Cardinality(Rows(c, x, b)') = Cardinality(Rows(c, x, b)) - 1
<1>1. Rows(c, x, b)' = Rows(c, x, b) \ {r}
  BY DEF Rows
<1>2. QED
  BY <1>1, RowsFinite, FS_RemoveElement

\* A request that keeps its row and counted fields, or has no row, keeps the ledger.
LEMMA LedgerKept ==
  ASSUME NEW r \in Requests, \A q \in Requests \ {r} : req'[q] = req[q],
         \/ /\ req'[r].channel = req[r].channel /\ req'[r].row = req[r].row
            /\ req'[r].counted = req[r].counted
         \/ req[r].row = "none" /\ req'[r].row = "none",
         NEW c, NEW x \in {"inserted", "deleted", "noop"}, NEW b
  PROVE  Rows(c, x, b)' = Rows(c, x, b)
<1>1. r \in Rows(c, x, b) <=> r \in Rows(c, x, b)'
  BY DEF Rows
<1>2. QED
  BY <1>1, RowsKeep

\* CountLedger for one channel, over the quantities it adds up.
Balance(c) ==
    memberCount[c] = Cardinality(members[c]) - Cardinality(Rows(c, "inserted", 0))
                     + Cardinality(Rows(c, "deleted", 0))
                     - Cardinality(Rows(c, "noop", 1))

LEMMA LedgerTypes ==
  ASSUME TypeOK, NEW c \in Channels
  PROVE  /\ memberCount[c] \in Int
         /\ IsFiniteSet(members[c]) /\ Cardinality(members[c]) \in Nat
         /\ \A x : \A b : Cardinality(Rows(c, x, b)) \in Nat
<1>1. members[c] \subseteq Users
  BY DEF TypeOK
<1>2. QED
  BY <1>1, ChannelsAssumption, FS_Subset, FS_CardinalityType, RowsFinite DEF TypeOK

LEMMA InsertKeepsBalance ==
  ASSUME IInv, IInv', NEW r \in Requests, InsertMember(r),
         \A q \in Requests \ {r} : req'[q] = req[q],
         NEW c \in Channels, Balance(c)
  PROVE  Balance(c)'
<1> DEFINE d == req[r].channel
           u == req[r].user
<1>0. /\ req \in [Requests -> Request] /\ members \in [Channels -> SUBSET Users]
      /\ d \in Channels /\ u \in Users /\ req[r].at = "insert"
      /\ req[r].row = "none" /\ req[r].counted = 0 /\ memberCount' = memberCount
  BY DEF IInv, TypeOK, StageOK, InsertMember, Request
<1>1. CASE u \in members[d]
  <2>1. members' = members /\ req' = [req EXCEPT ![r] = [req[r] EXCEPT !.at = "failed"]]
    BY <1>1 DEF InsertMember, Goto, Put
  <2>2. req'[r].row = "none"
    BY <1>0, <2>1 DEF Request
  <2>3. \A x \in {"inserted", "deleted", "noop"} : \A b : Rows(c, x, b)' = Rows(c, x, b)
    BY <1>0, <2>2, LedgerKept
  <2>4. QED
    BY <1>0, <2>1, <2>3 DEF Balance
<1>2. CASE u \notin members[d]
  <2>1. /\ members' = [members EXCEPT ![d] = @ \union {u}]
        /\ req' = [req EXCEPT ![r] = [req[r] EXCEPT !.row = "inserted", !.at = "increment"]]
    BY <1>2 DEF InsertMember, Put
  <2>2. req'[r].row = "inserted" /\ req'[r].counted = 0 /\ req'[r].channel = d
    BY <1>0, <2>1 DEF Request
  <2>3. /\ Rows(c, "deleted", 0)' = Rows(c, "deleted", 0)
        /\ Rows(c, "noop", 1)' = Rows(c, "noop", 1)
    <3>1. /\ r \in Rows(c, "deleted", 0) <=> r \in Rows(c, "deleted", 0)'
          /\ r \in Rows(c, "noop", 1) <=> r \in Rows(c, "noop", 1)'
      BY <1>0, <2>2 DEF Rows
    <3>2. QED
      BY <3>1, RowsKeep
  <2>4. CASE c = d
    <3>1. Cardinality(members[c] \union {u}) = Cardinality(members[c]) + 1
      BY <1>0, <1>2, <2>4, LedgerTypes, FS_AddElement DEF IInv
    <3>2. Cardinality(members'[c]) = Cardinality(members[c]) + 1
      BY <1>0, <2>1, <2>4, <3>1
    <3>3. Cardinality(Rows(c, "inserted", 0)') = Cardinality(Rows(c, "inserted", 0)) + 1
      <4>1. r \notin Rows(c, "inserted", 0) /\ r \in Rows(c, "inserted", 0)'
        BY <1>0, <2>2, <2>4 DEF Rows
      <4>2. QED
        BY <4>1, RowsGain
    <3>4. QED
      BY <1>0, <2>3, <3>2, <3>3, LedgerTypes DEF Balance, IInv
  <2>5. CASE c # d
    <3>1. members'[c] = members[c]
      BY <1>0, <2>1, <2>5
    <3>2. Rows(c, "inserted", 0)' = Rows(c, "inserted", 0)
      <4>1. r \in Rows(c, "inserted", 0) <=> r \in Rows(c, "inserted", 0)'
        BY <1>0, <2>2, <2>5 DEF Rows
      <4>2. QED
        BY <4>1, RowsKeep
    <3>3. QED
      BY <1>0, <2>3, <3>1, <3>2 DEF Balance
  <2>6. QED
    BY <2>4, <2>5
<1>3. QED
  BY <1>1, <1>2

LEMMA IncrementKeepsBalance ==
  ASSUME IInv, IInv', NEW r \in Requests, IncrementMemberCount(r),
         \A q \in Requests \ {r} : req'[q] = req[q],
         NEW c \in Channels, Balance(c)
  PROVE  Balance(c)'
<1> DEFINE d == req[r].channel
<1>0. /\ req \in [Requests -> Request] /\ memberCount \in [Channels -> Int]
      /\ d \in Channels /\ req[r].row = "inserted" /\ req[r].counted = 0
      /\ members' = members /\ memberCount' = [memberCount EXCEPT ![d] = @ + 1]
  BY DEF IInv, TypeOK, StageOK, IncrementMemberCount, Request
<1>1. PICK s : req' = [req EXCEPT ![r] = [req[r] EXCEPT !.counted = 1, !.at = s]]
  BY DEF IncrementMemberCount, Put
<1>2. req'[r].row = "inserted" /\ req'[r].counted = 1 /\ req'[r].channel = d
  BY <1>0, <1>1 DEF Request
<1>3. /\ Rows(c, "deleted", 0)' = Rows(c, "deleted", 0)
      /\ Rows(c, "noop", 1)' = Rows(c, "noop", 1)
  <2>1. /\ r \in Rows(c, "deleted", 0) <=> r \in Rows(c, "deleted", 0)'
        /\ r \in Rows(c, "noop", 1) <=> r \in Rows(c, "noop", 1)'
    BY <1>0, <1>2 DEF Rows
  <2>2. QED
    BY <2>1, RowsKeep
<1>4. CASE c = d
  <2>1. Cardinality(Rows(c, "inserted", 0)') = Cardinality(Rows(c, "inserted", 0)) - 1
    <3>1. r \in Rows(c, "inserted", 0) /\ r \notin Rows(c, "inserted", 0)'
      BY <1>0, <1>2, <1>4 DEF Rows
    <3>2. QED
      BY <3>1, RowsLose
  <2>2. memberCount'[c] = memberCount[c] + 1
    BY <1>0, <1>4
  <2>3. QED
    BY <1>0, <1>3, <2>1, <2>2, LedgerTypes DEF Balance, IInv
<1>5. CASE c # d
  <2>1. memberCount'[c] = memberCount[c]
    BY <1>0, <1>5
  <2>2. Rows(c, "inserted", 0)' = Rows(c, "inserted", 0)
    <3>1. r \in Rows(c, "inserted", 0) <=> r \in Rows(c, "inserted", 0)'
      BY <1>0, <1>2, <1>5 DEF Rows
    <3>2. QED
      BY <3>1, RowsKeep
  <2>3. QED
    BY <1>0, <1>3, <2>1, <2>2 DEF Balance
<1>6. QED
  BY <1>4, <1>5

LEMMA DeleteKeepsBalance ==
  ASSUME IInv, IInv', NEW r \in Requests, DeleteMember(r),
         \A q \in Requests \ {r} : req'[q] = req[q],
         NEW c \in Channels, Balance(c)
  PROVE  Balance(c)'
<1> DEFINE d == req[r].channel
           u == req[r].user
           x == IF u \in members[d] THEN "deleted" ELSE "noop"
<1>0. /\ req \in [Requests -> Request] /\ members \in [Channels -> SUBSET Users]
      /\ d \in Channels /\ req[r].row = "none" /\ req[r].counted = 0
      /\ memberCount' = memberCount /\ members' = [members EXCEPT ![d] = @ \ {u}]
  BY DEF IInv, TypeOK, StageOK, DeleteMember
<1>1. req' = [req EXCEPT ![r] = [req[r] EXCEPT !.row = x, !.at = "decrement"]]
  BY DEF DeleteMember, Put
<1> HIDE DEF x
<1>2. req'[r].row = x /\ req'[r].counted = 0 /\ req'[r].channel = d
  BY <1>0, <1>1 DEF Request
<1>x. x = IF u \in members[d] THEN "deleted" ELSE "noop"
  BY DEF x
<1>3. /\ Rows(c, "inserted", 0)' = Rows(c, "inserted", 0)
      /\ Rows(c, "noop", 1)' = Rows(c, "noop", 1)
  <2>1. /\ r \in Rows(c, "inserted", 0) <=> r \in Rows(c, "inserted", 0)'
        /\ r \in Rows(c, "noop", 1) <=> r \in Rows(c, "noop", 1)'
    BY <1>0, <1>2, <1>x DEF Rows
  <2>2. QED
    BY <2>1, RowsKeep
<1>4. CASE c = d /\ u \in members[d]
  <2>1. Cardinality(Rows(c, "deleted", 0)') = Cardinality(Rows(c, "deleted", 0)) + 1
    <3>1. r \notin Rows(c, "deleted", 0) /\ r \in Rows(c, "deleted", 0)'
      BY <1>0, <1>2, <1>4, <1>x DEF Rows
    <3>2. QED
      BY <3>1, RowsGain
  <2>2. Cardinality(members[c] \ {u}) = Cardinality(members[c]) - 1
    BY <1>4, LedgerTypes, FS_RemoveElement DEF IInv
  <2>3. Cardinality(members'[c]) = Cardinality(members[c]) - 1
    BY <1>0, <1>4, <2>2
  <2>4. QED
    BY <1>0, <1>3, <2>1, <2>3, LedgerTypes DEF Balance, IInv
<1>5. CASE c # d \/ u \notin members[d]
  <2>1. members'[c] = members[c]
    BY <1>0, <1>5
  <2>2. Rows(c, "deleted", 0)' = Rows(c, "deleted", 0)
    <3>1. r \in Rows(c, "deleted", 0) <=> r \in Rows(c, "deleted", 0)'
      BY <1>0, <1>2, <1>5, <1>x DEF Rows
    <3>2. QED
      BY <3>1, RowsKeep
  <2>3. QED
    BY <1>0, <1>3, <2>1, <2>2 DEF Balance
<1>6. QED
  BY <1>4, <1>5

LEMMA DecrementKeepsBalance ==
  ASSUME IInv, IInv', NEW r \in Requests, DecrementMemberCount(r),
         \A q \in Requests \ {r} : req'[q] = req[q],
         NEW c \in Channels, Balance(c)
  PROVE  Balance(c)'
<1> DEFINE d == req[r].channel
<1>0. /\ req \in [Requests -> Request] /\ memberCount \in [Channels -> Int]
      /\ d \in Channels /\ req[r].row \in {"deleted", "noop"} /\ req[r].counted = 0
      /\ members' = members /\ memberCount' = [memberCount EXCEPT ![d] = @ - 1]
  BY DEF IInv, TypeOK, StageOK, DecrementMemberCount
<1>1. req' = [req EXCEPT ![r] = [req[r] EXCEPT !.counted = 1, !.at = "emit"]]
  BY DEF DecrementMemberCount, Put
<1>2. req'[r].row = req[r].row /\ req'[r].counted = 1 /\ req'[r].channel = d
  BY <1>0, <1>1 DEF Request
<1>3. Rows(c, "inserted", 0)' = Rows(c, "inserted", 0)
  <2>1. r \in Rows(c, "inserted", 0) <=> r \in Rows(c, "inserted", 0)'
    BY <1>0, <1>2 DEF Rows
  <2>2. QED
    BY <2>1, RowsKeep
<1>4. CASE c = d
  <2>1. memberCount'[c] = memberCount[c] - 1
    BY <1>0, <1>4
  <2>2. CASE req[r].row = "deleted"
    <3>1. /\ r \in Rows(c, "deleted", 0) /\ r \notin Rows(c, "deleted", 0)'
          /\ r \in Rows(c, "noop", 1) <=> r \in Rows(c, "noop", 1)'
      BY <1>0, <1>2, <1>4, <2>2 DEF Rows
    <3>2. Cardinality(Rows(c, "deleted", 0)') = Cardinality(Rows(c, "deleted", 0)) - 1
      BY <3>1, RowsLose
    <3>3. Rows(c, "noop", 1)' = Rows(c, "noop", 1)
      BY <3>1, RowsKeep
    <3>4. QED
      BY <1>0, <1>3, <2>1, <3>2, <3>3, LedgerTypes DEF Balance, IInv
  <2>3. CASE req[r].row = "noop"
    <3>1. /\ r \in Rows(c, "deleted", 0) <=> r \in Rows(c, "deleted", 0)'
          /\ r \notin Rows(c, "noop", 1) /\ r \in Rows(c, "noop", 1)'
      BY <1>0, <1>2, <1>4, <2>3 DEF Rows
    <3>2. Cardinality(Rows(c, "noop", 1)') = Cardinality(Rows(c, "noop", 1)) + 1
      BY <3>1, RowsGain
    <3>3. Rows(c, "deleted", 0)' = Rows(c, "deleted", 0)
      BY <3>1, RowsKeep
    <3>4. QED
      BY <1>0, <1>3, <2>1, <3>2, <3>3, LedgerTypes DEF Balance, IInv
  <2>4. QED
    BY <1>0, <2>2, <2>3
<1>5. CASE c # d
  <2>1. memberCount'[c] = memberCount[c]
    BY <1>0, <1>5
  <2>2. /\ r \in Rows(c, "deleted", 0) <=> r \in Rows(c, "deleted", 0)'
        /\ r \in Rows(c, "noop", 1) <=> r \in Rows(c, "noop", 1)'
    BY <1>0, <1>2, <1>5 DEF Rows
  <2>3. /\ Rows(c, "deleted", 0)' = Rows(c, "deleted", 0)
        /\ Rows(c, "noop", 1)' = Rows(c, "noop", 1)
    BY <2>2, RowsKeep
  <2>4. QED
    BY <1>0, <1>3, <2>1, <2>3 DEF Balance
<1>6. QED
  BY <1>4, <1>5

\* The actions that touch neither table: their request keeps its place in the ledger.
LEMMA OthersKeepBalance ==
  ASSUME IInv, NEW r \in Requests,
         \/ Arrive(r) \/ SaveChannel(r) \/ FindChannel(r)
         \/ EmitMemberEvent(r) \/ DbError(r),
         \A q \in Requests \ {r} : req'[q] = req[q],
         NEW c \in Channels, Balance(c)
  PROVE  Balance(c)'
<1>0. /\ req \in [Requests -> Request] /\ req[r] \in Request /\ StageOK(r)
  BY DEF IInv, TypeOK
<1>1. members' = members /\ memberCount' = memberCount
  BY <1>0, ArriveShape DEF SaveChannel, FindChannel, EmitMemberEvent, DbError
<1>2. \/ /\ req'[r].channel = req[r].channel /\ req'[r].row = req[r].row
         /\ req'[r].counted = req[r].counted
      \/ req[r].row = "none" /\ req'[r].row = "none"
  <2>1. CASE Arrive(r)
    BY <1>0, <2>1, ArriveShape DEF StageOK
  <2>2. CASE SaveChannel(r)
    <3>1. PICK d : req' = [req EXCEPT ![r] = [req[r] EXCEPT !.channel = d, !.at = "insert"]]
      BY <2>2 DEF SaveChannel, Put
    <3>2. req[r].row = "none"
      BY <1>0, <2>2 DEF SaveChannel, StageOK
    <3>3. QED
      BY <1>0, <3>1, <3>2 DEF Request
  <2>3. CASE FindChannel(r) \/ EmitMemberEvent(r) \/ DbError(r)
    <3>1. PICK s : req' = [req EXCEPT ![r] = [req[r] EXCEPT !.at = s]]
      BY <2>3 DEF FindChannel, EmitMemberEvent, DbError, Goto, Put
    <3>2. QED
      BY <1>0, <3>1 DEF Request
  <2>4. QED
    BY <2>1, <2>2, <2>3
<1>3. \A x \in {"inserted", "deleted", "noop"} : \A b : Rows(c, x, b)' = Rows(c, x, b)
  BY <1>2, LedgerKept
<1>4. QED
  BY <1>1, <1>3 DEF Balance

(* CountLedger holds in every reachable state, for any number of users,    *)
(* channels and concurrent requests: member_count drifts from the rows     *)
(* only through a lost statement or a leave that removed nothing.          *)
THEOREM LedgerCorrect == Spec => []CountLedger
<1>1. CountLedger <=> \A c \in Channels : Balance(c)
  BY DEF CountLedger, Balance
<1>2. Init => CountLedger
  <2>1. ASSUME Init, NEW c \in Channels
        PROVE  Balance(c)
    <3>1. memberCount[c] = 0 /\ members[c] = {}
      BY <2>1 DEF Init
    <3>2. /\ Rows(c, "inserted", 0) = {} /\ Rows(c, "deleted", 0) = {}
          /\ Rows(c, "noop", 1) = {}
      BY <2>1 DEF Init, Idle, Rows
    <3>3. QED
      BY <3>1, <3>2, FS_EmptySet DEF Balance
  <2>2. QED
    BY <1>1, <2>1
<1>3. IInv /\ CountLedger /\ [Next]_vars => CountLedger'
  <2>1. ASSUME IInv, NEW c \in Channels, Balance(c), NEW r \in Requests, Arrive(r) \/ Step(r)
        PROVE  Balance(c)'
    <3>1. IInv' /\ \A q \in Requests \ {r} : req'[q] = req[q]
      BY <2>1, IInvStep, OneRequestMoves DEF IInv, Next
    <3>2. QED
      BY <2>1, <3>1, InsertKeepsBalance, IncrementKeepsBalance, DeleteKeepsBalance,
         DecrementKeepsBalance, OthersKeepBalance DEF Step
  <2>2. ASSUME NEW c \in Channels, Balance(c), UNCHANGED vars
        PROVE  Balance(c)'
    BY <2>2 DEF Balance, Rows, vars
  <2>3. QED
    BY <1>1, <2>1, <2>2, NextCases DEF CountLedger, Balance
<1>4. QED
  BY <1>2, <1>3, Inductive, PTL DEF Spec
-----------------------------------------------------------------------------
(* The refinement.  Only a createChannel about to insert makes its channel  *)
(* awaited, and by CreatedOK it is the only one for that channel.           *)

LEMMA AwaitingKept ==
  ASSUME IInv, NEW r \in Requests, Arrive(r) \/ Step(r),
         \A c \in Channels : Waits(r, c)' <=> Waits(r, c)
  PROVE  awaiting' = awaiting
<1>1. \A q \in Requests \ {r} : req'[q] = req[q]
  BY OneRequestMoves DEF IInv
<1>2. \A c \in Channels : (\E q \in Requests : Waits(q, c))' <=> \E q \in Requests : Waits(q, c)
  BY <1>1 DEF Waits
<1>3. QED
  BY <1>2, Zenon DEF awaiting

LEMMA AwaitingGains ==
  ASSUME IInv, NEW r \in Requests, Arrive(r) \/ Step(r), NEW d \in Channels,
         \A c \in Channels : Waits(r, c)' <=> c = d \/ Waits(r, c)
  PROVE  awaiting' = [awaiting EXCEPT ![d] = TRUE]
<1>1. \A q \in Requests \ {r} : req'[q] = req[q]
  BY OneRequestMoves DEF IInv
<1>2. \A c \in Channels : (\E q \in Requests : Waits(q, c))'
                           <=> c = d \/ \E q \in Requests : Waits(q, c)
  BY <1>1 DEF Waits
<1>3. QED
  BY <1>2 DEF awaiting

LEMMA AwaitingLoses ==
  ASSUME IInv, NEW r \in Requests, Arrive(r) \/ Step(r), NEW d \in Channels,
         Waits(r, d), \A c \in Channels : ~Waits(r, c)'
  PROVE  awaiting[d] /\ awaiting' = [awaiting EXCEPT ![d] = FALSE]
<1>1. \A q \in Requests \ {r} : req'[q] = req[q]
  BY OneRequestMoves DEF IInv
<1>2. \A q \in Requests : Waits(q, d) => q = r
  BY DEF IInv, CreatedOK, Waits
<1>3. \A c \in Channels : (\E q \in Requests : Waits(q, c))'
                           <=> c # d /\ \E q \in Requests : Waits(q, c)
  BY <1>1, <1>2 DEF Waits
<1>4. awaiting[d]
  BY DEF awaiting
<1>5. awaiting' = [awaiting EXCEPT ![d] = FALSE]
  BY <1>3 DEF awaiting
<1>6. QED
  BY <1>4, <1>5

LEMMA SaveSimulates ==
  ASSUME IInv, NEW r \in Requests, SaveChannel(r)
  PROVE  Promise!Next
<1>0. /\ req \in [Requests -> Request] /\ req[r] \in Request /\ StageOK(r)
      /\ Arrive(r) \/ Step(r)
  BY DEF IInv, TypeOK, Step
<1>1. PICK c \in Channels :
         /\ kind[c] = "absent"
         /\ kind' = [kind EXCEPT ![c] = req[r].kind]
         /\ creator' = [creator EXCEPT ![c] = req[r].user]
         /\ req' = [req EXCEPT ![r] = [req[r] EXCEPT !.channel = c, !.at = "insert"]]
         /\ members' = members
  BY DEF SaveChannel, Put
<1>2. /\ req[r].op = "create" /\ req[r].kind \in Kinds /\ req[r].user \in Users
      /\ req[r].at = "save"
  BY <1>0 DEF SaveChannel, StageOK
<1>3. req'[r] = [req[r] EXCEPT !.channel = c, !.at = "insert"]
  BY <1>0, <1>1
<1>4. \A d \in Channels : Waits(r, d)' <=> d = c \/ Waits(r, d)
  BY <1>0, <1>2, <1>3 DEF Waits, Request
<1>5. awaiting' = [awaiting EXCEPT ![c] = TRUE]
  BY <1>0, <1>4, AwaitingGains
<1>6. Promise!Create(c, req[r].user, req[r].kind)
  BY <1>1, <1>5 DEF Promise!Create, Promise!Exists
<1>7. QED
  BY <1>2, <1>6 DEF Promise!Next

LEMMA InsertSimulates ==
  ASSUME IInv, NEW r \in Requests, InsertMember(r)
  PROVE  Promise!Next \/ UNCHANGED <<kind, creator, members, awaiting>>
<1> DEFINE c == req[r].channel
           u == req[r].user
<1>0. /\ req \in [Requests -> Request] /\ req[r] \in Request
      /\ c \in Channels /\ u \in Users /\ req[r].at = "insert"
      /\ Arrive(r) \/ Step(r)
      /\ kind' = kind /\ creator' = creator
  BY DEF IInv, TypeOK, Step, StageOK, InsertMember
<1>1. PICK new : /\ req' = [req EXCEPT ![r] = new]
                 /\ new.at # "insert"
                 /\ \/ members' = [members EXCEPT ![c] = @ \union {u}]
                    \/ members' = members
  <2>1. CASE u \in members[c]
    <3>1. /\ req' = [req EXCEPT ![r] = [req[r] EXCEPT !.at = "failed"]]
          /\ members' = members
      BY <2>1 DEF InsertMember, Goto, Put
    <3>2. [req[r] EXCEPT !.at = "failed"].at # "insert"
      BY <1>0 DEF Request
    <3>3. QED
      BY <3>1, <3>2
  <2>2. CASE u \notin members[c]
    <3>1. /\ req' = [req EXCEPT ![r] = [req[r] EXCEPT !.row = "inserted", !.at = "increment"]]
          /\ members' = [members EXCEPT ![c] = @ \union {u}]
      BY <2>2 DEF InsertMember, Put
    <3>2. [req[r] EXCEPT !.row = "inserted", !.at = "increment"].at # "insert"
      BY <1>0 DEF Request
    <3>3. QED
      BY <3>1, <3>2
  <2>3. QED
    BY <2>1, <2>2
<1>2. \A d \in Channels : ~Waits(r, d)'
  BY <1>0, <1>1 DEF Waits
<1>3. CASE req[r].op = "create"
  <2>1. Waits(r, c) /\ creator[c] = u
    BY <1>0, <1>3 DEF Waits, IInv, InsertOK
  <2>2. awaiting[c] /\ awaiting' = [awaiting EXCEPT ![c] = FALSE]
    BY <1>0, <1>2, <2>1, AwaitingLoses
  <2>3. Promise!AddCreator(c) \/ Promise!LoseCreator(c)
    BY <1>0, <1>1, <2>1, <2>2 DEF Promise!AddCreator, Promise!LoseCreator
  <2>4. QED
    BY <1>0, <2>3 DEF Promise!Next
<1>4. CASE req[r].op # "create"
  <2>1. kind[c] # "absent" /\ kind[c] # "private"
    BY <1>0, <1>4 DEF IInv, InsertOK
  <2>2. awaiting' = awaiting
    BY <1>0, <1>2, <1>4, AwaitingKept DEF Waits
  <2>3. CASE members' = members
    BY <1>0, <2>2, <2>3
  <2>4. CASE members' = [members EXCEPT ![c] = @ \union {u}]
    <3>1. Promise!Join(c, u)
      BY <1>0, <2>1, <2>2, <2>4 DEF Promise!Join, Promise!Exists
    <3>2. QED
      BY <1>0, <3>1 DEF Promise!Next
  <2>5. QED
    BY <1>1, <2>3, <2>4
<1>5. QED
  BY <1>3, <1>4

LEMMA DeleteSimulates ==
  ASSUME IInv, NEW r \in Requests, DeleteMember(r)
  PROVE  Promise!Next
<1> DEFINE c == req[r].channel
           u == req[r].user
<1>0. /\ req \in [Requests -> Request] /\ req[r] \in Request
      /\ c \in Channels /\ u \in Users /\ req[r].at = "delete"
      /\ Arrive(r) \/ Step(r)
      /\ kind' = kind /\ creator' = creator
      /\ members' = [members EXCEPT ![c] = @ \ {u}]
  BY DEF IInv, TypeOK, Step, StageOK, DeleteMember
<1>1. PICK x : req' = [req EXCEPT ![r] = [req[r] EXCEPT !.row = x, !.at = "decrement"]]
  BY DEF DeleteMember, Put
<1>2. \A d \in Channels : Waits(r, d)' <=> Waits(r, d)
  BY <1>0, <1>1 DEF Waits, Request
<1>3. awaiting' = awaiting
  BY <1>0, <1>2, AwaitingKept
<1>4. Promise!Leave(c, u)
  BY <1>0, <1>3 DEF Promise!Leave
<1>5. QED
  BY <1>0, <1>4 DEF Promise!Next

LEMMA ErrorSimulates ==
  ASSUME IInv, NEW r \in Requests, DbError(r)
  PROVE  Promise!Next \/ UNCHANGED <<kind, creator, members, awaiting>>
<1> DEFINE c == req[r].channel
<1>0. /\ req \in [Requests -> Request] /\ req[r] \in Request /\ StageOK(r)
      /\ Arrive(r) \/ Step(r)
      /\ kind' = kind /\ creator' = creator /\ members' = members
      /\ req' = [req EXCEPT ![r] = [req[r] EXCEPT !.at = "failed"]]
  BY DEF IInv, TypeOK, Step, DbError, Goto, Put
<1>1. \A d \in Channels : ~Waits(r, d)'
  BY <1>0 DEF Waits, Request
<1>2. CASE req[r].op = "create" /\ req[r].at = "insert"
  <2>1. c \in Channels /\ Waits(r, c)
    BY <1>0, <1>2 DEF Waits, StageOK
  <2>2. awaiting[c] /\ awaiting' = [awaiting EXCEPT ![c] = FALSE]
    BY <1>0, <1>1, <2>1, AwaitingLoses
  <2>3. Promise!LoseCreator(c)
    BY <1>0, <2>2 DEF Promise!LoseCreator
  <2>4. QED
    BY <2>1, <2>3 DEF Promise!Next
<1>3. CASE ~(req[r].op = "create" /\ req[r].at = "insert")
  <2>1. \A d \in Channels : Waits(r, d)' <=> Waits(r, d)
    BY <1>1, <1>3 DEF Waits
  <2>2. awaiting' = awaiting
    BY <1>0, <2>1, AwaitingKept
  <2>3. QED
    BY <1>0, <2>2
<1>4. QED
  BY <1>2, <1>3

\* Arrivals, look-ups, counters and events do not show in the roster.
LEMMA OthersStutter ==
  ASSUME IInv, NEW r \in Requests,
         \/ Arrive(r) \/ FindChannel(r) \/ IncrementMemberCount(r)
         \/ DecrementMemberCount(r) \/ EmitMemberEvent(r)
  PROVE  UNCHANGED <<kind, creator, members, awaiting>>
<1>0. /\ req \in [Requests -> Request] /\ req[r] \in Request /\ StageOK(r)
      /\ Arrive(r) \/ Step(r)
  BY DEF IInv, TypeOK, Step
<1>1. UNCHANGED <<kind, creator, members>>
  BY <1>0, ArriveShape DEF FindChannel, IncrementMemberCount, DecrementMemberCount,
     EmitMemberEvent
<1>2. \A d \in Channels : ~Waits(r, d) /\ ~Waits(r, d)'
  <2>1. CASE Arrive(r)
    BY <1>0, <2>1, ArriveShape DEF Waits
  <2>2. CASE FindChannel(r)
    <3>1. req[r].op = "join"
      BY <1>0, <2>2 DEF FindChannel, StageOK
    <3>2. Step(r)
      BY <2>2 DEF Step
    <3>3. req'[r].op = req[r].op
      BY <1>0, <3>2, StepShape
    <3>4. QED
      BY <3>1, <3>3 DEF Waits
  <2>3. CASE IncrementMemberCount(r) \/ DecrementMemberCount(r) \/ EmitMemberEvent(r)
    <3>1. req[r].at # "insert"
      BY <2>3 DEF IncrementMemberCount, DecrementMemberCount, EmitMemberEvent
    <3>2. ~SaveChannel(r) /\ ~FindChannel(r)
      BY <2>3 DEF IncrementMemberCount, DecrementMemberCount, EmitMemberEvent,
         SaveChannel, FindChannel
    <3>3. req'[r].at # "insert"
      BY <1>0, <2>3, <3>2, StepShape DEF Step
    <3>4. QED
      BY <3>1, <3>3 DEF Waits
  <2>4. QED
    BY <2>1, <2>2, <2>3
<1>3. awaiting' = awaiting
  BY <1>0, <1>2, AwaitingKept
<1>4. QED
  BY <1>1, <1>3

(* The handlers implement the abstract roster of module Roster, for any    *)
(* number of users, channels and concurrent requests and with statements   *)
(* failing anywhere.                                                       *)
THEOREM RefinesRoster == Spec => ImplementsRoster
<1>1. Init => Promise!Init
  <2>1. ASSUME Init
        PROVE  awaiting = [c \in Channels |-> FALSE]
    BY <2>1 DEF Init, awaiting, Waits, Idle
  <2>2. QED
    BY <2>1 DEF Init, Promise!Init
<1>2. IInv /\ [Next]_vars => [Promise!Next]_(Promise!rosterVars)
  <2>1. ASSUME IInv, NEW r \in Requests, Arrive(r) \/ Step(r)
        PROVE  Promise!Next \/ UNCHANGED <<kind, creator, members, awaiting>>
    BY <2>1, SaveSimulates, InsertSimulates, DeleteSimulates, ErrorSimulates, OthersStutter
    DEF Step
  <2>2. ASSUME UNCHANGED vars
        PROVE  UNCHANGED <<kind, creator, members, awaiting>>
    BY <2>2 DEF vars, awaiting, Waits
  <2>3. QED
    BY <2>1, <2>2, NextCases DEF Promise!rosterVars
<1>3. QED
  BY <1>1, <1>2, Inductive, PTL DEF Spec, ImplementsRoster, Promise!Spec
-----------------------------------------------------------------------------
(* The events a client hears.  Beside IInv, the proof needs that of two    *)
(* requests of a user that run together one has met the other, and what a  *)
(* request on its way from the table to the event leaves behind.           *)

OverlapsOK ==
    \A r, q \in Requests :
      (r # q /\ Running(r) /\ Running(q) /\ req[r].user = req[q].user)
        => req[r].met = 1 \/ req[q].met = 1

\* A request that has found its channel does what its kind of request does, on a row.
OpOK(r) ==
    /\ req[r].at \in {"insert", "increment"} => req[r].op \in {"create", "join"}
    /\ req[r].at = "decrement" => req[r].op = "leave"
    /\ req[r].at = "emit" => req[r].op \in {"join", "leave"}
    /\ req[r].at \in {"insert", "increment", "delete", "decrement", "emit"}
         => kind[req[r].channel] # "absent"

\* No event is about a channel that is not there yet.
SilentOK == \A c \in Channels, u \in Users : kind[c] = "absent" => heard[c][u] = "nothing"

\* The user sent the requests about c one at a time, and none lost what it had changed.
Calm(c, u) == \A r \in About(c, u) : /\ req[r].met = 0
                                     /\ req[r].at = "failed" => req[r].row = "none"

\* The table is changed, the event is to come.
Pending(r) == req[r].at \in {"increment", "decrement", "emit"} /\ req[r].op # "create"

\* What a request about c and u knows of them.
KnowsOK(r, c, u) ==
    /\ (req[r].at \in {"increment", "emit"} /\ req[r].op # "leave") => u \in members[c]
    /\ (Pending(r) /\ req[r].op = "leave") => u \notin members[c]
    /\ (req[r].op = "create" /\ req[r].at \in {"insert", "increment"})
         => heard[c][u] = "nothing"

Told(c, u) == /\ heard[c][u] = "joined" => u \in members[c]
              /\ heard[c][u] = "left" => u \notin members[c]

AgreeOK(c, u) ==
    Calm(c, u) => /\ \A r \in About(c, u) : KnowsOK(r, c, u)
                  /\ (\A r \in About(c, u) : ~Pending(r)) => Told(c, u)

FeedInv ==
    /\ IInv /\ OverlapsOK /\ SilentOK
    /\ \A r \in Requests : OpOK(r)
    /\ \A c \in Channels, u \in Users : AgreeOK(c, u)

\* What the statements do to a request, beyond StepShape.
LEMMA StatementEffects ==
  ASSUME IInv, NEW r \in Requests, Step(r)
  PROVE  /\ Running(r) /\ req'[r].met = req[r].met
         /\ \/ /\ req[r].at = "save" /\ req'[r].at = "insert" /\ SaveChannel(r)
               /\ req'[r].channel \in Channels /\ kind[req'[r].channel] = "absent"
               /\ UNCHANGED <<members, heard>>
            \/ /\ req[r].at = "find" /\ req'[r].at \in {"insert", "rejected"}
               /\ req'[r].at = "insert" => kind[req[r].channel] # "absent"
               /\ UNCHANGED <<members, heard>>
            \/ /\ req[r].at = "insert" /\ req'[r].at = "increment"
               /\ members' = [members EXCEPT ![req[r].channel] = @ \union {req[r].user}]
               /\ UNCHANGED heard
            \/ /\ req[r].at = "increment"
               /\ req'[r].at = IF req[r].op = "create" THEN "done" ELSE "emit"
               /\ UNCHANGED <<members, heard>>
            \/ /\ req[r].at = "delete" /\ req'[r].at = "decrement"
               /\ members' = [members EXCEPT ![req[r].channel] = @ \ {req[r].user}]
               /\ UNCHANGED heard
            \/ /\ req[r].at = "decrement" /\ req'[r].at = "emit"
               /\ UNCHANGED <<members, heard>>
            \/ /\ req[r].at = "emit" /\ req'[r].at = "done"
               /\ heard' = [heard EXCEPT ![req[r].channel][req[r].user] =
                              IF req[r].op = "join" THEN "joined" ELSE "left"]
               /\ UNCHANGED members
            \/ /\ req[r].at \in DbStages /\ req'[r].at = "failed" /\ req'[r].row = req[r].row
               /\ UNCHANGED <<members, heard>>
<1>0. req \in [Requests -> Request] /\ req[r] \in Request
  BY DEF IInv, TypeOK
<1>1. CASE SaveChannel(r)
  <2>1. PICK c \in Channels :
           /\ kind[c] = "absent"
           /\ req' = [req EXCEPT ![r] = [req[r] EXCEPT !.channel = c, !.at = "insert"]]
    BY <1>1 DEF SaveChannel, Put
  <2>2. req'[r] = [req[r] EXCEPT !.channel = c, !.at = "insert"]
    BY <1>0, <2>1
  <2>3. /\ req[r].at = "save" /\ req'[r].at = "insert" /\ req'[r].channel = c
        /\ req'[r].met = req[r].met
    BY <1>0, <1>1, <2>2 DEF SaveChannel, Request
  <2>4. Running(r) /\ UNCHANGED <<members, heard>>
    BY <1>1, <2>3 DEF SaveChannel, Running, Active, DbStages
  <2>5. QED
    BY <1>1, <2>1, <2>3, <2>4
<1>2. CASE FindChannel(r)
  <2>1. PICK s \in {"rejected", "insert"} :
          /\ req' = [req EXCEPT ![r] = [req[r] EXCEPT !.at = s]]
          /\ s = "insert" => kind[req[r].channel] # "absent"
    BY <1>2 DEF FindChannel, Goto, Put
  <2>2. req'[r] = [req[r] EXCEPT !.at = s]
    BY <1>0, <2>1
  <2>3. req[r].at = "find" /\ req'[r].at = s /\ req'[r].met = req[r].met
    BY <1>0, <1>2, <2>2 DEF FindChannel, Request
  <2>4. Running(r) /\ UNCHANGED <<members, heard>>
    BY <1>2, <2>3 DEF FindChannel, Running, Active, DbStages
  <2>5. QED
    BY <2>1, <2>3, <2>4
<1>3. CASE InsertMember(r)
  <2>1. req[r].at = "insert" /\ Running(r) /\ UNCHANGED heard
    BY <1>3 DEF InsertMember, Running, Active, DbStages
  <2>2. CASE req[r].user \in members[req[r].channel]
    <3>1. req' = [req EXCEPT ![r] = [req[r] EXCEPT !.at = "failed"]] /\ UNCHANGED members
      BY <1>3, <2>2 DEF InsertMember, Goto, Put
    <3>2. req'[r] = [req[r] EXCEPT !.at = "failed"]
      BY <1>0, <3>1
    <3>3. req'[r].at = "failed" /\ req'[r].row = req[r].row /\ req'[r].met = req[r].met
      BY <1>0, <3>2 DEF Request
    <3>4. QED
      BY <2>1, <3>1, <3>3 DEF DbStages
  <2>3. CASE req[r].user \notin members[req[r].channel]
    <3>1. /\ req' = [req EXCEPT ![r] = [req[r] EXCEPT !.row = "inserted", !.at = "increment"]]
          /\ members' = [members EXCEPT ![req[r].channel] = @ \union {req[r].user}]
      BY <1>3, <2>3 DEF InsertMember, Put
    <3>2. req'[r] = [req[r] EXCEPT !.row = "inserted", !.at = "increment"]
      BY <1>0, <3>1
    <3>3. req'[r].at = "increment" /\ req'[r].met = req[r].met
      BY <1>0, <3>2 DEF Request
    <3>4. QED
      BY <2>1, <3>1, <3>3
  <2>4. QED
    BY <2>2, <2>3
<1>4. CASE IncrementMemberCount(r)
  <2>1. req' = [req EXCEPT ![r] = [req[r] EXCEPT !.counted = 1,
                   !.at = IF req[r].op = "create" THEN "done" ELSE "emit"]]
    BY <1>4 DEF IncrementMemberCount, Put
  <2>2. req'[r] = [req[r] EXCEPT !.counted = 1,
                   !.at = IF req[r].op = "create" THEN "done" ELSE "emit"]
    BY <1>0, <2>1
  <2>3. /\ req'[r].at = IF req[r].op = "create" THEN "done" ELSE "emit"
        /\ req'[r].met = req[r].met
    BY <1>0, <2>2 DEF Request
  <2>4. req[r].at = "increment" /\ Running(r) /\ UNCHANGED <<members, heard>>
    BY <1>4 DEF IncrementMemberCount, Running, Active, DbStages
  <2>5. QED
    BY <2>3, <2>4
<1>5. CASE DeleteMember(r)
  <2>1. PICK x : req' = [req EXCEPT ![r] = [req[r] EXCEPT !.row = x, !.at = "decrement"]]
    BY <1>5 DEF DeleteMember, Put
  <2>2. req'[r] = [req[r] EXCEPT !.row = x, !.at = "decrement"]
    BY <1>0, <2>1
  <2>3. req'[r].at = "decrement" /\ req'[r].met = req[r].met
    BY <1>0, <2>2 DEF Request
  <2>4. /\ req[r].at = "delete" /\ Running(r) /\ UNCHANGED heard
        /\ members' = [members EXCEPT ![req[r].channel] = @ \ {req[r].user}]
    BY <1>5 DEF DeleteMember, Running, Active, DbStages
  <2>5. QED
    BY <2>3, <2>4
<1>6. CASE DecrementMemberCount(r)
  <2>1. req'[r] = [req[r] EXCEPT !.counted = 1, !.at = "emit"]
    BY <1>0, <1>6 DEF DecrementMemberCount, Put
  <2>2. req'[r].at = "emit" /\ req'[r].met = req[r].met
    BY <1>0, <2>1 DEF Request
  <2>3. req[r].at = "decrement" /\ Running(r) /\ UNCHANGED <<members, heard>>
    BY <1>6 DEF DecrementMemberCount, Running, Active, DbStages
  <2>4. QED
    BY <2>2, <2>3
<1>7. CASE EmitMemberEvent(r)
  <2>1. req'[r] = [req[r] EXCEPT !.at = "done"]
    BY <1>0, <1>7 DEF EmitMemberEvent, Goto, Put
  <2>2. req'[r].at = "done" /\ req'[r].met = req[r].met
    BY <1>0, <2>1 DEF Request
  <2>3. /\ req[r].at = "emit" /\ Running(r) /\ UNCHANGED members
        /\ heard' = [heard EXCEPT ![req[r].channel][req[r].user] =
                       IF req[r].op = "join" THEN "joined" ELSE "left"]
    BY <1>7 DEF EmitMemberEvent, Running, Active
  <2>4. QED
    BY <2>2, <2>3
<1>8. CASE DbError(r)
  <2>1. req'[r] = [req[r] EXCEPT !.at = "failed"]
    BY <1>0, <1>8 DEF DbError, Goto, Put
  <2>2. req'[r].at = "failed" /\ req'[r].met = req[r].met /\ req'[r].row = req[r].row
    BY <1>0, <2>1 DEF Request
  <2>3. req[r].at \in DbStages /\ Running(r) /\ UNCHANGED <<members, heard>>
    BY <1>8 DEF DbError, Running, Active
  <2>4. QED
    BY <2>2, <2>3
<1>9. QED
  BY <1>1, <1>2, <1>3, <1>4, <1>5, <1>6, <1>7, <1>8 DEF Step

\* A request that comes has met those of its user that run.
LEMMA ArrivalMeets ==
  ASSUME req \in [Requests -> Request], NEW r \in Requests, Arrive(r)
  PROVE  /\ req[r].at = "idle" /\ req'[r].at \in {"save", "find", "delete"}
         /\ req'[r].op = "leave" => kind[req'[r].channel] # "absent"
         /\ \A q \in Requests : (req[q].user = req'[r].user /\ Running(q)) => req'[r].met = 1
         /\ UNCHANGED <<kind, creator, members, heard>>
<1>1. ASSUME NEW u \in Users, NEW k \in Kinds, ArriveCreate(r, u, k)
      PROVE  /\ req'[r].user = u /\ req'[r].at = "save" /\ req'[r].op = "create"
             /\ req'[r].met = Others(u)
  BY <1>1 DEF ArriveCreate, Put, Idle
<1>2. ASSUME NEW u \in Users, NEW c \in Channels, ArriveJoin(r, u, c)
      PROVE  /\ req'[r].user = u /\ req'[r].at = "find" /\ req'[r].op = "join"
             /\ req'[r].met = Others(u)
  BY <1>2 DEF ArriveJoin, Put, Idle
<1>3. ASSUME NEW u \in Users, NEW c \in Channels, ArriveLeave(r, u, c)
      PROVE  /\ req'[r].user = u /\ req'[r].at = "delete" /\ req'[r].met = Others(u)
             /\ kind[req'[r].channel] # "absent"
  BY <1>3 DEF ArriveLeave, Put, Idle
<1>4. PICK u \in Users :
        /\ req'[r].user = u /\ req'[r].at \in {"save", "find", "delete"}
        /\ req'[r].met = Others(u)
        /\ req'[r].op = "leave" => kind[req'[r].channel] # "absent"
  <2>1. PICK u \in Users :
          \/ \E k \in Kinds : ArriveCreate(r, u, k)
          \/ \E c \in Channels : ArriveJoin(r, u, c) \/ ArriveLeave(r, u, c)
    BY DEF Arrive
  <2>2. QED
    BY <1>1, <1>2, <1>3, <2>1
<1>5. \A q \in Requests : (req[q].user = u /\ Running(q)) => Others(u) = 1
  BY DEF Others
<1>6. req[r].at = "idle" /\ UNCHANGED <<kind, creator, members, heard>>
  BY ArriveShape
<1>7. QED
  BY <1>4, <1>5, <1>6

LEMMA OverlapsStep ==
  ASSUME FeedInv, NEW r \in Requests, Arrive(r) \/ Step(r)
  PROVE  OverlapsOK'
<1>0. IInv /\ OverlapsOK /\ req \in [Requests -> Request]
  BY DEF FeedInv, IInv, TypeOK
<1>1. \A q \in Requests \ {r} : req'[q] = req[q]
  BY <1>0, OneRequestMoves DEF IInv
<1>2. ASSUME NEW q \in Requests \ {r}, Running(q)', Running(r)', req'[q].user = req'[r].user
      PROVE  req'[q].met = 1 \/ req'[r].met = 1
  <2>1. req'[q] = req[q] /\ Running(q)
    BY <1>1, <1>2 DEF Running
  <2>2. CASE Arrive(r)
    BY <1>0, <1>2, <2>1, <2>2, ArrivalMeets
  <2>3. CASE Step(r)
    <3>1. Running(r) /\ req'[r].met = req[r].met /\ req'[r].user = req[r].user
      BY <1>0, <2>3, StatementEffects, StepShape
    <3>2. req[q].met = 1 \/ req[r].met = 1
      BY <1>0, <1>2, <2>1, <3>1 DEF OverlapsOK
    <3>3. QED
      BY <2>1, <3>1, <3>2
  <2>4. QED
    BY <2>2, <2>3
<1>3. ASSUME NEW p \in Requests, NEW q \in Requests, p # q, p # r, q # r,
             Running(p)', Running(q)', req'[p].user = req'[q].user
      PROVE  req'[p].met = 1 \/ req'[q].met = 1
  <2>1. req'[p] = req[p] /\ req'[q] = req[q]
    BY <1>1, <1>3
  <2>2. QED
    BY <1>0, <1>3, <2>1 DEF OverlapsOK, Running
<1>4. QED
  BY <1>2, <1>3 DEF OverlapsOK

LEMMA OpStep ==
  ASSUME FeedInv, NEW r \in Requests, Arrive(r) \/ Step(r), NEW q \in Requests
  PROVE  OpOK(q)'
<1>0. /\ IInv /\ req \in [Requests -> Request] /\ OpOK(q) /\ OpOK(r)
      /\ StageOK(q) /\ StageOK(r) /\ StageOK(r)' /\ InsertOK(r)'
  BY StageStep, InsertStep DEF FeedInv, IInv, TypeOK
<1>1. CASE q # r
  <2>1. req'[q] = req[q]
    BY <1>0, <1>1, OneRequestMoves DEF IInv
  <2>2. req[q].at \in {"insert", "increment", "delete", "decrement", "emit"}
          => kind'[req[q].channel] # "absent"
    BY <1>0, ChannelRowsStay DEF OpOK, StageOK
  <2>3. QED
    BY <1>0, <2>1, <2>2 DEF OpOK
<1>2. CASE Arrive(r) /\ q = r
  BY <1>0, <1>2, ArrivalMeets DEF OpOK, StageOK
<1>3. CASE Step(r) /\ q = r
  <2>1. req'[r].op = req[r].op /\ (SaveChannel(r) \/ req'[r].channel = req[r].channel)
    BY <1>0, <1>3, StepShape
  <2>2. req[r].at \in {"insert", "increment", "delete", "decrement"}
           => req[r].channel \in Channels /\ kind'[req[r].channel] # "absent"
    BY <1>0, ChannelRowsStay DEF OpOK, StageOK
  <2>3. CASE req'[r].at = "insert"
    BY <1>0, <1>3, <2>3 DEF OpOK, InsertOK
  <2>4. CASE req'[r].at \in {"increment", "decrement", "emit"}
    <3>1. /\ ~SaveChannel(r)
          /\ \/ req[r].at = "insert" /\ req'[r].at = "increment"
             \/ req[r].at = "increment" /\ req'[r].at = "emit" /\ req[r].op # "create"
             \/ req[r].at = "delete" /\ req'[r].at = "decrement"
             \/ req[r].at = "decrement" /\ req'[r].at = "emit"
      <4>1. ~SaveChannel(r)
        <5>1. ASSUME SaveChannel(r)
              PROVE  req[r].at = "save"
          BY <5>1 DEF SaveChannel
        <5>2. QED
          BY <1>0, <1>3, <2>4, <5>1, StatementEffects
      <4>2. QED
        BY <1>0, <1>3, <2>4, <4>1, StatementEffects
    <3>2. QED
      BY <1>0, <1>3, <2>1, <2>2, <3>1 DEF OpOK, StageOK
  <2>5. CASE req'[r].at \notin {"insert", "increment", "decrement", "emit"}
    <3>1. req'[r].at # "delete"
      BY <1>0, <1>3, StatementEffects DEF DbStages
    <3>2. QED
      BY <1>3, <2>5, <3>1 DEF OpOK
  <2>6. QED
    BY <2>3, <2>4, <2>5
<1>4. QED
  BY <1>1, <1>2, <1>3

\* An event is about a channel that was there when its request began.
LEMMA SilentStep ==
  ASSUME FeedInv, NEW r \in Requests, Arrive(r) \/ Step(r)
  PROVE  SilentOK'
<1>0. /\ IInv /\ SilentOK /\ OpOK(r) /\ StageOK(r)
      /\ req \in [Requests -> Request] /\ kind \in [Channels -> Kinds \union {"absent"}]
      /\ heard \in [Channels -> [Users -> {"nothing", "joined", "left"}]]
  BY DEF FeedInv, IInv, TypeOK
<1>1. ASSUME NEW c \in Channels, NEW u \in Users, kind'[c] = "absent"
      PROVE  heard'[c][u] = "nothing"
  <2>1. kind[c] = "absent"
    BY <1>0, <1>1, ChannelRowsStay
  <2>2. heard[c][u] = "nothing"
    BY <1>0, <2>1 DEF SilentOK
  <2>3. CASE Arrive(r)
    BY <1>0, <2>2, <2>3, ArrivalMeets
  <2>4. CASE Step(r)
    <3>1. CASE heard' = heard
      BY <2>2, <3>1
    <3>2. CASE heard' # heard
      <4>1. /\ req[r].at = "emit"
            /\ heard' = [heard EXCEPT ![req[r].channel][req[r].user] =
                            IF req[r].op = "join" THEN "joined" ELSE "left"]
        BY <1>0, <2>4, <3>2, StatementEffects
      <4>2. req[r].channel # c
        BY <1>0, <2>1, <4>1 DEF OpOK
      <4>3. QED
        BY <1>0, <2>2, <4>1, <4>2
    <3>3. QED
      BY <3>1, <3>2
  <2>5. QED
    BY <2>3, <2>4
<1>2. QED
  BY <1>1 DEF SilentOK

\* A request stays about its channel, and a calm past is not made by a later step.
LEMMA CalmBack ==
  ASSUME FeedInv, NEW r \in Requests, Arrive(r) \/ Step(r), NEW c \in Channels, NEW u \in Users,
         Calm(c, u)'
  PROVE  /\ Calm(c, u) /\ About(c, u) \subseteq About(c, u)'
         /\ About(c, u)' \subseteq About(c, u) \union {r}
         /\ \A q \in Requests \ {r} : req'[q] = req[q]
<1>0. IInv /\ req \in [Requests -> Request] /\ StageOK(r)
  BY DEF FeedInv, IInv, TypeOK
<1>1. \A q \in Requests \ {r} : req'[q] = req[q]
  BY <1>0, OneRequestMoves DEF IInv
<1>2. ASSUME r \in About(c, u)
      PROVE  /\ r \in About(c, u)' /\ req'[r].met = req[r].met
             /\ req[r].at # "failed"
  <2>1. req[r].channel = c /\ req[r].user = u
    BY <1>2 DEF About
  <2>2. req[r].at \notin {"idle", "save"}
    BY <1>0, <2>1, ChannelsAssumption DEF StageOK
  <2>3. Step(r) /\ ~SaveChannel(r)
    BY <1>0, <2>2, ArriveShape DEF SaveChannel
  <2>4. req'[r].channel = c /\ req'[r].user = u
    BY <1>0, <2>1, <2>3, StepShape
  <2>5. req'[r].met = req[r].met /\ Running(r)
    BY <1>0, <2>3, StatementEffects
  <2>6. QED
    BY <2>4, <2>5 DEF About, Running, Active, DbStages
<1>3. About(c, u) \subseteq About(c, u)'
  BY <1>1, <1>2 DEF About
<1>4. About(c, u)' \subseteq About(c, u) \union {r}
  BY <1>1 DEF About
<1>5. Calm(c, u)
  <2>1. ASSUME NEW q \in About(c, u)
        PROVE  req[q].met = 0 /\ (req[q].at = "failed" => req[q].row = "none")
    <3>1. /\ q \in About(c, u)' /\ q \in Requests /\ req'[q].met = 0
          /\ req'[q].at = "failed" => req'[q].row = "none"
      BY <1>3, <2>1 DEF Calm, About
    <3>2. CASE q = r
      BY <1>2, <2>1, <3>1, <3>2
    <3>3. CASE q # r
      BY <1>1, <3>1, <3>3
    <3>4. QED
      BY <3>2, <3>3
  <2>2. QED
    BY <2>1 DEF Calm
<1>6. QED
  BY <1>1, <1>3, <1>4, <1>5

\* A step that is not about c and u leaves what is known of them.
LEMMA ApartAgrees ==
  ASSUME FeedInv, NEW r \in Requests, Arrive(r) \/ Step(r), NEW c \in Channels, NEW u \in Users,
         Calm(c, u)', r \notin About(c, u)'
  PROVE  AgreeOK(c, u)'
<1>0. /\ IInv /\ req \in [Requests -> Request] /\ StageOK(r) /\ AgreeOK(c, u)
      /\ members \in [Channels -> SUBSET Users]
      /\ heard \in [Channels -> [Users -> {"nothing", "joined", "left"}]]
  BY DEF FeedInv, IInv, TypeOK
<1>1. /\ Calm(c, u) /\ About(c, u)' = About(c, u)
      /\ \A q \in About(c, u) : q \in Requests /\ q # r /\ req'[q] = req[q]
  BY CalmBack DEF About
<1>2. (u \in members'[c] <=> u \in members[c]) /\ heard'[c][u] = heard[c][u]
  <2>1. CASE Arrive(r)
    BY <1>0, <2>1, ArrivalMeets
  <2>2. CASE Step(r) /\ UNCHANGED <<members, heard>>
    BY <2>2
  <2>3. CASE Step(r) /\ ~UNCHANGED <<members, heard>>
    <3>1. /\ req[r].at \in {"insert", "delete", "emit"}
          /\ \/ /\ members' = [members EXCEPT ![req[r].channel] = @ \union {req[r].user}]
                /\ UNCHANGED heard
             \/ /\ members' = [members EXCEPT ![req[r].channel] = @ \ {req[r].user}]
                /\ UNCHANGED heard
             \/ /\ heard' = [heard EXCEPT ![req[r].channel][req[r].user] =
                               IF req[r].op = "join" THEN "joined" ELSE "left"]
                /\ UNCHANGED members
      BY <1>0, <2>3, StatementEffects
    <3>2. req[r].channel # c \/ req[r].user # u
      <4>1. ~SaveChannel(r)
        BY <3>1 DEF SaveChannel
      <4>2. req'[r].channel = req[r].channel /\ req'[r].user = req[r].user
        BY <1>0, <2>3, <4>1, StepShape
      <4>3. QED
        BY <4>2 DEF About
    <3>3. req[r].channel \in Channels /\ req[r].user \in Users
      BY <1>0, <3>1 DEF StageOK
    <3>4. CASE members' = [members EXCEPT ![req[r].channel] = @ \union {req[r].user}]
               /\ UNCHANGED heard
      BY <1>0, <3>2, <3>3, <3>4
    <3>5. CASE members' = [members EXCEPT ![req[r].channel] = @ \ {req[r].user}]
               /\ UNCHANGED heard
      BY <1>0, <3>2, <3>3, <3>5
    <3>6. CASE /\ heard' = [heard EXCEPT ![req[r].channel][req[r].user] =
                              IF req[r].op = "join" THEN "joined" ELSE "left"]
               /\ UNCHANGED members
      BY <1>0, <3>2, <3>3, <3>6
    <3>7. QED
      BY <3>1, <3>4, <3>5, <3>6
  <2>4. QED
    BY <2>1, <2>2, <2>3
<1>3. \A q \in About(c, u) : /\ KnowsOK(q, c, u) => KnowsOK(q, c, u)'
                             /\ Pending(q) => Pending(q)'
  BY <1>1, <1>2 DEF KnowsOK, Pending
<1>4. Told(c, u) => Told(c, u)'
  BY <1>2 DEF Told
<1>5. QED
  BY <1>0, <1>1, <1>3, <1>4 DEF AgreeOK

\* A step about c and u: no other request about them runs.
LEMMA OwnAgrees ==
  ASSUME FeedInv, NEW r \in Requests, Arrive(r) \/ Step(r), NEW c \in Channels, NEW u \in Users,
         Calm(c, u)', r \in About(c, u)'
  PROVE  AgreeOK(c, u)'
<1>0. /\ IInv /\ req \in [Requests -> Request] /\ StageOK(r) /\ OpOK(r) /\ OpOK(r)'
      /\ AgreeOK(c, u) /\ SilentOK
      /\ members \in [Channels -> SUBSET Users]
      /\ heard \in [Channels -> [Users -> {"nothing", "joined", "left"}]]
  BY OpStep DEF FeedInv, IInv, TypeOK
<1>1. /\ Calm(c, u) /\ About(c, u) \subseteq About(c, u)'
      /\ About(c, u)' \subseteq About(c, u) \union {r}
      /\ \A q \in About(c, u)' \ {r} : q \in About(c, u) /\ req'[q] = req[q]
  BY CalmBack DEF About
<1>2. req'[r].channel = c /\ req'[r].user = u
  BY DEF About
<1>3. /\ \A q \in About(c, u) : KnowsOK(q, c, u)
      /\ (\A q \in About(c, u) : ~Pending(q)) => Told(c, u)
  BY <1>0, <1>1 DEF AgreeOK
<1>4. CASE Arrive(r)
  <2>1. /\ req'[r].at \in {"save", "find", "delete"} /\ UNCHANGED <<members, heard>>
    BY <1>0, <1>4, ArrivalMeets
  <2>2. KnowsOK(r, c, u)' /\ ~Pending(r)'
    BY <2>1 DEF KnowsOK, Pending
  <2>3. \A q \in About(c, u)' \ {r} : KnowsOK(q, c, u)' /\ (Pending(q) => Pending(q)')
    BY <1>1, <1>3, <2>1 DEF KnowsOK, Pending
  <2>4. r \notin About(c, u)
    <3>1. req[r].at = "idle"
      BY <1>0, <1>4, ArrivalMeets
    <3>2. QED
      BY <1>0, <3>1, ChannelsAssumption DEF About, StageOK
  <2>5. (\A q \in About(c, u)' : ~Pending(q)') => Told(c, u)'
    BY <1>1, <1>3, <2>1, <2>3, <2>4 DEF Told
  <2>6. QED
    BY <2>2, <2>3, <2>5 DEF AgreeOK
<1>5. CASE Step(r)
  <2>1. Running(r) /\ req'[r].op = req[r].op /\ req'[r].user = req[r].user
    BY <1>0, <1>5, StatementEffects, StepShape
  \* The others are over: what they know asks for nothing.
  <2>2. ASSUME NEW q \in About(c, u)' \ {r}
        PROVE  KnowsOK(q, c, u)' /\ ~Pending(q) /\ ~Pending(q)'
    <3>1. CASE Running(q)
      \* Then r has ended with this step, and r and q ran together before it.
      <4>1. q \in About(c, u) /\ req'[q] = req[q] /\ Running(q)' /\ req'[q].met = 0
            /\ req'[r].met = 0 /\ req[q].user = u /\ req[r].user = u
        BY <1>1, <1>2, <2>1, <3>1 DEF Calm, About, Running
      <4>2. req[r].met = 0 /\ req[q].met = 0
        BY <1>0, <1>5, <4>1, StatementEffects
      <4>3. FALSE
        BY <2>1, <3>1, <4>1, <4>2 DEF FeedInv, OverlapsOK, About
      <4>4. QED
        BY <4>3
    <3>2. CASE ~Running(q)
      <4>1. req'[q] = req[q] /\ req[q].at \notin {"insert", "increment", "decrement", "emit"}
        BY <1>1, <3>2 DEF Running, Active, DbStages
      <4>2. QED
        BY <4>1 DEF KnowsOK, Pending
    <3>3. QED
      BY <3>1, <3>2
  <2>3. SUFFICES /\ KnowsOK(r, c, u)'
                 /\ ~Pending(r)' => Told(c, u)'
    BY <2>2 DEF AgreeOK
  <2>4. r \in About(c, u) => KnowsOK(r, c, u) /\ (~Pending(r) => Told(c, u))
    BY <1>1, <1>3, <2>2
  <2>5. CASE SaveChannel(r)
    <3>1. req[r].at = "save"
      BY <2>5 DEF SaveChannel
    <3>2. req[r].channel = Nowhere /\ req[r].op = "create"
      BY <1>0, <3>1 DEF StageOK
    <3>3. r \notin About(c, u)
      BY <3>2, ChannelsAssumption DEF About
    <3>4. /\ kind[c] = "absent" /\ UNCHANGED <<members, heard>> /\ req'[r].at = "insert"
      <4>1. req'[r].at # "failed"
        BY <1>0, <1>2, <2>5, <3>1, <3>2, <1>5, ChannelsAssumption DEF SaveChannel, Put
      <4>2. QED
        BY <1>0, <1>2, <1>5, <3>1, <4>1, StatementEffects DEF DbStages
    <3>5. heard'[c][u] = "nothing"
      BY <1>0, <3>4 DEF SilentOK
    <3>6. QED
      BY <3>4, <3>5 DEF KnowsOK, Pending, Told
  <2>6. CASE ~SaveChannel(r)
    <3>1. /\ req[r].channel = c /\ req[r].user = u /\ r \in About(c, u)
          /\ KnowsOK(r, c, u) /\ (~Pending(r) => Told(c, u))
      BY <1>0, <1>2, <1>5, <2>1, <2>4, <2>6, StepShape DEF About
    <3>0. \/ /\ req[r].at = "find" /\ req'[r].at \in {"insert", "rejected"}
             /\ UNCHANGED <<members, heard>>
          \/ /\ req[r].at = "insert" /\ req'[r].at = "increment"
             /\ members' = [members EXCEPT ![c] = @ \union {u}] /\ UNCHANGED heard
          \/ /\ req[r].at = "increment" /\ UNCHANGED <<members, heard>>
             /\ req'[r].at = IF req[r].op = "create" THEN "done" ELSE "emit"
          \/ /\ req[r].at = "delete" /\ req'[r].at = "decrement"
             /\ members' = [members EXCEPT ![c] = @ \ {u}] /\ UNCHANGED heard
          \/ req[r].at = "decrement" /\ req'[r].at = "emit" /\ UNCHANGED <<members, heard>>
          \/ /\ req[r].at = "emit" /\ req'[r].at = "done" /\ UNCHANGED members
             /\ heard' = [heard EXCEPT ![c][u] =
                            IF req[r].op = "join" THEN "joined" ELSE "left"]
          \/ /\ req[r].at \in DbStages /\ req'[r].at = "failed" /\ req'[r].row = req[r].row
             /\ UNCHANGED <<members, heard>>
      BY <1>0, <1>5, <2>6, <3>1, StatementEffects
    <3>2. CASE req[r].at = "find" /\ req'[r].at \in {"insert", "rejected"}
               /\ UNCHANGED <<members, heard>>
      <4>1. req[r].op = "join"
        BY <1>0, <3>2 DEF StageOK
      <4>2. QED
        BY <2>1, <3>1, <3>2, <4>1 DEF KnowsOK, Pending, Told
    <3>3. CASE /\ req[r].at = "insert" /\ req'[r].at = "increment"
               /\ members' = [members EXCEPT ![c] = @ \union {u}] /\ UNCHANGED heard
      <4>1. u \in members'[c] /\ req[r].op \in {"create", "join"}
        BY <1>0, <3>3 DEF OpOK
      <4>2. req[r].op = "create" => heard'[c][u] = "nothing"
        BY <3>1, <3>3 DEF KnowsOK
      <4>3. QED
        BY <2>1, <3>3, <4>1, <4>2 DEF KnowsOK, Pending, Told
    <3>4. CASE /\ req[r].at = "increment" /\ UNCHANGED <<members, heard>>
               /\ req'[r].at = IF req[r].op = "create" THEN "done" ELSE "emit"
      <4>1. req[r].op \in {"create", "join"} /\ u \in members[c]
        BY <1>0, <3>1, <3>4 DEF OpOK, KnowsOK
      <4>2. req[r].op = "create" => heard[c][u] = "nothing"
        BY <3>1, <3>4 DEF KnowsOK
      <4>3. QED
        BY <2>1, <3>4, <4>1, <4>2 DEF KnowsOK, Pending, Told
    <3>5. CASE /\ req[r].at = "delete" /\ req'[r].at = "decrement"
               /\ members' = [members EXCEPT ![c] = @ \ {u}] /\ UNCHANGED heard
      <4>1. u \notin members'[c] /\ req[r].op = "leave"
        BY <1>0, <3>5 DEF StageOK
      <4>2. QED
        BY <2>1, <3>5, <4>1 DEF KnowsOK, Pending, Told
    <3>6. CASE req[r].at = "decrement" /\ req'[r].at = "emit" /\ UNCHANGED <<members, heard>>
      <4>1. req[r].op = "leave"
        BY <1>0, <3>6 DEF OpOK
      <4>2. QED
        BY <2>1, <3>1, <3>6, <4>1 DEF KnowsOK, Pending, Told
    <3>7. CASE /\ req[r].at = "emit" /\ req'[r].at = "done" /\ UNCHANGED members
               /\ heard' = [heard EXCEPT ![c][u] =
                              IF req[r].op = "join" THEN "joined" ELSE "left"]
      <4>1. req[r].op \in {"join", "leave"}
        BY <1>0, <3>7 DEF OpOK
      <4>2. u \in members[c] <=> req[r].op = "join"
        BY <3>1, <3>7, <4>1 DEF KnowsOK, Pending
      <4>3. heard'[c][u] = IF req[r].op = "join" THEN "joined" ELSE "left"
        BY <1>0, <3>7
      <4>4. QED
        BY <3>7, <4>2, <4>3 DEF KnowsOK, Pending, Told
    <3>8. CASE /\ req[r].at \in DbStages /\ req'[r].at = "failed" /\ req'[r].row = req[r].row
               /\ UNCHANGED <<members, heard>>
      <4>1. req[r].row = "none"
        BY <3>8 DEF Calm
      <4>2. ~Pending(r)
        BY <1>0, <3>8, <4>1 DEF Pending, StageOK, DbStages
      <4>3. QED
        BY <3>1, <3>8, <4>2 DEF KnowsOK, Pending, Told
    <3>9. QED
      BY <3>0, <3>2, <3>3, <3>4, <3>5, <3>6, <3>7, <3>8
  <2>7. QED
    BY <2>5, <2>6
<1>6. QED
  BY <1>4, <1>5

(* A client that follows channel:member_joined and channel:member_left     *)
(* knows who is in the channel: where the requests of a user about a       *)
(* channel came one at a time, and none failed halfway, the last event     *)
(* about the user agrees with channel_members, for any number of users,    *)
(* channels and requests (joinChannel, leaveChannel, createChannel).       *)
THEOREM FeedCorrect == Spec => []FeedMatchesRoster
<1>1. Init => FeedInv
  <2>1. Init => IInv
    BY InitIInv
  <2>2. ASSUME Init
        PROVE  /\ OverlapsOK /\ SilentOK /\ \A r \in Requests : OpOK(r)
               /\ \A c \in Channels, u \in Users : AgreeOK(c, u)
    <3>1. \A r \in Requests : req[r].at = "idle" /\ req[r].channel = Nowhere
      BY <2>2 DEF Init, Idle
    <3>2. \A c \in Channels, u \in Users : About(c, u) = {} /\ heard[c][u] = "nothing"
      BY <2>2, <3>1, ChannelsAssumption DEF Init, About
    <3>3. OverlapsOK /\ SilentOK /\ \A r \in Requests : OpOK(r)
      BY <3>1, <3>2 DEF OverlapsOK, SilentOK, OpOK, Running, Active, DbStages
    <3>4. \A c \in Channels, u \in Users : AgreeOK(c, u)
      BY <3>2 DEF AgreeOK, Told
    <3>5. QED
      BY <3>3, <3>4
  <2>3. QED
    BY <2>1, <2>2 DEF FeedInv
<1>2. FeedInv /\ [Next]_vars => FeedInv'
  <2> SUFFICES ASSUME FeedInv, [Next]_vars
               PROVE  FeedInv'
    OBVIOUS
  <2>1. IInv'
    BY IInvStep DEF FeedInv
  <2>2. ASSUME NEW r \in Requests, Arrive(r) \/ Step(r)
        PROVE  FeedInv'
    <3>1. OverlapsOK' /\ SilentOK' /\ \A q \in Requests : OpOK(q)'
      BY <2>2, OverlapsStep, SilentStep, OpStep
    <3>2. ASSUME NEW c \in Channels, NEW u \in Users
          PROVE  AgreeOK(c, u)'
      <4>1. CASE Calm(c, u)'
        BY <2>2, <4>1, ApartAgrees, OwnAgrees
      <4>2. CASE ~Calm(c, u)'
        BY <4>2 DEF AgreeOK
      <4>3. QED
        BY <4>1, <4>2
    <3>3. QED
      BY <2>1, <3>1, <3>2 DEF FeedInv
  <2>3. CASE UNCHANGED vars
    <3>1. UNCHANGED <<kind, members, req, heard>>
      BY <2>3 DEF vars
    <3>2. OverlapsOK' /\ SilentOK' /\ \A r \in Requests : OpOK(r)'
      BY <3>1 DEF FeedInv, OverlapsOK, SilentOK, OpOK, Running
    <3>3. \A c \in Channels, u \in Users : AgreeOK(c, u)'
      BY <3>1 DEF FeedInv, AgreeOK, Calm, About, KnowsOK, Pending, Told
    <3>4. QED
      BY <2>1, <3>2, <3>3 DEF FeedInv
  <2>4. QED
    BY <2>2, <2>3, NextCases
<1>3. FeedInv => FeedMatchesRoster
  <2> SUFFICES ASSUME FeedInv, NEW c \in Channels, NEW u \in Users,
                      \A r \in About(c, u) : /\ req[r].at \in Ended
                                             /\ req[r].met = 0
                                             /\ req[r].at = "failed" => req[r].row = "none"
               PROVE  Told(c, u)
    BY DEF FeedMatchesRoster, Told
  <2>1. Calm(c, u) /\ \A r \in About(c, u) : ~Pending(r)
    BY DEF Calm, Pending, Ended
  <2>2. QED
    BY <2>1 DEF FeedInv, AgreeOK
<1>4. QED
  BY <1>1, <1>2, <1>3, PTL DEF Spec
=============================================================================
