--------------------------- MODULE AccountsProofs ---------------------------
(***************************************************************************)
(* Theorems about Accounts for any rows, requests, lifetimes and limits.   *)
(* A registration alone in its stages finds what its checks found; a row   *)
(* is pending only between the insert and the verification; the logins of  *)
(* an account that was never strained follow one another; and the password *)
(* a sign-in came with is the account's until a reset revokes it.          *)
(***************************************************************************)
EXTENDS Accounts, TLAPS

Early == {"idle", "email", "name", "insert", "find", "lookup"}
Stages == {"idle", "check", "drop"} \union LookUpStages \union DbStages \union Ended

\* Which operation a stage belongs to, and what a request has by then.
ShapeOK(r) ==
    /\ req[r].at \in {"email", "name", "insert"} =>
          req[r].op = "register" /\ req[r].email \in Emails /\ req[r].name \in Names
    /\ req[r].at \in {"storeToken", "conflict"} => req[r].op = "register"
    /\ req[r].at = "tokens" => req[r].op \in {"register", "login"}
    /\ req[r].at \in {"find", "clear", "increment", "lock"} => req[r].op = "login"
    /\ req[r].at = "lookup" => req[r].op = "forgot" /\ req[r].email \in Emails
    /\ req[r].at = "storeReset" => req[r].op = "forgot"
    /\ req[r].at = "activate" => req[r].op = "verify"
    /\ req[r].at \in {"password", "revoke"} => req[r].op = "reset"
    /\ req[r].at \in {"check", "drop"} => req[r].op \in {"verify", "reset"}
    /\ req[r].at = "audit" => req[r].op \in {"register", "login", "forgot", "reset"}
    /\ req[r].at \in Early \union {"rejected"} => req[r].row = Nobody
    /\ req[r].row \in Rows => Exists(req[r].row)
    /\ req[r].op = "register" /\ req[r].at = "done" => req[r].row \in Rows

\* What a registration read is still so, unless another one or a profile update that
\* concerns its e-mail or name overlaps it.
RegisterOK(r) ==
    /\ \A q \in Requests : Registering(r) /\ Registering(q) /\ q # r => r \in crossed
    /\ req[r].at \in {"name", "insert"} /\ r \notin crossed => WithEmail(req[r].email) = {}
    /\ req[r].at = "insert" /\ r \notin crossed => WithName(req[r].name) = {}

\* A row belongs to the one registration that made it, which leaves its token there.
PendingOK(r) ==
    /\ req[r].op = "register" /\ req[r].row \in Rows =>
          \A q \in Requests :
             req[q].op = "register" /\ req[q].row = req[r].row => q = r
    /\ req[r].op = "register" /\ req[r].at \in {"audit", "done"}
          /\ row[req[r].row].status = "pending" => verifyKey[req[r].row].token = r
    /\ req[r].op = "verify" /\ req[r].at = "drop" => row[req[r].row].status # "pending"

\* The logins of an account that is not strained.
LoginOK(a) ==
    a \notin strained =>
        /\ \A q, r \in Requests : InLogin(q, a) /\ InLogin(r, a) => q = r
        /\ \A r \in Requests :
             InLogin(r, a) /\ req[r].at = "increment" => req[r].tries = row[a].attempts
        /\ row[a].attempts >= MaxAttempts
              /\ (\A r \in Requests : ~(InLogin(r, a) /\ req[r].at = "lock"))
                 => row[a].lockedUntil >= failedAt[a] + LockTime

SuspendOK(r) ==
    req[r].at \in SignInStages /\ row[req[r].row].status = "suspended" => r \in slipped

\* Whose session a has, or may have after the next step of a sign-in or a refresh.
Begun(r, a) == key[a] = r \/ SigningIn(r, a) \/ (r \in renewing /\ req[r].row = a)

SessionOK(a) ==
    /\ key[a] # Nobody =>
          /\ req[key[a]].op \in {"register", "login"}
          /\ req[key[a]].at \in {"storeToken", "audit", "done", "failed"}
    /\ \A r \in Requests : Begun(r, a) /\ r \notin crossed /\ ~ResettingOrFailed(a)
          => req[r].password = row[a].password

\* Only a session whose client has its tokens is refreshed.
RenewOK(r) ==
    r \in renewing =>
        req[r].op \in {"register", "login"} /\ req[r].at = "done" /\ req[r].row \in Rows

IInv ==
    /\ TypeOK
    /\ \A r \in Requests : ShapeOK(r)
    /\ \A r \in Requests : RegisterOK(r)
    /\ \A r \in Requests : PendingOK(r)
    /\ \A r \in Requests : SuspendOK(r) /\ RenewOK(r)
    /\ \A a \in Rows : failedAt[a] <= now /\ LoginOK(a)
    /\ \A a \in Rows : SessionOK(a)
-----------------------------------------------------------------------------
(* What a step does to its request and to a row *)

Others(r) ==
    /\ req' \in [Requests -> Request]
    /\ \A q \in Requests \ {r} : req'[q] = req[q]

Moved(r, stage) ==
    /\ Others(r)
    /\ req'[r].at = stage /\ req'[r].op = req[r].op
    /\ req'[r].email = req[r].email /\ req'[r].name = req[r].name
    /\ req'[r].password = req[r].password /\ req'[r].row = req[r].row
    /\ req'[r].token = req[r].token /\ req'[r].tries = req[r].tries

Dropped(r) ==
    Others(r) /\ req'[r].at = "rejected" /\ req'[r].op = req[r].op /\ req'[r].row = Nobody

LEMMA ReqType ==
  ASSUME TypeOK, NEW r \in Requests
  PROVE  /\ req \in [Requests -> Request] /\ req[r] \in Request
         /\ Idle \in Request /\ Nobody \notin Rows \union Requests
  BY AccountsAssumption DEF TypeOK, Idle, Request

\* Requests begin, refresh and remove no session that is already there.
LEMMA RenewingStays ==
  ASSUME NEW r \in Requests, Arrive(r) \/ Step(r)
  PROVE  renewing' = renewing
<1>1. CASE Arrive(r)
  BY <1>1 DEF Arrive, ArriveRegister, ArriveLogin, ArriveVerify, ArriveForgot, ArriveReset
<1>2. CASE Step(r)
  BY <1>2
     DEF Step, CheckEmail, CheckName, InsertUser, SignIn, StoreVerifyToken, Audit, FindUser,
         CountFailure, LockAccount, ClearFailures, LookUp, StoreResetToken, CheckToken,
         ActivateByToken, SetPassword, DropToken, RevokeSessions, StatementError,
         LookUpError, RedisErrorSwallowed, LookUpStages
<1>3. QED
  BY <1>1, <1>2

LEMMA PutOne ==
  ASSUME TypeOK, NEW r \in Requests, NEW new \in Request, Put(r, new)
  PROVE  Others(r) /\ req'[r] = new
  BY ReqType DEF Put, Others

LEMMA GotoMoves ==
  ASSUME TypeOK, NEW r \in Requests, NEW stage \in Stages, Goto(r, stage)
  PROVE  Moved(r, stage)
<1>1. req[r] \in Request
  BY ReqType
<1> DEFINE new == [req[r] EXCEPT !.at = stage]
<1>2. new \in Request
  BY <1>1 DEF Request, Stages
<1>3. Others(r) /\ req'[r] = new
  BY <1>2, PutOne DEF Goto
<1>4. QED
  BY <1>1, <1>3 DEF Moved, Request

LEMMA RejectDrops ==
  ASSUME TypeOK, NEW r \in Requests, Reject(r)
  PROVE  Dropped(r)
<1>1. req[r] \in Request /\ Idle \in Request
  BY ReqType
<1> DEFINE new == [Idle EXCEPT !.op = req[r].op, !.at = "rejected"]
<1>2. new \in Request
  BY <1>1 DEF Request, Idle, Ended
<1>3. Others(r) /\ req'[r] = new
  BY <1>2, PutOne DEF Reject
<1>4. QED
  BY <1>1, <1>3 DEF Dropped, Request, Idle

LEMMA ArriveTakes ==
  ASSUME TypeOK, NEW r \in Requests, Arrive(r)
  PROVE  /\ Others(r) /\ req[r].at = "idle"
         /\ UNCHANGED <<now, row, key, verifyKey, resetKey, failedAt, strained, slipped>>
         /\ \/ /\ req'[r].op = "register" /\ req'[r].at = "email" /\ req'[r].row = Nobody
               /\ req'[r].email \in Emails /\ req'[r].name \in Names
               /\ crossed' = IF \E q \in Requests : Registering(q)
                             THEN crossed \union {r} \union {q \in Requests : Registering(q)}
                             ELSE crossed
            \/ /\ req'[r].op = "login" /\ req'[r].at = "find" /\ req'[r].row = Nobody
               /\ crossed' = crossed
            \/ /\ req'[r].op = "forgot" /\ req'[r].at = "lookup" /\ req'[r].row = Nobody
               /\ req'[r].email \in Emails /\ crossed' = crossed
            \/ /\ req'[r].op \in {"verify", "reset"} /\ req'[r].at = "check"
               /\ req'[r].row \in Rows /\ Exists(req'[r].row) /\ crossed' = crossed
<1>1. Idle \in Request /\ req \in [Requests -> Request]
  BY ReqType
<1>2. CASE \E e \in Emails, n \in Names, p \in Passwords : ArriveRegister(r, e, n, p)
  <2>1. PICK e \in Emails, n \in Names, p \in Passwords : ArriveRegister(r, e, n, p)
    BY <1>2
  <2> DEFINE new == [Idle EXCEPT !.op = "register", !.email = e, !.name = n, !.password = p,
                   !.at = "email"]
  <2>2. new \in Request
    BY <1>1 DEF Request, LookUpStages, DbStages
  <2>3. Others(r) /\ req'[r] = new
    BY <2>1, <2>2, PutOne DEF ArriveRegister
  <2>4. QED
    BY <2>1, <2>3 DEF Idle, ArriveRegister
<1>3. CASE \E id \in Emails \union Names, p \in Passwords : ArriveLogin(r, id, p)
  <2>1. PICK id \in Emails \union Names, p \in Passwords : ArriveLogin(r, id, p)
    BY <1>3
  <2> DEFINE new == [Idle EXCEPT !.op = "login", !.email = id, !.password = p, !.at = "find"]
  <2>2. new \in Request
    BY <1>1 DEF Request, LookUpStages, DbStages
  <2>3. Others(r) /\ req'[r] = new
    BY <2>1, <2>2, PutOne DEF ArriveLogin
  <2>4. QED
    BY <2>1, <2>3 DEF Idle, ArriveLogin
<1>4. CASE \E a \in Rows, t \in Requests : ArriveVerify(r, a, t)
  <2>1. PICK a \in Rows, t \in Requests : ArriveVerify(r, a, t)
    BY <1>4
  <2> DEFINE new == [Idle EXCEPT !.op = "verify", !.row = a, !.token = t, !.at = "check"]
  <2>2. new \in Request
    BY <1>1 DEF Request
  <2>3. Others(r) /\ req'[r] = new
    BY <2>1, <2>2, PutOne DEF ArriveVerify
  <2>4. QED
    BY <2>1, <2>3 DEF Idle, ArriveVerify
<1>5. CASE \E e \in Emails : ArriveForgot(r, e)
  <2>1. PICK e \in Emails : ArriveForgot(r, e)
    BY <1>5
  <2> DEFINE new == [Idle EXCEPT !.op = "forgot", !.email = e, !.at = "lookup"]
  <2>2. new \in Request
    BY <1>1 DEF Request, LookUpStages, DbStages
  <2>3. Others(r) /\ req'[r] = new
    BY <2>1, <2>2, PutOne DEF ArriveForgot
  <2>4. QED
    BY <2>1, <2>3 DEF Idle, ArriveForgot
<1>6. CASE \E a \in Rows, t \in Requests, p \in Passwords : ArriveReset(r, a, t, p)
  <2>1. PICK a \in Rows, t \in Requests, p \in Passwords : ArriveReset(r, a, t, p)
    BY <1>6
  <2> DEFINE new == [Idle EXCEPT !.op = "reset", !.row = a, !.token = t, !.password = p,
                   !.at = "check"]
  <2>2. new \in Request
    BY <1>1 DEF Request
  <2>3. Others(r) /\ req'[r] = new
    BY <2>1, <2>2, PutOne DEF ArriveReset
  <2>4. QED
    BY <2>1, <2>3 DEF Idle, ArriveReset
<1>7. QED
  BY <1>2, <1>3, <1>4, <1>5, <1>6 DEF Arrive

LEMMA InsertMakes ==
  ASSUME TypeOK, NEW r \in Requests, ShapeOK(r), InsertUser(r)
  PROVE  /\ req[r].at = "insert"
         /\ UNCHANGED <<now, key, verifyKey, resetKey, failedAt, strained, crossed, slipped>>
         /\ \/ /\ Taken(req[r].email, req[r].name)
               /\ Moved(r, "conflict") /\ row' = row
            \/ \E a \in Rows :
                 /\ ~Exists(a)
                 /\ row' \in [Rows -> Row] /\ \A b \in Rows \ {a} : row'[b] = row[b]
                 /\ row'[a] = NewRow(req[r].email, req[r].name, req[r].password, "pending")
                 /\ Others(r) /\ req'[r].op = req[r].op /\ req'[r].at = "tokens"
                 /\ req'[r].row = a /\ req'[r].password = req[r].password
<1>1. req[r] \in Request /\ req[r].email \in Emails /\ req[r].name \in Names
      /\ req[r].at = "insert" /\ row \in [Rows -> Row]
  BY ReqType DEF InsertUser, ShapeOK, TypeOK
<1>2. CASE Taken(req[r].email, req[r].name)
  <2>1. Goto(r, "conflict") /\ row' = row
    BY <1>2 DEF InsertUser
  <2>2. Moved(r, "conflict")
    BY <2>1, GotoMoves DEF Stages, Ended
  <2>3. QED
    BY <1>1, <1>2, <2>1, <2>2 DEF InsertUser
<1>3. CASE ~Taken(req[r].email, req[r].name)
  <2>1. PICK a \in Rows :
          /\ ~Exists(a)
          /\ row' = [row EXCEPT ![a] = NewRow(req[r].email, req[r].name, req[r].password,
                                              "pending")]
          /\ Put(r, [req[r] EXCEPT !.row = a, !.email = Nobody, !.name = Nobody,
                                   !.at = "tokens"])
    BY <1>3 DEF InsertUser
  <2> DEFINE new == [req[r] EXCEPT !.row = a, !.email = Nobody, !.name = Nobody,
                                    !.at = "tokens"]
  <2>2. new \in Request
    BY <1>1 DEF Request, LookUpStages, DbStages, SignInStages
  <2>3. Others(r) /\ req'[r] = new
    BY <2>1, <2>2, PutOne
  <2>4. NewRow(req[r].email, req[r].name, req[r].password, "pending") \in Row
    BY <1>1 DEF NewRow, Row, Request
  <2>5. /\ row' \in [Rows -> Row] /\ \A b \in Rows \ {a} : row'[b] = row[b]
        /\ row'[a] = NewRow(req[r].email, req[r].name, req[r].password, "pending")
    BY <1>1, <2>1, <2>4
  <2>6. /\ req'[r].op = req[r].op /\ req'[r].at = "tokens"
        /\ req'[r].row = a /\ req'[r].password = req[r].password
    BY <1>1, <2>3 DEF Request
  <2>7. UNCHANGED <<now, key, verifyKey, resetKey, failedAt, strained, crossed, slipped>>
    BY DEF InsertUser
  <2> HIDE DEF new
  <2>8. QED
    BY <1>1, <2>1, <2>3, <2>5, <2>6, <2>7
<1>4. QED
  BY <1>2, <1>3

LEMMA FindEffect ==
  ASSUME TypeOK, NEW r \in Requests, FindUser(r)
  PROVE  /\ req[r].at = "find"
         /\ UNCHANGED <<now, row, key, verifyKey, resetKey, failedAt, crossed, slipped>>
         /\ \/ Dropped(r) /\ strained' = strained
            \/ \E a \in Rows :
                 /\ Exists(a) /\ row[a].status # "suspended"
                 /\ Others(r) /\ req'[r].op = req[r].op /\ req'[r].row = a
                 /\ req'[r].password = req[r].password /\ req'[r].tries = row[a].attempts
                 /\ \/ req'[r].at = "clear" /\ req'[r].password = row[a].password
                    \/ req'[r].at = "increment"
                 /\ strained' = IF \E q \in Requests : InLogin(q, a)
                                THEN strained \union {a} ELSE strained
<1>1. /\ req[r] \in Request /\ row \in [Rows -> Row] /\ req[r].at = "find"
      /\ UNCHANGED <<now, row, key, verifyKey, resetKey, failedAt, crossed, slipped>>
  BY ReqType DEF FindUser, TypeOK
<1>2. CASE Reject(r) /\ strained' = strained
  BY <1>1, <1>2, RejectDrops
<1>3. ASSUME NEW a \in Rows, Exists(a), row[a].status # "suspended", Judge(r, a)
      PROVE  \E b \in Rows :
                 /\ Exists(b) /\ row[b].status # "suspended"
                 /\ Others(r) /\ req'[r].op = req[r].op /\ req'[r].row = b
                 /\ req'[r].password = req[r].password /\ req'[r].tries = row[b].attempts
                 /\ \/ req'[r].at = "clear" /\ req'[r].password = row[b].password
                    \/ req'[r].at = "increment"
                 /\ strained' = IF \E q \in Requests : InLogin(q, b)
                                THEN strained \union {b} ELSE strained
  <2>1. PICK at \in {"clear", "increment"} :
          /\ Put(r, [req[r] EXCEPT !.row = a, !.email = Nobody, !.tries = row[a].attempts,
                                   !.at = at])
          /\ at = "clear" => Opens(a, req[r].password)
    BY <1>3 DEF Judge
  <2> DEFINE new == [req[r] EXCEPT !.row = a, !.email = Nobody, !.tries = row[a].attempts,
                                   !.at = at]
  <2>2. row[a].attempts \in Int
    BY <1>1 DEF Row
  <2>3. new \in Request
    BY <1>1, <2>2 DEF Request, LookUpStages, DbStages, SignInStages
  <2>4. Others(r) /\ req'[r] = new
    BY <2>1, <2>3, PutOne
  <2>5. /\ req'[r].op = req[r].op /\ req'[r].row = a /\ req'[r].at = at
        /\ req'[r].password = req[r].password /\ req'[r].tries = row[a].attempts
    BY <1>1, <2>4 DEF Request
  <2>6. strained' = IF \E q \in Requests : InLogin(q, a) THEN strained \union {a} ELSE strained
    BY <1>3 DEF Judge
  <2> HIDE DEF new
  <2>7. QED
    BY <1>3, <2>1, <2>4, <2>5, <2>6 DEF Opens
<1>4. CASE \E a \in Rows : Exists(a) /\ row[a].status # "suspended" /\ Judge(r, a)
  BY <1>1, <1>3, <1>4
<1>5. QED
  BY <1>1, <1>2, <1>4 DEF FindUser, WithEmail, WithName, Found

LEMMA LookUpEffect ==
  ASSUME TypeOK, NEW r \in Requests, LookUp(r)
  PROVE  /\ req[r].at = "lookup"
         /\ UNCHANGED <<now, row, key, verifyKey, resetKey, failedAt, strained, crossed, slipped>>
         /\ \/ Moved(r, "done")
            \/ \E a \in Rows : /\ Exists(a) /\ Others(r) /\ req'[r].op = req[r].op
                               /\ req'[r].row = a /\ req'[r].at = "storeReset"
<1>1. /\ req[r] \in Request /\ req[r].at = "lookup"
      /\ UNCHANGED <<now, row, key, verifyKey, resetKey, failedAt, strained, crossed, slipped>>
  BY ReqType DEF LookUp
<1>2. CASE Goto(r, "done")
  BY <1>1, <1>2, GotoMoves DEF Stages, Ended
<1>3. ASSUME NEW a \in Rows, Exists(a),
             Put(r, [req[r] EXCEPT !.row = a, !.email = Nobody, !.at = "storeReset"])
      PROVE  /\ Others(r) /\ req'[r].op = req[r].op
             /\ req'[r].row = a /\ req'[r].at = "storeReset"
  <2> DEFINE new == [req[r] EXCEPT !.row = a, !.email = Nobody, !.at = "storeReset"]
  <2>1. new \in Request
    BY <1>1 DEF Request, LookUpStages, DbStages
  <2>2. Others(r) /\ req'[r] = new
    BY <1>3, <2>1, PutOne
  <2>3. QED
    BY <1>1, <2>2 DEF Request
<1>4. QED
  BY <1>1, <1>2, <1>3 DEF LookUp, WithEmail, Found

\* Row a is the only one that changes, and keeps what the lookups go by.
OneRow(a) ==
    /\ row' \in [Rows -> Row]
    /\ \A b \in Rows \ {a} : row'[b] = row[b]
    /\ row'[a].email = row[a].email /\ row'[a].name = row[a].name
    /\ row'[a].gone = row[a].gone

LEMMA RowPut ==
  ASSUME TypeOK, NEW a \in Rows, NEW new \in Row, row' = [row EXCEPT ![a] = new],
         new.email = row[a].email, new.name = row[a].name, new.gone = row[a].gone
  PROVE  OneRow(a) /\ row'[a] = new
  BY DEF TypeOK, OneRow

LEMMA StatusStep ==
  ASSUME TypeOK, NEW a \in Rows, NEW s \in {"active", "suspended"},
         row' = [row EXCEPT ![a].status = s]
  PROVE  /\ OneRow(a) /\ row'[a].status = s /\ row'[a].password = row[a].password
         /\ row'[a].attempts = row[a].attempts /\ row'[a].lockedUntil = row[a].lockedUntil
<1> DEFINE new == [row[a] EXCEPT !.status = s]
<1>1. row \in [Rows -> Row] /\ row[a] \in Row
  BY DEF TypeOK
<1>2. row' = [row EXCEPT ![a] = new]
  BY <1>1
<1>3. new \in Row
  BY <1>1 DEF Row
<1>4. OneRow(a) /\ row'[a] = new
  BY <1>1, <1>2, <1>3, RowPut DEF Row
<1>5. QED
  BY <1>1, <1>4 DEF Row

LEMMA AttemptsStep ==
  ASSUME TypeOK, NEW a \in Rows, row' = [row EXCEPT ![a].attempts = @ + 1]
  PROVE  /\ OneRow(a) /\ row'[a].status = row[a].status
         /\ row'[a].password = row[a].password
         /\ row'[a].attempts = row[a].attempts + 1
         /\ row'[a].lockedUntil = row[a].lockedUntil
<1>1. row \in [Rows -> Row] /\ row[a] \in Row
  BY DEF TypeOK
<1>2. row[a].attempts + 1 \in Int
  BY <1>1 DEF Row
<1>3. PICK n \in Int : n = row[a].attempts + 1
  BY <1>2
<1> DEFINE new == [row[a] EXCEPT !.attempts = n]
<1>4. row' = [row EXCEPT ![a] = new]
  BY <1>1, <1>3
<1>5. new \in Row
  BY <1>1 DEF Row
<1>6. OneRow(a) /\ row'[a] = new
  BY <1>1, <1>4, <1>5, RowPut DEF Row
<1>7. QED
  BY <1>1, <1>3, <1>6 DEF Row

LEMMA LockStep ==
  ASSUME TypeOK, NEW a \in Rows, NEW t \in Nat, row' = [row EXCEPT ![a].lockedUntil = t]
  PROVE  /\ OneRow(a) /\ row'[a].status = row[a].status
         /\ row'[a].password = row[a].password
         /\ row'[a].attempts = row[a].attempts /\ row'[a].lockedUntil = t
<1> DEFINE new == [row[a] EXCEPT !.lockedUntil = t]
<1>1. row \in [Rows -> Row] /\ row[a] \in Row
  BY DEF TypeOK
<1>2. row' = [row EXCEPT ![a] = new]
  BY <1>1
<1>3. new \in Row
  BY <1>1 DEF Row
<1>4. OneRow(a) /\ row'[a] = new
  BY <1>1, <1>2, <1>3, RowPut DEF Row
<1>5. QED
  BY <1>1, <1>4 DEF Row

LEMMA ClearStep ==
  ASSUME TypeOK, NEW a \in Rows, row' = [row EXCEPT ![a].attempts = 0, ![a].lockedUntil = 0]
  PROVE  /\ OneRow(a) /\ row'[a].status = row[a].status
         /\ row'[a].password = row[a].password /\ row'[a].attempts = 0
<1>0. PICK n \in Int : n = 0
  OBVIOUS
<1> DEFINE new == [row[a] EXCEPT !.attempts = n, !.lockedUntil = 0]
<1>1. row \in [Rows -> Row] /\ row[a] \in Row
  BY DEF TypeOK
<1>2. row' = [row EXCEPT ![a] = new]
  BY <1>0, <1>1
<1>3. new \in Row
  BY <1>1 DEF Row
<1>4. OneRow(a) /\ row'[a] = new
  BY <1>1, <1>2, <1>3, RowPut DEF Row
<1>5. QED
  BY <1>0, <1>1, <1>4 DEF Row

LEMMA PasswordStep ==
  ASSUME TypeOK, NEW a \in Rows, NEW p \in Passwords \union {Nobody},
         row' = [row EXCEPT ![a].password = p, ![a].form = "text"]
  PROVE  /\ OneRow(a) /\ row'[a].status = row[a].status
         /\ row'[a].attempts = row[a].attempts
         /\ row'[a].lockedUntil = row[a].lockedUntil
<1> DEFINE new == [row[a] EXCEPT !.password = p, !.form = "text"]
<1>1. row \in [Rows -> Row] /\ row[a] \in Row
  BY DEF TypeOK
<1>2. row' = [row EXCEPT ![a] = new]
  BY <1>1
<1>3. new \in Row
  BY <1>1 DEF Row
<1>4. OneRow(a) /\ row'[a] = new
  BY <1>1, <1>2, <1>3, RowPut DEF Row
<1>5. QED
  BY <1>1, <1>4 DEF Row

LEMMA PatchStep ==
  ASSUME TypeOK, NEW a \in Rows, Exists(a), NEW body \in Bodies
  PROVE  LET new == Patched(row[a], body)
         IN  /\ new \in Row /\ new.email = row[a].email
             /\ new.status = row[a].status /\ new.password = row[a].password
             /\ body.sets \intersect {"attempts", "lockedUntil"} = {} =>
                  new.attempts = row[a].attempts /\ new.lockedUntil = row[a].lockedUntil
<1>1. row[a] \in Row
  BY DEF TypeOK
<1>2. body \in [sets: SUBSET {"name", "attempts", "lockedUntil", "gone"},
                name: Emails \union Names, attempts: Int, lockedUntil: Nat, gone: BOOLEAN]
  BY AccountsAssumption
<1>3. PICK n \in Emails \union Names \union {Nobody}, k \in Int, u \in Nat, g \in BOOLEAN :
         /\ Patched(row[a], body) = [row[a] EXCEPT !.name = n, !.attempts = k,
                                                  !.lockedUntil = u, !.gone = g]
         /\ body.sets \intersect {"attempts", "lockedUntil"} = {} =>
              k = row[a].attempts /\ u = row[a].lockedUntil
  <2>1. /\ (IF "name" \in body.sets THEN body.name ELSE row[a].name)
             \in Emails \union Names \union {Nobody}
        /\ (IF "attempts" \in body.sets THEN body.attempts ELSE row[a].attempts) \in Int
        /\ (IF "lockedUntil" \in body.sets THEN body.lockedUntil ELSE row[a].lockedUntil) \in Nat
        /\ (IF "gone" \in body.sets THEN body.gone ELSE row[a].gone) \in BOOLEAN
    BY <1>1, <1>2 DEF Row
  <2>2. QED
    BY <2>1 DEF Patched
<1>4. QED
  BY <1>1, <1>3 DEF Row

LEMMA ClearEffect ==
  ASSUME TypeOK, NEW r \in Requests, ClearFailures(r)
  PROVE  /\ req[r].at = "clear" /\ Others(r) /\ req'[r].at = "tokens"
         /\ req'[r].op = req[r].op /\ req'[r].row = req[r].row
         /\ req'[r].password = req[r].password
<1>0. PICK n \in Int : n = 0
  OBVIOUS
<1> DEFINE new == [req[r] EXCEPT !.tries = n, !.at = "tokens"]
<1>1. req[r] \in Request /\ req[r].at = "clear"
  BY ReqType DEF ClearFailures
<1>2. new \in Request
  BY <1>1 DEF Request, LookUpStages, DbStages, SignInStages
<1>3. Others(r) /\ req'[r] = new
  BY <1>0, <1>2, PutOne DEF ClearFailures
<1>4. QED
  BY <1>1, <1>3 DEF Request
-----------------------------------------------------------------------------
(* The types *)

\* The three families of keys, whatever row they are of.
KeyTypes ==
    /\ key \in [Rows -> Requests \union {Nobody}]
    /\ verifyKey \in [Rows -> TokenKey] /\ resetKey \in [Rows -> TokenKey]
    /\ \A a \in Rows : ~Exists(a) =>
          key[a] = Nobody /\ verifyKey[a].token = Nobody /\ resetKey[a].token = Nobody

LEMMA TypeParts ==
  TypeOK <=> /\ now \in 0 .. MaxTime /\ row \in [Rows -> Row] /\ KeyTypes
             /\ req \in [Requests -> Request] /\ failedAt \in [Rows -> 0 .. MaxTime]
             /\ strained \subseteq Rows /\ crossed \subseteq Requests
             /\ slipped \subseteq Requests /\ renewing \subseteq Requests
             /\ \A q \in Requests : req[q].at \notin Ended \union Early
                  => req[q].row \in Rows /\ Exists(req[q].row)
  BY DEF TypeOK, KeyTypes, Exists, Early

LEMMA TypeStep ==
  ASSUME TypeOK, NEW r \in Requests, Others(r), now' = now, row' \in [Rows -> Row],
         \A b \in Rows : Exists(b) => Exists(b)', KeyTypes', failedAt' \in [Rows -> 0 .. MaxTime],
         strained' \subseteq Rows, crossed' \subseteq Requests, slipped' \subseteq Requests,
         renewing' = renewing,
         req'[r].at \notin Ended \union Early =>
            req'[r].row \in Rows /\ row'[req'[r].row].status # "absent"
  PROVE  TypeOK'
<1>1. /\ now \in 0 .. MaxTime /\ renewing \subseteq Requests
      /\ \A q \in Requests : req[q].at \notin Ended \union Early
           => req[q].row \in Rows /\ Exists(req[q].row)
  BY TypeParts
<1>2. ASSUME NEW q \in Requests, req'[q].at \notin Ended \union Early
      PROVE  req'[q].row \in Rows /\ row'[req'[q].row].status # "absent"
  BY <1>1, <1>2 DEF Others, Exists
<1>3. QED
  BY <1>1, <1>2 DEF TypeOK, KeyTypes, Others, Exists, Early

LEMMA StepKeepsType ==
  ASSUME TypeOK, NEW r \in Requests, ShapeOK(r), Step(r)
  PROVE  TypeOK'
<1> DEFINE a == req[r].row
<1>1. /\ now \in 0 .. MaxTime /\ row \in [Rows -> Row] /\ KeyTypes
      /\ failedAt \in [Rows -> 0 .. MaxTime]
      /\ strained \subseteq Rows /\ crossed \subseteq Requests /\ slipped \subseteq Requests
      /\ req[r].at \notin Ended \union Early => a \in Rows /\ Exists(a)
      /\ a \in Rows \union {Nobody} /\ renewing' = renewing
      /\ renewing \subseteq Requests
  BY TypeParts, ReqType, RenewingStays DEF Request
<1>2. now \in Nat /\ LockTime \in Nat /\ ResetTtl \in Nat /\ VerifyTtl \in Nat
  BY <1>1, AccountsAssumption
<1>3. NoKey \in TokenKey /\ NoKey.token = Nobody
  BY DEF NoKey, TokenKey
<1>4. \A t \in Nat : [token |-> r, until |-> t] \in TokenKey
  BY DEF TokenKey
<1>5. ASSUME NEW b \in Rows, OneRow(b), row'[b].status # "absent"
      PROVE  /\ row' \in [Rows -> Row]
             /\ \A c \in Rows : Exists(c) => Exists(c)'
             /\ \A c \in Rows : ~Exists(c)' => ~Exists(c)
  BY <1>5 DEF OneRow, Exists
<1>6. ASSUME row' = row
      PROVE  /\ row' \in [Rows -> Row]
             /\ \A c \in Rows : Exists(c) <=> Exists(c)'
  BY <1>1, <1>6 DEF Exists
\* Steps that only move the request on.
<1>7. ASSUME UNCHANGED <<now, row, key, verifyKey, resetKey, failedAt>>,
             strained' \subseteq Rows, crossed' \subseteq Requests, slipped' \subseteq Requests,
             Others(r),
             req'[r].at \notin Ended \union Early => req'[r].row \in Rows /\ Exists(req'[r].row)
      PROVE  TypeOK'
  <2>1. KeyTypes'
    BY <1>1, <1>7 DEF KeyTypes, Exists
  <2>2. QED
    BY <1>1, <1>6, <1>7, <2>1, TypeStep DEF Exists
<1>8. CASE CheckEmail(r) \/ CheckName(r) \/ Audit(r) \/ CheckToken(r)
          \/ LookUpError(r) \/ RedisErrorSwallowed(r)
  <2>1. UNCHANGED <<now, row, key, verifyKey, resetKey, failedAt, strained, crossed, slipped>>
    BY <1>8 DEF CheckEmail, CheckName, Audit, CheckToken, LookUpError, RedisErrorSwallowed,
                LookUpStages
  <2>2. \/ Dropped(r)
        \/ \E stage \in {"name", "insert", "done"} : Moved(r, stage)
        \/ /\ req[r].at \in {"check", "drop"}
           /\ \E stage \in {"activate", "password", "revoke"} : Moved(r, stage)
    BY <1>8, RejectDrops, GotoMoves
       DEF CheckEmail, CheckName, Audit, CheckToken, LookUpError, RedisErrorSwallowed, Stages,
           LookUpStages, DbStages, Ended
  <2>3. QED
    BY <1>1, <1>7, <2>1, <2>2 DEF Dropped, Moved, Ended, Early
<1>9. CASE FindUser(r)
  BY <1>1, <1>7, <1>9, FindEffect DEF Dropped, Ended, Early
<1>10. CASE LookUp(r)
  BY <1>1, <1>7, <1>10, LookUpEffect DEF Moved, Ended, Early
<1>11. CASE StatementError(r)
  <2>1. Moved(r, "failed")
    BY <1>11, GotoMoves DEF StatementError, Stages, Ended
  <2>2. /\ UNCHANGED <<now, row, key, verifyKey, resetKey, failedAt>>
        /\ strained' \subseteq Rows /\ crossed' = crossed /\ slipped' \subseteq Requests
    BY <1>1, <1>11, <1>7
       DEF StatementError, DbStages, SignInStages, Ended, Early
  <2>3. QED
    BY <1>1, <1>7, <2>1, <2>2 DEF Moved, Ended
<1>12. CASE InsertUser(r)
  <2>1. CASE Moved(r, "conflict") /\ row' = row
    BY <1>1, <1>7, <1>12, <2>1, InsertMakes DEF Moved, Ended
  <2>2. CASE ~(Moved(r, "conflict") /\ row' = row)
    <3>1. PICK b \in Rows :
                 /\ ~Exists(b)
                 /\ row' \in [Rows -> Row] /\ \A c \in Rows \ {b} : row'[c] = row[c]
                 /\ row'[b] = NewRow(req[r].email, req[r].name, req[r].password, "pending")
                 /\ Others(r) /\ req'[r].at = "tokens" /\ req'[r].row = b
      BY <1>12, <2>2, InsertMakes
    <3>2. row'[b].status = "pending"
      BY <3>1 DEF NewRow
    <3>3. UNCHANGED <<now, key, verifyKey, resetKey, failedAt, strained, crossed, slipped>>
      BY <1>12, InsertMakes
    <3>4. /\ \A c \in Rows : Exists(c) => Exists(c)'
          /\ \A c \in Rows : ~Exists(c)' => ~Exists(c)
      BY <3>1, <3>2 DEF Exists
    <3>5. KeyTypes'
      BY <1>1, <3>3, <3>4 DEF KeyTypes
    <3>6. QED
      BY <1>1, <3>1, <3>2, <3>3, <3>4, <3>5, TypeStep
  <2>3. QED
    BY <2>1, <2>2
<1>13. CASE SignIn(r) \/ RevokeSessions(r)
  <2>1. /\ req[r].at \in {"tokens", "revoke"}
        /\ \/ key' = [key EXCEPT ![a] = r]
           \/ key' = [key EXCEPT ![a] = Nobody]
        /\ UNCHANGED <<now, row, verifyKey, resetKey, failedAt, strained>>
        /\ crossed' \subseteq Requests /\ slipped' \subseteq Requests
    BY <1>1, <1>13 DEF SignIn, RevokeSessions, SigningIn
  <2>2. \E stage \in {"storeToken", "audit"} : Moved(r, stage)
    BY <1>13, GotoMoves DEF SignIn, RevokeSessions, Stages, LookUpStages, DbStages
  <2>3. a \in Rows /\ Exists(a)
    BY <1>1, <2>1 DEF Ended, Early
  <2>4. KeyTypes'
    <3>1. key' \in [Rows -> Requests \union {Nobody}]
      BY <1>1, <2>1 DEF KeyTypes
    <3>2. ASSUME NEW b \in Rows, ~Exists(b)
          PROVE  key'[b] = Nobody
      BY <1>1, <2>1, <2>3, <3>2 DEF KeyTypes
    <3>3. QED
      BY <1>1, <2>1, <3>1, <3>2 DEF KeyTypes, Exists
  <2>5. QED
    BY <1>1, <1>6, <2>1, <2>2, <2>3, <2>4, TypeStep DEF Moved, Exists
<1>14. CASE StoreVerifyToken(r) \/ StoreResetToken(r) \/ DropToken(r)
  <2>1. /\ req[r].at \in {"storeToken", "storeReset", "drop"}
        /\ \/ /\ resetKey' = resetKey
              /\ \/ verifyKey' = [verifyKey EXCEPT ![a] =
                                    [token |-> r, until |-> now + VerifyTtl]]
                 \/ verifyKey' = [verifyKey EXCEPT ![a] = NoKey]
           \/ /\ verifyKey' = verifyKey
              /\ \/ resetKey' = [resetKey EXCEPT ![a] = [token |-> r, until |-> now + ResetTtl]]
                 \/ resetKey' = [resetKey EXCEPT ![a] = NoKey]
        /\ UNCHANGED <<now, row, key, failedAt, strained, crossed, slipped>>
    BY <1>14 DEF StoreVerifyToken, StoreResetToken, DropToken
  <2>2. \E stage \in {"audit", "done", "revoke"} : Moved(r, stage)
    BY <1>14, GotoMoves
       DEF StoreVerifyToken, StoreResetToken, DropToken, Stages, LookUpStages, DbStages, Ended
  <2>3. a \in Rows /\ Exists(a)
    BY <1>1, <2>1 DEF Ended, Early
  <2>4. KeyTypes'
    <3>1. PICK new \in TokenKey : \/ /\ resetKey' = resetKey
                                   /\ verifyKey' = [verifyKey EXCEPT ![a] = new]
                                \/ /\ verifyKey' = verifyKey
                                   /\ resetKey' = [resetKey EXCEPT ![a] = new]
      BY <1>2, <1>3, <1>4, <2>1
    <3>2. /\ verifyKey' \in [Rows -> TokenKey] /\ resetKey' \in [Rows -> TokenKey]
          /\ \A b \in Rows \ {a} :
               verifyKey'[b] = verifyKey[b] /\ resetKey'[b] = resetKey[b]
      BY <1>1, <3>1 DEF KeyTypes
    <3>3. QED
      BY <1>1, <2>1, <2>3, <3>2 DEF KeyTypes, Exists
  <2>5. QED
    BY <1>1, <1>6, <2>1, <2>2, <2>3, <2>4, TypeStep DEF Moved, Exists
<1>15. CASE CountFailure(r) \/ LockAccount(r) \/ ClearFailures(r) \/ ActivateByToken(r)
              \/ SetPassword(r)
  <2>1. /\ req[r].at \in {"increment", "lock", "clear", "activate", "password"}
        /\ UNCHANGED <<now, key, verifyKey, resetKey, crossed, slipped>>
        /\ failedAt' \in [Rows -> 0 .. MaxTime] /\ strained' \subseteq Rows
    BY <1>1, <1>15
       DEF CountFailure, LockAccount, ClearFailures, ActivateByToken, SetPassword
  <2>2. a \in Rows /\ Exists(a)
    BY <1>1, <2>1 DEF Ended, Early
  <2>3. OneRow(a) /\ row'[a].status # "absent"
    <3>1. CASE CountFailure(r)
      BY <2>2, <3>1, AttemptsStep DEF CountFailure, Exists
    <3>2. CASE LockAccount(r)
      <4>1. now + LockTime \in Nat /\ row' = [row EXCEPT ![a].lockedUntil = now + LockTime]
        BY <1>2, <3>2 DEF LockAccount
      <4>2. OneRow(a) /\ row'[a].status = row[a].status
        BY <2>2, <4>1, LockStep
      <4>3. QED
        BY <2>2, <4>2 DEF Exists
    <3>3. CASE ClearFailures(r)
      BY <2>2, <3>3, ClearStep DEF ClearFailures, Exists
    <3>4. CASE ActivateByToken(r)
      BY <2>2, <3>4, StatusStep DEF ActivateByToken
    <3>5. CASE SetPassword(r)
      <4>1. req[r].password \in Passwords \union {Nobody}
        BY ReqType DEF Request
      <4>2. QED
        BY <2>2, <3>5, <4>1, PasswordStep DEF SetPassword, Exists
    <3>6. QED
      BY <1>15, <3>1, <3>2, <3>3, <3>4, <3>5
  <2>4. Dropped(r) \/ (Others(r) /\ req'[r].row = a)
    <3>1. CASE ClearFailures(r)
      BY <3>1, ClearEffect
    <3>2. CASE ~ClearFailures(r)
      BY <1>15, <3>2, GotoMoves, RejectDrops
         DEF CountFailure, LockAccount, ActivateByToken, SetPassword, Moved, Stages,
             LookUpStages, DbStages
    <3>3. QED
      BY <3>1, <3>2
  <2>5. KeyTypes'
    BY <1>1, <1>5, <2>1, <2>2, <2>3 DEF KeyTypes
  <2>6. QED
    BY <1>1, <1>5, <2>1, <2>2, <2>3, <2>4, <2>5, TypeStep DEF Dropped, Ended
<1>16. QED
  BY <1>8, <1>9, <1>10, <1>11, <1>12, <1>13, <1>14, <1>15 DEF Step
-----------------------------------------------------------------------------
(* Rows and stages *)

\* What no step does to a row that is there.
Stay(c) ==
    /\ Exists(c) => Exists(c)'
    /\ row'[c].email = row[c].email /\ row'[c].name = row[c].name
    /\ row'[c].gone = row[c].gone
    /\ row[c].status # "pending" => row'[c].status # "pending"
    /\ row'[c].status = "suspended" => row[c].status = "suspended"

LEMMA RowsStay ==
  ASSUME TypeOK, NEW r \in Requests, ShapeOK(r), Step(r)
  PROVE  /\ \A c \in Rows : Exists(c) => Stay(c)
         /\ ~InsertUser(r) => \A c \in Rows : Stay(c) /\ (Exists(c)' <=> Exists(c))
<1> DEFINE a == req[r].row
<1>1. /\ req[r].at \notin Ended \union Early => a \in Rows /\ Exists(a)
      /\ now \in Nat /\ LockTime \in Nat
  BY TypeParts, AccountsAssumption
<1>2. CASE row' = row
  BY <1>2 DEF Stay, Exists
<1>3. ASSUME OneRow(a), a \in Rows, Exists(a), row'[a].status \in {row[a].status, "active"}
      PROVE  \A c \in Rows : Stay(c) /\ (Exists(c)' <=> Exists(c))
  BY <1>3 DEF OneRow, Stay, Exists
<1>4. CASE InsertUser(r)
  <2>1. CASE row' # row
    <3>1. PICK b \in Rows : ~Exists(b) /\ \A c \in Rows \ {b} : row'[c] = row[c]
      BY <1>4, <2>1, InsertMakes
    <3>2. QED
      BY <1>4, <3>1 DEF Stay, Exists
  <2>2. QED
    BY <1>2, <1>4, <2>1 DEF Stay, Exists
<1>5. CASE CountFailure(r)
  <2>1. a \in Rows /\ Exists(a)
    BY <1>1, <1>5 DEF CountFailure, Ended, Early
  <2>2. QED
    BY <1>3, <1>5, <2>1, AttemptsStep DEF CountFailure
<1>6. CASE LockAccount(r)
  <2>1. a \in Rows /\ Exists(a)
    BY <1>1, <1>6 DEF LockAccount, Ended, Early
  <2>2. now + LockTime \in Nat /\ row' = [row EXCEPT ![a].lockedUntil = now + LockTime]
    BY <1>1, <1>6 DEF LockAccount
  <2>3. OneRow(a) /\ row'[a].status = row[a].status
    BY <2>1, <2>2, LockStep
  <2>4. QED
    BY <1>3, <2>1, <2>3
<1>7. CASE ClearFailures(r)
  <2>1. a \in Rows /\ Exists(a)
    BY <1>1, <1>7 DEF ClearFailures, Ended, Early
  <2>2. QED
    BY <1>3, <1>7, <2>1, ClearStep DEF ClearFailures
<1>8. CASE ActivateByToken(r)
  <2>1. a \in Rows /\ Exists(a)
    BY <1>1, <1>8 DEF ActivateByToken, Ended, Early
  <2>2. QED
    BY <1>3, <1>8, <2>1, StatusStep DEF ActivateByToken
<1>9. CASE SetPassword(r)
  <2>1. a \in Rows /\ Exists(a)
    BY <1>1, <1>9 DEF SetPassword, Ended, Early
  <2>2. req[r].password \in Passwords \union {Nobody}
    BY ReqType DEF Request
  <2>3. QED
    BY <1>3, <1>9, <2>1, <2>2, PasswordStep DEF SetPassword
<1>10. row' = row \/ InsertUser(r) \/ CountFailure(r) \/ LockAccount(r) \/ ClearFailures(r)
          \/ ActivateByToken(r) \/ SetPassword(r)
  BY DEF Step, CheckEmail, CheckName, SignIn, StoreVerifyToken, Audit, FindUser, LookUp,
         StoreResetToken, CheckToken, DropToken, RevokeSessions, StatementError,
         LookUpError, RedisErrorSwallowed, LookUpStages
<1>11. QED
  BY <1>2, <1>4, <1>5, <1>6, <1>7, <1>8, <1>9, <1>10

\* Where a step takes its request.
Follows(r, from, to) == req[r].at = from /\ Moved(r, to)

Turned(r) ==
    \/ Follows(r, "email", "name") /\ WithEmail(req[r].email) = {}
    \/ Follows(r, "name", "insert") /\ WithName(req[r].name) = {}
    \/ Follows(r, "insert", "conflict") /\ Taken(req[r].email, req[r].name)
    \/ Follows(r, "tokens", "storeToken") /\ req[r].op = "register"
    \/ Follows(r, "tokens", "audit") /\ req[r].op # "register"
    \/ Follows(r, "storeToken", "audit") \/ Follows(r, "audit", "done")
    \/ Follows(r, "increment", "lock")
    \/ Follows(r, "lookup", "done") \/ Follows(r, "storeReset", "audit")
    \/ Follows(r, "check", "activate") /\ req[r].op = "verify"
    \/ Follows(r, "check", "password") /\ req[r].op # "verify"
    \/ Follows(r, "activate", "drop") \/ Follows(r, "password", "drop")
    \/ Follows(r, "drop", "done") /\ req[r].op = "verify"
    \/ Follows(r, "drop", "revoke") /\ req[r].op # "verify"
    \/ Follows(r, "revoke", "audit")
    \/ req[r].at \in DbStages /\ Moved(r, "failed")
    \/ /\ req[r].at \in {"email", "name", "insert", "find", "lookup", "increment", "lock",
                         "check"}
       /\ Dropped(r)

\* The steps that give a request its row, or take the attempts off it.
Placed(r) ==
    /\ Others(r) /\ req'[r].op = req[r].op /\ req'[r].row \in Rows
    /\ row'[req'[r].row].status # "absent"
    /\ \/ req[r].at = "insert" /\ req'[r].at = "tokens" /\ ~Exists(req'[r].row)
       \/ req[r].at = "find" /\ req'[r].at \in {"clear", "increment"}
       \/ req[r].at = "lookup" /\ req'[r].at = "storeReset"
       \/ req[r].at = "clear" /\ req'[r].at = "tokens" /\ req'[r].row = req[r].row

LEMMA StepTurns ==
  ASSUME TypeOK, NEW r \in Requests, ShapeOK(r), Step(r)
  PROVE  /\ Turned(r) \/ Placed(r)
         /\ Others(r) /\ now' = now /\ crossed \subseteq crossed'
         /\ slipped \subseteq slipped' \union {r}
<1> USE DEF Stages, LookUpStages, DbStages, SignInStages, Ended
<1>1. CASE CheckEmail(r) \/ CheckName(r) \/ SignIn(r) \/ StoreVerifyToken(r) \/ Audit(r)
  <2>1. Turned(r)
    BY <1>1, GotoMoves, RejectDrops
       DEF CheckEmail, CheckName, SignIn, StoreVerifyToken, Audit, Turned, Follows
  <2>2. Others(r) /\ now' = now /\ crossed' = crossed /\ slipped \subseteq slipped' \union {r}
    BY <1>1, <2>1
       DEF CheckEmail, CheckName, SignIn, StoreVerifyToken, Audit, Turned, Follows, Moved,
           Dropped
  <2>3. QED
    BY <2>1, <2>2
<1>2. CASE CountFailure(r) \/ LockAccount(r) \/ StoreResetToken(r) \/ CheckToken(r)
  <2>1. Turned(r)
    BY <1>2, GotoMoves, RejectDrops
       DEF CountFailure, LockAccount, StoreResetToken, CheckToken, Turned, Follows
  <2>2. Others(r) /\ now' = now /\ crossed' = crossed /\ slipped' = slipped
    BY <1>2, <2>1
       DEF CountFailure, LockAccount, StoreResetToken, CheckToken, Turned, Follows, Moved,
           Dropped
  <2>3. QED
    BY <2>1, <2>2
<1>3. CASE ActivateByToken(r) \/ SetPassword(r) \/ DropToken(r) \/ RevokeSessions(r)
  <2>1. Turned(r)
    BY <1>3, GotoMoves
       DEF ActivateByToken, SetPassword, DropToken, RevokeSessions, Turned, Follows
  <2>2. Others(r) /\ now' = now /\ crossed \subseteq crossed' /\ slipped' = slipped
    BY <1>3, <2>1
       DEF ActivateByToken, SetPassword, DropToken, RevokeSessions, Turned, Follows, Moved,
           Dropped
  <2>3. QED
    BY <2>1, <2>2
<1>4. CASE LookUpError(r) \/ StatementError(r) \/ RedisErrorSwallowed(r)
  <2>1. Turned(r)
    BY <1>4, GotoMoves, RejectDrops DEF StatementError, LookUpError, RedisErrorSwallowed,
                                        Turned, Follows
  <2>2. Others(r) /\ now' = now /\ crossed' = crossed /\ slipped \subseteq slipped' \union {r}
    BY <1>4, <2>1 DEF StatementError, LookUpError, RedisErrorSwallowed, Turned, Follows,
                      Moved, Dropped
  <2>3. QED
    BY <2>1, <2>2
<1>5. CASE FindUser(r)
  BY <1>5, FindEffect DEF Turned, Placed, Dropped, Exists
<1>6. CASE LookUp(r)
  BY <1>6, LookUpEffect DEF Turned, Placed, Follows, Moved, Exists
<1>7. CASE ClearFailures(r)
  <2>1. req[r].row \in Rows /\ Exists(req[r].row)
    BY <1>7, TypeParts, ClearEffect DEF Early
  <2>2. row'[req[r].row].status # "absent"
    <3>1. \A c \in Rows : Exists(c) => row'[c].status # "absent"
      BY RowsStay DEF Stay, Exists
    <3>2. QED
      BY <2>1, <3>1
  <2>3. now' = now /\ crossed' = crossed /\ slipped' = slipped
    BY <1>7 DEF ClearFailures
  <2>4. QED
    BY <1>7, <2>1, <2>2, <2>3, ClearEffect DEF Placed, Exists
<1>8. CASE InsertUser(r)
  <2>1. CASE Moved(r, "conflict") /\ Taken(req[r].email, req[r].name)
    BY <1>8, <2>1, InsertMakes DEF Turned, Follows, Moved
  <2>2. CASE ~(Moved(r, "conflict") /\ Taken(req[r].email, req[r].name))
    <3>1. PICK b \in Rows :
                 /\ ~Exists(b) /\ Others(r)
                 /\ row'[b] = NewRow(req[r].email, req[r].name, req[r].password, "pending")
                 /\ req'[r].op = req[r].op /\ req'[r].at = "tokens" /\ req'[r].row = b
      BY <1>8, <2>2, InsertMakes
    <3>2. row'[b].status = "pending"
      BY <3>1 DEF NewRow
    <3>3. QED
      BY <1>8, <3>1, <3>2, InsertMakes DEF Placed, Exists
  <2>3. QED
    BY <2>1, <2>2
<1>9. QED
  BY <1>1, <1>2, <1>3, <1>4, <1>5, <1>6, <1>7, <1>8 DEF Step

LEMMA StepKeepsShape ==
  ASSUME TypeOK, \A q \in Requests : ShapeOK(q), NEW r \in Requests, Step(r)
  PROVE  \A q \in Requests : ShapeOK(q)'
<1>1. \A c \in Rows : Exists(c) => Exists(c)'
  BY RowsStay DEF Stay
<1>2. Turned(r) \/ Placed(r)
  BY StepTurns
<1>3. ASSUME NEW q \in Requests \ {r}
      PROVE  ShapeOK(q)'
  BY <1>1, StepTurns DEF Others, ShapeOK, Exists
<1>4. ShapeOK(r) /\ Nobody \notin Rows /\ req[r].row \in Rows \union {Nobody}
  BY ReqType DEF Request
<1>5. ASSUME Turned(r)
      PROVE  ShapeOK(r)'
  <2>1. req[r].row \in Rows => row'[req[r].row].status # "absent"
    BY <1>1, <1>4 DEF ShapeOK, Exists
  <2>2. CASE Dropped(r)
    BY <1>4, <2>2 DEF Dropped, ShapeOK
  <2>3. CASE \/ Follows(r, "email", "name") \/ Follows(r, "name", "insert")
             \/ Follows(r, "insert", "conflict") \/ Follows(r, "lookup", "done")
    BY <1>4, <2>1, <2>3 DEF Follows, Moved, ShapeOK, Exists, Early
  <2>4. CASE \/ Follows(r, "tokens", "storeToken") /\ req[r].op = "register"
             \/ Follows(r, "tokens", "audit") \/ Follows(r, "storeToken", "audit")
             \/ Follows(r, "increment", "lock") \/ Follows(r, "storeReset", "audit")
    BY <1>4, <2>1, <2>4 DEF Follows, Moved, ShapeOK, Exists, Early
  <2>5. CASE \/ Follows(r, "check", "activate") /\ req[r].op = "verify"
             \/ Follows(r, "check", "password") /\ req[r].op # "verify"
             \/ Follows(r, "activate", "drop") \/ Follows(r, "password", "drop")
    BY <1>4, <2>1, <2>5 DEF Follows, Moved, ShapeOK, Exists, Early
  <2>6. CASE \/ Follows(r, "drop", "done") /\ req[r].op = "verify"
             \/ Follows(r, "drop", "revoke") /\ req[r].op # "verify"
             \/ Follows(r, "revoke", "audit") \/ Moved(r, "failed")
    BY <1>4, <2>1, <2>6 DEF Follows, Moved, ShapeOK, Exists, Early
  <2>7. CASE Follows(r, "audit", "done")
    BY <1>4, <2>1, <2>7, TypeParts DEF Follows, Moved, ShapeOK, Exists, Early, Ended
  <2>8. QED
    BY <1>5, <2>2, <2>3, <2>4, <2>5, <2>6, <2>7 DEF Turned
<1>6. ASSUME Placed(r)
      PROVE  ShapeOK(r)'
  <2>1. /\ req'[r].row \in Rows /\ row'[req'[r].row].status # "absent"
        /\ req'[r].op = req[r].op
        /\ \/ req'[r].at = "tokens" /\ req[r].op \in {"register", "login"}
           \/ req'[r].at \in {"clear", "increment"} /\ req[r].op = "login"
           \/ req'[r].at = "storeReset" /\ req[r].op = "forgot"
    BY <1>4, <1>6 DEF Placed, ShapeOK
  <2>2. QED
    BY <2>1 DEF ShapeOK, Exists, Early
<1>7. QED
  BY <1>2, <1>3, <1>5, <1>6
-----------------------------------------------------------------------------
(* Registrations *)

LEMMA StepKeepsRegister ==
  ASSUME TypeOK, \A q \in Requests : ShapeOK(q) /\ RegisterOK(q), NEW r \in Requests, Step(r)
  PROVE  \A q \in Requests : RegisterOK(q)'
<1>1. /\ Turned(r) \/ Placed(r)
      /\ Others(r) /\ crossed \subseteq crossed'
      /\ ShapeOK(r)
  BY StepTurns
<1>2. Registering(r)' => Registering(r) /\ req'[r].at \in {"name", "insert"}
  BY <1>1 DEF Turned, Placed, Follows, Moved, Dropped, Registering
<1>3. ASSUME NEW q \in Requests, NEW t \in Requests, Registering(q)', Registering(t)', q # t
      PROVE  t \in crossed'
  <2>1. Registering(q) /\ Registering(t)
    BY <1>1, <1>2, <1>3 DEF Others, Registering
  <2>2. QED
    BY <1>1, <1>3, <2>1 DEF RegisterOK
<1>4. CASE InsertUser(r)
  <2>1. req[r].at = "insert" /\ Registering(r)
    BY <1>1, <1>4 DEF InsertUser, ShapeOK, Registering
  <2>2. ~Registering(r)'
    BY <1>1, <2>1 DEF Turned, Placed, Follows, Moved, Dropped, Registering
  <2>3. ASSUME NEW q \in Requests, req'[q].at \in {"name", "insert"}
        PROVE  q \in crossed'
    <3>1. q # r
      BY <1>1, <2>1, <2>3 DEF Turned, Placed, Follows, Moved, Dropped
    <3>2. Registering(q)
      BY <1>1, <2>3, <3>1 DEF Others, ShapeOK, Registering
    <3>3. QED
      BY <1>1, <2>1, <3>1, <3>2 DEF RegisterOK
  <2>4. QED
    BY <1>3, <2>3 DEF RegisterOK
<1>5. CASE ~InsertUser(r)
  <2>1. \A c \in Rows : Stay(c) /\ (Exists(c)' <=> Exists(c))
    BY <1>1, <1>5, RowsStay
  <2>2. \A id : /\ WithEmail(id) = {} => \A c \in Rows : ~(Found(c)' /\ row'[c].email = id)
                /\ WithName(id) = {} => \A c \in Rows : ~(Found(c)' /\ row'[c].name = id)
    BY <2>1 DEF WithEmail, WithName, Found, Stay
  <2>3. ASSUME NEW q \in Requests \ {r}
        PROVE  RegisterOK(q)'
    <3>1. req'[q] = req[q] /\ (q \notin crossed' => q \notin crossed)
      BY <1>1 DEF Others
    <3>2. /\ req'[q].at \in {"name", "insert"} /\ q \notin crossed'
               => WithEmail(req[q].email) = {}
          /\ req'[q].at = "insert" /\ q \notin crossed' => WithName(req[q].name) = {}
      BY <1>1, <3>1 DEF RegisterOK
    <3>3. QED
      BY <1>3, <2>2, <3>1, <3>2 DEF RegisterOK, WithEmail, WithName
  <2>4. RegisterOK(r)'
    <3>1. /\ req'[r].at \in {"name", "insert"} /\ r \notin crossed'
               => WithEmail(req[r].email) = {} /\ req'[r].email = req[r].email
          /\ req'[r].at = "insert" /\ r \notin crossed'
               => WithName(req[r].name) = {} /\ req'[r].name = req[r].name
      BY <1>1 DEF Turned, Placed, Follows, Moved, Dropped, RegisterOK
    <3>2. QED
      BY <1>3, <2>2, <3>1 DEF RegisterOK, WithEmail, WithName
  <2>5. QED
    BY <2>3, <2>4
<1>6. QED
  BY <1>4, <1>5
-----------------------------------------------------------------------------
(* Verification and suspension *)

\* Only storeToken of register and the drop of verify touch the verification keys.
LEMMA VerifyKeySteps ==
  ASSUME TypeOK, NEW r \in Requests, Step(r)
  PROVE  \/ verifyKey' = verifyKey
         \/ /\ StoreVerifyToken(r)
            /\ verifyKey' = [verifyKey EXCEPT ![req[r].row] =
                               [token |-> r, until |-> now + VerifyTtl]]
         \/ /\ req[r].at = "drop" /\ req[r].op = "verify"
            /\ verifyKey' = [verifyKey EXCEPT ![req[r].row] = NoKey]
  BY DEF Step, CheckEmail, CheckName, InsertUser, SignIn, StoreVerifyToken, Audit, FindUser,
         CountFailure, LockAccount, ClearFailures, LookUp, StoreResetToken, CheckToken,
         ActivateByToken, SetPassword, DropToken, RevokeSessions, StatementError,
         LookUpError, RedisErrorSwallowed, LookUpStages

LEMMA StepKeepsPending ==
  ASSUME TypeOK, \A q \in Requests : ShapeOK(q) /\ PendingOK(q), NEW r \in Requests, Step(r)
  PROVE  \A q \in Requests : PendingOK(q)'
<1>1. /\ Turned(r) \/ Placed(r)
      /\ Others(r) /\ ShapeOK(r)
      /\ Nobody \notin Rows /\ req[r].row \in Rows \union {Nobody}
      /\ verifyKey \in [Rows -> TokenKey]
  BY StepTurns, ReqType DEF Request, TypeOK
<1>2. \A c \in Rows : Exists(c) => Stay(c)
  BY <1>1, RowsStay
\* What a registration holds is its own.
<1>3. ASSUME req'[r].op = "register", req'[r].row \in Rows
      PROVE  req[r].row = req'[r].row \/ ~Exists(req'[r].row)
  BY <1>1, <1>3 DEF Turned, Placed, Follows, Moved, Dropped, ShapeOK
<1>4. req'[r].op = req[r].op
  BY <1>1 DEF Turned, Placed, Follows, Moved, Dropped
<1>5. ASSUME NEW q \in Requests \ {r}, req'[q].op = "register", req'[q].row \in Rows,
             req'[r].op = "register", req'[r].row = req'[q].row
      PROVE  FALSE
  <2>1. req[q].op = "register" /\ req[q].row = req'[q].row /\ Exists(req[q].row)
    BY <1>1, <1>5 DEF Others, ShapeOK
  <2>2. req[r].row = req[q].row /\ req[r].op = "register"
    BY <1>3, <1>4, <1>5, <2>1
  <2>3. QED
    BY <1>5, <2>1, <2>2 DEF PendingOK
<1>6. ASSUME NEW q \in Requests, req'[q].op = "register", req'[q].row \in Rows,
             NEW t \in Requests, req'[t].op = "register", req'[t].row = req'[q].row
      PROVE  t = q
  <2>1. CASE q # r /\ t # r
    BY <1>1, <1>6, <2>1 DEF Others, PendingOK
  <2>2. QED
    BY <1>5, <1>6, <2>1
<1>7. ASSUME NEW q \in Requests, req'[q].op = "register", req'[q].at \in {"audit", "done"},
             row'[req'[q].row].status = "pending", q # r
      PROVE  verifyKey'[req'[q].row].token = q
  <2> DEFINE a == req[q].row
  <2>1. req[q].op = "register" /\ req[q].at \in {"audit", "done"} /\ req'[q].row = a
    BY <1>1, <1>7 DEF Others
  <2>2. a \in Rows /\ Exists(a)
    BY <2>1, TypeParts DEF ShapeOK, Ended, Early
  <2>3. row[a].status = "pending" /\ verifyKey[a].token = q
    BY <1>2, <1>7, <2>1, <2>2 DEF Stay, PendingOK
  <2>4. CASE StoreVerifyToken(r)
    <3>1. req[r].op = "register" /\ req[r].row # a
      BY <1>1, <1>7, <2>1, <2>2, <2>4 DEF StoreVerifyToken, ShapeOK, PendingOK
    <3>2. QED
      BY <1>1, <2>1, <2>2, <2>3, <2>4, <3>1 DEF StoreVerifyToken
  <2>5. CASE req[r].at = "drop" /\ req[r].op = "verify"
    <3>1. req[r].row # a
      BY <2>3, <2>5 DEF PendingOK
    <3>2. verifyKey'[a] = verifyKey[a]
      BY <1>1, <2>2, <2>5, <3>1, VerifyKeySteps DEF StoreVerifyToken
    <3>3. QED
      BY <2>1, <2>3, <3>2
  <2>6. QED
    BY <2>1, <2>3, <2>4, <2>5, VerifyKeySteps
<1>8. ASSUME req'[r].op = "register", req'[r].at \in {"audit", "done"},
             row'[req'[r].row].status = "pending"
      PROVE  verifyKey'[req'[r].row].token = r
  <2>1. /\ req'[r].row = req[r].row /\ req[r].op = "register"
        /\ req[r].at \in {"storeToken", "audit"}
    BY <1>1, <1>8 DEF Turned, Placed, Follows, Moved, Dropped, ShapeOK
  <2>2. req[r].row \in Rows /\ Exists(req[r].row)
    BY <2>1, TypeParts DEF Ended, Early
  <2>3. CASE req[r].at = "storeToken"
    <3>1. StoreVerifyToken(r)
      <4>1. ~StatementError(r)
        BY <1>8, GotoMoves DEF StatementError, Moved, Stages, Ended
      <4>2. QED
        BY <2>3, <4>1
           DEF Step, CheckEmail, CheckName, InsertUser, SignIn, Audit, FindUser,
               CountFailure, LockAccount, ClearFailures, LookUp, StoreResetToken, CheckToken,
               ActivateByToken, SetPassword, DropToken, RevokeSessions, LookUpError,
               RedisErrorSwallowed, LookUpStages
    <3>2. QED
      BY <1>1, <2>1, <2>2, <3>1 DEF StoreVerifyToken
  <2>4. CASE req[r].at = "audit"
    <3>1. verifyKey' = verifyKey
      BY <2>4, VerifyKeySteps DEF StoreVerifyToken
    <3>2. row[req[r].row].status = "pending"
      BY <1>2, <1>8, <2>1, <2>2 DEF Stay
    <3>3. QED
      BY <2>1, <2>4, <3>1, <3>2 DEF PendingOK
  <2>5. QED
    BY <2>1, <2>3, <2>4
<1>9. ASSUME NEW q \in Requests, req'[q].op = "verify", req'[q].at = "drop"
      PROVE  row'[req'[q].row].status # "pending"
  <2>1. CASE q # r
    <3>1. req[q] = req'[q] /\ req[q].row \in Rows /\ Exists(req[q].row)
      BY <1>1, <1>9, <2>1, TypeParts DEF Others, Ended, Early
    <3>2. QED
      BY <1>2, <1>9, <3>1 DEF PendingOK, Stay
  <2>2. CASE q = r
    <3>1. req[r].at = "activate" /\ req'[r].row = req[r].row
      BY <1>1, <1>9, <2>2 DEF Turned, Placed, Follows, Moved, Dropped, ShapeOK
    <3>2. req[r].row \in Rows
      BY <3>1, TypeParts DEF Ended, Early
    <3>3. ActivateByToken(r)
      <4>1. ~StatementError(r)
        BY <1>9, <2>2, GotoMoves DEF StatementError, Moved, Stages, Ended
      <4>2. QED
        BY <3>1, <4>1
           DEF Step, CheckEmail, CheckName, InsertUser, SignIn, StoreVerifyToken, Audit,
               FindUser, CountFailure, LockAccount, ClearFailures, LookUp, StoreResetToken,
               CheckToken, SetPassword, DropToken, RevokeSessions, LookUpError,
               RedisErrorSwallowed, LookUpStages
    <3>4. QED
      BY <2>2, <3>1, <3>2, <3>3, StatusStep DEF ActivateByToken
  <2>3. QED
    BY <2>1, <2>2
<1>10. QED
  <2>1. ASSUME NEW q \in Requests
        PROVE  PendingOK(q)'
    BY <1>6, <1>7, <1>8, <1>9 DEF PendingOK
  <2>2. QED
    BY <2>1

LEMMA StepKeepsSuspend ==
  ASSUME TypeOK, \A q \in Requests : ShapeOK(q) /\ SuspendOK(q), NEW r \in Requests, Step(r)
  PROVE  \A q \in Requests : SuspendOK(q)'
<1>1. /\ Turned(r) \/ Placed(r)
      /\ Others(r) /\ ShapeOK(r) /\ slipped \subseteq slipped' \union {r}
  BY StepTurns
<1>2. \A c \in Rows : Exists(c) => Stay(c)
  BY <1>1, RowsStay
<1>3. ASSUME NEW q \in Requests \ {r}
      PROVE  SuspendOK(q)'
  <2>1. req'[q] = req[q]
    BY <1>1 DEF Others
  <2>2. req[q].at \in SignInStages => req[q].row \in Rows /\ Exists(req[q].row)
    BY TypeParts DEF SignInStages, Ended, Early
  <2>3. QED
    BY <1>1, <1>2, <2>1, <2>2 DEF SuspendOK, Stay
<1>4. SuspendOK(r)'
  <2>1. CASE InsertUser(r)
    <3>1. CASE Moved(r, "conflict")
      BY <3>1 DEF Moved, SuspendOK, SignInStages
    <3>2. CASE ~Moved(r, "conflict")
      <4>1. PICK b \in Rows :
              /\ row'[b] = NewRow(req[r].email, req[r].name, req[r].password, "pending")
              /\ req'[r].row = b
        BY <1>1, <2>1, <3>2, InsertMakes
      <4>2. row'[req'[r].row].status = "pending"
        BY <4>1 DEF NewRow
      <4>3. QED
        BY <4>2 DEF SuspendOK
    <3>3. QED
      BY <3>1, <3>2
  <2>2. CASE FindUser(r)
    BY <2>2, FindEffect DEF SuspendOK, SignInStages, Dropped
  <2>3. CASE ClearFailures(r)
    <3>1. /\ req[r].at = "clear" /\ req'[r].row = req[r].row
          /\ req[r].row \in Rows /\ Exists(req[r].row) /\ slipped' = slipped
      BY <2>3, ClearEffect, TypeParts DEF ClearFailures, Ended, Early
    <3>2. QED
      BY <1>2, <3>1 DEF SuspendOK, SignInStages, Stay
  <2>4. CASE ~InsertUser(r) /\ ~FindUser(r) /\ ~ClearFailures(r)
    <3>1. req[r].at \notin {"insert", "find", "clear"} \/ StatementError(r) \/ LookUpError(r)
      BY <2>4 DEF Step, CheckEmail, CheckName, SignIn, StoreVerifyToken, Audit,
               CountFailure, LockAccount, LookUp, StoreResetToken, CheckToken, ActivateByToken,
               SetPassword, DropToken, RevokeSessions, LookUpError, RedisErrorSwallowed,
               LookUpStages
    <3>2. (StatementError(r) => Moved(r, "failed")) /\ (LookUpError(r) => Dropped(r))
      BY GotoMoves, RejectDrops DEF StatementError, LookUpError, Stages, Ended
    <3>3. req'[r].at \notin SignInStages
      BY <1>1, <3>1, <3>2 DEF Turned, Placed, Follows, Moved, Dropped, SignInStages
    <3>4. QED
      BY <3>3 DEF SuspendOK
  <2>5. QED
    BY <2>1, <2>2, <2>3, <2>4
<1>5. QED
  BY <1>3, <1>4
-----------------------------------------------------------------------------
(* Failed logins *)

\* What the lock is judged by.
SameLock(c) ==
    /\ row'[c].attempts = row[c].attempts /\ row'[c].lockedUntil = row[c].lockedUntil
    /\ failedAt'[c] = failedAt[c]

LEMMA LockSteps ==
  ASSUME TypeOK, NEW r \in Requests, ShapeOK(r), Step(r),
         ~CountFailure(r), ~LockAccount(r), ~ClearFailures(r), NEW c \in Rows
  PROVE  SameLock(c) \/ (InsertUser(r) /\ ~Exists(c) /\ row'[c].attempts = 0)
<1>1. failedAt' = failedAt
  BY DEF Step, CheckEmail, CheckName, InsertUser, SignIn, StoreVerifyToken, Audit, FindUser,
         LookUp, StoreResetToken, CheckToken, ActivateByToken, SetPassword, DropToken,
         RevokeSessions, StatementError, LookUpError, RedisErrorSwallowed, LookUpStages
<1>2. CASE row' = row
  BY <1>1, <1>2 DEF SameLock
<1>3. CASE InsertUser(r) /\ row' # row
  <2>1. PICK a \in Rows :
          /\ ~Exists(a) /\ \A b \in Rows \ {a} : row'[b] = row[b]
          /\ row'[a] = NewRow(req[r].email, req[r].name, req[r].password, "pending")
    BY <1>3, InsertMakes
  <2>2. QED
    BY <1>1, <1>3, <2>1 DEF SameLock, NewRow
<1>4. CASE ActivateByToken(r)
  <2>1. req[r].row \in Rows
    BY <1>4, TypeParts DEF ActivateByToken, Ended, Early
  <2>2. QED
    BY <1>1, <1>4, <2>1, StatusStep DEF ActivateByToken, OneRow, SameLock
<1>5. CASE SetPassword(r)
  <2>1. req[r].row \in Rows /\ req[r].password \in Passwords \union {Nobody}
    BY <1>5, TypeParts, ReqType DEF SetPassword, Ended, Early, Request
  <2>2. QED
    BY <1>1, <1>5, <2>1, PasswordStep DEF SetPassword, OneRow, SameLock
<1>6. row' = row \/ InsertUser(r) \/ ActivateByToken(r) \/ SetPassword(r)
  BY DEF Step, CheckEmail, CheckName, SignIn, StoreVerifyToken, Audit, FindUser, LookUp,
         StoreResetToken, CheckToken, DropToken, RevokeSessions, StatementError,
         LookUpError, RedisErrorSwallowed, LookUpStages
<1>7. QED
  BY <1>2, <1>3, <1>4, <1>5, <1>6

\* A step that takes no login in and lets at most r out.
LEMMA LoginStays ==
  ASSUME NEW a \in Rows, NEW r \in Requests, LoginOK(a), Others(r), SameLock(a),
         a \notin strained, ~(InLogin(r, a) /\ req[r].at = "lock"),
         ~(req'[r].op = "login" /\ req'[r].row = a
             /\ req'[r].at \in {"increment", "lock"} \union SignInStages)
  PROVE  LoginOK(a)'
<1>1. ~InLogin(r, a)'
  BY DEF InLogin
<1>2. ASSUME NEW q \in Requests \ {r}
      PROVE  /\ InLogin(q, a)' <=> InLogin(q, a)
             /\ req'[q].at = req[q].at /\ req'[q].tries = req[q].tries
  BY DEF InLogin, Others
<1>3. /\ \A q, t \in Requests : InLogin(q, a)' /\ InLogin(t, a)' => q = t
      /\ \A q \in Requests :
           InLogin(q, a)' /\ req'[q].at = "increment" => req'[q].tries = row'[a].attempts
  BY <1>1, <1>2 DEF LoginOK, SameLock
<1>4. ASSUME row'[a].attempts >= MaxAttempts,
             \A q \in Requests : ~(InLogin(q, a)' /\ req'[q].at = "lock")
      PROVE  row'[a].lockedUntil >= failedAt'[a] + LockTime
  BY <1>2, <1>4 DEF LoginOK, SameLock
<1>5. QED
  BY <1>3, <1>4 DEF LoginOK

LEMMA StepKeepsLogin ==
  ASSUME TypeOK, \A q \in Requests : ShapeOK(q), NEW r \in Requests, Step(r),
         \A c \in Rows : failedAt[c] <= now /\ LoginOK(c)
  PROVE  \A c \in Rows : failedAt'[c] <= now' /\ LoginOK(c)'
<1>1. /\ Turned(r) \/ Placed(r)
      /\ Others(r) /\ ShapeOK(r) /\ now' = now
      /\ Nobody \notin Rows /\ req[r].row \in Rows \union {Nobody}
      /\ now \in Nat /\ row \in [Rows -> Row] /\ failedAt \in [Rows -> 0 .. MaxTime]
      /\ LockTime \in Nat /\ MaxAttempts \in Nat \ {0} /\ MaxTime \in Nat
  BY StepTurns, ReqType, TypeParts, AccountsAssumption DEF Request
<1>2. ASSUME NEW a \in Rows
      PROVE  failedAt'[a] <= now'
  <2>1. CASE CountFailure(r)
    BY <1>1, <2>1 DEF CountFailure
  <2>2. CASE ~CountFailure(r)
    <3>1. failedAt' = failedAt
      BY <2>2 DEF Step, CheckEmail, CheckName, InsertUser, SignIn, StoreVerifyToken, Audit,
               FindUser, LockAccount, ClearFailures, LookUp, StoreResetToken, CheckToken,
               ActivateByToken, SetPassword, DropToken, RevokeSessions, StatementError,
               LookUpError, RedisErrorSwallowed, LookUpStages
    <3>2. QED
      BY <1>1, <3>1
  <2>3. QED
    BY <2>1, <2>2
<1>3. ASSUME NEW a \in Rows, a \notin strained',
             ~CountFailure(r), ~LockAccount(r), ~ClearFailures(r)
      PROVE  LoginOK(a)'
  <2>1. SameLock(a) \/ (InsertUser(r) /\ ~Exists(a) /\ row'[a].attempts = 0)
    BY <1>1, <1>3, LockSteps
  <2>2. CASE ~Exists(a) /\ ~SameLock(a)
    <3>1. ASSUME NEW q \in Requests
          PROVE  ~InLogin(q, a)'
      <4>1. CASE q # r
        BY <1>1, <2>2, <3>1, <4>1 DEF Others, InLogin, ShapeOK
      <4>2. CASE q = r
        <5>1. req[r].op = "register" /\ req'[r].op = req[r].op
          BY <1>1, <2>1, <2>2
             DEF InsertUser, ShapeOK, Turned, Placed, Follows, Moved, Dropped
        <5>2. QED
          BY <4>2, <5>1 DEF InLogin
      <4>3. QED
        BY <4>1, <4>2
    <3>2. ~(row'[a].attempts >= MaxAttempts)
      BY <1>1, <2>1, <2>2
    <3>3. QED
      BY <3>1, <3>2 DEF LoginOK
  <2>3. CASE SameLock(a) /\ FindUser(r)
    <3>1. ~InLogin(r, a) /\ row' = row /\ req[r].at = "find"
      BY <2>3, FindEffect DEF InLogin, SignInStages
    <3>2. CASE Dropped(r) /\ strained' = strained
      BY <1>3, <2>3, <3>1, <3>2, LoginStays DEF Dropped, SignInStages
    <3>3. CASE ~(Dropped(r) /\ strained' = strained)
      <4>1. PICK b \in Rows :
              /\ req'[r].row = b /\ req'[r].tries = row[b].attempts
              /\ req'[r].at \in {"clear", "increment"}
              /\ strained' = IF \E q \in Requests : InLogin(q, b)
                             THEN strained \union {b} ELSE strained
        BY <2>3, <3>3, FindEffect
      <4>2. a \notin strained
        BY <1>3, <4>1
      <4>3. CASE b # a
        BY <1>1, <2>3, <3>1, <4>1, <4>2, <4>3, LoginStays
      <4>4. CASE b = a
        <5>1. ASSUME NEW q \in Requests
              PROVE  ~InLogin(q, a) /\ (q # r => ~InLogin(q, a)')
          BY <1>1, <1>3, <4>1, <4>4, <5>1 DEF Others, InLogin
        <5>2. row[a].attempts >= MaxAttempts => row[a].lockedUntil >= failedAt[a] + LockTime
          BY <4>2, <5>1 DEF LoginOK
        <5>3. req'[r].tries = row'[a].attempts
          BY <3>1, <4>1, <4>4
        <5>4. QED
          BY <2>3, <5>1, <5>2, <5>3 DEF LoginOK, SameLock
      <4>5. QED
        BY <4>3, <4>4
    <3>4. QED
      BY <3>2, <3>3
  <2>4. CASE SameLock(a) /\ ~FindUser(r)
    <3>1. /\ strained \subseteq strained'
          /\ ~(InLogin(r, a) /\ req[r].at = "lock") \/ StatementError(r)
      BY <1>3, <2>4
         DEF Step, CheckEmail, CheckName, InsertUser, SignIn, StoreVerifyToken, Audit, LookUp,
             StoreResetToken, CheckToken, ActivateByToken, SetPassword, DropToken,
             RevokeSessions, StatementError, LookUpError, RedisErrorSwallowed, LookUpStages
    <3>2. ~(InLogin(r, a) /\ req[r].at = "lock")
      BY <1>3, <3>1 DEF StatementError, InLogin
    <3>3. req[r].at \notin {"find", "increment", "lock", "clear"} \/ StatementError(r)
            \/ LookUpError(r)
      BY <1>3, <2>4
         DEF Step, CheckEmail, CheckName, InsertUser, SignIn, StoreVerifyToken, Audit, LookUp,
             StoreResetToken, CheckToken, ActivateByToken, SetPassword, DropToken,
             RevokeSessions, LookUpError, RedisErrorSwallowed, LookUpStages
    <3>4. (StatementError(r) => Moved(r, "failed")) /\ (LookUpError(r) => Dropped(r))
      BY GotoMoves, RejectDrops DEF StatementError, LookUpError, Stages, Ended
    <3>5. ~(req'[r].op = "login" /\ req'[r].at \in {"increment", "lock"} \union SignInStages)
      BY <1>1, <3>3, <3>4
         DEF Turned, Placed, Follows, Moved, Dropped, SignInStages, ShapeOK
    <3>6. QED
      BY <1>1, <1>3, <2>4, <3>1, <3>2, <3>5, LoginStays
  <2>5. QED
    BY <2>1, <2>2, <2>3, <2>4
<1>4. ASSUME NEW a \in Rows, a \notin strained', CountFailure(r)
      PROVE  LoginOK(a)'
  <2> DEFINE b == req[r].row
  <2>1. /\ req[r].at = "increment" /\ req[r].op = "login" /\ b \in Rows /\ Exists(b)
        /\ row' = [row EXCEPT ![b].attempts = @ + 1]
        /\ failedAt' = [failedAt EXCEPT ![b] = now] /\ strained' = strained
        /\ IF req[r].tries >= MaxAttempts - 1 THEN Goto(r, "lock") ELSE Reject(r)
    BY <1>1, <1>4, TypeParts DEF CountFailure, ShapeOK, Ended, Early
  <2>2. /\ OneRow(b) /\ row'[b].attempts = row[b].attempts + 1
    BY <2>1, AttemptsStep
  <2>3. Dropped(r) \/ (Moved(r, "lock") /\ req[r].tries >= MaxAttempts - 1)
    BY <2>1, GotoMoves, RejectDrops DEF Stages, LookUpStages, DbStages
  <2>4. CASE a # b
    <3>1. SameLock(a)
      BY <1>1, <2>1, <2>2, <2>4 DEF SameLock, OneRow
    <3>2. ~InLogin(r, a) /\ req'[r].row # a
      BY <2>3, <2>4, <1>1 DEF InLogin, Dropped, Moved
    <3>3. QED
      BY <1>1, <1>4, <2>1, <3>1, <3>2, LoginStays
  <2>5. CASE a = b
    <3>1. InLogin(r, a) /\ LoginOK(a) /\ a \notin strained
      BY <1>4, <2>1, <2>5 DEF InLogin
    <3>2. /\ req[r].tries = row[a].attempts
          /\ \A q \in Requests \ {r} : ~InLogin(q, a)
      BY <2>1, <3>1 DEF LoginOK
    <3>3. \A q \in Requests \ {r} : ~InLogin(q, a)'
      BY <1>1, <3>2 DEF InLogin, Others
    <3>4. CASE Moved(r, "lock")
      <4>1. InLogin(r, a)' /\ req'[r].at = "lock"
        BY <2>1, <2>5, <3>4 DEF InLogin, Moved
      <4>2. QED
        BY <3>3, <4>1 DEF LoginOK
    <3>5. CASE ~Moved(r, "lock")
      <4>1. ~InLogin(r, a)' /\ ~(req[r].tries >= MaxAttempts - 1)
        <5>1. Dropped(r) /\ Reject(r)
          BY <2>1, <2>3, <3>5, GotoMoves DEF Stages, LookUpStages, DbStages
        <5>2. ~Goto(r, "lock")
          BY <3>5, GotoMoves DEF Stages, LookUpStages, DbStages
        <5>3. QED
          BY <2>1, <5>1, <5>2 DEF Dropped, InLogin, SignInStages
      <4>2. row[a].attempts \in Int
        BY <1>1 DEF Row
      <4>3. ~(row'[a].attempts >= MaxAttempts)
        BY <1>1, <2>2, <2>5, <3>2, <4>1, <4>2
      <4>4. QED
        BY <3>3, <4>1, <4>3 DEF LoginOK
    <3>6. QED
      BY <3>4, <3>5
  <2>6. QED
    BY <2>4, <2>5
<1>5. ASSUME NEW a \in Rows, a \notin strained', LockAccount(r)
      PROVE  LoginOK(a)'
  <2> DEFINE b == req[r].row
  <2>1. /\ req[r].at = "lock" /\ req[r].op = "login" /\ b \in Rows /\ Exists(b)
        /\ row' = [row EXCEPT ![b].lockedUntil = now + LockTime]
        /\ failedAt' = failedAt /\ strained' = strained /\ Dropped(r)
    BY <1>1, <1>5, TypeParts, RejectDrops DEF LockAccount, ShapeOK, Ended, Early
  <2>2. now + LockTime \in Nat
    BY <1>1
  <2>3. OneRow(b) /\ row'[b].lockedUntil = now + LockTime
    BY <2>1, <2>2, LockStep
  <2>4. CASE a # b
    <3>1. SameLock(a)
      BY <2>1, <2>3, <2>4 DEF SameLock, OneRow
    <3>2. ~InLogin(r, a) /\ req'[r].row # a
      BY <1>1, <2>1, <2>4 DEF InLogin, Dropped
    <3>3. QED
      BY <1>1, <1>5, <2>1, <3>1, <3>2, LoginStays
  <2>5. CASE a = b
    <3>1. InLogin(r, a) /\ LoginOK(a) /\ a \notin strained
      BY <1>5, <2>1, <2>5 DEF InLogin
    <3>2. \A q \in Requests \ {r} : ~InLogin(q, a)
      BY <3>1 DEF LoginOK
    <3>3. \A q \in Requests : ~InLogin(q, a)'
      BY <1>1, <2>1, <3>2 DEF InLogin, Others, Dropped, SignInStages
    <3>4. row'[a].lockedUntil >= failedAt'[a] + LockTime
      BY <1>1, <2>1, <2>3, <2>5
    <3>5. QED
      BY <3>3, <3>4 DEF LoginOK
  <2>6. QED
    BY <2>4, <2>5
<1>6. ASSUME NEW a \in Rows, a \notin strained', ClearFailures(r)
      PROVE  LoginOK(a)'
  <2> DEFINE b == req[r].row
  <2>1. /\ req[r].at = "clear" /\ req[r].op = "login" /\ b \in Rows /\ Exists(b)
        /\ row' = [row EXCEPT ![b].attempts = 0, ![b].lockedUntil = 0]
        /\ failedAt' = failedAt
        /\ strained' = IF \E q \in Requests \ {r} : InLogin(q, b)
                       THEN strained ELSE strained \ {b}
    BY <1>1, <1>6, TypeParts DEF ClearFailures, ShapeOK, Ended, Early
  <2>2. OneRow(b) /\ row'[b].attempts = 0
    BY <2>1, ClearStep
  <2>3. req'[r].at = "tokens" /\ req'[r].row = b
    BY <1>6, ClearEffect
  <2>4. CASE a # b
    <3>1. SameLock(a)
      BY <2>1, <2>2, <2>4 DEF SameLock, OneRow
    <3>2. ~InLogin(r, a) /\ req'[r].row # a /\ a \notin strained
      BY <1>6, <2>1, <2>3, <2>4 DEF InLogin
    <3>3. QED
      BY <1>1, <1>6, <2>1, <3>1, <3>2, LoginStays
  <2>5. CASE a = b
    <3>1. \A q \in Requests \ {r} : ~InLogin(q, a)
      <4>1. CASE \E q \in Requests \ {r} : InLogin(q, a)
        <5>1. a \notin strained /\ InLogin(r, a)
          BY <1>6, <2>1, <2>5, <4>1 DEF InLogin, SignInStages
        <5>2. QED
          BY <1>6, <5>1 DEF LoginOK
      <4>2. QED
        BY <4>1
    <3>2. \A q \in Requests \ {r} : ~InLogin(q, a)'
      BY <1>1, <3>1 DEF InLogin, Others
    <3>3. ~(row'[a].attempts >= MaxAttempts)
      BY <1>1, <2>2, <2>5
    <3>4. QED
      BY <2>3, <3>2, <3>3 DEF LoginOK
  <2>6. QED
    BY <2>4, <2>5
<1>7. \A a \in Rows : LoginOK(a)'
  <2>1. ASSUME NEW a \in Rows, a \in strained'
        PROVE  LoginOK(a)'
    BY <2>1 DEF LoginOK
  <2>2. QED
    BY <1>3, <1>4, <1>5, <1>6, <2>1
<1>8. QED
  BY <1>2, <1>7
-----------------------------------------------------------------------------
(* Sessions and passwords *)

LEMMA KeySteps ==
  ASSUME TypeOK, NEW r \in Requests, Step(r)
  PROVE  \/ key' = key
         \/ SignIn(r) /\ key' = [key EXCEPT ![req[r].row] = r]
         \/ RevokeSessions(r) /\ key' = [key EXCEPT ![req[r].row] = Nobody]
  BY DEF Step, CheckEmail, CheckName, InsertUser, SignIn, StoreVerifyToken, Audit, FindUser,
         CountFailure, LockAccount, ClearFailures, LookUp, StoreResetToken, CheckToken,
         ActivateByToken, SetPassword, DropToken, RevokeSessions, StatementError,
         LookUpError, RedisErrorSwallowed, LookUpStages

LEMMA PasswordSteps ==
  ASSUME TypeOK, NEW r \in Requests, ShapeOK(r), Step(r), NEW c \in Rows
  PROVE  \/ row'[c].password = row[c].password
         \/ SetPassword(r) /\ req[r].row = c
         \/ /\ InsertUser(r) /\ ~Exists(c) /\ req'[r].row = c
            /\ row'[c].password = req'[r].password
<1> DEFINE b == req[r].row
<1>1. /\ req[r].at \notin Ended \union Early => b \in Rows
      /\ now \in Nat /\ LockTime \in Nat
  BY TypeParts, AccountsAssumption
<1>2. CASE InsertUser(r)
  <2>1. CASE row' # row
    <3>1. PICK a \in Rows :
            /\ ~Exists(a) /\ \A d \in Rows \ {a} : row'[d] = row[d]
            /\ row'[a] = NewRow(req[r].email, req[r].name, req[r].password, "pending")
            /\ req'[r].row = a /\ req'[r].password = req[r].password
      BY <1>2, <2>1, InsertMakes
    <3>2. row'[a].password = req[r].password
      BY <3>1 DEF NewRow
    <3>3. QED
      BY <1>2, <3>1, <3>2
  <2>2. QED
    BY <2>1
<1>3. CASE CountFailure(r)
  <2>1. b \in Rows
    BY <1>1, <1>3 DEF CountFailure, Ended, Early
  <2>2. QED
    BY <1>3, <2>1, AttemptsStep DEF CountFailure, OneRow
<1>4. CASE LockAccount(r)
  <2>1. b \in Rows
    BY <1>1, <1>4 DEF LockAccount, Ended, Early
  <2>2. now + LockTime \in Nat /\ row' = [row EXCEPT ![b].lockedUntil = now + LockTime]
    BY <1>1, <1>4 DEF LockAccount
  <2>3. OneRow(b) /\ row'[b].password = row[b].password
    BY <2>1, <2>2, LockStep
  <2>4. QED
    BY <2>3 DEF OneRow
<1>5. CASE ClearFailures(r)
  <2>1. b \in Rows
    BY <1>1, <1>5 DEF ClearFailures, Ended, Early
  <2>2. QED
    BY <1>5, <2>1, ClearStep DEF ClearFailures, OneRow
<1>6. CASE ActivateByToken(r)
  <2>1. b \in Rows
    BY <1>1, <1>6 DEF ActivateByToken, Ended, Early
  <2>2. QED
    BY <1>6, <2>1, StatusStep DEF ActivateByToken, OneRow
<1>7. CASE SetPassword(r)
  <2>1. b \in Rows /\ req[r].password \in Passwords \union {Nobody}
    BY <1>1, <1>7, ReqType DEF SetPassword, Ended, Early, Request
  <2>2. QED
    BY <1>7, <2>1, PasswordStep DEF SetPassword, OneRow
<1>8. row' = row \/ InsertUser(r) \/ CountFailure(r) \/ LockAccount(r) \/ ClearFailures(r)
          \/ ActivateByToken(r) \/ SetPassword(r)
  BY DEF Step, CheckEmail, CheckName, SignIn, StoreVerifyToken, Audit, FindUser, LookUp,
         StoreResetToken, CheckToken, DropToken, RevokeSessions, StatementError,
         LookUpError, RedisErrorSwallowed, LookUpStages
<1>9. QED
  BY <1>2, <1>3, <1>4, <1>5, <1>6, <1>7, <1>8

LEMMA StepKeepsRenew ==
  ASSUME TypeOK, \A q \in Requests : ShapeOK(q) /\ RenewOK(q), NEW r \in Requests, Step(r)
  PROVE  \A q \in Requests : RenewOK(q)'
<1>1. Turned(r) \/ Placed(r)
  BY StepTurns
<1>2. req[r].at # "done" /\ Others(r)
  BY <1>1 DEF Turned, Placed, Follows, Moved, Dropped, LookUpStages, DbStages, SignInStages
<1>3. renewing' = renewing
  BY RenewingStays
<1>4. QED
  BY <1>2, <1>3 DEF RenewOK, Others

LEMMA StepKeepsSession ==
  ASSUME TypeOK, \A q \in Requests : ShapeOK(q) /\ RenewOK(q), \A c \in Rows : SessionOK(c),
         NEW r \in Requests, Step(r), NEW a \in Rows
  PROVE  SessionOK(a)'
<1> DEFINE b == req[r].row
<1>1. /\ Turned(r) \/ Placed(r)
      /\ Others(r) /\ ShapeOK(r) /\ crossed \subseteq crossed'
      /\ Nobody \notin Rows \union Requests /\ b \in Rows \union {Nobody}
      /\ key \in [Rows -> Requests \union {Nobody}]
      /\ req'[r].op = req[r].op
      /\ req[r].at # "done" /\ renewing' = renewing
  BY StepTurns, ReqType, TypeParts, RenewingStays
     DEF Request, KeyTypes, Turned, Placed, Follows, Moved, Dropped, LookUpStages, DbStages,
         SignInStages
<1>2. ASSUME RevokeSessions(r)
      PROVE  /\ b \in Rows /\ crossed' = crossed \union {q \in Requests : SigningIn(q, b)}
                                    \union {t \in renewing : req[t].row = b}
             /\ key' = [key EXCEPT ![b] = Nobody] /\ Moved(r, "audit")
             /\ row' = row
  BY <1>2, TypeParts, GotoMoves DEF RevokeSessions, Ended, Early, Stages, LookUpStages, DbStages
<1>3. ASSUME SignIn(r)
      PROVE  /\ b \in Rows /\ SigningIn(r, b) /\ key' = [key EXCEPT ![b] = r]
             /\ \E stage \in {"storeToken", "audit"} : Moved(r, stage)
             /\ row' = row /\ crossed' = crossed
  BY <1>3, TypeParts, GotoMoves
     DEF SignIn, SigningIn, SignInStages, Ended, Early, Stages, LookUpStages, DbStages
\* A reset under way or failed stays so until it revokes.
<1>4. ResettingOrFailed(a) => ResettingOrFailed(a)' \/ (RevokeSessions(r) /\ b = a)
  <2>1. SUFFICES ASSUME NEW q \in Requests, req[q].op = "reset", req[q].row = a,
                        req[q].at \in {"drop", "revoke", "failed"},
                        ~(RevokeSessions(r) /\ b = a)
                 PROVE  req'[q].op = "reset" /\ req'[q].row = a
                        /\ req'[q].at \in {"drop", "revoke", "failed"}
    BY DEF ResettingOrFailed
  <2>2. CASE q # r
    BY <1>1, <2>1, <2>2 DEF Others
  <2>3. CASE q = r
    <3>1. req[r].at = "revoke" => StatementError(r)
      BY <2>1, <2>3
         DEF Step, CheckEmail, CheckName, InsertUser, SignIn, StoreVerifyToken, Audit, FindUser,
             CountFailure, LockAccount, ClearFailures, LookUp, StoreResetToken, CheckToken,
             ActivateByToken, SetPassword, DropToken, LookUpError, RedisErrorSwallowed,
             LookUpStages
    <3>2. StatementError(r) => Moved(r, "failed")
      BY GotoMoves DEF StatementError, Stages, Ended
    <3>3. QED
      BY <1>1, <2>1, <2>3, <3>1, <3>2
         DEF Turned, Placed, Follows, Moved, Dropped, LookUpStages, DbStages, SignInStages
  <2>4. QED
    BY <2>2, <2>3
\* Whoever has begun or may begin the session.
<1>5. ASSUME NEW q \in Requests, Begun(q, a)'
      PROVE  \/ Begun(q, a)
             \/ q = r /\ FindUser(r) /\ req'[r].password = row[a].password
             \/ q = r /\ InsertUser(r)
  <2>1. CASE key'[a] = q /\ key'[a] # key[a]
    BY <1>1, <1>2, <1>3, <1>5, <2>1, KeySteps DEF Begun
  <2>2. CASE SigningIn(q, a)' /\ q # r
    BY <1>1, <2>2 DEF SigningIn, Begun, Others
  <2>3. CASE SigningIn(q, a)' /\ q = r
    <3>1. CASE FindUser(r)
      BY <2>3, <3>1, FindEffect DEF SigningIn, SignInStages, Dropped
    <3>2. CASE InsertUser(r)
      BY <2>3, <3>2
    <3>3. CASE ~FindUser(r) /\ ~InsertUser(r)
      <4>1. req[r].at \notin {"find", "insert"} \/ StatementError(r) \/ LookUpError(r)
        BY <3>3
           DEF Step, CheckEmail, CheckName, SignIn, StoreVerifyToken, Audit, CountFailure,
               LockAccount, ClearFailures, LookUp, StoreResetToken, CheckToken, ActivateByToken,
               SetPassword, DropToken, RevokeSessions, LookUpError, RedisErrorSwallowed,
               LookUpStages
      <4>2. (StatementError(r) => Moved(r, "failed")) /\ (LookUpError(r) => Dropped(r))
        BY GotoMoves, RejectDrops DEF StatementError, LookUpError, Stages, Ended
      <4>3. req[r].at = "clear" /\ req'[r].row = req[r].row
        BY <1>1, <2>3, <4>1, <4>2
           DEF Turned, Placed, Follows, Moved, Dropped, SigningIn, SignInStages
      <4>4. QED
        BY <2>3, <4>3 DEF Begun, SigningIn, SignInStages
    <3>4. QED
      BY <3>1, <3>2, <3>3
  <2>4. CASE q \in renewing' /\ req'[q].row = a
    <3>1. q # r
      BY <1>1, <2>4 DEF RenewOK
    <3>2. QED
      BY <1>1, <2>4, <3>1 DEF Begun, Others
  <2>5. QED
    BY <1>5, <2>1, <2>2, <2>3, <2>4 DEF Begun
\* It keeps the password it came with.
<1>6. ASSUME NEW q \in Requests, Begun(q, a)
      PROVE  req'[q].password = req[q].password
  <2>1. CASE q # r
    BY <1>1, <2>1 DEF Others
  <2>2. CASE q = r
    <3>1. req[r].at \in {"clear", "tokens", "storeToken", "audit", "done", "failed"}
      BY <1>1, <1>6, <2>2 DEF Begun, RenewOK, SessionOK, SigningIn, SignInStages
    <3>2. CASE ClearFailures(r)
      BY <2>2, <3>2, ClearEffect
    <3>3. CASE ~ClearFailures(r)
      <4>1. req[r].at # "clear" \/ StatementError(r)
        BY <3>3
           DEF Step, CheckEmail, CheckName, InsertUser, SignIn, StoreVerifyToken, Audit,
               FindUser,
               CountFailure, LockAccount, LookUp, StoreResetToken, CheckToken, ActivateByToken,
               SetPassword, DropToken, RevokeSessions, LookUpError, RedisErrorSwallowed,
               LookUpStages
      <4>2. StatementError(r) => Moved(r, "failed")
        BY GotoMoves DEF StatementError, Stages, Ended
      <4>3. \E stage \in Stages : Moved(r, stage)
        BY <1>1, <3>1, <4>1, <4>2
           DEF Turned, Placed, Follows, Stages, LookUpStages, DbStages, SignInStages, Ended
      <4>4. QED
        BY <2>2, <4>3 DEF Moved
    <3>4. QED
      BY <3>2, <3>3
  <2>3. QED
    BY <2>1, <2>2
<1>7. ASSUME NEW q \in Requests, Begun(q, a)', q \notin crossed',
             ~ResettingOrFailed(a)'
      PROVE  req'[q].password = row'[a].password
  <2>1. CASE RevokeSessions(r) /\ b = a
    <3>1. key'[a] # q
      BY <1>1, <1>2, <2>1
    <3>2. SigningIn(q, a) \/ (q \in renewing /\ req[q].row = a)
      <4>1. CASE q = r
        BY <1>1, <1>2, <1>7, <2>1, <3>1, <4>1
           DEF Begun, SigningIn, SignInStages, Moved, RenewOK
      <4>2. CASE q # r
        BY <1>1, <1>7, <3>1, <4>2 DEF Begun, SigningIn, Others
      <4>3. QED
        BY <4>1, <4>2
    <3>3. QED
      BY <1>2, <1>7, <2>1, <3>2
  <2>2. CASE /\ ~(RevokeSessions(r) /\ b = a)
             /\ Begun(q, a)
    <3>1. req[q].password = row[a].password
      BY <1>1, <1>4, <1>7, <2>2 DEF SessionOK
    <3>2. Exists(a)
      BY <1>1, <2>2, TypeParts DEF KeyTypes, Begun, SigningIn, SignInStages, ShapeOK, Ended,
                                   Early
    <3>3. ~(SetPassword(r) /\ b = a)
      <4>1. ASSUME SetPassword(r), b = a
            PROVE  FALSE
        <5>1. Moved(r, "drop") /\ req[r].op = "reset"
          BY <1>1, <4>1, GotoMoves DEF SetPassword, ShapeOK, Stages
        <5>2. ResettingOrFailed(a)'
          BY <4>1, <5>1 DEF ResettingOrFailed, Moved
        <5>3. QED
          BY <1>7, <5>2
      <4>2. QED
        BY <4>1
    <3>4. row'[a].password = row[a].password
      BY <1>1, <3>2, <3>3, PasswordSteps
    <3>5. QED
      BY <1>6, <2>2, <3>1, <3>4
  <2>3. CASE FindUser(r) /\ q = r /\ req'[r].password = row[a].password
    BY <2>3, FindEffect
  <2>4. CASE InsertUser(r) /\ q = r /\ ~Begun(q, a)
    <3>1. SigningIn(r, a)'
      BY <1>1, <1>7, <2>4 DEF InsertUser, Begun, RenewOK
    <3>2. req'[r].row = a /\ req'[r].at \in SignInStages
      BY <3>1 DEF SigningIn
    <3>3. ~Moved(r, "conflict")
      BY <3>2 DEF Moved, SignInStages
    <3>4. PICK c \in Rows :
            /\ row'[c] = NewRow(req[r].email, req[r].name, req[r].password, "pending")
            /\ req'[r].row = c /\ req'[r].password = req[r].password
      BY <1>1, <2>4, <3>3, InsertMakes
    <3>5. QED
      BY <2>4, <3>2, <3>4 DEF NewRow
  <2>5. QED
    BY <1>5, <1>7, <2>1, <2>2, <2>3, <2>4
<1>8. ASSUME key'[a] # Nobody
      PROVE  /\ req'[key'[a]].op \in {"register", "login"}
             /\ req'[key'[a]].at \in {"storeToken", "audit", "done", "failed"}
  <2>1. CASE SignIn(r) /\ b = a
    <3>1. key'[a] = r /\ req[r].op \in {"register", "login"}
      BY <1>1, <1>3, <2>1 DEF SignIn, ShapeOK
    <3>2. QED
      BY <1>1, <1>3, <2>1, <3>1 DEF Moved
  <2>2. CASE ~(SignIn(r) /\ b = a)
    <3>1. key'[a] = key[a] /\ key[a] \in Requests
      BY <1>1, <1>2, <1>3, <1>8, <2>2, KeySteps
    <3>2. /\ req[key[a]].op \in {"register", "login"}
          /\ req[key[a]].at \in {"storeToken", "audit", "done", "failed"}
      BY <1>8, <3>1 DEF SessionOK
    <3>3. CASE key[a] # r
      BY <1>1, <3>1, <3>2, <3>3 DEF Others
    <3>4. CASE key[a] = r
      <4>1. req'[r].at \in {"audit", "done", "failed"}
        BY <1>1, <3>2, <3>4
           DEF Turned, Placed, Follows, Moved, Dropped, LookUpStages, DbStages, SignInStages
      <4>2. QED
        BY <1>1, <3>1, <3>2, <3>4, <4>1
    <3>5. QED
      BY <3>3, <3>4
  <2>3. QED
    BY <2>1, <2>2
<1>9. QED
  BY <1>7, <1>8 DEF SessionOK
-----------------------------------------------------------------------------
(* The whole invariant *)

LEMMA InitIInv ==
  Init => IInv
<1> SUFFICES ASSUME Init
             PROVE  IInv
  OBVIOUS
<1>1. /\ now = 0 /\ MaxTime \in Nat /\ MaxAttempts \in Nat \ {0}
      /\ strained = {} /\ crossed = {} /\ slipped = {} /\ renewing = {}
      /\ req = [r \in Requests |-> Idle] /\ failedAt = [a \in Rows |-> 0]
      /\ key = [a \in Rows |-> Nobody]
      /\ verifyKey = [a \in Rows |-> NoKey] /\ resetKey = [a \in Rows |-> NoKey]
      /\ Nobody \notin Rows \union Requests
  BY AccountsAssumption DEF Init
<1>2. ASSUME NEW a \in Rows
      PROVE  row[a] \in Row /\ row[a].attempts = 0
  <2>1. CASE a \in Seeded
    BY <2>1, AccountsAssumption DEF Init, NewRow, Row
  <2>2. CASE a \notin Seeded
    BY <2>2 DEF Init, NewRow, Row
  <2>3. QED
    BY <2>1, <2>2
<1>3. row \in [Rows -> Row]
  BY <1>2 DEF Init
<1>4. Idle \in Request /\ NoKey \in TokenKey /\ NoKey.token = Nobody
  BY DEF Idle, Request, NoKey, TokenKey
<1>5. \A r \in Requests : req[r].at = "idle" /\ req[r].op = "none" /\ req[r].row = Nobody
  BY <1>1 DEF Idle
<1>6. TypeOK
  BY <1>1, <1>3, <1>4, <1>5 DEF TypeOK, Ended
<1>7. \A r \in Requests : ShapeOK(r) /\ RegisterOK(r) /\ PendingOK(r) /\ SuspendOK(r)
                          /\ RenewOK(r)
  BY <1>1, <1>5 DEF ShapeOK, RegisterOK, PendingOK, SuspendOK, RenewOK, Registering,
                    SignInStages, Early
<1>8. \A a \in Rows : failedAt[a] <= now /\ LoginOK(a)
  BY <1>1, <1>2, <1>5 DEF LoginOK, InLogin
<1>9. \A a \in Rows : SessionOK(a)
  BY <1>1, <1>5 DEF SessionOK, Begun, SigningIn, SignInStages
<1>10. QED
  BY <1>6, <1>7, <1>8, <1>9 DEF IInv

LEMMA ArriveKeepsIInv ==
  ASSUME IInv, NEW r \in Requests, Arrive(r)
  PROVE  IInv'
<1>1. /\ TypeOK /\ \A q \in Requests : ShapeOK(q) /\ RegisterOK(q) /\ PendingOK(q)
      /\ \A q \in Requests : SuspendOK(q) /\ RenewOK(q)
      /\ \A a \in Rows : failedAt[a] <= now /\ LoginOK(a) /\ SessionOK(a)
  BY DEF IInv
<1>2. /\ Others(r) /\ req[r].at = "idle" /\ req[r].row = Nobody /\ Nobody \notin Rows
      /\ UNCHANGED <<now, row, key, verifyKey, resetKey, failedAt, strained, slipped>>
      /\ crossed \subseteq crossed' /\ crossed' \subseteq Requests
      /\ Nobody \notin Requests /\ renewing' = renewing
  BY <1>1, ArriveTakes, ReqType, RenewingStays DEF ShapeOK, Early, TypeOK
<1>3. /\ req'[r].at \in {"email", "find", "lookup", "check"}
      /\ req'[r].at \in {"email", "find", "lookup"} => req'[r].row = Nobody
      /\ req'[r].at = "email" =>
           /\ req'[r].op = "register" /\ req'[r].email \in Emails /\ req'[r].name \in Names
           /\ crossed' = IF \E q \in Requests : Registering(q)
                         THEN crossed \union {r} \union {q \in Requests : Registering(q)}
                         ELSE crossed
      /\ req'[r].at = "find" => req'[r].op = "login"
      /\ req'[r].at = "lookup" => req'[r].op = "forgot" /\ req'[r].email \in Emails
      /\ req'[r].at = "check" => /\ req'[r].op \in {"verify", "reset"}
                                 /\ req'[r].row \in Rows /\ row'[req'[r].row].status # "absent"
  BY <1>1, <1>2, ArriveTakes DEF Exists
<1>4. TypeOK'
  <2>1. KeyTypes'
    BY <1>1, <1>2, TypeParts DEF KeyTypes, Exists
  <2>2. \A c \in Rows : Exists(c) => Exists(c)'
    BY <1>2 DEF Exists
  <2>3. /\ row' \in [Rows -> Row] /\ failedAt' \in [Rows -> 0 .. MaxTime] /\ now' = now
        /\ strained' \subseteq Rows /\ slipped' \subseteq Requests
    BY <1>1, <1>2, TypeParts
  <2>4. req'[r].at \notin Ended \union Early =>
           req'[r].row \in Rows /\ row'[req'[r].row].status # "absent"
    BY <1>3 DEF Early
  <2>5. QED
    BY <1>1, <1>2, <2>1, <2>2, <2>3, <2>4, TypeStep
<1>5. ASSUME NEW q \in Requests
      PROVE  ShapeOK(q)'
  <2>1. CASE q # r
    BY <1>1, <1>2, <2>1 DEF Others, ShapeOK, Exists
  <2>2. CASE q = r
    BY <1>2, <1>3, <2>2 DEF ShapeOK, Exists, Early
  <2>3. QED
    BY <2>1, <2>2
<1>6. ASSUME NEW q \in Requests
      PROVE  RegisterOK(q)'
  <2>1. q # r => (req'[q].at \in {"name", "insert"} => req'[q] = req[q])
    BY <1>2 DEF Others
  <2>2. /\ req'[q].at \in {"name", "insert"} /\ q \notin crossed' =>
             (WithEmail(req[q].email) = {})'
        /\ req'[q].at = "insert" /\ q \notin crossed' => (WithName(req[q].name) = {})'
    BY <1>1, <1>2, <1>3, <2>1 DEF RegisterOK, WithEmail, WithName, Found, Exists
  <2>3. ASSUME NEW t \in Requests, Registering(q)', Registering(t)', t # q
        PROVE  q \in crossed'
    <3>1. CASE q # r /\ t # r
      BY <1>1, <1>2, <2>3, <3>1 DEF Others, Registering, RegisterOK
    <3>2. CASE q = r \/ t = r
      <4>1. req'[r].at = "email"
        BY <1>3, <2>3, <3>2 DEF Registering
      <4>2. q # r => Registering(q)
        BY <1>2, <2>3 DEF Others, Registering
      <4>3. t # r => Registering(t)
        BY <1>2, <2>3 DEF Others, Registering
      <4>4. QED
        BY <1>3, <2>3, <3>2, <4>1, <4>2, <4>3
    <3>3. QED
      BY <3>1, <3>2
  <2>4. QED
    BY <2>2, <2>3 DEF RegisterOK
<1>7. ASSUME NEW q \in Requests
      PROVE  PendingOK(q)' /\ SuspendOK(q)' /\ RenewOK(q)'
  <2>1. \A t \in Requests : req'[t].op = "register" /\ req'[t].row \in Rows => req'[t] = req[t]
    BY <1>2, <1>3 DEF Others
  <2>2. req'[q].at \in {"audit", "done", "drop"} \union SignInStages => req'[q] = req[q]
    BY <1>2, <1>3 DEF Others, SignInStages
  <2>3. PendingOK(q)'
    BY <1>1, <1>2, <2>1, <2>2 DEF PendingOK
  <2>4. SuspendOK(q)'
    BY <1>1, <1>2, <2>2 DEF SuspendOK
  <2>5. RenewOK(q)'
    BY <1>1, <1>2 DEF RenewOK, Others
  <2>6. QED
    BY <2>3, <2>4, <2>5
<1>8. ASSUME NEW a \in Rows
      PROVE  failedAt'[a] <= now' /\ LoginOK(a)'
  <2>1. ~InLogin(r, a)
    BY <1>2 DEF InLogin, SignInStages
  <2>2. ~(req'[r].at \in {"increment", "lock"} \union SignInStages)
    BY <1>3 DEF SignInStages
  <2>3. SameLock(a)
    BY <1>2 DEF SameLock
  <2>4. CASE a \in strained
    BY <1>1, <1>2, <2>4 DEF LoginOK
  <2>5. CASE a \notin strained
    BY <1>1, <1>2, <2>1, <2>2, <2>3, <2>5, LoginStays
  <2>6. QED
    BY <1>1, <1>2, <2>4, <2>5 DEF LoginOK
<1>9. ASSUME NEW a \in Rows
      PROVE  SessionOK(a)'
  <2>1. SessionOK(a) /\ key' = key /\ row' = row
    BY <1>1, <1>2
  <2>2. \A q \in Requests : SigningIn(q, a)' <=> SigningIn(q, a)
    BY <1>2, <1>3 DEF SigningIn, SignInStages, Others
  <2>3. ResettingOrFailed(a) => ResettingOrFailed(a)'
    BY <1>2, <1>3 DEF ResettingOrFailed, Others
  <2>4. ~Begun(r, a) /\ r \notin renewing /\ key[a] # r
    BY <1>1, <1>2, <2>1 DEF Begun, SigningIn, SignInStages, SessionOK, RenewOK
  <2>5. key[a] # Nobody => key[a] \in Requests
    BY <1>1 DEF TypeOK
  <2>6. \A q \in Requests : Begun(q, a)' => Begun(q, a) /\ req'[q] = req[q]
    BY <1>2, <2>1, <2>2, <2>4 DEF Begun, Others
  <2>7. QED
    BY <1>2, <2>1, <2>3, <2>4, <2>5, <2>6 DEF SessionOK, Others
<1>10. QED
  BY <1>4, <1>5, <1>6, <1>7, <1>8, <1>9 DEF IInv

\* An administrator writes one status.
LEMMA StatusKeepsIInv ==
  ASSUME IInv, NEW a \in Rows, Exists(a), NEW s \in {"active", "suspended"},
         row' = [row EXCEPT ![a].status = s],
         UNCHANGED <<now, key, verifyKey, resetKey, req, failedAt, strained, crossed, renewing>>,
         slipped' \subseteq Requests, slipped \subseteq slipped',
         s = "suspended" => {q \in Requests : SigningIn(q, a)} \subseteq slipped'
  PROVE  IInv'
<1>1. /\ TypeOK /\ \A q \in Requests : ShapeOK(q) /\ RegisterOK(q) /\ PendingOK(q)
      /\ \A q \in Requests : SuspendOK(q) /\ RenewOK(q)
      /\ \A c \in Rows : failedAt[c] <= now /\ LoginOK(c) /\ SessionOK(c)
  BY DEF IInv
<1>2. /\ OneRow(a) /\ row'[a].status = s /\ row'[a].password = row[a].password
      /\ row'[a].attempts = row[a].attempts /\ row'[a].lockedUntil = row[a].lockedUntil
  BY <1>1, StatusStep
<1>3. \A c \in Rows :
        /\ Exists(c) <=> row'[c].status # "absent"
        /\ row'[c].email = row[c].email /\ row'[c].name = row[c].name
        /\ row'[c].gone = row[c].gone /\ row'[c].password = row[c].password
        /\ row'[c].attempts = row[c].attempts /\ row'[c].lockedUntil = row[c].lockedUntil
        /\ row'[c].status = "pending" => row[c].status = "pending"
        /\ row'[c].status = "suspended" =>
             row[c].status = "suspended" \/ (c = a /\ s = "suspended")
  BY <1>2 DEF OneRow, Exists
<1>4. TypeOK'
  <2>1. KeyTypes'
    BY <1>1, <1>3, TypeParts DEF KeyTypes, Exists
  <2>2. row' \in [Rows -> Row]
    BY <1>2 DEF OneRow
  <2>3. \A q \in Requests : req[q].at \notin Ended \union Early
           => req[q].row \in Rows /\ row'[req[q].row].status # "absent"
    BY <1>1, <1>3, TypeParts
  <2>4. QED
    BY <1>1, <2>1, <2>2, <2>3 DEF TypeOK, KeyTypes, Exists, Early
<1>5. ASSUME NEW q \in Requests
      PROVE  ShapeOK(q)' /\ RegisterOK(q)'
  <2>1. ShapeOK(q)'
    BY <1>1, <1>3 DEF ShapeOK, Exists
  <2>2. \A id : /\ WithEmail(id) = {} => \A c \in Rows : ~(Found(c)' /\ row'[c].email = id)
                /\ WithName(id) = {} => \A c \in Rows : ~(Found(c)' /\ row'[c].name = id)
    BY <1>3 DEF WithEmail, WithName, Found, Exists
  <2>3. RegisterOK(q)'
    <3>1. /\ \A t \in Requests : Registering(q)' /\ Registering(t)' /\ t # q => q \in crossed'
          /\ req'[q].at \in {"name", "insert"} /\ q \notin crossed' =>
                req'[q].email = req[q].email /\ WithEmail(req[q].email) = {}
          /\ req'[q].at = "insert" /\ q \notin crossed' =>
                req'[q].name = req[q].name /\ WithName(req[q].name) = {}
      BY <1>1 DEF RegisterOK, Registering
    <3>2. QED
      BY <2>2, <3>1 DEF RegisterOK, WithEmail, WithName
  <2>4. QED
    BY <2>1, <2>3
<1>6. ASSUME NEW q \in Requests
      PROVE  PendingOK(q)' /\ SuspendOK(q)' /\ RenewOK(q)'
  <2>1. /\ req[q].at \in {"audit", "drop"} \union SignInStages => req[q].row \in Rows
        /\ req[q].op = "register" /\ req[q].at = "done" => req[q].row \in Rows
    BY <1>1, TypeParts DEF Ended, Early, SignInStages, ShapeOK
  <2>2. PendingOK(q)'
    BY <1>1, <1>3, <2>1 DEF PendingOK
  <2>3. SuspendOK(q)'
    BY <1>1, <1>3, <2>1 DEF SuspendOK, SigningIn
  <2>4. RenewOK(q)'
    BY <1>1 DEF RenewOK
  <2>5. QED
    BY <2>2, <2>3, <2>4
<1>7. ASSUME NEW c \in Rows
      PROVE  failedAt'[c] <= now' /\ LoginOK(c)' /\ SessionOK(c)'
  BY <1>1, <1>3 DEF LoginOK, InLogin, SessionOK, Begun, SigningIn, ResettingOrFailed
<1>8. QED
  BY <1>4, <1>5, <1>6, <1>7 DEF IInv

\* A profile update: what it writes concerns no registration that is not crossed by it, and
\* no lock that is not strained by it.
LEMMA ProfileKeepsIInv ==
  ASSUME IInv, NEW r \in Requests, NEW a \in Rows, NEW body \in Bodies,
         UpdateProfile(r, a, body)
  PROVE  IInv'
<1> DEFINE new == Patched(row[a], body)
<1>1. /\ TypeOK /\ \A q \in Requests : ShapeOK(q) /\ RegisterOK(q) /\ PendingOK(q)
      /\ \A q \in Requests : SuspendOK(q) /\ RenewOK(q)
      /\ \A c \in Rows : failedAt[c] <= now /\ LoginOK(c) /\ SessionOK(c)
      /\ row \in [Rows -> Row]
  BY DEF IInv, TypeOK
<1>2. /\ req[r].at = "idle" /\ Exists(a) /\ row' = [row EXCEPT ![a] = new]
      /\ UNCHANGED <<now, key, verifyKey, resetKey, failedAt, slipped, renewing>>
      /\ strained' = IF body.sets \intersect {"attempts", "lockedUntil"} = {} THEN strained
                     ELSE strained \union {a}
      /\ crossed' = crossed \union
             {q \in Requests : /\ Registering(q)
                               /\ \/ req[q].email = row[a].email
                                  \/ req[q].name \in {row[a].name, new.name}}
      /\ Put(r, [Idle EXCEPT !.op = "profile", !.at = "done"])
  BY DEF UpdateProfile
<1>3. /\ new \in Row /\ new.email = row[a].email
      /\ new.status = row[a].status /\ new.password = row[a].password
      /\ body.sets \intersect {"attempts", "lockedUntil"} = {} =>
           new.attempts = row[a].attempts /\ new.lockedUntil = row[a].lockedUntil
  BY <1>1, <1>2, PatchStep
<1> HIDE DEF new
<1>4. /\ row' \in [Rows -> Row] /\ row'[a] = new /\ \A c \in Rows \ {a} : row'[c] = row[c]
  BY <1>1, <1>2, <1>3
<1>5. \A c \in Rows :
        /\ Exists(c) <=> row'[c].status # "absent"
        /\ row'[c].email = row[c].email /\ row'[c].status = row[c].status
        /\ row'[c].password = row[c].password
        /\ c \notin strained' => SameLock(c) /\ c \notin strained
  BY <1>2, <1>3, <1>4 DEF Exists, SameLock
<1>6. /\ Others(r) /\ req'[r].op = "profile" /\ req'[r].at = "done" /\ req'[r].row = Nobody
      /\ req[r].row = Nobody /\ r \notin renewing /\ Nobody \notin Rows \union Requests
  <2> DEFINE ended == [Idle EXCEPT !.op = "profile", !.at = "done"]
  <2>1. ended \in Request
    BY <1>1, ReqType DEF Idle, Request, Ended
  <2>2. Others(r) /\ req'[r] = ended
    BY <1>1, <1>2, <2>1, PutOne
  <2>3. QED
    BY <1>1, <1>2, <2>2, ReqType DEF Idle, ShapeOK, RenewOK, Early
<1>7. TypeOK'
  <2>1. KeyTypes'
    BY <1>1, <1>2, <1>5, TypeParts DEF KeyTypes, Exists
  <2>2. \A c \in Rows : Exists(c) => Exists(c)'
    BY <1>5 DEF Exists
  <2>3. /\ failedAt' \in [Rows -> 0 .. MaxTime] /\ strained' \subseteq Rows
        /\ crossed' \subseteq Requests /\ slipped' \subseteq Requests
    BY <1>1, <1>2 DEF TypeOK
  <2>4. QED
    BY <1>1, <1>2, <1>4, <1>6, <2>1, <2>2, <2>3, TypeStep DEF Ended
<1>8. ASSUME NEW q \in Requests
      PROVE  ShapeOK(q)'
  <2>1. CASE q # r
    BY <1>1, <1>5, <1>6, <2>1 DEF Others, ShapeOK, Exists
  <2>2. CASE q = r
    BY <1>6, <2>2 DEF ShapeOK, Exists, Early
  <2>3. QED
    BY <2>1, <2>2
<1>9. ASSUME NEW q \in Requests
      PROVE  RegisterOK(q)'
  <2>1. CASE q = r
    BY <1>6, <2>1 DEF RegisterOK, Registering
  <2>2. CASE q # r
    <3>1. req'[q] = req[q] /\ (q \notin crossed' => q \notin crossed)
      BY <1>2, <1>6, <2>2 DEF Others
    <3>2. \A t \in Requests : Registering(t)' => Registering(t)
      BY <1>6 DEF Registering, Others
    <3>3. \A t \in Requests : Registering(q)' /\ Registering(t)' /\ t # q => q \in crossed'
      BY <1>1, <3>1, <3>2 DEF RegisterOK
    <3>4. ASSUME req[q].at \in {"name", "insert"}, q \notin crossed'
          PROVE  /\ WithEmail(req[q].email) = {}
                 /\ req[q].at = "insert" => WithName(req[q].name) = {}
                 /\ req[q].email # row[a].email /\ req[q].name # new.name
      <4>1. Registering(q)
        BY <1>1, <3>4 DEF ShapeOK, Registering
      <4>2. QED
        BY <1>1, <1>2, <3>1, <3>4, <4>1 DEF RegisterOK
    <3>5. /\ req[q].at \in {"name", "insert"} /\ q \notin crossed' =>
                (WithEmail(req[q].email) = {})'
          /\ req[q].at = "insert" /\ q \notin crossed' => (WithName(req[q].name) = {})'
      BY <1>4, <1>5, <3>1, <3>4 DEF WithEmail, WithName, Found, Exists
    <3>6. QED
      BY <3>1, <3>3, <3>5 DEF RegisterOK
  <2>3. QED
    BY <2>1, <2>2
<1>10. ASSUME NEW q \in Requests
       PROVE  PendingOK(q)' /\ SuspendOK(q)' /\ RenewOK(q)'
  <2>1. CASE q = r
    BY <1>2, <1>6, <2>1 DEF PendingOK, SuspendOK, RenewOK, SignInStages
  <2>2. CASE q # r
    <3>1. req'[q] = req[q]
      BY <1>6, <2>2 DEF Others
    <3>2. /\ req[q].at \in {"audit", "drop"} \union SignInStages => req[q].row \in Rows
          /\ req[q].op = "register" /\ req[q].at = "done" => req[q].row \in Rows
      BY <1>1, TypeParts DEF Ended, Early, SignInStages, ShapeOK
    <3>3. \A t \in Requests : req'[t].op = "register" => req'[t] = req[t]
      BY <1>6 DEF Others
    <3>4. PendingOK(q)'
      BY <1>1, <1>2, <1>5, <3>1, <3>2, <3>3 DEF PendingOK
    <3>5. SuspendOK(q)' /\ RenewOK(q)'
      BY <1>1, <1>2, <1>5, <3>1, <3>2 DEF SuspendOK, RenewOK
    <3>6. QED
      BY <3>4, <3>5
  <2>3. QED
    BY <2>1, <2>2
<1>11. ASSUME NEW c \in Rows
       PROVE  failedAt'[c] <= now' /\ LoginOK(c)'
  <2>1. CASE c \in strained'
    BY <1>1, <1>2, <2>1 DEF LoginOK
  <2>2. CASE c \notin strained'
    <3>1. LoginOK(c) /\ SameLock(c) /\ c \notin strained /\ Others(r)
      BY <1>1, <1>5, <1>6, <2>2
    <3>2. ~InLogin(r, c) /\ req'[r].op # "login"
      BY <1>2, <1>6 DEF InLogin, SignInStages
    <3>3. LoginOK(c)'
      BY <3>1, <3>2, LoginStays
    <3>4. QED
      BY <1>1, <1>2, <3>3
  <2>3. QED
    BY <2>1, <2>2
<1>12. ASSUME NEW c \in Rows
       PROVE  SessionOK(c)'
  <2>1. \A q \in Requests : Begun(q, c)' => Begun(q, c) /\ req'[q] = req[q]
    BY <1>1, <1>2, <1>6 DEF Begun, SigningIn, SignInStages, SessionOK, Others
  <2>2. ResettingOrFailed(c) => ResettingOrFailed(c)'
    BY <1>2, <1>6 DEF ResettingOrFailed, Others
  <2>3. key[c] # Nobody => key[c] \in Requests \ {r}
    BY <1>1, <1>2 DEF SessionOK, TypeOK
  <2>4. QED
    BY <1>1, <1>2, <1>5, <1>6, <2>1, <2>2, <2>3 DEF SessionOK, Others
<1>13. QED
  BY <1>7, <1>8, <1>9, <1>10, <1>11, <1>12 DEF IInv

LEMMA StillKeepsIInv ==
  ASSUME IInv, now' \in 0 .. MaxTime, now <= now',
         UNCHANGED <<row, key, verifyKey, resetKey, req, failedAt, strained, crossed, slipped,
                     renewing>>
  PROVE  IInv'
<1>1. /\ TypeOK /\ \A q \in Requests : ShapeOK(q) /\ RegisterOK(q) /\ PendingOK(q)
      /\ \A q \in Requests : SuspendOK(q) /\ RenewOK(q)
      /\ \A c \in Rows : failedAt[c] <= now /\ LoginOK(c) /\ SessionOK(c)
  BY DEF IInv
<1>2. TypeOK'
  BY <1>1 DEF TypeOK
<1>3. \A q \in Requests : ShapeOK(q)' /\ RegisterOK(q)'
  BY <1>1 DEF ShapeOK, Exists, RegisterOK, Registering, WithEmail, WithName, Found
<1>4. \A q \in Requests : PendingOK(q)' /\ SuspendOK(q)' /\ RenewOK(q)'
  BY <1>1 DEF PendingOK, SuspendOK, RenewOK
<1>5. \A c \in Rows : failedAt'[c] <= now'
  <2>1. MaxTime \in Nat /\ now \in 0 .. MaxTime /\ failedAt \in [Rows -> 0 .. MaxTime]
    BY <1>1, AccountsAssumption DEF TypeOK
  <2>2. QED
    BY <1>1, <2>1
<1>6. \A c \in Rows : LoginOK(c)' /\ SessionOK(c)'
  BY <1>1 DEF LoginOK, InLogin, SessionOK, Begun, SigningIn, ResettingOrFailed
<1>7. QED
  BY <1>2, <1>3, <1>4, <1>5, <1>6 DEF IInv

\* A refresh takes its session's comparison, puts its session back or gives up; a logout
\* takes a session away.
SessionStep ==
    /\ key' \in [Rows -> Requests \union {Nobody}] /\ renewing' \subseteq Requests
    /\ \A c \in Rows :
            \/ key'[c] \in {key[c], Nobody}
            \/ key'[c] \in renewing /\ req[key'[c]].row = c
    /\ \A t \in renewing' \ renewing :
          /\ req[t].op \in {"register", "login"} /\ req[t].at = "done" /\ req[t].row \in Rows
          /\ key[req[t].row] = t

LEMMA SessionKeepsIInv ==
  ASSUME IInv, SessionStep,
         UNCHANGED <<now, row, verifyKey, resetKey, req, failedAt, strained, crossed, slipped>>
  PROVE  IInv'
<1>1. /\ TypeOK /\ \A q \in Requests : ShapeOK(q) /\ RegisterOK(q) /\ PendingOK(q)
      /\ \A q \in Requests : SuspendOK(q) /\ RenewOK(q)
      /\ \A c \in Rows : failedAt[c] <= now /\ LoginOK(c) /\ SessionOK(c)
      /\ Nobody \notin Requests /\ renewing \subseteq Requests
      /\ key' \in [Rows -> Requests \union {Nobody}] /\ renewing' \subseteq Requests
      /\ \A c \in Rows :
            \/ key'[c] \in {key[c], Nobody}
            \/ key'[c] \in renewing /\ req[key'[c]].row = c
      /\ \A t \in renewing' \ renewing :
            /\ req[t].op \in {"register", "login"} /\ req[t].at = "done" /\ req[t].row \in Rows
            /\ key[req[t].row] = t
  BY AccountsAssumption DEF IInv, TypeOK, SessionStep
<1>2. TypeOK'
  <2>1. \A c \in Rows : row[c].status = "absent" => key'[c] = Nobody
    BY <1>1 DEF TypeOK, ShapeOK, Exists
  <2>2. QED
    BY <1>1, <2>1 DEF TypeOK
<1>3. \A q \in Requests : ShapeOK(q)' /\ RegisterOK(q)'
  BY <1>1 DEF ShapeOK, Exists, RegisterOK, Registering, WithEmail, WithName, Found
<1>4. \A q \in Requests : PendingOK(q)' /\ SuspendOK(q)' /\ RenewOK(q)'
  BY <1>1 DEF PendingOK, SuspendOK, RenewOK
<1>5. \A c \in Rows : failedAt'[c] <= now' /\ LoginOK(c)'
  BY <1>1 DEF LoginOK, InLogin
<1>6. ASSUME NEW c \in Rows
      PROVE  SessionOK(c)'
  <2>1. \A q \in Requests : Begun(q, c)' => Begun(q, c)
    BY <1>1 DEF Begun, SigningIn
  <2>2. key'[c] # Nobody => /\ req[key'[c]].op \in {"register", "login"}
                            /\ req[key'[c]].at \in {"storeToken", "audit", "done", "failed"}
    BY <1>1 DEF SessionOK, RenewOK
  <2>3. QED
    BY <1>1, <2>1, <2>2 DEF SessionOK, ResettingOrFailed
<1>7. QED
  BY <1>2, <1>3, <1>4, <1>5, <1>6 DEF IInv

LEMMA NextKeepsIInv ==
  IInv /\ [Next]_vars => IInv'
<1> SUFFICES ASSUME IInv, [Next]_vars
             PROVE  IInv'
  OBVIOUS
<1>1. /\ TypeOK /\ \A q \in Requests : ShapeOK(q) /\ RegisterOK(q) /\ PendingOK(q)
      /\ \A q \in Requests : SuspendOK(q) /\ RenewOK(q)
      /\ \A c \in Rows : failedAt[c] <= now /\ LoginOK(c) /\ SessionOK(c)
      /\ now \in 0 .. MaxTime /\ MaxTime \in Nat /\ slipped \subseteq Requests
      /\ key \in [Rows -> Requests \union {Nobody}] /\ renewing \subseteq Requests
  BY AccountsAssumption DEF IInv, TypeOK
<1>2. ASSUME NEW r \in Requests, Step(r)
      PROVE  IInv'
  <2>1. TypeOK'
    BY <1>1, <1>2, StepKeepsType
  <2>2. \A q \in Requests : ShapeOK(q)'
    BY <1>1, <1>2, StepKeepsShape
  <2>3. \A q \in Requests : RegisterOK(q)'
    BY <1>1, <1>2, StepKeepsRegister
  <2>4. \A q \in Requests : PendingOK(q)'
    BY <1>1, <1>2, StepKeepsPending
  <2>5. \A q \in Requests : SuspendOK(q)' /\ RenewOK(q)'
    <3>1. \A q \in Requests : SuspendOK(q)'
      BY <1>1, <1>2, StepKeepsSuspend
    <3>2. \A q \in Requests : RenewOK(q)'
      BY <1>1, <1>2, StepKeepsRenew
    <3>3. QED
      BY <3>1, <3>2
  <2>6. \A c \in Rows : failedAt'[c] <= now' /\ LoginOK(c)'
    BY <1>1, <1>2, StepKeepsLogin
  <2>7. \A c \in Rows : SessionOK(c)'
    BY <1>1, <1>2, StepKeepsSession
  <2>8. QED
    BY <2>1, <2>2, <2>3, <2>4, <2>5, <2>6, <2>7 DEF IInv
<1>3. ASSUME NEW a \in Rows, Suspend(a)
      PROVE  IInv'
  <2>1. /\ Exists(a) /\ row' = [row EXCEPT ![a].status = "suspended"]
        /\ UNCHANGED <<now, key, verifyKey, resetKey, req, failedAt, strained, crossed, renewing>>
        /\ slipped' = slipped \union {q \in Requests : SigningIn(q, a)}
    BY <1>3 DEF Suspend
  <2>2. QED
    BY <1>1, <2>1, StatusKeepsIInv
<1>4. ASSUME NEW a \in Rows, Activate(a)
      PROVE  IInv'
  <2>1. /\ Exists(a) /\ row' = [row EXCEPT ![a].status = "active"]
        /\ UNCHANGED <<now, key, verifyKey, resetKey, req, failedAt, strained, crossed, renewing>>
        /\ slipped' = slipped
    BY <1>4 DEF Activate
  <2>2. QED
    BY <1>1, <2>1, StatusKeepsIInv
<1>5. CASE Tick
  BY <1>1, <1>5, StillKeepsIInv DEF Tick
<1>6. CASE UNCHANGED vars
  BY <1>1, <1>6, StillKeepsIInv DEF vars
<1>7. ASSUME NEW t \in Requests, CompareStored(t) \/ Renew(t) \/ RenewError(t)
      PROVE  IInv'
  <2>1. renewing' \subseteq renewing \union {t}
    BY <1>7 DEF CompareStored, Renew, RenewError
  <2>2. t \in renewing => req[t].row \in Rows
    BY <1>1 DEF RenewOK
  <2>3. key' \in [Rows -> Requests \union {Nobody}]
    BY <1>1, <1>7, <2>2 DEF CompareStored, Renew, RenewError
  <2>4. \A c \in Rows :
            \/ key'[c] \in {key[c], Nobody}
            \/ key'[c] \in renewing /\ req[key'[c]].row = c
    <3>1. ASSUME NEW c \in Rows
          PROVE  key'[c] = key[c] \/ (key'[c] = t /\ t \in renewing /\ req[t].row = c)
      <4>1. CASE key' = key
        BY <4>1
      <4>2. CASE Renew(t)
        <5>1. key' = [key EXCEPT ![req[t].row] = t] /\ t \in renewing
          BY <4>2 DEF Renew
        <5>2. QED
          BY <1>1, <5>1
      <4>3. QED
        BY <1>7, <4>1, <4>2 DEF CompareStored, RenewError
    <3>2. QED
      BY <3>1
  <2>5. \A q \in renewing' \ renewing :
           /\ req[q].op \in {"register", "login"} /\ req[q].at = "done" /\ req[q].row \in Rows
           /\ key[req[q].row] = q
    BY <1>7 DEF CompareStored, Renew, RenewError
  <2>6. UNCHANGED <<now, row, verifyKey, resetKey, req, failedAt, strained, crossed, slipped>>
    BY <1>7 DEF CompareStored, Renew, RenewError
  <2>7. QED
    <3>1. SessionStep
      BY <1>1, <2>1, <2>3, <2>4, <2>5 DEF SessionStep
    <3>2. QED
      BY <2>6, <3>1, SessionKeepsIInv
<1>8. ASSUME NEW a \in Rows, SignOut(a)
      PROVE  IInv'
  <2>1. /\ key' \in [Rows -> Requests \union {Nobody}]
        /\ \A c \in Rows : key'[c] \in {key[c], Nobody}
        /\ UNCHANGED <<now, row, verifyKey, resetKey, req, failedAt, strained, crossed, slipped>>
        /\ renewing' \subseteq Requests /\ renewing' \ renewing = {}
    BY <1>1, <1>8 DEF SignOut
  <2>2. /\ \A c \in Rows :
            \/ key'[c] \in {key[c], Nobody}
            \/ key'[c] \in renewing /\ req[key'[c]].row = c
        /\ \A t \in renewing' \ renewing :
              /\ req[t].op \in {"register", "login"} /\ req[t].at = "done"
              /\ req[t].row \in Rows /\ key[req[t].row] = t
    BY <2>1
  <2>3. QED
    <3>1. SessionStep
      BY <1>1, <2>1, <2>2 DEF SessionStep
    <3>2. QED
      BY <2>1, <3>1, SessionKeepsIInv
<1>9. QED
  BY <1>2, <1>3, <1>4, <1>5, <1>6, <1>7, <1>8, ArriveKeepsIInv, ProfileKeepsIInv DEF Next

THEOREM Invariance ==
  Spec => []IInv
<1>1. QED
  BY InitIInv, NextKeepsIInv, PTL DEF Spec

\* Rows, keys and requests have the types the model gives them, and a request that has
\* come to work on a row works on one that is there (auth.service.ts, user.service.ts).
THEOREM TypeCorrect ==
  Spec => []TypeOK
<1>1. IInv => TypeOK
  BY DEF IInv
<1>2. QED
  BY <1>1, Invariance, PTL

\* A registration that passed emailExists and usernameExists and is still refused by a
\* unique index was overlapped by another registration or by a profile update that
\* concerns its e-mail or name, or is refused for a row whose deletedAt is set.
THEOREM ConflictsAreRaces ==
  Spec => ConflictOnlyInRace
<1> DEFINE Raced == \A r \in Requests :
              req[r].at # "conflict" /\ req'[r].at = "conflict" =>
                  \/ r \in crossed
                  \/ \E a \in Rows : /\ Exists(a) /\ row[a].gone
                                     /\ \/ row[a].email = req[r].email
                                        \/ row[a].name = req[r].name
<1>1. IInv /\ [Next]_vars => [Raced]_vars
  <2> SUFFICES ASSUME IInv, Next,
                      NEW q \in Requests, req[q].at # "conflict", req'[q].at = "conflict",
                      q \notin crossed
               PROVE  \E a \in Rows : /\ Exists(a) /\ row[a].gone
                                      /\ \/ row[a].email = req[q].email
                                         \/ row[a].name = req[q].name
    BY DEF vars
  <2>1. TypeOK /\ \A r \in Requests : ShapeOK(r) /\ RegisterOK(r)
    BY DEF IInv
  <2>2. ASSUME NEW r \in Requests, Step(r)
        PROVE  req[q].at = "insert" /\ Taken(req[q].email, req[q].name)
    <3>1. Others(r) /\ (Turned(r) \/ Placed(r))
      BY <2>1, <2>2, StepTurns
    <3>2. r = q
      BY <3>1 DEF Others
    <3>3. QED
      BY <3>1, <3>2 DEF Turned, Placed, Follows, Moved, Dropped
  <2>3. ASSUME NEW r \in Requests, Arrive(r)
        PROVE  FALSE
    BY <2>1, <2>3, ArriveTakes DEF Others
  <2>4. ASSUME NEW r \in Requests, NEW a \in Rows, NEW body \in Bodies,
               UpdateProfile(r, a, body)
        PROVE  FALSE
    <3> DEFINE ended == [Idle EXCEPT !.op = "profile", !.at = "done"]
    <3>1. ended \in Request
      BY <2>1, ReqType DEF Idle, Request, Ended
    <3>2. Others(r) /\ req'[r] = ended
      BY <2>1, <2>4, <3>1, PutOne DEF UpdateProfile
    <3>3. QED
      BY <3>2 DEF Others, Idle
  <2>5. CASE req' = req
    BY <2>5
  <2>6. \E r \in Requests : Step(r)
    BY <2>3, <2>4, <2>5
       DEF Next, CompareStored, Renew, RenewError, Suspend, Activate, SignOut, Tick
  <2>7. req[q].at = "insert" /\ Taken(req[q].email, req[q].name)
    BY <2>2, <2>6
  <2>8. WithEmail(req[q].email) = {} /\ WithName(req[q].name) = {}
    BY <2>1, <2>7 DEF RegisterOK
  <2>9. QED
    BY <2>7, <2>8 DEF Taken, WithEmail, WithName, Found
<1>2. QED
  BY <1>1, Invariance, PTL DEF Spec, ConflictOnlyInRace

\* The verification token of whoever registered successfully is there as long as the
\* account is pending: verifyEmail deletes it only after it has written the status.
THEOREM PendingCanVerify ==
  Spec => []PendingVerifiable
<1>1. IInv => PendingVerifiable
  BY DEF IInv, PendingOK, PendingVerifiable
<1>2. QED
  BY <1>1, Invariance, PTL

\* From the MaxAttempts-th wrong password on each one locks the account for the full
\* time, whatever else runs, if the logins of the account neither overlapped nor failed and
\* no profile update wrote the counters.
THEOREM FailuresLock ==
  Spec => []FailureLocks
<1>1. IInv => FailureLocks
  BY DEF IInv, LoginOK, FailureLocks
<1>2. QED
  BY <1>1, Invariance, PTL

\* The session an account has was begun with its present password, unless a reset is
\* under way or failed or the sign-in, or a refresh of the session, was half done when a
\* reset revoked the sessions.
THEOREM SessionsCorrect ==
  Spec => []SessionsFollowPassword
<1>1. IInv => SessionsFollowPassword
  BY DEF IInv, TypeOK, SessionOK, Begun, SessionsFollowPassword
<1>2. QED
  BY <1>1, Invariance, PTL

\* generateTokens begins no session of a suspended user, except for a sign-in that had
\* passed the look at the status before the suspension; a refresh puts back the session
\* that it refreshes.
THEOREM SuspendedStayOut ==
  Spec => SuspendedNotLetIn
<1> DEFINE NotLetIn == \A a \in Rows : row[a].status = "suspended" =>
                          key'[a] \in {key[a], Nobody} \union slipped \union renewing
<1>1. IInv /\ [Next]_vars => [NotLetIn]_vars
  <2> SUFFICES ASSUME IInv, Next
               PROVE  NotLetIn
    BY DEF vars
  <2>1. /\ TypeOK /\ \A q \in Requests : ShapeOK(q) /\ SuspendOK(q)
        /\ key \in [Rows -> Requests \union {Nobody}]
    BY DEF IInv, TypeOK
  <2>2. ASSUME NEW r \in Requests, Step(r)
        PROVE  NotLetIn
    BY <2>1, <2>2, KeySteps DEF SignIn, SuspendOK, SignInStages
  <2>3. CASE key' = key
    BY <2>3
  <2>4. ASSUME NEW t \in Requests, CompareStored(t) \/ Renew(t) \/ RenewError(t)
        PROVE  NotLetIn
    BY <2>1, <2>4 DEF CompareStored, Renew, RenewError
  <2>5. ASSUME NEW a \in Rows, SignOut(a)
        PROVE  NotLetIn
    BY <2>1, <2>5 DEF SignOut
  <2>6. QED
    BY <2>1, <2>2, <2>3, <2>4, <2>5, ArriveTakes
       DEF Next, Suspend, Activate, UpdateProfile, Tick
<1>2. QED
  BY <1>1, Invariance, PTL DEF Spec, SuspendedNotLetIn
=============================================================================
