------------------------------ MODULE Accounts ------------------------------
(***************************************************************************)
(* Accounts and how one gets into them: register, login, verifyEmail,      *)
(* requestPasswordReset and resetPassword of auth.service.ts, refresh and  *)
(* logout as far as they touch the stored refresh token, updateProfile,    *)
(* suspendUser and activateUser of user.service.ts.  One action per await; *)
(* any statement may fail and nothing is undone.                           *)
(*                                                                         *)
(* Left out are columns that decide nothing here (email_verified, the      *)
(* token columns, last login, online status): a statement that writes only *)
(* these is folded into the next one.  So are the audit jobs of attempts   *)
(* that end in an error anyway.  changePassword is left out because it     *)
(* never gets past its comparison: findById does not select the password.  *)
(***************************************************************************)
EXTENDS Integers, FiniteSets

CONSTANTS
    Rows,           \* ids a users row may get
    Seeded,         \* rows registered and verified before time 0
    SeedEmail, SeedName, SeedPassword,  \* their columns
    Emails, Names, Passwords,   \* what requests may come with
    Requests,       \* service calls, each served once: Requests bounds a run
    Bodies,         \* what a profile update may write
    MaxAttempts,    \* 5: the failure that locks
    LockTime,       \* 30 minutes
    ResetTtl,       \* an hour, the life of a reset token
    VerifyTtl,      \* a day, the life of a verification token
    MaxTime,        \* the end of the modelled time
    Nobody          \* no row, request, e-mail or password

ASSUME AccountsAssumption ==
    /\ Seeded \subseteq Rows
    /\ SeedEmail \in [Seeded -> Emails] /\ SeedName \in [Seeded -> Names]
    /\ SeedPassword \in Passwords
    /\ \A a, b \in Seeded : a # b => SeedEmail[a] # SeedEmail[b] /\ SeedName[a] # SeedName[b]
    /\ Emails \intersect Names = {}
    /\ Nobody \notin Rows \union Requests \union Emails \union Names \union Passwords
    /\ Bodies \subseteq [sets: SUBSET {"name", "attempts", "lockedUntil", "gone"},
                         name: Emails \union Names, attempts: Int, lockedUntil: Nat,
                         gone: BOOLEAN]
    /\ MaxAttempts \in Nat \ {0} /\ MaxTime \in Nat
    /\ LockTime \in Nat \ {0} /\ ResetTtl \in Nat \ {0} /\ VerifyTtl \in Nat \ {0}

VARIABLES
    now,
    row,        \* row[a]: the users row
    key,        \* key[a]: the request whose sign-in a's refresh_token key goes back to
    verifyKey,  \* verifyKey[a]: the email_verification key in Redis
    resetKey,   \* resetKey[a]: the password_reset key
    req,        \* how far each request has come
    failedAt,   \* failedAt[a]: when a wrong password for a was last counted
    strained,   \* rows of whom two logins overlapped, one failed or a profile update wrote
                \* the counters, since a reset to 0
    crossed,    \* registrations that overlapped one another or a profile update that
                \* concerned their name or e-mail, and sessions that were half begun or
                \* half refreshed at a revocation
    slipped,    \* sign-ins that were half done at a suspension and still are
    renewing    \* sessions with a refresh that is past its comparison

vars == <<now, row, key, verifyKey, resetKey, req, failedAt, strained, crossed, slipped,
          renewing>>

SignInStages == {"clear", "tokens"}
LookUpStages == {"email", "name", "insert", "find", "lookup"}
DbStages == SignInStages \union {"storeToken", "audit", "increment", "lock", "activate",
                                 "storeReset", "password", "revoke"}
Ended == {"done", "rejected", "conflict", "failed"}

Row == [email: Emails \union {Nobody}, name: Emails \union Names \union {Nobody},
        password: Passwords \union {Nobody}, form: {"hash", "text"},
        status: {"absent", "pending", "active", "suspended"},
        attempts: Int, lockedUntil: Nat, gone: BOOLEAN]
TokenKey == [token: Requests \union {Nobody}, until: Nat]
Request == [op: {"none", "register", "login", "verify", "forgot", "reset", "profile"},
            email: Emails \union Names \union {Nobody}, name: Names \union {Nobody},
            password: Passwords \union {Nobody}, row: Rows \union {Nobody},
            token: Requests \union {Nobody}, tries: Int,
            at: {"idle", "check", "drop"} \union LookUpStages \union DbStages \union Ended]

TypeOK ==
    /\ now \in 0 .. MaxTime
    /\ row \in [Rows -> Row]
    /\ key \in [Rows -> Requests \union {Nobody}]
    /\ verifyKey \in [Rows -> TokenKey] /\ resetKey \in [Rows -> TokenKey]
    /\ req \in [Requests -> Request]
    /\ failedAt \in [Rows -> 0 .. MaxTime]
    /\ strained \subseteq Rows /\ crossed \subseteq Requests /\ slipped \subseteq Requests
    /\ renewing \subseteq Requests
    /\ \A a \in Rows : row[a].status = "absent" =>
          key[a] = Nobody /\ verifyKey[a].token = Nobody /\ resetKey[a].token = Nobody
    /\ \A r \in Requests :
          req[r].at \notin Ended \union {"idle", "email", "name", "insert", "find", "lookup"}
              => req[r].row \in Rows /\ row[req[r].row].status # "absent"

NoKey == [token |-> Nobody, until |-> 0]
Idle == [op |-> "none", email |-> Nobody, name |-> Nobody, password |-> Nobody, row |-> Nobody,
         token |-> Nobody, tries |-> 0, at |-> "idle"]
NewRow(e, n, p, s) == [email |-> e, name |-> n, password |-> p, form |-> "hash", status |-> s,
                       attempts |-> 0, lockedUntil |-> 0, gone |-> FALSE]

Init ==
    /\ now = 0
    /\ row = [a \in Rows |-> IF a \in Seeded
                             THEN NewRow(SeedEmail[a], SeedName[a], SeedPassword, "active")
                             ELSE NewRow(Nobody, Nobody, Nobody, "absent")]
    /\ key = [a \in Rows |-> Nobody]
    /\ verifyKey = [a \in Rows |-> NoKey] /\ resetKey = [a \in Rows |-> NoKey]
    /\ req = [r \in Requests |-> Idle]
    /\ failedAt = [a \in Rows |-> 0]
    /\ strained = {} /\ crossed = {} /\ slipped = {} /\ renewing = {}

Exists(a) == row[a].status # "absent"
\* The repositories' lookups pass over rows whose deletedAt is set; the indexes do not.
Found(a) == Exists(a) /\ ~row[a].gone
WithEmail(e) == {a \in Rows : Found(a) /\ row[a].email = e}
WithName(n) == {a \in Rows : Found(a) /\ row[a].name = n}
Taken(e, n) == \E a \in Rows : Exists(a) /\ (row[a].email = e \/ row[a].name = n)
Holds(k, t) == k.token = t /\ now < k.until

\* bcrypt.compare: true of the hash of the password, false of anything not a hash.
Opens(a, p) == row[a].form = "hash" /\ row[a].password = p

Put(r, request) == req' = [req EXCEPT ![r] = request]
Goto(r, stage) == Put(r, [req[r] EXCEPT !.at = stage])
\* A request keeps what it came with only as long as something depends on it.
Reject(r) == Put(r, [Idle EXCEPT !.op = req[r].op, !.at = "rejected"])
Registering(q) == req[q].op = "register" /\ req[q].at \in {"email", "name", "insert"}
InLogin(q, a) == /\ req[q].op = "login" /\ req[q].row = a
                 /\ req[q].at \in {"increment", "lock"} \union SignInStages
SigningIn(q, a) == req[q].row = a /\ req[q].at \in SignInStages
-----------------------------------------------------------------------------
(* register.  A definition whose comment starts with Fault is a wrong       *)
(* version of the next one, kept to show that a property notices it.        *)

ArriveRegister(r, e, n, p) ==
    /\ req[r].at = "idle"
    /\ Put(r, [Idle EXCEPT !.op = "register", !.email = e, !.name = n, !.password = p,
                           !.at = "email"])
    /\ crossed' = IF \E q \in Requests : Registering(q)
                  THEN crossed \union {r} \union {q \in Requests : Registering(q)} ELSE crossed
    /\ UNCHANGED <<now, row, key, verifyKey, resetKey, failedAt, strained, slipped, renewing>>

\* emailExists.
CheckEmail(r) ==
    /\ req[r].at = "email"
    /\ IF WithEmail(req[r].email) # {} THEN Reject(r) ELSE Goto(r, "name")
    /\ UNCHANGED <<now, row, key, verifyKey, resetKey, failedAt, strained, crossed, slipped,
                   renewing>>

\* Fault: it is the e-mail that is looked up again.
CheckNameAsEmail(r) ==
    /\ req[r].at = "name"
    /\ IF WithEmail(req[r].email) # {} THEN Reject(r) ELSE Goto(r, "insert")
    /\ UNCHANGED <<now, row, key, verifyKey, resetKey, failedAt, strained, crossed, slipped,
                   renewing>>

\* usernameExists.
CheckName(r) ==
    /\ req[r].at = "name"
    /\ IF WithName(req[r].name) # {} THEN Reject(r) ELSE Goto(r, "insert")
    /\ UNCHANGED <<now, row, key, verifyKey, resetKey, failedAt, strained, crossed, slipped,
                   renewing>>

\* create: the hook hashes the password, then the two unique indexes decide.
InsertUser(r) ==
    /\ req[r].at = "insert"
    /\ IF Taken(req[r].email, req[r].name)
       THEN /\ Goto(r, "conflict")
            /\ UNCHANGED row
       ELSE \E a \in Rows :
            /\ ~Exists(a)
            /\ row' = [row EXCEPT ![a] = NewRow(req[r].email, req[r].name, req[r].password,
                                                "pending")]
            /\ Put(r, [req[r] EXCEPT !.row = a, !.email = Nobody, !.name = Nobody,
                                     !.at = "tokens"])
    /\ UNCHANGED <<now, key, verifyKey, resetKey, failedAt, strained, crossed, slipped,
                   renewing>>

\* generateTokens, for register and login alike.
SignIn(r) ==
    /\ req[r].at = "tokens"
    /\ key' = [key EXCEPT ![req[r].row] = r]
    /\ Goto(r, IF req[r].op = "register" THEN "storeToken" ELSE "audit")
    /\ slipped' = slipped \ {r}
    /\ UNCHANGED <<now, row, verifyKey, resetKey, failedAt, strained, crossed, renewing>>

StoreVerifyToken(r) ==
    /\ req[r].at = "storeToken"
    /\ verifyKey' = [verifyKey EXCEPT ![req[r].row] = [token |-> r, until |-> now + VerifyTtl]]
    /\ Goto(r, "audit")
    /\ UNCHANGED <<now, row, key, resetKey, failedAt, strained, crossed, slipped, renewing>>

\* addAuditLogJob, the last statement of whatever went well.
Audit(r) ==
    /\ req[r].at = "audit"
    /\ Goto(r, "done")
    /\ UNCHANGED <<now, row, key, verifyKey, resetKey, failedAt, strained, crossed, slipped,
                   renewing>>
-----------------------------------------------------------------------------
(* login.                                                                   *)

ArriveLogin(r, id, p) ==
    /\ req[r].at = "idle"
    /\ Put(r, [Idle EXCEPT !.op = "login", !.email = id, !.password = p, !.at = "find"])
    /\ UNCHANGED <<now, row, key, verifyKey, resetKey, failedAt, strained, crossed, slipped,
                   renewing>>

\* What login does with the row a it read; the comparison has the row's values.
Judge(r, a) ==
    /\ Put(r, [req[r] EXCEPT !.row = a, !.email = Nobody, !.tries = row[a].attempts,
                             !.at = IF Opens(a, req[r].password) THEN "clear" ELSE "increment"])
    /\ strained' = IF \E q \in Requests : InLogin(q, a) THEN strained \union {a} ELSE strained

\* Fault: any status will do.
FindUserAnyStatus(r) ==
    /\ req[r].at = "find"
    /\ LET found == WithEmail(req[r].email) \union WithName(req[r].email)
       IN  \/ /\ found = {} \/ \E a \in found : now < row[a].lockedUntil
              /\ Reject(r)
              /\ UNCHANGED strained
           \/ \E a \in found : ~(now < row[a].lockedUntil) /\ Judge(r, a)
    /\ UNCHANGED <<now, row, key, verifyKey, resetKey, failedAt, crossed, slipped, renewing>>

\* findByEmailOrUsername (one row, were there two), isAccountLocked, the status,
\* comparePassword.
FindUser(r) ==
    /\ req[r].at = "find"
    /\ LET found == WithEmail(req[r].email) \union WithName(req[r].email)
           open == {a \in found : ~(now < row[a].lockedUntil) /\ row[a].status # "suspended"}
       IN  \/ /\ found = {} \/ found \ open # {}
              /\ Reject(r)
              /\ UNCHANGED strained
           \/ \E a \in open : Judge(r, a)
    /\ UNCHANGED <<now, row, key, verifyKey, resetKey, failedAt, crossed, slipped, renewing>>

\* Fault: the read value is compared with MaxAttempts itself.
CountFailureLate(r) ==
    /\ req[r].at = "increment"
    /\ row' = [row EXCEPT ![req[r].row].attempts = @ + 1]
    /\ failedAt' = [failedAt EXCEPT ![req[r].row] = now]
    /\ IF req[r].tries >= MaxAttempts THEN Goto(r, "lock") ELSE Reject(r)
    /\ UNCHANGED <<now, key, verifyKey, resetKey, strained, crossed, slipped, renewing>>

\* incrementFailedLoginAttempts, then a look at the value read before.
CountFailure(r) ==
    /\ req[r].at = "increment"
    /\ row' = [row EXCEPT ![req[r].row].attempts = @ + 1]
    /\ failedAt' = [failedAt EXCEPT ![req[r].row] = now]
    /\ IF req[r].tries >= MaxAttempts - 1 THEN Goto(r, "lock") ELSE Reject(r)
    /\ UNCHANGED <<now, key, verifyKey, resetKey, strained, crossed, slipped, renewing>>

LockAccount(r) ==
    /\ req[r].at = "lock"
    /\ row' = [row EXCEPT ![req[r].row].lockedUntil = now + LockTime]
    /\ Reject(r)
    /\ UNCHANGED <<now, key, verifyKey, resetKey, failedAt, strained, crossed, slipped,
                   renewing>>

\* resetFailedLoginAttempts.
ClearFailures(r) ==
    /\ req[r].at = "clear"
    /\ row' = [row EXCEPT ![req[r].row].attempts = 0, ![req[r].row].lockedUntil = 0]
    /\ strained' = IF \E q \in Requests \ {r} : InLogin(q, req[r].row)
                   THEN strained ELSE strained \ {req[r].row}
    /\ Put(r, [req[r] EXCEPT !.tries = 0, !.at = "tokens"])
    /\ UNCHANGED <<now, key, verifyKey, resetKey, failedAt, crossed, slipped, renewing>>
-----------------------------------------------------------------------------
(* verifyEmail, requestPasswordReset, resetPassword.                        *)

\* The tokens people hold: of a successful register (its reply) or forgot (by mail).
Sent(t) == req[t].op \in {"register", "forgot"} /\ req[t].at = "done" /\ req[t].row \in Rows

ArriveVerify(r, a, t) ==
    /\ req[r].at = "idle"
    /\ Exists(a) /\ Sent(t)
    /\ Put(r, [Idle EXCEPT !.op = "verify", !.row = a, !.token = t, !.at = "check"])
    /\ UNCHANGED <<now, row, key, verifyKey, resetKey, failedAt, strained, crossed, slipped,
                   renewing>>

ArriveForgot(r, e) ==
    /\ req[r].at = "idle"
    /\ Put(r, [Idle EXCEPT !.op = "forgot", !.email = e, !.at = "lookup"])
    /\ UNCHANGED <<now, row, key, verifyKey, resetKey, failedAt, strained, crossed, slipped,
                   renewing>>

ArriveReset(r, a, t, p) ==
    /\ req[r].at = "idle"
    /\ Exists(a) /\ Sent(t)
    /\ Put(r, [Idle EXCEPT !.op = "reset", !.row = a, !.token = t, !.password = p,
                           !.at = "check"])
    /\ UNCHANGED <<now, row, key, verifyKey, resetKey, failedAt, strained, crossed, slipped,
                   renewing>>

\* Fault: a stranger's address is not noticed.
LookUpAnyone(r) ==
    /\ req[r].at = "lookup"
    /\ \/ /\ WithEmail(req[r].email) = {}
          /\ Goto(r, "storeReset")
       \/ \E a \in WithEmail(req[r].email) :
              Put(r, [req[r] EXCEPT !.row = a, !.email = Nobody, !.at = "storeReset"])
    /\ UNCHANGED <<now, row, key, verifyKey, resetKey, failedAt, strained, crossed, slipped,
                   renewing>>

\* findByEmail; a stranger's address gets the same answer.
LookUp(r) ==
    /\ req[r].at = "lookup"
    /\ \/ /\ WithEmail(req[r].email) = {}
          /\ Goto(r, "done")
       \/ \E a \in WithEmail(req[r].email) :
              Put(r, [req[r] EXCEPT !.row = a, !.email = Nobody, !.at = "storeReset"])
    /\ UNCHANGED <<now, row, key, verifyKey, resetKey, failedAt, strained, crossed, slipped,
                   renewing>>

StoreResetToken(r) ==
    /\ req[r].at = "storeReset"
    /\ resetKey' = [resetKey EXCEPT ![req[r].row] = [token |-> r, until |-> now + ResetTtl]]
    /\ Goto(r, "audit")
    /\ UNCHANGED <<now, row, key, verifyKey, failedAt, strained, crossed, slipped, renewing>>

\* Fault: the verification token is taken before it has done its work.
CheckTokenConsumes(r) ==
    LET a == req[r].row
        ok == Holds(IF req[r].op = "verify" THEN verifyKey[a] ELSE resetKey[a], req[r].token)
    IN  /\ req[r].at = "check"
        /\ IF ~ok THEN Reject(r)
           ELSE Goto(r, IF req[r].op = "verify" THEN "activate" ELSE "password")
        /\ verifyKey' = IF ok /\ req[r].op = "verify"
                        THEN [verifyKey EXCEPT ![a] = NoKey] ELSE verifyKey
        /\ UNCHANGED <<now, row, key, resetKey, failedAt, strained, crossed, slipped, renewing>>

\* verifyTemporaryToken.
CheckToken(r) ==
    LET a == req[r].row
        ok == Holds(IF req[r].op = "verify" THEN verifyKey[a] ELSE resetKey[a], req[r].token)
    IN  /\ req[r].at = "check"
        /\ IF ~ok THEN Reject(r)
           ELSE Goto(r, IF req[r].op = "verify" THEN "activate" ELSE "password")
        /\ UNCHANGED <<now, row, key, verifyKey, resetKey, failedAt, strained, crossed,
                       slipped, renewing>>

\* The status is written without a look at the one it replaces.
ActivateByToken(r) ==
    /\ req[r].at = "activate"
    /\ row' = [row EXCEPT ![req[r].row].status = "active"]
    /\ Goto(r, "drop")
    /\ UNCHANGED <<now, key, verifyKey, resetKey, failedAt, strained, crossed, slipped,
                   renewing>>

\* Fault: the sessions are forgotten.
SetPasswordOnly(r) ==
    /\ req[r].at = "password"
    /\ row' = [row EXCEPT ![req[r].row].password = req[r].password, ![req[r].row].form = "text"]
    /\ Goto(r, "audit")
    /\ UNCHANGED <<now, key, verifyKey, resetKey, failedAt, strained, crossed, slipped,
                   renewing>>

\* updatePassword: repository.update runs no entity hook, so the text itself is stored.
SetPassword(r) ==
    /\ req[r].at = "password"
    /\ row' = [row EXCEPT ![req[r].row].password = req[r].password, ![req[r].row].form = "text"]
    /\ Goto(r, "drop")
    /\ UNCHANGED <<now, key, verifyKey, resetKey, failedAt, strained, crossed, slipped,
                   renewing>>

\* deleteTemporaryToken.
DropToken(r) ==
    /\ req[r].at = "drop"
    /\ IF req[r].op = "verify"
       THEN verifyKey' = [verifyKey EXCEPT ![req[r].row] = NoKey] /\ UNCHANGED resetKey
       ELSE resetKey' = [resetKey EXCEPT ![req[r].row] = NoKey] /\ UNCHANGED verifyKey
    /\ Goto(r, IF req[r].op = "verify" THEN "done" ELSE "revoke")
    /\ UNCHANGED <<now, row, key, failedAt, strained, crossed, slipped, renewing>>

\* revokeAllUserTokens.
RevokeSessions(r) ==
    /\ req[r].at = "revoke"
    /\ key' = [key EXCEPT ![req[r].row] = Nobody]
    /\ crossed' = crossed \union {q \in Requests : SigningIn(q, req[r].row)}
                          \union {t \in renewing : req[t].row = req[r].row}
    /\ Goto(r, "audit")
    /\ UNCHANGED <<now, row, verifyKey, resetKey, failedAt, strained, slipped, renewing>>
-----------------------------------------------------------------------------
(* refresh and logout: what becomes of a session, named by the request      *)
(* that began it.                                                           *)

\* refreshAccessToken up to its comparison, with the token its client holds.
CompareStored(t) ==
    /\ req[t].op \in {"register", "login"} /\ req[t].at = "done" /\ req[t].row \in Rows
    /\ key[req[t].row] = t
    /\ renewing' = renewing \union {t}
    /\ UNCHANGED <<now, row, key, verifyKey, resetKey, req, failedAt, strained, crossed,
                   slipped>>

\* generateTokens; another refresh of the session may still be under way.
Renew(t) ==
    /\ t \in renewing
    /\ key' = [key EXCEPT ![req[t].row] = t]
    /\ renewing' \in {renewing, renewing \ {t}}
    /\ UNCHANGED <<now, row, verifyKey, resetKey, req, failedAt, strained, crossed, slipped>>

\* Its statement throws.
RenewError(t) ==
    /\ t \in renewing
    /\ renewing' = renewing \ {t}
    /\ UNCHANGED <<now, row, key, verifyKey, resetKey, req, failedAt, strained, crossed,
                   slipped>>

\* revokeRefreshToken in logout.
SignOut(a) ==
    /\ key[a] # Nobody
    /\ key' = [key EXCEPT ![a] = Nobody]
    /\ UNCHANGED <<now, row, verifyKey, resetKey, req, failedAt, strained, crossed, slipped,
                   renewing>>
-----------------------------------------------------------------------------
(* Failures, administrators, owners, time.                                  *)

\* A statement throws before the request has a row.
LookUpError(r) ==
    /\ req[r].at \in LookUpStages
    /\ Reject(r)
    /\ UNCHANGED <<now, row, key, verifyKey, resetKey, failedAt, strained, crossed, slipped,
                   renewing>>

\* A later statement throws and the request ends with an error.
StatementError(r) ==
    /\ req[r].at \in DbStages
    /\ Goto(r, "failed")
    /\ strained' = IF req[r].op = "login" THEN strained \union {req[r].row} ELSE strained
    /\ slipped' = slipped \ {r}
    /\ UNCHANGED <<now, row, key, verifyKey, resetKey, failedAt, crossed, renewing>>

\* verifyTemporaryToken answers false, deleteTemporaryToken goes on.
RedisErrorSwallowed(r) ==
    /\ req[r].at \in {"check", "drop"}
    /\ IF req[r].at = "check" THEN Reject(r)
       ELSE Goto(r, IF req[r].op = "verify" THEN "done" ELSE "revoke")
    /\ UNCHANGED <<now, row, key, verifyKey, resetKey, failedAt, strained, crossed, slipped,
                   renewing>>

Suspend(a) ==
    /\ Exists(a)
    /\ row' = [row EXCEPT ![a].status = "suspended"]
    /\ slipped' = slipped \union {q \in Requests : SigningIn(q, a)}
    /\ UNCHANGED <<now, key, verifyKey, resetKey, req, failedAt, strained, crossed, renewing>>

Activate(a) ==
    /\ Exists(a)
    /\ row' = [row EXCEPT ![a].status = "active"]
    /\ UNCHANGED <<now, key, verifyKey, resetKey, req, failedAt, strained, crossed, slipped,
                   renewing>>

\* The row old with the columns of body that updateProfile lets through.
Patched(old, body) ==
    [old EXCEPT !.name = IF "name" \in body.sets THEN body.name ELSE old.name,
                !.attempts = IF "attempts" \in body.sets THEN body.attempts ELSE old.attempts,
                !.lockedUntil = IF "lockedUntil" \in body.sets THEN body.lockedUntil
                                ELSE old.lockedUntil,
                !.gone = IF "gone" \in body.sets THEN body.gone ELSE old.gone]

\* updateProfile.  When the index on the name refuses it nothing changes, and the answer
\* (404 for a row that is removed) decides nothing.
UpdateProfile(r, a, body) ==
    LET new == Patched(row[a], body)
    IN  /\ req[r].at = "idle"
        /\ Exists(a)
        /\ \A b \in Rows \ {a} : Exists(b) => row[b].name # new.name
        /\ row' = [row EXCEPT ![a] = new]
        /\ strained' = IF body.sets \intersect {"attempts", "lockedUntil"} = {} THEN strained
                       ELSE strained \union {a}
        /\ crossed' = crossed \union
               {q \in Requests : /\ Registering(q)
                                 /\ \/ req[q].email = row[a].email
                                    \/ req[q].name \in {row[a].name, new.name}}
        /\ Put(r, [Idle EXCEPT !.op = "profile", !.at = "done"])
        /\ UNCHANGED <<now, key, verifyKey, resetKey, failedAt, slipped, renewing>>

Tick ==
    /\ now < MaxTime
    /\ now' = now + 1
    /\ UNCHANGED <<row, key, verifyKey, resetKey, req, failedAt, strained, crossed, slipped,
                   renewing>>
-----------------------------------------------------------------------------
Arrive(r) ==
    \/ \E e \in Emails, n \in Names, p \in Passwords : ArriveRegister(r, e, n, p)
    \/ \E id \in Emails \union Names, p \in Passwords : ArriveLogin(r, id, p)
    \/ \E a \in Rows, t \in Requests : ArriveVerify(r, a, t)
    \/ \E e \in Emails : ArriveForgot(r, e)
    \/ \E a \in Rows, t \in Requests, p \in Passwords : ArriveReset(r, a, t, p)

Step(r) ==
    \/ CheckEmail(r) \/ CheckName(r) \/ InsertUser(r) \/ SignIn(r)
    \/ StoreVerifyToken(r) \/ Audit(r)
    \/ FindUser(r) \/ CountFailure(r) \/ LockAccount(r) \/ ClearFailures(r)
    \/ LookUp(r) \/ StoreResetToken(r) \/ CheckToken(r) \/ ActivateByToken(r)
    \/ SetPassword(r) \/ DropToken(r) \/ RevokeSessions(r)
    \/ LookUpError(r) \/ StatementError(r) \/ RedisErrorSwallowed(r)

Next ==
    \/ \E r \in Requests : Arrive(r) \/ Step(r)
    \/ \E t \in Requests : CompareStored(t) \/ Renew(t) \/ RenewError(t)
    \/ \E a \in Rows : Suspend(a) \/ Activate(a) \/ SignOut(a)
    \/ \E r \in Requests, a \in Rows, body \in Bodies : UpdateProfile(r, a, body)
    \/ Tick

Spec == Init /\ [][Next]_vars
-----------------------------------------------------------------------------
(* A registration that passed both checks and still hits a unique index    *)
(* (a 500, not the 409 of the checks) was overtaken by another one, or by a *)
(* profile update of a user with that name or e-mail, while it ran; or the *)
(* e-mail or name is held by a row whose deletedAt is set, which the checks *)
(* pass over and the indexes do not.                                       *)
ConflictOnlyInRace ==
    [][\A r \in Requests :
          req[r].at # "conflict" /\ req'[r].at = "conflict" =>
              \/ r \in crossed
              \/ \E a \in Rows : /\ Exists(a) /\ row[a].gone
                                 /\ \/ row[a].email = req[r].email
                                    \/ row[a].name = req[r].name]_vars

(* Whoever registered successfully and is still pending can be verified:   *)
(* register stores the token after the row, verifyEmail deletes it after   *)
(* the status, and no failure in between loses it, so that only its expiry *)
(* can strand the account.                                                 *)
PendingVerifiable ==
    \A r \in Requests :
        req[r].op = "register" /\ req[r].at = "done" /\ row[req[r].row].status = "pending"
            => verifyKey[req[r].row].token = r

(* "Lock account after 5 failed attempts": from the fifth wrong password   *)
(* on, each one counted since the last correct password locks the account  *)
(* for the full time from then, provided the logins of the account did not *)
(* overlap, none was cut off by an error and the owner's profile updates   *)
(* left the counters alone; after the lock has expired a single wrong      *)
(* password is enough to lock again.                                       *)
FailureLocks ==
    \A a \in Rows \ strained :
        row[a].attempts >= MaxAttempts /\ (\A q \in Requests : ~InLogin(q, a))
            => row[a].lockedUntil >= failedAt[a] + LockTime

(* While a user is suspended no sign-in begins a session of theirs, unless *)
(* it was half done at the suspension: the status is looked at once,       *)
(* several awaits before the tokens.  (An existing session can be          *)
(* refreshed throughout, and a refresh under way can store again what a    *)
(* logout has just removed.)                                               *)
SuspendedNotLetIn ==
    [][\A a \in Rows :
          row[a].status = "suspended" =>
              key'[a] \in {key[a], Nobody} \union slipped \union renewing]_vars

ResettingOrFailed(a) ==
    \E q \in Requests : /\ req[q].op = "reset" /\ req[q].row = a
                        /\ req[q].at \in {"drop", "revoke", "failed"}

(* Resetting a password ends the sessions begun with the old one: the      *)
(* session an account has was begun with its present password, unless the  *)
(* reset is under way or failed, or the sign-in was half done, or one of   *)
(* its refreshes was past its comparison, when a reset revoked the         *)
(* sessions.                                                               *)
SessionsFollowPassword ==
    \A a \in Rows :
        key[a] # Nobody /\ key[a] \notin crossed /\ ~ResettingOrFailed(a)
            => req[key[a]].password = row[a].password

(* user.model.ts: "Only hash if password is modified", in a hook that runs *)
(* before every insert and update of the entity.  The password a completed *)
(* reset has set opens the account.                                        *)
NewPasswordOpens ==
    \A r \in Requests :
        req[r].op = "reset" /\ req[r].at = "done" /\ row[req[r].row].password = req[r].password
            => Opens(req[r].row, req[r].password)
=============================================================================
