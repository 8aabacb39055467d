------------------------------ MODULE Sessions ------------------------------
(***************************************************************************)
(* The tokens of one user: tokenmanager.util.ts and jwt.config.ts as       *)
(* login, refreshToken, logout and the password operations of              *)
(* auth.service.ts and the authenticate middleware use them.  Every Redis  *)
(* key holds the user's id (or the token), so users do not interact.       *)
(*                                                                         *)
(* A token is a signed payload whose only varying part is iat, in seconds: *)
(* two tokens of a kind signed in one second are the same string, so a     *)
(* token is named by the second it was signed in.  now is the common clock *)
(* of the server and of Redis.                                             *)
(***************************************************************************)
EXTENDS Integers, FiniteSets

CONSTANTS
    Requests,       \* requests, each served once: Requests bounds a run
    MaxTime,        \* where the clock of a run stops
    AccessLife,     \* JWT_EXPIRES_IN, 7 days by default
    RefreshLife,    \* JWT_REFRESH_EXPIRES_IN, 30 days by default
    BlacklistTtl,   \* TOKEN_EXPIRY, 7 days
    KeyTtl          \* expiry of the refresh_token key, 30 days

ASSUME SessionsAssumption ==
    /\ MaxTime \in Nat
    /\ AccessLife \in Nat /\ BlacklistTtl \in Nat /\ BlacklistTtl >= AccessLife
    /\ RefreshLife \in Nat /\ KeyTtl \in Nat /\ KeyTtl >= RefreshLife

VARIABLES
    now,        \* the clock
    key,        \* the refresh_token key: a token and when the key expires
    blacklist,  \* blacklist[t]: when the blacklist key of access token t expires
    issued,     \* tokens some client was given
    req,        \* how far each request has come
    loggedOut,  \* access tokens a logout has blacklisted
    revoked,    \* tokens given out before a revokeAllUserTokens and not since
    signedOff   \* the refresh token was revoked and there was no login since: "crossed"
                \* when a refresh had already compared its token by then, else "clean"

vars == <<now, key, blacklist, issued, req, loggedOut, revoked, signedOff>>

Time == 0 .. MaxTime

\* None of the two keys: no token, and an expiry that has passed.
NoToken == MaxTime + 1
NoKey == [token |-> NoToken, until |-> 0]

RedisStages == {"get", "set", "del", "blacklist", "exists"}

\* standing: what had become of the token when the request came;
\* blind: 1 when the blacklist could not be read.
Request == [op: {"none", "login", "refresh", "logout", "revokeAll", "use"},
            at: {"idle", "sign", "verify", "done", "refused", "failed"} \union RedisStages,
            token: 0 .. NoToken,
            signed: 0 .. NoToken,
            standing: {"fresh", "loggedOut", "revoked"},
            blind: {0, 1}]

TypeOK ==
    /\ now \in Time
    /\ key \in [token: 0 .. NoToken, until: Nat]
    /\ blacklist \in [Time -> Nat]
    /\ issued \subseteq Time
    /\ req \in [Requests -> Request]
    /\ loggedOut \subseteq Time
    /\ revoked \subseteq Time
    /\ signedOff \in {"no", "clean", "crossed"}

Idle == [op |-> "none", at |-> "idle", token |-> NoToken, signed |-> NoToken,
         standing |-> "fresh", blind |-> 0]

Init ==
    /\ now = 0
    /\ key = NoKey
    /\ blacklist = [t \in Time |-> 0]
    /\ issued = {} /\ loggedOut = {} /\ revoked = {}
    /\ req = [r \in Requests |-> Idle]
    /\ signedOff = "no"

KeyHolds(t) == key.token = t /\ now < key.until
Blacklisted(t) == now < blacklist[t]
AccessValid(t) == now < t + AccessLife
RefreshValid(t) == now < t + RefreshLife

Put(r, request) == req' = [req EXCEPT ![r] = request]
Goto(r, stage) == Put(r, [req[r] EXCEPT !.at = stage])
-----------------------------------------------------------------------------
(* Arrivals.                                                                *)

ArriveLogin(r) ==
    /\ req[r].at = "idle"
    /\ Put(r, [Idle EXCEPT !.op = "login", !.at = "sign"])
    /\ UNCHANGED <<now, key, blacklist, issued, loggedOut, revoked, signedOff>>

\* refreshAccessToken: verifyRefreshToken comes before anything is awaited.
ArriveRefresh(r, t) ==
    /\ req[r].at = "idle"
    /\ Put(r, [Idle EXCEPT !.op = "refresh", !.token = t,
                           !.at = IF RefreshValid(t) THEN "get" ELSE "refused"])
    /\ UNCHANGED <<now, key, blacklist, issued, loggedOut, revoked, signedOff>>

\* The middleware has let the token in.
ArriveLogout(r, t) ==
    /\ req[r].at = "idle"
    /\ AccessValid(t) /\ ~Blacklisted(t)
    /\ Put(r, [Idle EXCEPT !.op = "logout", !.token = t, !.at = "del"])
    /\ UNCHANGED <<now, key, blacklist, issued, loggedOut, revoked, signedOff>>

\* resetPassword and changePassword end in revokeAllUserTokens.
ArriveRevokeAll(r) ==
    /\ req[r].at = "idle"
    /\ Put(r, [Idle EXCEPT !.op = "revokeAll", !.at = "del"])
    /\ UNCHANGED <<now, key, blacklist, issued, loggedOut, revoked, signedOff>>

\* authenticate, with an access token.
ArriveUse(r, t) ==
    /\ req[r].at = "idle"
    /\ Put(r, [Idle EXCEPT !.op = "use", !.token = t, !.at = "exists",
                           !.standing = IF t \in loggedOut THEN "loggedOut"
                                        ELSE IF t \in revoked THEN "revoked" ELSE "fresh"])
    /\ UNCHANGED <<now, key, blacklist, issued, loggedOut, revoked, signedOff>>
-----------------------------------------------------------------------------
(* Steps.  A definition whose comment starts with Fault is a wrong version  *)
(* of the next one, kept to show that a property notices it.                *)

\* Fault: a token that verifies need not be the stored one.
GetAnyRefreshKey(r) ==
    /\ req[r].at = "get"
    /\ Goto(r, "sign")
    /\ UNCHANGED <<now, key, blacklist, issued, loggedOut, revoked, signedOff>>

\* refreshAccessToken: GET, and the comparison.
GetRefreshKey(r) ==
    /\ req[r].at = "get"
    /\ Goto(r, IF KeyHolds(req[r].token) THEN "sign" ELSE "refused")
    /\ UNCHANGED <<now, key, blacklist, issued, loggedOut, revoked, signedOff>>

\* generateTokens: both tokens are signed, in the second it is now.
Sign(r) ==
    /\ req[r].at = "sign"
    /\ Put(r, [req[r] EXCEPT !.signed = now, !.at = "set"])
    /\ UNCHANGED <<now, key, blacklist, issued, loggedOut, revoked, signedOff>>

\* Fault: the token that was presented is stored and given out again.
SetPresentedToken(r) ==
    /\ req[r].at = "set"
    /\ key' = [token |-> req[r].token, until |-> now + KeyTtl]
    /\ issued' = issued \union {req[r].token}
    /\ revoked' = revoked \ {req[r].token}
    /\ signedOff' = IF req[r].op = "login" THEN "no" ELSE signedOff
    /\ Goto(r, "done")
    /\ UNCHANGED <<now, blacklist, loggedOut>>

\* Fault: the key lives as long as an access token.
SetRefreshKeyBriefly(r) ==
    /\ req[r].at = "set"
    /\ key' = [token |-> req[r].signed, until |-> now + AccessLife]
    /\ issued' = issued \union {req[r].signed}
    /\ revoked' = revoked \ {req[r].signed}
    /\ signedOff' = IF req[r].op = "login" THEN "no" ELSE signedOff
    /\ Goto(r, "done")
    /\ UNCHANGED <<now, blacklist, loggedOut>>

\* generateTokens: SETEX, then the reply with the tokens.
SetRefreshKey(r) ==
    /\ req[r].at = "set"
    /\ key' = [token |-> req[r].signed, until |-> now + KeyTtl]
    /\ issued' = issued \union {req[r].signed}
    /\ revoked' = revoked \ {req[r].signed}
    /\ signedOff' = IF req[r].op = "login" THEN "no" ELSE signedOff
    /\ Goto(r, "done")
    /\ UNCHANGED <<now, blacklist, loggedOut>>

\* A refresh that has compared its token and not yet stored the next one.
Crossing(q) == req[q].op = "refresh" /\ req[q].at \in {"sign", "set"}

\* revokeRefreshToken: all that revokeAllUserTokens does, and the first half of logout.
DeleteRefreshKey(r) ==
    /\ req[r].at = "del"
    /\ key' = NoKey
    /\ signedOff' = IF \E q \in Requests : Crossing(q) THEN "crossed" ELSE "clean"
    /\ revoked' = IF req[r].op = "revokeAll" THEN issued ELSE revoked
    /\ Goto(r, IF req[r].op = "logout" THEN "blacklist" ELSE "done")
    /\ UNCHANGED <<now, blacklist, issued, loggedOut>>

\* Fault: the entry is kept one second less than the token may still live.
BlacklistTokenShort(r) ==
    /\ req[r].at = "blacklist"
    /\ blacklist' = [blacklist EXCEPT ![req[r].token] = req[r].token + AccessLife - 1]
    /\ loggedOut' = loggedOut \union {req[r].token}
    /\ Goto(r, "done")
    /\ UNCHANGED <<now, key, issued, revoked, signedOff>>

\* blacklistToken.
BlacklistToken(r) ==
    /\ req[r].at = "blacklist"
    /\ blacklist' = [blacklist EXCEPT ![req[r].token] = now + BlacklistTtl]
    /\ loggedOut' = loggedOut \union {req[r].token}
    /\ Goto(r, "done")
    /\ UNCHANGED <<now, key, issued, revoked, signedOff>>

\* verifyToken, first half: isTokenBlacklisted.
CheckBlacklist(r) ==
    /\ req[r].at = "exists"
    /\ Goto(r, IF Blacklisted(req[r].token) THEN "refused" ELSE "verify")
    /\ UNCHANGED <<now, key, blacklist, issued, loggedOut, revoked, signedOff>>

\* verifyToken, second half: verifyAccessToken, which looks at exp.
VerifyAccess(r) ==
    /\ req[r].at = "verify"
    /\ Goto(r, IF AccessValid(req[r].token) THEN "done" ELSE "refused")
    /\ UNCHANGED <<now, key, blacklist, issued, loggedOut, revoked, signedOff>>

\* Redis fails.  A logout whose token was not blacklisted succeeds all the same, and
\* a token that could not be looked up counts as not blacklisted.
RedisError(r) ==
    /\ req[r].at \in RedisStages
    /\ Put(r, [req[r] EXCEPT !.at = CASE req[r].at = "blacklist" -> "done"
                                      [] req[r].at = "exists" -> "verify"
                                      [] OTHER -> "failed",
                             !.blind = IF req[r].at = "exists" THEN 1 ELSE 0])
    /\ UNCHANGED <<now, key, blacklist, issued, loggedOut, revoked, signedOff>>

Tick ==
    /\ now < MaxTime
    /\ now' = now + 1
    /\ UNCHANGED <<key, blacklist, issued, req, loggedOut, revoked, signedOff>>

Arrive(r) ==
    \/ ArriveLogin(r)
    \/ ArriveRevokeAll(r)
    \/ \E t \in issued : ArriveRefresh(r, t) \/ ArriveLogout(r, t) \/ ArriveUse(r, t)

Step(r) ==
    \/ GetRefreshKey(r)
    \/ Sign(r)
    \/ SetRefreshKey(r)
    \/ DeleteRefreshKey(r)
    \/ BlacklistToken(r)
    \/ CheckBlacklist(r)
    \/ VerifyAccess(r)
    \/ RedisError(r)

Next == (\E r \in Requests : Arrive(r) \/ Step(r)) \/ Tick

Spec == Init /\ [][Next]_vars
-----------------------------------------------------------------------------
(* Once a logout has blacklisted an access token, no request that comes    *)
(* with it later is let in, however its two checks fall around the moment  *)
(* the blacklist key and the token expire; unless Redis could not answer.  *)
LoggedOutRefused ==
    \A r \in Requests :
        req[r].op = "use" /\ req[r].at = "done" /\ req[r].standing = "loggedOut"
            => req[r].blind = 1

(* The stored refresh token does not vanish before it expires: a client    *)
(* that comes back in time with the last token it was given is not turned  *)
(* away because the key that vouches for the token has gone.               *)
KeyOutlivesToken ==
    key.token # NoToken /\ RefreshValid(key.token) => KeyHolds(key.token)

(* tokenmanager.util.ts: "Revoke all tokens for a user (security measure)".*)
(* A token given out before that is not accepted after it.                 *)
AllTokensRevoked ==
    \A r \in Requests :
        ~(req[r].op = "use" /\ req[r].at = "done" /\ req[r].standing = "revoked")

(* tokenmanager.util.ts: "Revoke user's refresh token (logout)".  After a  *)
(* logout or a password operation nothing can be refreshed until the next  *)
(* login, unless a refresh had already compared its token when the key was *)
(* deleted: that one stores a new key, and the session lives on.           *)
SignedOffHoldsNoKey == signedOff = "clean" => \A t \in Time : ~KeyHolds(t)
=============================================================================
