--------------------------- MODULE SessionsProofs ---------------------------
(***************************************************************************)
(* Theorems about Sessions for any number of requests, any clock and any   *)
(* lifetimes with BlacklistTtl >= AccessLife and KeyTtl >= RefreshLife.    *)
(* The argument is about time: a token is stored or blacklisted no earlier *)
(* than it was signed, so the Redis key outlives the token's exp.          *)
(***************************************************************************)
EXTENDS Sessions, TLAPS

\* What a request waiting at a stage has behind it.
StageOK(r) ==
    /\ req[r].at = "set" => req[r].signed \in Time /\ req[r].signed <= now
    /\ req[r].at = "blacklist" => req[r].token \in Time /\ req[r].token <= now
    /\ req[r].at = "del" /\ req[r].op = "logout" => req[r].token \in Time /\ req[r].token <= now
    /\ req[r].at \in {"exists", "verify"} => req[r].op = "use" /\ req[r].token \in Time
    /\ req[r].op = "use" => req[r].at \in {"exists", "verify", "done", "refused"}

\* A request that came with a token logged out before it gets past the blacklist
\* only when the token has expired, or when Redis could not say.
StaleOK(r) ==
    req[r].standing = "loggedOut" =>
        /\ req[r].op = "use" /\ req[r].token \in loggedOut
        /\ req[r].at = "verify" => req[r].blind = 1 \/ ~AccessValid(req[r].token)
        /\ req[r].at = "done" => req[r].blind = 1

KeyOK == key.token # NoToken => key.token \in Time /\ key.until >= key.token + RefreshLife

BlacklistOK == \A t \in loggedOut : blacklist[t] >= t + AccessLife

IssuedOK == \A t \in issued : t <= now

IInv ==
    /\ TypeOK /\ KeyOK /\ BlacklistOK /\ IssuedOK
    /\ \A r \in Requests : StageOK(r) /\ StaleOK(r)

LEMMA InitIInv == Init => IInv
  BY SessionsAssumption
  DEF Init, IInv, TypeOK, KeyOK, BlacklistOK, IssuedOK, StageOK, StaleOK, Idle, Request,
      NoKey, NoToken, Time, RedisStages

\* Every action leaves the other requests alone.
LEMMA OneRequestMoves ==
  ASSUME req \in [Requests -> Request], NEW r \in Requests, Arrive(r) \/ Step(r)
  PROVE  /\ \A q \in Requests \ {r} : req'[q] = req[q]
         /\ now' = now
  BY DEF Arrive, ArriveLogin, ArriveRefresh, ArriveLogout, ArriveRevokeAll, ArriveUse,
         Step, GetRefreshKey, Sign, SetRefreshKey, DeleteRefreshKey, BlacklistToken,
         CheckBlacklist, VerifyAccess, RedisError, Goto, Put

\* A request that is put back well formed and well placed keeps the invariant,
\* as long as the rest of the state does.
LEMMA PutKeeps ==
  ASSUME IInv, NEW r \in Requests, NEW new \in Request, req' = [req EXCEPT ![r] = new],
         now' = now, loggedOut \subseteq loggedOut',
         StageOK(r)', StaleOK(r)',
         key' \in [token: 0 .. NoToken, until: Nat], blacklist' \in [Time -> Nat],
         issued' \subseteq Time, loggedOut' \subseteq Time, revoked' \subseteq Time,
         signedOff' \in {"no", "clean", "crossed"}, KeyOK', BlacklistOK', IssuedOK'
  PROVE  IInv'
<1>1. \A q \in Requests \ {r} : req'[q] = req[q]
  BY DEF IInv, TypeOK
<1>2. ASSUME NEW q \in Requests, q # r
      PROVE  StageOK(q)' /\ StaleOK(q)'
  BY <1>1, <1>2 DEF IInv, StageOK, StaleOK, AccessValid
<1>3. TypeOK'
  BY DEF IInv, TypeOK
<1>4. QED
  BY <1>2, <1>3 DEF IInv

LEMMA ArriveKeeps ==
  ASSUME IInv, NEW r \in Requests, Arrive(r)
  PROVE  IInv'
<1> USE SessionsAssumption
<1>0. /\ req \in [Requests -> Request] /\ IssuedOK /\ KeyOK /\ BlacklistOK /\ TypeOK
      /\ now \in Nat /\ issued \subseteq Time
  BY DEF IInv, TypeOK, Time
<1>1. PICK new : /\ req' = [req EXCEPT ![r] = new]
                 /\ UNCHANGED <<now, key, blacklist, issued, loggedOut, revoked, signedOff>>
                 /\ \/ new = [Idle EXCEPT !.op = "login", !.at = "sign"]
                    \/ new = [Idle EXCEPT !.op = "revokeAll", !.at = "del"]
                    \/ \E t \in issued, s \in {"get", "refused"} :
                          new = [Idle EXCEPT !.op = "refresh", !.token = t, !.at = s]
                    \/ \E t \in issued :
                          new = [Idle EXCEPT !.op = "logout", !.token = t, !.at = "del"]
                    \/ \E t \in issued, s \in {"fresh", "loggedOut", "revoked"} :
                          /\ new = [Idle EXCEPT !.op = "use", !.token = t, !.at = "exists",
                                                !.standing = s]
                          /\ s = "loggedOut" => t \in loggedOut
  <2>1. CASE ArriveLogin(r)
    BY <2>1 DEF ArriveLogin, Put
  <2>2. CASE ArriveRevokeAll(r)
    BY <2>2 DEF ArriveRevokeAll, Put
  <2>3. ASSUME NEW t \in issued, ArriveRefresh(r, t)
        PROVE  \E s \in {"get", "refused"} :
                  /\ req' = [req EXCEPT ![r] = [Idle EXCEPT !.op = "refresh", !.token = t, !.at = s]]
                  /\ UNCHANGED <<now, key, blacklist, issued, loggedOut, revoked, signedOff>>
    BY <2>3 DEF ArriveRefresh, Put
  <2>4. ASSUME NEW t \in issued, ArriveLogout(r, t)
        PROVE  /\ req' = [req EXCEPT ![r] = [Idle EXCEPT !.op = "logout", !.token = t, !.at = "del"]]
               /\ UNCHANGED <<now, key, blacklist, issued, loggedOut, revoked, signedOff>>
    BY <2>4 DEF ArriveLogout, Put
  <2>5. ASSUME NEW t \in issued, ArriveUse(r, t)
        PROVE  \E s \in {"fresh", "loggedOut", "revoked"} :
                  /\ req' = [req EXCEPT ![r] = [Idle EXCEPT !.op = "use", !.token = t,
                                                            !.at = "exists", !.standing = s]]
                  /\ s = "loggedOut" => t \in loggedOut
                  /\ UNCHANGED <<now, key, blacklist, issued, loggedOut, revoked, signedOff>>
    <3>1. PICK s : /\ s = IF t \in loggedOut THEN "loggedOut"
                          ELSE IF t \in revoked THEN "revoked" ELSE "fresh"
                   /\ req' = [req EXCEPT ![r] = [Idle EXCEPT !.op = "use", !.token = t,
                                                             !.at = "exists", !.standing = s]]
                   /\ UNCHANGED <<now, key, blacklist, issued, loggedOut, revoked, signedOff>>
      BY <2>5 DEF ArriveUse, Put
    <3>2. s \in {"fresh", "loggedOut", "revoked"} /\ (s = "loggedOut" => t \in loggedOut)
      BY <3>1
    <3>3. QED
      BY <3>1, <3>2
  <2>6. QED
    BY <2>1, <2>2, <2>3, <2>4, <2>5 DEF Arrive
<1>2. \A t \in issued : t \in 0 .. NoToken /\ t \in Time /\ t <= now
  BY <1>0 DEF IssuedOK, Time, NoToken
<1>3. req'[r] = new /\ now' = now /\ loggedOut' = loggedOut
  BY <1>0, <1>1
<1>4. NoToken \in 0 .. NoToken
  BY DEF NoToken
<1>5. new \in Request /\ StageOK(r)' /\ StaleOK(r)'
  <2>1. CASE new = [Idle EXCEPT !.op = "login", !.at = "sign"]
    BY <1>3, <1>4, <2>1 DEF Idle, Request, StageOK, StaleOK
  <2>2. CASE new = [Idle EXCEPT !.op = "revokeAll", !.at = "del"]
    BY <1>3, <1>4, <2>2 DEF Idle, Request, RedisStages, StageOK, StaleOK
  <2>3. ASSUME NEW t \in issued, NEW s \in {"get", "refused"},
               new = [Idle EXCEPT !.op = "refresh", !.token = t, !.at = s]
        PROVE  new \in Request /\ StageOK(r)' /\ StaleOK(r)'
    BY <1>2, <1>3, <1>4, <2>3 DEF Idle, Request, RedisStages, StageOK, StaleOK
  <2>4. ASSUME NEW t \in issued, new = [Idle EXCEPT !.op = "logout", !.token = t, !.at = "del"]
        PROVE  new \in Request /\ StageOK(r)' /\ StaleOK(r)'
    <3>1. new \in Request
      BY <1>2, <1>4, <2>4 DEF Idle, Request, RedisStages
    <3>2. StageOK(r)' /\ StaleOK(r)'
      BY <1>2, <1>3, <2>4 DEF Idle, StageOK, StaleOK
    <3>3. QED
      BY <3>1, <3>2
  <2>5. ASSUME NEW t \in issued, NEW s \in {"fresh", "loggedOut", "revoked"},
               new = [Idle EXCEPT !.op = "use", !.token = t, !.at = "exists", !.standing = s],
               s = "loggedOut" => t \in loggedOut
        PROVE  new \in Request /\ StageOK(r)' /\ StaleOK(r)'
    <3>1. new \in Request
      BY <1>2, <1>4, <2>5 DEF Idle, Request, RedisStages
    <3>2. StageOK(r)' /\ StaleOK(r)'
      BY <1>2, <1>3, <2>5 DEF Idle, StageOK, StaleOK
    <3>3. QED
      BY <3>1, <3>2
  <2>6. QED
    BY <1>1, <2>1, <2>2, <2>3, <2>4, <2>5
<1>7. KeyOK' /\ BlacklistOK' /\ IssuedOK'
  BY <1>0, <1>1 DEF KeyOK, BlacklistOK, IssuedOK
<1>8. QED
  BY <1>0, <1>1, <1>3, <1>5, <1>7, PutKeeps DEF TypeOK

\* The steps that write nothing but their request.
LEMMA QuietStepKeeps ==
  ASSUME IInv, NEW r \in Requests,
         GetRefreshKey(r) \/ Sign(r) \/ CheckBlacklist(r) \/ VerifyAccess(r) \/ RedisError(r)
  PROVE  IInv'
<1> USE SessionsAssumption
<1>0. /\ req \in [Requests -> Request] /\ req[r] \in Request /\ StageOK(r) /\ StaleOK(r)
      /\ IssuedOK /\ KeyOK /\ BlacklistOK /\ TypeOK /\ now \in Time /\ now \in Nat
  BY DEF IInv, TypeOK, Time
<1>1. UNCHANGED <<now, key, blacklist, issued, loggedOut, revoked, signedOff>>
  BY DEF GetRefreshKey, Sign, CheckBlacklist, VerifyAccess, RedisError
<1>2. KeyOK' /\ BlacklistOK' /\ IssuedOK'
  BY <1>0, <1>1 DEF KeyOK, BlacklistOK, IssuedOK
<1>3. ASSUME NEW new \in Request, req' = [req EXCEPT ![r] = new], StageOK(r)', StaleOK(r)'
      PROVE  IInv'
  BY <1>0, <1>1, <1>2, <1>3, PutKeeps DEF TypeOK
<1>4. CASE GetRefreshKey(r)
  <2>1. PICK s \in {"sign", "refused"} : req' = [req EXCEPT ![r] = [req[r] EXCEPT !.at = s]]
    BY <1>4 DEF GetRefreshKey, Goto, Put
  <2>2. req[r].at = "get"
    BY <1>4 DEF GetRefreshKey
  <2> DEFINE new == [req[r] EXCEPT !.at = s]
  <2>3. new \in Request /\ req'[r] = new
    BY <1>0, <2>1 DEF Request
  <2>4. StageOK(r)' /\ StaleOK(r)'
    BY <1>0, <1>1, <2>2, <2>3 DEF StageOK, StaleOK, Request
  <2>5. QED
    BY <1>3, <2>1, <2>3, <2>4
<1>5. CASE Sign(r)
  <2> DEFINE new == [req[r] EXCEPT !.signed = now, !.at = "set"]
  <2>1. req[r].at = "sign" /\ req' = [req EXCEPT ![r] = new]
    BY <1>5 DEF Sign, Put
  <2>0. now \in 0 .. NoToken
    BY <1>0 DEF NoToken, Time
  <2>2. new \in Request /\ req'[r] = new
    BY <1>0, <2>0, <2>1 DEF Request, RedisStages
  <2>3. StageOK(r)' /\ StaleOK(r)'
    BY <1>0, <1>1, <2>1, <2>2 DEF StageOK, StaleOK, Request
  <2>4. QED
    BY <1>3, <2>1, <2>2, <2>3
<1>6. CASE CheckBlacklist(r)
  <2>1. PICK s : /\ req' = [req EXCEPT ![r] = [req[r] EXCEPT !.at = s]]
                 /\ s = IF Blacklisted(req[r].token) THEN "refused" ELSE "verify"
    BY <1>6 DEF CheckBlacklist, Goto, Put
  <2>2. req[r].at = "exists" /\ req[r].op = "use" /\ req[r].token \in Time
    BY <1>0, <1>6 DEF CheckBlacklist, StageOK
  <2> DEFINE new == [req[r] EXCEPT !.at = s]
  <2>3. new \in Request /\ req'[r] = new
    BY <1>0, <2>1 DEF Request
  <2>4. req[r].token \in loggedOut /\ ~Blacklisted(req[r].token) => ~AccessValid(req[r].token)
    BY <1>0, <2>2 DEF BlacklistOK, Blacklisted, AccessValid, TypeOK, Time
  <2>5. StageOK(r)'
    BY <1>0, <1>1, <2>1, <2>2, <2>3 DEF StageOK, Request
  <2>6. StaleOK(r)'
    BY <1>0, <1>1, <2>1, <2>2, <2>3, <2>4 DEF StaleOK, Request, AccessValid
  <2>7. QED
    BY <1>3, <2>1, <2>3, <2>5, <2>6
<1>7. CASE VerifyAccess(r)
  <2>1. PICK s : /\ req' = [req EXCEPT ![r] = [req[r] EXCEPT !.at = s]]
                 /\ s = IF AccessValid(req[r].token) THEN "done" ELSE "refused"
    BY <1>7 DEF VerifyAccess, Goto, Put
  <2>2. req[r].at = "verify" /\ req[r].op = "use"
    BY <1>0, <1>7 DEF VerifyAccess, StageOK
  <2> DEFINE new == [req[r] EXCEPT !.at = s]
  <2>3. new \in Request /\ req'[r] = new
    BY <1>0, <2>1 DEF Request
  <2>4. StageOK(r)' /\ StaleOK(r)'
    BY <1>0, <1>1, <2>1, <2>2, <2>3 DEF StageOK, StaleOK, Request
  <2>5. QED
    BY <1>3, <2>1, <2>3, <2>4
<1>8. CASE RedisError(r)
  <2>1. PICK s, b : /\ req' = [req EXCEPT ![r] = [req[r] EXCEPT !.at = s, !.blind = b]]
                    /\ s = CASE req[r].at = "blacklist" -> "done"
                             [] req[r].at = "exists" -> "verify"
                             [] OTHER -> "failed"
                    /\ b = IF req[r].at = "exists" THEN 1 ELSE 0
    BY <1>8 DEF RedisError, Put
  <2>2. req[r].at \in RedisStages
    BY <1>8 DEF RedisError
  <2> DEFINE new == [req[r] EXCEPT !.at = s, !.blind = b]
  <2>3. s \in {"done", "verify", "failed"} /\ b \in {0, 1}
    BY <2>1
  <2>4. new \in Request /\ req'[r] = new
    BY <1>0, <2>1, <2>3 DEF Request
  <2>5. StageOK(r)' /\ StaleOK(r)'
    BY <1>0, <1>1, <2>1, <2>2, <2>4 DEF StageOK, StaleOK, Request, RedisStages
  <2>6. QED
    BY <1>3, <2>1, <2>4, <2>5
<1>9. QED
  BY <1>4, <1>5, <1>6, <1>7, <1>8

LEMMA SetKeeps ==
  ASSUME IInv, NEW r \in Requests, SetRefreshKey(r)
  PROVE  IInv'
<1> USE SessionsAssumption
<1> DEFINE t == req[r].signed
           new == [req[r] EXCEPT !.at = "done"]
<1>0. /\ req \in [Requests -> Request] /\ req[r] \in Request /\ StageOK(r) /\ StaleOK(r)
      /\ IssuedOK /\ BlacklistOK /\ TypeOK /\ now \in Nat
      /\ req[r].at = "set" /\ t \in Time /\ t \in Nat /\ t <= now
      /\ UNCHANGED <<now, blacklist, loggedOut>>
  <2>1. /\ req \in [Requests -> Request] /\ req[r] \in Request /\ StageOK(r) /\ StaleOK(r)
        /\ IssuedOK /\ BlacklistOK /\ TypeOK /\ now \in Nat
    BY DEF IInv, TypeOK, Time
  <2>2. req[r].at = "set" /\ UNCHANGED <<now, blacklist, loggedOut>>
    BY DEF SetRefreshKey
  <2>3. t \in Time /\ t \in Nat /\ t <= now
    BY <2>1, <2>2 DEF StageOK, Time
  <2>4. QED
    BY <2>1, <2>2, <2>3
<1>1. /\ key' = [token |-> t, until |-> now + KeyTtl]
      /\ issued' = issued \union {t} /\ revoked' = revoked \ {t}
      /\ signedOff' \in {"no", "clean", "crossed"}
      /\ req' = [req EXCEPT ![r] = new]
  BY <1>0 DEF SetRefreshKey, Goto, Put, TypeOK
<1>2. new \in Request /\ req'[r] = new
  BY <1>0, <1>1 DEF Request
<1>3. StageOK(r)' /\ StaleOK(r)'
  BY <1>0, <1>2 DEF StageOK, StaleOK, Request
<1>4. KeyOK' /\ key' \in [token: 0 .. NoToken, until: Nat]
  <2>1. t \in 0 .. NoToken /\ now + KeyTtl \in Nat /\ now + KeyTtl >= t + RefreshLife
    BY <1>0 DEF Time, NoToken
  <2>2. QED
    BY <1>0, <1>1, <2>1 DEF KeyOK
<1>5. IssuedOK'
  BY <1>0, <1>1 DEF IssuedOK
<1>6. BlacklistOK'
  BY <1>0 DEF BlacklistOK
<1>7. issued' \subseteq Time /\ revoked' \subseteq Time
  BY <1>0, <1>1 DEF TypeOK
<1>8. QED
  BY <1>0, <1>1, <1>2, <1>3, <1>4, <1>5, <1>6, <1>7, PutKeeps DEF TypeOK

LEMMA DeleteKeeps ==
  ASSUME IInv, NEW r \in Requests, DeleteRefreshKey(r)
  PROVE  IInv'
<1> USE SessionsAssumption
<1>0. /\ req \in [Requests -> Request] /\ req[r] \in Request /\ StageOK(r) /\ StaleOK(r)
      /\ IssuedOK /\ BlacklistOK /\ TypeOK /\ req[r].at = "del"
      /\ UNCHANGED <<now, blacklist, issued, loggedOut>>
  BY DEF IInv, TypeOK, DeleteRefreshKey
<1>1. PICK s : /\ key' = NoKey /\ signedOff' \in {"clean", "crossed"} /\ revoked' \in {issued, revoked}
               /\ s = IF req[r].op = "logout" THEN "blacklist" ELSE "done"
               /\ req' = [req EXCEPT ![r] = [req[r] EXCEPT !.at = s]]
  BY DEF DeleteRefreshKey, Goto, Put
<1> DEFINE new == [req[r] EXCEPT !.at = s]
<1>2. new \in Request /\ req'[r] = new
  BY <1>0, <1>1 DEF Request, RedisStages
<1>3. StageOK(r)'
  BY <1>0, <1>1, <1>2 DEF StageOK, Request
<1>4. StaleOK(r)'
  BY <1>0, <1>2 DEF StageOK, StaleOK, Request
<1>5. KeyOK' /\ key' \in [token: 0 .. NoToken, until: Nat]
  BY <1>1 DEF KeyOK, NoKey, NoToken
<1>6. IssuedOK' /\ BlacklistOK'
  BY <1>0 DEF IssuedOK, BlacklistOK
<1>7. QED
  BY <1>0, <1>1, <1>2, <1>3, <1>4, <1>5, <1>6, PutKeeps DEF TypeOK

LEMMA BlacklistKeeps ==
  ASSUME IInv, NEW r \in Requests, BlacklistToken(r)
  PROVE  IInv'
<1> USE SessionsAssumption
<1> DEFINE t == req[r].token
           new == [req[r] EXCEPT !.at = "done"]
<1>0. /\ req \in [Requests -> Request] /\ req[r] \in Request /\ StageOK(r) /\ StaleOK(r)
      /\ IssuedOK /\ KeyOK /\ BlacklistOK /\ TypeOK /\ now \in Nat
      /\ req[r].at = "blacklist" /\ t \in Time /\ t \in Nat /\ t <= now
      /\ UNCHANGED <<now, key, issued, revoked, signedOff>>
  <2>1. /\ req \in [Requests -> Request] /\ req[r] \in Request /\ StageOK(r) /\ StaleOK(r)
        /\ IssuedOK /\ KeyOK /\ BlacklistOK /\ TypeOK /\ now \in Nat
    BY DEF IInv, TypeOK, Time
  <2>2. req[r].at = "blacklist" /\ UNCHANGED <<now, key, issued, revoked, signedOff>>
    BY DEF BlacklistToken
  <2>3. t \in Time /\ t \in Nat /\ t <= now
    BY <2>1, <2>2 DEF StageOK, Time
  <2>4. QED
    BY <2>1, <2>2, <2>3
<1>1. /\ blacklist' = [blacklist EXCEPT ![t] = now + BlacklistTtl]
      /\ loggedOut' = loggedOut \union {t}
      /\ req' = [req EXCEPT ![r] = new]
  BY DEF BlacklistToken, Goto, Put
<1>2. new \in Request /\ req'[r] = new
  BY <1>0, <1>1 DEF Request
<1>3. StageOK(r)' /\ StaleOK(r)'
  BY <1>0, <1>1, <1>2 DEF StageOK, StaleOK, Request
<1>4. BlacklistOK' /\ blacklist' \in [Time -> Nat]
  <2>1. now + BlacklistTtl \in Nat /\ now + BlacklistTtl >= t + AccessLife
    BY <1>0
  <2>2. QED
    BY <1>0, <1>1, <2>1 DEF BlacklistOK, TypeOK
<1>5. KeyOK' /\ IssuedOK'
  BY <1>0 DEF KeyOK, IssuedOK
<1>6. QED
  BY <1>0, <1>1, <1>2, <1>3, <1>4, <1>5, PutKeeps DEF TypeOK

\* Time only ever makes a token less valid.
LEMMA TickKeeps ==
  ASSUME IInv, Tick
  PROVE  IInv'
<1> USE SessionsAssumption
<1>0. /\ now \in Nat /\ now' = now + 1 /\ now' \in Time
      /\ UNCHANGED <<key, blacklist, issued, req, loggedOut, revoked, signedOff>>
  BY DEF IInv, TypeOK, Time, Tick
<1>1. TypeOK' /\ KeyOK' /\ BlacklistOK'
  BY <1>0 DEF IInv, TypeOK, KeyOK, BlacklistOK
<1>2. IssuedOK'
  BY <1>0 DEF IInv, IssuedOK, TypeOK, Time
<1>3. ASSUME NEW r \in Requests
      PROVE  StageOK(r)' /\ StaleOK(r)'
  <2>1. req[r].at = "verify" => req[r].token \in Nat
    BY DEF IInv, StageOK, Time
  <2>2. req[r].at \in {"blacklist", "del", "set"} => req[r].token \in Int /\ req[r].signed \in Int
    BY DEF IInv, TypeOK, Request
  <2>3. StageOK(r)'
    BY <1>0, <2>2 DEF IInv, StageOK, Time
  <2>4. StaleOK(r)'
    BY <1>0, <2>1 DEF IInv, StaleOK, AccessValid
  <2>5. QED
    BY <2>3, <2>4
<1>4. QED
  BY <1>1, <1>2, <1>3 DEF IInv

LEMMA Inductive == Spec => []IInv
<1>1. IInv /\ [Next]_vars => IInv'
  <2>1. ASSUME IInv, UNCHANGED vars
        PROVE  IInv'
    BY <2>1 DEF IInv, TypeOK, KeyOK, BlacklistOK, IssuedOK, StageOK, StaleOK, AccessValid, vars
  <2>2. QED
    BY <2>1, ArriveKeeps, QuietStepKeeps, SetKeeps, DeleteKeeps, BlacklistKeeps, TickKeeps
    DEF Next, Step
<1>2. QED
  BY <1>1, InitIInv, PTL DEF Spec

(* The state keeps its types for every clock and number of requests.       *)
THEOREM TypeCorrect == Spec => []TypeOK
<1>1. IInv => TypeOK
  BY DEF IInv
<1>2. QED
  BY <1>1, Inductive, PTL

(* A token that was logged out is never let in again: the blacklist key    *)
(* lives at least as long as the token, and verifyToken reads it before it *)
(* looks at the expiry, so no instant is left between the two.             *)
THEOREM LogoutIsFinal == Spec => []LoggedOutRefused
<1>1. IInv => LoggedOutRefused
  BY DEF IInv, StaleOK, LoggedOutRefused
<1>2. QED
  BY <1>1, Inductive, PTL

(* The refresh_token key is there for as long as the token it vouches for. *)
THEOREM RefreshKeyLasts == Spec => []KeyOutlivesToken
<1>1. IInv => KeyOutlivesToken
  BY SessionsAssumption
  DEF IInv, KeyOK, KeyOutlivesToken, RefreshValid, KeyHolds, TypeOK, Time
<1>2. QED
  BY <1>1, Inductive, PTL
-----------------------------------------------------------------------------
(* After signing off.                                                       *)

\* Only a login and a refresh sign tokens, and after a clean sign-off no refresh does.
OffOK ==
    /\ signedOff = "clean" => key = NoKey
    /\ \A q \in Requests :
          /\ req[q].at = "get" => req[q].op = "refresh"
          /\ req[q].at \in {"sign", "set"} => req[q].op \in {"login", "refresh"}
          /\ signedOff = "clean" => ~Crossing(q)

LEMMA ArriveKeepsOff ==
  ASSUME IInv, OffOK, NEW r \in Requests, Arrive(r)
  PROVE  OffOK'
<1>0. req \in [Requests -> Request]
  BY DEF IInv, TypeOK
<1>1. \A q \in Requests \ {r} : req'[q] = req[q]
  BY <1>0, OneRequestMoves
<1>2. key' = key /\ signedOff' = signedOff
  BY DEF Arrive, ArriveLogin, ArriveRefresh, ArriveLogout, ArriveRevokeAll, ArriveUse
<1>3. \/ req'[r].op = "login" /\ req'[r].at = "sign"
      \/ req'[r].op = "refresh" /\ req'[r].at \in {"get", "refused"}
      \/ req'[r].at \in {"del", "exists"}
  <2>1. CASE ArriveLogin(r)
    BY <1>0, <2>1 DEF ArriveLogin, Put, Idle
  <2>2. CASE ArriveRevokeAll(r)
    BY <1>0, <2>2 DEF ArriveRevokeAll, Put, Idle
  <2>3. ASSUME NEW t \in issued, ArriveRefresh(r, t)
        PROVE  req'[r].op = "refresh" /\ req'[r].at \in {"get", "refused"}
    BY <1>0, <2>3 DEF ArriveRefresh, Put, Idle
  <2>4. ASSUME NEW t \in issued, ArriveLogout(r, t)
        PROVE  req'[r].at = "del"
    BY <1>0, <2>4 DEF ArriveLogout, Put, Idle
  <2>5. ASSUME NEW t \in issued, ArriveUse(r, t)
        PROVE  req'[r].at = "exists"
    BY <1>0, <2>5 DEF ArriveUse, Put, Idle
  <2>6. QED
    BY <2>1, <2>2, <2>3, <2>4, <2>5 DEF Arrive
<1>4. QED
  BY <1>1, <1>2, <1>3 DEF OffOK, Crossing, NoKey

LEMMA StepKeepsOff ==
  ASSUME IInv, OffOK, NEW r \in Requests, Step(r)
  PROVE  OffOK'
<1>0. req \in [Requests -> Request] /\ req[r] \in Request /\ now \in Nat
  BY DEF IInv, TypeOK, Time
<1>1. \A q \in Requests \ {r} : req'[q] = req[q]
  BY <1>0, OneRequestMoves
<1> USE DEF Put, Goto
<1>2. CASE GetRefreshKey(r)
  <2>1. /\ req[r].op = "refresh" /\ req'[r].op = "refresh"
        /\ req'[r].at = IF KeyHolds(req[r].token) THEN "sign" ELSE "refused"
        /\ key' = key /\ signedOff' = signedOff
    BY <1>0, <1>2 DEF GetRefreshKey, OffOK, Request
  <2>2. signedOff = "clean" => ~KeyHolds(req[r].token)
    BY <1>0 DEF OffOK, KeyHolds, NoKey
  <2>3. QED
    BY <1>1, <2>1, <2>2 DEF OffOK, Crossing, NoKey
<1>3. CASE Sign(r)
  <2>1. /\ req[r].at = "sign" /\ req'[r].at = "set" /\ req'[r].op = req[r].op
        /\ key' = key /\ signedOff' = signedOff
    BY <1>0, <1>3 DEF Sign, Request
  <2>2. QED
    BY <1>1, <2>1 DEF OffOK, Crossing, NoKey
<1>4. CASE SetRefreshKey(r)
  <2>1. /\ req[r].at = "set" /\ req'[r].at = "done"
        /\ signedOff' = IF req[r].op = "login" THEN "no" ELSE signedOff
    BY <1>0, <1>4 DEF SetRefreshKey, Request
  <2>2. signedOff' # "clean"
    BY <2>1 DEF OffOK, Crossing
  <2>3. QED
    BY <1>1, <2>1, <2>2 DEF OffOK
<1>5. CASE DeleteRefreshKey(r)
  <2>1. /\ req'[r].at \in {"blacklist", "done"} /\ key' = NoKey
        /\ signedOff' = "clean" => \A q \in Requests : ~Crossing(q)
    BY <1>0, <1>5 DEF DeleteRefreshKey, Request
  <2>2. NoKey' = NoKey
    BY DEF NoKey, NoToken
  <2>3. QED
    BY <1>1, <2>1, <2>2 DEF OffOK, Crossing
<1>6. CASE BlacklistToken(r) \/ CheckBlacklist(r) \/ VerifyAccess(r) \/ RedisError(r)
  <2>1. key' = key /\ signedOff' = signedOff
    BY <1>6 DEF BlacklistToken, CheckBlacklist, VerifyAccess, RedisError
  <2>2. req'[r].at \notin {"get", "sign", "set"}
    <3>1. CASE BlacklistToken(r) \/ CheckBlacklist(r) \/ VerifyAccess(r)
      BY <1>0, <3>1 DEF BlacklistToken, CheckBlacklist, VerifyAccess, Request
    <3>2. CASE RedisError(r)
      BY <1>0, <3>2 DEF RedisError, Request
    <3>3. QED
      BY <1>6, <3>1, <3>2
  <2>3. QED
    BY <1>1, <2>1, <2>2 DEF OffOK, Crossing, NoKey
<1>7. QED
  BY <1>2, <1>3, <1>4, <1>5, <1>6 DEF Step

(* Once the refresh token is revoked, no refresh succeeds until the next   *)
(* login, other than by way of a refresh that had compared its token.      *)
THEOREM SignOffHolds == Spec => []SignedOffHoldsNoKey
<1>1. Init => OffOK
  BY DEF Init, OffOK, Idle, Crossing
<1>2. IInv /\ OffOK /\ [Next]_vars => OffOK'
  <2>1. ASSUME OffOK, Tick \/ UNCHANGED vars
        PROVE  OffOK'
    BY <2>1 DEF Tick, vars, OffOK, Crossing, NoKey
  <2>2. QED
    BY <2>1, ArriveKeepsOff, StepKeepsOff DEF Next
<1>3. IInv /\ OffOK => SignedOffHoldsNoKey
  BY DEF IInv, TypeOK, Time, OffOK, SignedOffHoldsNoKey, KeyHolds, NoKey
<1>4. QED
  BY <1>1, <1>2, <1>3, Inductive, PTL DEF Spec
=============================================================================
