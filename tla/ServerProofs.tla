---------------------------- MODULE ServerProofs ----------------------------
(***************************************************************************)
(* Theorems about Server for any routes of the table, callers, sockets,    *)
(* connections, limits and numbers of requests and windows.  Nothing       *)
(* arrives before the start is over; a request reaches its controller only *)
(* past the guard of its route; and a limiter's counter is at least the    *)
(* number of requests it let through and did not refund.                   *)
(***************************************************************************)
EXTENDS Server, FiniteSetTheorems, TLAPS

Everything == {"database", "redis", "queues"}

\* What is up at each point of the start, and that nothing runs before its end.
ReadyOK ==
    /\ proc \in {"migrating", "redis"} => "database" \in up
    /\ proc \in {"unbound", "open", "closing"} => up = Everything
    /\ ~Running => sockets = {} /\ \A r \in Requests : req[r].at = "idle"

\* What a caller has shown by the time the controller runs.
Entitled(q) ==
    /\ Table[q.route].auth => q.caller.token
    /\ Table[q.route].guard # "none" =>
         \/ Level[q.caller.role] >= Level["admin"]
         \/ Table[q.route].guard = "owner" /\ q.caller.owner

\* What the stage of a request says of its path and of the limiter of its route.
PathOK(q) ==
    /\ q.at = "authenticating" => Table[q.route].auth /\ q.caller.token
    /\ q.at = "handling" => Entitled(q)
    /\ q.at \in {"idle", "authenticating"} => q.passed = 0
    /\ q.at \in {"idle", "authenticating", "handling"} => ~q.ok
    /\ q.at \in {"idle", "authenticating", "handling", "answering"} => q.refunded = 0
    /\ q.ok => q.passed # 0
    /\ q.passed # 0 =>
         Table[q.route].limit \in Limiters /\ q.passed <= window[Table[q.route].limit]
    /\ q.refunded # 0 =>
         Table[q.route].limit = "auth" /\ q.ok /\ q.refunded <= window["auth"]

\* The requests that limiter l let through in its window, and those it took off again.
Let(l) == {r \in Requests : Table[req[r].route].limit = l /\ req[r].passed = window[l]}
Back(l) == {r \in Requests : Table[req[r].route].limit = l /\ req[r].refunded = window[l]}
Charged(l) == {r \in Let(l) : ~(l = "auth" /\ req[r].ok)}

CountOK(l) ==
    /\ Cardinality(Let(l) \ Back(l)) <= hits[l] + Cardinality(Back(l) \ Let(l))
    /\ Cardinality(Charged(l)) <= MaxOf[l] + Cardinality(Back(l) \ Let(l))

IInv ==
    /\ TypeOK /\ ReadyOK
    /\ \A r \in Requests : PathOK(req[r])
    /\ \A l \in Limiters : CountOK(l)
-----------------------------------------------------------------------------
(* The table *)

\* Every entry of a part of the table has a guard that Allowed knows, and one that
\* needs no token has none.
Guarded(f) ==
    \A route \in DOMAIN f : /\ f[route].guard \in {"none", "owner", "admin"}
                            /\ ~f[route].auth => f[route].guard = "none"

LEMMA GuardedRow ==
  ASSUME NEW route, NEW entry, entry.guard \in {"none", "owner", "admin"},
         ~entry.auth => entry.guard = "none"
  PROVE  Guarded(route :> entry)
BY DEF Guarded, :>

LEMMA GuardedJoin ==
  ASSUME NEW f, NEW g, Guarded(f), Guarded(g)
  PROVE  Guarded(f @@ g)
BY DEF Guarded, @@

LEMMA GuardedKinds ==
  ASSUME NEW route
  PROVE  /\ Guarded(route :> Uncounted)
         /\ \A limit : \A checked : Guarded(route :> Public(limit, checked))
         /\ \A guard \in {"none", "owner", "admin"} : \A limit : \A checked :
              Guarded(route :> Private(guard, limit, checked))
<1>1. Guarded(route :> Uncounted)
  BY GuardedRow DEF Uncounted
<1>2. ASSUME NEW limit, NEW checked
      PROVE  Guarded(route :> Public(limit, checked))
  BY GuardedRow DEF Public
<1>3. ASSUME NEW guard \in {"none", "owner", "admin"}, NEW limit, NEW checked
      PROVE  Guarded(route :> Private(guard, limit, checked))
  BY GuardedRow DEF Private
<1>4. QED
  BY <1>1, <1>2, <1>3

LEMMA GuardedTable ==
  Guarded(Table)
<1>1. Guarded(HealthRoutes)
  BY GuardedKinds, GuardedJoin DEF HealthRoutes
<1>2. Guarded(AuthRoutes)
  BY GuardedKinds, GuardedJoin DEF AuthRoutes
<1>3. Guarded(UserRoutes)
  BY GuardedKinds, GuardedJoin DEF UserRoutes
<1>4. Guarded(ChannelRoutes)
  BY GuardedKinds, GuardedJoin DEF ChannelRoutes
<1>5. Guarded(MessageRoutes)
  BY GuardedKinds, GuardedJoin DEF MessageRoutes
<1>6. Guarded(TaskRoutes)
  BY GuardedKinds, GuardedJoin DEF TaskRoutes
<1>7. Guarded(NotificationRoutes)
  BY GuardedKinds, GuardedJoin DEF NotificationRoutes
<1>8. QED
  BY <1>1, <1>2, <1>3, <1>4, <1>5, <1>6, <1>7, GuardedJoin DEF Table

\* requireAdmin's list of roles is the top of ROLE_HIERARCHY.
LEMMA AdminRank ==
  ASSUME NEW caller \in Caller
  PROVE  RequireAdmin(caller) <=> Level[caller.role] >= Level["admin"]
<1>1. caller.role \in {"super_admin", "admin", "moderator", "user", "guest"}
  BY DEF Caller, Level
<1>2. QED
  BY <1>1 DEF RequireAdmin, Level

LEMMA AllowedIsEntitled ==
  ASSUME NEW q \in Request, Allowed(q.route, q.caller), q.caller.token
  PROVE  Entitled(q)
<1>1. q.caller \in Caller /\ q.route \in DOMAIN Table
  BY ServerAssumption DEF Request
<1>2. Table[q.route].guard \in {"none", "owner", "admin"}
  BY <1>1, GuardedTable DEF Guarded
<1>3. QED
  BY <1>1, <1>2, AdminRank DEF Allowed, RequireOwnershipOrRole, Entitled

LEMMA PublicIsEntitled ==
  ASSUME NEW q \in Request, ~Table[q.route].auth
  PROVE  Entitled(q)
<1>1. q.route \in DOMAIN Table
  BY ServerAssumption DEF Request
<1>2. QED
  BY <1>1, GuardedTable DEF Guarded, Entitled
-----------------------------------------------------------------------------
(* What becomes of a request *)

LEMMA Idleness ==
  /\ NoRequest \in [Requests -> Request] /\ NoHits \in [Limiters -> Nat]
  /\ \A r \in Requests :
       /\ NoRequest[r].at = "idle" /\ NoRequest[r].client /\ ~NoRequest[r].ok
       /\ NoRequest[r].passed = 0 /\ NoRequest[r].refunded = 0
       /\ NoRequest[r].caller \in Callers
  /\ \A l \in Limiters : NoHits[l] = 0 /\ FirstWindow[l] = 1 /\ 1 \in 1..MaxWindow[l]
<1>1. Served # {} /\ Callers # {} /\ \A l \in Limiters : MaxWindow[l] \in Nat \ {0}
  BY ServerAssumption DEF Limiters
<1>2. (CHOOSE route \in Served : TRUE) \in Served /\ (CHOOSE caller \in Callers : TRUE) \in Callers
  BY <1>1
<1>3. QED
  BY <1>1, <1>2 DEF NoRequest, Request, NoHits, FirstWindow

\* What a change of a request leaves as it was.
Keeps(q, new) ==
    /\ new.route = q.route /\ new.passed = q.passed
    /\ new.refunded = q.refunded /\ new.ok = q.ok

LEMMA OverEffect ==
  ASSUME NEW r \in Requests, NEW q \in Request
  PROVE  Over(q) \in Request /\ Keeps(q, Over(q)) /\ Over(q).at = "over"
<1>1. 1 \in Requests
  <2>1. MaxRequests \in Nat
    BY ServerAssumption
  <2>2. QED
    BY <2>1 DEF Requests
<1>2. NoRequest[1].caller \in Callers
  BY <1>1, Idleness
<1>3. QED
  BY <1>2 DEF Over, Request, Keeps

LEMMA RefusedEffect ==
  ASSUME NEW r \in Requests, NEW q \in Request
  PROVE  /\ Refused(q) \in Request /\ Keeps(q, Refused(q))
         /\ Refused(q).at \in {"answering", "over"}
<1>1. CASE q.client
  BY <1>1 DEF Refused, Request, Keeps
<1>2. CASE ~q.client
  BY <1>2, OverEffect DEF Refused
<1>3. QED
  BY <1>1, <1>2

LEMMA KeptEffect ==
  ASSUME NEW r \in Requests, NEW q \in Request
  PROVE  Kept(q) \in Request /\ Keeps(q, Kept(q)) /\ Kept(q).at = "kept"
<1>1. Over(q) \in Request /\ Keeps(q, Over(q))
  BY OverEffect
<1>2. QED
  BY <1>1 DEF Kept, Request, Keeps

\* A request that was not let through before, at the limiter of its route.
LEMMA LimitedEffect ==
  ASSUME NEW r \in Requests, NEW q \in Request, q.passed = 0, NEW counts, NEW valid,
         counts \in [Limiters -> Nat], window \in [Limiters -> Nat], NEW new,
         new = Limited(q, counts, valid)
  PROVE  /\ new \in Request /\ new.route = q.route /\ new.ok = q.ok
         /\ new.refunded = q.refunded
         /\ new.at \in {"handling", "answering", "over"}
         /\ new.at = "handling" => new.caller = q.caller
         /\ \/ new.passed = 0
            \/ LET l == Table[q.route].limit
               IN  /\ l \in Limiters /\ new.passed = window[l]
                   /\ counts[l] <= MaxOf[l]
<1> DEFINE l == Table[q.route].limit
           passed == IF l = "none" THEN q ELSE [q EXCEPT !.passed = window[l]]
<1>1. l \in Limiters \union {"none"} /\ q.route \in Served
  BY ServerAssumption DEF Request, Limiters
<1>2. /\ passed \in Request /\ passed.route = q.route /\ passed.ok = q.ok
      /\ passed.refunded = q.refunded /\ passed.caller = q.caller
      /\ passed.passed = IF l = "none" THEN 0 ELSE window[l]
  BY <1>1 DEF Request
<1>3. /\ [passed EXCEPT !.at = "handling"] \in Request
      /\ [passed EXCEPT !.at = "handling"].at = "handling"
      /\ [passed EXCEPT !.at = "handling"].caller = q.caller
      /\ Keeps(passed, [passed EXCEPT !.at = "handling"])
  BY <1>2 DEF Request, Keeps
<1>4. CASE Exceeded(counts, l)
  <2>1. new = Refused(q)
    BY <1>4 DEF Limited
  <2>2. new \in Request /\ Keeps(q, new) /\ new.at \in {"answering", "over"}
    BY <2>1, RefusedEffect
  <2>3. QED
    BY <2>2 DEF Keeps
<1>5. CASE ~Exceeded(counts, l)
  <2>1. l # "none" => counts[l] <= MaxOf[l]
    <3>1. l # "none" => ~(counts[l] > MaxOf[l]) /\ counts[l] \in Nat /\ MaxOf[l] \in Nat
      BY <1>1, <1>5, ServerAssumption DEF Exceeded, Limiters
    <3>2. QED
      BY <3>1
  <2>2. new = Refused(passed) \/ new = [passed EXCEPT !.at = "handling"]
    BY <1>5 DEF Limited
  <2>3. CASE new = Refused(passed)
    <3>1. /\ new \in Request /\ Keeps(passed, new) /\ new.at \in {"answering", "over"}
      BY <1>2, <2>3, RefusedEffect
    <3>2. QED
      BY <1>1, <1>2, <2>1, <3>1 DEF Keeps
  <2>4. CASE new = [passed EXCEPT !.at = "handling"]
    BY <1>1, <1>2, <1>3, <2>1, <2>4 DEF Keeps
  <2>5. QED
    BY <2>2, <2>3, <2>4
<1>6. QED
  BY <1>4, <1>5

LEMMA CountEffect ==
  ASSUME NEW counts \in [Limiters -> Nat], NEW l \in Limiters \union {"none"}
  PROVE  /\ Count(counts, l) \in [Limiters -> Nat]
         /\ \A k \in Limiters : Count(counts, l)[k] >= counts[k]
         /\ l # "none" => Count(counts, l)[l] = counts[l] + 1
<1>1. CASE l = "none"
  BY <1>1 DEF Count
<1>2. CASE l # "none"
  <2>1. l \in Limiters /\ Count(counts, l) = [counts EXCEPT ![l] = @ + 1]
    BY <1>2 DEF Count
  <2>2. QED
    BY <1>2, <2>1
<1>3. QED
  BY <1>1, <1>2

\* How a step that counts leaves its request: not let through, or let through by the
\* limiter of its route and counted there within the maximum.
Counted(q, new, counts) ==
    /\ new \in Request /\ ~new.ok /\ new.refunded = 0
    /\ counts \in [Limiters -> Nat]
    /\ \A k \in Limiters : counts[k] >= hits[k]
    /\ \/ new.passed = 0
       \/ LET l == Table[new.route].limit
          IN  /\ l \in Limiters /\ new.passed = window[l]
              /\ counts[l] <= MaxOf[l] /\ counts[l] >= hits[l] + 1

LEMMA LimitedCounts ==
  ASSUME NEW r \in Requests, NEW q \in Request, q.passed = 0, q.refunded = 0, ~q.ok,
         NEW first \in [Limiters -> Nat], NEW valid, hits \in [Limiters -> Nat],
         \A k \in Limiters : first[k] >= hits[k],
         window \in [Limiters -> Nat], NEW counts, counts = Count(first, Table[q.route].limit),
         NEW new, new = Limited(q, counts, valid)
  PROVE  /\ Counted(q, new, counts) /\ new.route = q.route
         /\ new.at \in {"handling", "answering", "over"}
         /\ new.at = "handling" => new.caller = q.caller
<1> DEFINE l == Table[q.route].limit
<1>1. l \in Limiters \union {"none"}
  BY ServerAssumption DEF Request, Limiters
<1>2. /\ counts \in [Limiters -> Nat]
      /\ \A k \in Limiters : counts[k] >= first[k]
      /\ l # "none" => counts[l] = first[l] + 1
  BY <1>1, CountEffect
<1>3. /\ new \in Request /\ new.route = q.route /\ new.ok = q.ok
      /\ new.refunded = q.refunded
      /\ new.at \in {"handling", "answering", "over"}
      /\ new.at = "handling" => new.caller = q.caller
      /\ \/ new.passed = 0
         \/ l \in Limiters /\ new.passed = window[l] /\ counts[l] <= MaxOf[l]
  BY <1>2, LimitedEffect
<1>4. \A k \in Limiters : counts[k] >= hits[k] /\ (k = l /\ l # "none" => counts[k] >= hits[k] + 1)
  BY <1>2
<1>5. "none" \in Limiters => new.passed = 0 \/ l # "none"
  <2>1. ASSUME l = "none"
        PROVE  new.passed = 0
    BY <2>1, RefusedEffect DEF Limited, Keeps, Request
  <2>2. QED
    BY <2>1
<1>6. QED
  BY <1>1, <1>2, <1>3, <1>4, <1>5 DEF Counted
-----------------------------------------------------------------------------
(* The limiters *)

LEMMA SetsFinite ==
  /\ IsFiniteSet(Requests)
  /\ \A S \in SUBSET Requests : IsFiniteSet(S) /\ Cardinality(S) \in Nat
  /\ \A S \in SUBSET Requests : \A T \in SUBSET S : Cardinality(T) <= Cardinality(S)
  /\ \A S \in SUBSET Requests : \A r \in Requests :
       /\ r \notin S => Cardinality(S \union {r}) = Cardinality(S) + 1
       /\ r \in S => Cardinality(S \ {r}) = Cardinality(S) - 1
  /\ Cardinality({}) = 0
<1>1. IsFiniteSet(Requests)
  <2>1. MaxRequests \in Nat
    BY ServerAssumption
  <2>2. QED
    BY <2>1, FS_Interval DEF Requests
<1>2. ASSUME NEW S \in SUBSET Requests
      PROVE  IsFiniteSet(S) /\ Cardinality(S) \in Nat
  BY <1>1, FS_Subset, FS_CardinalityType
<1>3. ASSUME NEW S \in SUBSET Requests, NEW T \in SUBSET S
      PROVE  Cardinality(T) <= Cardinality(S)
  BY <1>2, FS_Subset
<1>4. ASSUME NEW S \in SUBSET Requests, NEW r \in Requests, r \notin S
      PROVE  Cardinality(S \union {r}) = Cardinality(S) + 1
  BY <1>2, <1>4, FS_AddElement
<1>5. ASSUME NEW S \in SUBSET Requests, NEW r \in Requests, r \in S
      PROVE  Cardinality(S \ {r}) = Cardinality(S) - 1
  BY <1>2, <1>5, FS_RemoveElement
<1>6. Cardinality({}) = 0
  BY FS_EmptySet
<1>7. QED
  BY <1>1, <1>2, <1>3, <1>4, <1>5, <1>6

\* A step that lets nothing through limiter l, takes nothing off its count and starts
\* no window of it.
LEMMA QuietKeepsCount ==
  ASSUME NEW l \in Limiters, CountOK(l), hits[l] \in Nat, hits'[l] \in Nat,
         hits'[l] >= hits[l], MaxOf[l] \in Nat,
         Let(l)' = Let(l), Back(l)' = Back(l), Charged(l)' \subseteq Charged(l)
  PROVE  CountOK(l)'
<1>1. Let(l) \subseteq Requests /\ Back(l) \subseteq Requests /\ Charged(l) \subseteq Requests
  BY DEF Let, Back, Charged
<1>2. Cardinality(Charged(l)') <= Cardinality(Charged(l))
  BY <1>1, SetsFinite
<1>3. /\ Cardinality(Let(l) \ Back(l)) \in Nat /\ Cardinality(Back(l) \ Let(l)) \in Nat
      /\ Cardinality(Charged(l)) \in Nat /\ Cardinality(Charged(l)') \in Nat
  <2>1. /\ Let(l) \ Back(l) \in SUBSET Requests /\ Back(l) \ Let(l) \in SUBSET Requests
        /\ Charged(l) \in SUBSET Requests /\ Charged(l)' \in SUBSET Requests
    BY <1>1
  <2>2. QED
    BY <2>1, SetsFinite
<1>4. QED
  BY <1>2, <1>3 DEF CountOK

\* A step that lets r through limiter l.
LEMMA PassKeepsCount ==
  ASSUME NEW l \in Limiters, CountOK(l), hits[l] \in Nat, hits'[l] \in Nat,
         hits'[l] >= hits[l] + 1, hits'[l] <= MaxOf[l], MaxOf[l] \in Nat,
         NEW r \in Requests, r \notin Let(l), r \notin Back(l),
         Let(l)' = Let(l) \union {r}, Back(l)' = Back(l),
         Charged(l)' \subseteq Let(l)' \ Back(l)'
  PROVE  CountOK(l)'
<1> DEFINE A == Let(l) \ Back(l)
           B == Back(l) \ Let(l)
<1>1. Let(l) \subseteq Requests /\ Back(l) \subseteq Requests
  BY DEF Let, Back
<1>2. Let(l)' \ Back(l)' = A \union {r} /\ Back(l)' \ Let(l)' = B /\ r \notin A
  OBVIOUS
<1>3. A \in SUBSET Requests /\ B \in SUBSET Requests /\ A \union {r} \in SUBSET Requests
      /\ Charged(l)' \in SUBSET (A \union {r})
  BY <1>1, <1>2
<1>4. /\ Cardinality(A \union {r}) = Cardinality(A) + 1
      /\ Cardinality(Charged(l)') <= Cardinality(A \union {r})
      /\ Cardinality(A) \in Nat /\ Cardinality(B) \in Nat
      /\ Cardinality(Charged(l)') \in Nat
  BY <1>2, <1>3, SetsFinite
<1>5. Cardinality(A) <= hits[l] + Cardinality(B)
  BY DEF CountOK
<1> HIDE DEF A, B
<1>6. /\ Cardinality(A \union {r}) <= hits'[l] + Cardinality(B)
      /\ Cardinality(Charged(l)') <= MaxOf[l] + Cardinality(B)
  BY <1>4, <1>5
<1>7. QED
  BY <1>2, <1>6 DEF CountOK

\* A step that takes r off the count of limiter l.
LEMMA RefundKeepsCount ==
  ASSUME NEW l \in Limiters, CountOK(l), hits[l] \in Nat, hits[l] > 0,
         hits'[l] = hits[l] - 1, MaxOf[l] \in Nat,
         NEW r \in Requests, r \notin Back(l),
         Let(l)' = Let(l), Back(l)' = Back(l) \union {r}, Charged(l)' = Charged(l)
  PROVE  CountOK(l)'
<1> DEFINE A == Let(l) \ Back(l)
           B == Back(l) \ Let(l)
           C == Charged(l)
<1>1. A \in SUBSET Requests /\ B \in SUBSET Requests /\ C \in SUBSET Requests
  BY DEF Let, Back, Charged
<1>2. /\ Cardinality(A) \in Nat /\ Cardinality(B) \in Nat /\ Cardinality(C) \in Nat
  BY <1>1, SetsFinite
<1>3. Cardinality(A) <= hits[l] + Cardinality(B) /\ Cardinality(C) <= MaxOf[l] + Cardinality(B)
  BY DEF CountOK
<1>4. CASE r \in Let(l)
  <2>1. Let(l)' \ Back(l)' = A \ {r} /\ Back(l)' \ Let(l)' = B /\ r \in A
    BY <1>4
  <2>2. Cardinality(A \ {r}) = Cardinality(A) - 1
    BY <1>1, <2>1, SetsFinite
  <2> HIDE DEF A, B, C
  <2>3. Cardinality(A \ {r}) <= hits'[l] + Cardinality(B)
    BY <1>2, <1>3, <2>2
  <2>4. QED
    BY <1>3, <2>1, <2>3 DEF CountOK, C
<1>5. CASE r \notin Let(l)
  <2>1. Let(l)' \ Back(l)' = A /\ Back(l)' \ Let(l)' = B \union {r} /\ r \notin B
    BY <1>5
  <2>2. Cardinality(B \union {r}) = Cardinality(B) + 1
    BY <1>1, <2>1, SetsFinite
  <2> HIDE DEF A, B, C
  <2>3. /\ Cardinality(A) <= hits'[l] + Cardinality(B \union {r})
        /\ Cardinality(C) <= MaxOf[l] + Cardinality(B \union {r})
    BY <1>2, <1>3, <2>2
  <2>4. QED
    BY <2>1, <2>3 DEF CountOK, C
<1>6. QED
  BY <1>4, <1>5

\* A window that has let nothing through yet.
LEMMA EmptyCount ==
  ASSUME NEW l \in Limiters, MaxOf[l] \in Nat, hits'[l] \in Nat, (Let(l) = {})', (Back(l) = {})'
  PROVE  CountOK(l)'
<1>1. (Let(l) \ Back(l))' = {} /\ (Back(l) \ Let(l))' = {} /\ Charged(l)' = {}
  BY DEF Charged
<1>2. QED
  BY <1>1, SetsFinite DEF CountOK
-----------------------------------------------------------------------------
(* Requests *)

LEMMA Types ==
  ASSUME TypeOK
  PROVE  /\ req \in [Requests -> Request] /\ hits \in [Limiters -> Nat]
         /\ window \in [Limiters -> Nat]
         /\ \A l \in Limiters : window[l] \in Nat \ {0} /\ MaxOf[l] \in Nat
<1>1. \A l \in Limiters : MaxWindow[l] \in Nat \ {0} /\ MaxOf[l] \in Nat
  BY ServerAssumption DEF Limiters
<1>2. QED
  BY <1>1 DEF TypeOK

\* A request that a step neither lets through nor takes off a count.
Same(r) ==
    \/ /\ req'[r].route = req[r].route /\ req'[r].passed = req[r].passed
       /\ req'[r].refunded = req[r].refunded /\ (req[r].ok => req'[r].ok)
    \/ /\ req[r].passed = 0 /\ req[r].refunded = 0
       /\ req'[r].passed = 0 /\ req'[r].refunded = 0

LEMMA SameCounts ==
  ASSUME TypeOK, NEW l \in Limiters, window' = window, NEW r \in Requests, Same(r)
  PROVE  /\ r \in Let(l)' <=> r \in Let(l)
         /\ r \in Back(l)' <=> r \in Back(l)
         /\ r \in Charged(l)' => r \in Charged(l)
<1>1. window[l] # 0
  BY Types
<1>2. QED
  BY <1>1 DEF Same, Let, Back, Charged

\* One request is counted, and perhaps let through by the limiter of its route.
LEMMA CountedKeepsCounts ==
  ASSUME TypeOK, \A l \in Limiters : CountOK(l), \A t \in Requests : PathOK(req[t]),
         NEW r \in Requests, req[r].passed = 0, req[r].refunded = 0,
         req' \in [Requests -> Request], \A t \in Requests \ {r} : Same(t),
         Counted(req[r], req'[r], hits'), window' = window
  PROVE  \A l \in Limiters : CountOK(l)'
<1> DEFINE k == Table[req'[r].route].limit
<1> SUFFICES ASSUME NEW l \in Limiters
             PROVE  CountOK(l)'
  OBVIOUS
<1>1. /\ hits[l] \in Nat /\ MaxOf[l] \in Nat /\ window[l] \in Nat \ {0}
      /\ hits'[l] \in Nat /\ hits'[l] >= hits[l] /\ CountOK(l)
  BY Types DEF Counted
<1>2. \A t \in Requests \ {r} : /\ t \in Let(l)' <=> t \in Let(l)
                                /\ t \in Back(l)' <=> t \in Back(l)
                                /\ t \in Charged(l)' => t \in Charged(l)
  BY SameCounts
<1>3. Let(l)' \subseteq Requests /\ Back(l)' \subseteq Requests /\ Charged(l)' \subseteq Requests
      /\ Let(l) \subseteq Requests /\ Back(l) \subseteq Requests
  BY DEF Let, Back, Charged
<1>4. r \notin Let(l) /\ r \notin Back(l) /\ r \notin Back(l)'
  BY <1>1 DEF Let, Back, Counted
<1>5. CASE req'[r].passed = 0 \/ k # l
  <2>1. r \notin Let(l)' /\ r \notin Charged(l)'
    BY <1>1, <1>5 DEF Let, Charged
  <2>2. Let(l)' = Let(l) /\ Back(l)' = Back(l) /\ Charged(l)' \subseteq Charged(l)
    BY <1>2, <1>3, <1>4, <2>1
  <2>3. QED
    BY <1>1, <2>2, QuietKeepsCount
<1>6. CASE req'[r].passed # 0 /\ k = l
  <2>1. /\ req'[r].passed = window[l] /\ hits'[l] >= hits[l] + 1 /\ hits'[l] <= MaxOf[l]
    BY <1>6 DEF Counted
  <2>2. r \in Let(l)'
    BY <1>6, <2>1 DEF Let
  <2>3. Let(l)' = Let(l) \union {r} /\ Back(l)' = Back(l)
    BY <1>2, <1>3, <1>4, <2>2
  <2>4. ASSUME NEW t \in Charged(l)'
        PROVE  t \in Let(l)' \ Back(l)'
    <3>1. t \in Let(l)'
      BY DEF Charged
    <3>2. CASE t = r
      BY <1>4, <3>1, <3>2
    <3>3. CASE t # r
      <4>1. t \in Requests /\ t \in Charged(l)
        BY <1>2, <1>3, <3>3
      <4>2. ASSUME t \in Back(l)
            PROVE  FALSE
        <5>1. req[t].refunded = window[l] /\ Table[req[t].route].limit = l /\ PathOK(req[t])
          BY <4>1, <4>2 DEF Back
        <5>2. l = "auth" /\ req[t].ok
          BY <1>1, <5>1 DEF PathOK
        <5>3. QED
          BY <4>1, <5>2 DEF Charged
      <4>3. QED
        BY <1>2, <3>1, <3>3, <4>1, <4>2
    <3>4. QED
      BY <3>2, <3>3
  <2>5. QED
    BY <1>1, <1>4, <2>1, <2>3, <2>4, PassKeepsCount
<1>7. QED
  BY <1>5, <1>6

\* No request is counted.
LEMMA QuietKeepsCounts ==
  ASSUME TypeOK, \A l \in Limiters : CountOK(l), \A t \in Requests : Same(t),
         window' = window, hits' = hits
  PROVE  \A l \in Limiters : CountOK(l)'
<1> SUFFICES ASSUME NEW l \in Limiters
             PROVE  CountOK(l)'
  OBVIOUS
<1>1. hits[l] \in Nat /\ MaxOf[l] \in Nat /\ CountOK(l)
  BY Types
<1>2. \A t \in Requests : /\ t \in Let(l)' <=> t \in Let(l)
                          /\ t \in Back(l)' <=> t \in Back(l)
                          /\ t \in Charged(l)' => t \in Charged(l)
  BY SameCounts
<1>3. Let(l)' \subseteq Requests /\ Back(l)' \subseteq Requests /\ Charged(l)' \subseteq Requests
      /\ Let(l) \subseteq Requests /\ Back(l) \subseteq Requests
  BY DEF Let, Back, Charged
<1>4. Let(l)' = Let(l) /\ Back(l)' = Back(l) /\ Charged(l)' \subseteq Charged(l)
  BY <1>2, <1>3
<1>5. QED
  BY <1>1, <1>4, QuietKeepsCount

LEMMA CountedPath ==
  ASSUME TypeOK, NEW q, NEW new, NEW counts, Counted(q, new, counts),
         new.at \in {"handling", "answering", "over"}, new.at = "handling" => Entitled(new)
  PROVE  PathOK(new)
<1>1. \A l \in Limiters : window[l] \in Nat
  BY Types
<1>2. QED
  BY <1>1 DEF Counted, PathOK

LEMMA RefusedCounts ==
  ASSUME TypeOK, NEW r \in Requests, NEW q \in Request, q.passed = 0, q.refunded = 0, ~q.ok,
         NEW counts \in [Limiters -> Nat], \A k \in Limiters : counts[k] >= hits[k]
  PROVE  Counted(q, Refused(q), counts) /\ PathOK(Refused(q))
<1>1. /\ Refused(q) \in Request /\ Keeps(q, Refused(q))
      /\ Refused(q).at \in {"answering", "over"}
  BY RefusedEffect
<1>2. Counted(q, Refused(q), counts)
  BY <1>1 DEF Counted, Keeps
<1>3. QED
  BY <1>1, <1>2, CountedPath

LEMMA EnteredCounts ==
  ASSUME TypeOK, NEW r \in Requests, NEW q \in Request, q.at = "idle", q.passed = 0,
         q.refunded = 0, ~q.ok, NEW valid
  PROVE  /\ Counted(q, Entered(q, valid).request, Entered(q, valid).counts)
         /\ PathOK(Entered(q, valid).request)
<1> DEFINE route == Table[q.route]
           general == IF route.general THEN "general" ELSE "none"
           first == Count(hits, general)
           second == Count(first, route.limit)
           new == Entered(q, valid)
<1>1. hits \in [Limiters -> Nat] /\ window \in [Limiters -> Nat] /\ general \in Limiters \union {"none"}
  BY Types, ServerAssumption DEF Limiters
<1>2. \A k \in Limiters : hits[k] \in Nat
  BY <1>1
<1>3. first \in [Limiters -> Nat] /\ \A k \in Limiters : first[k] >= hits[k]
  BY <1>1, CountEffect
<1> HIDE DEF first, general
<1>4. CASE Exceeded(first, general) \/ (route.auth /\ ~q.caller.token)
  <2>1. new = [request |-> Refused(q), counts |-> first]
    BY <1>4 DEF Entered, first, general
  <2>2. QED
    BY <1>3, <2>1, RefusedCounts
<1>5. CASE ~(Exceeded(first, general) \/ (route.auth /\ ~q.caller.token)) /\ route.auth
  <2>1. new = [request |-> [q EXCEPT !.at = "authenticating"], counts |-> first]
    BY <1>5 DEF Entered, first, general
  <2>2. /\ [q EXCEPT !.at = "authenticating"] \in Request
        /\ Keeps(q, [q EXCEPT !.at = "authenticating"])
        /\ [q EXCEPT !.at = "authenticating"].at = "authenticating"
        /\ [q EXCEPT !.at = "authenticating"].caller = q.caller
    BY DEF Request, Keeps
  <2> DEFINE moved == [q EXCEPT !.at = "authenticating"]
  <2>3. Counted(q, moved, first)
    BY <1>3, <2>2 DEF Counted, Keeps
  <2>4. PathOK(moved)
    BY <1>5, <2>2 DEF Keeps, PathOK
  <2>5. QED
    BY <2>1, <2>3, <2>4
<1>6. CASE ~(Exceeded(first, general) \/ (route.auth /\ ~q.caller.token)) /\ ~route.auth
  <2>1. new = [request |-> Limited(q, second, valid), counts |-> second]
    BY <1>6 DEF Entered, first, general
  <2> DEFINE limited == Limited(q, second, valid)
  <2>2. /\ Counted(q, limited, second) /\ limited.route = q.route
        /\ limited.at \in {"handling", "answering", "over"}
    BY <1>1, <1>3, LimitedCounts
  <2>3. limited \in Request
    BY <2>2 DEF Counted
  <2>4. Entitled(limited)
    BY <1>6, <2>2, <2>3, PublicIsEntitled
  <2>5. PathOK(limited)
    BY <2>2, <2>4, CountedPath
  <2>6. QED
    BY <2>1, <2>2, <2>5
<1>7. QED
  BY <1>4, <1>5, <1>6

LEMMA PathStays ==
  ASSUME window' = window, NEW CONSTANT t, PathOK(req'[t])
  PROVE  PathOK(req[t])'
BY DEF PathOK, Entitled

\* A step of the requests, as far as they are typed, on their path and counted.
LEMMA RequestStep ==
  ASSUME IInv, Running, UNCHANGED <<proc, cause, fatal, waiting, up, sockets, window>>,
         req' \in [Requests -> Request], hits' \in [Limiters -> Nat],
         \A t \in Requests : PathOK(req'[t]), \A l \in Limiters : CountOK(l)'
  PROVE  IInv'
<1>1. TypeOK'
  BY DEF IInv, TypeOK
<1>2. ReadyOK'
  BY DEF IInv, ReadyOK, Running
<1>3. \A t \in Requests : PathOK(req[t])'
  BY PathStays
<1>4. QED
  BY <1>1, <1>2, <1>3 DEF IInv

LEMMA PutEffect ==
  ASSUME TypeOK, NEW r \in Requests, NEW new \in Request, Put(r, new)
  PROVE  /\ req' \in [Requests -> Request] /\ req'[r] = new
         /\ \A t \in Requests \ {r} : req'[t] = req[t] /\ Same(t)
BY Types DEF Put, Same

LEMMA ArriveKeepsIInv ==
  ASSUME IInv, NEW r \in Requests, NEW route \in Served, NEW caller \in Callers,
         NEW valid \in BOOLEAN, Arrive(r, route, caller, valid)
  PROVE  IInv'
<1> DEFINE q == [req[r] EXCEPT !.route = route, !.caller = caller]
           entered == Entered(q, valid)
           new == entered.request
<1>1. /\ TypeOK /\ \A t \in Requests : PathOK(req[t])
      /\ \A l \in Limiters : CountOK(l)
      /\ req \in [Requests -> Request] /\ req[r] \in Request
  BY Types DEF IInv
<1>2. /\ req[r].at = "idle" /\ req[r].passed = 0 /\ req[r].refunded = 0 /\ ~req[r].ok
  BY <1>1 DEF Arrive, PathOK
<1>3. q \in Request /\ q.at = "idle" /\ q.passed = 0 /\ q.refunded = 0 /\ ~q.ok
  BY <1>1, <1>2 DEF Request
<1> HIDE DEF q
<1>4. Counted(q, new, entered.counts) /\ PathOK(new)
  BY <1>1, <1>3, EnteredCounts
<1>5. /\ proc \in {"open", "closing"} /\ hits' = entered.counts
      /\ UNCHANGED <<proc, cause, fatal, waiting, up, sockets, window>>
      /\ \/ Put(r, new)
         \/ \E t \in Requests :
              req[t].at = "kept" /\ req' = [req EXCEPT ![t] = Over(req[t]), ![r] = new]
  BY DEF Arrive, boot, q
<1>6. new \in Request /\ hits' \in [Limiters -> Nat]
  BY <1>4, <1>5 DEF Counted
<1> HIDE DEF entered, new
<1>7. /\ req' \in [Requests -> Request] /\ req'[r] = new
      /\ \A t \in Requests \ {r} : Same(t) /\ PathOK(req'[t])
  <2>1. CASE Put(r, new)
    BY <1>1, <1>6, <2>1, PutEffect
  <2>2. CASE ~Put(r, new)
    <3>1. PICK t \in Requests :
            req[t].at = "kept" /\ req' = [req EXCEPT ![t] = Over(req[t]), ![r] = new]
      BY <1>5, <2>2
    <3>2. t # r
      BY <1>2, <3>1
    <3>3. Over(req[t]) \in Request /\ Keeps(req[t], Over(req[t])) /\ Over(req[t]).at = "over"
      BY <1>1, OverEffect
    <3>4. PathOK(Over(req[t]))
      BY <1>1, <3>3 DEF PathOK, Keeps
    <3>5. /\ req' \in [Requests -> Request] /\ req'[r] = new /\ req'[t] = Over(req[t])
          /\ \A u \in Requests \ {r, t} : req'[u] = req[u]
      BY <1>1, <1>6, <3>1, <3>2, <3>3
    <3>6. QED
      BY <1>1, <3>3, <3>4, <3>5 DEF Same, Keeps
  <2>3. QED
    BY <2>1, <2>2
<1>8. Counted(req[r], req'[r], hits')
  BY <1>4, <1>5, <1>7 DEF Counted
<1>9. \A l \in Limiters : CountOK(l)'
  BY <1>1, <1>2, <1>5, <1>7, <1>8, CountedKeepsCounts
<1>10. QED
  BY <1>4, <1>5, <1>6, <1>7, <1>9, RequestStep DEF Running

LEMMA AuthenticateKeepsIInv ==
  ASSUME IInv, NEW r \in Requests, NEW valid \in BOOLEAN, Authenticate(r, valid)
  PROVE  IInv'
<1>1. /\ TypeOK /\ \A t \in Requests : PathOK(req[t])
      /\ \A l \in Limiters : CountOK(l)
      /\ req \in [Requests -> Request] /\ req[r] \in Request
      /\ hits \in [Limiters -> Nat] /\ window \in [Limiters -> Nat]
  BY Types DEF IInv
<1>2. /\ req[r].at = "authenticating" /\ req[r].passed = 0 /\ req[r].refunded = 0 /\ ~req[r].ok
      /\ req[r].caller.token
  BY <1>1 DEF Authenticate, PathOK
<1>3. /\ Running /\ UNCHANGED <<proc, cause, fatal, waiting, up, sockets, window>>
  BY DEF Authenticate, boot
<1>4. ASSUME NEW new, Put(r, new), Counted(req[r], new, hits'), PathOK(new)
      PROVE  IInv'
  <2>1. new \in Request /\ hits' \in [Limiters -> Nat]
    BY <1>4 DEF Counted
  <2>2. /\ req' \in [Requests -> Request] /\ req'[r] = new
        /\ \A t \in Requests \ {r} : req'[t] = req[t] /\ Same(t)
    BY <1>1, <1>4, <2>1, PutEffect
  <2>3. \A l \in Limiters : CountOK(l)'
    BY <1>1, <1>2, <1>3, <1>4, <2>2, CountedKeepsCounts
  <2>4. \A t \in Requests : PathOK(req'[t])
    BY <1>1, <1>4, <2>2
  <2>5. QED
    BY <1>3, <2>1, <2>2, <2>3, <2>4, RequestStep
<1>5. CASE Put(r, Refused(req[r])) /\ hits' = hits
  <2>1. \A k \in Limiters : hits'[k] >= hits[k]
    BY <1>1, <1>5
  <2>2. QED
    BY <1>1, <1>2, <1>4, <1>5, <2>1, RefusedCounts
<1>6. ASSUME Allowed(req[r].route, req[r].caller),
             NEW counts, counts = Count(hits, Table[req[r].route].limit), hits' = counts,
             Put(r, Limited(req[r], counts, valid))
      PROVE  IInv'
  <2> DEFINE new == Limited(req[r], counts, valid)
  <2>1. /\ req[r] \in Request /\ req[r].passed = 0 /\ req[r].refunded = 0 /\ ~req[r].ok
        /\ hits \in [Limiters -> Nat] /\ \A k \in Limiters : hits[k] >= hits[k]
        /\ window \in [Limiters -> Nat]
        /\ counts = Count(hits, Table[req[r].route].limit)
    BY <1>1, <1>2, <1>6
  <2>2. /\ Counted(req[r], new, counts) /\ new.route = req[r].route
        /\ new.at \in {"handling", "answering", "over"}
        /\ new.at = "handling" => new.caller = req[r].caller
    BY <2>1, LimitedCounts
  <2>3. Entitled(req[r])
    BY <1>1, <1>2, <1>6, AllowedIsEntitled
  <2> HIDE DEF new
  <2>4. new.at = "handling" => Entitled(new)
    BY <2>2, <2>3 DEF Entitled
  <2>5. PathOK(new)
    BY <1>1, <2>2, <2>4, CountedPath
  <2>6. Put(r, new)
    BY <1>6 DEF new
  <2>7. QED
    BY <1>4, <1>6, <2>2, <2>5, <2>6
<1>7. QED
  BY <1>5, <1>6 DEF Authenticate

LEMMA QuietRequest ==
  ASSUME IInv, Running, UNCHANGED <<proc, cause, fatal, waiting, up, sockets, hits, window>>,
         NEW r \in Requests, NEW new \in Request, Put(r, new), PathOK(new),
         new.route = req[r].route, new.passed = req[r].passed,
         new.refunded = req[r].refunded, req[r].ok => new.ok
  PROVE  IInv'
<1>1. /\ TypeOK /\ \A t \in Requests : PathOK(req[t])
      /\ \A l \in Limiters : CountOK(l)
      /\ hits \in [Limiters -> Nat]
  BY Types DEF IInv
<1>2. /\ req' \in [Requests -> Request] /\ req'[r] = new
      /\ \A t \in Requests \ {r} : req'[t] = req[t] /\ Same(t)
  BY <1>1, PutEffect
<1>3. \A t \in Requests : Same(t)
  BY <1>2 DEF Same
<1>4. \A l \in Limiters : CountOK(l)'
  BY <1>1, <1>3, QuietKeepsCounts
<1>5. \A t \in Requests : PathOK(req'[t])
  BY <1>1, <1>2
<1>6. QED
  BY <1>1, <1>2, <1>4, <1>5, RequestStep

LEMMA AnswerKeepsIInv ==
  ASSUME IInv, NEW r \in Requests, Answer(r)
  PROVE  IInv'
<1>1. /\ req[r] \in Request /\ PathOK(req[r]) /\ req[r].at = "handling"
      /\ Running /\ UNCHANGED <<proc, cause, fatal, waiting, up, sockets, hits, window>>
  BY Types DEF IInv, Answer, boot
<1>2. req[r].refunded = 0 /\ ~req[r].ok
  BY <1>1 DEF PathOK
<1>3. PICK ok \in IF req[r].passed = 0 THEN {FALSE} ELSE BOOLEAN :
         Put(r, IF req[r].client THEN [req[r] EXCEPT !.at = "answering", !.ok = ok]
                ELSE Over(req[r]))
  BY DEF Answer
<1>4. CASE req[r].client
  <2> DEFINE new == [req[r] EXCEPT !.at = "answering", !.ok = ok]
  <2>1. ok \in BOOLEAN /\ (req[r].passed = 0 => ok = FALSE)
    BY <1>3
  <2>2. /\ new \in Request /\ new.at = "answering" /\ new.ok = ok
        /\ new.route = req[r].route /\ new.passed = req[r].passed
        /\ new.refunded = req[r].refunded
    BY <1>1, <2>1 DEF Request
  <2>3. PathOK(new)
    BY <1>1, <1>2, <2>1, <2>2 DEF PathOK
  <2>4. QED
    BY <1>1, <1>2, <1>3, <1>4, <2>2, <2>3, QuietRequest
<1>5. CASE ~req[r].client
  <2>1. /\ Over(req[r]) \in Request /\ Keeps(req[r], Over(req[r])) /\ Over(req[r]).at = "over"
    BY <1>1, OverEffect
  <2>2. PathOK(Over(req[r]))
    BY <1>1, <2>1 DEF PathOK, Keeps
  <2>3. QED
    BY <1>1, <1>3, <1>5, <2>1, <2>2, QuietRequest DEF Keeps
<1>6. QED
  BY <1>4, <1>5

LEMMA AbortKeepsIInv ==
  ASSUME IInv, NEW r \in Requests, Abort(r)
  PROVE  IInv'
<1>1. /\ req[r] \in Request /\ PathOK(req[r])
      /\ Running /\ UNCHANGED <<proc, cause, fatal, waiting, up, sockets, hits, window>>
  BY Types DEF IInv, Abort, boot
<1>2. CASE Put(r, [req[r] EXCEPT !.client = FALSE])
  <2> DEFINE new == [req[r] EXCEPT !.client = FALSE]
  <2>1. /\ new \in Request /\ Keeps(req[r], new) /\ new.at = req[r].at
        /\ new.caller = req[r].caller
    BY <1>1 DEF Request, Keeps
  <2>2. PathOK(new)
    BY <1>1, <2>1 DEF PathOK, Keeps, Entitled
  <2>3. QED
    BY <1>1, <1>2, <2>1, <2>2, QuietRequest DEF Keeps
<1>3. CASE Put(r, Over(req[r]))
  <2>1. /\ Over(req[r]) \in Request /\ Keeps(req[r], Over(req[r])) /\ Over(req[r]).at = "over"
    BY <1>1, OverEffect
  <2>2. PathOK(Over(req[r]))
    BY <1>1, <2>1 DEF PathOK, Keeps
  <2>3. QED
    BY <1>1, <1>3, <2>1, <2>2, QuietRequest DEF Keeps
<1>4. QED
  BY <1>2, <1>3 DEF Abort

LEMMA FinishKeepsIInv ==
  ASSUME IInv, NEW r \in Requests, Finish(r)
  PROVE  IInv'
<1>1. /\ TypeOK /\ \A t \in Requests : PathOK(req[t])
      /\ \A l \in Limiters : CountOK(l)
      /\ req[r] \in Request /\ req[r].at = "answering"
      /\ Running /\ UNCHANGED <<proc, cause, fatal, waiting, up, sockets, window>>
      /\ hits \in [Limiters -> Nat] /\ window \in [Limiters -> Nat]
      /\ \A l \in Limiters : window[l] \in Nat \ {0} /\ MaxOf[l] \in Nat
  BY Types DEF IInv, Finish, boot
<1>2. Kept(req[r]) \in Request /\ Keeps(req[r], Kept(req[r])) /\ Kept(req[r]).at = "kept"
  BY <1>1, KeptEffect
<1>3. CASE Put(r, Kept(req[r])) /\ hits' = hits
  <2>1. PathOK(Kept(req[r]))
    BY <1>1, <1>2 DEF PathOK, Keeps
  <2>2. QED
    BY <1>1, <1>2, <1>3, <2>1, QuietRequest DEF Keeps
<1>4. CASE /\ Refunds(req[r]) /\ hits["auth"] > 0
           /\ hits' = [hits EXCEPT !["auth"] = @ - 1]
           /\ Put(r, [Kept(req[r]) EXCEPT !.refunded = window["auth"]])
  <2> DEFINE new == [Kept(req[r]) EXCEPT !.refunded = window["auth"]]
  <2>1. /\ Table[req[r].route].limit = "auth" /\ req[r].ok /\ req[r].refunded = 0
        /\ req[r].passed # 0
    BY <1>1, <1>4 DEF Refunds, PathOK
  <2>2. "auth" \in Limiters
    BY <1>1, <2>1 DEF PathOK
  <2>3. /\ new \in Request /\ new.at = "kept" /\ new.refunded = window["auth"]
        /\ new.route = req[r].route /\ new.passed = req[r].passed /\ new.ok = req[r].ok
    BY <1>1, <1>2, <2>2 DEF Request, Keeps
  <2>4. PathOK(new)
    <3>1. window["auth"] <= window["auth"]
      BY <1>1, <2>2
    <3>2. req[r].passed <= window["auth"]
      BY <1>1, <2>1 DEF PathOK
    <3> HIDE DEF new
    <3>3. new.ok
      BY <2>1, <2>3
    <3>4. QED
      BY <2>1, <2>2, <2>3, <3>1, <3>2, <3>3 DEF PathOK
  <2>5. /\ req' \in [Requests -> Request] /\ req'[r] = new
        /\ \A t \in Requests \ {r} : req'[t] = req[t] /\ Same(t)
    BY <1>1, <1>4, <2>3, PutEffect
  <2>6. \A t \in Requests : PathOK(req'[t])
    BY <1>1, <2>4, <2>5
  <2>7. /\ hits["auth"] \in Nat /\ hits["auth"] - 1 \in Nat
        /\ hits' \in [Limiters -> Nat] /\ hits'["auth"] = hits["auth"] - 1
        /\ \A l \in Limiters \ {"auth"} : hits'[l] = hits[l]
    BY <1>1, <1>4, <2>2
  <2>8. ASSUME NEW l \in Limiters
        PROVE  CountOK(l)'
    <3>1. \A t \in Requests \ {r} : /\ t \in Let(l)' <=> t \in Let(l)
                                    /\ t \in Back(l)' <=> t \in Back(l)
                                    /\ t \in Charged(l)' <=> t \in Charged(l)
      BY <1>1, <2>5 DEF Let, Back, Charged
    <3>2. /\ r \in Let(l)' <=> r \in Let(l)
          /\ r \in Charged(l)' <=> r \in Charged(l)
          /\ r \in Back(l)' <=> l = "auth"
          /\ r \notin Back(l)
      <4>1. /\ req'[r] = new /\ window' = window /\ l \in Limiters /\ window[l] \in Nat \ {0}
        BY <1>1, <2>5
      <4> HIDE DEF new
      <4>2. /\ req'[r].route = req[r].route /\ req'[r].passed = req[r].passed
            /\ req'[r].ok = req[r].ok /\ req'[r].refunded = window["auth"]
        BY <2>3, <4>1
      <4>3. r \in Let(l)' <=> r \in Let(l)
        BY <4>1, <4>2 DEF Let
      <4>4. r \in Charged(l)' <=> r \in Charged(l)
        BY <4>2, <4>3 DEF Charged
      <4>5. r \in Back(l)' <=> l = "auth"
        BY <2>1, <4>1, <4>2 DEF Back
      <4>6. r \notin Back(l)
        BY <2>1, <4>1 DEF Back
      <4>7. QED
        BY <4>3, <4>4, <4>5, <4>6
    <3>3. /\ Let(l) \subseteq Requests /\ Back(l) \subseteq Requests
          /\ Charged(l) \subseteq Requests /\ Let(l)' \subseteq Requests
          /\ Back(l)' \subseteq Requests /\ Charged(l)' \subseteq Requests
      BY DEF Let, Back, Charged
    <3>4. Let(l)' = Let(l) /\ Charged(l)' = Charged(l)
      BY <3>1, <3>2, <3>3
    <3>5. hits[l] \in Nat /\ hits'[l] \in Nat /\ MaxOf[l] \in Nat /\ CountOK(l)
      BY <1>1, <2>7
    <3>6. CASE l = "auth"
      <4>1. Back(l)' = Back(l) \union {r}
        BY <3>1, <3>2, <3>3, <3>6
      <4>2. hits[l] > 0 /\ hits'[l] = hits[l] - 1
        BY <1>4, <2>7, <3>6
      <4>3. QED
        BY <3>2, <3>4, <3>5, <4>1, <4>2, RefundKeepsCount
    <3>7. CASE l # "auth"
      <4>1. Back(l)' = Back(l)
        BY <3>1, <3>2, <3>3, <3>7
      <4>2. hits'[l] >= hits[l]
        BY <2>7, <3>5, <3>7
      <4>3. QED
        BY <3>4, <3>5, <4>1, <4>2, QuietKeepsCount
    <3>8. QED
      BY <3>6, <3>7
  <2>9. QED
    BY <1>1, <2>5, <2>6, <2>7, <2>8, RequestStep
<1>5. QED
  BY <1>3, <1>4 DEF Finish
-----------------------------------------------------------------------------
(* The windows, the sockets, the start and the end *)

LEMMA WindowEndsKeepsIInv ==
  ASSUME IInv, NEW k \in Limiters, WindowEnds(k)
  PROVE  IInv'
<1>1. /\ TypeOK /\ ReadyOK /\ \A t \in Requests : PathOK(req[t])
      /\ \A l \in Limiters : CountOK(l)
      /\ Running /\ UNCHANGED <<proc, cause, fatal, waiting, up, req, sockets>>
      /\ hits \in [Limiters -> Nat] /\ window \in [Limiters -> Nat]
      /\ \A l \in Limiters : window[l] \in Nat \ {0} /\ MaxOf[l] \in Nat
  BY Types DEF IInv, WindowEnds, boot
<1>2. window[k] < MaxWindow[k] /\ MaxWindow[k] \in Nat
  BY ServerAssumption DEF WindowEnds, Limiters
<1>3. /\ hits' \in [Limiters -> Nat] /\ window' \in [Limiters -> Nat]
      /\ window'[k] = window[k] + 1
      /\ \A l \in Limiters \ {k} : hits'[l] = hits[l] /\ window'[l] = window[l]
  BY <1>1 DEF WindowEnds
<1>4. \A l \in Limiters : window'[l] \in 1..MaxWindow[l] /\ window'[l] >= window[l]
  <2>1. ASSUME NEW l \in Limiters
        PROVE  window'[l] \in 1..MaxWindow[l] /\ window'[l] >= window[l]
    <3>1. window[l] \in 1..MaxWindow[l] /\ window[l] \in Nat \ {0}
      BY <1>1 DEF TypeOK
    <3>2. CASE l = k
      BY <1>2, <1>3, <3>1, <3>2
    <3>3. CASE l # k
      BY <1>3, <3>1, <3>3
    <3>4. QED
      BY <3>2, <3>3
  <2>2. QED
    BY <2>1
<1>5. TypeOK'
  <2>1. hits' \in [Limiters -> Nat] /\ window' \in [Limiters -> Nat]
        /\ \A l \in Limiters : window'[l] \in 1..MaxWindow[l]
    BY <1>3, <1>4
  <2>2. QED
    BY <1>1, <2>1 DEF TypeOK
<1>6. ReadyOK'
  BY <1>1 DEF ReadyOK, Running
<1>7. ASSUME NEW t \in Requests
      PROVE  PathOK(req[t])'
  <2>1. PathOK(req[t]) /\ req'[t] = req[t]
    BY <1>1
  <2>2. req[t] \in Request
    BY <1>1 DEF TypeOK
  <2>3. req[t].passed \in Nat /\ req[t].refunded \in Nat
    BY <2>2 DEF Request
  <2>4. \A l \in Limiters : window[l] \in Nat /\ window'[l] \in Nat
    BY <1>1, <1>3
  <2>5. req[t].passed # 0 =>
           /\ Table[req[t].route].limit \in Limiters
           /\ req[t].passed <= window'[Table[req[t].route].limit]
    BY <1>4, <2>1, <2>3, <2>4 DEF PathOK
  <2>6. req[t].refunded # 0 =>
           /\ Table[req[t].route].limit = "auth" /\ req[t].ok
           /\ req[t].refunded <= window'["auth"]
    <3>1. req[t].refunded # 0 => "auth" \in Limiters
      BY <2>1 DEF PathOK
    <3>2. QED
      BY <1>4, <2>1, <2>3, <2>4, <3>1 DEF PathOK
  <2>7. QED
    BY <2>1, <2>5, <2>6 DEF PathOK, Entitled
<1>8. ASSUME NEW l \in Limiters
      PROVE  CountOK(l)'
  <2>1. CASE l = k
    <3>1. window'[l] > window[l] /\ window[l] \in Nat \ {0} /\ hits'[l] \in Nat /\ MaxOf[l] \in Nat
      BY <1>1, <1>3, <2>1
    <3>2. ASSUME NEW t \in Requests, Table[req[t].route].limit = l
          PROVE  req'[t].passed # window'[l] /\ req'[t].refunded # window'[l]
      <4>1. PathOK(req[t]) /\ req'[t] = req[t]
        BY <1>1
      <4>2. req[t] \in Request
        BY <1>1 DEF TypeOK
      <4>3. req[t].passed \in Nat /\ req[t].refunded \in Nat
        BY <4>2 DEF Request
      <4>4. req[t].passed = 0 \/ req[t].passed <= window[l]
        BY <3>2, <4>1 DEF PathOK
      <4>5. req[t].refunded = 0 \/ req[t].refunded <= window[l]
        BY <3>2, <4>1 DEF PathOK
      <4>6. QED
        BY <1>3, <3>1, <4>1, <4>3, <4>4, <4>5
    <3>3. (Let(l) = {})' /\ (Back(l) = {})'
      BY <1>1, <3>2 DEF Let, Back
    <3>4. QED
      BY <3>1, <3>3, EmptyCount
  <2>2. CASE l # k
    <3>1. hits'[l] = hits[l] /\ window'[l] = window[l] /\ CountOK(l)
          /\ hits[l] \in Nat /\ MaxOf[l] \in Nat
      BY <1>1, <1>3, <2>2
    <3>2. Let(l)' = Let(l) /\ Back(l)' = Back(l) /\ Charged(l)' = Charged(l)
      BY <1>1, <3>1 DEF Let, Back, Charged
    <3>3. QED
      BY <3>1, <3>2, QuietKeepsCount
  <2>3. QED
    BY <2>1, <2>2
<1>9. QED
  BY <1>5, <1>6, <1>7, <1>8 DEF IInv

\* A step that leaves the requests and the limiters alone.
LEMMA NoTraffic ==
  ASSUME IInv, UNCHANGED <<req, hits, window>>, TypeOK', ReadyOK'
  PROVE  IInv'
<1>1. /\ TypeOK /\ \A t \in Requests : PathOK(req[t])
      /\ \A l \in Limiters : CountOK(l)
  BY DEF IInv
<1>2. \A t \in Requests : PathOK(req[t])'
  BY <1>1 DEF PathOK, Entitled
<1>3. \A t \in Requests : Same(t)
  BY DEF Same
<1>4. \A l \in Limiters : CountOK(l)'
  BY <1>1, <1>3, QuietKeepsCounts
<1>5. QED
  BY <1>2, <1>4 DEF IInv

LEMMA SocketsKeepIInv ==
  ASSUME IInv, NEW s \in Sockets, OpenSocket(s) \/ CloseSocket(s)
  PROVE  IInv'
<1>1. /\ UNCHANGED <<proc, cause, fatal, waiting, up, req, hits, window>>
      /\ sockets' \in {sockets \union {s}, sockets \ {s}} /\ Running
  BY DEF OpenSocket, CloseSocket, boot, Running
<1>2. TypeOK'
  BY <1>1 DEF IInv, TypeOK
<1>3. ReadyOK'
  BY <1>1 DEF IInv, ReadyOK, Running
<1>4. QED
  BY <1>1, <1>2, <1>3, NoTraffic

\* The state of an empty process, as it starts or after its end.
Empty ==
    /\ req = NoRequest /\ hits = NoHits /\ window = FirstWindow
    /\ sockets = {} /\ waiting = {} /\ up = {} /\ fatal = FALSE
    /\ \/ proc = "database" /\ cause = "none"
       \/ /\ proc = "exited"
          /\ cause \in {"startFailed", "fatal", "forced", "drained", "killed"}

LEMMA EmptyIsIInv ==
  Empty => IInv
<1> SUFFICES ASSUME Empty
             PROVE  IInv
  OBVIOUS
<1>1. window \in [Limiters -> Nat]
  BY DEF FirstWindow, Empty
<1>2. TypeOK
  BY <1>1, Idleness DEF TypeOK, Empty
<1>3. ReadyOK
  BY Idleness DEF ReadyOK, Running, Empty
<1>4. \A t \in Requests : PathOK(req[t])
  BY Idleness DEF PathOK, Empty
<1>5. ASSUME NEW l \in Limiters
      PROVE  CountOK(l)
  <2>1. MaxOf[l] \in Nat /\ hits[l] = 0 /\ window[l] = 1
    BY Idleness, ServerAssumption DEF Limiters, Empty
  <2>2. Let(l) = {} /\ Back(l) = {}
    BY <2>1, Idleness DEF Let, Back, Empty
  <2>3. Let(l) \ Back(l) = {} /\ Back(l) \ Let(l) = {} /\ Charged(l) = {}
    BY <2>2 DEF Charged
  <2>4. QED
    BY <2>1, <2>3, SetsFinite DEF CountOK
<1>6. QED
  BY <1>2, <1>3, <1>4, <1>5 DEF IInv

LEMMA InitIInv ==
  Init => IInv
BY EmptyIsIInv DEF Init, Empty

LEMMA ExitKeepsIInv ==
  ASSUME NEW why \in {"startFailed", "fatal", "forced", "drained", "killed"}, Exit(why)
  PROVE  IInv'
<1>1. Empty'
  BY DEF Exit, Empty, NoRequest, NoHits, FirstWindow
<1>2. QED
  BY <1>1, EmptyIsIInv, PTL

LEMMA StartKeepsIInv ==
  ASSUME IInv, Start
  PROVE  IInv'
<1>1. TypeOK /\ ReadyOK
  BY DEF IInv
<1>2. CASE ConnectDatabase
  <2>1. UNCHANGED <<req, hits, window, sockets, cause, fatal>>
    BY <1>2 DEF ConnectDatabase, traffic
  <2>2. TypeOK'
    BY <1>1, <1>2, <2>1 DEF ConnectDatabase, TypeOK
  <2>3. ReadyOK'
    BY <1>1, <1>2, <2>1 DEF ConnectDatabase, ReadyOK, Running
  <2>4. QED
    BY <2>1, <2>2, <2>3, NoTraffic
<1>3. CASE Migrate
  <2>1. UNCHANGED <<req, hits, window, sockets, cause, fatal, up>>
    BY <1>3 DEF Migrate, traffic
  <2>2. TypeOK'
    BY <1>1, <1>3, <2>1 DEF Migrate, TypeOK
  <2>3. ReadyOK'
    BY <1>1, <1>3, <2>1 DEF Migrate, ReadyOK, Running
  <2>4. QED
    BY <2>1, <2>2, <2>3, NoTraffic
<1>4. CASE DatabaseFails
  BY <1>4, ExitKeepsIInv DEF DatabaseFails
<1>5. ASSUME NEW c \in RedisClients, ClientReady(c)
      PROVE  IInv'
  <2>1. /\ UNCHANGED <<req, hits, window, sockets, cause>>
        /\ proc = "redis" /\ waiting' = waiting \ {c}
    BY <1>5 DEF ClientReady, traffic
  <2>2. CASE waiting' = {} /\ Finished
    <3>1. /\ up' = Everything /\ proc' \in {"open", "unbound"} /\ fatal' \in BOOLEAN
      BY <1>1, <2>1, <2>2 DEF Finished, ReadyOK, TypeOK, Everything
    <3>2. TypeOK'
      BY <1>1, <2>1, <2>2, <3>1 DEF TypeOK, Everything
    <3>3. ReadyOK'
      BY <1>1, <2>1, <3>1 DEF ReadyOK, Running
    <3>4. QED
      BY <2>1, <3>2, <3>3, NoTraffic
  <2>3. CASE UNCHANGED <<proc, fatal, up>>
    <3>1. TypeOK'
      BY <1>1, <2>1, <2>3 DEF TypeOK
    <3>2. ReadyOK'
      BY <1>1, <2>1, <2>3 DEF ReadyOK, Running
    <3>3. QED
      BY <2>1, <3>1, <3>2, NoTraffic
  <2>4. QED
    BY <1>5, <2>2, <2>3 DEF ClientReady
<1>6. ASSUME NEW c \in RedisClients, ClientFails(c)
      PROVE  IInv'
  BY <1>6, ExitKeepsIInv DEF ClientFails
<1>7. QED
  BY <1>2, <1>3, <1>4, <1>5, <1>6 DEF Start

LEMMA EndKeepsIInv ==
  ASSUME IInv, End
  PROVE  IInv'
<1>1. TypeOK /\ ReadyOK
  BY DEF IInv
<1>2. CASE Signal
  <2>1. CASE Exit("killed")
    BY <2>1, ExitKeepsIInv
  <2>2. CASE ~Exit("killed")
    <3>1. /\ proc \notin Starting /\ proc \notin {"closing", "exited"} /\ proc' = "closing"
          /\ UNCHANGED <<cause, fatal, waiting, up, req, sockets, hits, window>>
      BY <1>2, <2>2 DEF Signal, boot, traffic
    <3>2. proc \in {"unbound", "open"}
      BY <1>1, <3>1 DEF TypeOK, Starting
    <3>3. TypeOK'
      BY <1>1, <3>1, <3>2 DEF TypeOK
    <3>4. ReadyOK'
      BY <1>1, <3>1, <3>2 DEF ReadyOK, Running
    <3>5. QED
      BY <3>1, <3>3, <3>4, NoTraffic
  <2>3. QED
    BY <2>1, <2>2
<1>3. CASE Uncaught
  <2>1. /\ fatal' = TRUE
        /\ UNCHANGED <<proc, cause, waiting, up, req, sockets, hits, window>>
    BY <1>3 DEF Uncaught, boot, traffic
  <2>2. TypeOK'
    BY <1>1, <2>1 DEF TypeOK
  <2>3. ReadyOK'
    BY <1>1, <2>1 DEF ReadyOK, Running
  <2>4. QED
    BY <2>1, <2>2, <2>3, NoTraffic
<1>4. CASE FatalExit \/ ForceExit \/ DrainedExit
  BY <1>4, ExitKeepsIInv DEF FatalExit, ForceExit, DrainedExit
<1>5. QED
  BY <1>2, <1>3, <1>4 DEF End
-----------------------------------------------------------------------------
(* The theorems *)

LEMMA NextKeepsIInv ==
  IInv /\ [Next]_vars => IInv'
<1> SUFFICES ASSUME IInv, [Next]_vars
             PROVE  IInv'
  OBVIOUS
<1>1. CASE Start \/ End
  BY <1>1, StartKeepsIInv, EndKeepsIInv
<1>2. ASSUME NEW r \in Requests, Serve(r)
      PROVE  IInv'
  BY <1>2, ArriveKeepsIInv, AuthenticateKeepsIInv, AnswerKeepsIInv, FinishKeepsIInv,
     AbortKeepsIInv DEF Serve
<1>3. ASSUME NEW s \in Sockets, OpenSocket(s) \/ CloseSocket(s)
      PROVE  IInv'
  BY <1>3, SocketsKeepIInv
<1>4. ASSUME NEW l \in Limiters, WindowEnds(l)
      PROVE  IInv'
  BY <1>4, WindowEndsKeepsIInv
<1>5. CASE UNCHANGED vars
  <2>1. UNCHANGED <<proc, cause, fatal, waiting, up, req, sockets, hits, window>>
    BY <1>5 DEF vars
  <2>2. TypeOK'
    BY <2>1 DEF IInv, TypeOK
  <2>3. ReadyOK'
    BY <2>1 DEF IInv, ReadyOK, Running
  <2>4. QED
    BY <2>1, <2>2, <2>3, NoTraffic
<1>6. QED
  BY <1>1, <1>2, <1>3, <1>4, <1>5 DEF Next

\* The inductive invariant holds throughout.
THEOREM Invariance ==
  Spec => []IInv
BY InitIInv, NextKeepsIInv, PTL DEF Spec

\* The variables of the process, its requests and its limiters keep their types.
THEOREM TypeCorrect ==
  Spec => []TypeOK
<1>1. IInv => TypeOK
  BY DEF IInv
<1>2. QED
  BY <1>1, Invariance, PTL

LEMMA IInvHandled ==
  IInv => HandledOnlyIfReady
<1> SUFFICES ASSUME IInv
             PROVE  HandledOnlyIfReady
  OBVIOUS
<1>1. TypeOK /\ ReadyOK /\ \A r \in Requests : PathOK(req[r])
  BY DEF IInv
<1>2. Running => up = Everything
  BY <1>1 DEF ReadyOK, Running
<1>3. \A r \in Requests : req[r].at = "handling" => Running /\ Entitled(req[r])
  BY <1>1 DEF ReadyOK, PathOK
<1>4. sockets # {} => Running
  BY <1>1 DEF ReadyOK
<1>5. QED
  BY <1>2, <1>3, <1>4, AdminRank DEF HandledOnlyIfReady, Everything, Entitled

\* Whoever is in a controller found the database, Redis and the queues initialized and
\* has the rank that the route asks for: App.start awaits the connections before it
\* listens, and the guard of a route runs between its token check and its controller.
THEOREM HandledReady ==
  Spec => []HandledOnlyIfReady
BY Invariance, IInvHandled, PTL

LEMMA IInvBounds ==
  IInv => LimiterBounds
<1> SUFFICES ASSUME IInv, NEW l \in Limiters
             PROVE  Cardinality(Charged(l)) <= MaxOf[l] + Cardinality(Back(l) \ Let(l))
  BY DEF LimiterBounds, Charged, Let, Back
<1>1. QED
  BY DEF IInv, CountOK

\* A window of a limiter lets through no more requests than its max, not counting the
\* logins that succeeded, plus one for every refund of a request that an earlier window
\* had counted (authRateLimiter, skipSuccessfulRequests).
THEOREM LimitersBound ==
  Spec => []LimiterBounds
BY Invariance, IInvBounds, PTL
=============================================================================
