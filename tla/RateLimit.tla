----------------------------- MODULE RateLimit ------------------------------
(***************************************************************************)
(* The Redis rate limiter of ratelimit.middleware.ts: RedisStore and the   *)
(* middleware createCustomRateLimiter builds on it, with the limits that   *)
(* dynamicRateLimiter gives to the roles.  The key is the client's         *)
(* (keyGenerator), so clients do not interact and one is modelled.  The    *)
(* limiters of the express-rate-limit library keep their counters in the   *)
(* process and are part of module Server.                                  *)
(*                                                                         *)
(* Every Redis command is an await of its own.  A key lives from the       *)
(* command that creates it to its expiry; life counts these lives.         *)
(***************************************************************************)
EXTENDS Integers, FiniteSets

CONSTANTS
    Requests,           \* requests of the client, each served once: bounds a run
    Roles,              \* the roles its tokens may carry
    BaseLimit,          \* RATE_LIMIT_MAX_REQUESTS
    Window,             \* RATE_LIMIT_WINDOW_MS in seconds
    SkipSuccessful,     \* option skipSuccessfulRequests
    MaxTime             \* where the clock of a run stops

ASSUME RateLimitAssumption ==
    /\ IsFiniteSet(Requests)
    /\ Roles # {}
    /\ BaseLimit \in Nat \ {0}
    /\ Window \in Nat \ {0}
    /\ SkipSuccessful \in BOOLEAN
    /\ MaxTime \in Nat

VARIABLES
    now,    \* the clock of server and Redis
    hits,   \* the value of the key, 0 when there is none
    lapse,  \* when the key expires, or NoExpiry, or NoKey
    life,   \* which life of the key this is (between two lives, the next)
    lost,   \* an EXPIRE that this life of the key needed has failed
    req     \* how far each request has come

vars == <<now, hits, lapse, life, lost, req>>

NoExpiry == -1
NoKey == -2

\* own: what INCR answered; counted, refunded: in which life INCR and DECR ran, 0 if
\* they did not; blind: 1 when the store fell back on an error.
Request == [at: {"idle", "expiring", "reading", "running", "refunding", "refused", "done"},
            role: Roles, own: Int, counted: Nat, refunded: Nat, blind: {0, 1}]

TypeOK ==
    /\ now \in Nat
    /\ hits \in Int
    /\ lapse \in (now + 1 .. now + Window) \union {NoExpiry, NoKey}
    /\ lapse = NoKey => hits = 0
    /\ life \in Nat \ {0}
    /\ lost \in BOOLEAN
    /\ req \in [Requests -> Request]

Init ==
    /\ now = 0
    /\ hits = 0 /\ lapse = NoKey
    /\ life = 1 /\ lost = FALSE
    /\ req \in [Requests -> [at: {"idle"}, role: Roles, own: {0}, counted: {0},
                             refunded: {0}, blind: {0}]]

\* dynamicRateLimiter: the limit of a role.
Factor(role) ==
    CASE role = "super_admin" -> 10
      [] role = "admin" -> 5
      [] role = "moderator" -> 2
      [] OTHER -> 1

LimitOf(role) == BaseLimit * Factor(role)

Put(r, request) == req' = [req EXCEPT ![r] = request]
-----------------------------------------------------------------------------
\* skipRateLimit: a health check, or a request marked by the admin bypass.
Skip(r) ==
    /\ req[r].at = "idle"
    /\ Put(r, [req[r] EXCEPT !.at = "done"])
    /\ UNCHANGED <<now, hits, lapse, life, lost>>

\* Fault: the expiry is set when the second request comes.
IncrementExpiresLate(r) ==
    /\ req[r].at = "idle"
    /\ hits' = hits + 1
    /\ lapse' = IF lapse = NoKey THEN NoExpiry ELSE lapse
    /\ Put(r, [req[r] EXCEPT !.own = hits + 1, !.counted = life,
                             !.at = IF hits + 1 = 2 THEN "expiring" ELSE "reading"])
    /\ UNCHANGED <<now, life, lost>>

\* Fault: every request sets the expiry anew.
IncrementSlides(r) ==
    /\ req[r].at = "idle"
    /\ hits' = hits + 1
    /\ lapse' = IF lapse = NoKey THEN NoExpiry ELSE lapse
    /\ Put(r, [req[r] EXCEPT !.own = hits + 1, !.counted = life, !.at = "expiring"])
    /\ UNCHANGED <<now, life, lost>>

\* INCR; "Set expiry on first request".
Increment(r) ==
    /\ req[r].at = "idle"
    /\ hits' = hits + 1
    /\ lapse' = IF lapse = NoKey THEN NoExpiry ELSE lapse
    /\ Put(r, [req[r] EXCEPT !.own = hits + 1, !.counted = life,
                             !.at = IF hits + 1 = 1 THEN "expiring" ELSE "reading"])
    /\ UNCHANGED <<now, life, lost>>

\* Fault: the window is passed in milliseconds.
ExpireInMilliseconds(r) ==
    /\ req[r].at = "expiring"
    /\ lapse' = IF lapse = NoKey THEN NoKey ELSE now + 1000 * Window
    /\ lost' = FALSE
    /\ Put(r, [req[r] EXCEPT !.at = "reading"])
    /\ UNCHANGED <<now, hits, life>>

\* EXPIRE has no effect on a key that is gone.
Expire(r) ==
    /\ req[r].at = "expiring"
    /\ lapse' = IF lapse = NoKey THEN NoKey ELSE now + Window
    /\ lost' = FALSE
    /\ Put(r, [req[r] EXCEPT !.at = "reading"])
    /\ UNCHANGED <<now, hits, life>>

\* Fault: the request itself is left out of the count.
DecideOneMore(r) ==
    /\ req[r].at = "reading"
    /\ Put(r, [req[r] EXCEPT !.at = IF req[r].own - 1 > LimitOf(req[r].role)
                                    THEN "refused" ELSE "running"])
    /\ UNCHANGED <<now, hits, lapse, life, lost>>

\* TTL only goes into a header; then the middleware decides by what INCR answered.
Decide(r) ==
    /\ req[r].at = "reading"
    /\ Put(r, [req[r] EXCEPT !.at = IF req[r].own > LimitOf(req[r].role)
                                    THEN "refused" ELSE "running"])
    /\ UNCHANGED <<now, hits, lapse, life, lost>>

\* Any of the three commands fails: the store answers totalHits 1, which no limit refuses.
FallBack(r) ==
    /\ req[r].at \in {"idle", "expiring", "reading"}
    /\ lost' = (lost \/ (req[r].at = "expiring" /\ lapse = NoExpiry))
    /\ Put(r, [req[r] EXCEPT !.blind = 1, !.at = "running"])
    /\ UNCHANGED <<now, hits, lapse, life>>

\* The response is finished; only a status below 400 asks for the refund.
Finish(r) ==
    /\ req[r].at = "running"
    /\ \/ SkipSuccessful /\ Put(r, [req[r] EXCEPT !.at = "refunding"])
       \/ Put(r, [req[r] EXCEPT !.at = "done"])
    /\ UNCHANGED <<now, hits, lapse, life, lost>>

\* DECR creates a key it does not find, at -1 and without an expiry.
Decrement(r) ==
    /\ req[r].at = "refunding"
    /\ hits' = hits - 1
    /\ lapse' = IF lapse = NoKey THEN NoExpiry ELSE lapse
    /\ Put(r, [req[r] EXCEPT !.at = "done", !.refunded = life])
    /\ UNCHANGED <<now, life, lost>>

\* A failing DECR is swallowed.
DecrementError(r) ==
    /\ req[r].at = "refunding"
    /\ Put(r, [req[r] EXCEPT !.at = "done"])
    /\ UNCHANGED <<now, hits, lapse, life, lost>>

\* A second passes, and Redis drops the key if it is due.
Tick ==
    /\ now < MaxTime
    /\ now' = now + 1
    /\ IF lapse \in Nat /\ lapse <= now + 1
       THEN hits' = 0 /\ lapse' = NoKey /\ life' = life + 1
       ELSE UNCHANGED <<hits, lapse, life>>
    /\ UNCHANGED <<lost, req>>

Step(r) ==
    \/ Skip(r) \/ Increment(r) \/ Expire(r) \/ Decide(r) \/ FallBack(r)
    \/ Finish(r) \/ Decrement(r) \/ DecrementError(r)

Next == Tick \/ \E r \in Requests : Step(r)

Spec == Init /\ [][Next]_vars
-----------------------------------------------------------------------------
\* What this life of the key has seen.
CountedNow == {r \in Requests : req[r].counted = life}
RefundedNow == {r \in Requests : req[r].refunded = life}

\* Let through by the count, not by the fallback.
Admitted(r) == req[r].at \in {"running", "refunding", "done"} /\ req[r].blind = 0

\* Those of a role, or of one with no higher limit, that this life let through.
Through(role) == {r \in CountedNow : Admitted(r) /\ LimitOf(req[r].role) <= LimitOf(role)}

(***************************************************************************)
(* However the requests interleave, the key is what INCR and DECR of this  *)
(* life have made of it, and one window lets through no more requests of a *)
(* role, and of those with no higher limit, than the role's limit and one  *)
(* more for every refund that fell into it, also those whose request was   *)
(* counted in an earlier window or not at all (createCustomRateLimiter,    *)
(* decrement after finish).                                                *)
(***************************************************************************)
AtMostLimit ==
    /\ hits = Cardinality(CountedNow) - Cardinality(RefundedNow)
    /\ \A role \in Roles :
         Cardinality(Through(role)) <= LimitOf(role) + Cardinality(RefundedNow)

(***************************************************************************)
(* "Set expiry on first request": a counter that would not expire is one   *)
(* whose EXPIRE is about to run, or failed, or one that refunds have       *)
(* brought to where the next request is not number 1 (increment, decrement *)
(* of RedisStore).                                                         *)
(***************************************************************************)
CounterExpires ==
    lapse = NoExpiry =>
        \/ \E r \in Requests : req[r].at = "expiring"
        \/ lost
        \/ hits <= 0 /\ RefundedNow # {}

(***************************************************************************)
(* The window is fixed when it is opened: as long as nothing was refunded, *)
(* a key that has its expiry keeps it, whatever requests come (increment,  *)
(* hits === 1).  A refund can take the counter back to where the next      *)
(* request is the first again and prolongs the window; its EXPIRE may even *)
(* come so late that it prolongs the window after.                         *)
(***************************************************************************)
WindowFixed ==
    [][(lapse \in Nat /\ lapse' \in Nat /\ \A r \in Requests : req[r].refunded = 0)
         => lapse' = lapse]_vars
=============================================================================
