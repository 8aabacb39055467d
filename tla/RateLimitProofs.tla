-------------------------- MODULE RateLimitProofs ---------------------------
(***************************************************************************)
(* Theorems about RateLimit for any finite set of requests, any roles, any *)
(* limit and any window.  The argument follows one life of the key: the    *)
(* requests counted in it were given the numbers that INCR answered, which *)
(* only a refund can give out twice.                                       *)
(***************************************************************************)
EXTENDS RateLimit, FiniteSetTheorems, TLAPS

\* What is behind a request at each of its stages.
StageOK(r) ==
    /\ req[r].at = "idle" => req[r].counted = 0
    /\ req[r].at # "done" => req[r].refunded = 0
    /\ req[r].counted <= life /\ req[r].refunded <= life
    /\ Admitted(r) /\ req[r].counted # 0 => req[r].own <= LimitOf(req[r].role)

Balance == hits = Cardinality(CountedNow) - Cardinality(RefundedNow)

\* The requests of this life that INCR gave a number up to n: one for each number,
\* and one more for every refund.
Numbered(n) == {r \in CountedNow : req[r].own <= n}

Shares == \A n \in Nat : Cardinality(Numbered(n)) <= n + Cardinality(RefundedNow)

\* As long as nothing was refunded, an EXPIRE that is due finds the key it is meant
\* for, without an expiry, and is the only one.
NoRefunds == \A r \in Requests : req[r].refunded = 0

Opening ==
    NoRefunds =>
        /\ lapse # NoKey => hits >= 1
        /\ \A r \in Requests : req[r].at = "expiring" => lapse = NoExpiry
        /\ \A r, q \in Requests :
             req[r].at = "expiring" /\ req[q].at = "expiring" => r = q

IInv ==
    /\ TypeOK /\ Balance /\ Shares /\ CounterExpires /\ Opening
    /\ \A r \in Requests : StageOK(r)
-----------------------------------------------------------------------------
LEMMA LimitType ==
  ASSUME NEW role
  PROVE  LimitOf(role) \in Nat
<1>1. Factor(role) \in {1, 2, 5, 10}
  BY DEF Factor
<1>2. QED
  BY <1>1, RateLimitAssumption DEF LimitOf

LEMMA Finiteness ==
  /\ IsFiniteSet(CountedNow) /\ IsFiniteSet(RefundedNow)
  /\ Cardinality(CountedNow) \in Nat /\ Cardinality(RefundedNow) \in Nat
  /\ \A n : IsFiniteSet(Numbered(n)) /\ Cardinality(Numbered(n)) \in Nat
            /\ Cardinality(Numbered(n)) <= Cardinality(CountedNow)
<1>1. CountedNow \subseteq Requests /\ RefundedNow \subseteq Requests
  BY DEF CountedNow, RefundedNow
<1>2. IsFiniteSet(CountedNow) /\ IsFiniteSet(RefundedNow)
  BY <1>1, RateLimitAssumption, FS_Subset
<1>3. \A n : Numbered(n) \subseteq CountedNow
  BY DEF Numbered
<1>4. QED
  BY <1>2, <1>3, FS_Subset, FS_CardinalityType

\* The same of the next state.
LEMMA FinitenessNext ==
  /\ IsFiniteSet(CountedNow') /\ IsFiniteSet(RefundedNow')
  /\ Cardinality(CountedNow') \in Nat /\ Cardinality(RefundedNow') \in Nat
  /\ \A n : IsFiniteSet(Numbered(n)') /\ Cardinality(Numbered(n)') \in Nat
            /\ Cardinality(Numbered(n)') <= Cardinality(CountedNow')
<1>1. CountedNow' \subseteq Requests /\ RefundedNow' \subseteq Requests
  BY DEF CountedNow, RefundedNow
<1>2. IsFiniteSet(CountedNow') /\ IsFiniteSet(RefundedNow')
  BY <1>1, RateLimitAssumption, FS_Subset
<1>3. \A n : Numbered(n)' \subseteq CountedNow'
  BY DEF Numbered
<1>4. QED
  BY <1>2, <1>3, FS_Subset, FS_CardinalityType

LEMMA InitIInv == Init => IInv
<1> SUFFICES ASSUME Init PROVE IInv
  OBVIOUS
<1> USE RateLimitAssumption
<1>1. \A r \in Requests : /\ req[r].at = "idle" /\ req[r].counted = 0 /\ req[r].refunded = 0
                          /\ req[r].own = 0 /\ req[r].blind = 0
  BY DEF Init
<1>2. TypeOK
  <2>1. ASSUME NEW new \in [at: {"idle"}, role: Roles, own: {0}, counted: {0}, refunded: {0},
                            blind: {0}]
        PROVE  new \in Request
    BY DEF Request
  <2>2. req \in [Requests -> Request]
    BY <2>1 DEF Init
  <2>3. lost \in BOOLEAN
    BY Zenon DEF Init
  <2>4. QED
    BY <2>2, <2>3 DEF Init, TypeOK, NoKey, NoExpiry
<1>3. CountedNow = {} /\ RefundedNow = {} /\ \A n : Numbered(n) = {}
  BY <1>1 DEF Init, CountedNow, RefundedNow, Numbered
<1>4. Balance /\ Shares
  BY <1>3, FS_EmptySet DEF Balance, Shares, Init
<1>5. CounterExpires /\ Opening
  BY <1>1 DEF Init, CounterExpires, Opening, NoKey, NoExpiry
<1>6. \A r \in Requests : StageOK(r)
  BY <1>1 DEF Init, StageOK, Admitted
<1>7. QED
  BY <1>2, <1>4, <1>5, <1>6 DEF IInv
-----------------------------------------------------------------------------
(* What a step does to its request *)

\* No step touches another request, and every step keeps role and life.
LEMMA OneRequestMoves ==
  ASSUME TypeOK, NEW r \in Requests, Step(r)
  PROVE  /\ \A q \in Requests \ {r} : req'[q] = req[q]
         /\ now' = now /\ life' = life
         /\ req' \in [Requests -> Request]
         /\ req'[r].role = req[r].role
<1>1. req \in [Requests -> Request] /\ hits \in Int /\ life \in Nat
  BY DEF TypeOK
<1>2. req[r] \in Request
  BY <1>1
<1>3. ASSUME NEW new \in Request, new.role = req[r].role, Put(r, new)
      PROVE  /\ \A q \in Requests \ {r} : req'[q] = req[q]
             /\ req' \in [Requests -> Request] /\ req'[r].role = req[r].role
  BY <1>1, <1>3 DEF Put
<1>4. \E new \in Request : new.role = req[r].role /\ Put(r, new)
  <2>1. CASE Increment(r)
    <3>1. ASSUME NEW at \in {"expiring", "reading"}
          PROVE  /\ [req[r] EXCEPT !.own = hits + 1, !.counted = life, !.at = at] \in Request
                 /\ [req[r] EXCEPT !.own = hits + 1, !.counted = life, !.at = at].role
                      = req[r].role
      <4>1. /\ hits + 1 \in Int /\ life \in Nat
            /\ at \in {"idle", "expiring", "reading", "running", "refunding", "refused", "done"}
        BY <1>1, <3>1
      <4>2. ASSUME NEW own \in Int
            PROVE  /\ [req[r] EXCEPT !.own = own, !.counted = life, !.at = at] \in Request
                   /\ [req[r] EXCEPT !.own = own, !.counted = life, !.at = at].role
                        = req[r].role
        BY <1>2, <4>1 DEF Request
      <4>3. QED
        BY <4>1, <4>2
    <3>2. CASE hits + 1 = 1
      BY <2>1, <3>1, <3>2 DEF Increment
    <3>3. CASE hits + 1 # 1
      BY <2>1, <3>1, <3>3 DEF Increment
    <3>4. QED
      BY <3>2, <3>3
  <2>2. CASE Decrement(r)
    <3>1. /\ [req[r] EXCEPT !.at = "done", !.refunded = life] \in Request
          /\ [req[r] EXCEPT !.at = "done", !.refunded = life].role = req[r].role
      BY <1>1, <1>2 DEF Request
    <3>2. QED
      BY <2>2, <3>1 DEF Decrement
  <2>3. CASE FallBack(r)
    <3>1. /\ [req[r] EXCEPT !.blind = 1, !.at = "running"] \in Request
          /\ [req[r] EXCEPT !.blind = 1, !.at = "running"].role = req[r].role
      BY <1>1, <1>2 DEF Request
    <3>2. QED
      BY <2>3, <3>1 DEF FallBack
  <2>4. CASE Skip(r) \/ Expire(r) \/ Decide(r) \/ Finish(r) \/ DecrementError(r)
    <3>1. ASSUME NEW at \in {"reading", "refused", "running", "refunding", "done"}
          PROVE  /\ [req[r] EXCEPT !.at = at] \in Request
                 /\ [req[r] EXCEPT !.at = at].role = req[r].role
      BY <1>1, <1>2 DEF Request
    <3>2. CASE Skip(r) \/ Expire(r) \/ DecrementError(r)
      BY <3>1, <3>2 DEF Skip, Expire, DecrementError
    <3>3. CASE Decide(r)
      BY <3>1, <3>3 DEF Decide
    <3>4. CASE Finish(r)
      BY <3>1, <3>4 DEF Finish
    <3>5. QED
      BY <2>4, <3>2, <3>3, <3>4
  <2>5. QED
    BY <2>1, <2>2, <2>3, <2>4 DEF Step
<1>5. now' = now /\ life' = life
  BY DEF Step, Skip, Increment, Expire, Decide, FallBack, Finish, Decrement, DecrementError
<1>6. QED
  BY <1>3, <1>4, <1>5

\* The steps that send neither INCR nor DECR, as far as the counter goes.
Quiet(r) ==
    /\ req'[r].counted = req[r].counted /\ req'[r].own = req[r].own
    /\ req'[r].refunded = req[r].refunded
    /\ hits' = hits
    /\ req[r].at # "done" /\ req'[r].at # "idle"

LEMMA QuietSteps ==
  ASSUME TypeOK, NEW r \in Requests, Step(r)
  PROVE  Quiet(r) \/ Increment(r) \/ Decrement(r)
<1>1. req \in [Requests -> Request]
  BY DEF TypeOK
<1>2. CASE Skip(r)
  BY <1>1, <1>2 DEF Skip, Put, Request, Quiet
<1>3. CASE Expire(r)
  BY <1>1, <1>3 DEF Expire, Put, Request, Quiet
<1>4. CASE Decide(r)
  BY <1>1, <1>4 DEF Decide, Put, Request, Quiet
<1>5. CASE FallBack(r)
  BY <1>1, <1>5 DEF FallBack, Put, Request, Quiet
<1>6. CASE Finish(r)
  BY <1>1, <1>6 DEF Finish, Put, Request, Quiet
<1>7. CASE DecrementError(r)
  BY <1>1, <1>7 DEF DecrementError, Put, Request, Quiet
<1>8. QED
  BY <1>2, <1>3, <1>4, <1>5, <1>6, <1>7 DEF Step

\* What INCR and DECR do to their request.
LEMMA IncrementStep ==
  ASSUME TypeOK, NEW r \in Requests, Increment(r)
  PROVE  /\ req'[r].counted = life /\ req'[r].own = hits + 1
         /\ req'[r].refunded = req[r].refunded
         /\ req[r].at = "idle"
         /\ req'[r].at = IF hits + 1 = 1 THEN "expiring" ELSE "reading"
         /\ hits' = hits + 1
  BY DEF TypeOK, Increment, Put, Request

LEMMA DecrementStep ==
  ASSUME TypeOK, NEW r \in Requests, Decrement(r)
  PROVE  /\ req'[r].counted = req[r].counted /\ req'[r].own = req[r].own
         /\ req'[r].refunded = life
         /\ req[r].at = "refunding" /\ req'[r].at = "done"
         /\ req'[r].blind = req[r].blind
         /\ hits' = hits - 1
  BY DEF TypeOK, Decrement, Put, Request

LEMMA StepKeepsType ==
  ASSUME TypeOK, NEW r \in Requests, Step(r)
  PROVE  TypeOK'
<1>1. /\ now' = now /\ life' = life /\ req' \in [Requests -> Request]
  BY OneRequestMoves
<1>2. hits' \in Int
  BY DEF TypeOK, Step, Skip, Increment, Expire, Decide, FallBack, Finish, Decrement,
         DecrementError
<1>3. lost' \in BOOLEAN
  <2>1. CASE Expire(r) \/ FallBack(r)
    BY <2>1, Zenon DEF Expire, FallBack
  <2>2. CASE ~(Expire(r) \/ FallBack(r))
    BY <2>2, Zenon DEF TypeOK, Step, Skip, Increment, Decide, Finish, Decrement, DecrementError
  <2>3. QED
    BY <2>1, <2>2
<1>4. /\ lapse' \in (now + 1 .. now + Window) \union {NoExpiry, NoKey}
      /\ lapse' = NoKey => hits' = 0
  <2>1. CASE Increment(r)
    BY <2>1 DEF Increment, TypeOK, NoExpiry, NoKey
  <2>2. CASE Decrement(r)
    BY <2>2 DEF Decrement, TypeOK, NoExpiry, NoKey
  <2>3. CASE Expire(r)
    BY <2>3, RateLimitAssumption DEF Expire, TypeOK, NoExpiry, NoKey
  <2>4. CASE Skip(r) \/ Decide(r) \/ FallBack(r) \/ Finish(r) \/ DecrementError(r)
    BY <2>4 DEF Skip, Decide, FallBack, Finish, DecrementError, TypeOK
  <2>5. QED
    BY <2>1, <2>2, <2>3, <2>4 DEF Step
<1>5. QED
  BY <1>1, <1>2, <1>3, <1>4 DEF TypeOK, NoExpiry, NoKey
-----------------------------------------------------------------------------
(* Stages *)

LEMMA StepKeepsStages ==
  ASSUME TypeOK, \A q \in Requests : StageOK(q), NEW r \in Requests, Step(r)
  PROVE  \A q \in Requests : StageOK(q)'
<1>1. /\ \A q \in Requests \ {r} : req'[q] = req[q]
      /\ life' = life /\ req'[r].role = req[r].role
  BY OneRequestMoves
<1>2. \A q \in Requests \ {r} : StageOK(q)'
  BY <1>1 DEF StageOK, Admitted, LimitOf, Factor
<1>3. req[r] \in Request /\ life \in Nat \ {0}
  BY DEF TypeOK
<1>4. LimitOf(req'[r].role) = LimitOf(req[r].role)
  BY <1>1
<1>5. StageOK(r)
  OBVIOUS
<1>6. CASE Increment(r)
  BY <1>1, <1>2, <1>3, <1>5, <1>6, IncrementStep DEF StageOK, Admitted
<1>7. CASE Decrement(r)
  BY <1>1, <1>2, <1>3, <1>4, <1>5, <1>7, DecrementStep DEF StageOK, Admitted
<1>8. CASE Quiet(r)
  <2>1. Admitted(r)' /\ req[r].counted # 0 => req[r].own <= LimitOf(req[r].role)
    <3>1. req \in [Requests -> Request]
      BY DEF TypeOK
    <3>2. LimitOf(req[r].role) \in Nat
      BY LimitType
    <3>3. CASE Skip(r)
      BY <1>3, <1>5, <3>3 DEF Skip, StageOK
    <3>4. CASE Expire(r)
      BY <3>1, <3>4 DEF Expire, Put, Request, Admitted
    <3>5. CASE Decide(r)
      <4>1. req'[r].at = IF req[r].own > LimitOf(req[r].role) THEN "refused" ELSE "running"
        BY <3>1, <3>5 DEF Decide, Put, Request
      <4>2. QED
        BY <1>3, <3>2, <4>1 DEF Admitted, Request
    <3>6. CASE FallBack(r)
      BY <3>1, <3>6 DEF FallBack, Put, Request, Admitted
    <3>7. CASE Finish(r) \/ DecrementError(r)
      <4>1. req'[r].blind = req[r].blind /\ req[r].at \in {"running", "refunding"}
        BY <3>1, <3>7 DEF Finish, DecrementError, Put, Request
      <4>2. QED
        BY <1>5, <4>1 DEF StageOK, Admitted
    <3>8. CASE Increment(r)
      BY <1>8, <3>8, IncrementStep DEF Admitted
    <3>9. CASE Decrement(r)
      BY <1>5, <3>9, DecrementStep DEF StageOK, Admitted
    <3>10. QED
      BY <3>3, <3>4, <3>5, <3>6, <3>7, <3>8, <3>9 DEF Step
  <2>2. /\ req[r].at # "done" => req[r].refunded = 0
        /\ req[r].counted <= life /\ req[r].refunded <= life
    BY <1>5 DEF StageOK
  <2>3. StageOK(r)'
    BY <1>1, <1>4, <1>8, <2>1, <2>2 DEF StageOK, Quiet
  <2>4. QED
    BY <1>2, <2>3
<1>9. QED
  BY <1>6, <1>7, <1>8, QuietSteps
-----------------------------------------------------------------------------
(* The count *)

LEMMA StepKeepsCount ==
  ASSUME TypeOK, Balance, Shares, \A q \in Requests : StageOK(q),
         NEW r \in Requests, Step(r)
  PROVE  Balance' /\ Shares'
<1>1. /\ \A q \in Requests \ {r} : req'[q] = req[q]
      /\ life' = life
  BY OneRequestMoves
<1>2. life \in Nat \ {0} /\ hits \in Int
  BY DEF TypeOK
<1>3. CASE Quiet(r)
  <2>1. CountedNow' = CountedNow /\ RefundedNow' = RefundedNow
    BY <1>1, <1>3 DEF CountedNow, RefundedNow, Quiet
  <2>2. \A n \in Nat : Numbered(n)' = Numbered(n)
    BY <1>1, <1>3, <2>1 DEF Numbered, CountedNow, Quiet
  <2>3. QED
    BY <1>3, <2>1, <2>2 DEF Balance, Shares, Quiet
<1>4. CASE Increment(r)
  <2>1. /\ req'[r].counted = life /\ req'[r].own = hits + 1 /\ hits' = hits + 1
        /\ req'[r].refunded = req[r].refunded /\ req[r].at = "idle"
    BY <1>4, IncrementStep
  <2>2. req[r].counted = 0
    BY <2>1 DEF StageOK
  <2>3. RefundedNow' = RefundedNow
    BY <1>1, <2>1 DEF RefundedNow
  <2>4. CountedNow' = CountedNow \union {r} /\ r \notin CountedNow
    BY <1>1, <1>2, <2>1, <2>2 DEF CountedNow
  <2>5. Cardinality(CountedNow') = Cardinality(CountedNow) + 1
    BY <2>4, Finiteness, FS_AddElement
  <2>6. Balance'
    BY <1>2, <2>1, <2>3, <2>5, Finiteness DEF Balance
  <2>7. ASSUME NEW n \in Nat
        PROVE  Cardinality(Numbered(n)') <= n + Cardinality(RefundedNow')
    <3>1. CASE hits + 1 <= n
      BY <1>2, <2>3, <2>5, <3>1, Finiteness, FinitenessNext DEF Balance
    <3>2. CASE ~(hits + 1 <= n)
      <4>1. Numbered(n)' = Numbered(n)
        BY <1>1, <2>1, <2>4, <3>2 DEF Numbered, CountedNow
      <4>2. QED
        BY <2>3, <4>1 DEF Shares
    <3>3. QED
      BY <3>1, <3>2
  <2>8. QED
    BY <2>6, <2>7 DEF Shares
<1>5. CASE Decrement(r)
  <2>1. /\ req'[r].counted = req[r].counted /\ req'[r].own = req[r].own
        /\ req'[r].refunded = life /\ req[r].at = "refunding" /\ hits' = hits - 1
    BY <1>5, DecrementStep
  <2>2. req[r].refunded = 0
    BY <2>1 DEF StageOK
  <2>3. CountedNow' = CountedNow
    BY <1>1, <2>1 DEF CountedNow
  <2>4. RefundedNow' = RefundedNow \union {r} /\ r \notin RefundedNow
    BY <1>1, <1>2, <2>1, <2>2 DEF RefundedNow
  <2>5. Cardinality(RefundedNow') = Cardinality(RefundedNow) + 1
    BY <2>4, Finiteness, FS_AddElement
  <2>6. \A n \in Nat : Numbered(n)' = Numbered(n)
    BY <1>1, <2>1, <2>3 DEF Numbered, CountedNow
  <2>7. QED
    BY <1>2, <2>1, <2>3, <2>5, <2>6, Finiteness DEF Balance, Shares
<1>6. QED
  BY <1>3, <1>4, <1>5, QuietSteps
-----------------------------------------------------------------------------
(* The expiry *)

LEMMA StepKeepsCounterExpires ==
  ASSUME TypeOK, CounterExpires, \A q \in Requests : StageOK(q), NEW r \in Requests, Step(r)
  PROVE  CounterExpires'
<1>1. /\ \A q \in Requests \ {r} : req'[q] = req[q]
      /\ life' = life
  BY OneRequestMoves
<1>2. /\ life \in Nat \ {0} /\ hits \in Int /\ req \in [Requests -> Request]
      /\ lapse = NoKey => hits = 0
  BY DEF TypeOK
<1>3. ASSUME NEW q \in RefundedNow
      PROVE  q # r \/ Quiet(r) => q \in RefundedNow'
  BY <1>1, <1>3 DEF RefundedNow, Quiet
<1>4. CASE Increment(r)
  <2>1. /\ req[r].at = "idle" /\ hits' = hits + 1
        /\ req'[r].at = IF hits + 1 = 1 THEN "expiring" ELSE "reading"
        /\ req'[r].refunded = req[r].refunded
    BY <1>4, IncrementStep
  <2>2. /\ lost' = lost
        /\ lapse' = IF lapse = NoKey THEN NoExpiry ELSE lapse
    BY <1>4 DEF Increment
  <2>3. RefundedNow' = RefundedNow
    BY <1>1, <2>1 DEF RefundedNow
  <2>4. CASE hits = 0
    BY <2>1, <2>4 DEF CounterExpires
  <2>5. CASE hits # 0 /\ lapse = NoExpiry
    <3>1. CASE \E q \in Requests : req[q].at = "expiring"
      <4>1. PICK q \in Requests : req[q].at = "expiring"
        BY <3>1
      <4>2. req'[q].at = "expiring"
        BY <1>1, <2>1, <4>1
      <4>3. QED
        BY <4>2 DEF CounterExpires
    <3>2. CASE lost
      BY <2>2, <3>2 DEF CounterExpires
    <3>3. CASE hits <= 0 /\ RefundedNow # {}
      BY <1>2, <2>1, <2>3, <2>5, <3>3 DEF CounterExpires
    <3>4. QED
      BY <2>5, <3>1, <3>2, <3>3 DEF CounterExpires
  <2>6. CASE hits # 0 /\ lapse # NoExpiry
    BY <1>2, <2>2, <2>6 DEF CounterExpires
  <2>7. QED
    BY <2>4, <2>5, <2>6
<1>5. CASE Decrement(r)
  <2>1. /\ req[r].at = "refunding" /\ hits' = hits - 1 /\ req'[r].refunded = life
    BY <1>5, DecrementStep
  <2>2. /\ lost' = lost
        /\ lapse' = IF lapse = NoKey THEN NoExpiry ELSE lapse
    BY <1>5 DEF Decrement
  <2>3. r \in RefundedNow'
    BY <1>1, <2>1 DEF RefundedNow
  <2>4. CASE hits <= 0
    BY <1>2, <2>1, <2>3, <2>4 DEF CounterExpires
  <2>5. CASE hits > 0
    <3>1. lapse' = lapse
      BY <1>2, <2>2, <2>5
    <3>2. CASE \E q \in Requests : req[q].at = "expiring"
      <4>1. PICK q \in Requests : req[q].at = "expiring"
        BY <3>2
      <4>2. req'[q].at = "expiring"
        BY <1>1, <2>1, <4>1
      <4>3. QED
        BY <4>2 DEF CounterExpires
    <3>3. CASE lost
      BY <2>2, <3>3 DEF CounterExpires
    <3>4. QED
      BY <1>2, <2>5, <3>1, <3>2, <3>3 DEF CounterExpires
  <2>6. QED
    BY <1>2, <2>4, <2>5
<1>6. CASE Expire(r)
  <2>1. lapse' = NoKey \/ lapse' = now + Window
    BY <1>6 DEF Expire
  <2>2. lapse' # NoExpiry
    BY <2>1, RateLimitAssumption DEF TypeOK, NoExpiry, NoKey
  <2>3. QED
    BY <2>2 DEF CounterExpires
<1>7. CASE FallBack(r)
  <2>1. /\ hits' = hits /\ lapse' = lapse
        /\ lost' = (lost \/ (req[r].at = "expiring" /\ lapse = NoExpiry))
    BY <1>7 DEF FallBack
  <2>2. Quiet(r)
    BY <1>2, <1>7 DEF FallBack, Put, Request, Quiet
  <2>3. CASE lapse = NoExpiry /\ \E q \in Requests : req[q].at = "expiring"
    <3>1. PICK q \in Requests : req[q].at = "expiring"
      BY <2>3
    <3>2. CASE q = r
      BY <2>1, <2>3, <3>1, <3>2 DEF CounterExpires
    <3>3. CASE q # r
      <4>1. req'[q].at = "expiring"
        BY <1>1, <3>1, <3>3
      <4>2. QED
        BY <4>1 DEF CounterExpires
    <3>4. QED
      BY <3>2, <3>3
  <2>4. CASE lost
    BY <2>1, <2>4 DEF CounterExpires
  <2>5. CASE hits <= 0 /\ RefundedNow # {}
    BY <1>3, <2>1, <2>2, <2>5 DEF CounterExpires
  <2>6. QED
    BY <2>1, <2>3, <2>4, <2>5 DEF CounterExpires
<1>8. CASE Skip(r) \/ Decide(r) \/ Finish(r) \/ DecrementError(r)
  <2>1. hits' = hits /\ lapse' = lapse /\ lost' = lost /\ req[r].at # "expiring"
    BY <1>8 DEF Skip, Decide, Finish, DecrementError
  <2>2. RefundedNow \subseteq RefundedNow'
    <3>1. req'[r].refunded = req[r].refunded
      BY <1>2, <1>8 DEF Skip, Decide, Finish, DecrementError, Put, Request
    <3>2. QED
      BY <1>1, <3>1 DEF RefundedNow
  <2>3. CASE \E q \in Requests : req[q].at = "expiring"
    <3>1. PICK q \in Requests : req[q].at = "expiring"
      BY <2>3
    <3>2. req'[q].at = "expiring"
      BY <1>1, <2>1, <3>1
    <3>3. QED
      BY <3>2 DEF CounterExpires
  <2>4. CASE ~\E q \in Requests : req[q].at = "expiring"
    BY <2>1, <2>2, <2>4 DEF CounterExpires
  <2>5. QED
    BY <2>3, <2>4
<1>9. QED
  BY <1>4, <1>5, <1>6, <1>7, <1>8 DEF Step

LEMMA StepKeepsOpening ==
  ASSUME TypeOK, Opening, \A q \in Requests : StageOK(q), NEW r \in Requests, Step(r)
  PROVE  Opening'
<1>1. /\ \A q \in Requests \ {r} : req'[q] = req[q]
      /\ life' = life
  BY OneRequestMoves
<1>2. /\ life \in Nat \ {0} /\ hits \in Int /\ req \in [Requests -> Request]
      /\ lapse = NoKey => hits = 0
  BY DEF TypeOK
<1>3. CASE Decrement(r)
  <2>1. ~NoRefunds'
    BY <1>2, <1>3, DecrementStep DEF NoRefunds
  <2>2. QED
    BY <2>1 DEF Opening
<1>4. CASE Increment(r)
  <2>1. /\ req[r].at = "idle" /\ hits' = hits + 1
        /\ req'[r].at = IF hits + 1 = 1 THEN "expiring" ELSE "reading"
        /\ req'[r].refunded = req[r].refunded
        /\ lapse' = IF lapse = NoKey THEN NoExpiry ELSE lapse
    BY <1>4, IncrementStep DEF Increment
  <2>2. NoRefunds' => NoRefunds
    BY <1>1, <2>1 DEF NoRefunds
  <2>3. CASE lapse = NoKey
    <3>1. NoRefunds => \A q \in Requests : req[q].at # "expiring"
      BY <2>3 DEF Opening, NoExpiry, NoKey
    <3>2. QED
      BY <1>1, <1>2, <2>1, <2>2, <2>3, <3>1 DEF Opening
  <2>4. CASE lapse # NoKey
    <3>1. NoRefunds => req'[r].at # "expiring" /\ hits' >= 1
      BY <1>2, <2>1, <2>4 DEF Opening
    <3>2. QED
      BY <1>1, <2>1, <2>2, <2>4, <3>1 DEF Opening
  <2>5. QED
    BY <2>3, <2>4
<1>5. CASE Expire(r)
  <2>1. /\ hits' = hits /\ req[r].at = "expiring" /\ req'[r].at = "reading"
        /\ req'[r].refunded = req[r].refunded
        /\ lapse' = NoKey => lapse = NoKey \/ lapse' = now + Window
    BY <1>2, <1>5 DEF Expire, Put, Request
  <2>2. NoRefunds' => NoRefunds
    BY <1>1, <2>1 DEF NoRefunds
  <2>3. NoRefunds => /\ hits >= 1
                     /\ \A q \in Requests \ {r} : req[q].at # "expiring"
    BY <2>1 DEF Opening, NoExpiry, NoKey
  <2>4. QED
    BY <1>1, <2>1, <2>2, <2>3 DEF Opening
<1>6. CASE Skip(r) \/ Decide(r) \/ FallBack(r) \/ Finish(r) \/ DecrementError(r)
  <2>1. /\ hits' = hits /\ lapse' = lapse /\ req'[r].at # "expiring"
        /\ req'[r].refunded = req[r].refunded
    <3>1. CASE Skip(r) \/ DecrementError(r)
      BY <1>2, <3>1 DEF Skip, DecrementError, Put, Request
    <3>2. CASE Decide(r)
      BY <1>2, <3>2 DEF Decide, Put, Request
    <3>3. CASE FallBack(r)
      BY <1>2, <3>3 DEF FallBack, Put, Request
    <3>4. CASE Finish(r)
      BY <1>2, <3>4 DEF Finish, Put, Request
    <3>5. QED
      BY <1>6, <3>1, <3>2, <3>3, <3>4
  <2>2. NoRefunds' => NoRefunds
    BY <1>1, <2>1 DEF NoRefunds
  <2>3. QED
    BY <1>1, <2>1, <2>2 DEF Opening
<1>7. QED
  BY <1>3, <1>4, <1>5, <1>6 DEF Step
-----------------------------------------------------------------------------
(* The clock, and the theorems *)

LEMMA TickKeeps ==
  ASSUME IInv, Tick
  PROVE  IInv'
<1> USE RateLimitAssumption
<1>1. /\ TypeOK /\ Balance /\ Shares /\ CounterExpires /\ Opening
      /\ \A r \in Requests : StageOK(r)
  BY DEF IInv
<1>2. now' = now + 1 /\ lost' = lost /\ req' = req /\ lost \in BOOLEAN
  BY <1>1, Zenon DEF Tick, TypeOK
<1>3. CASE lapse \in Nat /\ lapse <= now + 1
  <2>1. hits' = 0 /\ lapse' = NoKey /\ life' = life + 1
    BY <1>3 DEF Tick
  <2>2. life \in Nat /\ \A r \in Requests : /\ req[r].counted \in Nat /\ req[r].refunded \in Nat
                                          /\ req[r].counted <= life
                                          /\ req[r].refunded <= life
    BY <1>1 DEF TypeOK, Request, StageOK
  <2>3. CountedNow' = {} /\ RefundedNow' = {}
    BY <1>2, <2>1, <2>2 DEF CountedNow, RefundedNow
  <2>4. \A n \in Nat : Numbered(n)' = {}
    BY <2>3 DEF Numbered
  <2>5. Balance' /\ Shares'
    <3>1. Cardinality({}) = 0
      BY FS_EmptySet
    <3>2. Balance'
      BY <2>1, <2>3, <3>1 DEF Balance
    <3>3. \A n \in Nat : Cardinality(Numbered(n)') <= n + Cardinality(RefundedNow')
      BY <2>3, <2>4, <3>1
    <3>4. QED
      BY <3>2, <3>3 DEF Shares
  <2>6. TypeOK'
    BY <1>1, <1>2, <2>1 DEF TypeOK, NoKey, NoExpiry
  <2>7. CounterExpires'
    BY <2>1 DEF CounterExpires, NoKey, NoExpiry
  <2>8. Opening'
    BY <1>1, <1>2, <1>3, <2>1 DEF Opening, NoRefunds, NoKey, NoExpiry
  <2>9. \A r \in Requests : StageOK(r)'
    BY <1>1, <1>2, <2>1, <2>2 DEF StageOK, Admitted, LimitOf, Factor
  <2>10. QED
    BY <2>5, <2>6, <2>7, <2>8, <2>9 DEF IInv
<1>4. CASE ~(lapse \in Nat /\ lapse <= now + 1)
  <2>1. hits' = hits /\ lapse' = lapse /\ life' = life
    BY <1>4 DEF Tick
  <2>2. CountedNow' = CountedNow /\ RefundedNow' = RefundedNow
    BY <1>2, <2>1 DEF CountedNow, RefundedNow
  <2>3. \A n \in Nat : Numbered(n)' = Numbered(n)
    BY <1>2, <2>2 DEF Numbered
  <2>4. Balance' /\ Shares'
    BY <1>1, <2>1, <2>2, <2>3 DEF Balance, Shares
  <2>5. lapse' \in (now' + 1 .. now' + Window) \union {NoExpiry, NoKey}
    BY <1>1, <1>2, <1>4, <2>1 DEF TypeOK, NoKey, NoExpiry
  <2>6. TypeOK'
    BY <1>1, <1>2, <2>1, <2>5 DEF TypeOK, NoKey, NoExpiry
  <2>7. CounterExpires' /\ Opening'
    BY <1>1, <1>2, <2>1, <2>2 DEF CounterExpires, Opening, NoRefunds
  <2>8. \A r \in Requests : StageOK(r)'
    BY <1>1, <1>2, <2>1 DEF StageOK, Admitted, LimitOf, Factor
  <2>9. QED
    BY <2>4, <2>6, <2>7, <2>8 DEF IInv
<1>5. QED
  BY <1>3, <1>4

LEMMA NextKeeps == IInv /\ [Next]_vars => IInv'
<1>1. ASSUME IInv, NEW r \in Requests, Step(r)
      PROVE  IInv'
  <2>1. /\ TypeOK /\ Balance /\ Shares /\ CounterExpires /\ Opening
        /\ \A q \in Requests : StageOK(q)
    BY <1>1 DEF IInv
  <2>2. TypeOK'
    BY <1>1, <2>1, StepKeepsType
  <2>3. \A q \in Requests : StageOK(q)'
    BY <1>1, <2>1, StepKeepsStages
  <2>4. Balance' /\ Shares'
    BY <1>1, <2>1, StepKeepsCount
  <2>5. CounterExpires'
    BY <1>1, <2>1, StepKeepsCounterExpires
  <2>6. Opening'
    BY <1>1, <2>1, StepKeepsOpening
  <2>7. QED
    BY <2>2, <2>3, <2>4, <2>5, <2>6 DEF IInv
<1>2. ASSUME IInv, UNCHANGED vars
      PROVE  IInv'
  BY <1>2 DEF vars, IInv, TypeOK, Balance, Shares, CounterExpires, Opening, NoRefunds, StageOK,
              Admitted, LimitOf, Factor, CountedNow, RefundedNow, Numbered
<1>3. QED
  BY <1>1, <1>2, TickKeeps DEF Next

LEMMA Inductive == Spec => []IInv
  BY InitIInv, NextKeeps, PTL DEF Spec

(* The counter, its expiry and the requests keep their types: a key that   *)
(* does not exist counts 0, and one with an expiry expires within the      *)
(* window (RedisStore).                                                    *)
THEOREM TypeCorrect == Spec => []TypeOK
<1>1. IInv => TypeOK
  BY DEF IInv
<1>2. QED
  BY <1>1, Inductive, PTL

(* The key is what INCR and DECR made of it, and no window lets through    *)
(* more of a role than the limit, and one more for every refund            *)
(* (createCustomRateLimiter).                                              *)
THEOREM LimitHolds == Spec => []AtMostLimit
<1>1. ASSUME IInv
      PROVE  AtMostLimit
  <2>1. Balance /\ Shares /\ \A r \in Requests : StageOK(r)
    BY <1>1 DEF IInv
  <2>2. req \in [Requests -> Request] /\ life \in Nat \ {0}
    BY <1>1 DEF IInv, TypeOK
  <2>3. ASSUME NEW role \in Roles
        PROVE  Cardinality(Through(role)) <= LimitOf(role) + Cardinality(RefundedNow)
    <3>1. LimitOf(role) \in Nat /\ \A r \in Requests : LimitOf(req[r].role) \in Nat
      BY LimitType
    <3>2. ASSUME NEW r \in Through(role)
          PROVE  r \in Numbered(LimitOf(role))
      <4>1. /\ r \in Requests /\ req[r].counted = life
            /\ Admitted(r) /\ LimitOf(req[r].role) <= LimitOf(role)
        BY DEF CountedNow, Through
      <4>2. req[r].own <= LimitOf(req[r].role)
        BY <2>1, <2>2, <4>1 DEF StageOK
      <4>3. req[r].own \in Int
        BY <2>2, <4>1 DEF Request
      <4>4. req[r].own <= LimitOf(role)
        BY <3>1, <4>1, <4>2, <4>3
      <4>5. QED
        BY <4>4 DEF Numbered, Through
    <3>3. Through(role) \subseteq Numbered(LimitOf(role))
      BY <3>2
    <3>4. /\ Cardinality(Through(role)) <= Cardinality(Numbered(LimitOf(role)))
          /\ Cardinality(Through(role)) \in Nat
      BY <3>3, Finiteness, FS_Subset, FS_CardinalityType
    <3>5. Cardinality(Numbered(LimitOf(role))) <= LimitOf(role) + Cardinality(RefundedNow)
      BY <2>1, <3>1 DEF Shares
    <3>6. QED
      BY <3>1, <3>4, <3>5, Finiteness
  <2>4. QED
    BY <2>1, <2>3 DEF AtMostLimit, Balance
<1>2. QED
  BY <1>1, Inductive, PTL

(* A counter that would never expire has an EXPIRE still to come, or one   *)
(* that failed, or was taken to zero or below by refunds (increment,       *)
(* decrement).                                                             *)
THEOREM ExpiryHolds == Spec => []CounterExpires
<1>1. IInv => CounterExpires
  BY DEF IInv
<1>2. QED
  BY <1>1, Inductive, PTL

(* Without refunds, a window once opened is never prolonged (increment,    *)
(* hits === 1).                                                            *)
THEOREM WindowHolds == Spec => WindowFixed
<1> DEFINE Kept == (lapse \in Nat /\ lapse' \in Nat /\ NoRefunds) => lapse' = lapse
<1>1. ASSUME IInv, [Next]_vars
      PROVE  Kept
  <2> SUFFICES ASSUME lapse \in Nat, lapse' \in Nat, NoRefunds
               PROVE  lapse' = lapse
    OBVIOUS
  <2>1. lapse # NoKey /\ lapse # NoExpiry /\ lapse' # NoKey
    BY DEF NoKey, NoExpiry
  <2>2. \A r \in Requests : req[r].at # "expiring"
    BY <1>1, <2>1 DEF IInv, Opening
  <2>3. ASSUME NEW r \in Requests, Step(r)
        PROVE  lapse' = lapse
    BY <2>1, <2>2, <2>3 DEF Step, Skip, Increment, Expire, Decide, FallBack, Finish, Decrement,
                            DecrementError
  <2>4. CASE Tick
    BY <2>1, <2>4 DEF Tick
  <2>5. CASE UNCHANGED vars
    BY <2>5 DEF vars
  <2>6. QED
    BY <1>1, <2>3, <2>4, <2>5 DEF Next
<1>2. Spec => [][Kept]_vars
  BY <1>1, Inductive, PTL DEF Spec
<1>3. Kept => ((lapse \in Nat /\ lapse' \in Nat /\ \A r \in Requests : req[r].refunded = 0)
                 => lapse' = lapse)
  BY DEF NoRefunds
<1>4. QED
  BY <1>2, <1>3, PTL DEF WindowFixed
=============================================================================
