------------------------------- MODULE Server -------------------------------
(***************************************************************************)
(* The server process around the handlers: how it starts (App.start), how  *)
(* a request passes the middlewares of its route to its controller and how *)
(* it is answered, the limiters that count in the process's memory, and    *)
(* how the process ends (the handlers of error.middleware.ts).             *)
(*                                                                         *)
(* Code runs until it awaits.  The general limiter, the header check of    *)
(* authenticate, and the limiter of a public route run in one go when the  *)
(* request arrives; the role checks and the limiter of a private route     *)
(* run in one go after the token is verified.  What a controller does is   *)
(* the subject of the other modules; here it answers, well or with an      *)
(* error.  The client is one address with one account, so every limiter    *)
(* has one key.                                                            *)
(***************************************************************************)
EXTENDS Routes, FiniteSets

CONSTANTS
    Environments,   \* what NODE_ENV may be
    RedisClients,   \* the connections redisManager opens: main, publisher, subscriber
    MaxRequests,    \* HTTP requests in a run, numbered as they arrive
    Sockets,        \* websocket clients
    Served,         \* the routes the requests go to
    Callers,        \* with what requests come: [token, role, owner]
    MaxOf,          \* the limiters of these routes and the max of each
    MaxWindow       \* the last window of each limiter in a run

Caller == [token: BOOLEAN, role: DOMAIN Level, owner: BOOLEAN]

ASSUME ServerAssumption ==
    /\ Environments \subseteq {"production", "development"}
    /\ RedisClients # {}
    /\ Served \subseteq DOMAIN Table /\ Served # {}
    /\ Callers \subseteq Caller /\ Callers # {}
    /\ MaxOf \in [DOMAIN MaxOf -> Nat]
    /\ "general" \in DOMAIN MaxOf
    /\ \A route \in Served : Table[route].limit \in DOMAIN MaxOf \union {"none"}
    /\ MaxWindow \in [DOMAIN MaxOf -> Nat \ {0}]
    /\ MaxRequests \in Nat

VARIABLES
    proc,       \* where the process is in its life
    cause,      \* why it ended
    fatal,      \* the timer of an uncaught exception or rejection is running
    waiting,    \* Redis connections that start() is waiting for
    up,         \* what has been initialized: the two isConnected flags and the queues
    req,        \* how far each request has come
    sockets,    \* the websockets that are open
    hits,       \* hits[l]: the counter of limiter l
    window      \* window[l]: which of its windows this is

vars == <<proc, cause, fatal, waiting, up, req, sockets, hits, window>>

Limiters == DOMAIN MaxOf
Requests == 1..MaxRequests

\* client: the client is still there; passed, refunded: the window in which the limiter
\* of the route let it through and took it off its count, or 0; ok: it was then answered
\* with a status below 400.
Request ==
    [at: {"idle", "authenticating", "handling", "answering", "kept", "over"},
     route: Served, caller: Callers, client: BOOLEAN, ok: BOOLEAN,
     passed: Nat, refunded: Nat]

TypeOK ==
    /\ proc \in {"database", "migrating", "redis", "unbound", "open", "closing", "exited"}
    /\ cause \in {"none", "startFailed", "fatal", "forced", "drained", "killed"}
    /\ (cause = "none") <=> (proc # "exited")
    /\ fatal \in BOOLEAN
    /\ waiting \subseteq RedisClients /\ (waiting # {} => proc = "redis")
    /\ up \subseteq {"database", "redis", "queues"}
    /\ req \in [Requests -> Request]
    /\ sockets \subseteq Sockets
    /\ hits \in [Limiters -> Nat] /\ window \in [Limiters -> Nat]
    /\ \A l \in Limiters : window[l] \in 1..MaxWindow[l]

NoRequest ==
    [r \in Requests |->
       [at |-> "idle", route |-> CHOOSE route \in Served : TRUE,
        caller |-> CHOOSE caller \in Callers : TRUE, client |-> TRUE, ok |-> FALSE,
        passed |-> 0, refunded |-> 0]]
NoHits == [l \in Limiters |-> 0]
FirstWindow == [l \in Limiters |-> 1]

\* The constructor of App has installed the handlers of exceptions and rejections.
Init ==
    /\ proc = "database" /\ cause = "none" /\ fatal = FALSE
    /\ waiting = {} /\ up = {}
    /\ req = NoRequest /\ sockets = {}
    /\ hits = NoHits /\ window = FirstWindow

Starting == {"database", "migrating", "redis"}
Running == proc \in {"open", "closing"}

boot == <<waiting, up>>
traffic == <<req, sockets, hits, window>>

\* The memory goes with the process.
Exit(why) ==
    /\ proc' = "exited" /\ cause' = why /\ fatal' = FALSE
    /\ waiting' = {} /\ up' = {}
    /\ req' = NoRequest /\ sockets' = {}
    /\ hits' = NoHits /\ window' = FirstWindow
-----------------------------------------------------------------------------
(* The start *)

\* databaseManager.connect(): the flag is set before the migrations run, which they do
\* in production.
ConnectDatabase ==
    /\ proc = "database"
    /\ up' = up \union {"database"}
    /\ \/ "production" \in Environments /\ proc' = "migrating" /\ UNCHANGED waiting
       \/ "development" \in Environments /\ proc' = "redis" /\ waiting' = RedisClients
    /\ UNCHANGED <<cause, fatal, traffic>>

Migrate ==
    /\ proc = "migrating"
    /\ proc' = "redis" /\ waiting' = RedisClients
    /\ UNCHANGED <<cause, fatal, up, traffic>>

\* No connection, or a migration failed: start() exits.
DatabaseFails ==
    /\ proc \in {"database", "migrating"}
    /\ Exit("startFailed")

\* After the await of Redis start() runs to its end: middleware, routes, sockets,
\* queues, listen, signal handlers.  A port in use is an uncaught exception.
Finished ==
    /\ up' = up \union {"redis", "queues"}
    /\ \/ proc' = "open" /\ UNCHANGED fatal
       \/ proc' = "unbound" /\ fatal' = TRUE

\* Fault: listening before the connections are awaited.
ClientReadyListening(c) ==
    /\ proc = "redis" /\ c \in waiting
    /\ waiting' = waiting \ {c}
    /\ proc' = "open"
    /\ IF waiting' = {} THEN up' = up \union {"redis", "queues"} ELSE UNCHANGED up
    /\ UNCHANGED <<cause, fatal, traffic>>

\* waitForConnection resolves.
ClientReady(c) ==
    /\ proc = "redis" /\ c \in waiting
    /\ waiting' = waiting \ {c}
    /\ IF waiting' = {} THEN Finished ELSE UNCHANGED <<proc, fatal, up>>
    /\ UNCHANGED <<cause, traffic>>

\* Its first error, or ten seconds without either event: the start fails.
ClientFails(c) ==
    /\ proc = "redis" /\ c \in waiting
    /\ Exit("startFailed")
-----------------------------------------------------------------------------
(* The limiters in memory *)

Count(counts, l) == IF l = "none" THEN counts ELSE [counts EXCEPT ![l] = @ + 1]

Exceeded(counts, l) == l # "none" /\ counts[l] > MaxOf[l]

\* The window of a limiter ends: what it counted is void.
WindowEnds(l) ==
    /\ Running
    /\ window[l] < MaxWindow[l]
    /\ hits' = [hits EXCEPT ![l] = 0]
    /\ window' = [window EXCEPT ![l] = @ + 1]
    /\ UNCHANGED <<proc, cause, fatal, boot, req, sockets>>
-----------------------------------------------------------------------------
(* A request *)

Put(r, request) == req' = [req EXCEPT ![r] = request]

\* The request is done and its connection closed.
Over(q) == [q EXCEPT !.at = "over", !.client = FALSE,
                     !.caller = NoRequest[1].caller]

\* Answered by a middleware: 401, 403, 422 or 429.
Refused(q) == IF q.client THEN [q EXCEPT !.at = "answering"] ELSE Over(q)

\* The limiter of the route, which has just counted the request, then the validators
\* and handleValidationErrors.
Limited(q, counts, valid) ==
    LET route == Table[q.route]
        passed == IF route.limit = "none" THEN q
                  ELSE [q EXCEPT !.passed = window[route.limit]]
    IN  IF Exceeded(counts, route.limit) THEN Refused(q)
        ELSE IF route.checked /\ ~valid THEN Refused(passed)
        ELSE [passed EXCEPT !.at = "handling"]

\* What a request that arrives meets before its first await, and what it has counted.
Entered(q, valid) ==
    LET route == Table[q.route]
        general == IF route.general THEN "general" ELSE "none"
        first == Count(hits, general)
        second == Count(first, route.limit)
    IN  IF Exceeded(first, general) \/ (route.auth /\ ~q.caller.token)
        THEN [request |-> Refused(q), counts |-> first]
        ELSE IF route.auth
        THEN [request |-> [q EXCEPT !.at = "authenticating"], counts |-> first]
        ELSE [request |-> Limited(q, second, valid), counts |-> second]

\* After server.close() no connection is accepted, but one that is kept alive still
\* brings requests.  A public route does not look at the token.
Arrive(r, route, caller, valid) ==
    LET entered == Entered([req[r] EXCEPT !.route = route, !.caller = caller], valid)
    IN  /\ req[r].at = "idle" /\ \A q \in 1 .. r - 1 : req[q].at # "idle"
        /\ Table[route].auth \/ ~caller.token
        /\ \/ proc = "open" /\ Put(r, entered.request)
           \/ /\ proc = "closing"
              /\ \E q \in Requests :
                   /\ req[q].at = "kept"
                   /\ req' = [req EXCEPT ![q] = Over(req[q]), ![r] = entered.request]
        /\ hits' = entered.counts
        /\ UNCHANGED <<proc, cause, fatal, boot, sockets, window>>

\* Fault: the routes leave out the role checks.
AuthenticateOnly(r, valid) ==
    /\ Running /\ req[r].at = "authenticating"
    /\ LET counts == Count(hits, Table[req[r].route].limit)
       IN  Put(r, Limited(req[r], counts, valid)) /\ hits' = counts
    /\ UNCHANGED <<proc, cause, fatal, boot, sockets, window>>

\* The token is refused, or verified: then the guard, then the limiter of the route.
Authenticate(r, valid) ==
    /\ Running /\ req[r].at = "authenticating"
    /\ \/ Put(r, Refused(req[r])) /\ UNCHANGED hits
       \/ /\ ~Allowed(req[r].route, req[r].caller)
          /\ Put(r, Refused(req[r])) /\ UNCHANGED hits
       \/ /\ Allowed(req[r].route, req[r].caller)
          /\ LET counts == Count(hits, Table[req[r].route].limit)
             IN  Put(r, Limited(req[r], counts, valid)) /\ hits' = counts
    /\ UNCHANGED <<proc, cause, fatal, boot, sockets, window>>

\* The controller answers, or throws and errorHandler answers.
Answer(r) ==
    /\ Running /\ req[r].at = "handling"
    /\ \E ok \in IF req[r].passed = 0 THEN {FALSE} ELSE BOOLEAN :
         Put(r, IF req[r].client THEN [req[r] EXCEPT !.at = "answering", !.ok = ok]
                ELSE Over(req[r]))
    /\ UNCHANGED <<proc, cause, fatal, boot, sockets, hits, window>>

Kept(q) == [Over(q) EXCEPT !.at = "kept", !.client = TRUE]

Refunds(q) == Table[q.route].limit = "auth" /\ q.ok

\* Fault: skipFailedRequests in the place of skipSuccessfulRequests.
FinishRefundsFailed(r) ==
    /\ Running /\ req[r].at = "answering"
    /\ IF Table[req[r].route].limit = "auth" /\ req[r].passed # 0 /\ ~req[r].ok
            /\ hits["auth"] > 0
       THEN /\ hits' = [hits EXCEPT !["auth"] = @ - 1]
            /\ Put(r, [Kept(req[r]) EXCEPT !.refunded = window["auth"]])
       ELSE Put(r, Kept(req[r])) /\ UNCHANGED hits
    /\ UNCHANGED <<proc, cause, fatal, boot, sockets, window>>

\* The response is handed over; authRateLimiter takes a successful request off its count.
\* The connection is kept alive.
Finish(r) ==
    /\ Running /\ req[r].at = "answering"
    /\ IF Refunds(req[r]) /\ hits["auth"] > 0
       THEN /\ hits' = [hits EXCEPT !["auth"] = @ - 1]
            /\ Put(r, [Kept(req[r]) EXCEPT !.refunded = window["auth"]])
       ELSE Put(r, Kept(req[r])) /\ UNCHANGED hits
    /\ UNCHANGED <<proc, cause, fatal, boot, sockets, window>>

\* The client leaves.  A handler it leaves behind goes on; nothing tells the limiter.
Abort(r) ==
    /\ Running
    /\ \/ /\ req[r].at \in {"authenticating", "handling"} /\ req[r].client
          /\ Put(r, [req[r] EXCEPT !.client = FALSE])
       \/ /\ req[r].at \in {"answering", "kept"}
          /\ Put(r, Over(req[r]))
    /\ UNCHANGED <<proc, cause, fatal, boot, sockets, hits, window>>
-----------------------------------------------------------------------------
(* Sockets: the handshake and the events are module Presence's. *)

OpenSocket(s) ==
    /\ proc = "open" /\ s \notin sockets
    /\ sockets' = sockets \union {s}
    /\ UNCHANGED <<proc, cause, fatal, boot, req, hits, window>>

CloseSocket(s) ==
    /\ Running /\ s \in sockets
    /\ sockets' = sockets \ {s}
    /\ UNCHANGED <<proc, cause, fatal, boot, req, hits, window>>
-----------------------------------------------------------------------------
(* The end *)

\* SIGTERM or SIGINT: before handleGracefulShutdown the default, then server.close() and
\* a timer of thirty seconds, which runs exactly while proc = "closing".  A second
\* signal only starts a second timer.
Signal ==
    /\ proc \notin {"closing", "exited"}
    /\ IF proc \in Starting THEN Exit("killed")
       ELSE proc' = "closing" /\ UNCHANGED <<cause, fatal, boot, traffic>>

\* An exception or a rejection nobody catches: log, and exit in a second.
Uncaught ==
    /\ proc # "exited" /\ ~fatal
    /\ fatal' = TRUE
    /\ UNCHANGED <<proc, cause, boot, traffic>>

FatalExit ==
    /\ proc # "exited" /\ fatal
    /\ Exit("fatal")

\* Connections that hold the server: upgraded ones, and those with a client.
Held ==
    \/ sockets # {}
    \/ \E r \in Requests :
         /\ req[r].at \notin {"idle", "over"}
         /\ req[r].client

\* Fault: the timer gives up only when the connections are gone.
ForceExitDrained ==
    /\ proc = "closing" /\ ~Held
    /\ Exit("forced")

\* "Force shutdown after 30 seconds"
ForceExit ==
    /\ proc = "closing"
    /\ Exit("forced")

\* The callback of server.close(): process.exit(0), also under handlers whose client left.
DrainedExit ==
    /\ proc = "closing" /\ ~Held
    /\ Exit("drained")
-----------------------------------------------------------------------------
Start ==
    \/ ConnectDatabase \/ Migrate \/ DatabaseFails
    \/ \E c \in RedisClients : ClientReady(c) \/ ClientFails(c)

End == Signal \/ Uncaught \/ FatalExit \/ ForceExit \/ DrainedExit

Serve(r) ==
    \/ \E valid \in BOOLEAN :
         \/ \E route \in Served, caller \in Callers : Arrive(r, route, caller, valid)
         \/ Authenticate(r, valid)
    \/ Answer(r) \/ Finish(r) \/ Abort(r)

Next ==
    \/ Start \/ End
    \/ \E r \in Requests : Serve(r)
    \/ \E s \in Sockets : OpenSocket(s) \/ CloseSocket(s)
    \/ \E l \in Limiters : WindowEnds(l)

\* Connecting to Redis ends by a timeout of the code if not otherwise, and the timers of an
\* exit run out.  Nothing bounds what the database is asked at the start, a handler or a
\* client.
Fairness ==
    /\ WF_vars(\E c \in RedisClients : ClientReady(c) \/ ClientFails(c))
    /\ WF_vars(FatalExit)
    /\ WF_vars(ForceExit)

Spec == Init /\ [][Next]_vars /\ Fairness
-----------------------------------------------------------------------------
(***************************************************************************)
(* Whoever is in a controller found everything the handlers use            *)
(* initialized, the database, Redis and the queues (App.start), and has    *)
(* the rank that the route asks for: the list of requireAdmin agrees with  *)
(* ROLE_HIERARCHY, and only the owner comes with less, to their own        *)
(* profile.                                                                *)
(***************************************************************************)
HandledOnlyIfReady ==
    /\ \A caller \in Caller :
         RequireAdmin(caller) <=> Level[caller.role] >= Level["admin"]
    /\ \A r \in Requests : req[r].at = "handling" =>
         /\ up = {"database", "redis", "queues"}
         /\ Table[req[r].route].auth => req[r].caller.token
         /\ Table[req[r].route].guard # "none" =>
              \/ Level[req[r].caller.role] >= Level["admin"]
              \/ Table[req[r].route].guard = "owner" /\ req[r].caller.owner
    /\ sockets # {} => up = {"database", "redis", "queues"}

(***************************************************************************)
(* A window of a limiter lets through no more requests than its max, for   *)
(* logins no more that fail or are still running, and one more for every   *)
(* refund of a request that an earlier window had counted: a slow login    *)
(* that succeeds late buys a further failed one (authRateLimiter,          *)
(* skipSuccessfulRequests).                                                *)
(***************************************************************************)
LimiterBounds ==
    \A l \in Limiters :
      LET let == {r \in Requests : Table[req[r].route].limit = l /\ req[r].passed = window[l]}
          back == {r \in Requests : /\ Table[req[r].route].limit = l
                                    /\ req[r].refunded = window[l]}
      IN  Cardinality({r \in let : ~(l = "auth" /\ req[r].ok)})
            <= MaxOf[l] + Cardinality(back \ let)

(***************************************************************************)
(* The wait for Redis ends, and once a signal has come or an exception was *)
(* caught by nobody the process ends, whatever clients and handlers do     *)
(* (waitForConnection, handleUncaughtException, handleGracefulShutdown).   *)
(***************************************************************************)
Settles ==
    /\ (proc = "redis") ~> (proc # "redis")
    /\ (proc = "closing" \/ fatal) ~> (proc = "exited")
=============================================================================
