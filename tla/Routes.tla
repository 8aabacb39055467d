------------------------------- MODULE Routes -------------------------------
(***************************************************************************)
(* The table of routes/index.ts: which of the middlewares a request to a   *)
(* route passes before its controller, and the role checks of              *)
(* authorization.middleware.ts that two of them make.  The order in which  *)
(* they run is the same on every route, general limiter, authentication,   *)
(* guard, limiter, validators, controller, and is module Server's.         *)
(***************************************************************************)
EXTENDS Integers

\* As in module TLC, of whose definitions the proofs know nothing.
route :> entry == [r \in {route} |-> entry]
f @@ g == [r \in DOMAIN f \union DOMAIN g |-> IF r \in DOMAIN f THEN f[r] ELSE g[r]]

\* limit: the limiter of the route; checked: validators run before the controller;
\* general: the limiter of server.ts counts the request (it is under /api, and
\* skipRateLimit does not know its path).
Public(limit, checked) ==
    [auth |-> FALSE, guard |-> "none", limit |-> limit, checked |-> checked, general |-> TRUE]
Private(guard, limit, checked) ==
    [auth |-> TRUE, guard |-> guard, limit |-> limit, checked |-> checked, general |-> TRUE]
Uncounted ==
    [auth |-> FALSE, guard |-> "none", limit |-> "none", checked |-> FALSE, general |-> FALSE]

HealthRoutes ==
    "GET /health" :> Uncounted
    @@ "GET /api/health" :> Uncounted
    @@ "GET /api/health/detailed" :> Private("admin", "none", FALSE)
    @@ "GET /api/health/metrics" :> Private("admin", "none", FALSE)
    @@ "POST /api/health/metrics/reset" :> Private("admin", "none", FALSE)

\* Refresh counts twice with the general limiter.
AuthRoutes ==
    "POST /api/auth/register" :> Public("registration", TRUE)
    @@ "POST /api/auth/login" :> Public("auth", TRUE)
    @@ "POST /api/auth/logout" :> Private("none", "none", FALSE)
    @@ "POST /api/auth/refresh" :> Public("general", FALSE)
    @@ "POST /api/auth/verify-email" :> Public("none", TRUE)
    @@ "POST /api/auth/forgot-password" :> Public("passwordReset", TRUE)
    @@ "POST /api/auth/reset-password" :> Public("none", TRUE)
    @@ "POST /api/auth/change-password" :> Private("none", "none", TRUE)
    @@ "GET /api/auth/me" :> Private("none", "none", FALSE)
    @@ "GET /api/auth/verify" :> Private("none", "none", FALSE)

UserRoutes ==
    "GET /api/users/search" :> Private("none", "search", FALSE)
    @@ "GET /api/users/online" :> Private("none", "none", FALSE)
    @@ "GET /api/users/:userId" :> Private("none", "none", TRUE)
    @@ "PUT /api/users/:userId" :> Private("owner", "none", TRUE)
    @@ "GET /api/users/:userId/statistics" :> Private("none", "none", TRUE)
    @@ "PATCH /api/users/:userId/role" :> Private("admin", "none", TRUE)
    @@ "POST /api/users/:userId/suspend" :> Private("admin", "none", TRUE)
    @@ "POST /api/users/:userId/activate" :> Private("admin", "none", TRUE)

ChannelRoutes ==
    "POST /api/channels" :> Private("none", "none", TRUE)
    @@ "GET /api/channels" :> Private("none", "none", FALSE)
    @@ "GET /api/channels/search" :> Private("none", "search", FALSE)
    @@ "GET /api/channels/:channelId" :> Private("none", "none", TRUE)
    @@ "POST /api/channels/:channelId/join" :> Private("none", "none", TRUE)
    @@ "POST /api/channels/:channelId/leave" :> Private("none", "none", TRUE)

MessageRoutes ==
    "POST /api/messages" :> Private("none", "messageSend", TRUE)
    @@ "GET /api/messages/channel/:channelId" :> Private("none", "none", TRUE)
    @@ "DELETE /api/messages/:messageId" :> Private("none", "none", TRUE)

TaskRoutes ==
    "POST /api/tasks" :> Private("none", "none", TRUE)
    @@ "GET /api/tasks" :> Private("none", "none", FALSE)
    @@ "GET /api/tasks/statistics" :> Private("none", "none", FALSE)
    @@ "GET /api/tasks/:taskId" :> Private("none", "none", TRUE)
    @@ "PUT /api/tasks/:taskId" :> Private("none", "none", TRUE)
    @@ "PATCH /api/tasks/:taskId/status" :> Private("none", "none", TRUE)
    @@ "DELETE /api/tasks/:taskId" :> Private("none", "none", TRUE)

NotificationRoutes ==
    "GET /api/notifications" :> Private("none", "none", FALSE)
    @@ "GET /api/notifications/unread/count" :> Private("none", "none", FALSE)
    @@ "PATCH /api/notifications/:notificationId/read" :> Private("none", "none", TRUE)
    @@ "POST /api/notifications/read-all" :> Private("none", "none", FALSE)

Table ==
    HealthRoutes @@ AuthRoutes @@ UserRoutes @@ ChannelRoutes @@ MessageRoutes
        @@ TaskRoutes @@ NotificationRoutes
-----------------------------------------------------------------------------
\* ROLE_HIERARCHY
Level ==
    [super_admin |-> 5, admin |-> 4, moderator |-> 3, user |-> 2, guest |-> 1]

\* requireAdmin, that is requireRole(ADMIN, SUPER_ADMIN).
RequireAdmin(caller) == caller.role \in {"admin", "super_admin"}

\* requireOwnershipOrRole('userId', ADMIN).
RequireOwnershipOrRole(caller) == caller.owner \/ Level[caller.role] >= Level["admin"]

\* What the guard of a route says of a caller.
Allowed(route, caller) ==
    CASE Table[route].guard = "admin" -> RequireAdmin(caller)
      [] Table[route].guard = "owner" -> RequireOwnershipOrRole(caller)
      [] OTHER -> TRUE
=============================================================================
