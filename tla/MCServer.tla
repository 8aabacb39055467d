------------------------------ MODULE MCServer ------------------------------
\* Instances of Server for TLC.
EXTENDS Server

\* One route for each kind of stage, and the callers that the guards tell apart.
SomeRoutes == {"POST /api/auth/login", "PUT /api/users/:userId", "POST /api/auth/refresh"}
SomeCallers ==
    {[token |-> FALSE, role |-> "guest", owner |-> FALSE],
     [token |-> TRUE, role |-> "user", owner |-> TRUE],
     [token |-> TRUE, role |-> "user", owner |-> FALSE],
     [token |-> TRUE, role |-> "admin", owner |-> FALSE]}
Few == "general" :> 3 @@ "auth" :> 1
Windows == "general" :> 1 @@ "auth" :> 2
=============================================================================
