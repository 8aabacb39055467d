# Verification of the collaborative chat server

This directory specifies the server under `server/src` in TLA+: modules that
model its components, TLC configurations that check them on small instances, and
TLAPS proofs of the central properties for every instance. `PROJECT.json`
indexes the runs, the definitions with the source lines they stand for, the
hazards, and the theorems. Paths below are relative to `server/src`.

## 1. The system

A Node process serves a REST API (Express) and sockets (socket.io). Tables are in
PostgreSQL, reached through TypeORM; tokens, rate-limit counters and job queues are
in Redis. Controllers call services, services call repositories, and services push
events to socket rooms. All code runs on one thread, so a handler is interrupted
only where it awaits, and there any other handler may run. **No handler opens a
transaction, takes a lock or retries**: a service operation is a sequence of single
statements, and an error ends it with whatever it has already done.

### Inventory

| Component | State | Operations | Interacts with | What is hard | What makes it correct |
|---|---|---|---|---|---|
| Channel membership: `services/business.services.ts`, `repositories/channel.repository.ts` | `channels` (type, created_by_id, member_count), `channel_members` | create, join, leave | sockets (member events), Messages (membership) | table and counter change in separate statements; checks before awaits; half-done creation | private channels stay the creator's; the counter and the events follow the table |
| Messages and mentions: the same service, `message.repository.ts`, `additional.repository.ts` | `messages`, `mentions`, message_count, last_message_at | send, delete, list by pages; react, edit, pin, reply, purge | membership, rooms | five statements between the check and the broadcast; two entry points (REST and socket); concurrent deletes; columns read, changed and written back whole | only members post; what is announced is complete; clients converge; no update is lost unless two overlap; pages miss nothing |
| Socket events and presence: `events/socket.handler.ts`, `config/socket.config.ts` | rooms of each socket, `users.is_online` | connect, disconnect, room join and leave, relayed typing, read and presence events | users, channels, auth, error middleware | connect and disconnect handlers of a socket run side by side; several sockets per user; a failing handler ends the process | rooms are the user's channels; presence tells the truth |
| Tokens: `utils/tokenmanager.util.ts`, `config/jwt.config.ts`, `middlewares/auth.middleware.ts` | Redis keys `refresh_token:*`, `blacklist:*`, `temp_token:*`; signed expiries | generate, verify, refresh, revoke, blacklist | auth service | expiry arithmetic at the boundary; check-then-write on the refresh key; Redis errors swallowed | a logged-out token stays out; a valid session can be refreshed |
| Registration, login, lockout: `services/auth.service.ts`, `user.repository.ts`, `user.model.ts` | `users` (status, failed attempts, locked_until, tokens) | register, login, logout, verify e-mail, reset and change password | tokens, queue | uniqueness check before insert; stale attempts counter; several status writers | one user per e-mail; lock after the fifth failure; suspension holds |
| Users: `user.service.ts`, `user.controller.ts` | `users` | profile, role, suspend, activate | auth | concurrent status writers | as above |
| Authorization: `authorization.middleware.ts` | none | role and ownership checks | auth middleware | role order | the check agrees with the role hierarchy |
| Rate limiting: `ratelimit.middleware.ts` | Redis counters with expiry; counters of the library in memory | increment, decrement, reset, limiters | every route | INCR and EXPIRE apart; DECR after expiry; refunds in a later window | at most `max` per window; every counter expires |
| Tasks: `task.repository.ts`, `task.model.ts` | `tasks` | create, PUT, change status, delete, statistics | notifications | status, completion and the answer in several statements; five counts; PUT writes any column | answers and counts agree with the rows |
| Notifications: `notification.repository.ts` | `notifications` | create, read, read all, remove old | sockets, tasks | creation after the task in another statement | an assignee is told, nothing tells of what is not there |
| Audit, activity, queues: `config/queue.config.ts`, `additional.repository.ts` | Bull queues, `audit_logs`, `activities` | enqueue | auth, tasks | no processor is ever registered | every job is handled |
| Lifecycle: `server.ts`, `database.config.ts`, `redis.config.ts`, `error.middleware.ts` | connections, timers | start, shut down, exit on error | all | start-up order; two timers and the close callback race | nothing is used before it is connected; it ends |
| Generic repository: `base.repository.ts` | any table | create, find, update, soft delete | all | soft delete filters | deleted rows are not found |
| Pagination and responses: `utils/pagination.util.ts`, `utils/Response.util.ts` | none | page arithmetic | controllers | limits at zero, page size reported | pages partition the list |
| Validation and routes: `routes/index.ts`, `validation.middleware.ts` | none | the chain of middlewares of each route | limiters, auth, controllers | order of limiter, authentication, guard, validation | nobody reaches a controller past a refusal |
| Logging, configuration, date and file helpers | none worth a model | | | | |

Hazards are listed in `PROJECT.json` at the line where each bites, with the
properties that cover them or the reason why none does.

### Preconditions: what is repaired in the model

The server cannot start as committed, and the models describe its handlers as they
run once these are out of the way:

- `server.ts:13` imports the routes, and through them the repositories, whose
  constructors (`base.repository.ts:10-13`) need a connected data source; the
  connection is made later, in `start()` (`server.ts:154-207`).
- Modules are imported under names of another letter case than their files
  (`tokenManager.util`, `response.util`, `rateLimit.middleware`).
- `config/socket.config.ts:59` calls a destructured `verifyToken` without its
  class, so `this.isTokenBlacklisted` (`tokenmanager.util.ts:47`) throws and every
  socket handshake is refused. The models that have sockets assume a handshake that
  verifies the token and records the user.

## 2. Modules

| Module | Models | Used by |
|---|---|---|
| `Roster` | abstract: what membership promises | `Channels` (refinement) |
| `Channels` | create, join and leave, statement by statement | `MCChannels`, `ChannelsProofs` |
| `ChannelsProofs` | type invariant, private and abandoned channels, counter ledger, member events, refinement of `Roster` | |
| `Messaging` | send and delete over REST and sockets, rooms and clients | `MCMessaging`, `MessagingProofs` |
| `MessagingProofs` | type invariant, complete announcements, message count, entitled senders, converging clients | |
| `Presence` | socket set-up and tear-down, is_online, exit and restart | `MCPresence`, `PresenceProofs` |
| `PresenceProofs` | type invariant, rooms, closed sockets, presence | |
| `Sessions` | access and refresh tokens against a clock | `MCSessions`, `SessionsProofs` |
| `SessionsProofs` | type invariant, logout is final, refresh key lasts, signed off for good | |
| `Accounts` | registration, login and lockout, verification, password reset, profile update, suspension | `MCAccounts`, `AccountsProofs` |
| `AccountsProofs` | type invariant, racing registrations, verification, lockout, sessions, suspension | |
| `RateLimit` | the Redis counter of a client, its expiry and its refunds | `MCRateLimit`, `RateLimitProofs` |
| `RateLimitProofs` | type invariant, limit, expiry and window of the counter | |
| `Routes` | the table of routes, role hierarchy and guards (operators only) | `Server` |
| `Server` | start, middleware chain, limiters in memory, sockets, signals, exit | `MCServer`, `ServerProofs` |
| `ServerProofs` | type invariant, start before handling, guards, limiters | |
| `Pagination` | page arithmetic (operators only) | `Records` |
| `Records` | reactions, edits, replies, pins, purges, and a client that pages | `Workspace` |
| `Tasks` | tasks with their notifications and statistics | `Workspace` |
| `Workspace` | `Records` and `Tasks` side by side | `MCWorkspace`, `WorkspaceProofs` |
| `WorkspaceProofs` | type invariants, page arithmetic, updates, pages, tasks and statistics | |
| `MC*` | constants for TLC | |

Conventions. A handler is a record with a field `at` that names the await it is
suspended at; one action per await does what the code does up to the next one.
A statement is atomic: it succeeds, or throws and leaves no trace (`DbError`,
`SendError`, ...); a connection lost between a commit and its answer is not
modelled. Definitions whose comment begins with *Fault* are plausible wrong
versions of the definition below them. No specification uses them: they are there to
show that a property of the runs would notice the mistake.

### Roster and Channels

`Roster` has the columns `kind` and `creator`, the set `members`, and `awaited`, the
window in which createChannel has saved the row and has yet to add its creator. Its
`Leave` has no guard because leaveChannel looks nothing up.

`Channels` splits the three operations at their awaits: `SaveChannel`,
`InsertMember`, `IncrementMemberCount` for create; `FindChannel` before the last two,
and `EmitMemberEvent` after them, for join; `DeleteMember`, `DecrementMemberCount`,
`EmitMemberEvent` for leave. The INSERT fails on a second row of the same pair (the
primary key of the join table); the DELETE does not mind finding none, and the
decrement runs all the same. Histories support the properties: `row` and `counted` in
each request say what its statements did, `met` whether the request overlapped another
of its user, and `heard` is the last member event about a user. `ImplementsRoster` maps
`awaited` to "some create request of this channel is about to insert".

Assumed of requests: the body of a create has the fields that
`channelValidators.create` checks and no `id`, so `save` inserts; a leave names an
existing channel, since ids are random; without channel deletion, which no code
does, rows stay.

### Messaging

One name stands for a send request and the message it stores. Of a text only the
list of names after `@` is kept, repetitions and non-users included, which is what
`extractMentions` returns. `CheckMember`, `StoreMessage`, `StoreMention` (once per
name), `CountMessage`, `StampChannel` and `EmitNew` are the awaits of sendMessage;
`EmitNew` emits twice when the request came by socket, because handleSendMessage
emits again what the service emitted; both happen without another I/O callback in
between. `FindMessage`, `SoftDelete` and `EmitDeleted` are deleteMessage. A delete may
arrive as soon as the row is there (`ArriveDelete`): `GET /api/messages/channel/:channelId`
shows it while its send still writes mentions, count and stamp, so message:deleted can go
out before message:new; `overtaken` remembers the messages it happened to. Membership
changes by single statements (the rest of them is in `Channels`), sockets move
between rooms freely because neither handler checks anything. A client is modelled
by `view`, which adds on `message:new` and removes on `message:deleted`.
`copies`, `missed`, `overtaken` and `entitled` are histories. Lookup of a name and insertion of
its row are one action: the users table does not change here. The stamp is the
message, not the time.
`Recorded(rows, text, n)` says which mention rows the first n names of a text leave, by
counting the users among them (`UsersAmong`); texts are of any finite length.

### Presence

`setup` and `teardown` are the positions of handleConnection and handleDisconnect of
each socket. They are independent, because nobody awaits either: a socket may
close at any point of its set-up. socket.io empties the rooms of a closing socket
before it calls the handler and turns later joins into no-ops (external; read off
its `Socket._onclose` and `_cleanup`). An error in either handler is an unhandled
rejection; `process` then goes to `dying`, in which handlers still run for the second before
`process.exit(1)`, and `down`, after which `Restart` brings up a process without
sockets. The personal room, joined before the first statement, is left out: only
`notification:read` and `notifications:all_read` go to it (`business.services.ts:184`,
`:189`), and no property depends on it. `tangled` and `disturbed` are histories: users whose presence was not one
socket's to decide, and channels that changed for a socket after its channels were read.
Login and logout write the same column and are included when the
constant `Sessions` is TRUE.

### Sessions

One user's tokens; all keys carry the user's id or the token, so users do not
interact. JWTs of a user signed in the same second are identical strings, so a token
is named by its second; `now` is shared by server and Redis. `NoToken` stands for an
absent key. Lifetimes are constants, with the two relations the defaults satisfy
as assumptions: `BlacklistTtl >= AccessLife` (both 7 days; the first is fixed in the
code, the second is the setting JWT_EXPIRES_IN) and `KeyTtl >= RefreshLife` (both
30 days). Setting JWT_EXPIRES_IN above seven days breaks the first and with it
`LoggedOutRefused`. `RedisError` follows the catch blocks: a failing blacklist write is
swallowed, a failing lookup counts as not listed (recorded in `blind`), everything
else fails the request. `signedOff` is a history: whether the last logout or
revocation still stands, and whether a refresh was half way through it (`crossed`).

### Accounts

The users row with what decides a login (e-mail, name, password, status, attempts,
lock, deletedAt), the two temporary tokens in Redis, and per account the sign-in its
refresh key goes back to. A refresh is there for what it does to that key: past its
comparison its session is in `renewing` and may be put back at any later moment
(`CompareStored`, `Renew`); a logout takes the session away (`SignOut`, which stands for the
key's expiry too). Times, blacklist and tokens are `Sessions`' business.
`UpdateProfile` is `PUT /api/users/:userId`: the service strips five names from the body and
writes the rest, so that the name, the attempts, the lock and deletedAt can be written too,
none of which the validators of the route look at; a body with an id of its own is left out.
Lookups pass over rows with deletedAt set and look at one column each (`WithEmail`,
`WithName`); the two unique indexes know no deletion (`Taken`). A request that fails before it
has found or made its row leaves as little as a rejected one (`LookUpError`). The handlers
are split at their awaits, with these foldings: statements that write only columns nothing here reads (last login, online status, e-mail verified, the token
columns) go with the next one; the comparison of the password uses the row read before
and so goes with the read; an audit job of an attempt that fails anyway is left out,
the one at the end of a success is `Audit`, whose failure turns a success into an
error. The form of a password says whether it was hashed: `create` runs the entity
hook, `repository.update` runs none. Tokens reach their holder by the reply of register
and, for a reset, by a mail the code has yet to send (`auth.service.ts`, "TODO: Send email").
A password that itself looks like a bcrypt hash is not considered. `strained`,
`crossed` and `slipped` are histories of overlaps: of registrations with one another and
with profile updates that concern their name or e-mail, of logins, and of sign-ins and
refreshes with a revocation. `changePassword` has no action: it
compares with a password that `findById` does not select, fails, and changes nothing.

### RateLimit

`RedisStore` and the middleware `createCustomRateLimiter` on one key: `hits` and
`lapse` are the key and its expiry in Redis, and every command (`Increment`,
`Expire`, the TTL within `Decide`, `Decrement`) is an await of its own. An error in any
of the first three takes the fallback, which admits the request (`FallBack`). `life`
numbers the lives of the key, so that a request knows in which window it was counted
and in which it was taken off (`skipSuccessfulRequests` runs after the response and
may come a window late, where DECR makes a key at -1 that never expires). Roles have
the limits `dynamicRateLimiter` gives them and share the key. `lost` is a history: the
EXPIRE of this life failed. The option is a constant of the run; the dynamic limiter
leaves it out, other callers may set it. These limiters are exported and mounted on no
route; `resetKey` has no caller and no action.

### Routes and Server

`Routes` is the table of `routes/index.ts`, a record per route; it defines its own `:>` and
`@@`, so that the proofs can look into the table. `Server` runs requests
through it in a process with a life: `proc` is the await `App.start` is in, then
`open`, `closing` after a signal, `exited`. Redis clients become ready or fail each
by itself (`ClientReady`, `ClientFails`), and what follows the await of Redis runs to
`listen` in one go (`Finished`), a port in use being an uncaught exception. Code up to
an await is one action: a public request is counted by the general limiter and by its
own, validated and let in on arrival (`Arrive`, `Entered`), a private one after its
token is verified (`Authenticate`). The limiters of the library keep a counter per
window in memory (external; read off its memory store); `authRateLimiter` takes a
request off again when it was answered with success, in whatever window that is.
Connections stay open after an answer (`kept`) and still bring requests while the
server closes. `Held` says what `server.close` waits for: sockets, and connections
with a client. A handler whose client left is not waited for, and the drained exit
cuts it off, as it does the disconnect handlers of the sockets. A signal before `listen`
kills the process; one after a failed `listen` finds nothing to close and exits
with code 0. `App.shutdown` (`server.ts:212`), which would close the connections of
database, Redis and queues, is called by nobody: the signal handler leaves them to
the exit. `POST /refresh` is counted twice by the general limiter.

### Pagination, Records, Tasks, Workspace

`Pagination` has the arithmetic as operators (page 0 stands for null), with `PageArithmetic`
as its reference definition. `Records` has the row of one message and the list it is in. The three
read-change-write operations keep their copy in `job` between the two statements;
`tangled` is a history that names the columns some write of which used a copy that was
out of date, `asked` and `edits` are what the writes were to leave. `reader` is a client
that asks for page after page while the answer says hasNext: the page is selected
(`ReadPage`), then counted (`CountMessages`), and the answer uses the limit of the query
although `getChannelMessages` never passes it on (`business.controllers.ts:25`). Only
listing, sending and deleting have a route; the other operations of
`message.repository.ts` are modelled as the repository offers them.

`Tasks` has a row and a notification per task. Create is two statements, the status
route three, the statistics five. POST and PUT write any columns their bodies have (`Bodies`
are the rows that makes; ids are left out), PUT on a deleted row too, which it may bring
back; one that stays deleted is answered as null with status 200. The status route completes
a task that is done, and only a PUT takes that back. The statistics count a cancelled task as overdue, unlike
`findOverdueTasks` and `isOverdue`. `met` is a history: another request changed the
rows between two statements of this one. `Workspace` puts the two beside each other;
they share no row, so a behaviour is of the one or of the other.

## 3. Runs

All runs terminate with the whole state space explored, or with the first
counterexample for the runs that expect one.

| Run | Instance | Distinct states | Shows |
|---|---|---|---|
| `channels` | 2 users, 2 channels, 3 requests in any overlap | 165,000 | `TypeOK`, `CountLedger`, `FeedMatchesRoster`, `PrivateOnlyCreator`, `AbandonedStaysEmpty`, `ImplementsRoster` |
| `messaging` | 2 users, 1 channel, 2 sends with a repeated mention and a stranger's name, 2 deletes, 1 socket | 3,262,000 | `TypeOK`, `AnnouncedIsComplete`, `CountBounded`, `ViewConverges` |
| `messaging_live` | 2 users, 2 channels, 1 send, 1 delete, fairness | 172,000 | `OnlyEntitledPost`, `EveryRequestEnds` |
| `messaging_mentions` | 1 send, 2 sockets | | violates `MentionsNotified` |
| `presence` | 1 user with 2 sockets, 2 channels, logins, errors, restarts, fairness | 416,000 | `TypeOK`, `RoomsMatchRoster`, `ClosedHoldsNoRoom`, `PresenceFollowsSocket`, `ConnectSettles` |
| `sessions` | requests and a clock past every expiry | 490,000 | `TypeOK`, `LoggedOutRefused`, `KeyOutlivesToken`, `SignedOffHoldsNoKey` |
| `sessions_revoke_all` | the same kind of instance | | violates `AllTokensRevoked` |
| `accounts` | 2 rows, one of them registered, 2 e-mails, names and passwords, 3 requests, 4 bodies of a profile update, lock after 2 failures for 1 tick | 2,011,000 | `TypeOK`, `ConflictOnlyInRace`, `PendingVerifiable`, `FailureLocks`, `SessionsFollowPassword`, `SuspendedNotLetIn` |
| `accounts_reset` | 1 account, 2 requests | | violates `NewPasswordOpens` |
| `ratelimit` | 3 requests of roles with limits 1 and 2, windows of 2 ticks, 4 ticks, refunds | 437,000 | `TypeOK`, `AtMostLimit`, `CounterExpires`, `WindowFixed` |
| `server` | 3 requests to 3 routes by 4 callers, 1 socket, 2 Redis clients, both environments, fairness | 504,000 | `TypeOK`, `HandledOnlyIfReady`, `LimiterBounds`, `Settles` |
| `workspace` | 3 calls on a message of 2 users and a client on 3 messages in pages of 2; or 3 requests of 2 members about a task and what they create, with 12 bodies | 1,049,000 | `TypeOK`, `UpdatesStand`, `PagesCover`, `TasksAgree` |

**Bounds.** Each request (or socket) of a constant set is used once, so the sizes of
`Requests`, `Messages`, `Deletes` and `Sockets` bound a run; `MaxTime` bounds the
clock. Three overlapping requests are what a lost or doubled count needs (one to
create, two to collide); two channels separate the channels in `CountLedger` and in
`OnlyEntitledPost`; two deletes of one message are the collision of deletes; one
observing socket suffices for `ViewConverges`, which speaks of each socket by itself;
two sockets of one user are the least that share an is_online column, and a second user
would share nothing with the first; two channels make the join loop one that can be
interrupted half way; lifetimes of a few ticks put all the expiry boundaries in reach
of the clock. In `accounts` a second failure locks instead of a fifth, so that three
logins cover the failure before, the one that locks and the one after the lock has
expired; three requests are also a forgotten password, its reset and a login beside it,
and two racing registrations with a third for what they left. In `server` the limits are
1 for logins, with 2 windows, and 3 for all requests, with one: two logins in flight over
the end of a window are what a late refund needs; the three routes are a public one with a
limiter that refunds, one with authentication, guard and validators, and one counted twice;
two Redis clients stand for three because they differ only in being ready or not. In
`workspace` three messages and pages of two make a second page that is not full, limits of
1, 2 and 3 lie below, at and above the page size, and three calls are two that overlap with a
third after them; the bodies of tasks make a row overdue, done with or without completion,
or deleted, for each assignee.

**Symmetry** is declared in `channels`, `messaging`, `sessions`, `accounts`, `ratelimit` and `workspace`, which check safety
only (and an abstract specification without fairness): requests of one kind, in `workspace`
users, differ in nothing but their names there.

**Deadlock** is checked where a run ends by an explicit step (`AllServed` in
`Channels`). It is not checked for the others,
where a run may rightly stop when its requests and sockets are used up or the process has exited.

**Fairness.** `Messaging!Fairness` and `Presence!Fairness` ask weak fairness of the
steps of a started handler (Node resumes a handler whose statement was answered, the
database answers with a result or an error) and of the exit timer. `Server!Fairness` asks
it of the timers of the two exits and of the connections to Redis, which
the code bounds by ten seconds (`redis.config.ts:84`). Nothing is asked of clients,
arrivals, errors or restarts, nor in `Server` of handlers, which nothing bounds, of
migrations, and of the connection to the database: its timeout of five seconds
(`database.config.ts:25`) does not bound the queries `initialize` goes on with.

### What the violations show

1. `MentionsNotified`: the README promises "@mention system with real-time
   notifications"; a mention is only stored (`business.services.ts:33-47`), and the
   message goes to the sockets in the channel's room.
2. `AllTokensRevoked`: "Revoke all tokens for a user" deletes the refresh key only
   (`tokenmanager.util.ts:145-150`).
3. `NewPasswordOpens`: a password reset stores the text it was given
   (`user.repository.ts:94`), which no login matches; the hook that would hash it
   (`user.model.ts:147-153`) does not run for `repository.update`.

### What the passing properties leave room for

Some properties are stated with the exception the code needs, so that the run that
passes also says how far the code may be trusted:

- `CountLedger`: leaving a channel one is not in takes one off member_count
  (`channel.repository.ts:150-159`), and a failed counter statement is never made up for.
  The column is exactly the table plus these; it is the table only without them.
- `FeedMatchesRoster`: member events of one user's overlapping requests, or of one that
  failed after its row was written, may leave clients with the wrong idea.
- `ViewConverges`: a message deleted while it is being sent stays on the clients, which
  are told to remove it before they are told of it (`business.services.ts:25`, `:72`). A
  message sent by socket is broadcast twice
  (`business.services.ts:53`, `socket.handler.ts:87`). A client that keys messages by id,
  as the property's does, is not troubled; one that appends shows it twice.
- `PresenceFollowsSocket`: a socket that closes during its set-up may be announced
  offline and then online (`socket.handler.ts:56`); closing one of two tabs marks a user
  who is still connected as offline (`:68`); and a login or logout writes the column without
  an event.
- `SignedOffHoldsNoKey`: a refresh that has compared its token when the key is deleted
  stores a new key (`tokenmanager.util.ts:74-86`), and the session survives the logout.
- `FailureLocks`: logins that overlap all decide by the count they read, so more than five
  may fail before the lock (`auth.service.ts:141`); and since an expired lock leaves the
  count, one wrong password locks again. An owner's profile update can write the count and
  the lock (`user.service.ts:15`).
- `PendingVerifiable`: a registration that fails after its row was written leaves an
  account nobody can verify and whose names are taken.
- `ConflictOnlyInRace`: a lost race for a name, also with a profile update, is answered as
  an internal error; so is a registration with the e-mail or name of a row that is removed,
  which the checks do not see.
- `SessionsFollowPassword`, `SuspendedNotLetIn`: a login half done when the sessions are
  revoked, or the user is suspended, still gets its session, and a refresh past its
  comparison at the revocation puts its session back (`tokenmanager.util.ts:76-86`).

- `AtMostLimit`, `CounterExpires`, `WindowFixed`: a refund adds one to the window it falls
  into, may leave a counter without an expiry (`ratelimit.middleware.ts:58`), and makes a
  later request number 1 again, whose EXPIRE prolongs the window, or the one after it.
- `LimiterBounds`: a slow login that succeeds buys a further failed one in the window it
  ends in (`ratelimit.middleware.ts:141`). The counters are of one process life. Of the
  general limiter the property counts only the requests of `POST /api/auth/refresh`, whose
  route names it again, not all of `/api`.
- `Settles`: the connection to the database or a migration may hang, and the start with it.
- `UpdatesStand`: concurrent reactions, or edits, of one message lose one another's update
  (`message.repository.ts:294`, `:233`).
- `PagesCover`: a client that asks for more than the 50 messages of a page is told hasNext
  too rarely and misses messages; a deletion during the reading moves messages to a page
  already read.
- `TasksAgree`: answers and counts may mix moments when requests overlap, and a task whose
  notification failed is stored though the request failed. A done task need not be complete:
  a PUT sets done without completion, or takes `completedAt` back
  (`business.controllers.ts:152-156`). Only the answer of the status route is held to it.

## 4. Proofs

All theorems hold for every value of the constants that satisfies the module's
named assumption. The assumptions say of what kind the constants are (counts are
natural numbers, sets of requests that are counted are finite, the value for "nobody"
is not a user, what a run inputs is not an empty set), that an instance starts from rows
the database can hold (`AccountsAssumption`), that bodies make rows of the task table
(`BodiesAssumption`), and the two relations of lifetimes
named under Sessions. Nothing is assumed of the order of steps or of failures.

Every invariant and action property of the runs is proved. Each proof goes by an
inductive invariant, which TLC also finds invariant on the instance of section 3 (in
`RateLimitProofs` with a bound for the n of `Shares`); what that invariant adds to the properties is told here.

- **Channels.** `IInv` adds to `TypeOK` three facts about every request: what its
  control location says about its fields (`StageOK`); that a handler about to insert
  has seen the channel exist and is its creator's, or has seen it not private
  (`InsertOK`), which stays true while it is suspended because the type of a channel
  never changes; and that a channel was created by one request only (`CreatedOK`).
  `TypeCorrect` follows. `LedgerCorrect` has one lemma per statement that moves a row or
  a count (`InsertKeepsBalance`, ...), each from the cardinality lemmas about how
  the sets `Rows` gain or lose one request. `RefinesRoster` has one lemma per
  action on the step it maps to: SaveChannel is Create; InsertMember is AddCreator
  or Join, or LoseCreator when the key is violated; DeleteMember is Leave; an error in
  the window is LoseCreator; all else stutters. `CreatedOK` is what makes `awaiting`
  fall exactly when the one creator request moves on.
  `PrivateSafe` and `AbandonedSafe` rest on `IInv` and on what every step may do to the
  rows (`MembersShape`, `ColumnsStay`): the one statement that adds a member is
  `InsertMember`, and `InsertOK` says whom it may add to a private channel, the creator,
  and when, while the channel still waits for him, so that it is not abandoned yet.
  `FeedCorrect` is about the last event a client heard, which says nothing while a request
  is between its statement and its event. `FeedInv` therefore follows the requests of a
  user about a channel, as long as they are `Calm`: each says what it knows (`KnowsOK`: a
  join that has inserted has its member in the table until it emits, a leave has not), and
  the last event agrees with the table when none of them is `Pending`. Two of them cannot be
  pending at once because of two running requests of a user the later has noted the
  other (`OverlapsOK`). A create emits nothing, so nothing was ever heard of its creator
  before (`SilentOK`).
- **Sessions.** The argument is about time. `KeyOK` and `BlacklistOK` say that a key is
  set, and a token blacklisted, no earlier than the token was signed, so with the
  assumptions on the lifetimes the Redis entry outlives the token. `StaleOK` carries that
  through a request's two checks: one that came with a logged-out token gets past
  the blacklist only if the token has expired by then (and it stays expired, time being
  monotonic) or Redis could not answer. `LogoutIsFinal` and `RefreshKeyLasts` follow.
  `SignOffHolds` is proved on top of `IInv` with the invariant `OffOK`: after a clean sign-off
  there is no key and no request past the comparison of its refresh token, and without a
  key no request gets past it.

- **RateLimit.** `TypeOK` is inductive as it stands. The limit is not: it speaks of the
  requests that were let through, and a request is let through some steps after INCR gave
  it its number. `Shares` counts the numbers instead: for every n, the requests of this
  life with a number up to n are at most n and one more for every refund. It is kept
  because a new number is one above what is counted less what was refunded (`Balance`), and
  with n the limit of a role it gives `LimitHolds`, since `StageOK` says that whoever was
  let through has a number within its limit. `ExpiryHolds` needs the type
  invariant (a key that is gone counts 0, so the next request is number 1 and sets
  the expiry). `WindowHolds` rests on `Opening`: without refunds a request waiting
  for its EXPIRE is alone, and the key has no expiry until it comes, so that none comes
  later.

- **Messaging.** A send is followed from stage to stage. `RowsOK` says at which stages its
  row is there and how many names of its text are handled, `MentionsOK` that exactly those
  names have left their mention rows, `ChannelRowOK` that count and stamp are behind it;
  at the event all of it is there (`AnnouncedComplete`). The lemmas on `UsersAmong`
  are what one turn of the mention loop needs (`RecordNext`). `CountCorrect` keeps two
  bounds, the sends counted for certain (`Counted`) and, because a failed send may
  have failed before or after its increment, those that may have been (`MaybeCounted`).
  `PostsEntitled` needs that a send past its check is entitled already, whatever
  membership does later (`EntitledOK`). `ViewsConverge` rests on `ViewOK`: what a client
  that missed nothing does not show is deleted, and a deleted message it still shows was
  overtaken or has a delete about to announce it. For the step that sends message:new this
  takes `OvertakenOK`: a message deleted before that has its message:deleted behind it, and
  then is overtaken, or still before it. Any number of deletes of one message may overlap
  with each other and with its send.
- **Presence.** `RoomsCorrect` is not inductive: a socket in set-up is in no room yet.
  `RoomsOK` says of every stage what the rooms and the rest of the list make up together,
  except for channels `disturbed` since they were read. `ShapeOK` fits connection
  and handlers together, so that a join after the close finds the connection closed
  (`ClosedInNoRoom`). `PresenceCorrect` goes by `PresenceOK`: outside `tangled` one socket
  of a user at most has a handler or a connection, the column and the broadcast are
  what that socket's stage says (`PhaseOK`), and without such a socket they say offline.
  A handler that died leaves them half done, which `Sound` sets aside, as `Quiet` does in
  the property.
- **Accounts.** `IInv` has a part per property and `ShapeOK`, which says what a request
  holds at each stage and that its row is there. `RegisterOK`: what a registration read
  stays so unless another one, or a profile update that concerns its name or e-mail,
  overlaps it, and two that overlap have both noted it.
  `PendingOK`: a row belongs to the one registration that made it, whose token is in the key until
  a verification has written the status. `LoginOK`: the logins of an account that is
  not strained follow one another, so the count a login read is the row's, and a count at the
  limit has its lock unless the login that counted it is about to set it. `SuspendOK`:
  a sign-in past the look at a status that is now suspended has slipped. `SessionOK`: of the
  session, and of every sign-in or refresh under way, the password is the account's, unless
  a reset is between its statement and its revocation or has failed there; `RenewOK`: only
  sessions whose client has its tokens are refreshed. A step
  is described once for all parts by what it does to its request (`Moved`, `Dropped`,
  `Placed`) and to its row (`OneRow`); each part then has a lemma on such steps.
- **Server.** `ReadyOK` says what is up at each await of the start, and that nothing runs
  before its end. `HandledReady` adds `PathOK`, what the stage of a request says of its token and
  guard. `GuardedTable` is proved over the table of all routes (no route without
  authentication has a guard), `AdminRank` over the role hierarchy. `LimitersBound` compares
  sets: the requests of a window that were let through and not taken off (`Let`, `Back`)
  are at most the counter and the refunds of other windows (`CountOK`); a request let
  through found the counter within the max, and a success that is not yet taken off is
  not charged.
- **Workspace.** Its parts share no variable, so that its invariant is the conjunction of two, and a step
  of one part leaves the other as it is. For `Records`, a copy that is out of date
  still counts its own users (`CopyOK`), so `UpdatesStand` survives the overlapping writes;
  the columns of a call nothing crossed are what was asked for (`RowOK`, `EditsOK`). A reader is
  followed by ranks (`ReaderOK`): a message that was there and has not been seen is still
  there and has a rank, counted from the newest, beyond the pages selected so far. A message
  that is sent only raises ranks; at the end there is nothing beyond the last page, since the
  answer's hasNext reckons with a limit no larger than the page. The lemmas on pages
  (`PagesReach`, `PagesHold`, `PageRange`) hold for all totals, pages and limits, while
  the reference definition `PageArithmetic` that TLC evaluates is about small ones. For
  `Tasks`, `OrderOK` says what a request remembers of the rows and that it is so until
  another request changes one: of a change of status, that its task is there and has
  the status it wrote, with the completion of a done task; of the statistics, that each count made so far is the count of the
  rows. `CountsFit` then makes the counts add up.

### Only model-checked

The liveness properties `EveryRequestEnds`, `ConnectSettles` and `Settles` are checked by TLC
and not proved: liveness under fairness needs ENABLED, which is out of the prover's reach. The
three violations are TLC's too. What recursive functions or folds compute is stated of no
theorem: where the models count, they count sets, and the cardinality lemmas are the library's.

## 5. Plan

| Order | Work | Aim |
|---|---|---|
| 1 | done: `Roster`, `Channels`, proofs, the member events included | membership, the base of everything |
| 2 | done: `Messaging`, proofs | the main operation; an abstract message feed it implements is to follow |
| 3 | done: `Presence`, proofs | sockets |
| 4 | done: `Sessions`, proofs | tokens |
| 5 | done: `RateLimit`, proofs | counters that expire, INCR/EXPIRE and DECR races |
| 6 | done: `Accounts`, proofs | registration, lockout, temporary tokens, status |
| 7 | done: `Pagination`, `Records`, `Tasks`, `Workspace`, proofs | lost updates on columns saved whole, pages against deletions, counts against rows |
| 8 | done: `Routes`, `Server`, proofs | start-up, middleware chain, limiters in memory, shutdown |
| 9 | `SocketAuth` | handshake against logout |
| 10 | `ChatServer` | composition of membership, rooms and messages: who hears what after a leave or a logout |

## 6. Not modelled

- Validation of texts (`utils/validation.util.ts`, the chains of `validators/index.ts`):
  regular expressions over strings; a request is valid or not, and what `extractMentions`
  returns is an input.
- Logging and API metrics: output only. Configuration: constants read at start, the ones
  that matter being CONSTANTS here.
- Date, file upload, encryption and attachment helpers: formatting and file handling
  without state that handlers share; hashing appears in `Accounts` as the form of a
  password.
- Read-only queries (searches, lists, statistics of users and channels): they have no effect,
  and except for paging and the task statistics nothing is promised of them that takes
  more than one statement.
- Code nobody calls, apart from the Redis limiter and the message operations: the other
  guards, `App.shutdown`, progress and checklist methods of tasks, archiving,
  `hardDelete`, `restore`.
- Job queues beyond their set-up and the statement that adds an audit job: no processor
  is registered, so jobs wait in Redis (`queue.config.ts:155`) and decide nothing.
- Reconnecting to Redis, the database pool and the transport of sockets are the libraries'.
