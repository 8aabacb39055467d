------------------------------- MODULE Tasks --------------------------------
(***************************************************************************)
(* Tasks and the notifications about them: TaskService and                 *)
(* NotificationService of business.services.ts over task.repository.ts and *)
(* notification.repository.ts, with the PUT and DELETE of a task, which    *)
(* the controller sends straight to the repository.                        *)
(*                                                                         *)
(* Task 0 is there at the start, overdue; another one has the number of    *)
(* the request that creates it, and so has its notification.  Nothing      *)
(* tells a client of a new notification.                                   *)
(***************************************************************************)
EXTENDS Integers, FiniteSets

CONSTANTS
    Members,    \* the users who send requests and are assigned tasks
    Nobody,     \* no assignee
    Statuses,   \* the task statuses of a run
    Bodies,     \* the rows that the bodies of a run make
    MaxOrders   \* requests in a run, numbered as they come

ASSUME TasksAssumption ==
    /\ Nobody \notin Members
    /\ {"todo", "done"} \subseteq Statuses
    /\ Statuses \subseteq {"todo", "in_progress", "in_review", "done", "cancelled"}
    /\ MaxOrders \in Nat

VARIABLES
    task,       \* task[t]: the row
    notice,     \* notice[t]: the notification about t
    order       \* order[o]: how far a request has come

taskVars == <<task, notice, order>>

Orders == 1..MaxOrders
TaskIds == 0..MaxOrders
Verbs == {"create", "patch", "put", "statistics", "read", "other"}

\* completed: completed_at is set and progress_percentage is 100; late: the due date has
\* passed when the statistics ask.
Task == [state: {"none", "live", "deleted"}, status: Statuses, completed: BOOLEAN,
         late: BOOLEAN, assignee: Members \union {Nobody}]

\* A POST or a PUT writes the columns of its body as they come, deleted_at among them; only
\* a POST has its status checked.  Bodies says what the row is then.  No body has an id.
ASSUME BodiesAssumption == Bodies \subseteq {row \in Task : row.state # "none"}

Notice == [state: {"none", "unread", "read", "removed"}, user: Members \union {Nobody}]

\* answer, complete: the status in the answer of a patch, or null, and whether the row that is
\* answered is complete; met: a statement of another request
\* has changed the row it is about, or the rows it counts, since its own first one.
Order == [at: {"idle", "notifying", "updating", "fetching", "marking", "count todo",
               "count in_progress", "count done", "count overdue", "done", "failed"},
          verb: Verbs, user: Members \union {Nobody}, target: TaskIds, status: Statuses,
          assignee: Members \union {Nobody}, answer: Statuses \union {"none", "null"},
          complete: BOOLEAN,
          counts: [{"total", "todo", "in_progress", "done", "overdue"} -> Nat],
          met: BOOLEAN]

TasksTypeOK ==
    /\ task \in [TaskIds -> Task]
    /\ notice \in [TaskIds -> Notice]
    /\ order \in [Orders -> Order]

NoTask == [state |-> "none", status |-> "todo", completed |-> FALSE, late |-> FALSE,
           assignee |-> Nobody]
NoCounts == [total |-> 0, todo |-> 0, in_progress |-> 0, done |-> 0, overdue |-> 0]
NoOrder(at) == [at |-> at, verb |-> "other", user |-> Nobody, target |-> 0,
                status |-> "todo", assignee |-> Nobody, answer |-> "none",
                complete |-> FALSE, counts |-> NoCounts, met |-> FALSE]

TasksInit ==
    /\ \E member \in Members :
         task = [t \in TaskIds |->
                   IF t = 0 THEN [NoTask EXCEPT !.state = "live", !.assignee = member,
                                                !.late = TRUE]
                   ELSE NoTask]
    /\ notice = [t \in TaskIds |-> [state |-> "none", user |-> Nobody]]
    /\ order = [o \in Orders |-> NoOrder("idle")]

PutOrder(o, q) == order' = [order EXCEPT ![o] = q]

\* A request comes: its first statement runs.
Asked(o) == order[o].at = "idle" /\ \A p \in 1 .. o - 1 : order[p].at # "idle"

\* Requests that a change of task t meets.
Meets(o, t) ==
    /\ order[o].at \notin {"idle", "done", "failed"}
    /\ order[o].verb = "statistics" \/ (order[o].verb = "patch" /\ order[o].target = t)

\* The next state of the requests when o, which goes on as q, has changed task t.
PutChange(o, q, t) ==
    order' = [p \in Orders |-> IF p = o THEN q
                               ELSE [order[p] EXCEPT !.met = @ \/ Meets(p, t)]]
-----------------------------------------------------------------------------
\* createTask: the row, as the body has it; then the notification, for somebody else.
SaveTask(o, user, body) ==
    /\ Asked(o)
    /\ task' = [task EXCEPT ![o] = body]
    /\ PutChange(o, [NoOrder("done") EXCEPT
                       !.at = IF body.assignee \in {Nobody, user} THEN "done" ELSE "notifying",
                       !.verb = "create", !.user = user, !.target = o,
                       !.assignee = body.assignee], o)
    /\ UNCHANGED notice

CreateNotification(o) ==
    /\ order[o].at = "notifying"
    /\ notice' = [notice EXCEPT ![o] = [state |-> "unread", user |-> order[o].assignee]]
    /\ PutOrder(o, [order[o] EXCEPT !.at = "done"])
    /\ UNCHANGED task

\* updateTaskStatus of the service: find, update, find again.
FindTask(o, t, status) ==
    /\ Asked(o)
    /\ PutOrder(o, IF task[t].state = "live"
                   THEN [NoOrder("updating") EXCEPT !.verb = "patch", !.target = t,
                                                    !.status = status]
                   ELSE NoOrder("failed"))
    /\ UNCHANGED <<task, notice>>

\* Fault: the completion is not written.
UpdateTaskStatusOnly(o) ==
    /\ order[o].at = "updating"
    /\ task' = [task EXCEPT ![order[o].target] = [task[order[o].target] EXCEPT
                  !.status = order[o].status]]
    /\ PutChange(o, [order[o] EXCEPT !.at = "fetching"], order[o].target)
    /\ UNCHANGED notice

\* updateTaskStatus of the repository: done completes the task, another status takes
\* nothing back.
UpdateTaskStatus(o) ==
    /\ order[o].at = "updating"
    /\ task' = [task EXCEPT ![order[o].target] = [task[order[o].target] EXCEPT
                  !.status = order[o].status,
                  !.completed = @ \/ order[o].status = "done"]]
    /\ PutChange(o, [order[o] EXCEPT !.at = "fetching"], order[o].target)
    /\ UNCHANGED notice

\* PUT: update of the base repository, with the body as it comes, on any row: it may take
\* completion back, delete a task or bring it back.  A new assignee is told nothing.
UpdateTask(o, t, body) ==
    /\ Asked(o)
    /\ IF task[t].state = "none" THEN UNCHANGED task ELSE task' = [task EXCEPT ![t] = body]
    /\ PutChange(o, [NoOrder("fetching") EXCEPT !.verb = "put", !.target = t], t)
    /\ UNCHANGED notice

\* The row that is answered, or null, with status 200 all the same.
FetchTask(o) ==
    /\ order[o].at = "fetching"
    /\ LET found == task[order[o].target]
       IN  PutOrder(o, IF order[o].verb = "put" THEN NoOrder("done")
                       ELSE [order[o] EXCEPT
                               !.at = "done",
                               !.answer = IF found.state = "live" THEN found.status
                                          ELSE "null",
                               !.complete = found.state = "live" /\ found.completed])
    /\ UNCHANGED <<task, notice>>

DeleteTask(o, t) ==
    /\ Asked(o)
    /\ task' = [task EXCEPT ![t].state = IF @ = "live" THEN "deleted" ELSE @]
    /\ PutChange(o, NoOrder("done"), t)
    /\ UNCHANGED notice
-----------------------------------------------------------------------------
(* getTaskStatistics: five counts, one after the other *)

Mine(user) == {t \in TaskIds : task[t].state = "live" /\ task[t].assignee = user}

Counted(user, what) ==
    CASE what = "total" -> Mine(user)
      [] what = "overdue" -> {t \in Mine(user) : task[t].late /\ task[t].status # "done"}
      [] OTHER -> {t \in Mine(user) : task[t].status = what}

CountTotal(o, user) ==
    /\ Asked(o)
    /\ PutOrder(o, [NoOrder("count todo") EXCEPT
                      !.verb = "statistics", !.user = user,
                      !.counts["total"] = Cardinality(Counted(user, "total"))])
    /\ UNCHANGED <<task, notice>>

CountNext(o, at, what, next) ==
    /\ order[o].at = at
    /\ PutOrder(o, [order[o] EXCEPT
                      !.at = next,
                      !.counts[what] = Cardinality(Counted(order[o].user, what))])
    /\ UNCHANGED <<task, notice>>

CountTasks(o) ==
    \/ CountNext(o, "count todo", "todo", "count in_progress")
    \/ CountNext(o, "count in_progress", "in_progress", "count done")
    \/ CountNext(o, "count done", "done", "count overdue")
    \/ CountNext(o, "count overdue", "overdue", "done")
-----------------------------------------------------------------------------
(* Notifications *)

\* markAsRead: find and compare the user, then update and emit.
FindNotification(o, t, user) ==
    /\ Asked(o)
    /\ PutOrder(o, IF notice[t].state \in {"unread", "read"} /\ notice[t].user = user
                   THEN [NoOrder("marking") EXCEPT !.verb = "read", !.target = t]
                   ELSE NoOrder("failed"))
    /\ UNCHANGED <<task, notice>>

MarkAsRead(o) ==
    /\ order[o].at = "marking"
    /\ notice' = [notice EXCEPT ![order[o].target].state =
                    IF @ = "removed" THEN @ ELSE "read"]
    /\ PutOrder(o, NoOrder("done"))
    /\ UNCHANGED task

MarkAllAsRead(o, user) ==
    /\ Asked(o)
    /\ notice' = [t \in TaskIds |->
                    IF notice[t].user = user /\ notice[t].state = "unread"
                    THEN [notice[t] EXCEPT !.state = "read"] ELSE notice[t]]
    /\ PutOrder(o, NoOrder("done"))
    /\ UNCHANGED task

\* Read notifications older than a date.
DeleteOldNotifications(o, old) ==
    /\ Asked(o)
    /\ \A t \in old : notice[t].state = "read"
    /\ notice' = [t \in TaskIds |-> IF t \in old
                                    THEN [notice[t] EXCEPT !.state = "removed"]
                                    ELSE notice[t]]
    /\ PutOrder(o, NoOrder("done"))
    /\ UNCHANGED task

\* Any statement may fail.  A task that is stored stays without its notification.
OrderError(o) ==
    /\ order[o].at \notin {"idle", "done", "failed"}
    /\ PutOrder(o, NoOrder("failed"))
    /\ UNCHANGED <<task, notice>>
-----------------------------------------------------------------------------
TasksNext ==
    \E o \in Orders :
      \/ \E user \in Members :
           \/ \E body \in Bodies : SaveTask(o, user, body)
           \/ \E t \in TaskIds : FindNotification(o, t, user)
           \/ CountTotal(o, user) \/ MarkAllAsRead(o, user)
      \/ \E t \in TaskIds :
           \/ \E status \in Statuses : FindTask(o, t, status)
           \/ \E body \in Bodies : UpdateTask(o, t, body)
           \/ DeleteTask(o, t)
      \/ \E old \in SUBSET TaskIds : DeleteOldNotifications(o, old)
      \/ CreateNotification(o) \/ UpdateTaskStatus(o) \/ FetchTask(o) \/ CountTasks(o)
      \/ MarkAsRead(o) \/ OrderError(o)

Finished(o) == order[o].at = "done"

\* The answer of a change of status shows the new status, and a done task complete.
AnswersTold ==
    \A o \in Orders :
      (Finished(o) /\ order[o].verb = "patch" /\ ~order[o].met)
        => /\ order[o].answer = order[o].status
           /\ order[o].status = "done" => order[o].complete

\* A creation that succeeded has notified the assignee, and no notification is about a
\* task that was not stored.
AssigneeNotified ==
    /\ \A o \in Orders :
         (/\ Finished(o) /\ order[o].verb = "create"
          /\ order[o].assignee \notin {Nobody, order[o].user})
           => notice[o].state # "none" /\ notice[o].user = order[o].assignee
    /\ \A t \in TaskIds : notice[t].state # "none" => task[t].state # "none"

\* The counts fit together.
StatisticsAddUp ==
    \A o \in Orders :
      (Finished(o) /\ order[o].verb = "statistics" /\ ~order[o].met)
        => LET n == order[o].counts
           IN  /\ n["todo"] + n["in_progress"] + n["done"] <= n["total"]
               /\ n["overdue"] + n["done"] <= n["total"]

(***************************************************************************)
(* What the requests about tasks tell and leave behind: the answer to a    *)
(* change of status shows it, with the completion that goes with done, and *)
(* the counts of the statistics fit together, unless another request       *)
(* changed the rows between two of the statements, whatever a PUT writes   *)
(* before or after; a created task has told its assignee (createTask,      *)
(* updateTaskStatus, getTaskStatistics).                                   *)
(***************************************************************************)
TasksAgree == AnswersTold /\ AssigneeNotified /\ StatisticsAddUp
=============================================================================
