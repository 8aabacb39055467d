---------------------------- MODULE MCWorkspace -----------------------------
\* Instances of Workspace for TLC.
EXTENDS Workspace

\* The users who react and the members who have tasks are the same people.
Symmetry == Permutations(Users)

\* Rows to write: to do and overdue, done with and without completion, and deleted.
SomeRows ==
    [state: {"live"}, status: {"todo"}, completed: {FALSE}, late: {TRUE},
     assignee: Members \union {Nobody}]
    \union [state: {"live"}, status: {"done"}, completed: BOOLEAN, late: {FALSE},
            assignee: Members \union {Nobody}]
    \union [state: {"deleted"}, status: {"todo"}, completed: {FALSE}, late: {FALSE},
            assignee: Members \union {Nobody}]
=============================================================================
