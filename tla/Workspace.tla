----------------------------- MODULE Workspace ------------------------------
(***************************************************************************)
(* The rows that requests read, change and read again: stored messages     *)
(* (Records), and tasks with their notifications (Tasks).  The two share   *)
(* no row and no event, so a run is about one of them, chosen by its first *)
(* request.                                                                *)
(***************************************************************************)
EXTENDS Records, Tasks

vars == <<recordVars, taskVars>>

TypeOK == RecordsTypeOK /\ TasksTypeOK

Init == RecordsInit /\ TasksInit

Next ==
    \/ /\ \A o \in Orders : order[o].at = "idle"
       /\ RecordsNext
       /\ UNCHANGED taskVars
    \/ /\ \A j \in Jobs : job[j].at = "idle"
       /\ \A c \in Readers : reader[c].at = "idle"
       /\ TasksNext
       /\ UNCHANGED recordVars

Spec == Init /\ [][Next]_vars
=============================================================================
