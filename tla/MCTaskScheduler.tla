--------------------------- MODULE MCTaskScheduler ---------------------------
(* TaskScheduler for TLC. *)
EXTENDS TaskScheduler

CONSTANT Urgent   \* the tasks of priority 0; the others have priority 1

TwoPriorities == [t \in Tasks |-> IF t \in Urgent THEN 0 ELSE 1]
=============================================================================
