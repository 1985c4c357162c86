------------------------------ MODULE AppTasks ------------------------------
(* The tasks that make the calls of the kernel's services.                 *)
CONSTANTS
  Tasks,  \* the application's tasks
  Idle    \* the idle task, which never blocks

ASSUME IdleAssumption == Idle \notin Tasks
=============================================================================
