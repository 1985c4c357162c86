--------------------------- MODULE MCDelayedTasks ---------------------------
(* Three tasks and a tick count of two bits: delays cross the wrap, two     *)
(* tasks share a wake time while the third is pending.                      *)
EXTENDS DelayedTasks

CONSTANTS t1, t2, t3

=============================================================================
