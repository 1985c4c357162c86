------------------------------- MODULE MCMutex -------------------------------
(* Mutexes for TLC: tasks e to h of priorities 0 to 3, of which f waits for   *)
(* one mutex with another one in its hands.                                   *)
EXTENDS Mutex

CONSTANTS e, f, g, h, M, R

Base == [t \in AllTasks |->
  CASE t = Idle -> 0 [] t = e -> 0 [] t = f -> 1 [] t = g -> 2 [] t = h -> 3]

Nested == [t \in Tasks |->
  CASE t = e -> {TakeCall(M, "no")}
    [] t = f -> {TakeCall(R, "no"), TakeCall(M, "forever")}
    [] t = g -> {TakeCall(M, "forever")}
    [] t = h -> {TakeCall(R, "timed"), TakeCall(M, "timed")}]

\* Each takes both, and gives up after a time.
Timed == [t \in Tasks |-> {TakeCall(M, "timed"), TakeCall(R, "timed")}]
=============================================================================
