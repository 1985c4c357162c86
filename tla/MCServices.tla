----------------------------- MODULE MCServices -----------------------------
(****************************************************************************)
(* Event groups, software timers, stream buffers, mutexes and the Suspended *)
(* state of tasks, for TLC in one run.  In each behaviour one of them is    *)
(* used, and the others stay as they begin.                                 *)
(****************************************************************************)
EXTENDS EventGroups, Timers, StreamBuffer, Mutex, TaskSuspension

CONSTANTS
  t1, t2, t3, A, B, X, Y,  \* tasks, and bits of EventGroups
  M, R                     \* mutexes

VARIABLE used  \* the name of the module that is used

eventVars == vars

\* Tasks t1 and t2 meet with a bit each, for ever or with a time limit; a third task
\* and the interrupts set and clear two other bits, for which t1 waits for all
\* and t2 for any, clearing them or not.
Sync(bit, block) == Call("sync", {bit}, {A, B}, TRUE, TRUE, block)
Set(bits) == Call("set", bits, {}, FALSE, FALSE, "no")
Clear(bits) == Call("clear", bits, {}, FALSE, FALSE, "no")
Meeting(t) ==
  CASE t = t1 -> {Sync(A, "forever"), Sync(A, "timed"),
                 Call("wait", {}, {X, Y}, TRUE, TRUE, "timed"),
                 Call("wait", {}, {X}, TRUE, FALSE, "no")}
    [] t = t2 -> {Sync(B, "timed"), Sync(B, "no"),
                 Call("wait", {}, {X, Y}, FALSE, TRUE, "forever"),
                 Call("wait", {}, {Y}, FALSE, FALSE, "timed")}
    [] t = t3 -> {Set({X}), Set({Y}), Clear({X, Y}),
                 Call("delete", {}, {}, FALSE, FALSE, "no"),
                 Call("wait", {}, {A, X}, TRUE, FALSE, "timed")}
MeetingCalls == [t \in Tasks |-> Meeting(t)]
SetOrClear == {Set({X, Y}), Clear({X})}

\* Three tasks of ascending priority.  A task may wait for one mutex while it holds
\* the other, but only when it waits alone is it lent a priority meanwhile: the
\* lists of waiting tasks stay in order.
Ascending == [t \in AllTasks |->
  CASE t = Idle -> 0 [] t = t1 -> 1 [] t = t2 -> 2 [] t = t3 -> 3]
Taking == [t \in Tasks |->
  CASE t = t1 -> {TakeCall(M, "no"), TakeCall(R, "no")}
    [] t = t2 -> {TakeCall(M, "forever"), TakeCall(R, "no")}
    [] t = t3 -> {TakeCall(M, "timed"), TakeCall(R, "timed")}]

ServicesInit ==
  /\ used \in {"EventGroups", "Timers", "StreamBuffer", "Mutex", "TaskSuspension"}
  /\ Init /\ TimerInit /\ StreamInit /\ MutexInit /\ SuspensionInit
  /\ used # "StreamBuffer" => ~sb.isMessageBuffer

ServicesNext ==
  \/ /\ used = "EventGroups" /\ Next
     /\ UNCHANGED <<used, timerVars, streamVars, mutexVars, suspensionVars>>
  \/ /\ used = "Timers" /\ TimerNext
     /\ UNCHANGED <<used, eventVars, streamVars, mutexVars, suspensionVars>>
  \/ /\ used = "StreamBuffer" /\ StreamNext
     /\ UNCHANGED <<used, eventVars, timerVars, mutexVars, suspensionVars>>
  \/ /\ used = "Mutex" /\ MutexNext
     /\ UNCHANGED <<used, eventVars, timerVars, streamVars, suspensionVars>>
  \/ /\ used = "TaskSuspension" /\ SuspensionNext
     /\ UNCHANGED <<used, eventVars, timerVars, streamVars, mutexVars>>

ServicesSpec ==
  ServicesInit /\ [][ServicesNext]_<<used, eventVars, timerVars, streamVars,
                                     mutexVars, suspensionVars>>
=============================================================================
