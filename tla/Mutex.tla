-------------------------------- MODULE Mutex --------------------------------
(***************************************************************************)
(* Mutexes with priority inheritance: xQueueSemaphoreTake and the giving   *)
(* of a mutex in FreeRTOS/Source/queue.c, plain and recursive, and the     *)
(* functions of tasks.c that lend a priority to the holder of a mutex and  *)
(* take it back.                                                           *)
(*                                                                         *)
(* A step is a section of the code with the scheduler suspended or         *)
(* interrupts masked.  The task with the highest priority that is ready    *)
(* runs; the tick wakes tasks between any two steps.  A mutex is its       *)
(* holder: interrupts neither take nor give one.                           *)
(***************************************************************************)
EXTENDS AppTasks, KernelLists, FiniteSetsExt

CONSTANTS
  NoTask,                \* NULL
  Mutexes,
  RecursiveMutexes,
  uxBasePriority,        \* [task -> priority]
  TakeCalls,             \* [task -> the calls the task makes to take a mutex]
  MaxRecursion           \* bound: how often a task takes a mutex it holds

\* block is "no", "timed" or "forever": xTicksToWait is 0, a number of ticks, or
\* portMAX_DELAY.
TakeCall(mutex, block) == [mutex |-> mutex, block |-> block]

AllTasks == Tasks \cup {Idle}
Priorities == {uxBasePriority[t] : t \in AllTasks}

ASSUME MutexAssumption ==
  /\ NoTask \notin AllTasks /\ uxBasePriority[Idle] = 0
  /\ uxBasePriority \in [AllTasks -> 0 .. 31]  \* the bits of uxTopReadyPriority
  /\ IsFiniteSet(Mutexes) /\ RecursiveMutexes \subseteq Mutexes /\ MaxRecursion \in Nat
  /\ TakeCalls \in [Tasks -> SUBSET [mutex : Mutexes, block : {"no", "timed", "forever"}]]

VARIABLES
  k,      \* the scheduler and the fields of the tasks, a record
  mutex,  \* [mutex -> holder, count of recursive calls, tasks that wait]
  taker   \* [task -> where it is in a call]

mutexVars == <<k, mutex, taker>>

\* Of the time a call may take there is some "left", or it is "over", or it was
\* seen to be over, and xTicksToWait is "zero".
NotTaking == [pc |-> "app", call |-> TakeCall("none", "no"), inherited |-> FALSE, time |-> "left"]

\* eventPriority is the value of xEventListItem, from which configMAX_PRIORITIES
\* has been taken away.
MutexInit ==
  /\ k = [pxCurrentTCB |-> CHOOSE t \in AllTasks : uxBasePriority[t] = Max(Priorities),
          ready |-> [p \in Priorities |-> {t \in AllTasks : uxBasePriority[t] = p}],
          uxTopReadyPriority |-> Priorities,
          uxPriority |-> uxBasePriority,
          eventPriority |-> uxBasePriority,
          uxMutexesHeld |-> [t \in Tasks |-> 0]]
  /\ mutex = [m \in Mutexes |-> [xMutexHolder |-> NoTask, uxRecursiveCallCount |-> 0,
                                 xTasksWaitingToReceive |-> <<>>]]
  /\ taker = [t \in Tasks |-> NotTaking]

Holder(m) == mutex[m].xMutexHolder

-----------------------------------------------------------------------------
(* Operations on k.  Each definition whose name ends in Faulty is a        *)
(* variant of the one that follows it, with a plausible mistake; the       *)
(* specification uses none.                                                *)

\* prvAddTaskToReadyList
AddToReady(s, t) ==
  [s EXCEPT !.ready[s.uxPriority[t]] = @ \cup {t},
            !.uxTopReadyPriority = @ \cup {s.uxPriority[t]}]

\* uxListRemove, and portRESET_READY_PRIORITY of bit when the list is then empty.
RemoveFromReady(s, t, bit) ==
  LET list == s.ready[s.uxPriority[t]] \ {t}
  IN [s EXCEPT !.ready[s.uxPriority[t]] = list,
               !.uxTopReadyPriority = IF list = {} THEN @ \ {bit} ELSE @]

IsReady(s, t) == t \in s.ready[s.uxPriority[t]]

\* A task that is ready changes lists with its priority.
WithPriority(s, t, p, bit) ==
  LET removed == [RemoveFromReady(s, t, bit) EXCEPT !.uxPriority[t] = p]
  IN IF IsReady(s, t) THEN AddToReady(removed, t) ELSE [s EXCEPT !.uxPriority[t] = p]

\* xTaskPriorityInherit for the running task, and its result: whether the holder
\* runs at a priority it has from a task such as this one.
PriorityInheritFaulty(s, holder) ==
  LET p == s.uxPriority[s.pxCurrentTCB]
  IN IF s.uxPriority[holder] >= p THEN s
     ELSE [s EXCEPT !.eventPriority[holder] = p, !.uxPriority[holder] = p]

PriorityInherit(s, holder) ==
  LET p == s.uxPriority[s.pxCurrentTCB]
  IN IF s.uxPriority[holder] >= p THEN s
     ELSE [WithPriority(s, holder, p, s.uxPriority[holder])
             EXCEPT !.eventPriority[holder] = p]
Inherits(s, holder) ==
  \/ s.uxPriority[holder] < s.uxPriority[s.pxCurrentTCB]
  \/ uxBasePriority[holder] < s.uxPriority[s.pxCurrentTCB]

\* xTaskPriorityDisinherit: the running task has given a mutex.
PriorityDisinheritFaulty(s, t) ==  \* counted only when there is something to undo
  LET base == uxBasePriority[t]
      r == [s EXCEPT !.uxMutexesHeld[t] = @ - 1]
  IN IF s.uxPriority[t] = base THEN s
     ELSE IF r.uxMutexesHeld[t] # 0 THEN r
     ELSE [WithPriority(r, t, base, s.uxPriority[t]) EXCEPT !.eventPriority[t] = base]
PriorityDisinherit(s, t) ==
  LET base == uxBasePriority[t]
      r == [s EXCEPT !.uxMutexesHeld[t] = @ - 1]
  IN IF s.uxPriority[t] = base \/ r.uxMutexesHeld[t] # 0 THEN r
     ELSE [WithPriority(r, t, base, s.uxPriority[t]) EXCEPT !.eventPriority[t] = base]

\* prvGetDisinheritPriorityAfterTimeout: the first task on the event list stands
\* for the highest priority that waits.
HighestWaitingFaulty(list) == 0
HighestWaiting(list) == IF list = <<>> THEN 0 ELSE k.eventPriority[Head(list)]

\* vTaskPriorityDisinheritAfterTimeout.  The bit that it resets when the ready
\* list is empty is that of the new priority, and not of the list.
DisinheritAfterTimeout(s, holder, waiting) ==
  LET p == Max({uxBasePriority[holder], waiting})
  IN IF s.uxPriority[holder] = p \/ s.uxMutexesHeld[holder] # 1 THEN s
     ELSE [WithPriority(s, holder, p, p) EXCEPT !.eventPriority[holder] = p]

-----------------------------------------------------------------------------
(* Tasks                                                                   *)

\* The task runs: it is ready, and no other of a higher priority is.
HighestRuns(t, pcs) ==
  /\ t = k.pxCurrentTCB /\ t # Idle
  /\ t \in k.ready[Max(k.uxTopReadyPriority)]
  /\ taker[t].pc \in pcs

\* vTaskSwitchContext: at once when a task of a higher priority is ready or the
\* one that ran is not, at a tick among tasks of one priority.
SwitchToHighest ==
  /\ \E t \in k.ready[Max(k.uxTopReadyPriority)] \ {k.pxCurrentTCB} :
       k' = [k EXCEPT !.pxCurrentTCB = t]
  /\ UNCHANGED <<mutex, taker>>

TakeReturns(t) == taker' = [taker EXCEPT ![t] = NotTaking]

\* The first critical section of xQueueSemaphoreTake.  Once the time was seen to
\* be over the call ends here too, and then does not undo the inheritance.
SemaphoreTake(t, c) ==
  /\ IF Holder(c.mutex) = NoTask
       THEN /\ mutex' = [mutex EXCEPT ![c.mutex].xMutexHolder = t,
                           ![c.mutex].uxRecursiveCallCount =
                              IF c.mutex \in RecursiveMutexes THEN 1 ELSE 0]
            /\ k' = [k EXCEPT !.uxMutexesHeld[t] = @ + 1]
            /\ TakeReturns(t)
       ELSE /\ IF c.block = "no" \/ taker[t].time = "zero" THEN TakeReturns(t)
               ELSE taker' = [taker EXCEPT ![t].pc = "suspend", ![t].call = c]
            /\ UNCHANGED <<k, mutex>>

\* A task does not wait for a mutex that it holds.
xQueueSemaphoreTake(t) ==
  /\ HighestRuns(t, {"app", "try"})
  /\ \E c \in IF taker[t].pc = "app" THEN TakeCalls[t] ELSE {taker[t].call} :
       Holder(c.mutex) # t /\ SemaphoreTake(t, c)

\* xQueueTakeMutexRecursive by the holder.
xQueueTakeMutexRecursive(t) ==
  /\ HighestRuns(t, {"app"})
  /\ \E c \in TakeCalls[t] :
       /\ c.mutex \in RecursiveMutexes /\ Holder(c.mutex) = t
       /\ mutex[c.mutex].uxRecursiveCallCount < MaxRecursion
       /\ mutex' = [mutex EXCEPT ![c.mutex].uxRecursiveCallCount = @ + 1]
  /\ UNCHANGED <<k, taker>>

\* The section with the scheduler suspended: the time may be over, the mutex may
\* be free by now, and else the task blocks.
TimesOut(t) ==
  IF taker[t].call.block = "forever" THEN {FALSE}
  ELSE IF taker[t].time = "over" THEN {TRUE} ELSE BOOLEAN

Block(t) ==
  LET m == taker[t].call.mutex
      s == PriorityInherit(k, Holder(m))
  IN /\ HighestRuns(t, {"suspend"})
     /\ \E timedOut \in TimesOut(t) :
          \/ /\ timedOut
             /\ taker' = [taker EXCEPT ![t].pc = "test", ![t].time = "zero"]
             /\ UNCHANGED <<k, mutex>>
          \/ /\ ~timedOut /\ Holder(m) = NoTask
             /\ taker' = [taker EXCEPT ![t].pc = "try"]
             /\ UNCHANGED <<k, mutex>>
          \/ /\ ~timedOut /\ Holder(m) # NoTask
             /\ taker' = [taker EXCEPT ![t].pc = "blocked",
                                     ![t].inherited = Inherits(k, Holder(m))]
             /\ k' = RemoveFromReady(s, t, s.uxPriority[t])
             /\ mutex' = [mutex EXCEPT ![m].xTasksWaitingToReceive =
                            SortedInsert(@, t, [u \in AllTasks |-> 0 - s.eventPriority[u]])]

\* After the time-out the mutex is tested once more.
TestAfterTimeout(t) ==
  /\ HighestRuns(t, {"test"})
  /\ IF Holder(taker[t].call.mutex) = NoTask THEN taker' = [taker EXCEPT ![t].pc = "try"]
     ELSE IF taker[t].inherited THEN taker' = [taker EXCEPT ![t].pc = "disinherit"]
     ELSE TakeReturns(t)
  /\ UNCHANGED <<k, mutex>>

\* Whoever holds the mutex by then.
vTaskPriorityDisinheritAfterTimeout(t) ==
  LET m == taker[t].call.mutex
  IN /\ HighestRuns(t, {"disinherit"})
     /\ k' = IF Holder(m) = NoTask THEN k
             ELSE DisinheritAfterTimeout(k, Holder(m),
                                         HighestWaiting(mutex[m].xTasksWaitingToReceive))
     /\ TakeReturns(t)
     /\ UNCHANGED mutex

\* xQueueGenericSend of a mutex, or xQueueGiveMutexRecursive, by the holder.
xQueueGive(t) ==
  /\ HighestRuns(t, {"app"})
  /\ \E m \in Mutexes :
       /\ Holder(m) = t
       /\ LET list == mutex[m].xTasksWaitingToReceive
              s == PriorityDisinherit(k, t)
          IN IF mutex[m].uxRecursiveCallCount > 1
               THEN /\ mutex' = [mutex EXCEPT ![m].uxRecursiveCallCount = @ - 1]
                    /\ UNCHANGED <<k, taker>>
               ELSE /\ mutex' = [mutex EXCEPT ![m] =
                          [xMutexHolder |-> NoTask, uxRecursiveCallCount |-> 0,
                           xTasksWaitingToReceive |-> IF list = <<>> THEN list ELSE Tail(list)]]
                    /\ k' = IF list = <<>> THEN s ELSE AddToReady(s, Head(list))
                    /\ taker' = IF list = <<>> THEN taker
                               ELSE [taker EXCEPT ![Head(list)].pc = "try"]

\* A task waits for something else, with the mutexes it holds.
Delay(t) ==
  /\ HighestRuns(t, {"app"})
  /\ k' = RemoveFromReady(k, t, k.uxPriority[t])
  /\ taker' = [taker EXCEPT ![t].pc = "delayed"]
  /\ UNCHANGED mutex

\* The tick ends a delay, or a wait for a mutex.
WakeUp(t) ==
  /\ \/ taker[t].pc = "delayed" /\ TakeReturns(t) /\ UNCHANGED mutex
     \/ /\ taker[t].pc = "blocked" /\ taker[t].call.block = "timed"
        /\ taker' = [taker EXCEPT ![t].pc = "try", ![t].time = "over"]
        /\ mutex' = [mutex EXCEPT ![taker[t].call.mutex].xTasksWaitingToReceive = Without(@, t)]
  /\ k' = AddToReady(k, t)

MutexNext ==
  \/ SwitchToHighest
  \/ \E t \in Tasks :
       \/ xQueueSemaphoreTake(t) \/ xQueueTakeMutexRecursive(t) \/ Block(t)
       \/ TestAfterTimeout(t) \/ vTaskPriorityDisinheritAfterTimeout(t)
       \/ xQueueGive(t) \/ Delay(t) \/ WakeUp(t)

MutexSpec == MutexInit /\ [][MutexNext]_mutexVars

-----------------------------------------------------------------------------
\* No ready task is out of the scheduler's sight while priorities change under it:
\* a task that is ready is on the list of its priority, and the bitmap has a bit
\* for each list that is not empty.
ReadyTasksFound ==
  /\ \A p \in Priorities : k.ready[p] # {} => p \in k.uxTopReadyPriority
  /\ \A p \in Priorities : \A t \in k.ready[p] : k.uxPriority[t] = p

\* The assertion of taskSELECT_HIGHEST_PRIORITY_TASK (tasks.c:178): the list it
\* takes the next task from is not empty.
SelectsFromReady == k.ready[Max(k.uxTopReadyPriority)] # {}

\* What is lent is given back: a task that holds no mutex runs at its own
\* priority, and uxMutexesHeld, which decides it, counts what the task holds.
InheritanceEnds ==
  \A t \in Tasks :
    /\ k.uxMutexesHeld[t] = Cardinality({m \in Mutexes : Holder(m) = t})
    /\ k.uxMutexesHeld[t] = 0 => k.uxPriority[t] = uxBasePriority[t]

\* No task that holds a mutex runs below the own priority of one that waits for
\* it, whoever else waited and timed out.
HolderInherits ==
  \A m \in Mutexes : Holder(m) # NoTask =>
    \A t \in Members(mutex[m].xTasksWaitingToReceive) :
      k.uxPriority[Holder(m)] >= uxBasePriority[t]

\* The comments on the event lists ("Stored in priority order", queue.c:112): the
\* first task that waits is the one with the highest priority.
HighestPriorityFirst ==
  \A m \in Mutexes :
    LET list == mutex[m].xTasksWaitingToReceive
    IN \A i \in 1 .. Len(list) : k.uxPriority[Head(list)] >= k.uxPriority[list[i]]
=============================================================================
