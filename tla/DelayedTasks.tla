---------------------------- MODULE DelayedTasks ----------------------------
(***************************************************************************)
(* The time base of the kernel (FreeRTOS/Source/tasks.c): the tick count,  *)
(* the two lists of delayed tasks, the list of tasks that wait for ever,   *)
(* the pending ready list, and the ticks that are held back while the      *)
(* scheduler is suspended.                                                 *)
(*                                                                         *)
(* Priorities and the order of the ready lists are left to module Kernel:  *)
(* here a context switch may select any ready task.  A list that the code  *)
(* keeps sorted by xItemValue is the set of its members, and its head is a *)
(* member with the least xItemValue; module KernelLists is about the order *)
(* of the lists themselves.                                                *)
(***************************************************************************)
EXTENDS Integers

CONSTANTS Tasks,          \* the application's tasks
          Idle,           \* the idle task, which never blocks
          portMAX_DELAY,  \* the largest TickType_t
          MaxNesting,     \* bound: calls of vTaskSuspendAll that nest
          MaxPended       \* bound: ticks during one suspension

ASSUME IdleAssumption == Idle \notin Tasks
ASSUME MaxDelayAssumption == portMAX_DELAY \in Nat \ {0}
ASSUME BoundsAssumption == MaxNesting \in Nat /\ MaxPended \in Nat

VARIABLES
  xTickCount,
  xNextTaskUnblockTime,
  pxDelayedTaskList,
  pxOverflowDelayedTaskList,
  xSuspendedTaskList,     \* tasks blocked without a time limit
  xPendingReadyList,      \* readied while the scheduler was suspended
  xItemValue,             \* [Tasks -> ticks], the value of xStateListItem
  waiting,                \* tasks whose xEventListItem is on a queue's list
  uxSchedulerSuspended,
  xPendedTicks,
  xPendedCounts,          \* the local of xTaskResumeAll: ticks left to unwind
  pxCurrentTCB,
  left,                   \* history: the ticks until a delayed task is due
  realTicks               \* history: tick interrupts so far, modulo the range

timeVars == <<xTickCount, xNextTaskUnblockTime, xItemValue, left>>
listVars == <<pxDelayedTaskList, pxOverflowDelayedTaskList, xSuspendedTaskList>>
schedVars == <<uxSchedulerSuspended, xPendedTicks, xPendedCounts>>
vars == <<timeVars, listVars, xPendingReadyList, waiting, schedVars,
          pxCurrentTCB, realTicks>>

TickType == 0 .. portMAX_DELAY

(* Each definition whose name ends in Faulty is a variant of the one that  *)
(* follows it, with a plausible mistake; the specification uses none.      *)

\* a + b as TickType_t computes it, for a, b \in TickType.
AddTicksFaulty(a, b) == a + b

AddTicks(a, b) ==
  IF a + b > portMAX_DELAY THEN a + b - (portMAX_DELAY + 1) ELSE a + b

Timed == pxDelayedTaskList \cup pxOverflowDelayedTaskList
Blocked == Timed \cup xSuspendedTaskList
Ready == (Tasks \cup {Idle}) \ Blocked

\* The head of a list that vListInsert keeps in ascending order of xItemValue.
HeadEntryFaulty(list) ==
  CHOOSE t \in list : \A u \in list : xItemValue[t] >= xItemValue[u]

HeadEntry(list) ==
  CHOOSE t \in list : \A u \in list : xItemValue[t] <= xItemValue[u]

\* prvResetNextTaskUnblockTime, and the two exits of the loop in
\* xTaskIncrementTick.
NextUnblockTime(list) ==
  IF list = {} THEN portMAX_DELAY ELSE xItemValue[HeadEntry(list)]

\* The tasks that the walk down a sorted list removes: it stops at the first
\* whose wake time is still to come.
DueTasksFaulty(list, tick) == {t \in list : xItemValue[t] < tick}
DueTasks(list, tick) == {t \in list : xItemValue[t] <= tick}

\* taskSWITCH_DELAYED_LISTS exchanges the two lists.
OverflowListAfterFaulty(wraps) == pxOverflowDelayedTaskList
OverflowListAfter(wraps) ==
  IF wraps THEN pxDelayedTaskList ELSE pxOverflowDelayedTaskList

\* The test that tells the overflow list from the current one.
WakesAfterWrapFaulty(xTimeToWake) == FALSE
WakesAfterWrap(xTimeToWake) == xTimeToWake < xTickCount

\* A task that a tick readies leaves its event list too.
WaitingAfterTickFaulty(expired) == waiting
WaitingAfterTick(expired) == waiting \ expired

\* The event item of a task readied during a suspension goes to this list.
PendingAfterEventFaulty(t) == xPendingReadyList
PendingAfterEvent(t) == xPendingReadyList \cup {t}

Init ==
  /\ xTickCount = 0
  /\ xNextTaskUnblockTime = portMAX_DELAY
  /\ pxDelayedTaskList = {}
  /\ pxOverflowDelayedTaskList = {}
  /\ xSuspendedTaskList = {}
  /\ xPendingReadyList = {}
  /\ xItemValue = [t \in Tasks |-> 0]
  /\ waiting = {}
  /\ uxSchedulerSuspended = 0
  /\ xPendedTicks = 0
  /\ xPendedCounts = 0
  /\ pxCurrentTCB \in Tasks \cup {Idle}
  /\ left = [t \in Tasks |-> 0]
  /\ realTicks = 0

-----------------------------------------------------------------------------
(* While xPendedCounts > 0 xTaskResumeAll is inside its critical section:  *)
(* no interrupt and no other task runs.                                    *)

vTaskSuspendAll ==
  /\ xPendedCounts = 0
  /\ pxCurrentTCB \in Ready
  /\ uxSchedulerSuspended < MaxNesting
  /\ uxSchedulerSuspended' = uxSchedulerSuspended + 1
  /\ UNCHANGED <<timeVars, listVars, xPendingReadyList, waiting, xPendedTicks,
                 xPendedCounts, pxCurrentTCB, realTicks>>

\* The running task blocks: from vTaskDelay (onEvent = FALSE) or, together
\* with its insertion in a queue's event list, from vTaskPlaceOnEventList.
prvAddCurrentTaskToDelayedList(xTicksToWait, onEvent) ==
  /\ xPendedCounts = 0
  /\ uxSchedulerSuspended > 0
  /\ pxCurrentTCB \in Ready \ {Idle}
  /\ waiting' = IF onEvent THEN waiting \cup {pxCurrentTCB} ELSE waiting
  /\ IF xTicksToWait = portMAX_DELAY /\ onEvent
       THEN /\ xSuspendedTaskList' = xSuspendedTaskList \cup {pxCurrentTCB}
            /\ UNCHANGED <<timeVars, pxDelayedTaskList, pxOverflowDelayedTaskList>>
       ELSE LET xTimeToWake == AddTicks(xTickCount, xTicksToWait) IN
            /\ xItemValue' = [xItemValue EXCEPT ![pxCurrentTCB] = xTimeToWake]
            /\ left' = [left EXCEPT ![pxCurrentTCB] = xTicksToWait]
            /\ IF WakesAfterWrap(xTimeToWake)
                 THEN /\ pxOverflowDelayedTaskList' =
                           pxOverflowDelayedTaskList \cup {pxCurrentTCB}
                      /\ UNCHANGED <<pxDelayedTaskList, xNextTaskUnblockTime>>
                 ELSE /\ pxDelayedTaskList' = pxDelayedTaskList \cup {pxCurrentTCB}
                      /\ xNextTaskUnblockTime' =
                           IF xTimeToWake < xNextTaskUnblockTime
                             THEN xTimeToWake ELSE xNextTaskUnblockTime
                      /\ UNCHANGED pxOverflowDelayedTaskList
            /\ UNCHANGED <<xTickCount, xSuspendedTaskList>>
  /\ UNCHANGED <<xPendingReadyList, schedVars, pxCurrentTCB, realTicks>>

\* The body of xTaskIncrementTick when the scheduler is not suspended: when
\* the count wraps the two lists are switched, then the due tasks are readied.
IncrementTick ==
  LET now     == AddTicks(xTickCount, 1)
      wraps   == now = 0
      list    == IF wraps THEN pxOverflowDelayedTaskList ELSE pxDelayedTaskList
      next    == IF wraps THEN NextUnblockTime(list) ELSE xNextTaskUnblockTime
      expired == IF now >= next THEN DueTasks(list, now) ELSE {}
  IN /\ xTickCount' = now
     /\ pxDelayedTaskList' = list \ expired
     /\ pxOverflowDelayedTaskList' = OverflowListAfter(wraps)
     /\ xNextTaskUnblockTime' =
          IF now >= next THEN NextUnblockTime(list \ expired) ELSE next
     /\ waiting' = WaitingAfterTick(expired)
     /\ left' = [t \in Tasks |->
                   IF t \in Timed /\ left[t] > 0 THEN left[t] - 1 ELSE left[t]]
     /\ UNCHANGED <<xItemValue, xSuspendedTaskList, xPendingReadyList>>

\* A tick interrupt.
xTaskIncrementTick ==
  /\ xPendedCounts = 0
  /\ realTicks' = AddTicks(realTicks, 1)
  /\ IF uxSchedulerSuspended = 0
       THEN IncrementTick /\ UNCHANGED xPendedTicks
       ELSE /\ xPendedTicks < MaxPended
            /\ xPendedTicks' = xPendedTicks + 1
            /\ UNCHANGED <<timeVars, listVars, xPendingReadyList, waiting>>
  /\ UNCHANGED <<uxSchedulerSuspended, xPendedCounts, pxCurrentTCB>>

\* An event for task t, from an interrupt or from the running task.
xTaskRemoveFromEventList(t) ==
  /\ xPendedCounts = 0
  /\ t \in waiting
  /\ waiting' = waiting \ {t}
  /\ IF uxSchedulerSuspended = 0
       THEN /\ pxDelayedTaskList' = pxDelayedTaskList \ {t}
            /\ pxOverflowDelayedTaskList' = pxOverflowDelayedTaskList \ {t}
            /\ xSuspendedTaskList' = xSuspendedTaskList \ {t}
            /\ left' = [left EXCEPT ![t] = 0]
            /\ UNCHANGED xPendingReadyList
       ELSE /\ xPendingReadyList' = PendingAfterEvent(t)
            /\ UNCHANGED <<listVars, left>>
  /\ UNCHANGED <<xTickCount, xNextTaskUnblockTime, xItemValue, schedVars,
                 pxCurrentTCB, realTicks>>

\* Up to the loop that unwinds the pended ticks.
xTaskResumeAll ==
  /\ xPendedCounts = 0
  /\ uxSchedulerSuspended > 0
  /\ uxSchedulerSuspended' = uxSchedulerSuspended - 1
  /\ IF uxSchedulerSuspended = 1
       THEN /\ pxDelayedTaskList' = pxDelayedTaskList \ xPendingReadyList
            /\ pxOverflowDelayedTaskList' = pxOverflowDelayedTaskList \ xPendingReadyList
            /\ xSuspendedTaskList' = xSuspendedTaskList \ xPendingReadyList
            /\ xNextTaskUnblockTime' =
                 IF xPendingReadyList # {}
                   THEN NextUnblockTime(pxDelayedTaskList \ xPendingReadyList)
                   ELSE xNextTaskUnblockTime
            /\ left' = [t \in Tasks |-> IF t \in xPendingReadyList THEN 0 ELSE left[t]]
            /\ xPendingReadyList' = {}
            /\ xPendedCounts' = xPendedTicks
       ELSE UNCHANGED <<listVars, xNextTaskUnblockTime, left, xPendingReadyList,
                        xPendedCounts>>
  /\ UNCHANGED <<xTickCount, xItemValue, waiting, xPendedTicks, pxCurrentTCB,
                 realTicks>>

\* One turn of that loop; after the last one the count of pended ticks is reset.
UnwindPendedTickFaulty ==
  /\ xPendedCounts > 0
  /\ IncrementTick
  /\ xPendedCounts' = xPendedCounts - 1
  /\ UNCHANGED <<xPendedTicks, uxSchedulerSuspended, pxCurrentTCB, realTicks>>

UnwindPendedTick ==
  /\ xPendedCounts > 0
  /\ IncrementTick
  /\ xPendedCounts' = xPendedCounts - 1
  /\ xPendedTicks' = IF xPendedCounts = 1 THEN 0 ELSE xPendedTicks
  /\ UNCHANGED <<uxSchedulerSuspended, pxCurrentTCB, realTicks>>

vTaskSwitchContext ==
  /\ xPendedCounts = 0
  /\ uxSchedulerSuspended = 0
  /\ pxCurrentTCB' \in Ready
  /\ UNCHANGED <<timeVars, listVars, xPendingReadyList, waiting, schedVars, realTicks>>

Next ==
  \/ vTaskSuspendAll
  \/ \E xTicksToWait \in 1 .. portMAX_DELAY, onEvent \in BOOLEAN :
       prvAddCurrentTaskToDelayedList(xTicksToWait, onEvent)
  \/ xTaskIncrementTick
  \/ \E t \in Tasks : xTaskRemoveFromEventList(t)
  \/ xTaskResumeAll
  \/ UnwindPendedTick
  \/ vTaskSwitchContext

Spec == Init /\ [][Next]_vars

\* The tick interrupt keeps coming; code that suspends the scheduler always
\* resumes it, and the loop of xTaskResumeAll runs with interrupts masked.
Fairness ==
  /\ WF_vars(xTaskIncrementTick)
  /\ WF_vars(xTaskResumeAll)
  /\ WF_vars(UnwindPendedTick)

FairSpec == Spec /\ Fairness

-----------------------------------------------------------------------------
TypeOK ==
  /\ xTickCount \in TickType
  /\ xNextTaskUnblockTime \in TickType
  /\ pxDelayedTaskList \subseteq Tasks
  /\ pxOverflowDelayedTaskList \subseteq Tasks
  /\ xSuspendedTaskList \subseteq Tasks
  /\ xPendingReadyList \subseteq Tasks
  /\ xItemValue \in [Tasks -> TickType]
  /\ waiting \subseteq Tasks
  /\ uxSchedulerSuspended \in Nat
  /\ xPendedTicks \in Nat
  /\ xPendedCounts \in Nat
  /\ pxCurrentTCB \in Tasks \cup {Idle}
  /\ left \in [Tasks -> TickType]
  /\ realTicks \in TickType

\* Wherever the tick count stands and however often it has wrapped, the value
\* stored for a delayed task names the tick at which its delay ends, counted
\* from the tick at which it blocked: on the current list directly, on the
\* overflow list after the wrap.  No task is still listed once it is due
\* (tasks.c:5352-5374, 2757-2824).
WakeTimes ==
  /\ \A t \in pxDelayedTaskList :
       left[t] > 0 /\ xItemValue[t] = xTickCount + left[t]
  /\ \A t \in pxOverflowDelayedTaskList :
       left[t] > 0 /\ xItemValue[t] + portMAX_DELAY + 1 = xTickCount + left[t]

\* xNextTaskUnblockTime may be stale after a task was readied early, but only
\* on the safe side: it is never later than a delayed task's wake time.
UnblockTimeIsEarly ==
  \A t \in pxDelayedTaskList : xNextTaskUnblockTime <= xItemValue[t]

\* tasks.c:206: "The delayed tasks list should be empty when the lists are
\* switched", that is, when the next tick makes the count wrap.
DelayedListEmptyAtWrap ==
  xTickCount = portMAX_DELAY => pxDelayedTaskList = {}

\* A task has one xStateListItem: the lists it can be on exclude each other.
OneStateList ==
  /\ pxDelayedTaskList \cap pxOverflowDelayedTaskList = {}
  /\ (pxDelayedTaskList \cup pxOverflowDelayedTaskList) \cap xSuspendedTaskList = {}

\* A task without a time limit can still be reached: it is on a queue's event
\* list, or pending until the scheduler is resumed.  The pending ready list is
\* empty unless the scheduler is suspended, so the task is not forgotten there.
NoLostTask ==
  /\ xSuspendedTaskList \subseteq waiting \cup xPendingReadyList
  /\ xPendingReadyList # {} => uxSchedulerSuspended > 0

\* A task waits for an event or pends only while its state item is on a list
\* of blocked tasks, and its one event item is not on two lists.
EventItems ==
  /\ waiting \cup xPendingReadyList \subseteq Blocked
  /\ waiting \cap xPendingReadyList = {}

\* Each of a task's two list items is on the lists it can be on, one at a time;
\* in particular no event can find a task that a tick has readied before.
ListMembership == OneStateList /\ EventItems

\* tasks.c:2276: processing the pended ticks "ensures the tick count does not
\* slip": the tick count and the ticks still to unwind add up to the ticks
\* that have occurred.
TickCountDoesNotSlip ==
  LET pending == IF xPendedCounts > 0 THEN xPendedCounts ELSE xPendedTicks
  IN realTicks = (xTickCount + pending) % (portMAX_DELAY + 1)

\* A tick readies exactly the tasks whose delay ends with it: never a task
\* that has ticks left or no limit, and never later than due.
TickReadiesExactlyTheDue ==
  [][xTickCount' # xTickCount =>
       \A t \in Blocked :
         t \in Ready' <=> t \notin xSuspendedTaskList /\ left[t] = 1]_vars

\* Every delay ends: a task with a time limit becomes ready again whatever the
\* other tasks and the interrupts do.
DelaysEnd ==
  \A t \in Tasks :
    t \in Timed ~> t \in Ready
=============================================================================
