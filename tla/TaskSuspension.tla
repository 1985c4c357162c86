---------------------------- MODULE TaskSuspension ----------------------------
(***************************************************************************)
(* The Suspended state of tasks, in FreeRTOS/Source/tasks.c: vTaskSuspend, *)
(* vTaskResume, xTaskResumeFromISR and eTaskGetState, among tasks that     *)
(* wait for a notification or an event, with a time limit or for ever.     *)
(*                                                                         *)
(* A task that waits for ever is on xSuspendedTaskList too: what tells it  *)
(* from a suspended one is its event item, and ucNotifyState.  The list    *)
(* pxDelayedTaskList stands for both delayed lists, and which ready task   *)
(* runs is left open; see modules DelayedTasks and Kernel.  A task that    *)
(* has suspended the scheduler calls nothing that may switch tasks.        *)
(***************************************************************************)
EXTENDS AppTasks, Naturals

CONSTANT
  ResumeWaiters  \* are tasks resumed that wait for a notification? See OnlySuspendedResume

ASSUME SuspensionAssumption == ResumeWaiters \in BOOLEAN

VARIABLES
  pxCurrentTCB,
  uxSchedulerSuspended,
  tcb,     \* [task -> the lists of its two items, ucNotifyState, and "waits": is it
           \* between the critical sections of xTaskGenericNotifyWait?]
  asleep   \* history: [task -> was it suspended, and not resumed since?]

suspensionVars == <<pxCurrentTCB, uxSchedulerSuspended, tcb, asleep>>

SuspensionInit ==
  /\ pxCurrentTCB = Idle /\ uxSchedulerSuspended = FALSE
  /\ tcb = [t \in Tasks |-> [xStateListItem |-> "pxReadyTasksLists", xEventListItem |-> "NULL",
                             ucNotifyState |-> "taskNOT_WAITING_NOTIFICATION", waits |-> FALSE]]
  /\ asleep = [t \in Tasks |-> FALSE]

\* The running task leaves the processor before its next step if it is not ready.
Runs(t) ==
  /\ t = pxCurrentTCB /\ ~uxSchedulerSuspended
  /\ t # Idle => tcb[t].xStateListItem = "pxReadyTasksLists"

\* prvAddTaskToReadyList
Ready(item) == [item EXCEPT !.xStateListItem = "pxReadyTasksLists"]

\* What interrupts make ready waits on xPendingReadyList for the scheduler.
ReadyFromISR(item) ==
  IF uxSchedulerSuspended THEN [item EXCEPT !.xEventListItem = "xPendingReadyList"]
  ELSE Ready(item)

-----------------------------------------------------------------------------
(* Tasks                                                                   *)

vTaskSwitchContext ==
  /\ ~uxSchedulerSuspended
  /\ pxCurrentTCB' \in {Idle} \cup {t \in Tasks : tcb[t].xStateListItem = "pxReadyTasksLists"}
  /\ UNCHANGED <<uxSchedulerSuspended, tcb, asleep>>

\* prvAddCurrentTaskToDelayedList
Blocked(item, forever) ==
  [item EXCEPT !.xStateListItem = IF forever THEN "xSuspendedTaskList" ELSE "pxDelayedTaskList"]

\* The first critical section of xTaskGenericNotifyWait, and the second one.
xTaskGenericNotifyWait(t) ==
  /\ Runs(t) /\ ~tcb[t].waits
  /\ \E block \in {"no", "timed", "forever"} :
       LET w == [tcb[t] EXCEPT !.waits = TRUE, !.ucNotifyState = "taskWAITING_NOTIFICATION"]
       IN tcb' = [tcb EXCEPT ![t] =
            IF @.ucNotifyState = "taskNOTIFICATION_RECEIVED" THEN [@ EXCEPT !.waits = TRUE]
            ELSE IF block = "no" THEN w ELSE Blocked(w, block = "forever")]
  /\ UNCHANGED <<pxCurrentTCB, uxSchedulerSuspended, asleep>>

NotifyWaitEnds(t) ==
  /\ Runs(t) /\ tcb[t].waits
  /\ tcb' = [tcb EXCEPT ![t].waits = FALSE, ![t].ucNotifyState = "taskNOT_WAITING_NOTIFICATION"]
  /\ UNCHANGED <<pxCurrentTCB, uxSchedulerSuspended, asleep>>

\* vTaskPlaceOnEventList, as in a wait for a queue, or vTaskDelay.
vTaskPlaceOnEventList(t) ==
  /\ Runs(t) /\ ~tcb[t].waits
  /\ \/ \E forever \in BOOLEAN :
          tcb' = [tcb EXCEPT ![t] = [Blocked(@, forever) EXCEPT !.xEventListItem = "queue"]]
     \/ tcb' = [tcb EXCEPT ![t] = Blocked(@, FALSE)]
  /\ UNCHANGED <<pxCurrentTCB, uxSchedulerSuspended, asleep>>

\* A task suspends itself, or any other.
vTaskSuspendFaulty(t) ==
  /\ Runs(pxCurrentTCB)
  /\ tcb' = [tcb EXCEPT ![t].xStateListItem = "xSuspendedTaskList",
                        ![t].xEventListItem = "NULL"]
  /\ asleep' = [asleep EXCEPT ![t] = TRUE]
  /\ UNCHANGED <<pxCurrentTCB, uxSchedulerSuspended>>

Suspended(item) ==
  [item EXCEPT !.xStateListItem = "xSuspendedTaskList", !.xEventListItem = "NULL",
               !.ucNotifyState = IF item.ucNotifyState = "taskWAITING_NOTIFICATION"
                                   THEN "taskNOT_WAITING_NOTIFICATION" ELSE item.ucNotifyState]
vTaskSuspend(t) ==
  /\ Runs(pxCurrentTCB)
  /\ tcb' = [tcb EXCEPT ![t] = Suspended(@)]
  /\ asleep' = [asleep EXCEPT ![t] = TRUE]
  /\ UNCHANGED <<pxCurrentTCB, uxSchedulerSuspended>>

prvTaskIsTaskSuspended(t) ==
  /\ tcb[t].xStateListItem = "xSuspendedTaskList"
  /\ tcb[t].xEventListItem = "NULL"

MayBeResumed(t) == ResumeWaiters \/ tcb[t].ucNotifyState # "taskWAITING_NOTIFICATION"

vTaskResume(t) ==
  /\ Runs(pxCurrentTCB) /\ t # pxCurrentTCB /\ MayBeResumed(t)
  /\ tcb' = IF prvTaskIsTaskSuspended(t) THEN [tcb EXCEPT ![t] = Ready(@)] ELSE tcb
  /\ asleep' = [asleep EXCEPT ![t] = FALSE]
  /\ UNCHANGED <<pxCurrentTCB, uxSchedulerSuspended>>

\* xTaskGenericNotify, with any action: only the state matters here.
Notified(item, ready) ==
  [(IF item.ucNotifyState = "taskWAITING_NOTIFICATION" THEN ready ELSE item)
     EXCEPT !.ucNotifyState = "taskNOTIFICATION_RECEIVED"]
xTaskGenericNotify(t) ==
  /\ Runs(pxCurrentTCB)
  /\ tcb' = [tcb EXCEPT ![t] = Notified(@, Ready(@))]
  /\ UNCHANGED <<pxCurrentTCB, uxSchedulerSuspended, asleep>>

vTaskSuspendAll ==
  /\ Runs(pxCurrentTCB)
  /\ uxSchedulerSuspended' = TRUE
  /\ UNCHANGED <<pxCurrentTCB, tcb, asleep>>

\* The ticks that were missed come as those of xTaskIncrementTick.
xTaskResumeAll ==
  /\ uxSchedulerSuspended /\ uxSchedulerSuspended' = FALSE
  /\ tcb' = [t \in Tasks |->
       IF tcb[t].xEventListItem = "xPendingReadyList"
         THEN Ready([tcb[t] EXCEPT !.xEventListItem = "NULL"]) ELSE tcb[t]]
  /\ UNCHANGED <<pxCurrentTCB, asleep>>

-----------------------------------------------------------------------------
(* Interrupts                                                              *)

xTaskResumeFromISR(t) ==
  /\ MayBeResumed(t)
  /\ tcb' = IF prvTaskIsTaskSuspended(t) THEN [tcb EXCEPT ![t] = ReadyFromISR(@)] ELSE tcb
  /\ asleep' = [asleep EXCEPT ![t] = FALSE]
  /\ UNCHANGED <<pxCurrentTCB, uxSchedulerSuspended>>

xTaskGenericNotifyFromISR(t) ==
  /\ tcb' = [tcb EXCEPT ![t] = Notified(@, ReadyFromISR(@))]
  /\ UNCHANGED <<pxCurrentTCB, uxSchedulerSuspended, asleep>>

\* The event happens, in an interrupt or in a call of the running task.
xTaskRemoveFromEventList(t) ==
  /\ tcb[t].xEventListItem = "queue"
  /\ tcb' = [tcb EXCEPT ![t] = ReadyFromISR([@ EXCEPT !.xEventListItem = "NULL"])]
  /\ UNCHANGED <<pxCurrentTCB, uxSchedulerSuspended, asleep>>

\* The time of a task is over; the event item of one that waits leaves its list.
xTaskIncrementTick(t) ==
  /\ ~uxSchedulerSuspended /\ tcb[t].xStateListItem = "pxDelayedTaskList"
  /\ tcb' = [tcb EXCEPT ![t] = Ready([@ EXCEPT !.xEventListItem = "NULL"])]
  /\ UNCHANGED <<pxCurrentTCB, uxSchedulerSuspended, asleep>>

SuspensionNext ==
  \/ vTaskSwitchContext \/ vTaskSuspendAll \/ xTaskResumeAll
  \/ \E t \in Tasks :
       \/ xTaskGenericNotifyWait(t) \/ NotifyWaitEnds(t) \/ vTaskPlaceOnEventList(t)
       \/ vTaskSuspend(t) \/ vTaskResume(t) \/ xTaskResumeFromISR(t)
       \/ xTaskGenericNotify(t) \/ xTaskGenericNotifyFromISR(t)
       \/ xTaskRemoveFromEventList(t) \/ xTaskIncrementTick(t)

SuspensionSpec == SuspensionInit /\ [][SuspensionNext]_suspensionVars

-----------------------------------------------------------------------------
(* Properties                                                              *)

eTaskGetState(t) ==
  IF t = pxCurrentTCB THEN "eRunning"
  ELSE IF tcb[t].xStateListItem = "pxReadyTasksLists" THEN "eReady"
  ELSE IF prvTaskIsTaskSuspended(t) /\ tcb[t].ucNotifyState # "taskWAITING_NOTIFICATION"
    THEN "eSuspended"
  ELSE "eBlocked"

\* A task is in the Suspended state from vTaskSuspend until it is resumed, and at no
\* other time: no notification, event or time-out that comes late, and no interrupt
\* while the scheduler is suspended, wakes it or leaves it behind, and a task that
\* waits for ever, on the same list, is told from it.
SuspendedExactly ==
  \A t \in Tasks \ {pxCurrentTCB} : asleep[t] <=> eTaskGetState(t) = "eSuspended"

\* What the comments of prvTaskIsTaskSuspended say (tasks.c:1839, "Is it in the
\* suspended list because it is in the Suspended state, or because is is blocked with
\* no timeout?"): a resume makes nothing ready but tasks that were suspended.
OnlySuspendedResume ==
  [][\A t \in Tasks :
       (vTaskResume(t) \/ xTaskResumeFromISR(t)) /\ ~asleep[t] => UNCHANGED tcb]_suspensionVars
=============================================================================
