------------------------------- MODULE Kernel -------------------------------
(***************************************************************************)
(* The scheduler (FreeRTOS/Source/tasks.c) and the blocking calls of the   *)
(* queues (queue.c) under the interrupts of the Cortex-M3 port (port.c):   *)
(* one processor, tasks that call xQueueSend, xQueueReceive and            *)
(* vTaskDelay, the tick interrupt, PendSV, and interrupts that send to and *)
(* receive from queues.                                                    *)
(*                                                                         *)
(* A step is what the code does with interrupts masked (a critical         *)
(* section, or an interrupt handler, whose priority is the same for all),  *)
(* or one statement between two of these.  Interrupts occur between steps. *)
(* A queue is its number of messages: module QueueStorage has the data.    *)
(***************************************************************************)
EXTENDS AppTasks, KernelLists, FiniteSetsExt

CONSTANTS
  Priority,       \* [task -> uxPriority]
  Created,        \* [priority -> its tasks in the order in which they are created]
  Queues,
  uxLength,       \* [queue -> capacity]
  Calls,          \* [task -> the calls the task makes, in any order]
  IsrSends,       \* the queues that interrupts send to
  IsrReceives,    \* the queues that interrupts receive from
  portMAX_DELAY,
  OverflowRange,  \* bound: xNumOfOverflows counts modulo this
  IsrYields,      \* whether interrupts ask for the woken task and yield to it
  MaxPended,      \* bound: ticks during one suspension
  MaxLock         \* bound: interrupts that use a queue while it is locked

AllTasks == Tasks \cup {Idle}
Priorities == {Priority[t] : t \in AllTasks}
TickType == 0 .. portMAX_DELAY

\* What a call may be: op is "send", "receive" or "delay".
Call(op, q, ticks) == [op |-> op, queue |-> q, ticks |-> ticks]
NoCall == Call("none", "none", 0)

QueueCalls == [op : {"send", "receive"}, queue : Queues, ticks : TickType]
DelayCalls == [op : {"delay"}, queue : {"none"}, ticks : TickType]

\* A priority is a bit of uxTopReadyPriority (portmacro.h:142).  The idle task makes
\* no calls and is created by vTaskStartScheduler, when the application's tasks are.
ASSUME KernelAssumption ==
  /\ IsFiniteSet(Tasks)
  /\ Priority \in [AllTasks -> 0 .. 31] /\ Priority[Idle] = 0
  /\ \A p \in Priorities :
       /\ Created[p] \in Seq(AllTasks) /\ IsInjective(Created[p])
       /\ Members(Created[p]) = {t \in AllTasks : Priority[t] = p}
  /\ Last(Created[0]) = Idle
  /\ uxLength \in [Queues -> Nat \ {0}]
  /\ Calls \in [AllTasks -> SUBSET (QueueCalls \cup DelayCalls)] /\ Calls[Idle] = {}
  /\ IsrSends \subseteq Queues /\ IsrReceives \subseteq Queues /\ IsrYields \in BOOLEAN
  /\ portMAX_DELAY \in Nat \ {0} /\ OverflowRange \in Nat /\ OverflowRange > 1
  /\ MaxPended \in Nat /\ MaxLock \in Nat

VARIABLES
  k,      \* the kernel's own variables, a record with the names of tasks.c
  queue,  \* [queue -> uxMessagesWaiting and the lock counts]
  task,   \* [task -> where it is in a call, and the call's local variables]
  pendSV, \* the PENDSVSET bit of the interrupt controller
  waited  \* history: [task -> ticks counted since it found the queue unready]

vars == <<k, queue, task, pendSV, waited>>

queueUNLOCKED == -1
queueLOCKED_UNMODIFIED == 0

EventLists == Queues \X {"xTasksWaitingToSend", "xTasksWaitingToReceive"}
ToSend(q) == <<q, "xTasksWaitingToSend">>
ToReceive(q) == <<q, "xTasksWaitingToReceive">>

(* Each definition whose name ends in Faulty is a variant of the one that  *)
(* follows it, with a plausible mistake; the specification uses none.      *)

AddTicks(a, b) == (a + b) % (portMAX_DELAY + 1)
SubTicks(a, b) == (a - b) % (portMAX_DELAY + 1)

-----------------------------------------------------------------------------
(* Operations on the kernel's variables: s is the record k before them, the *)
(* result is the record after them.                                         *)

\* prvAddTaskToReadyList
AddToReady(s, t) ==
  [s EXCEPT !.pxReadyTasksLists[Priority[t]] = InsertEnd(@, t),
            !.uxTopReadyPriority = @ \cup {Priority[t]}]

\* uxListRemove of the running task's state item, then portRESET_READY_PRIORITY
\* when no task of its priority is left.
RemoveFromReadyFaulty(s, t) ==
  [s EXCEPT !.pxReadyTasksLists[Priority[t]] = ListRemove(@, t)]
RemoveFromReady(s, t) ==
  LET list == ListRemove(s.pxReadyTasksLists[Priority[t]], t)
  IN [s EXCEPT !.pxReadyTasksLists[Priority[t]] = list,
               !.uxTopReadyPriority =
                  IF list.items = <<>> THEN @ \ {Priority[t]} ELSE @]

\* listREMOVE_ITEM of the state item of a task that is blocked.
RemoveFromBlocked(s, t) ==
  [s EXCEPT !.pxDelayedTaskList = Without(@, t),
            !.pxOverflowDelayedTaskList = Without(@, t),
            !.xSuspendedTaskList = Without(@, t)]

\* prvResetNextTaskUnblockTime
NextUnblockTime(s) ==
  IF s.pxDelayedTaskList = <<>> THEN portMAX_DELAY
  ELSE s.xItemValue[Head(s.pxDelayedTaskList)]

\* prvAddCurrentTaskToDelayedList
AddCurrentTaskToDelayedList(s, xTicksToWait, xCanBlockIndefinitely) ==
  LET t == s.pxCurrentTCB
      r == RemoveFromReady(s, t)
      xTimeToWake == AddTicks(s.xTickCount, xTicksToWait)
      timed == [r EXCEPT !.xItemValue[t] = xTimeToWake]
  IN IF xTicksToWait = portMAX_DELAY /\ xCanBlockIndefinitely
       THEN [r EXCEPT !.xSuspendedTaskList = Append(@, t)]
     ELSE IF xTimeToWake < s.xTickCount
       THEN [timed EXCEPT !.pxOverflowDelayedTaskList =
                             SortedInsert(@, t, timed.xItemValue)]
       ELSE [timed EXCEPT !.pxDelayedTaskList = SortedInsert(@, t, timed.xItemValue),
                          !.xNextTaskUnblockTime =
                             IF xTimeToWake < @ THEN xTimeToWake ELSE @]

\* vTaskPlaceOnEventList: event items are sorted by
\* configMAX_PRIORITIES - uxPriority, that is, the highest priority first.
PlaceOnEventList(s, e, xTicksToWait) ==
  AddCurrentTaskToDelayedList(
    [s EXCEPT !.events[e] =
       SortedInsert(@, s.pxCurrentTCB, [t \in AllTasks |-> 0 - Priority[t]])],
    xTicksToWait, TRUE)

\* xTaskRemoveFromEventList; its result is HigherWoken.
HigherWokenFaulty(s, e) == FALSE
HigherWoken(s, e) ==
  /\ s.events[e] # <<>>
  /\ Priority[Head(s.events[e])] > Priority[s.pxCurrentTCB]

\* With the scheduler suspended the lists of tasks may be in use.
RemoveFromEventListFaulty(s, e) ==
  LET t == Head(s.events[e])
      r == [s EXCEPT !.events[e] = Tail(@),
                     !.xYieldPending = @ \/ HigherWoken(s, e)]
  IN AddToReady(RemoveFromBlocked(r, t), t)

RemoveFromEventList(s, e) ==
  LET t == Head(s.events[e])
      r == [s EXCEPT !.events[e] = Tail(@),
                     !.xYieldPending = @ \/ HigherWoken(s, e)]
  IN IF s.uxSchedulerSuspended = 0
       THEN AddToReady(RemoveFromBlocked(r, t), t)
       ELSE [r EXCEPT !.xPendingReadyList = Append(@, t)]

\* The event for the first waiting task, if there is one.
Wake(s, e) == IF s.events[e] = <<>> THEN s ELSE RemoveFromEventList(s, e)

\* The head of the delayed list leaves the Blocked state, and its event list.
UnblockFaulty(s, t) == AddToReady(RemoveFromBlocked(s, t), t)
Unblock(s, t) ==
  AddToReady([RemoveFromBlocked(s, t) EXCEPT
                !.events = [e \in EventLists |-> Without(s.events[e], t)],
                !.xPendingReadyList = Without(@, t)], t)

\* Each task of list in turn.
UnblockAll(s, list) ==
  LET after[n \in 0 .. Len(list)] ==
        IF n = 0 THEN s ELSE Unblock(after[n - 1], list[n])
  IN after[Len(list)]

\* taskSWITCH_DELAYED_LISTS
SwitchDelayedListsFaulty(s) ==
  LET r == [s EXCEPT !.xNumOfOverflows = (@ + 1) % OverflowRange]
  IN [r EXCEPT !.xNextTaskUnblockTime = NextUnblockTime(r)]

SwitchDelayedLists(s) ==
  LET r == [s EXCEPT !.pxDelayedTaskList = s.pxOverflowDelayedTaskList,
                     !.pxOverflowDelayedTaskList = s.pxDelayedTaskList,
                     !.xNumOfOverflows = (@ + 1) % OverflowRange]
  IN [r EXCEPT !.xNextTaskUnblockTime = NextUnblockTime(r)]

\* xTaskIncrementTick with the scheduler running: the state after it, and
\* whether it returns pdTRUE.
Counted(s) ==
  LET r == [s EXCEPT !.xTickCount = AddTicks(@, 1)]
  IN IF r.xTickCount = 0 THEN SwitchDelayedLists(r) ELSE r

\* The walk down the delayed list ends at the first wake time to come.
Due(s) ==
  LET list == s.pxDelayedTaskList
      later == {i \in 1 .. Len(list) : s.xItemValue[list[i]] > s.xTickCount}
  IN IF s.xTickCount < s.xNextTaskUnblockTime THEN <<>>
     ELSE SubSeq(list, 1, IF later = {} THEN Len(list) ELSE Min(later) - 1)

IncrementTick(s) ==
  LET c == Counted(s)
      r == UnblockAll(c, Due(c))
  IN IF c.xTickCount < c.xNextTaskUnblockTime THEN r
     ELSE [r EXCEPT !.xNextTaskUnblockTime = NextUnblockTime(r)]

\* A task of the same priority must run in turn, one of a higher at once.
SwitchRequiredFaulty(s) ==
  \/ \E t \in Members(Due(Counted(s))) : Priority[t] > Priority[s.pxCurrentTCB]
  \/ s.xYieldPending

SwitchRequired(s) ==
  \/ \E t \in Members(Due(Counted(s))) : Priority[t] >= Priority[s.pxCurrentTCB]
  \/ Len(IncrementTick(s).pxReadyTasksLists[Priority[s.pxCurrentTCB]].items) > 1
  \/ s.xYieldPending

\* xTaskResumeAll as far as the pended ticks: the tasks on the pending ready
\* list, where their event items are, are readied in the order of their events.
MovePendingReady(s) ==
  LET moved == UnblockAll(s, s.xPendingReadyList)
      higher == \E t \in Members(s.xPendingReadyList) : Priority[t] >= Priority[s.pxCurrentTCB]
  IN IF s.xPendingReadyList = <<>> THEN s
     ELSE [moved EXCEPT !.xYieldPending = @ \/ higher,
                        !.xNextTaskUnblockTime = NextUnblockTime(moved)]

\* vTaskSwitchContext
SwitchContext(s) ==
  LET p == Max(s.uxTopReadyPriority)
      list == NextEntry(s.pxReadyTasksLists[p])
  IN IF s.uxSchedulerSuspended > 0 THEN [s EXCEPT !.xYieldPending = TRUE]
     ELSE [s EXCEPT !.xYieldPending = FALSE,
                    !.pxReadyTasksLists[p] = list,
                    !.pxCurrentTCB = list.items[list.index]]

-----------------------------------------------------------------------------
\* A task outside the kernel's calls.  Inside one, after says what follows
\* xTaskResumeAll.
AtApp ==
  [pc |-> "app", call |-> NoCall, ticks |-> 0, xEntryTimeSet |-> FALSE,
   xOverflowCount |-> 0, xTimeOnEntering |-> 0, after |-> "none"]

\* The lists after all tasks have been created: pxCurrentTCB is the last one of
\* the highest priority.
Init ==
  /\ k = [pxCurrentTCB |-> Last(Created[Max(Priorities)]),
          pxReadyTasksLists |->
             [p \in Priorities |-> [items |-> Created[p], index |-> 0]],
          uxTopReadyPriority |-> Priorities,
          pxDelayedTaskList |-> <<>>, pxOverflowDelayedTaskList |-> <<>>,
          xSuspendedTaskList |-> <<>>, xPendingReadyList |-> <<>>,
          events |-> [e \in EventLists |-> <<>>],
          xItemValue |-> [t \in Tasks |-> 0],
          xTickCount |-> 0, xNumOfOverflows |-> 0,
          xNextTaskUnblockTime |-> portMAX_DELAY,
          uxSchedulerSuspended |-> 0, xPendedTicks |-> 0, xPendedCounts |-> 0,
          xYieldPending |-> FALSE]
  /\ queue = [q \in Queues |-> [uxMessagesWaiting |-> 0, cRxLock |-> queueUNLOCKED,
                                cTxLock |-> queueUNLOCKED]]
  /\ task = [t \in AllTasks |-> AtApp]
  /\ pendSV = FALSE
  /\ waited = [t \in Tasks |-> 0]

\* Inside a loop of a critical section no interrupt is taken.
Masked == task[k.pxCurrentTCB].pc \in {"wakeTx", "wakeRx", "unwind"}

\* PendSV, once pending, is taken before the next instruction of a task.
At(t, pcs) == t = k.pxCurrentTCB /\ task[t].pc \in pcs /\ ~pendSV

Goto(t, pc) == task' = [task EXCEPT ![t].pc = pc]

Return(t) ==
  /\ task' = [task EXCEPT ![t] = AtApp]
  /\ waited' = IF t = Idle THEN waited ELSE [waited EXCEPT ![t] = 0]

-----------------------------------------------------------------------------
(* Tasks                                                                   *)

\* A task that begins a call, or is back at the top of the loop of one.
Calling(t, op, c) ==
  /\ At(t, {"app", "try"})
  /\ c \in IF task[t].pc = "app" THEN Calls[t] ELSE {task[t].call}
  /\ c.op = op

\* The queue is not ready: give up, or go on to block.
NotReady(t, c) ==
  LET ticks == IF task[t].pc = "app" THEN c.ticks ELSE task[t].ticks
      entering == [pc |-> "suspend", call |-> c, ticks |-> ticks,
                   xEntryTimeSet |-> TRUE, xOverflowCount |-> k.xNumOfOverflows,
                   xTimeOnEntering |-> k.xTickCount, after |-> "none"]
  IN /\ IF ticks = 0 THEN Return(t)
        ELSE /\ IF task[t].xEntryTimeSet THEN Goto(t, "suspend")
                ELSE task' = [task EXCEPT ![t] = entering]
             /\ UNCHANGED waited
     /\ UNCHANGED <<k, queue, pendSV>>

\* The first critical section of xQueueGenericSend.
xQueueGenericSend(t) ==
  \E c \in Calls[t] :
    /\ Calling(t, "send", c)
    /\ IF queue[c.queue].uxMessagesWaiting < uxLength[c.queue]
         THEN /\ queue' = [queue EXCEPT ![c.queue].uxMessagesWaiting = @ + 1]
              /\ k' = Wake(k, ToReceive(c.queue))
              /\ pendSV' = HigherWoken(k, ToReceive(c.queue))
              /\ Return(t)
         ELSE NotReady(t, c)

\* The first critical section of xQueueReceive.
xQueueReceive(t) ==
  \E c \in Calls[t] :
    /\ Calling(t, "receive", c)
    /\ IF queue[c.queue].uxMessagesWaiting > 0
         THEN /\ queue' = [queue EXCEPT ![c.queue].uxMessagesWaiting = @ - 1]
              /\ k' = Wake(k, ToSend(c.queue))
              /\ pendSV' = HigherWoken(k, ToSend(c.queue))
              /\ Return(t)
         ELSE NotReady(t, c)

\* vTaskDelay: a delay of no ticks only yields.
vTaskDelay(t) ==
  \E c \in Calls[t] :
    /\ Calling(t, "delay", c)
    /\ IF c.ticks > 0
         THEN /\ task' = [task EXCEPT ![t] = [AtApp EXCEPT !.pc = "suspend", !.call = c,
                                                         !.ticks = c.ticks]]
              /\ UNCHANGED pendSV
         ELSE pendSV' = TRUE /\ UNCHANGED task
    /\ UNCHANGED <<k, queue, waited>>

vTaskSuspendAll(t) ==
  /\ At(t, {"suspend"})
  /\ k' = [k EXCEPT !.uxSchedulerSuspended = @ + 1]
  /\ Goto(t, IF task[t].call.op = "delay" THEN "delay" ELSE "lock")
  /\ UNCHANGED <<queue, pendSV, waited>>

\* The rest of vTaskDelay before the scheduler is resumed.
DelayCurrentTask(t) ==
  /\ At(t, {"delay"})
  /\ k' = AddCurrentTaskToDelayedList(k, task[t].ticks, FALSE)
  /\ task' = [task EXCEPT ![t].pc = "resume", ![t].after = "delayed"]
  /\ UNCHANGED <<queue, pendSV, waited>>

LockFaulty(lock) == lock
Lock(lock) == IF lock = queueUNLOCKED THEN queueLOCKED_UNMODIFIED ELSE lock

prvLockQueue(t) ==
  /\ At(t, {"lock"})
  /\ queue' = [queue EXCEPT ![task[t].call.queue].cRxLock = Lock(@),
                            ![task[t].call.queue].cTxLock = Lock(@)]
  /\ Goto(t, "check")
  /\ UNCHANGED <<k, pendSV, waited>>

xElapsedTime(t) == SubTicks(k.xTickCount, task[t].xTimeOnEntering)

TimedOut(t) ==
  /\ task[t].ticks # portMAX_DELAY
  /\ \/ /\ k.xNumOfOverflows # task[t].xOverflowCount
        /\ k.xTickCount >= task[t].xTimeOnEntering
     \/ xElapsedTime(t) >= task[t].ticks

\* On no timeout the time that is left is stored, with the time it is left at.
StillToWaitFaulty(t) == [task[t] EXCEPT !.ticks = @ - xElapsedTime(t), !.pc = "test"]
StillToWait(t) ==
  [task[t] EXCEPT !.ticks = @ - xElapsedTime(t), !.pc = "test",
                  !.xOverflowCount = k.xNumOfOverflows, !.xTimeOnEntering = k.xTickCount]

xTaskCheckForTimeOut(t) ==
  /\ At(t, {"check"})
  /\ task' = [task EXCEPT ![t] =
       IF TimedOut(t) THEN [task[t] EXCEPT !.ticks = 0, !.pc = "unlockTx", !.after = "expired"]
       ELSE IF task[t].ticks = portMAX_DELAY THEN [task[t] EXCEPT !.pc = "test"]
       ELSE StillToWait(t)]
  /\ UNCHANGED <<k, queue, pendSV, waited>>

\* prvIsQueueFull or prvIsQueueEmpty
QueueUnready(c) ==
  IF c.op = "send" THEN queue[c.queue].uxMessagesWaiting = uxLength[c.queue]
                   ELSE queue[c.queue].uxMessagesWaiting = 0

TestQueue(t) ==
  /\ At(t, {"test"})
  /\ task' = [task EXCEPT ![t] =
       IF QueueUnready(task[t].call) THEN [task[t] EXCEPT !.pc = "place"]
       ELSE [task[t] EXCEPT !.pc = "unlockTx", !.after = "retry"]]
  /\ UNCHANGED <<k, queue, pendSV, waited>>

vTaskPlaceOnEventList(t) ==
  /\ At(t, {"place"})
  /\ LET c == task[t].call IN
       k' = PlaceOnEventList(k, IF c.op = "send" THEN ToSend(c.queue) ELSE ToReceive(c.queue),
                             task[t].ticks)
  /\ task' = [task EXCEPT ![t].pc = "unlockTx", ![t].after = "blocked"]
  /\ UNCHANGED <<queue, pendSV, waited>>

\* The two critical sections of prvUnlockQueue: one event for each message sent
\* (and then: received) while the queue was locked, as long as a task waits.
prvUnlockQueueTx(t) ==
  LET q == task[t].call.queue IN
  /\ At(t, {"unlockTx", "wakeTx"})
  /\ IF queue[q].cTxLock > queueLOCKED_UNMODIFIED /\ k.events[ToReceive(q)] # <<>>
       THEN /\ k' = Wake(k, ToReceive(q))
            /\ queue' = [queue EXCEPT ![q].cTxLock = @ - 1]
            /\ Goto(t, "wakeTx")
       ELSE /\ queue' = [queue EXCEPT ![q].cTxLock = queueUNLOCKED]
            /\ Goto(t, "unlockRx")
            /\ UNCHANGED k
  /\ UNCHANGED <<pendSV, waited>>

prvUnlockQueueRx(t) ==
  LET q == task[t].call.queue IN
  /\ At(t, {"unlockRx", "wakeRx"})
  /\ IF queue[q].cRxLock > queueLOCKED_UNMODIFIED /\ k.events[ToSend(q)] # <<>>
       THEN /\ k' = Wake(k, ToSend(q))
            /\ queue' = [queue EXCEPT ![q].cRxLock = @ - 1]
            /\ Goto(t, "wakeRx")
       ELSE /\ queue' = [queue EXCEPT ![q].cRxLock = queueUNLOCKED]
            /\ Goto(t, "resume")
            /\ UNCHANGED k
  /\ UNCHANGED <<pendSV, waited>>

\* The end of xTaskResumeAll, in state s: it yields if a yield is pending, and
\* a caller that has blocked yields if it did not.
Resumed(t, s) ==
  /\ pendSV' = s.xYieldPending
  /\ CASE task[t].after = "blocked" -> Goto(t, IF s.xYieldPending THEN "try" ELSE "yield")
       [] task[t].after = "retry"   -> Goto(t, "try")
       [] task[t].after = "expired" -> Goto(t, "expired")
       [] task[t].after = "delayed" -> Goto(t, IF s.xYieldPending THEN "return" ELSE "yield")

xTaskResumeAll(t) ==
  /\ At(t, {"resume"})
  /\ LET s == MovePendingReady([k EXCEPT !.uxSchedulerSuspended = @ - 1]) IN
       /\ k' = [s EXCEPT !.xPendedCounts = s.xPendedTicks]
       /\ IF s.xPendedTicks > 0 THEN Goto(t, "unwind") /\ UNCHANGED pendSV
                                ELSE Resumed(t, s)
  /\ UNCHANGED <<queue, waited>>

\* The time a call with a time limit has taken so far.
TickWaited ==
  waited' = [t \in Tasks |->
    IF task[t].xEntryTimeSet /\ task[t].call.ticks # portMAX_DELAY
      THEN waited[t] + 1 ELSE waited[t]]

UnwindPendedTick(t) ==
  /\ At(t, {"unwind"})
  /\ LET s == [IncrementTick(k) EXCEPT !.xYieldPending = SwitchRequired(k)]
         last == k.xPendedCounts = 1
     IN /\ k' = [s EXCEPT !.xPendedCounts = @ - 1, !.xPendedTicks = IF last THEN 0 ELSE @]
        /\ IF last THEN Resumed(t, s) ELSE UNCHANGED <<task, pendSV>>
  /\ TickWaited
  /\ UNCHANGED queue

\* portYIELD_WITHIN_API
Yield(t) ==
  /\ At(t, {"yield"})
  /\ pendSV' = TRUE
  /\ Goto(t, IF task[t].after = "delayed" THEN "return" ELSE "try")
  /\ UNCHANGED <<k, queue, waited>>

\* The end of a call that timed out: xQueueReceive looks at the queue again,
\* xQueueGenericSend does not.
Expired(t) ==
  /\ At(t, {"expired"})
  /\ IF task[t].call.op = "receive" /\ ~QueueUnready(task[t].call)
       THEN Goto(t, "try") /\ UNCHANGED waited
       ELSE Return(t)
  /\ UNCHANGED <<k, queue, pendSV>>

DelayOver(t) ==
  /\ At(t, {"return"})
  /\ Return(t)
  /\ UNCHANGED <<k, queue, pendSV>>

TaskStep(t) ==
  \/ xQueueGenericSend(t) \/ xQueueReceive(t) \/ vTaskDelay(t)
  \/ vTaskSuspendAll(t) \/ DelayCurrentTask(t)
  \/ prvLockQueue(t) \/ xTaskCheckForTimeOut(t) \/ TestQueue(t)
  \/ vTaskPlaceOnEventList(t)
  \/ prvUnlockQueueTx(t) \/ prvUnlockQueueRx(t)
  \/ xTaskResumeAll(t) \/ UnwindPendedTick(t)
  \/ Yield(t) \/ Expired(t) \/ DelayOver(t)

-----------------------------------------------------------------------------
(* Interrupts                                                              *)

\* xPortSysTickHandler.  Bound: no tick while a call with a time limit has
\* taken the whole range of the tick count (49 days at 1 kHz), pended ticks included.
xPortSysTickHandler ==
  /\ ~Masked
  /\ \A t \in Tasks : waited[t] + k.xPendedTicks <= portMAX_DELAY
  /\ IF k.uxSchedulerSuspended = 0
       THEN /\ k' = IncrementTick(k)
            /\ pendSV' = (pendSV \/ SwitchRequired(k))
            /\ TickWaited
       ELSE /\ k.xPendedTicks < MaxPended
            /\ k' = [k EXCEPT !.xPendedTicks = @ + 1]
            /\ UNCHANGED <<pendSV, waited>>
  /\ UNCHANGED <<queue, task>>

xPortPendSVHandler ==
  /\ ~Masked /\ pendSV
  /\ k' = SwitchContext(k)
  /\ pendSV' = FALSE
  /\ UNCHANGED <<queue, task, waited>>

\* An interrupt has used queue q: the tasks that wait for it get the event now,
\* or when the queue, if it is locked, is unlocked.
EventFromISR(q, lock, e) ==
  /\ queue[q][lock] < MaxLock
  /\ IF queue[q][lock] = queueUNLOCKED
       THEN /\ k' = Wake(k, e)
            /\ pendSV' = (pendSV \/ (IsrYields /\ HigherWoken(k, e)))
       ELSE UNCHANGED <<k, pendSV>>
  /\ UNCHANGED <<task, waited>>

CountWhileLockedFaulty(lock) == lock
CountWhileLocked(lock) == IF lock = queueUNLOCKED THEN lock ELSE lock + 1

xQueueGenericSendFromISR(q) ==
  /\ ~Masked
  /\ queue[q].uxMessagesWaiting < uxLength[q]
  /\ queue' = [queue EXCEPT ![q].uxMessagesWaiting = @ + 1,
                            ![q].cTxLock = CountWhileLocked(@)]
  /\ EventFromISR(q, "cTxLock", ToReceive(q))

xQueueReceiveFromISR(q) ==
  /\ ~Masked
  /\ queue[q].uxMessagesWaiting > 0
  /\ queue' = [queue EXCEPT ![q].uxMessagesWaiting = @ - 1,
                            ![q].cRxLock = CountWhileLocked(@)]
  /\ EventFromISR(q, "cRxLock", ToSend(q))

Next ==
  \/ \E t \in AllTasks : TaskStep(t)
  \/ xPortSysTickHandler
  \/ xPortPendSVHandler
  \/ \E q \in IsrSends : xQueueGenericSendFromISR(q)
  \/ \E q \in IsrReceives : xQueueReceiveFromISR(q)

Spec == Init /\ [][Next]_vars

\* Ticks keep coming, and the processor is fast enough to take PendSV and to run
\* instructions between interrupts: a task that is given the processor again and
\* again gets to use it.
Fairness ==
  /\ WF_vars(xPortSysTickHandler)
  /\ SF_vars(xPortPendSVHandler)
  /\ \A t \in AllTasks : SF_vars(TaskStep(t))

FairSpec == Spec /\ Fairness

-----------------------------------------------------------------------------
Ready(s) == UNION {Members(s.pxReadyTasksLists[p].items) : p \in Priorities}
ReadyTasks == Ready(k)

TypeOK ==
  /\ k.pxCurrentTCB \in AllTasks
  /\ k.uxTopReadyPriority \subseteq Priorities
  /\ k.uxSchedulerSuspended \in {0, 1}
  /\ k.xTickCount \in TickType /\ k.xNextTaskUnblockTime \in TickType
  /\ k.xItemValue \in [Tasks -> TickType]
  /\ k.xYieldPending \in BOOLEAN /\ pendSV \in BOOLEAN
  /\ \A q \in Queues : /\ queue[q].uxMessagesWaiting \in 0 .. uxLength[q]
                       /\ queue[q].cRxLock \in -1 .. MaxLock
                       /\ queue[q].cTxLock \in -1 .. MaxLock
  /\ waited \in [Tasks -> 0 .. portMAX_DELAY + 1]

\* Each task's state item is on exactly one of the lists of tasks, once, with a
\* ready task on the list of its priority; its event item is at most once on
\* one event list or on the pending ready list.
ItemsOnOneList ==
  LET blocked == <<k.pxDelayedTaskList, k.pxOverflowDelayedTaskList, k.xSuspendedTaskList>>
  IN /\ \A p \in Priorities : LET items == k.pxReadyTasksLists[p].items IN
          IsInjective(items) /\ \A t \in Members(items) : Priority[t] = p
     /\ \A i \in 1 .. 3 : /\ IsInjective(blocked[i])
                         /\ Members(blocked[i]) \cap ReadyTasks = {}
                         /\ \A j \in 1 .. 3 \ {i} : Members(blocked[i]) \cap Members(blocked[j]) = {}
     /\ ReadyTasks \cup UNION {Members(blocked[i]) : i \in 1 .. 3} = AllTasks
     /\ \A e \in EventLists :
          /\ IsInjective(k.events[e])
          /\ Members(k.events[e]) \cap (ReadyTasks \cup Members(k.xPendingReadyList)) = {}
          /\ \A o \in EventLists \ {e} : Members(k.events[e]) \cap Members(k.events[o]) = {}
     /\ IsInjective(k.xPendingReadyList)
     /\ Members(k.xPendingReadyList) \cap ReadyTasks = {}

\* The bitmap that selects the next task has a bit for exactly the priorities
\* with a ready task, so the selected list is never empty (tasks.c:178).
TopReadyPriorityExact ==
  k.uxTopReadyPriority = {p \in Priorities : k.pxReadyTasksLists[p].items # <<>>}

\* queue.c:1444 and tasks.c:3102: only a task inside a blocking call that has
\* suspended the scheduler holds a queue locked, and no queue stays locked when
\* the call is over.
LockedOnlyWhileSuspended ==
  \A q \in Queues :
    queue[q].cTxLock # queueUNLOCKED \/ queue[q].cRxLock # queueUNLOCKED =>
      /\ k.uxSchedulerSuspended > 0
      /\ task[k.pxCurrentTCB].call.queue = q
      /\ task[k.pxCurrentTCB].pc \in {"check", "test", "place", "unlockTx", "wakeTx",
                                     "unlockRx", "wakeRx"}

\* A message that a waiting task could take is never left without a task that
\* is on its way to look at the queue: if a queue is not locked, has messages
\* and has tasks that wait to receive, at least as many tasks as there are
\* messages have been readied and will try again (queue.c:1447-1471, and the
\* same for senders and free places).  And no queue stays locked, which would make
\* the rest say nothing.
WillRetry(op, q) ==
  {t \in Tasks : /\ task[t].call.op = op /\ task[t].call.queue = q
                 /\ t \notin Members(k.events[ToSend(q)])
                 /\ t \notin Members(k.events[ToReceive(q)])
                 /\ \/ task[t].pc = "try"
                    \/ /\ task[t].pc \in {"unlockTx", "wakeTx", "unlockRx", "wakeRx",
                                          "resume", "unwind", "yield"}
                       /\ task[t].after \in {"blocked", "retry"}}

NoLostWakeup ==
  /\ LockedOnlyWhileSuspended
  /\ \A q \in Queues :
       /\ queue[q].cTxLock = queueUNLOCKED /\ k.events[ToReceive(q)] # <<>> =>
            queue[q].uxMessagesWaiting <= Cardinality(WillRetry("receive", q))
       /\ queue[q].cRxLock = queueUNLOCKED /\ k.events[ToSend(q)] # <<>> =>
            uxLength[q] - queue[q].uxMessagesWaiting <= Cardinality(WillRetry("send", q))

\* A task that is readied while one of lower priority runs gets the processor:
\* a switch is pending, in the interrupt controller or in xYieldPending, or the
\* scheduler is suspended and resuming it will see to it.
PreemptionNotLost ==
  (\E t \in ReadyTasks : Priority[t] > Priority[k.pxCurrentTCB]) =>
    \/ pendSV \/ k.xYieldPending \/ k.uxSchedulerSuspended > 0 \/ Masked
    \/ task[k.pxCurrentTCB].pc = "yield"

\* The time left that a call blocks with, however often it was woken in vain
\* and wherever the tick count wrapped, is the time asked for less the ticks
\* since it first found the queue unready; it gives up only when none is left.
BlockTimeExact ==
  \A t \in Tasks :
    LET c == task[t].call IN
    c.op \in {"send", "receive"} /\ c.ticks # portMAX_DELAY =>
      /\ task[t].pc \in {"test", "place"} => task[t].ticks = c.ticks - waited[t]
      /\ task[t].after = "expired" => waited[t] >= c.ticks

-----------------------------------------------------------------------------
(* The time base of this module implements module DelayedTasks.            *)

TicksLeft(t) ==
  IF t \in Members(k.pxDelayedTaskList) THEN k.xItemValue[t] - k.xTickCount
  ELSE IF t \in Members(k.pxOverflowDelayedTaskList)
    THEN k.xItemValue[t] + portMAX_DELAY + 1 - k.xTickCount
  ELSE 0

TimeBase == INSTANCE DelayedTasks WITH
  MaxNesting <- 1,
  xTickCount <- k.xTickCount,
  xNextTaskUnblockTime <- k.xNextTaskUnblockTime,
  pxDelayedTaskList <- Members(k.pxDelayedTaskList),
  pxOverflowDelayedTaskList <- Members(k.pxOverflowDelayedTaskList),
  xSuspendedTaskList <- Members(k.xSuspendedTaskList),
  xPendingReadyList <- Members(k.xPendingReadyList),
  xItemValue <- k.xItemValue,
  waiting <- UNION {Members(k.events[e]) : e \in EventLists},
  uxSchedulerSuspended <- k.uxSchedulerSuspended,
  xPendedTicks <- k.xPendedTicks,
  xPendedCounts <- k.xPendedCounts,
  pxCurrentTCB <- k.pxCurrentTCB,
  left <- [t \in Tasks |-> TicksLeft(t)],
  realTicks <- AddTicks(k.xTickCount, IF k.xPendedCounts > 0 THEN k.xPendedCounts
                                                          ELSE k.xPendedTicks)

\* Every step of the scheduler, of a queue call and of an interrupt is a step of
\* the time base or leaves it alone.
ImplementsTimeBase == TimeBase!Spec

-----------------------------------------------------------------------------
\* A call with a time limit returns, whatever the other tasks and the
\* interrupts do, if its task has the highest priority.
TimedCallsReturn ==
  \A t \in Tasks :
    Priority[t] = Max(Priorities) =>
      (task[t].xEntryTimeSet /\ task[t].call.ticks # portMAX_DELAY ~> task[t].pc = "app")

\* Tasks of the highest priority take turns: each that is ready runs.
TimeSlicing ==
  \A t \in Tasks :
    Priority[t] = Max(Priorities) =>
      (t \in ReadyTasks ~> k.pxCurrentTCB = t \/ t \notin ReadyTasks)
=============================================================================
