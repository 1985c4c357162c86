# A model of the temperature monitor and of the FreeRTOS kernel it runs on

This directory holds a TLA+ model of the program in `src/`: a FreeRTOS
(V202212.01) application for the LM3S811, a Cortex-M3, with a sensor, a filter,
a display and a statistics task. The modules are checked with TLC on small
instances. For every value of their constants the following are proved with
TLAPS: the time base of the kernel, the scheduler with the blocking queue calls,
the storage of queues, mutexes, suspension, event groups, stream buffers, software
timers, lists, the heap, the start, the numbers that are shown, and the application.
Paths below are relative to `src/`; `S/` is `FreeRTOS/Source/`.

Contents

1. The system: its parts, their state, and how they interact
2. The modules, and what they correspond to in the code
3. What is checked: runs, bounds, fairness
4. What is proved, and how
5. What the model shows about the code
6. What is not modelled
7. Plan

---------------------------------------------------------------------------

## 1. The system

The Makefile links `main.c`, `config.c`, `mytasks.c`, `stats.c`,
`init/startup.c`, the kernel (`S/tasks.c`, `S/queue.c`, `S/list.c`,
`S/portable/GCC/ARM_CM3/port.c`, `S/portable/MemMang/heap_4.c`), the OLED
driver `hw_include/osram96x16.c`, `rand.c`, some of FreeRTOS's demo tasks (none
of which is started), and the vendor's driver library.

What `FreeRTOSConfig.h` makes of the kernel matters to every statement below:
preemption and time slicing are on, the tick is 1 kHz and counted in 32 bits,
there are five priorities, the ready lists are selected through a bitmap
(`configUSE_PORT_OPTIMISED_TASK_SELECTION`), the heap has 7000 bytes,
`configASSERT` is not defined (the kernel's assertions compile to nothing), and
mutexes, timers and queue sets are off. The application's four tasks all have
priority 2; the idle task has priority 0.

The repository also holds the rest of the kernel: software timers, event groups,
stream buffers, mutexes, task notifications and the suspension of tasks. The
program uses none of it, and does not link some. It is modelled all the same,
as one reads it, because it is where the kernel's own difficulties lie; the
tables say what is linked.

### Components

| Component | Code | State it keeps | Operations |
|---|---|---|---|
| Kernel time base | `S/tasks.c` | tick count, overflow count, two delayed lists, suspended list, pending ready list, pended ticks, next unblock time, scheduler-suspended count | tick, block with or without a limit, ready by an event, suspend and resume the scheduler |
| Scheduler | `S/tasks.c` | ready lists with their `pxIndex`, bitmap of ready priorities, current task, yield pending | context switch, add to and remove from ready lists, event lists, `vTaskDelay`, time limits, idle loop (which does not yield, `FreeRTOSConfig.h:52`) |
| Queues: blocking | `S/queue.c` | two event lists, two lock counts, message count | send, receive, the same from interrupts, lock and unlock |
| Queues: storage | `S/queue.c` | the ring, write and read pointers | copy in at the back or the front, overwrite, copy out, peek, reset |
| Lists | `S/list.c`, `S/include/list.h` | doubly linked rings with an end marker | insert sorted, insert at the end, remove, next entry |
| Port | `port.c`, `portmacro.h` | BASEPRI, pending PendSV | critical sections, SysTick, PendSV |
| Heap | `heap_4.c` | free list, block headers, byte counts | allocate, free, merge neighbours |
| Sensor task | `mytasks.c:5` | none | a random temperature (15 to 29) every 100 ms into `xTempQueue` |
| Filter task | `mytasks.c:38` | window of 20 temperatures, the filter value N | receive, look for a new N, push, mean, send to `xDisplayQueue` |
| Display task | `mytasks.c:89` | a graph of 2 rows of 96 bytes | receive, shift the graph, draw the graph, the number and a label |
| Top task | `mytasks.c:130`, `stats.c` | task status array | print the table of run-time statistics to the UART, then wait |
| Number formatting | `stats.c:88` | a static buffer | `itoa` |
| UART interrupt | `config.c:99` | the UART's interrupt status | send a received character to `xUARTQueue` |
| Timer interrupt | `config.c:119` | count for the run-time statistics, jitter | count |
| Display driver | `osram96x16.c` | the I2C transfer in progress | draw an image, draw a string |
| Start-up | `main.c`, `config.c`, `startup.c`, `port.c:222-357` | what is created, BASEPRI, the nesting count | set up hardware, create queues and tasks, start the scheduler |
| Event groups (not linked) | `S/event_groups.c` | bits, a list of waiting tasks and what each waits for | set, clear, wait, meet (sync), delete, and set or clear from interrupts through the timer task |
| Software timers (not linked) | `S/timers.c` | two lists of active timers, the time last seen, a queue of commands | the timer task's loop; start, stop, change period, delete, create |
| Stream and message buffers (not linked) | `S/stream_buffer.c` | a ring with a head of the writer's and a tail of the reader's, who waits, a trigger level | send, receive, both from interrupts, reset, set the level |
| Mutexes (switched off) | `S/queue.c`, `S/tasks.c` | holder, recursive count, waiting tasks; priorities, mutexes held | take with a limit, give, recursive take and give, inherit, disinherit |
| Suspension and notifications | `S/tasks.c` | the suspended list, event items, notification states | suspend, resume, resume from an interrupt, notify, wait |

### How they interact

```
 rand() -> Sensor --xTempQueue--> Filter --xDisplayQueue--> Display --> OLED (I2C)
                                    ^                          \
 UART --interrupt--> xUARTQueue ----/                     itoa (static buffer)
                                                               /
                          Top --> table of run-time statistics --> UART
```

* Tasks call queues; a queue that is not ready puts the task on its event list
  and on a delayed or the suspended list of the kernel, and yields.
* An interrupt or another task that makes the queue ready takes the first task
  off the event list. If the scheduler is suspended at that moment the task goes
  to the pending ready list; if the *queue* is locked the interrupt only counts
  the event, and the task that unlocks the queue replays it.
* The tick interrupt takes tasks that are due off the delayed lists and off
  their event lists, and decides on time slices. With the scheduler suspended it
  only counts, and `xTaskResumeAll` replays the ticks.
* All lists of the kernel are `list.c`'s; a task has two items, one for the list
  that says what state it is in and one for event lists.
* Kernel objects live in the heap, whose calls suspend the scheduler.
* Until the first task runs, nothing but timer 0 may interrupt; what is created
  before then goes through critical sections whose end would let interrupts in.
* A stream buffer's ends share no lock; each notifies the other. An interrupt
  does not touch an event group but sends the call to the timer task.
* A task that waits for a mutex lends its priority to the holder.

### What is hard about it

* *Interleaving and atomicity.* A blocking queue call is some ten critical
  sections with interrupts possible between any two of them, and with two
  different ways of deferring an event. A lost wake-up needs three actors in
  one particular order.
* *Time.* The tick count wraps. Two lists change roles at the wrap, wake times
  wrap on their own account, a cached minimum decides whether the lists are
  looked at at all, and time limits are computed from a stored tick and a stored
  overflow count.
* *Deferred work.* Ticks, wake-ups and yields are all held back in certain
  states and have to be made up for exactly.
* *Shared state without protection.* `itoa`'s buffer is shared by two tasks that
  the tick switches between; the ring of a stream buffer by a writer and a
  reader, on purpose.
* *Time limits that meet what they wait for.* A task that times out runs later
  than that; meanwhile its event may happen, its bits be set, its lent priority
  be handed on.
* *Start.* What is enabled before what it uses exists.
* *Boundaries.* Ring ends, lists with one item, a list index on an item that
  leaves, window sizes, zero.

### What makes each component correct

* Time base: every delay ends with exactly the tick it should, whatever wraps;
  no task and no tick is lost.
* Scheduler: the bitmap names exactly the nonempty ready lists; a higher
  priority task gets the processor; equal ones take turns; every task is on the
  one list it belongs on.
* Queues: no task waits beside a message (or a place) it could have; a time
  limit is kept however often the task wakes in vain; messages arrive in order,
  once.
* Lists: the pointers are what the scheduler takes them for: sequences.
* Heap: blocks tile the heap, free ones are merged, the count is exact.
* Event groups: nobody waits for bits that are there; a rendezvous is one.
* Timers: one callback for each expiry, never early, across the wrap.
* Stream buffers: what is sent is received, in order, once; no notification is
  lost.
* Mutexes: the holder runs at least at the priority of those who wait, gets no
  more than was lent, and gives it back.
* Suspension: a task is suspended from the call that says so to the one that
  resumes it.
* Start-up: nothing runs before what it uses is there; the statistics count the
  time of tasks.
* Application: what the filter sends is the mean it is documented to send; the
  graph draws those means and nothing else; nobody waits in a circle; what is
  typed reaches the filter.

The file `PROJECT.json` lists the hazards one by one, with the line at which
each bites and the property that covers it, or the reason why none does. Smaller
ones, each a matter of a line or two, are among the observations of section 5.

---------------------------------------------------------------------------

## 2. The modules

| Module | Models | Relation to other modules |
|---|---|---|
| `DelayedTasks` | time base of `tasks.c` | abstract specification, implemented by `Kernel` |
| `DelayedTasks_proof` | | its theorems |
| `AppTasks` | the application's tasks and the idle task, as constants | extended by the modules that have tasks |
| `KernelLists` | what the operations of `list.c` compute, as operators on sequences | used by `Kernel`, `Lists`, `Mutex` and `Timers` |
| `KernelLists_proof` | | lemmas about these operators, about sums over finite sets and about walks along pointers, for the other proofs |
| `Kernel` | scheduler, blocking and locking of queues, tick, PendSV, interrupts | implements `DelayedTasks` (`ImplementsTimeBase`) |
| `Kernel_proof` | | its theorems |
| `Lists` | the promise of `list.c` | abstract specification, implemented by `LinkedList` |
| `LinkedList` | `list.c` pointer by pointer | implements `Lists` (`ImplementsLists`), hence the operators `Kernel` computes with |
| `LinkedList_proof` | | its theorems |
| `Fifo` | the promise of a queue about its messages | abstract specification, implemented by `QueueStorage` |
| `QueueStorage` | the ring of messages of `queue.c` | implements `Fifo` (`ImplementsFifo`) |
| `Heap4` | `heap_4.c` | on its own |
| `Filter` | `xTaskFilter` between its queues | extended by `Application`; also its abstract specification of the tasks around it |
| `Display` | `xTaskDisplay`, `plot`, the driver's transfers | instantiated by `Application` |
| `Application` | the four tasks and the UART interrupt | implements `Filter` (`ImplementsFilter`) |
| `Application_proof` | | its theorems, and those of `Filter` |
| `Itoa` | `itoa` with two callers | on its own |
| `Startup` | reset to first task, and the run-time clock | on its own; heap needs as `Heap4` rounds them |
| `Parts_proof` | | the theorems of `QueueStorage`, `Heap4`, `Startup` and `Itoa` |
| `EventGroups` | `event_groups.c` | on its own |
| `Timers` | `timers.c` | with the list operators of `KernelLists` |
| `StreamBuffer` | `stream_buffer.c` and the notifications it uses | on its own |
| `Mutex` | mutexes of `queue.c`, priority inheritance of `tasks.c` | with the list operators of `KernelLists` |
| `Mutex_proof` | | its theorems |
| `TaskSuspension` | the Suspended state among all kinds of waits | on its own |
| `Services_proof` | | the theorems of `EventGroups`, `TaskSuspension`, `StreamBuffer` and `Timers` |

The `MC*` modules give the constants small values for TLC; each `.cfg` is for
one of them, or for a component's own module. Two of them, `MCParts` and
`MCServices`, extend several components that share nothing but the names of tasks,
and put their specifications side by side: a variable `used` says which one takes the steps of
a behaviour, while the others stay as they begin. The reachable states are the
sum of the components', not their product, and a property of a component is
checked in the behaviours that use it.

The layers rest on each other in this way. `Application` treats a queue as a
bounded sequence on which a task waits until it can proceed, and a delay as
something that ends. That a waiting task is woken is what `Kernel` establishes
(`NoLostWakeup`, `TimeSlicing`); that messages come out as they went in, what
`QueueStorage` does; that delays end, `DelayedTasks`. `Kernel` computes with
sequences where the code has lists: `LinkedList` justifies it. These links
between layers are arguments, each side of which is checked; the links marked
"implements" in the table are checked themselves, as refinements.

### Conventions

* Names are those of the code. `S/tasks.c`'s variables are the variables of
  `DelayedTasks` and the fields of the record `k` in `Kernel`.
* A step of `Kernel` is what the code does with interrupts masked, or a single
  statement between two such sections. Interrupts may occur between steps
  (`Masked` says where not). In the application modules a step goes from one
  kernel call to the next, in `Itoa` it is a single access to the shared buffer.
* *History variables* (`left`, `realTicks`, `waited`, `readings`, `settled`,
  `plotted`, `alone` in `Itoa`; `entered`, `met`; `due`, `left`, `age` and
  `uptime` in `Timers`; `queued`, `sent`; `asleep`; `history` in `Startup`) record what properties speak of; no action
  of the code reads them.
* Definitions called `...Faulty` are variants of the definition that follows
  them, with a mistake one could make. They are not used by any specification.
  Substituting one for the original must make TLC find a violation, of the
  property `PROJECT.json` pairs it with; this is how we know that the property
  constrains the code.

### `DelayedTasks`

| Action | Code |
|---|---|
| `vTaskSuspendAll` | `tasks.c:2136` |
| `prvAddCurrentTaskToDelayedList` | `tasks.c:5310`; with `onEvent` from `vTaskPlaceOnEventList`, without from `vTaskDelay` |
| `xTaskIncrementTick` | `tasks.c:2736`: counted at once, or pended |
| `xTaskRemoveFromEventList` | `tasks.c:3183` |
| `xTaskResumeAll`, `UnwindPendedTick` | `tasks.c:2220`, and one turn of its loop over pended ticks |
| `vTaskSwitchContext` | `tasks.c:3021`: any ready task may be selected |

Lists are sets here (order is `Kernel`'s matter), which keeps the module within
reach of proof, and an item of a list that the code sorts is found as one with
the least value. `Ready` is what is not blocked. `left[t]` counts down the ticks
a delayed task has still to wait, and `realTicks` counts tick interrupts; both
are bounded by the width of the count.

### `Kernel`

The state is the record `k`; for each queue the number of messages and the two
lock counts; for each task where it is in a call, with the locals of the call;
and the PendSV bit. The operators of the first part map `k` to `k`, one for each
kernel function or macro, and carry its name. The steps of a call are, in order:

```
xQueueGenericSend / xQueueReceive   first critical section; try, or note the time
vTaskSuspendAll -> prvLockQueue -> xTaskCheckForTimeOut
   not expired: TestQueue (prvIsQueueFull / prvIsQueueEmpty)
        unready: vTaskPlaceOnEventList -> unlock -> xTaskResumeAll -> Yield -> try
        ready:   unlock -> xTaskResumeAll -> try
   expired:     unlock -> xTaskResumeAll -> Expired
```

where `unlock` is the two loops of `prvUnlockQueue`, one turn a step, and
`xTaskResumeAll` is followed by one `UnwindPendedTick` for each pended tick.
Interrupts send to and receive from queues with `xQueueGenericSendFromISR` and
`xQueueReceiveFromISR`; `IsrYields` says whether the handler passes on the woken
flag (`vUART_ISR` does not: it passes 0). `xPortSysTickHandler` and
`xPortPendSVHandler` are the other two interrupts.

`ImplementsTimeBase` maps lists to the sets of their members; `left` to the
distance from the tick count to the stored wake time, on either list; and
`realTicks` to the tick count plus what is pended.

### `LinkedList`, `QueueStorage`, `Heap4`

`LinkedList` has `pxNext`, `pxPrevious`, `pxContainer`, `pxIndex` and the count,
with `xListEnd` as a node of its own. Two lists suffice: one used as ready lists
are (`vListInsertEnd`, next entry), one as delayed and event lists are
(`vListInsert`), and items that change between them.

`QueueStorage` has the byte offsets `pcWriteTo` and `pcReadFrom`. The length of
the queue is chosen when it is created. Storage starts with arbitrary content,
because the heap does not clear it.

`Heap4` has the headers as two functions on addresses whose domain is the set of
addresses at which there is a header. A block is allocated, free, or `freeing`:
`vPortFree` clears its allocated bit before it suspends the scheduler, and other
tasks may use the heap in between.

### `Filter`, `Display`, `Application`, `Itoa`

`Filter`: one action for each part of `xTaskFilter` between two calls. The
window keeps what is beyond the current N, as the code does.

`Display`: a byte of the graph is the set of its bits. `plot` is modelled
with its order of writes: the upper row's byte is written before the shift,
the lower row's in the course of it. Of the driver the model has which byte it
draws in which column of which row (`Heights`: the first half of the image is the
upper row, the second half the lower one), and whether an I2C transfer is open.

`Application`: `SendTemperature`, `PrintTable` and the two delays stand for the
sensor and the top task, `vUART_ISR` for the interrupt, `CharacterArrives` for
someone at the keyboard. `uart.ris` is the raw interrupt status; what
`vUART_ISR` sees is masked with `UART_O_IM`.

`Itoa`: the buffer, and for each caller its pointer and what it has read.

### `Startup`

`pc` goes down the list `Program`: hardware, clock, three queues, four tasks, the
idle task, the scheduler. Each creation is two steps, `Allocate` (which may find
the heap too small) as far as into the critical section, and `Create` to its end,
where `vPortExitCritical` unmasks interrupts if the nesting count comes to 0. The
count begins at `0xaaaaaaaa` (`port.c:135`), in the model at 170: larger than
anything that nests. Interrupts may come between all steps, as BASEPRI lets them.
Then `vTaskSwitchContext` counts time and `xTaskTop` allocates what it prints.
The sizes of stacks are those of `config.c:22-25` and `FreeRTOSConfig.h`, of
structures those of the 32-bit target.

### `EventGroups`

A set of bits is a set. The value of an event item, in which `event_groups.c`
keeps bits and control bits together, is a record. `SetBits` is the walk down the
list; `Return` is the part of a call after it has blocked, where a task that timed
out finds out whether its bits have been set since. Interrupts leave their calls
in `pended`, the timer task's queue.

### `Timers`

A step of the timer task goes from one look at the tick count to the next; ticks
and commands come in between. `IsDue` is the comparison of three times of
`prvInsertTimerInActiveList`, `Reload` the loop of `prvReloadTimer`,
`SwitchTimerLists` what happens at the wrap. A command carries the time at which
it was given, which may be `MaxAge` ticks before it is queued, and it may lie in
the queue. `left` and `due` count, in ticks that do not wrap, when the next expiry
is and how many have had no callback yet.

### `StreamBuffer`

The steps of the writer and of the reader are cut at every access to what the
other one writes: the test for room, registering for a notification, waiting,
copying, moving the index, looking at the trigger level, notifying. A notification
is `ucNotifyState` alone. Bytes are numbered as they are sent, modulo `Bytes`;
a message is stored with its length in front.

### `Mutex`

The scheduler is what matters here: ready sets by priority, the bitmap, the
priorities and the values of event items. `PriorityInherit`,
`PriorityDisinherit` and `DisinheritAfterTimeout` are the three functions of
`tasks.c`, including the bit of the wrong priority that the last one resets
(`tasks.c:4315`): the path sets that bit again, so that no ready task is overlooked
(`ReadyTasksFound`), but the list left behind keeps its bit (section 5). A call is the sections of `xQueueSemaphoreTake`, in
the order of the code, and its time limit may end between any two of them.

### `TaskSuspension`

Each task's two list items and notification state; the delayed lists are one,
and which ready task runs is left open, so that suspension and resumption meet
each kind of wait in each of its stages, with the scheduler suspended or not.

---------------------------------------------------------------------------

## 3. What is checked

State counts are of distinct states; times are for two workers.

| Run | Module, configuration | Properties | States |
|---|---|---|---|
| `delayed_tasks` | `DelayedTasks`: three tasks, ticks of two bits, one suspension at a time, two ticks pended | `TypeOK`, `WakeTimes`, `UnblockTimeIsEarly`, `NoLostTask`, `ListMembership`, `TickCountDoesNotSlip`, `TickReadiesExactlyTheDue`, `DelaysEnd` | 605,336 (113 s) |
| `kernel_receivers` | `Kernel`: two receivers of priorities 2 and 1, one with a time limit; an interrupt that sends and does not yield; two places | `NoLostWakeup`, `PreemptionNotLost`, `BlockTimeExact` | 2,189,238 (71 s) |
| `kernel_senders` | `Kernel`: a sender that waits for ever and one with a time limit and delays, at the idle task's priority; an interrupt that receives and yields; one place | `NoLostWakeup`, `ItemsOnOneList`, `TopReadyPriorityExact`, `ImplementsTimeBase` | 848,448 (75 s) |
| `kernel_sharing` | `Kernel`: a receiver with a time limit and delays, and a sender of the same priority that never waits | `TimeSlicing`, `TimedCallsReturn` | 17,456 (23 s) |
| `application` | `Application`: a window of two, four columns, queues of one place | `GraphIsHistory`, `ImplementsFilter`, `TasksGetOn` | 117,549 (33 s) |
| `parts` | `MCParts`: the six components of the next table | those of the next table | 220,139 (130 s) |
| `services` | `MCServices`: the five components of the next table | those of the next table | 2,404,552 (111 s) |
| `filter_mean` | `Filter`: a window of four, values from 0 to beyond the window, two temperatures | `MeanOfLastN`, violated | |
| `application_uart` | `Application`, one temperature | `FilterValueReceived`, violated | |
| `mutex_nested` | `Mutex`: four tasks, one of which waits for a mutex with another in its hands | `HighestPriorityFirst`, violated | |
| `mutex_timeouts` | `Mutex`: four tasks, each of which takes both mutexes with a time limit | `SelectsFromReady`, violated | |
| `resume_suspended` | `TaskSuspension`, where tasks that wait for a notification are resumed too | `OnlySuspendedResume`, violated | |

| Part of | Component and its bounds | Properties |
|---|---|---|
| `parts` | `LinkedList`: three items, a ready list and a delayed list, three values | `Rings`, `ImplementsLists` |
| | `QueueStorage`: lengths 1 to 3, three messages, items of two bytes | `ImplementsFifo` |
| | `Heap4`: an array of 120 bytes at a misaligned address, requests of six sizes | `BlocksTile`, `FreeListExact`, `RefusedOnlyIfTooLarge` |
| | `Itoa`: numbers of no digit, one and two in one caller, of one digit in the other | `NumberIsShown` |
| | `Filter`: a window of three, values from 0 to beyond it, two temperatures | `MeanWhenSettled` |
| | `Startup`: the program's sizes in the program's heap, a clock of four values, five interrupts of timer 0 | `ReadyBeforeInterrupts`, `RunTimeExact` |
| `services` | `EventGroups`: three tasks, four bits, waits for any and all with every kind of limit, two meetings each, interrupts | `NoSatisfiedWaiter`, `Rendezvous` |
| | `Timers`: one of each kind, three periods, ticks of two bits, commands up to a tick old before they are queued | `CallbacksExact`, `ActiveIsListed` |
| | `StreamBuffer`: a ring of five, three sizes of what is sent, both kinds of buffer, interrupts | `SentIsReceived`, `NoLostNotification` |
| | `Mutex`: three tasks, a plain and a recursive mutex | `ReadyTasksFound`, `InheritanceEnds`, `HolderInherits` |
| | `TaskSuspension`: three tasks and the idle task | `SuspendedExactly` |

Deadlock is checked in every run but those with event groups, stream buffers,
mutexes or suspended tasks (`services`, `mutex_nested`, `mutex_timeouts`,
`resume_suspended`). There the system may stop, and rightly: tasks wait for bits
that nobody sets, a reader waits for more bytes while its writer waits for more
room, two tasks wait for each other's mutex.

Some definitions of a property are not in a configuration. `Application!TypeOK`
documents the variables; `Kernel!TypeOK`, `Timers`' `TimerTypeOK`, `QueueStorage`'s
`StorageTypeOK` and `PointersAgree`, and `DelayedListEmptyAtWrap`, are proved.
`LockedOnlyWhileSuspended` and `FreeListOrdered` are conjuncts of `NoLostWakeup`
and `FreeListExact`. `MCFilter` and `MCMutex` serve the violation runs only.

### What the runs show

`NoLostWakeup` is the heart of `queue.c`. If a queue is not locked and tasks
wait on it, then there are no more messages in it than there are readied tasks
still on their way back to look. The naive statement (a task waits, so the queue
is empty) is false: between the interrupt that wakes a task and the moment that
task runs, the message and a second waiter are there together. The property
counts those on their way. It is broken by a lock that does not lock, or that
does not count what happens while it is held.

`PreemptionNotLost` is about the woken flag: `vUART_ISR` throws it away, and the
code relies on `xYieldPending` to make up for it.

`BlockTimeExact` says that the ticks a call still has are those it was given
less those that passed since it found the queue unready, each time it goes on to
block; `waited` counts these.

`DelayedTasks`' properties are explained in section 4. `ImplementsTimeBase`
carries those that are invariants over to the interleaved kernel; section 4 has
the proof.

`TimedCallsReturn` is claimed for tasks of the highest priority in the system
only: others can be starved by design.

`MeanWhenSettled` is what the filter does guarantee; section 5 says what it does
not.

`NumberIsShown` is about two tasks that write into one buffer. That each reads its
own number would be false, and holds of a caller only if nobody disturbs it
(`alone`), which the program does not establish. What holds whoever disturbs it is
that the string has the length of its number, that each digit is one of the same
decimal place of some number (29 may be read as 23, not as 3 or 293), and that no
reader runs beyond the buffer.

`GraphIsHistory` says of the whole graph which dots it has: those of the last means,
each where `plot` puts it (`DotsOf`), and no others. The graph is not the plain
record one would draw. Counted in the driver's columns, low values (below 16) are
one column further to the left than high ones of the same age; the newest high value
has two dots; and a high value that leaves the upper row at the right is drawn once
more in column 0 of the lower row, as a value that is lower by 16. `DotsOf` has these
three as `plot` makes them (section 5); what the property excludes is everything
else: a dot lost, moved, repeated or left behind by the shift.

`FreeListExact` is one property because its parts are what one call of the
allocator leaves to the next: order, so that neighbours are found; no two free
neighbours; a count that decides whether the list is looked at.

`NoSatisfiedWaiter` is the event group's counterpart of `NoLostWakeup`, and
simpler, since the walk down the list releases every task that the bits satisfy
before any of them runs. `Rendezvous` says that no party to
`xEventGroupSync` has got through more often than each of the others has come. It
needs the bits cleared on every way out, the time-out that finds them set included.

`CallbacksExact` compares the timer task with a count of ticks that does not wrap:
a callback for each expiry, none early, and none outstanding when the task goes to
sleep. The comparisons of times modulo the range are right as long as the task
looks at the time, and at each command, within one range (the assumption of
`Timers!Tick`).

`SentIsReceived` compares the ring with the sequence of what was sent, at each
point between the accesses of both ends. `NoLostNotification` says where a waiting
task's notification is still to come from: the other end has registered it and is
at the step that looks.

`HolderInherits`, `InheritanceEnds` and `ReadyTasksFound` hold together although
a waiter may give up at any stage, the mutex may change hands meanwhile, and a
holder may be delayed or ready when its priority changes. In `services` a task may
wait for one mutex with the other in its hands, but is lent a priority meanwhile
only where it is the only one to wait, so that no list loses its order. Where four
tasks take both mutexes as they like (the configuration of `mutex_timeouts`, whose
11,029,646 states were explored for it once), `ReadyTasksFound` and `InheritanceEnds`
still hold, and `HolderInherits` does not: a holder may run below a task that
waits, because the lists are not sorted again (`mutex_nested`).

`ReadyBeforeInterrupts` is the property of the start: what has kept interrupts
out is the nesting count, far from 0 until the scheduler sets it, and no handler
has used a queue that was missing. It is checked with the sizes the program
allocates, in the heap it has.

### Bounds and why they suffice

* *Ticks of two bits* (`portMAX_DELAY = 3`). Every position of a delay relative
  to the wrap occurs with four counts: a delay that ends before it, at 0, after
  it, the longest one, and the value that means "for ever". The proofs do not
  have this bound. For timers the longest period is the whole range.
* *Two tasks and the idle task* in `Kernel`. A lost wake-up needs a waiter, one
  who takes the message, and someone who sends; the sender is the interrupt. The
  two tasks are on one event list, in either order of arrival.
* *MaxPended, MaxLock* bound ticks during one suspension and interrupts during
  one lock. One pended tick suffices in `Kernel` for every place where a tick
  can be held back; `DelayedTasks` has two. A lock count of two needs the loop of
  `prvUnlockQueue` to go round twice, once for each waiter. In `EventGroups`
  `MaxPended` bounds the calls left to the timer task.
* *OverflowRange = 2*, and no tick when a call with a limit has waited for the
  whole range of the count, ticks that are pended for it included: a call that is
  not looked at for 2^32 ticks (49 days) can mistake two wraps for none. This is a
  limit of the code (it compares the overflow counts only for being different), and
  of the model. The theorem on `BlockTimeExact` needs no other.
* *MaxNesting = 1* in the run, since nothing bounds how often code may nest and
  un-nest suspensions without ever resuming, and liveness needs it to. The
  proofs are for any nesting.
* *Windows, columns and rings of two to five*: one element at each end and one
  or two between. A window of four is the least in which a value can be lowered
  by two and raised again by one. A ring of five holds two messages of one byte,
  or one of three, and goes round the end in the middle of a message.
* *Heap of 120 bytes*: with a header of 8 there is room for five or six blocks,
  so that a freed block can have no, one or two free neighbours, and remainders
  on both sides of the minimum block size occur.
* *Three tasks and four bits*: two that meet, and a third one that sets and
  clears other bits they wait for, so that one set satisfies two waiters, one of
  which clears a bit of the other. `MaxSyncs = 2`: what a first meeting leaves
  over would be seen by the second.
* *Two timers, `configTIMER_QUEUE_LENGTH = 1`, `MaxAge = 1`*: one of each kind,
  so that they pass each other on both lists; a command is late by what it waits in the
  queue and one tick more.
* *Three tasks of different priorities, two mutexes, `MaxRecursion = 2`*: a
  holder, one who lends it a priority, and one who lends a higher one and gives up;
  with the second mutex the holder has one too many to be disinherited.
* *`ClockRange = 4`, `MaxTicks = 5`*: the run-time clock wraps once, and ticks
  before, during and after the start.

### Fairness

* `DelayedTasks`: weak fairness of the tick, of resuming and of unwinding. The
  timer is periodic; code that suspends the scheduler resumes it before it
  returns (this is visible in `Kernel`, where it is a step of the caller); and
  the unwinding loop runs with interrupts masked.
* `Kernel`: weak fairness of the tick, strong fairness of PendSV and of each
  task. Strong, because what is enabled for a task is disabled again and again
  by interrupts and by other tasks' slices; the assumption is that a task that
  is given the processor infinitely often executes instructions in those slices.
  A slice is a millisecond.
* `Parts`, `Services` and the violation runs that are not `application_uart`
  state no fairness: their properties are about safety.
* `Application`: weak fairness of each task's steps and of the interrupt handler,
  which rests on the `Kernel` results. Nobody has to type anything.


---------------------------------------------------------------------------

## 4. What is proved, and how

TLAPS (tlapm 1.4.5) proves every obligation of eight modules, those whose names
end in `_proof`. The assumptions are named in the module of the component and
evaluated by TLC in the runs; none bounds the number of tasks, queues, mutexes,
bits or bytes. Each invariant was checked with TLC on an instance before it was
proved.

### The time base

The assumptions are those of `DelayedTasks`,
and TLC evaluates them in the run `delayed_tasks`: the idle task is not one of
`Tasks`; `portMAX_DELAY` is a positive natural number; the two bounds are
natural numbers. So the theorems hold for any width of the tick count, any
number of tasks, any depth of nested suspensions and any number of pended ticks;
that the count has 2^32 values is not used.

| Theorem | States |
|---|---|
| `TypeCorrect` | `TypeOK`: no list, value or count leaves its type; the tick count and every stored wake time stay within the width of a tick |
| `WakeTimesCorrect` | `WakeTimes`: a stored wake time is the tick at which the delay ends, before or after the wrap |
| `UnblockTimeCorrect` | `UnblockTimeIsEarly`: the cached next unblock time is never later than the first wake time |
| `SwitchAssertionHolds` | `DelayedListEmptyAtWrap`: the assertion of `taskSWITCH_DELAYED_LISTS` (`tasks.c:206`), which this build compiles out, cannot fail (no run checks it again) |
| `NoTaskIsLost` | `NoLostTask`: a task blocked for ever can be reached, and none is left on the pending ready list |
| `EachTaskOnItsLists` | `ListMembership`: no task is on two lists, and one that waits for an event or pends is blocked |
| `TicksAreExact` | `TickReadiesExactlyTheDue`: a tick readies the tasks that are due and no others |
| `NoTickIsLost` | `TickCountDoesNotSlip`: ticks counted and ticks pended add up to those that occurred, modulo the range |

**The inductive invariant.** None of these properties is inductive by itself.
`IInv` is the conjunction of `TypeOK`, `WakeTimes`, `UnblockTimeIsEarly`,
`OneStateList`, `NoLostTask`, `EventItems` and `UnwindsResumed`. They need each
other as follows.

* A tick looks at the delayed list only if the count has reached
  `xNextTaskUnblockTime`. That it leaves no due task there (`WakeTimes`) rests
  on `UnblockTimeIsEarly`.
* When the count wraps, the overflow list becomes the current one and the old
  current list is thrown away. That nothing is on it
  (`DelayedListEmptyAtWrap`) follows from `WakeTimes` and `TypeOK`: a task on
  it would have a wake time greater than `portMAX_DELAY`. The same two show
  that the stored value of a task that crosses over means the same after the
  wrap as before.
* `OneStateList` makes removal from one list removal altogether; without it a
  task readied from one list could stay on another.
* `NoLostTask` says that the pending ready list is empty unless the scheduler
  is suspended. A tick that is unwound would break it, by readying a task that
  is still pending, unless unwinding takes place with the scheduler resumed:
  that is `UnwindsResumed`.
* `EventItems` says that a task that waits or pends is blocked, so that an event
  and a time limit cannot ready one task twice.

**The argument.** `HeadEntryIsLeast` shows that the first entry of a sorted list,
chosen as one of least value, is indeed least and exists (by the
well-foundedness of `<` on the naturals); `NextUnblockTimeIsBound` follows.
`AddTicksType` says what addition modulo the range gives. `TickExpires` names
the tasks that a tick readies: those of the new current list with one tick left.
There is one preservation lemma for each action of `Next`, and `NextIInv` puts
them together. `TicksAreExact` then needs only `TickExpires` and `IInv`.
`NoTickIsLost` is a matter of arithmetic modulo the range, by the uniqueness of
remainders (`RemainderUnique`) and the step `(a + 1) % n` (`ModStep`). TLC
confirmed `IInv`'s parts in `delayed_tasks` before anything was proved
(`OneStateList` and `EventItems` as `ListMembership`).

### Event groups

The assumption is `EventAssumption`, which TLC evaluates in the run `services`:
tasks and interrupts make the calls the interface allows, and a call that waits
waits for some bit (the assertions of `event_groups.c:205` and `332`). The
theorems hold for any number of tasks and bits and any set of calls; `NobodyMeetsAlone`
for those in which each party to the rendezvous has a bit of its own that all wait
for and only its own calls of `xEventGroupSync` set (`BitsAreTheirOwn`), as in the
example of `event_groups.h:628`. In the run `services` the bits A of `t1` and B of
`t2` are of this kind.

| Theorem | States |
|---|---|
| `TypeCorrect` | `TypeOK`: whatever is set, cleared or stored in an event item is made of bits of the group |
| `EveryWaiterIsReleased` | `NoSatisfiedWaiter`: no task waits for bits that are there |
| `NobodyMeetsAlone` | `Rendezvous`: nobody has met the others more often than each of them has come |

**The inductive invariant** is `IInv`: `TypeOK`, `NoSatisfiedWaiter`, and
`ItemsTell`. The last is needed because the walk down the list tests event items,
while the property speaks of the calls: a task on the list is in a call that
waits, and its item says what for.

**The argument.** `FewerBits`: a call that bits do not satisfy is not satisfied
by fewer. `SetBitsReleases`: the walk leaves nobody on the list whom the bits
satisfy as they are with the new ones set; what is left after it is fewer bits, so
nobody is satisfied by those. `ClearedBits` is the same for the steps that only
clear bits or take tasks off the list (clearing, time-outs, returning, deletion).
`Joins` is for the one task that comes onto the list: it does so because it was
not satisfied. `NextReleases` has one step for each action.

**The rendezvous.** A party may have been released and not have run yet, may have
timed out and left its bit set, and may come again before it is cleared. `MeetInv`
adds to `IInv` that the calls are those of the task (`CallsAreTheirs`) and a
`Tally` for any two parties: the meetings of the one, and one more if it is
released and has still to count it, and one more if the other one's bit is set,
are at most the visits of the other. A walk that releases a party finds all marks
set and clears them (`ReleasedMeet`); a party that sets its own bit has just come.

### The scheduler and the queues

`KernelAssumption`: finitely many tasks, priorities of at most 31 (the bits of a
word, `portmacro.h:142`), the idle task of priority 0 created last, queues of one
place or more. `portMAX_DELAY` may be any number above zero, `OverflowRange` any above
one, and `MaxPended` and `MaxLock` any at all.

| Theorem | States |
|---|---|
| `KernelInvariant` | the inductive invariant, `KernelIInv` |
| `BitmapIsExact` | `TopReadyPriorityExact`: the bitmap has a bit for exactly the ready lists that are not empty |
| `EachTaskOnOneList` | `ItemsOnOneList`: each task is on one list, once, a ready one on that of its priority, and waits for one event at most |
| `WakeupsAreNotLost` | `NoLostWakeup` |
| `PreemptionIsKept` | `PreemptionNotLost` |
| `KernelImplementsTimeBase` | `ImplementsTimeBase`: each step is a step of `DelayedTasks`, or none |
| `BlockTimesAreExact` | `BlockTimeExact`: a call blocks for what is left of its time, and gives up when nothing is |
| `TypeCorrect` | `TypeOK`: no queue holds more than its places or less than nothing, the scheduler is suspended at most once, no tick or priority leaves its range |

**The inductive invariant** is about more than the queues, for whether a wake-up is
lost depends on who holds what:

* `Scheduling`: types and lists (`Good`, the part every operator of `k` keeps by
  itself); only the running task is where the scheduler is suspended, and it is
  suspended once (`Control`); the running task is ready, or about to give way
  (`CurrentReady`).
* `Locks`: only the queue of the running task's call is locked, from
  `prvLockQueue` to the end of `prvUnlockQueue`. Together with `Control` this is
  why a lock never outlives its call.
* `Waiters`: a task on an event list is in the call this list is for, and looks
  at the queue again when it is woken.
* `Supplied`: what a queue has for the tasks that wait, less what the lock counts
  still have to tell them (`Told`), is no more than the tasks that will look again.
* `Placing`: a task about to wait has seen the queue unready with the lock set;
  what came since is counted. Without it the step that places it would break
  `Supplied`.
* `Preempting`: a ready task above the running one has a switch coming.

**The argument.** One lemma for each operator on `k` says what it does to the sets
of tasks on each list and which fields it leaves alone; one lemma `...Keeps` for each
action puts them together. Each step of accounting is an instance of `Balanced`: if
the supply told grows by one, one more task looks again, or none waits.
The lists themselves are the matter of `KernelLists_proof`, whose lemmas say what
inserting, removing and taking the next entry do to the members, to the order, and
to the place of the index, for lists of any length. Where induction is needed it is
over a number that is given (`LeastNatural`, from well-foundedness).

**The refinement.** `DelayedTasks` sees lists as sets and has the delays as what is
left of them; `Kernel` has lists in an order and stored wake times. That a step
maps to a step rests, besides `KernelIInv`, on `Timely`: the delayed lists are in the
order of their wake times, these are still to come, and the next look at them is not
too late (`OnTime`); nothing pends unless the scheduler is suspended; ticks are
unwound by the running task and by no other (`Unwinding`); and a call that goes on to
block has ticks left (`InRange`). The order is what makes the first item of a list
the least of the set (`EarliestIsHead`), the items that a tick takes from its front
all those that are due, and the list that is left the set without them.
`StepFollows` has one lemma `...Follows` for each action. With the theorems on
`DelayedTasks` this makes the exactness of delays a fact about the interleaved
kernel, for every value of its constants.

**The time of a call.** `xTaskCheckForTimeOut` has two stored values to tell the time
by, a tick count and a number of overflows, and they are taken anew at each look.
`BlockTimeExact` is not inductive: between two looks it says nothing. `Punctual` says
of each call what its values tell (`Tells`): with *d* the ticks since they were
stored, which is the ticks waited less those already accounted for, either the count
is *d* further and the overflows are the same, or the count has wrapped once and they
differ. Each tick keeps this, through the wrap (`ClockedTicks`), as long as *d* is at
most one range; that is the guard of the tick, and since a pended tick reaches the
calls only when it is unwound, the bound counts what is still to be unwound (`Owed`).
`ElapsedTime` is what the code's test makes of it: it finds the time expired exactly
if *d* is at least what is left, and otherwise its modular difference is *d*. One
lemma `...Punctual` for each action does the rest.

The attempt corrected the model. The guard of the tick used to count waited ticks
only, which suffices with one pended tick and no more; with two, TLC finds a
suspension that spans a whole range and a call that takes two wraps for none. It is
the same limit of the code, met by a long suspension instead of a long wait.

### Queue storage

| Theorem | States |
|---|---|
| `PointersStayInTheRing` | `StorageTypeOK` and `PointersAgree`: both pointers are inside the storage, and apart by the number of messages |
| `StorageImplementsFifo` | `ImplementsFifo`: the ring implements the bounded queue of `Fifo`, step by step |

for any lengths and item size (`QueueAssumption`). `StorageInv` has the pointers in
whole places; the proof of the refinement has one step for each way in and out,
sending to the front and overwriting included, and compares the contents read
round the end of the ring with the sequence of `Fifo`, place by place.

### Mutexes

| Theorem | States |
|---|---|
| `MutexInvariant` | the inductive invariant, `MutexIInv` |
| `NoReadyTaskOverlooked` | `ReadyTasksFound`: a ready task is on the list of its priority and its bit is set, in spite of the wrong bit that a time-out resets |
| `InheritedPriorityEnds` | `InheritanceEnds`: who holds no mutex has its own priority |
| `HolderRunsHighEnough` | `HolderInherits`: a holder has at least the priority of each task that waits |

The first three hold for any tasks, mutexes and calls (`MutexAssumption`), nested
ones too. The last has a hypothesis, `WaitersHoldNone`: a task which may wait for a
mutex takes no other one, unless it has the highest priority of all. That TLC finds
`HolderInherits` violated without it (section 3) is why it is there: it is about the
calls an application makes, like the advice against nesting. The run `services`
checks the property for a set of calls that goes beyond the hypothesis; an instance
of four tasks within it, of 209,552 states, was explored before the proof.

`MutexIInv` has, besides the properties themselves, types and the counts of mutexes
held (`SchedulerOK`, `MutexesOK`, `TakersOK`), what the bitmap tells (`Found`: a bit
may be set too many, none may be missing), and that each list of waiting tasks has
the tasks that block there, once (`WaitersExact`). `HolderIInv` adds what the priority
of a holder rests on: event items tell priorities (`ItemsAgree`), no task is below
its own (`AtLeastOwn`), lists of waiting tasks are in order (`WaitersSorted`), and
while a mutex is free, who is about to take it is not below those who still wait
(`NextHolder`, `RunsReady`). The order is where the hypothesis comes in: nobody
is lent a priority while it is on a list.

### Suspension

`SuspendedStateIsExact` states `SuspendedExactly`: a task is suspended from the call
that says so to the one that resumes it, whatever it waited for meanwhile, provided
a task that waits for a notification is not resumed (`ResumeWaiters` is FALSE; the
code takes it for suspended, section 5). The inductive invariant, `SuspensionInv`,
relates the lists of a task's two items to its notification state: without it the
cases that `prvTaskIsTaskSuspended` tells apart would not be distinguished.

### Stream and message buffers

| Theorem | States |
|---|---|
| `NeitherSideOverruns` | the inductive invariant, `StreamIInv` |
| `NoNotificationIsLost` | `NoLostNotification`: who waits for what is there is in the field that the other side is about to look at |
| `WhatIsSentIsReceived` | `SentIsReceived`: what was received and what is in the ring make up what was sent, message by message, at each step |

for any size of the ring and of a message's header, any amounts, levels and numbers
of calls, with interrupts or without (`StreamAssumption`).

The ring has no lock, so each side works with counts that are stale. `WriterOK` says
that a writer, until it moves `xHead`, knows of no more room than there is, and has
put the length of a message where its reader will look; `ReaderOK` that a reader
knows of no more bytes than there are. Both stay true because each side's steps only
ever favour the other (`SentMoves`, `ReceivedMoves`), and what is written lies ahead
of what is in use (`AheadOfHead`, `FilledRing`). `Registered` and `WaitsInVain`
are the notifications: a task that waits is in its field, and waits for what is not
there, unless the other side is just about to look. For a message buffer one needs
`WholeMessages` too: a reader waits if there are no more bytes than a header takes,
and that this means *none* is because a message is never there in part.

`WhatIsSentIsReceived` is about the bytes themselves. `ContentsInv` says that the
bytes in use are those of the messages which were sent and not received, headers
included (`Holds`), that what a writer has copied lies ahead of `xHead` (`InPlace`),
and that what a reader has copied out is still in the ring (`Copied`). Only two steps
change what is in the ring: the head moves, and the bytes written become a message;
the tail moves, and the first bytes or the first message leave. All others are
`Quiet`. That the bytes are those of the *concatenation* is shown for the flattened
sequence of any messages, place by place.

### Software timers

| Theorem | States |
|---|---|
| `TimersInvariant` | the inductive invariant, `TimersInv` |
| `TimersTyped` | `TimerTypeOK` |
| `CallbacksAreExact` | `CallbacksExact`: one callback for each expiry, none early, and none outstanding while the timer task sleeps |
| `ActiveTimersAreListed` | `ActiveIsListed`: a timer is on one list, once, exactly while it is active |

for any range of the tick count, any timers, any length of the command queue, and
periods from one tick to the whole range (`TimerAssumption`; that a period is not 0 is
the assertion of `timers.c:363`). The one limit is that of the model's tick: the timer
task looks at the time, and at each command, within one range, without which the
comparisons of `timers.c` cannot be right.

`CallbacksExact` speaks of what is owed to each timer, which the code does not store.
The invariant has the account that connects the two (`Account`). Take the time of a
timer on its list, counted from the start of the range of the last look, one range
more on the overflow list (`ExpiryOf`). For an auto-reload timer, this time and a
period for each callback owed make up the time now and the ticks to the next expiry.
`ListsOK` has this for each timer, and that both lists are sorted. `DaemonOK` says that
a sleeping timer task wakes no later than the first of these times: the head of a
sorted list is its least. `QueueOK` says that a command to start a timer tells when it
was given: the time it carries, and the ticks since then, make up the tick count.

Each operation keeps the accounts of the other timers and closes that of its own.
`IsDueTells` is what the comparison of three times in
`prvInsertTimerInActiveList` decides, over the wrap of the tick count: whether at
least a period has passed since the time of the command. `MissedIs` and `ReloadIs`
give what the loop of `prvReloadTimer` computes, namely quotient and remainder of the
ticks passed by the period; they are found by a least counterexample, and are the same
that the history counts. `SwitchTimerLists` is a fold over the current list: each of
its timers goes to the overflow list or ends (`SwitchIs`), which is why the list that
becomes current at the wrap holds nothing of the range that has ended. The invariant
was checked with TLC on two timers, a queue of two commands and ticks of two bits
(9.9 million states) before it was proved.

### Lists

`LinkedListAssumption`: finitely many items, and ends of lists that are not items;
values of items and the number of priorities are any.

| Theorem | States |
|---|---|
| `LinkedInvariant` | the inductive invariant, `LinkedInv` |
| `ListsAreRings` | `Rings`: every list is a ring of its own items, in both directions |
| `PointersImplementLists` | `ImplementsLists`: each operation of `list.c` does to the pointers what the operator of `KernelLists` does to a sequence |

The second is what `Kernel`, `Mutex` and `Timers` rest on where they compute with
sequences. `Rings` alone is not inductive: two rings in the container of one list
would satisfy it, and removing and inserting would then work on one of them.
`LinkedInv` says that for each list there *is* a sequence of different items along
which its pointers go (`Linked`), that no item is in two of them, and that containers,
counts and the index agree. The search in `vListInsert` and the walk of the
abstraction (`ItemsFrom`) are recursive functions on the pointers: what they compute
is shown along the sequence, by induction on the place.

### Heap

`HeapAssumption`: sizes, alignment, the size of a header and the mark of allocated
blocks are natural numbers, with room for one block; so for any heap and any
requests, in any order.

| Theorem | States |
|---|---|
| `HeapInvariant` | the inductive invariant, `HeapInv` |
| `BlocksTileTheHeap` | `BlocksTile` |
| `FreeListIsExact` | `FreeListExact`: the free list has the free blocks, by address, merged, and the count of bytes is their sum |
| `RefusalMeansTooLarge` | `RefusedOnlyIfTooLarge` |

`HeapInv` speaks of a set of blocks and a set of free ones: the blocks tile the heap
(`Tiled`), the list goes through the free ones without leaving one out (`Ordered`), no
two of them touch (`Apart`), and the free bytes are the sum over them. Each step is a
composition of four operations on this structure, with a lemma for each: cutting a
block (`CutBlock`), taking one off the list (`TakeBlock`), placing one (`PlaceBlock`),
joining two that touch (`JoinBlocks`). The walks along the list end because addresses
grow (`LoopEnds`), and stop at the right place because it is ordered
(`LastBeforeFound`, `PreviousFound`). A block that is being freed is neither allocated
nor on the list (`freeing`): for such a block the tiling holds, and nothing else is
claimed.

### The start and the run-time clock

| Theorem | States |
|---|---|
| `RunTimeInvariant` | the inductive invariant of the clock, `RunInv` |
| `StatisticsAreExact` | `RunTimeExact`, for any range of the clock |
| `StartsUninterrupted` | `ReadyBeforeInterrupts`, if the heap suffices |

The last has the hypothesis `HeapSuffices`: the blocks of all objects and of the two
buffers of `xTaskTop` fit the heap together. It is a sum of constants. TLC evaluates
it for the sizes of the program (`ProgramFits` in `MCParts`): 2584 of 6984 bytes. What is proved
is that this is enough at each moment, although nothing tests a
result, and although each creation leaves and enters critical sections. `ReadyInv`
says at which statement of `main` (`Stage`) which objects exist, that interrupts are
masked from `portDISABLE_INTERRUPTS` to the first task, and why the critical
sections do not unmask them: the nesting count starts far above zero
(`NestingAtBoot`, `port.c:135`), and only the start of the scheduler clears it. It
keeps the account of the heap: what is left covers what is pending.

### Numbers

`NumbersAreShown` states `NumberIsShown`, for any callers and any numbers from 0 to the
largest `int` (`ItoaAssumption`; `stats.c:88`; a zero is written as no digit at all, and
the program has no negative ones). It has two inductive invariants, one on top of the
other. `ItoaInv` says of a caller nobody has disturbed that the digits of what is still to be divided, the digits in the buffer,
and those read so far are together the digits of its number, in this order (`Shows`).
The loop of `itoa` ends for one of two reasons, and only one of them is right: that no
place is left must not come first. A number of 32 bits has at most ten digits
(`DigitsOfInt`), there are 30 places, and a digit is left for each place that is
(`ReturnKeeps`). Of callers that disturb each other it keeps that the last place of
the buffer is never written.

`PlacesInv` is about these. What is in the buffer is, at each place, a digit of that
place of a number some caller writes. What a caller has still to divide is the
beginning of its number (`Begins`), so that it stops writing after as many places as
its number has digits; and a place once written is never NUL again, so that it reads
as many (`Progress`).

`Digits` is a recursive function on all numbers. That it exists and does what its
equation says (`DigitsDef`) is shown from its parts up to each number
(`DigitsUpToExist`, `DigitsAgree`).

### The application

| Theorem | States |
|---|---|
| `FilterInvariant` | the inductive invariant, `FilterInv` |
| `MeanIsOfTheLast` | `MeanWhenSettled` |
| `ApplicationImplementsFilter` | `ImplementsFilter`: the application's steps are steps of the filter between any tasks, or none |
| `GraphShowsTheMeans` | `GraphIsHistory`: the graph has the dots of the last means received, and no others |

for any sizes of the window, the queues and the display, and any values
(`FilterAssumption`). `FilterInv` says which entries of the
window are temperatures that came since its size was last changed (`WindowTells`):
the first ones, as many as have come, shifted by one while the newest is still in
`last_temp`. That the mean is theirs is then equality of two sums, term by term.
`ApplicationImplementsFilter` makes this a fact about the program's four tasks.
`GraphInv` says of every byte of the image whose it is, the byte between the rows
included: it belongs to the oldest mean's upper half and is drawn in the lower row.

### Only model-checked

* *Liveness* (`DelaysEnd`, `TimeSlicing`, `TimedCallsReturn`, `TasksGetOn`) is beyond
  the prover, which knows neither fairness nor `ENABLED`.
* *Every other invariant and action property of a passing run* is a theorem. The runs
  that show a disagreement with a comment (section 5) have none.

Where a proof needs induction over data (sums over a finite set, walks along
pointers), it is by a least counterexample: a set of natural numbers has a least
element (`LeastNatural`), and a finite set is reached from the empty one
(`SetInduction`). The library's theorems that take an operator as a parameter are of
no use to the installed provers, so that each instance is spelt out.

---------------------------------------------------------------------------

## 5. What the model shows about the code

Five runs show code that differs from what a comment or a document of the
repository says of it. Two are about the application:

* **`filter_mean`.** `README.md:57` says that the filter task "computes the last
  N values mean". When N grows, the window still has what was in it when it was
  last that large: after N went from 20 down to 2 and then up to 4, the mean is of
  the three last temperatures and one from before (`mytasks.c:61-79`). What does
  hold is `MeanWhenSettled`: N temperatures after a change it is the mean of the
  last N.
* **`application_uart`.** `README.md:56` makes the filter task "responsible to
  receive the temperature values and the filter values", and these come from the
  UART. `config.c:53` unmasks the receive interrupt only (its comment says "Tx
  interrupts"), and `vUART_ISR` (`config.c:99-117`) reads the masked status,
  clears what it found, and takes the character only if the *transmit*
  interrupt is among it, which the mask excludes. So a value that is typed never
  reaches `xUARTQueue`. Each of the two lines is plausible alone.

Three are about parts of the kernel the program does not use or has switched off:

* **`mutex_nested`.** `queue.c:112` says that a queue's waiting tasks are "Stored
  in priority order", and `tasks.c:3191` builds on it. A task that waits for one
  mutex while it holds another may be lent a priority (`tasks.c:4094`): the value
  of its event item changes and its place on the list does not. A task of a lower
  priority, which came before it, is then woken first.
* **`mutex_timeouts`.** `tasks.c:178` asserts that the list the scheduler selects
  from is not empty, and `tasks.c:4312` that "the port level reset macro can be
  called directly". When a waiter gives up, the holder's priority is lowered
  (`tasks.c:4283`) before its ready list is left (`tasks.c:4315`), so that the bit
  that is reset is that of the new priority. One way to it: `g` (priority 2) holds M
  and waits for R, which `f` (1) holds and for which `f` runs at 2; `h` (3) waits
  for M, so that `g` is at 3; `g`'s time ends and `f` goes back to 1. List 2 is
  empty now and its bit is set; when `g` blocks again the scheduler selects list 2.
* **`resume_suspended`.** The comment at `tasks.c:1839` asks whether a task on
  `xSuspendedTaskList` is suspended or "blocked with no timeout". The test that
  follows looks at the event item, which a wait for a notification leaves alone:
  `vTaskResume` of a task that waits for a notification makes it ready.
  `eTaskGetState` has the test that is missing. Where no such task is resumed,
  `SuspendedExactly` holds.

Everything else the kernel does is as it says, at every configuration checked.

Further observations, for which there is no run because there is nothing to
explore: each follows from the lines named.

* `mytasks.c:56`: "Check N_UART <= N_MAX", but the test below refuses `N_MAX`
  itself.
* `mytasks.c:178-192`: the upper row's new byte is put in column 1 before the shift,
  which copies it to column 2 and leaves it in column 1, while the lower row's goes
  to column 1 in the course of the shift. So the newest value is drawn twice if it
  is high, and later ones are a column further to the right in the upper row than in
  the lower. The comment at `mytasks.c:189` calls byte 97 the "primer pixel de la
  segunda fila", the first of the second row; for the driver that is byte 96
  (`osram96x16.c:693-725`, `779`).
* `mytasks.c:192`: the shift goes on from byte 95, the end of the upper row, to byte
  96, the first column of the lower one. The mean that came 95th last, if it is
  high, is drawn there as one that is lower by 16. (`Display!DotsOf` has all of this.)
* `mytasks.c:111`: the image is 96 columns wide and drawn at column 15, and a
  string is drawn in row 2; the driver's assertions
  (`hw_include/osram96x16.c:744` and `593`) forbid both, and are compiled out. The
  panel shows the first 81 columns of the image, and the number is drawn over its
  lower row from column 69 on. The model ends with what the driver is given.
* `stats.c:95`: `itoa(0)` yields no digits, where the standard function yields
  "0" (`stats.h:59`: "Similar to itoa from stdlib"). With an empty string
  `OSRAMStringDraw` returns with its I2C transfer open
  (`osram96x16.c:448`); the next string closes it.
* `stats.c:91`: the buffer of `itoa` is static and two tasks of one priority call
  it. The display can show digits of a statistic, each in its own decimal place:
  without the condition `alone` the last conjunct of `NumberIsShown` is violated.
* `mytasks.c:112`: at column 84 the display has room for two characters
  (`osram96x16.c:606-670`). A mean of three digits, which the sensor's range
  excludes, would lose its last.
* `config.c:92`: "Enable both timers", but only timer 0 is enabled, and
  `Timer0IntHandler` reads timer 1 to measure its jitter.
* `config.c:53`: the UART's interrupt is unmasked before its queue exists. A
  character that comes before `portDISABLE_INTERRUPTS` (`config.c:83`) is not
  sent to the missing queue only because the handler tests the wrong bit: whoever
  mends the test should move this line too. (`Startup!HandlerSends`.)
* `tasks.c:3049`: the interval in which the run-time clock wraps (after 59 hours
  at 20 kHz) is counted for no task. The percentages of the table are truncated.
* `stats.c:65`: a run-time count of 10^9 and more does not fit the ten bytes it
  is formatted into.
* `config.c:114`: `vUART_ISR` discards the woken flag. `PreemptionNotLost` shows
  that the kernel makes up for it at the next tick. It discards the result as well:
  a value for a full `xUARTQueue` is dropped (`Application!vUART_ISR` has this).
* `queue.c:1167`: `cTxLock` is an `int8_t`; 127 interrupts that send while one call
  has the queue locked would overflow it. A lock lasts a few instructions, and a
  queue of ten places is full before.
* `heap_4.c:487`: `vPortGetHeapStats` goes beyond the list when no block is
  free. Nothing calls it.
* `queue.c:1586` asserts that no inheritance has taken place when a call ends
  because no ticks are left. It may have: a waiter times out, finds the mutex
  free, and loses it to another task before it tries again. The model reaches this
  state (`SemaphoreTake` with time `"zero"`), and the holder is left with a priority
  until it gives the mutex: `InheritanceEnds` still holds.
* `stream_buffer.c:821`: a reader waits once. It may be notified for bytes it had
  already read, and then a receive with `portMAX_DELAY` returns 0, where
  `stream_buffer.h:470` has it wait indefinitely.
* `stream_buffer.c:638-641`: a message's writer whose time is over tests the room
  it saw last, and may refuse a message that fits by then.
* `timers.c:762`: commands are served before expiries that are overdue.

---------------------------------------------------------------------------

## 6. What is not modelled

* *Jitter of timer 0*: it is computed from a timer that never runs.
* *The text of the statistics table* (`getRunTimeStats` and what it calls). It is
  formatting; `xTaskTop` is in `Application` as a loop that prints and waits, in
  `Startup` with what it allocates.
* *Of the start-up*, the copying of `.data` and the clearing of `.bss`,
  `OSRAMInit`, and `vTaskEndScheduler`, which the port does not support.
* *Parts of `tasks.c` and `queue.c`*: `vTaskDelayUntil`, `vTaskPrioritySet`, task
  deletion, `xTaskAbortDelay`, `xTaskCatchUpTicks`, the values and actions of
  notifications, counting semaphores (queues without data), queue sets, blocking
  in `xQueuePeek`. Of `xQueueGenericReset`, the ring is modelled and the waking of
  a sender is not: queues are only reset when created.
* *Of the services*: `xTimerPendFunctionCall` among the timer commands, the
  race of `vTimerSetReloadMode` with the timer task for the byte `ucStatus`, and
  the functions of stream buffers that only read. A stream buffer is assumed not
  to be reset, and its trigger level not to be changed, while a call is under way:
  the interface asks for it, and the code checks only whether a task waits.
* *Files that are not linked and have no behaviour of their own here*:
  co-routines, the MPU wrappers, the other heaps, `main.old.c`.
* *Demo tasks*: linked in part, started never. `rand.c` is any temperature.
* *The vendor's driver library*: register accesses. What the program relies on
  of the UART is an external definition in `Application`.
* *Assembly*: register and stack frames of the port. What it does to the state
  the properties speak of (the switch, PendSV, masking) is in `Kernel`.
* *Two wraps of the tick count within one call with a limit*: see the bounds.

Most of the repository's lines are of these kinds: the vendor's drivers
(`hw_include/`) and headers, FreeRTOS's headers and demos, the MPU wrappers and
further heaps and ports. A model of register accesses would have no properties to
state. Of the files with behaviour, the application, `queue.c`, `list.c`,
`heap_4.c`, `event_groups.c`, `timers.c` and `stream_buffer.c` are modelled for the
most part, `tasks.c` where tasks block, wake, time out and change priority.

---------------------------------------------------------------------------

## 7. Plan

Done: the kernel's time base, scheduler and queues, the ring of a queue, lists, the
heap, mutexes, suspension, event groups, stream buffers, the start and the
application, software timers and `itoa`, checked and, as section 4 says, proved; the
scheduler proved to implement the time base, the pointers the lists, the application
the filter.

To do, most important first:

1. *Extend the model.* The time limit structure `TimeOut_t` by itself, with
   ticks that are not looked at for more than a range; reset of a queue in use and
   blocking peeks in `Kernel`; `vTaskDelayUntil`.
2. *Liveness* stays with TLC throughout.
