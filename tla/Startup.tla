-------------------------------- MODULE Startup --------------------------------
(***************************************************************************)
(* From reset to the first task, and the run-time clock: main and init     *)
(* (main.c, config.c), vTaskStartScheduler (tasks.c) and the port's start  *)
(* of the first task (port.c), with the interrupts that may come between   *)
(* the steps; then the switches of tasks, as far as they count time.       *)
(*                                                                         *)
(* BASEPRI masks the interrupts of the kernel's priorities.  Timer 0 has   *)
(* the highest priority, and is never masked.  The jitter that its handler *)
(* keeps is left out: it reads timer 1, which is configured (config.c:74)  *)
(* but never enabled, so that its count never falls.                       *)
(***************************************************************************)
EXTENDS Integers, Sequences, SequencesExt, FiniteSets, Functions

CONSTANTS
  Bytes,         \* [object -> the sizes of the allocations it takes]
  xWantedMemory, \* [text, table |-> what xTaskTop allocates for them]
  HeapBytes,     \* of the heap, without its last header
  ClockRange,    \* values of ulHighFrequencyTimerTicks
  MaxTicks       \* bound: interrupts of timer 0

Queues == <<"xTempQueue", "xUARTQueue", "xDisplayQueue">>
Tasks == <<"GetTemp", "Filter", "Display", "Top", "IDLE">>  \* of priority 2, but for IDLE
Objects == ToSet(Queues) \cup ToSet(Tasks)

ASSUME StartupAssumption ==
  /\ \A o \in Objects : Bytes[o] \in Seq(Nat)
  /\ xWantedMemory \in [text : Nat, table : Nat]
  /\ HeapBytes \in Nat /\ ClockRange \in Nat \ {0} /\ MaxTicks \in Nat

VARIABLES
  pc,      \* what main does next, "inside" the creation of what is next, or "tasks"
  cpu,     \* BASEPRI, uxCriticalNesting, and the interrupts that are enabled
  made,    \* the queues and tasks that exist, and what is left of the heap
  clock,   \* ulHighFrequencyTimerTicks, and the counts of vTaskSwitchContext
  history  \* early, missing, refused, ran: see the properties

startVars == <<pc, cpu, made, clock, history>>

(* Each definition whose name ends in Faulty is a variant of the one that  *)
(* follows it, with a plausible mistake; the specification uses none.      *)

\* The value of uxCriticalNesting before the scheduler starts, here as large as is
\* needed: no critical section that is left then unmasks the interrupts.
NestingAtBootFaulty == 0
NestingAtBoot == 170

Program ==
  <<"prvSetupHardware", "vSetupHighFrequencyTimer">> \o Queues \o Tasks
    \o <<"vTaskStartScheduler", "xPortStartScheduler", "prvPortStartFirstTask", "tasks">>
After(step) == Program[1 + CHOOSE i \in 1 .. Len(Program) - 1 : Program[i] = step]
At(step) == pc = [step |-> step, inside |-> FALSE]
Then(step) == pc' = [step |-> step, inside |-> FALSE]

StartInit ==
  /\ pc = [step |-> Program[1], inside |-> FALSE]
  /\ cpu = [BASEPRI |-> "open", uxCriticalNesting |-> NestingAtBoot, enabled |-> {}]
  /\ made = [objects |-> {}, pxCurrentTCB |-> "none", heap |-> HeapBytes,
            text |-> FALSE, table |-> FALSE]
  /\ clock = [ulHighFrequencyTimerTicks |-> 0, ulTaskSwitchedInTime |-> 0,
              ulRunTimeCounter |-> [t \in ToSet(Tasks) |-> 0], interrupts |-> 0]
  /\ history = [early |-> FALSE, missing |-> {}, refused |-> FALSE,
                ran |-> [t \in ToSet(Tasks) |-> 0]]

-----------------------------------------------------------------------------
(* main                                                                    *)

\* The UART's interrupt is unmasked here, and the queue it uses comes later.
prvSetupHardware ==
  /\ At("prvSetupHardware")
  /\ cpu' = [cpu EXCEPT !.enabled = @ \cup {"INT_UART0"}]
  /\ Then(After("prvSetupHardware"))
  /\ UNCHANGED <<made, clock, history>>

vSetupHighFrequencyTimer ==
  /\ At("vSetupHighFrequencyTimer")
  /\ cpu' = [cpu EXCEPT !.BASEPRI = "masked", !.enabled = @ \cup {"INT_TIMER0A"}]
  /\ Then(After("vSetupHighFrequencyTimer"))
  /\ UNCHANGED <<made, clock, history>>

\* What heap_4 takes for an allocation, with its header of eight bytes.
BlockFor(bytes) == ((bytes + 15) \div 8) * 8
Needed(o) == FoldFunction(+, 0, [i \in DOMAIN Bytes[o] |-> BlockFor(Bytes[o][i])])

\* Does the heap hold all that the program ever allocates, at one time?
HeapSuffices ==
  FoldFunction(+, 0, [o \in Objects |-> Needed(o)])
    + BlockFor(xWantedMemory.text) + BlockFor(xWantedMemory.table) <= HeapBytes

\* xQueueCreate and xTaskCreate, as far as into their critical sections.  init does
\* not look at their results; vTaskStartScheduler does, and returns.
Allocate(o) ==
  /\ At(o)
  /\ IF Needed(o) <= made.heap
       THEN /\ made' = [made EXCEPT !.heap = @ - Needed(o)]
            /\ cpu' = [cpu EXCEPT !.BASEPRI = "masked", !.uxCriticalNesting = @ + 1]
            /\ pc' = [pc EXCEPT !.inside = TRUE]
            /\ UNCHANGED history
       ELSE /\ Then(IF o = "IDLE" THEN "returned" ELSE After(o))
            /\ history' = [history EXCEPT !.refused = TRUE]
            /\ UNCHANGED <<made, cpu>>
  /\ UNCHANGED clock

\* The rest of them, and vPortExitCritical.  Of the tasks of the highest priority
\* the last one will run first.
Create(o) ==
  /\ pc = [step |-> o, inside |-> TRUE]
  /\ made' = [made EXCEPT !.objects = @ \cup {o},
                !.pxCurrentTCB = IF o \in ToSet(Queues) \/ (o = "IDLE" /\ @ # "none")
                                   THEN @ ELSE o]
  /\ cpu' = [cpu EXCEPT !.uxCriticalNesting = @ - 1,
                        !.BASEPRI = IF cpu.uxCriticalNesting = 1 THEN "open" ELSE @]
  /\ Then(After(o))
  /\ UNCHANGED <<clock, history>>

\* portCONFIGURE_TIMER_FOR_RUN_TIME_STATS: the time of main is no task's.
vTaskStartSchedulerFaulty ==
  /\ At("vTaskStartScheduler")
  /\ cpu' = [cpu EXCEPT !.BASEPRI = "masked"]
  /\ Then(After("vTaskStartScheduler"))
  /\ UNCHANGED <<made, clock, history>>

vTaskStartScheduler ==
  /\ At("vTaskStartScheduler")
  /\ cpu' = [cpu EXCEPT !.BASEPRI = "masked"]
  /\ clock' = [clock EXCEPT !.ulHighFrequencyTimerTicks = 0]
  /\ Then(After("vTaskStartScheduler"))
  /\ UNCHANGED <<made, history>>

xPortStartScheduler ==
  /\ At("xPortStartScheduler")
  /\ cpu' = [cpu EXCEPT !.uxCriticalNesting = 0, !.enabled = @ \cup {"SysTick"}]
  /\ Then(After("xPortStartScheduler"))
  /\ UNCHANGED <<made, clock, history>>

\* With vPortSVCHandler, which lets interrupts in.
prvPortStartFirstTask ==
  /\ At("prvPortStartFirstTask")
  /\ cpu' = [cpu EXCEPT !.BASEPRI = "open"]
  /\ Then("tasks")
  /\ UNCHANGED <<made, clock, history>>

-----------------------------------------------------------------------------
(* Interrupts                                                              *)

\* Has main passed vSetupHighFrequencyTimer, and no task run yet?
Starting == ~ (At("prvSetupHardware") \/ At("vSetupHighFrequencyTimer") \/ At("tasks"))

\* An interrupt of a priority that BASEPRI masks.
Arrives(interrupt) == interrupt \in cpu.enabled /\ cpu.BASEPRI = "open"
Early == [history EXCEPT !.early = @ \/ Starting]

\* A character comes: it is sent to the queue only if the status says transmitted.
\* (What the handler sends is in module Application.)
Unmasked == {"UART_INT_RX"}
HandlerSends == "UART_INT_TX" \in Unmasked
vUART_ISR ==
  /\ Arrives("INT_UART0")
  /\ history' = [Early EXCEPT !.missing =
       IF HandlerSends THEN @ \cup ({"xUARTQueue"} \ made.objects) ELSE @]
  /\ UNCHANGED <<pc, cpu, made, clock>>

xPortSysTickHandler ==
  /\ Arrives("SysTick")
  /\ history' = Early
  /\ UNCHANGED <<pc, cpu, made, clock>>

\* The time that passes is the running task's once the clock was set to 0.
Timer0IntHandler ==
  /\ "INT_TIMER0A" \in cpu.enabled /\ clock.interrupts < MaxTicks
  /\ clock' = [clock EXCEPT !.ulHighFrequencyTimerTicks = (@ + 1) % ClockRange,
                            !.interrupts = @ + 1]
  /\ history' =
       IF pc.step \in {"xPortStartScheduler", "prvPortStartFirstTask", "tasks"}
         THEN [history EXCEPT !.ran[made.pxCurrentTCB] = @ + 1] ELSE history
  /\ UNCHANGED <<pc, cpu, made>>

-----------------------------------------------------------------------------
(* Tasks.  Which one runs next is decided in module Kernel.                *)

vTaskSwitchContext ==
  /\ At("tasks")
  /\ \E t \in made.objects \cap ToSet(Tasks) : made' = [made EXCEPT !.pxCurrentTCB = t]
  /\ LET ulTotalRunTime == clock.ulHighFrequencyTimerTicks
         time == ulTotalRunTime - clock.ulTaskSwitchedInTime
     IN clock' = [clock EXCEPT !.ulTaskSwitchedInTime = ulTotalRunTime,
                    !.ulRunTimeCounter[made.pxCurrentTCB] =
                       IF time > 0 THEN (@ + time) % ClockRange ELSE @]
  /\ UNCHANGED <<pc, cpu, history>>

\* xTaskTop: the memory for its text, once, and in getRunTimeStats that for the table
\* of the tasks, which it gives back.
xTaskTop ==
  /\ At("tasks") /\ made.pxCurrentTCB = "Top"
  /\ LET next == IF made.text THEN "table" ELSE "text"
         fits == BlockFor(xWantedMemory[next]) <= made.heap
     IN IF made.table
          THEN /\ made' = [made EXCEPT !.table = FALSE,
                             !.heap = @ + BlockFor(xWantedMemory.table)]
               /\ UNCHANGED history
          ELSE /\ made' = IF fits THEN [made EXCEPT !.heap = @ - BlockFor(xWantedMemory[next]),
                                                    ![next] = TRUE] ELSE made
               /\ history' = [history EXCEPT !.refused = @ \/ ~ fits]
  /\ UNCHANGED <<pc, cpu, clock>>

StartNext ==
  \/ prvSetupHardware \/ vSetupHighFrequencyTimer
  \/ \E o \in Objects : Allocate(o) \/ Create(o)
  \/ vTaskStartScheduler \/ xPortStartScheduler \/ prvPortStartFirstTask
  \/ vUART_ISR \/ xPortSysTickHandler \/ Timer0IntHandler
  \/ vTaskSwitchContext \/ xTaskTop

StartSpec == StartInit /\ [][StartNext]_startVars

-----------------------------------------------------------------------------
(* Properties                                                              *)

\* Nothing runs before what it uses is there.  From the moment the timers are set up
\* until the first task runs no interrupt of the kernel is served, although every
\* creation goes through critical sections whose end unmasks interrupts
\* (port.c:135 against 434-451); the handler of the UART, which is unmasked before its
\* queue exists (config.c:53), never sends to a queue that is missing; and the heap
\* holds all that is allocated, whose results are not looked at (config.c:20-28,
\* mytasks.c:139), so that the tasks run with all of their queues.
ReadyBeforeInterrupts ==
  /\ ~ history.early /\ history.missing = {} /\ ~ history.refused
  /\ At("tasks") => made.objects = Objects

\* What the statistics show is the time that each task ran: exactly, with what is
\* counted at the next switch, until the clock wraps (tasks.c:3049 then drops an
\* interval), and never more, although the clock runs before the scheduler does.
RunTimeExact ==
  LET counted(t) == clock.ulRunTimeCounter[t]
                      + IF t = made.pxCurrentTCB /\ At("tasks")
                          THEN clock.ulHighFrequencyTimerTicks - clock.ulTaskSwitchedInTime
                          ELSE 0
  IN \A t \in ToSet(Tasks) :
       /\ clock.ulRunTimeCounter[t] <= history.ran[t]
       /\ At("tasks") /\ FoldFunction(+, 0, history.ran) < ClockRange
            => counted(t) = history.ran[t]
=============================================================================
