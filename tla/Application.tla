----------------------------- MODULE Application -----------------------------
(***************************************************************************)
(* The program: the sensor, filter, display and top tasks (mytasks.c), the *)
(* queues between them, and the UART with its interrupt (config.c).        *)
(*                                                                         *)
(* The tasks have one priority and share the processor (Kernel!TimeSlicing)*)
(* and a delay is over at some time (DelayedTasks!DelaysEnd), so any task  *)
(* that can take a step may be the next to take one.                       *)
(***************************************************************************)
EXTENDS Filter

CONSTANT Columns  \* of the display

ASSUME ApplicationAssumption == Columns \in Nat /\ Columns > 2

VARIABLES
  sensor,                 \* xTaskTemperatureSensor: its pc
  display, bus, plotted,  \* of module Display
  top,                    \* xTaskTop: its pc
  uart                    \* the raw interrupt status and the received byte

displayAndBus == <<display, bus, plotted>>
vars == <<filterVars, sensor, displayAndBus, top, uart>>

D == INSTANCE Display

\* The interrupts that prvSetupHardware unmasks.
UART_O_IM == {"UART_INT_RX"}

Init ==
  /\ FilterInit /\ D!DisplayInit
  /\ sensor = "send"
  /\ top = "print"
  /\ uart = [ris |-> {}, data |-> 0]

(* Each definition whose name ends in Faulty is a variant of the one that  *)
(* follows it, with a plausible mistake; the specification uses none.      *)

\* xQueueSend blocks as long as the queue is full.
SendTemperatureFaulty ==
  /\ sensor = "send"
  /\ \E temp \in Temperatures :
       xTempQueue' = IF Len(xTempQueue) < QUEUE_SIZE THEN Append(xTempQueue, temp)
                     ELSE Append(Front(xTempQueue), temp)
  /\ sensor' = "delay"
  /\ UNCHANGED <<xUARTQueue, xDisplayQueue, filter, readings, settled,
                 displayAndBus, top, uart>>

SendTemperature ==
  /\ sensor = "send" /\ Len(xTempQueue) < QUEUE_SIZE
  /\ \E temp \in Temperatures : xTempQueue' = Append(xTempQueue, temp)
  /\ sensor' = "delay"
  /\ UNCHANGED <<xUARTQueue, xDisplayQueue, filter, readings, settled,
                 displayAndBus, top, uart>>

SensorDelayOver ==
  /\ sensor = "delay"
  /\ sensor' = "send"
  /\ UNCHANGED <<filterVars, displayAndBus, top, uart>>

Filtering == xTaskFilter /\ UNCHANGED <<sensor, displayAndBus, top, uart>>

Displaying ==
  /\ D!xTaskDisplay
  /\ UNCHANGED <<xTempQueue, xUARTQueue, filter, readings, settled, sensor, top, uart>>

\* What print sends through UARTCharPut raises the transmit interrupt status.
PrintTable ==
  /\ top = "print"
  /\ top' = "delay"
  /\ uart' = [uart EXCEPT !.ris = @ \cup {"UART_INT_TX"}]
  /\ UNCHANGED <<filterVars, sensor, displayAndBus>>

TopDelayOver ==
  /\ top = "delay"
  /\ top' = "print"
  /\ UNCHANGED <<filterVars, sensor, displayAndBus, uart>>

\* Someone types a character; one that is not taken in time is overwritten.
CharacterArrives ==
  \E c \in FilterValues :
    /\ uart' = [ris |-> uart.ris \cup {"UART_INT_RX"}, data |-> c]
    /\ UNCHANGED <<filterVars, sensor, displayAndBus, top>>

vUART_ISR ==
  LET ulStatus == uart.ris \cap UART_O_IM IN
  /\ ulStatus # {}
  /\ uart' = [uart EXCEPT !.ris = @ \ ulStatus]
  /\ xUARTQueue' = IF "UART_INT_TX" \in ulStatus /\ Len(xUARTQueue) < QUEUE_SIZE
                     THEN Append(xUARTQueue, uart.data) ELSE xUARTQueue
  /\ UNCHANGED <<xTempQueue, xDisplayQueue, filter, readings, settled,
                 sensor, displayAndBus, top>>

Next ==
  \/ SendTemperature \/ SensorDelayOver
  \/ Filtering
  \/ Displaying
  \/ PrintTable \/ TopDelayOver
  \/ CharacterArrives \/ vUART_ISR

Spec == Init /\ [][Next]_vars

\* Every task that can run does, and interrupts are taken.  Nobody has to type.
Fairness ==
  /\ WF_vars(SendTemperature) /\ WF_vars(SensorDelayOver)
  /\ WF_vars(Filtering)
  /\ WF_vars(Displaying)
  /\ WF_vars(PrintTable) /\ WF_vars(TopDelayOver)
  /\ WF_vars(vUART_ISR)

FairSpec == Spec /\ Fairness

-----------------------------------------------------------------------------
TypeOK ==
  /\ FilterTypeOK /\ D!DisplayTypeOK
  /\ sensor \in {"send", "delay"} /\ top \in {"print", "delay"}
  /\ uart.ris \subseteq {"UART_INT_RX", "UART_INT_TX"} /\ uart.data \in Byte

\* See module Display.
GraphIsHistory == D!GraphIsHistory

\* The tasks and the interrupt at the other ends of the filter's queues do no
\* more than Filter assumes of them.
ImplementsFilter == FilterSpec

\* No task waits for another in a circle: a sensor that found xTempQueue full
\* always gets on, and the display is always fed.
TasksGetOn ==
  /\ sensor = "send" ~> sensor = "delay"
  /\ display.pc = "receive" ~> display.pc = "image"

\* README.md:56 says that xTaskFilter is responsible "to receive the
\* temperature values and the filter values": a value from 1 that is typed gets
\* to it, unless another is typed at once.
FilterValueReceived ==
  uart.data > 0 ~> (filter.N_UART > 0 \/ uart.data = 0)

=============================================================================
