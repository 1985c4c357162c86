------------------------------- MODULE Filter -------------------------------
(***************************************************************************)
(* xTaskFilter (mytasks.c) between its three queues.  It takes a           *)
(* temperature, looks for a new filter value N without waiting, and sends  *)
(* the mean of its window to xTaskDisplay.                                 *)
(*                                                                         *)
(* The queues are sequences of at most QUEUE_SIZE messages, on which a     *)
(* blocking call waits until it can proceed: this is what module Kernel    *)
(* establishes.  Whoever is at the other end of a queue is the environment *)
(* here; module Application has the tasks and the interrupt that are.      *)
(***************************************************************************)
EXTENDS Integers, Sequences, SequencesExt, Functions

CONSTANTS
  QUEUE_SIZE,
  N_MAX,         \* the size of temp_in_second
  Temperatures,  \* what the sensor task may send
  FilterValues   \* what may be sent to xUARTQueue

Byte == 0 .. 255

ASSUME FilterAssumption ==
  /\ QUEUE_SIZE \in Nat \ {0}
  /\ N_MAX \in 1 .. 255
  /\ Temperatures \subseteq Byte
  /\ FilterValues \subseteq Byte

VARIABLES
  xTempQueue, xUARTQueue, xDisplayQueue,
  filter,    \* xTaskFilter: its pc and its local variables
  readings,  \* history: the last N_MAX temperatures it received, newest first
  settled    \* history: how many of them came since N_FIL last changed

filterVars == <<xTempQueue, xUARTQueue, xDisplayQueue, filter, readings, settled>>

Window == 0 .. N_MAX - 1

FilterInit ==
  /\ xTempQueue = <<>> /\ xUARTQueue = <<>> /\ xDisplayQueue = <<>>
  /\ filter = [pc |-> "receive", temp_in_second |-> [i \in Window |-> 0],
               N_FIL |-> N_MAX, N_UART |-> 0, last_temp |-> 0, mean |-> 0]
  /\ readings = <<>> /\ settled = 0

(* Each definition whose name ends in Faulty is a variant of the one that  *)
(* follows it, with a plausible mistake; the specification uses none.      *)

\* The filter values that take effect: N_MAX itself is not one of them.
Accepts(n) == n > 0 /\ n < N_MAX

\* A temperature is pushed into the first n entries; the others stay.
PushFaulty(window, n, temp) ==
  [i \in Window |-> IF i = 0 THEN temp ELSE IF i < n - 1 THEN window[i - 1] ELSE window[i]]
Push(window, n, temp) ==
  [i \in Window |-> IF i = 0 THEN temp ELSE IF i < n THEN window[i - 1] ELSE window[i]]

Mean(window, n) == FoldFunctionOnSet(+, 0, window, 0 .. n - 1) \div n

ReceiveTemperature ==
  /\ filter.pc = "receive" /\ xTempQueue # <<>>
  /\ filter' = [filter EXCEPT !.pc = "filter", !.last_temp = Head(xTempQueue)]
  /\ xTempQueue' = Tail(xTempQueue)
  /\ readings' = SubSeq(<<Head(xTempQueue)>> \o readings, 1,
                        IF Len(readings) < N_MAX THEN Len(readings) + 1 ELSE N_MAX)
  /\ UNCHANGED <<xUARTQueue, xDisplayQueue, settled>>

\* The look at xUARTQueue, with no waiting, and all that follows up to the
\* next call.  On an empty queue N_UART keeps its value.
FilterTemperatureFaulty ==
  /\ filter.pc = "filter" /\ xUARTQueue # <<>>
  /\ filter' = [filter EXCEPT !.pc = "send"]
  /\ xUARTQueue' = Tail(xUARTQueue)
  /\ UNCHANGED <<xTempQueue, xDisplayQueue, readings, settled>>

FilterTemperature ==
  LET N_UART == IF xUARTQueue = <<>> THEN filter.N_UART ELSE Head(xUARTQueue)
      N_FIL == IF Accepts(N_UART) THEN N_UART ELSE filter.N_FIL
      window == Push(filter.temp_in_second, N_FIL, filter.last_temp)
  IN /\ filter.pc = "filter"
     /\ filter' = [filter EXCEPT !.pc = "send", !.N_UART = N_UART, !.N_FIL = N_FIL,
                                 !.temp_in_second = window, !.mean = Mean(window, N_FIL)]
     /\ xUARTQueue' = IF xUARTQueue = <<>> THEN <<>> ELSE Tail(xUARTQueue)
     /\ settled' = IF N_FIL # filter.N_FIL THEN 1
                   ELSE IF settled < N_MAX THEN settled + 1 ELSE N_MAX
     /\ UNCHANGED <<xTempQueue, xDisplayQueue, readings>>

SendMean ==
  /\ filter.pc = "send" /\ Len(xDisplayQueue) < QUEUE_SIZE
  /\ xDisplayQueue' = Append(xDisplayQueue, filter.mean)
  /\ filter' = [filter EXCEPT !.pc = "delay"]
  /\ UNCHANGED <<xTempQueue, xUARTQueue, readings, settled>>

FilterDelayOver ==
  /\ filter.pc = "delay"
  /\ filter' = [filter EXCEPT !.pc = "receive"]
  /\ UNCHANGED <<xTempQueue, xUARTQueue, xDisplayQueue, readings, settled>>

xTaskFilter ==
  ReceiveTemperature \/ FilterTemperature \/ SendMean \/ FilterDelayOver

-----------------------------------------------------------------------------
(* The other ends of the queues.                                           *)

TemperatureArrives ==
  \E temp \in Temperatures :
    /\ Len(xTempQueue) < QUEUE_SIZE
    /\ xTempQueue' = Append(xTempQueue, temp)
    /\ UNCHANGED <<xUARTQueue, xDisplayQueue, filter, readings, settled>>

ValueArrives ==
  \E n \in FilterValues :
    /\ Len(xUARTQueue) < QUEUE_SIZE
    /\ xUARTQueue' = Append(xUARTQueue, n)
    /\ UNCHANGED <<xTempQueue, xDisplayQueue, filter, readings, settled>>

MeanTaken ==
  /\ xDisplayQueue # <<>>
  /\ xDisplayQueue' = Tail(xDisplayQueue)
  /\ UNCHANGED <<xTempQueue, xUARTQueue, filter, readings, settled>>

FilterNext == xTaskFilter \/ TemperatureArrives \/ ValueArrives \/ MeanTaken

FilterSpec == FilterInit /\ [][FilterNext]_filterVars

-----------------------------------------------------------------------------
FilterTypeOK ==
  /\ xTempQueue \in BoundedSeq(Byte, QUEUE_SIZE)
  /\ xUARTQueue \in BoundedSeq(Byte, QUEUE_SIZE)
  /\ xDisplayQueue \in BoundedSeq(Byte, QUEUE_SIZE)
  /\ filter.pc \in {"receive", "filter", "send", "delay"}
  /\ filter.temp_in_second \in [Window -> Byte]
  /\ filter.N_FIL \in 1 .. N_MAX
  /\ filter.N_UART \in Byte /\ filter.last_temp \in Byte /\ filter.mean \in Byte

\* The mean of the last n temperatures received.
MeanOfLast(n) == FoldFunctionOnSet(+, 0, readings, 1 .. n) \div n

\* Once N_FIL temperatures have come since the filter value changed (or since
\* the start), what is sent is the mean of exactly the last N_FIL of them: the
\* entries that a smaller value left behind are out of the window.
MeanWhenSettled ==
  filter.pc = "send" /\ settled >= filter.N_FIL => filter.mean = MeanOfLast(filter.N_FIL)

\* README.md:57 says of xTaskFilter that it "computes the last N values mean,
\* being N the filter value".  The values before the first do not count.
MeanOfLastN ==
  filter.pc = "send" /\ Len(readings) >= filter.N_FIL =>
    filter.mean = MeanOfLast(filter.N_FIL)
=============================================================================
