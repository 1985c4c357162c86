------------------------------ MODULE MCKernel ------------------------------
(* Instances of the kernel for TLC: two tasks and a tick count of two bits. *)
EXTENDS Kernel

CONSTANTS a, b, theQueue

OnePlace == [x \in {theQueue} |-> 1]
TwoPlaces == [x \in {theQueue} |-> 2]

Receive(ticks) == Call("receive", theQueue, ticks)
Send(ticks) == Call("send", theQueue, ticks)
Delay(ticks) == Call("delay", "none", ticks)

\* The calls of a, of b and of the idle task.
CallsOf(A, B) == [t \in {a, b, Idle} |-> CASE t = a -> A [] t = b -> B [] OTHER -> {}]
PriorityOf(A, B) == [t \in {a, b, Idle} |-> CASE t = a -> A [] t = b -> B [] OTHER -> 0]

AboveAndBelow == PriorityOf(2, 1)
SharesWithIdle == PriorityOf(1, 0)
Equal == PriorityOf(1, 1)

InOrder == [p \in Priorities |-> SelectSeq(<<a, b, Idle>>, LAMBDA t : Priority[t] = p)]

\* Two tasks that wait for messages of an interrupt.
ReceiveCalls == CallsOf({Receive(2)}, {Receive(portMAX_DELAY)})

\* Two tasks that wait for an interrupt to make room, the second of them with
\* the priority of the idle task and with delays.
SendCalls == CallsOf({Send(portMAX_DELAY)}, {Send(1), Delay(1)})

\* A task that receives with a time limit, and one of the same priority that
\* sends without waiting and gives way, or not.
SharingCalls == CallsOf({Receive(2), Delay(1)}, {Send(0), Delay(0)})
=============================================================================
