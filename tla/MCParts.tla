------------------------------- MODULE MCParts -------------------------------
(***************************************************************************)
(* The modules of the parts that stand alone, for TLC in one run: lists,   *)
(* the storage of a queue, the heap, the numbers that itoa writes, the     *)
(* filter task, and the start of the program.  In each behaviour one of    *)
(* them is used, and the others stay as they begin.                        *)
(***************************************************************************)
EXTENDS LinkedList, QueueStorage, Heap4, Itoa, Filter, Startup, TLC

CONSTANTS
  a, b, c, ready, delayed,  \* items of LinkedList, that go between two lists
  display, top              \* callers of Itoa

VARIABLE used  \* the name of the module that is used

\* For the heap: a misaligned array with room for five to six blocks of two or
\* three units of eight bytes, and requests that are aligned or not, that split a
\* block or use it up, and that are too large.
Requests == {0, 1, 16, 25, 120, 200}

\* Means that xTaskDisplay draws, of no digit, one and two, and the numbers of tasks
\* that xTaskTop prints.
Both == [caller \in {display, top} |-> IF caller = display THEN {0, 5, 10, 29} ELSE {1, 3, 5}]

\* Temperatures whose means over any part of the window differ; and no filter value,
\* those that are accepted, N_MAX and one beyond.
TwoTemperatures == {15, 29}
UpToBeyond == 0 .. N_MAX + 1

\* A queue takes its structure of 80 bytes and ten bytes of storage; a task its stack
\* and its TCB of 84 bytes, and the heap a header of eight bytes for each (on the
\* 32-bit target).  Of the 7000 bytes 6984 are left at least by alignment and pxEnd.
Stacks == [GetTemp |-> 25, Filter |-> 47, Display |-> 90, Top |-> 53, IDLE |-> 70]  \* words
Allocated ==
  [o \in {"xTempQueue", "xUARTQueue", "xDisplayQueue"} |-> <<90>>]
    @@ [o \in DOMAIN Stacks |-> <<4 * Stacks[o], 84>>]
ForTop == [text |-> 400, table |-> 5 * 36]
ASSUME ProgramFits == HeapSuffices

\* What the storage of a queue holds at first matters only if the queue is used.
OneMessage == CHOOSE m \in Message : TRUE
UnusedQueue ==
  /\ uxLength = CHOOSE n \in Lengths : TRUE
  /\ storage = [place \in Places |-> OneMessage] /\ pvBuffer = OneMessage
  /\ pcWriteTo = 0 /\ pcReadFrom = (uxLength - 1) * uxItemSize /\ uxMessagesWaiting = 0

Init ==
  /\ used \in {"LinkedList", "QueueStorage", "Heap4", "Itoa", "Filter", "Startup"}
  /\ LinkedInit /\ HeapInit /\ ItoaInit /\ FilterInit /\ StartInit
  /\ IF used = "QueueStorage" THEN StorageInit ELSE UnusedQueue

Next ==
  \/ /\ used = "LinkedList" /\ LinkedNext
     /\ UNCHANGED <<used, storageVars, heapVars, itoaVars, filterVars, startVars>>
  \/ /\ used = "QueueStorage" /\ StorageNext
     /\ UNCHANGED <<used, linkedVars, heapVars, itoaVars, filterVars, startVars>>
  \/ /\ used = "Heap4" /\ HeapNext
     /\ UNCHANGED <<used, linkedVars, storageVars, itoaVars, filterVars, startVars>>
  \/ /\ used = "Itoa" /\ ItoaNext
     /\ UNCHANGED <<used, linkedVars, storageVars, heapVars, filterVars, startVars>>
  \/ /\ used = "Filter" /\ FilterNext
     /\ UNCHANGED <<used, linkedVars, storageVars, heapVars, itoaVars, startVars>>
  \/ /\ used = "Startup" /\ StartNext
     /\ UNCHANGED <<used, linkedVars, storageVars, heapVars, itoaVars, filterVars>>

Spec ==
  Init /\ [][Next]_<<used, linkedVars, storageVars, heapVars, itoaVars, filterVars,
                    startVars>>
=============================================================================
