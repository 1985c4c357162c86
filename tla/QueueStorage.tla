---------------------------- MODULE QueueStorage ----------------------------
(***************************************************************************)
(* Where a queue keeps its messages (FreeRTOS/Source/queue.c): a ring of   *)
(* uxLength places of uxItemSize bytes, used inside critical sections.     *)
(*                                                                         *)
(* A pointer is the number of bytes from pcHead; a place that begins at a  *)
(* multiple of uxItemSize holds a message.  Blocking is in module Kernel.  *)
(***************************************************************************)
EXTENDS Integers, Sequences

CONSTANTS
  Message,
  Lengths,     \* what xQueueCreate may be asked for
  uxItemSize   \* not 0: a queue with no data is a semaphore

ASSUME QueueAssumption == Lengths \subseteq Nat \ {0} /\ uxItemSize \in Nat \ {0}

VARIABLES
  uxLength,           \* the number of places, as the queue was created
  storage,            \* [place -> message]
  pcWriteTo,          \* the place of the next message sent to the back
  pcReadFrom,         \* the place of the last message received
  uxMessagesWaiting,
  pvBuffer            \* what was received last

storageVars == <<uxLength, storage, pcWriteTo, pcReadFrom, uxMessagesWaiting, pvBuffer>>

pcHead == 0
pcTail == uxLength * uxItemSize
Places == {n * uxItemSize : n \in 0 .. uxLength - 1}

\* xQueueGenericReset of a new queue, whose storage is not initialised.
StorageInit ==
  /\ uxLength \in Lengths
  /\ storage \in [Places -> Message]
  /\ pcWriteTo = pcHead
  /\ pcReadFrom = (uxLength - 1) * uxItemSize
  /\ uxMessagesWaiting = 0
  /\ pvBuffer \in Message

(* Each definition whose name ends in Faulty is a variant of the one that  *)
(* follows it, with a plausible mistake; the specification uses none.      *)

\* The pointer is moved, and then tested.
NextPlace(pointer) ==
  IF pointer + uxItemSize >= pcTail THEN pcHead ELSE pointer + uxItemSize
PreviousPlace(pointer) ==
  IF pointer - uxItemSize < pcHead THEN pcTail - uxItemSize ELSE pointer - uxItemSize

\* xQueueGenericSend and xQueueGenericSendFromISR, with room in the queue.
SendToBack(m) ==
  /\ uxMessagesWaiting < uxLength
  /\ storage' = [storage EXCEPT ![pcWriteTo] = m]
  /\ pcWriteTo' = NextPlace(pcWriteTo)
  /\ uxMessagesWaiting' = uxMessagesWaiting + 1
  /\ UNCHANGED <<uxLength, pcReadFrom, pvBuffer>>

SendToFront(m) ==
  /\ uxMessagesWaiting < uxLength
  /\ storage' = [storage EXCEPT ![pcReadFrom] = m]
  /\ pcReadFrom' = PreviousPlace(pcReadFrom)
  /\ uxMessagesWaiting' = uxMessagesWaiting + 1
  /\ UNCHANGED <<uxLength, pcWriteTo, pvBuffer>>

\* Overwriting needs no room: the assertion of xQueueGenericSend allows it on
\* queues of length one only.
OverwriteFaulty(m) ==
  /\ uxLength = 1
  /\ storage' = [storage EXCEPT ![pcReadFrom] = m]
  /\ pcReadFrom' = PreviousPlace(pcReadFrom)
  /\ uxMessagesWaiting' = uxMessagesWaiting + 1
  /\ UNCHANGED <<uxLength, pcWriteTo, pvBuffer>>

Overwrite(m) ==
  /\ uxLength = 1
  /\ storage' = [storage EXCEPT ![pcReadFrom] = m]
  /\ pcReadFrom' = PreviousPlace(pcReadFrom)
  /\ uxMessagesWaiting' = IF uxMessagesWaiting > 0 THEN uxMessagesWaiting
                                                   ELSE uxMessagesWaiting + 1
  /\ UNCHANGED <<uxLength, pcWriteTo, pvBuffer>>

\* prvCopyDataFromQueue
CopyDataFromQueue ==
  /\ pcReadFrom' = NextPlace(pcReadFrom)
  /\ pvBuffer' = storage[pcReadFrom']
  /\ UNCHANGED <<uxLength, storage, pcWriteTo>>

Receive ==
  /\ uxMessagesWaiting > 0
  /\ CopyDataFromQueue
  /\ uxMessagesWaiting' = uxMessagesWaiting - 1

\* xQueuePeek puts pcReadFrom back.
Peek ==
  /\ uxMessagesWaiting > 0
  /\ pvBuffer' = storage[NextPlace(pcReadFrom)]
  /\ UNCHANGED <<uxLength, storage, pcWriteTo, pcReadFrom, uxMessagesWaiting>>

xQueueGenericReset ==
  /\ uxMessagesWaiting' = 0
  /\ pcWriteTo' = pcHead
  /\ pcReadFrom' = (uxLength - 1) * uxItemSize
  /\ UNCHANGED <<uxLength, storage, pvBuffer>>

StorageNext ==
  \/ \E m \in Message : SendToBack(m) \/ SendToFront(m) \/ Overwrite(m)
  \/ Receive \/ Peek \/ xQueueGenericReset

StorageSpec == StorageInit /\ [][StorageNext]_storageVars

-----------------------------------------------------------------------------
StorageTypeOK ==
  /\ uxLength \in Lengths
  /\ storage \in [Places -> Message]
  /\ pcWriteTo \in Places /\ pcReadFrom \in Places
  /\ uxMessagesWaiting \in 0 .. uxLength
  /\ pvBuffer \in Message

\* The two pointers and the count agree: the places after pcReadFrom, as many as
\* there are messages, end just before pcWriteTo, round the end of the ring.
PointersAgree ==
  pcWriteTo = (pcReadFrom + (uxMessagesWaiting + 1) * uxItemSize) % pcTail

\* The i-th message to be received.
Waiting(i) == storage[(pcReadFrom + i * uxItemSize) % pcTail]

Contents == INSTANCE Fifo WITH
  contents <- [i \in 1 .. uxMessagesWaiting |-> Waiting(i)],
  received <- pvBuffer

\* A queue delivers what was sent, in order, and each message once.
ImplementsFifo == Contents!FifoSpec
=============================================================================
