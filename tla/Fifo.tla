-------------------------------- MODULE Fifo --------------------------------
(***************************************************************************)
(* What a queue promises of its messages (FreeRTOS/Source/queue.c): those  *)
(* sent to the back are received in the order they were sent in, one sent  *)
(* to the front is received next, and one that overwrites replaces the     *)
(* message of a queue of length one.                                       *)
(***************************************************************************)
EXTENDS Naturals, Sequences

CONSTANTS Message, Lengths

VARIABLES
  uxLength,  \* the most messages the queue holds
  contents,  \* the messages, the next one to be received first
  received   \* the last message that was received or peeked at

FifoInit ==
  /\ uxLength \in Lengths
  /\ contents = <<>>
  /\ received \in Message

PutBack(m) ==
  /\ Len(contents) < uxLength
  /\ contents' = Append(contents, m)
  /\ UNCHANGED <<uxLength, received>>

PutFront(m) ==
  /\ Len(contents) < uxLength
  /\ contents' = <<m>> \o contents
  /\ UNCHANGED <<uxLength, received>>

Replace(m) ==
  /\ uxLength = 1
  /\ contents' = <<m>>
  /\ UNCHANGED <<uxLength, received>>

Take ==
  /\ contents # <<>>
  /\ received' = Head(contents)
  /\ contents' = Tail(contents)
  /\ UNCHANGED uxLength

Look ==
  /\ contents # <<>>
  /\ received' = Head(contents)
  /\ UNCHANGED <<uxLength, contents>>

Clear ==
  /\ contents' = <<>>
  /\ UNCHANGED <<uxLength, received>>

FifoNext ==
  \/ \E m \in Message : PutBack(m) \/ PutFront(m) \/ Replace(m)
  \/ Take \/ Look \/ Clear

FifoSpec == FifoInit /\ [][FifoNext]_<<uxLength, contents, received>>
=============================================================================
