---------------------------- MODULE StreamBuffer ----------------------------
(***************************************************************************)
(* One stream or message buffer (FreeRTOS/Source/stream_buffer.c), and the *)
(* task notifications (tasks.c) with which its writer and its reader wake  *)
(* each other.                                                             *)
(*                                                                         *)
(* The ring is used without a lock: xHead is the writer's, xTail the       *)
(* reader's.  A step is a section with interrupts masked or the scheduler  *)
(* suspended, or what a task does between two accesses to what the other   *)
(* one writes.  Writer and reader come in any order, for either may be the *)
(* task of the higher priority; while one is in no call, an interrupt may  *)
(* take its place.  A message is stored with its length before it.         *)
(***************************************************************************)
EXTENDS Integers, Sequences, SequencesExt

CONSTANTS
  xLength,            \* of the ring: one byte more than it can hold
  sbBYTES_TO_STORE_MESSAGE_LENGTH,
  SendLengths,        \* what xDataLengthBytes may be
  ReceiveLengths,     \* what xBufferLengthBytes may be
  TriggerLevels,      \* that xStreamBufferSetTriggerLevel is given
  Interrupts,         \* do interrupts use the buffer too?
  Bytes               \* bytes are counted modulo this number as they are sent

ASSUME StreamAssumption ==
  /\ xLength \in Nat \ {0, 1} /\ sbBYTES_TO_STORE_MESSAGE_LENGTH \in Nat \ {0}
  /\ SendLengths \subseteq Nat /\ ReceiveLengths \subseteq Nat /\ TriggerLevels \subseteq Nat
  /\ Interrupts \in BOOLEAN /\ Bytes \in Nat \ {0}

VARIABLES
  sb,        \* the StreamBuffer_t, a record
  pc,        \* [task -> where it is in a call]
  sending,   \* the parameters and the variables of the call that sends
  receiving, \* and of the one that receives
  ucNotifyState,
  queued,    \* history: the messages, or single bytes, that are in the buffer
  sent       \* history: the number of bytes sent, modulo Bytes

streamVars == <<sb, pc, sending, receiving, ucNotifyState, queued, sent>>

Ends == {"writer", "reader"}

\* block is "no", "timed" or "forever": xTicksToWait is 0, a number of ticks, or
\* portMAX_DELAY.  over: the wait came to its end.
NotSending == [length |-> 0, block |-> "no", over |-> FALSE, xSpace |-> 0]
NotReceiving == [length |-> 0, block |-> "no", xBytesAvailable |-> 0, data |-> <<>>]

\* xStreamBufferGenericCreate: a level of 0 stands for 1.  waiting[task] stands
\* for xTaskWaitingToSend and xTaskWaitingToReceive.
Level(xTriggerLevel) == IF xTriggerLevel = 0 THEN 1 ELSE xTriggerLevel
New(isMessageBuffer, xTriggerLevelBytes, pucBuffer) ==
  [isMessageBuffer |-> isMessageBuffer, xTriggerLevelBytes |-> xTriggerLevelBytes,
   pucBuffer |-> pucBuffer, xHead |-> 0, xTail |-> 0, waiting |-> [t \in Ends |-> FALSE]]

\* What the memory holds at first is never read.
StreamInit ==
  /\ \E isMessageBuffer \in BOOLEAN :
       sb = New(isMessageBuffer, Level(0), [i \in 0 .. xLength - 1 |-> 0])
  /\ pc = [t \in Ends |-> "app"]
  /\ sending = NotSending /\ receiving = NotReceiving
  /\ ucNotifyState = [t \in Ends |-> "none"]
  /\ queued = <<>> /\ sent = 0

-----------------------------------------------------------------------------
(* The ring.  Each definition whose name ends in Faulty is a variant of    *)
(* the one that follows it, with a plausible mistake; the specification    *)
(* uses none.                                                              *)

\* prvBytesInBuffer
BytesInBuffer(s) ==
  LET xCount == xLength + s.xHead - s.xTail
  IN IF xCount >= xLength THEN xCount - xLength ELSE xCount

\* xStreamBufferSpacesAvailable: a byte is kept free, for a full ring would look
\* like an empty one.
SpacesAvailableFaulty ==
  LET xSpace == xLength + sb.xTail - sb.xHead
  IN IF xSpace > xLength THEN xSpace - xLength ELSE xSpace
SpacesAvailable ==
  LET xSpace == xLength + sb.xTail - sb.xHead - 1
  IN IF xSpace >= xLength THEN xSpace - xLength ELSE xSpace

\* prvWriteBytesToBuffer and prvReadBytesFromBuffer, round the end of the ring.
Place(from, i) == (from + i) % xLength
WriteBytes(data, xHead) ==
  [p \in 0 .. xLength - 1 |->
     LET i == (p - xHead) % xLength IN IF i < Len(data) THEN data[i + 1] ELSE sb.pucBuffer[p]]
ReadBytes(count, xTail) == [i \in 1 .. count |-> sb.pucBuffer[Place(xTail, i - 1)]]

\* A length in memory, the low byte first.
LengthBytes(n) ==
  [i \in 1 .. sbBYTES_TO_STORE_MESSAGE_LENGTH |-> IF i = 1 THEN n ELSE 0]
HeaderLength == IF sb.isMessageBuffer THEN sbBYTES_TO_STORE_MESSAGE_LENGTH ELSE 0

\* prvWriteMessageToBuffer: of the bytes of a call those that are written, all of
\* a message or none.
RequiredSpace(length) ==
  IF sb.isMessageBuffer THEN length + HeaderLength
  ELSE IF length > xLength - 1 THEN xLength - 1 ELSE length
Written(length, xSpace) ==
  IF ~sb.isMessageBuffer THEN (IF length < xSpace THEN length ELSE xSpace)
  ELSE IF xSpace >= RequiredSpace(length) THEN length ELSE 0

\* The bytes the caller sends are numbered.
Data(n) == [i \in 1 .. n |-> (sent + i) % Bytes]
Stored(message) == IF sb.isMessageBuffer THEN LengthBytes(Len(message)) \o message ELSE message
Messages(data) == IF sb.isMessageBuffer THEN <<data>> ELSE [i \in 1 .. Len(data) |-> <<data[i]>>]

\* xHead moves on once the bytes are there, and the message is sent.
Filled(s, n) == [s EXCEPT !.pucBuffer = WriteBytes(Stored(Data(n)), s.xHead)]
Sent(s, n) == [s EXCEPT !.xHead = Place(s.xHead, n + HeaderLength)]
AsSent(n) == queued' = queued \o Messages(Data(n)) /\ sent' = (sent + n) % Bytes

\* prvReadMessageFromBuffer: the bytes read, none of a message too long for the
\* caller's memory.
Taken(length, xBytesAvailable) ==
  LET xNextMessageLength == sb.pucBuffer[sb.xTail]
      wanted == IF ~sb.isMessageBuffer THEN length
                ELSE IF xNextMessageLength > length THEN 0 ELSE xNextMessageLength
      available == xBytesAvailable - HeaderLength
      xCount == IF wanted < available THEN wanted ELSE available
  IN ReadBytes(xCount, Place(sb.xTail, HeaderLength))
Received(s, n) == [s EXCEPT !.xTail = Place(s.xTail, n + HeaderLength)]
AsReceived(n) ==
  queued' = IF sb.isMessageBuffer THEN Tail(queued) ELSE SubSeq(queued, n + 1, Len(queued))

-----------------------------------------------------------------------------
(* Task notifications                                                      *)

\* xTaskGenericNotify, and from an interrupt, of the task in a field of the
\* buffer, with pcs as the caller changes them: it runs again if it waits.
Notify(s, task, pcs) ==
  IF s.waiting[task]
    THEN /\ sb' = [s EXCEPT !.waiting[task] = FALSE]
         /\ ucNotifyState' = [ucNotifyState EXCEPT ![task] = "received"]
         /\ pc' = [pcs EXCEPT ![task] = IF @ = "blocked" THEN "woken" ELSE @]
    ELSE sb' = s /\ pc' = pcs /\ UNCHANGED ucNotifyState

\* xTaskGenericNotifyStateClear, and then the field.
Register(task) ==
  /\ ucNotifyState' = [ucNotifyState EXCEPT ![task] = "none"]
  /\ sb' = [sb EXCEPT !.waiting[task] = TRUE]
  /\ pc' = [pc EXCEPT ![task] = "wait"]

\* The first section of xTaskGenericNotifyWait, and the second one.
NotifyWait(task) ==
  /\ pc[task] = "wait"
  /\ IF ucNotifyState[task] = "received"
       THEN pc' = [pc EXCEPT ![task] = "woken"] /\ UNCHANGED ucNotifyState
       ELSE /\ pc' = [pc EXCEPT ![task] = "blocked"]
            /\ ucNotifyState' = [ucNotifyState EXCEPT ![task] = "waiting"]
  /\ UNCHANGED <<sb, sending, receiving, queued, sent>>
NotifyWaited(task) ==
  /\ pc[task] = "woken"
  /\ pc' = [pc EXCEPT ![task] = "waited"]
  /\ ucNotifyState' = [ucNotifyState EXCEPT ![task] = "none"]
  /\ UNCHANGED <<sb, sending, receiving, queued, sent>>

\* xTaskIncrementTick
NotifyTimeOut(task) ==
  /\ pc[task] = "blocked"
  /\ IF task = "writer" THEN sending.block = "timed" ELSE receiving.block = "timed"
  /\ pc' = [pc EXCEPT ![task] = "woken"]
  /\ sending' = IF task = "writer" THEN [sending EXCEPT !.over = TRUE] ELSE sending
  /\ UNCHANGED <<sb, receiving, ucNotifyState, queued, sent>>

-----------------------------------------------------------------------------
(* xStreamBufferSend                                                       *)

\* A message that can never be stored is not waited for, but refused.
Fits(length) == ~sb.isMessageBuffer \/ RequiredSpace(length) <= xLength - 1

\* A turn of the loop: is there room?
CheckSpace(call) ==
  LET xSpace == SpacesAvailable
  IN /\ sending' = [call EXCEPT !.xSpace = xSpace]
     /\ IF xSpace < RequiredSpace(call.length) THEN Register("writer")
        ELSE pc' = [pc EXCEPT !["writer"] = "copy"] /\ UNCHANGED <<sb, ucNotifyState>>
     /\ UNCHANGED <<receiving, queued, sent>>

xStreamBufferSend ==
  /\ pc["writer"] = "app"
  /\ \E n \in SendLengths, block \in {"no", "timed", "forever"} :
       LET call == [NotSending EXCEPT !.length = n, !.block = block]
       IN IF block # "no" /\ Fits(n) THEN CheckSpace(call)
          ELSE /\ pc' = [pc EXCEPT !["writer"] = "space"]
               /\ sending' = call
               /\ UNCHANGED <<sb, receiving, ucNotifyState, queued, sent>>

SendAgain == pc["writer"] = "check" /\ CheckSpace(sending)

\* The end of a turn: the time may be over.
SendWaited ==
  /\ pc["writer"] = "waited"
  /\ sb' = [sb EXCEPT !.waiting["writer"] = FALSE]
  /\ \/ sending.block = "forever" /\ pc' = [pc EXCEPT !["writer"] = "check"]
     \/ sending.block = "timed" /\ ~sending.over /\ pc' = [pc EXCEPT !["writer"] = "check"]
     \/ /\ sending.block = "timed"
        /\ pc' = [pc EXCEPT !["writer"] = IF sending.xSpace = 0 THEN "space" ELSE "copy"]
  /\ UNCHANGED <<sending, receiving, ucNotifyState, queued, sent>>

SendSpace ==
  /\ pc["writer"] = "space"
  /\ sending' = [sending EXCEPT !.xSpace = SpacesAvailable]
  /\ pc' = [pc EXCEPT !["writer"] = "copy"]
  /\ UNCHANGED <<sb, receiving, ucNotifyState, queued, sent>>

Sending == Written(sending.length, sending.xSpace)

\* A call that ends leaves nothing of its variables.
SendReturns(s) ==
  /\ sending' = NotSending
  /\ UNCHANGED <<receiving, queued, sent>>
  /\ sb' = s /\ pc' = [pc EXCEPT !["writer"] = "app"] /\ UNCHANGED ucNotifyState

SendCopy ==
  /\ pc["writer"] = "copy"
  /\ IF Sending = 0 THEN SendReturns(sb)
     ELSE /\ sb' = Filled(sb, Sending)
          /\ pc' = [pc EXCEPT !["writer"] = "commit"]
          /\ UNCHANGED <<sending, receiving, ucNotifyState, queued, sent>>

SendCommit ==
  /\ pc["writer"] = "commit"
  /\ sb' = Sent(sb, Sending)
  /\ AsSent(Sending)
  /\ pc' = [pc EXCEPT !["writer"] = "trigger"]
  /\ UNCHANGED <<sending, receiving, ucNotifyState>>

\* Enough for the reader to be woken?
TriggeredFaulty(s) == BytesInBuffer(s) > s.xTriggerLevelBytes
Triggered(s) == BytesInBuffer(s) >= s.xTriggerLevelBytes

SendTrigger ==
  /\ pc["writer"] = "trigger"
  /\ IF Triggered(sb)
       THEN /\ pc' = [pc EXCEPT !["writer"] = "notify"]
            /\ UNCHANGED <<sb, sending, receiving, ucNotifyState, queued, sent>>
       ELSE SendReturns(sb)

SendNotify ==
  /\ pc["writer"] = "notify"
  /\ Notify(sb, "reader", [pc EXCEPT !["writer"] = "app"])
  /\ sending' = NotSending
  /\ UNCHANGED <<receiving, queued, sent>>

\* An interrupt sends while no task does.
xStreamBufferSendFromISR ==
  /\ Interrupts /\ pc["writer"] = "app"
  /\ \E length \in SendLengths :
       LET n == Written(length, SpacesAvailable)
           s == Sent(Filled(sb, n), n)
       IN /\ n > 0
          /\ IF Triggered(s) THEN Notify(s, "reader", pc)
             ELSE sb' = s /\ UNCHANGED <<pc, ucNotifyState>>
          /\ AsSent(n)
  /\ UNCHANGED <<sending, receiving>>

-----------------------------------------------------------------------------
(* xStreamBufferReceive                                                    *)

\* A call that finds nothing to read ends; an interrupt's call does too.
Found(call) ==
  /\ receiving' = IF call.xBytesAvailable > HeaderLength THEN call ELSE NotReceiving
  /\ pc' = [pc EXCEPT !["reader"] =
               IF call.xBytesAvailable > HeaderLength THEN "copy" ELSE "app"]

xStreamBufferReceive ==
  /\ pc["reader"] = "app"
  /\ \E n \in ReceiveLengths, block \in {"no", "timed", "forever"} :
       LET call == [NotReceiving EXCEPT !.length = n, !.block = block,
                                        !.xBytesAvailable = BytesInBuffer(sb)]
       IN IF block # "no" /\ BytesInBuffer(sb) <= HeaderLength
            THEN Register("reader") /\ receiving' = call
            ELSE Found(call) /\ UNCHANGED <<sb, ucNotifyState>>
  /\ UNCHANGED <<sending, queued, sent>>

\* The reader waits once only, whatever it is woken by.
ReceiveWaited ==
  /\ pc["reader"] = "waited"
  /\ sb' = [sb EXCEPT !.waiting["reader"] = FALSE]
  /\ Found([receiving EXCEPT !.xBytesAvailable = BytesInBuffer(sb)])
  /\ UNCHANGED <<sending, ucNotifyState, queued, sent>>

ReceiveCopy ==
  /\ pc["reader"] = "copy"
  /\ LET data == Taken(receiving.length, receiving.xBytesAvailable)
     IN IF data = <<>>
          THEN receiving' = NotReceiving /\ pc' = [pc EXCEPT !["reader"] = "app"]
          ELSE /\ receiving' = [receiving EXCEPT !.data = data]
               /\ pc' = [pc EXCEPT !["reader"] = "commit"]
  /\ UNCHANGED <<sb, sending, ucNotifyState, queued, sent>>

ReceiveCommit ==
  /\ pc["reader"] = "commit"
  /\ sb' = Received(sb, Len(receiving.data))
  /\ AsReceived(Len(receiving.data))
  /\ pc' = [pc EXCEPT !["reader"] = "notify"]
  /\ receiving' = NotReceiving
  /\ UNCHANGED <<sending, ucNotifyState, sent>>

ReceiveNotify ==
  /\ pc["reader"] = "notify"
  /\ Notify(sb, "writer", [pc EXCEPT !["reader"] = "app"])
  /\ UNCHANGED <<sending, receiving, queued, sent>>

xStreamBufferReceiveFromISR ==
  /\ Interrupts /\ pc["reader"] = "app"
  /\ BytesInBuffer(sb) > HeaderLength
  /\ \E length \in ReceiveLengths :
       LET n == Len(Taken(length, BytesInBuffer(sb)))
       IN n > 0 /\ Notify(Received(sb, n), "writer", pc) /\ AsReceived(n)
  /\ UNCHANGED <<sending, receiving, sent>>

-----------------------------------------------------------------------------
(* The rest                                                                *)

\* xStreamBufferSendCompletedFromISR and xStreamBufferReceiveCompletedFromISR, for
\* buffers between cores.
CompletedFromISR(task) ==
  /\ Interrupts /\ sb.waiting[task]
  /\ Notify(sb, task, pc)
  /\ UNCHANGED <<sending, receiving, queued, sent>>

\* A reader in a call is not woken by a new level; and a reset looks only at the
\* fields of tasks that wait, not at calls that are half done.  The application is
\* assumed to do neither then.
xStreamBufferSetTriggerLevel ==
  /\ pc["reader"] = "app" /\ ~sb.isMessageBuffer
  /\ \E xTriggerLevel \in TriggerLevels :
       /\ Level(xTriggerLevel) < xLength
       /\ sb' = [sb EXCEPT !.xTriggerLevelBytes = Level(xTriggerLevel)]
  /\ UNCHANGED <<pc, sending, receiving, ucNotifyState, queued, sent>>

xStreamBufferReset ==
  /\ \A t \in Ends : pc[t] = "app" /\ ~sb.waiting[t]
  /\ sb' = New(sb.isMessageBuffer, sb.xTriggerLevelBytes, sb.pucBuffer)
  /\ queued' = <<>>
  /\ UNCHANGED <<pc, sending, receiving, ucNotifyState, sent>>

StreamNext ==
  \/ xStreamBufferSend \/ SendAgain \/ SendWaited \/ SendSpace \/ SendCopy \/ SendCommit
  \/ SendTrigger \/ SendNotify \/ xStreamBufferSendFromISR
  \/ xStreamBufferReceive \/ ReceiveWaited \/ ReceiveCopy \/ ReceiveCommit
  \/ ReceiveNotify \/ xStreamBufferReceiveFromISR
  \/ \E t \in Ends : NotifyWait(t) \/ NotifyWaited(t) \/ NotifyTimeOut(t) \/ CompletedFromISR(t)
  \/ xStreamBufferSetTriggerLevel \/ xStreamBufferReset

StreamSpec == StreamInit /\ [][StreamNext]_streamVars

-----------------------------------------------------------------------------
\* What was sent is in the buffer, and is what a reader reads, in order, once, and
\* message by message: though neither side locks the ring, the bytes a call reads
\* are never those that the other side writes at the time.
SentIsReceived ==
  /\ ReadBytes(BytesInBuffer(sb), sb.xTail) =
       FlattenSeq([i \in 1 .. Len(queued) |-> Stored(queued[i])])
  /\ pc["reader"] = "commit" =>
       LET taken == IF sb.isMessageBuffer THEN 1 ELSE Len(receiving.data)
       IN receiving.data = FlattenSeq(SubSeq(queued, 1, taken))

\* No notification is lost: a reader that waits while the trigger level is
\* reached, and a writer that waits while there is the room it asked for, are in
\* the field of the buffer that the other side is about to look at.
Waits(t) == pc[t] \in {"wait", "blocked"} /\ ucNotifyState[t] # "received"
NoLostNotification ==
  /\ Waits("reader") /\ BytesInBuffer(sb) >= sb.xTriggerLevelBytes =>
       sb.waiting["reader"] /\ pc["writer"] \in {"trigger", "notify"}
  /\ Waits("writer") /\ SpacesAvailable >= RequiredSpace(sending.length) =>
       sb.waiting["writer"] /\ pc["reader"] = "notify"
=============================================================================
