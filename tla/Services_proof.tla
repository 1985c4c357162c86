---------------------------- MODULE Services_proof ---------------------------
(***************************************************************************)
(* Theorems about event groups, the Suspended state of tasks, stream       *)
(* buffers and software timers, for any tasks and any calls.               *)
(*                                                                         *)
(* Event groups: no task waits for bits that are there.  What makes the    *)
(* invariant inductive is that the event item of a task on the list says   *)
(* what its call waits for, for the walk down the list tests the items,    *)
(* not the calls; and that fewer bits never satisfy a call that more bits  *)
(* do not.  And nobody gets through a rendezvous more often than each of   *)
(* the others has come to it, where each party sets a bit of its own that  *)
(* nothing else sets: a bit that is set is a visit of its party that no    *)
(* meeting has used up yet.                                                *)
(*                                                                         *)
(* Suspension: a task is in the Suspended state exactly from vTaskSuspend  *)
(* until it is resumed, whether or not tasks are resumed that wait for a   *)
(* notification.  prvTaskIsTaskSuspended tells a suspended task from one   *)
(* that waits for ever by its event item, and eTaskGetState by             *)
(* ucNotifyState as well.  The invariant says, of one task, when these     *)
(* fields are what they are: every action changes the fields of one task,  *)
(* but for xTaskResumeAll.                                                 *)
(*                                                                         *)
(* Stream buffers: no notification is lost between writer and reader, and  *)
(* neither side overruns the other one in the ring, for any size of the    *)
(* ring and of the length before a message.  The counts that a side has    *)
(* read stay safe, for only the other side changes the ring meanwhile, and *)
(* that to its advantage.  For a message buffer it matters that the ring   *)
(* holds whole messages: a reader waits when there are no more bytes than  *)
(* the length of a message takes, and that has to mean that there are      *)
(* none.                                                                   *)
(* And what is read is what was sent: the bytes in use are those of the    *)
(* messages that are in the buffer, and what a side copies while it is in  *)
(* its call is not touched by the other one.                               *)
(*                                                                         *)
(* Software timers: each callback is called once for every expiry, for any *)
(* width of the tick count, any periods and any number of timers.  The     *)
(* lists are sorted, and the time of a timer on its list, the expiries     *)
(* whose callback is to come and the ticks to the next one fit together;   *)
(* a sleeping timer task wakes before the first of them; and a command     *)
(* tells the time at which it was given, however long it lies in the queue *)
(* within a range of the tick count.                                       *)
(***************************************************************************)
EXTENDS EventGroups, TaskSuspension, StreamBuffer, Timers, KernelLists_proof

-----------------------------------------------------------------------------
(* Event groups.                                                           *)

ItemType ==
  [bits : SUBSET EventBits, all : BOOLEAN, clear : BOOLEAN, unblocked : BOOLEAN]
TaskType == [pc : {"app", "blocked"}, call : CallType]

\* A task on the list is in a call that waits, and its item tells which.
ItemsTell ==
  \A t \in xTasksWaitingForBits :
    /\ task[t].pc = "blocked"
    /\ xEventListItem[t] = Item(task[t].call.wait, task[t].call.all, task[t].call.clear, FALSE)

IInv == TypeOK /\ ItemsTell /\ NoSatisfiedWaiter

\* Fewer bits: prvTestWaitCondition is monotone in the bits.
LEMMA FewerBits ==
  ASSUME NEW bits, NEW fewer \in SUBSET bits, NEW wait, NEW all \in BOOLEAN,
         ~TestWaitCondition(bits, wait, all)
  PROVE  ~TestWaitCondition(fewer, wait, all)
BY DEF TestWaitCondition

LEMMA InitTypeOK == Init => TypeOK
BY DEF Init, TypeOK, NoItem, AtApp, Item, Call, CallType, Ops

\* A call of a task, of an interrupt.
LEMMA CallsTyped ==
  ASSUME NEW t \in Tasks, NEW op, NEW c \in Calling(t, op)
  PROVE  /\ c \in CallType /\ c.op = op /\ c.set \in SUBSET EventBits
         /\ c.wait \in SUBSET EventBits /\ c.all \in BOOLEAN /\ c.clear \in BOOLEAN
         /\ task[t].pc = "app"
         /\ op = "sync" => c.all /\ c.clear
BY EventAssumption DEF Calling, CallType

\* xEventGroupSetBits keeps the types, and the bits it leaves are some of those
\* it tested.
LEMMA SetBitsTyped ==
  ASSUME TypeOK, NEW set \in SUBSET EventBits, SetBits(set)
  PROVE  /\ uxEventBits' \in SUBSET EventBits
         /\ uxEventBits' \in SUBSET (uxEventBits \cup set)
         /\ xTasksWaitingForBits' \in SUBSET Tasks
         /\ xEventListItem' \in [Tasks -> [bits : SUBSET EventBits, all : BOOLEAN,
                                           clear : BOOLEAN, unblocked : BOOLEAN]]
BY DEF TypeOK, SetBits, vTaskRemoveFromUnorderedEventList, Item, BitsToClear, Matched

\* The walk leaves no task on the list that the new bits satisfy.
LEMMA SetBitsReleases ==
  ASSUME IInv, NEW set \in SUBSET EventBits, SetBits(set), UNCHANGED task
  PROVE  ItemsTell' /\ NoSatisfiedWaiter'
<1> DEFINE bits == uxEventBits \cup set
<1> SUFFICES ASSUME NEW t \in xTasksWaitingForBits'
             PROVE  /\ task'[t].pc = "blocked"
                    /\ xEventListItem'[t] = Item(task'[t].call.wait, task'[t].call.all,
                                                 task'[t].call.clear, FALSE)
                    /\ ~TestWaitCondition(uxEventBits', task'[t].call.wait, task'[t].call.all)
  BY DEF ItemsTell, NoSatisfiedWaiter
<1>1. t \in xTasksWaitingForBits /\ t \in Tasks /\ t \notin Matched(bits)
  BY DEF SetBits, vTaskRemoveFromUnorderedEventList, IInv, TypeOK
<1>2. xEventListItem'[t] = xEventListItem[t]
  BY <1>1 DEF SetBits, vTaskRemoveFromUnorderedEventList
<1>3. /\ task[t].pc = "blocked"
      /\ xEventListItem[t] = Item(task[t].call.wait, task[t].call.all, task[t].call.clear, FALSE)
  BY <1>1 DEF IInv, ItemsTell
<1>4. ~TestWaitCondition(bits, task[t].call.wait, task[t].call.all)
  BY <1>1, <1>3 DEF Matched, Item
<1>5. task[t].call.all \in BOOLEAN
  BY <1>1 DEF IInv, TypeOK, CallType
<1>6. uxEventBits' \in SUBSET bits
  BY SetBitsTyped DEF IInv
<1>7. ~TestWaitCondition(uxEventBits', task[t].call.wait, task[t].call.all)
  BY <1>4, <1>5, <1>6, FewerBits
<1> QED BY <1>2, <1>3, <1>7

\* Bits that are cleared, and tasks that leave the list, satisfy no other task.
LEMMA ClearedBits ==
  ASSUME IInv, uxEventBits' \in SUBSET uxEventBits,
         xTasksWaitingForBits' \in SUBSET xTasksWaitingForBits,
         \A t \in xTasksWaitingForBits' :
           task'[t] = task[t] /\ xEventListItem'[t] = xEventListItem[t]
  PROVE  ItemsTell' /\ NoSatisfiedWaiter'
<1>1. ItemsTell'
  BY DEF IInv, ItemsTell
<1>2. ASSUME NEW t \in xTasksWaitingForBits'
      PROVE  ~TestWaitCondition(uxEventBits', task'[t].call.wait, task'[t].call.all)
  <2>1. /\ ~TestWaitCondition(uxEventBits, task[t].call.wait, task[t].call.all)
        /\ task[t].call.all \in BOOLEAN
    BY DEF IInv, NoSatisfiedWaiter, TypeOK, CallType
  <2> QED BY <2>1, FewerBits
<1> QED BY <1>1, <1>2 DEF NoSatisfiedWaiter

-----------------------------------------------------------------------------
\* Type correctness of a step, one action after another.
LEMMA NextTypeOK == TypeOK /\ [Next]_vars => TypeOK'
<1> SUFFICES ASSUME TypeOK, [Next]_vars PROVE TypeOK'
  OBVIOUS
<1> USE DEF TypeOK
<1>1. ASSUME NEW t \in Tasks, xEventGroupSetBits(t) PROVE TypeOK'
  <2>1. PICK c \in Calling(t, "set") :
          SetBits(c.set) /\ UNCHANGED <<task, pended, exists, entered, met>>
    BY <1>1 DEF xEventGroupSetBits
  <2>2. c.set \in SUBSET EventBits
    BY CallsTyped
  <2> QED BY <2>1, <2>2, SetBitsTyped
<1>2. ASSUME NEW t \in Tasks, xEventGroupClearBits(t) PROVE TypeOK'
  BY <1>2 DEF xEventGroupClearBits
<1>3. ASSUME NEW t \in Tasks, xEventGroupWaitBits(t) PROVE TypeOK'
  <2>1. PICK c \in Calling(t, "wait") :
          /\ uxEventBits' \in SUBSET uxEventBits
          /\ \/ UNCHANGED <<xTasksWaitingForBits, xEventListItem, task>>
             \/ PlaceOnUnorderedEventList(t, c)
          /\ UNCHANGED <<pended, exists, entered, met>>
    BY <1>3 DEF xEventGroupWaitBits
  <2>2. c \in CallType /\ c.wait \in SUBSET EventBits /\ c.all \in BOOLEAN /\ c.clear \in BOOLEAN
    BY CallsTyped
  <2>3. ASSUME PlaceOnUnorderedEventList(t, c)
        PROVE  /\ xTasksWaitingForBits' \in SUBSET Tasks
               /\ xEventListItem' \in [Tasks -> ItemType] /\ task' \in [Tasks -> TaskType]
    <3>1. Item(c.wait, c.all, c.clear, FALSE) \in ItemType
      BY <2>2 DEF Item, ItemType
    <3>2. [pc |-> "blocked", call |-> c] \in TaskType
      BY <2>2 DEF TaskType
    <3> QED BY <2>3, <3>1, <3>2 DEF PlaceOnUnorderedEventList, ItemType, TaskType
  <2> QED BY <2>1, <2>3 DEF ItemType, TaskType
<1>4. ASSUME NEW t \in Tasks, xEventGroupSync(t) PROVE TypeOK'
  <2> DEFINE After(c) == uxEventBits \cup c.set
  <2>1. PICK c \in Calling(t, "sync") :
          /\ uxEventBits' \in SUBSET After(c)
          /\ entered' = [entered EXCEPT ![t] = @ + 1]
          /\ met' = [met EXCEPT ![t] = @ + 1] \/ met' = met
          /\ \/ vTaskRemoveFromUnorderedEventList(Matched(After(c)), After(c)) /\ UNCHANGED task
             \/ /\ xTasksWaitingForBits' = (xTasksWaitingForBits \ Matched(After(c))) \cup {t}
                /\ xEventListItem' = [u \in Tasks |->
                     IF u = t THEN Item(c.wait, TRUE, TRUE, FALSE)
                     ELSE IF u \in Matched(After(c)) THEN Item(After(c), FALSE, FALSE, TRUE)
                     ELSE xEventListItem[u]]
                /\ task' = [task EXCEPT ![t] = [pc |-> "blocked", call |-> c]]
          /\ UNCHANGED <<pended, exists>>
    BY <1>4 DEF xEventGroupSync, SyncedBits
  <2>2. /\ c \in CallType /\ c.wait \in SUBSET EventBits
        /\ After(c) \in SUBSET EventBits
    BY CallsTyped
  <2>3. /\ entered \in [Tasks -> Nat] /\ met \in [Tasks -> Nat]
        /\ entered' = [entered EXCEPT ![t] = @ + 1]
        /\ met' = [met EXCEPT ![t] = @ + 1] \/ met' = met
    BY <2>1
  <2>4. entered' \in [Tasks -> Nat] /\ met' \in [Tasks -> Nat]
    BY ONLY <2>3
  <2>5. /\ xTasksWaitingForBits' \in SUBSET Tasks
        /\ xEventListItem' \in [Tasks -> ItemType] /\ task' \in [Tasks -> TaskType]
    <3>1. /\ Item(c.wait, TRUE, TRUE, FALSE) \in ItemType
          /\ Item(After(c), FALSE, FALSE, TRUE) \in ItemType
      BY <2>2 DEF Item, ItemType
    <3>2. [pc |-> "blocked", call |-> c] \in TaskType
      BY <2>2 DEF TaskType
    <3>3. xEventListItem \in [Tasks -> ItemType] /\ task \in [Tasks -> TaskType]
      BY DEF ItemType, TaskType
    <3> HIDE DEF After
    <3>4. CASE vTaskRemoveFromUnorderedEventList(Matched(After(c)), After(c)) /\ UNCHANGED task
      BY <3>1, <3>3, <3>4 DEF vTaskRemoveFromUnorderedEventList
    <3>5. CASE /\ xTasksWaitingForBits' = (xTasksWaitingForBits \ Matched(After(c))) \cup {t}
               /\ xEventListItem' = [u \in Tasks |->
                     IF u = t THEN Item(c.wait, TRUE, TRUE, FALSE)
                     ELSE IF u \in Matched(After(c)) THEN Item(After(c), FALSE, FALSE, TRUE)
                     ELSE xEventListItem[u]]
               /\ task' = [task EXCEPT ![t] = [pc |-> "blocked", call |-> c]]
      BY <3>1, <3>2, <3>3, <3>5
    <3> QED BY <2>1, <3>4, <3>5
  <2>6. uxEventBits' \in SUBSET EventBits /\ UNCHANGED <<pended, exists>>
    BY <2>1, <2>2
  <2> QED BY <2>4, <2>5, <2>6 DEF ItemType, TaskType
<1>5. ASSUME NEW t \in Tasks, TimeOut(t) PROVE TypeOK'
  BY <1>5 DEF TimeOut
<1>6. ASSUME NEW t \in Tasks, Return(t) PROVE TypeOK'
  <2>1. /\ uxEventBits' \in SUBSET uxEventBits
        /\ met' = [met EXCEPT ![t] = @ + 1] \/ met' = met
        /\ xEventListItem' = [xEventListItem EXCEPT ![t] = NoItem]
        /\ task' = [task EXCEPT ![t] = AtApp]
        /\ UNCHANGED <<xTasksWaitingForBits, pended, exists, entered>>
    BY <1>6 DEF Return
  <2>2. NoItem \in ItemType /\ AtApp \in TaskType
    BY DEF NoItem, Item, ItemType, AtApp, TaskType, Call, CallType, Ops
  <2>3. /\ met \in [Tasks -> Nat]
        /\ met' = [met EXCEPT ![t] = @ + 1] \/ met' = met
    BY <2>1
  <2>4. met' \in [Tasks -> Nat]
    BY ONLY <2>3
  <2>5. xEventListItem' \in [Tasks -> ItemType] /\ task' \in [Tasks -> TaskType]
    BY <2>1, <2>2 DEF ItemType, TaskType
  <2> QED BY <2>1, <2>4, <2>5 DEF ItemType, TaskType
<1>7. ASSUME NEW t \in Tasks, vEventGroupDelete(t) PROVE TypeOK'
  BY <1>7 DEF vEventGroupDelete, vTaskRemoveFromUnorderedEventList, Item
<1>8. CASE xTimerPendFunctionCallFromISR
  BY <1>8, EventAssumption DEF xTimerPendFunctionCallFromISR
<1>9. CASE vEventGroupCallback
  <2>1. Head(pended) \in CallType /\ Tail(pended) \in Seq(CallType)
    BY <1>9 DEF vEventGroupCallback
  <2>2. Head(pended).set \in SUBSET EventBits
    BY <2>1 DEF CallType
  <2>3. CASE Head(pended).op = "set"
    BY <1>9, <2>1, <2>2, <2>3, SetBitsTyped DEF vEventGroupCallback
  <2>4. CASE Head(pended).op # "set"
    BY <1>9, <2>1, <2>4 DEF vEventGroupCallback
  <2> QED BY <2>3, <2>4
<1>10. CASE UNCHANGED vars
  BY <1>10 DEF vars
<1> QED
  BY <1>1, <1>2, <1>3, <1>4, <1>5, <1>6, <1>7, <1>8, <1>9, <1>10 DEF Next

\* The state of an event group keeps its types: whatever bits, tasks and calls
\* there are, all values an event item is given are bits of the group.
THEOREM TypeCorrect == Spec => []TypeOK
<1>1. Init => TypeOK
  BY InitTypeOK
<1>2. TypeOK /\ [Next]_vars => TypeOK'
  BY NextTypeOK
<1> QED BY <1>1, <1>2, PTL DEF Spec

-----------------------------------------------------------------------------
\* The caller of xEventGroupSync and of xEventGroupWaitBits, when it joins the
\* list: it is not satisfied by the bits it found, nor by the fewer that are left.
LEMMA Joins ==
  ASSUME IInv, NEW t \in Tasks, NEW c \in CallType, NEW bits,
         ~TestWaitCondition(bits, c.wait, c.all),
         uxEventBits' \in SUBSET bits,
         xTasksWaitingForBits' \in SUBSET (xTasksWaitingForBits \cup {t}),
         task' = [task EXCEPT ![t] = [pc |-> "blocked", call |-> c]],
         xEventListItem'[t] = Item(c.wait, c.all, c.clear, FALSE),
         \A u \in xTasksWaitingForBits' \ {t} :
           /\ xEventListItem'[u] = xEventListItem[u]
           /\ ~TestWaitCondition(bits, task[u].call.wait, task[u].call.all)
  PROVE  ItemsTell' /\ NoSatisfiedWaiter'
<1> SUFFICES ASSUME NEW u \in xTasksWaitingForBits'
             PROVE  /\ task'[u].pc = "blocked"
                    /\ xEventListItem'[u] = Item(task'[u].call.wait, task'[u].call.all,
                                                 task'[u].call.clear, FALSE)
                    /\ ~TestWaitCondition(uxEventBits', task'[u].call.wait, task'[u].call.all)
  BY DEF ItemsTell, NoSatisfiedWaiter
<1>1. task'[t] = [pc |-> "blocked", call |-> c]
  BY DEF IInv, TypeOK
<1>2. CASE u = t
  <2>1. c.all \in BOOLEAN
    BY DEF CallType
  <2>2. ~TestWaitCondition(uxEventBits', c.wait, c.all)
    BY <2>1, FewerBits
  <2>3. task'[u].pc = "blocked" /\ task'[u].call = c
    BY <1>1, <1>2
  <2> HIDE <1>1
  <2> QED BY <1>2, <2>2, <2>3
<1>3. CASE u # t
  <2>1. task'[u] = task[u] /\ u \in xTasksWaitingForBits
    BY <1>3 DEF IInv, TypeOK
  <2>2. /\ task[u].pc = "blocked" /\ task[u].call.all \in BOOLEAN
        /\ xEventListItem[u] = Item(task[u].call.wait, task[u].call.all,
                                    task[u].call.clear, FALSE)
    BY <2>1 DEF IInv, ItemsTell, TypeOK, CallType
  <2>3. ~TestWaitCondition(uxEventBits', task[u].call.wait, task[u].call.all)
    BY <1>3, <2>2, FewerBits
  <2> QED BY <1>3, <2>1, <2>2, <2>3
<1> QED BY <1>2, <1>3

\* No task waits for bits that are there.
LEMMA NextReleases == IInv /\ [Next]_vars => (ItemsTell /\ NoSatisfiedWaiter)'
<1> SUFFICES ASSUME IInv, [Next]_vars PROVE ItemsTell' /\ NoSatisfiedWaiter'
  OBVIOUS
<1>0. TypeOK
  BY DEF IInv
<1>1. ASSUME NEW t \in Tasks, xEventGroupSetBits(t) PROVE ItemsTell' /\ NoSatisfiedWaiter'
  <2>1. PICK c \in Calling(t, "set") : SetBits(c.set) /\ UNCHANGED task
    BY <1>1 DEF xEventGroupSetBits
  <2>2. c.set \in SUBSET EventBits
    BY CallsTyped
  <2> QED BY <2>1, <2>2, SetBitsReleases
<1>2. ASSUME NEW t \in Tasks, xEventGroupClearBits(t) PROVE ItemsTell' /\ NoSatisfiedWaiter'
  BY <1>2, ClearedBits DEF xEventGroupClearBits
<1>3. ASSUME NEW t \in Tasks, xEventGroupWaitBits(t) PROVE ItemsTell' /\ NoSatisfiedWaiter'
  <2>1. PICK c \in Calling(t, "wait") :
          \/ /\ uxEventBits' \in SUBSET uxEventBits
             /\ UNCHANGED <<xTasksWaitingForBits, xEventListItem, task>>
          \/ /\ ~TestWaitCondition(uxEventBits, c.wait, c.all)
             /\ uxEventBits' = uxEventBits
             /\ PlaceOnUnorderedEventList(t, c)
    BY <1>3 DEF xEventGroupWaitBits
  <2>2. CASE /\ uxEventBits' \in SUBSET uxEventBits
             /\ UNCHANGED <<xTasksWaitingForBits, xEventListItem, task>>
    BY <2>2, ClearedBits
  <2>3. CASE /\ ~TestWaitCondition(uxEventBits, c.wait, c.all)
             /\ uxEventBits' = uxEventBits
             /\ PlaceOnUnorderedEventList(t, c)
    <3>1. c \in CallType
      BY CallsTyped
    <3>2. xEventListItem'[t] = Item(c.wait, c.all, c.clear, FALSE)
      BY <1>0, <2>3 DEF PlaceOnUnorderedEventList, TypeOK
    <3>3. \A u \in xTasksWaitingForBits' \ {t} :
            /\ xEventListItem'[u] = xEventListItem[u]
            /\ ~TestWaitCondition(uxEventBits, task[u].call.wait, task[u].call.all)
      BY <1>0, <2>3 DEF PlaceOnUnorderedEventList, TypeOK, IInv, NoSatisfiedWaiter
    <3> QED BY <2>3, <3>1, <3>2, <3>3, Joins DEF PlaceOnUnorderedEventList
  <2> QED BY <2>1, <2>2, <2>3
<1>4. ASSUME NEW t \in Tasks, xEventGroupSync(t) PROVE ItemsTell' /\ NoSatisfiedWaiter'
  <2>1. PICK c \in Calling(t, "sync") :
          LET bits == uxEventBits \cup c.set
              satisfied == c.wait \subseteq bits
              released == Matched(bits)
          IN /\ uxEventBits' = SyncedBits(c)
             /\ IF satisfied \/ c.block = "no"
                  THEN vTaskRemoveFromUnorderedEventList(released, bits) /\ UNCHANGED task
                  ELSE /\ xTasksWaitingForBits' = (xTasksWaitingForBits \ released) \cup {t}
                       /\ xEventListItem' = [u \in Tasks |->
                            IF u = t THEN Item(c.wait, TRUE, TRUE, FALSE)
                            ELSE IF u \in released THEN Item(bits, FALSE, FALSE, TRUE)
                            ELSE xEventListItem[u]]
                       /\ task' = [task EXCEPT ![t] = [pc |-> "blocked", call |-> c]]
    BY <1>4 DEF xEventGroupSync
  <2> DEFINE bits == uxEventBits \cup c.set
  <2>2. /\ c \in CallType /\ c.all = TRUE /\ c.clear = TRUE /\ task[t].pc = "app"
    BY CallsTyped
  <2>3. uxEventBits' \in SUBSET bits
    BY <2>1 DEF SyncedBits
  <2>4. ASSUME NEW u \in xTasksWaitingForBits, u \notin Matched(bits)
        PROVE  ~TestWaitCondition(bits, task[u].call.wait, task[u].call.all)
    <3>1. xEventListItem[u] = Item(task[u].call.wait, task[u].call.all,
                                  task[u].call.clear, FALSE)
      BY DEF IInv, ItemsTell
    <3> QED BY <2>4, <3>1 DEF Matched, Item
  <2>5. CASE c.wait \subseteq bits \/ c.block = "no"
    <3>1. /\ xTasksWaitingForBits' = xTasksWaitingForBits \ Matched(bits)
          /\ xEventListItem' = [u \in Tasks |->
               IF u \in Matched(bits) THEN Item(bits, FALSE, FALSE, TRUE) ELSE xEventListItem[u]]
          /\ task' = task
      BY <2>1, <2>5 DEF vTaskRemoveFromUnorderedEventList
    <3>2. ASSUME NEW u \in xTasksWaitingForBits'
          PROVE  /\ task'[u] = task[u] /\ xEventListItem'[u] = xEventListItem[u]
                 /\ u \in xTasksWaitingForBits
                 /\ ~TestWaitCondition(bits, task[u].call.wait, task[u].call.all)
      BY <1>0, <2>4, <3>1 DEF TypeOK
    <3>3. ItemsTell'
      BY <3>2 DEF ItemsTell, IInv
    <3>4. ASSUME NEW u \in xTasksWaitingForBits'
          PROVE  ~TestWaitCondition(uxEventBits', task'[u].call.wait, task'[u].call.all)
      <4>1. task[u].call.all \in BOOLEAN
        BY <1>0, <3>2 DEF TypeOK, CallType
      <4> QED BY <2>3, <3>2, <4>1, FewerBits
    <3> QED BY <3>3, <3>4 DEF NoSatisfiedWaiter
  <2>6. CASE ~(c.wait \subseteq bits \/ c.block = "no")
    <3>1. /\ xTasksWaitingForBits' = (xTasksWaitingForBits \ Matched(bits)) \cup {t}
          /\ xEventListItem' = [u \in Tasks |->
               IF u = t THEN Item(c.wait, TRUE, TRUE, FALSE)
               ELSE IF u \in Matched(bits) THEN Item(bits, FALSE, FALSE, TRUE)
               ELSE xEventListItem[u]]
          /\ task' = [task EXCEPT ![t] = [pc |-> "blocked", call |-> c]]
      BY <2>1, <2>6
    <3>2. ~TestWaitCondition(bits, c.wait, c.all)
      BY <2>2, <2>6 DEF TestWaitCondition
    <3>3. xEventListItem'[t] = Item(c.wait, c.all, c.clear, FALSE)
      BY <2>2, <3>1
    <3>4. \A u \in xTasksWaitingForBits' \ {t} :
            /\ xEventListItem'[u] = xEventListItem[u]
            /\ ~TestWaitCondition(bits, task[u].call.wait, task[u].call.all)
      BY <1>0, <2>4, <3>1 DEF TypeOK
    <3> HIDE DEF bits
    <3> QED BY <2>2, <2>3, <3>1, <3>2, <3>3, <3>4, Joins
  <2> QED BY <2>5, <2>6
<1>5. ASSUME NEW t \in Tasks, TimeOut(t) PROVE ItemsTell' /\ NoSatisfiedWaiter'
  BY <1>5, ClearedBits DEF TimeOut
<1>6. ASSUME NEW t \in Tasks, Return(t) PROVE ItemsTell' /\ NoSatisfiedWaiter'
  <2>1. /\ uxEventBits' \in SUBSET uxEventBits
        /\ t \notin xTasksWaitingForBits
        /\ xEventListItem' = [xEventListItem EXCEPT ![t] = NoItem]
        /\ task' = [task EXCEPT ![t] = AtApp]
        /\ UNCHANGED xTasksWaitingForBits
    BY <1>6 DEF Return
  <2>2. \A u \in xTasksWaitingForBits' :
          task'[u] = task[u] /\ xEventListItem'[u] = xEventListItem[u]
    BY <1>0, <2>1 DEF TypeOK
  <2> QED BY <2>1, <2>2, ClearedBits
<1>7. ASSUME NEW t \in Tasks, vEventGroupDelete(t) PROVE ItemsTell' /\ NoSatisfiedWaiter'
  <2>1. xTasksWaitingForBits' = {}
    BY <1>7 DEF vEventGroupDelete, vTaskRemoveFromUnorderedEventList
  <2> QED BY <2>1 DEF ItemsTell, NoSatisfiedWaiter
<1>8. CASE xTimerPendFunctionCallFromISR
  BY <1>8, ClearedBits DEF xTimerPendFunctionCallFromISR
<1>9. CASE vEventGroupCallback
  <2>0. Head(pended) \in CallType
    BY <1>0, <1>9 DEF vEventGroupCallback, TypeOK
  <2>1. Head(pended).set \in SUBSET EventBits
    BY <2>0 DEF CallType
  <2>2. CASE Head(pended).op = "set"
    BY <1>9, <2>1, <2>2, SetBitsReleases DEF vEventGroupCallback
  <2>3. CASE Head(pended).op # "set"
    BY <1>9, <2>3, ClearedBits DEF vEventGroupCallback
  <2> QED BY <2>2, <2>3
<1>10. CASE UNCHANGED vars
  BY <1>10, ClearedBits DEF vars
<1> QED
  BY <1>1, <1>2, <1>3, <1>4, <1>5, <1>6, <1>7, <1>8, <1>9, <1>10 DEF Next

\* A set that satisfies several tasks releases them all, whoever clears, times out
\* or waits meanwhile: no task is left to wait for bits that are there.
THEOREM EveryWaiterIsReleased == Spec => []NoSatisfiedWaiter
<1>1. Init => IInv
  <2>1. Init => ItemsTell /\ NoSatisfiedWaiter
    BY DEF Init, ItemsTell, NoSatisfiedWaiter
  <2> QED BY <2>1, InitTypeOK DEF IInv
<1>2. IInv /\ [Next]_vars => IInv'
  BY NextTypeOK, NextReleases DEF IInv
<1>3. IInv => NoSatisfiedWaiter
  BY DEF IInv
<1> QED BY <1>1, <1>2, <1>3, PTL DEF Spec

-----------------------------------------------------------------------------
(* The rendezvous, where each party has a bit that only its own calls of       *)
(* xEventGroupSync set, and that all of them wait for.                         *)

BitsAreTheirOwn(bit) ==
  /\ \A t, u \in Parties : \A c \in Calls[t] :
       c.op = "sync" => bit[u] \in c.wait /\ (u # t => bit[u] \notin c.set)
  /\ \A t \in Tasks : \A u \in Parties : \A c \in Calls[t] :
       c.op = "set" => bit[u] \notin c.set
  /\ \A u \in Parties : \A c \in IsrCalls : c.op = "set" => bit[u] \notin c.set

\* A task that was released in xEventGroupSync has met the others, and has only
\* to run to count it.
Promise(t) ==
  IF /\ task[t].pc = "blocked" /\ task[t].call.op = "sync"
     /\ t \notin xTasksWaitingForBits /\ xEventListItem[t].unblocked
    THEN 1 ELSE 0

\* A party's bit stands for one of its calls that no rendezvous has used up.
Mark(b) == IF b \in uxEventBits THEN 1 ELSE 0

CallsAreTheirs ==
  /\ \A t \in Tasks : task[t].pc = "blocked" => task[t].call \in Calls[t]
  /\ \A i \in 1 .. Len(pended) : pended[i] \in IsrCalls

\* What a task has been through or been released from, and the mark that another
\* party has left for the next time, are calls that the other has made.
Tally(bit) ==
  exists => \A x, u \in Parties : met[x] + Promise(x) + Mark(bit[u]) <= entered[u]

MeetInv(bit) == IInv /\ CallsAreTheirs /\ Tally(bit)

\* A walk that releases a party from the rendezvous finds all the marks, and
\* clears them.
LEMMA ReleasedMeet ==
  ASSUME NEW bit \in [Parties -> EventBits], BitsAreTheirOwn(bit), IInv, CallsAreTheirs,
         NEW bits, NEW x \in Parties, x \in Matched(bits), task[x].call.op = "sync",
         NEW u \in Parties
  PROVE  bit[u] \in bits /\ bit[u] \in BitsToClear(bits)
<1>1. x \in Tasks /\ x \in xTasksWaitingForBits
  BY DEF Parties, Matched
<1>2. /\ task[x].pc = "blocked" /\ task[x].call \in Calls[x]
      /\ xEventListItem[x] = Item(task[x].call.wait, task[x].call.all, task[x].call.clear, FALSE)
  BY <1>1 DEF IInv, ItemsTell, CallsAreTheirs
<1>3. task[x].call.all = TRUE /\ task[x].call.clear = TRUE /\ bit[u] \in task[x].call.wait
  BY <1>1, <1>2, EventAssumption DEF BitsAreTheirOwn, CallType
<1>4. /\ xEventListItem[x].bits = task[x].call.wait /\ xEventListItem[x].all = TRUE
      /\ xEventListItem[x].clear = TRUE
  BY <1>2, <1>3 DEF Item
<1>5. task[x].call.wait \subseteq bits
  BY <1>4 DEF Matched, TestWaitCondition
<1>6. x \in {m \in Matched(bits) : xEventListItem[m].clear}
  BY <1>4
<1> QED BY <1>3, <1>4, <1>5, <1>6 DEF BitsToClear

\* The accounts of a step.  A task meets the others at most once in it, and then
\* all the marks have been used up, each of a call made earlier or in this step;
\* a new mark is left by a call made in this step.
LEMMA Tallied ==
  ASSUME NEW bit, TypeOK, TypeOK', Tally(bit), exists' => exists,
         exists' => \A x \in Parties :
           \/ met'[x] + Promise(x)' <= met[x] + Promise(x)
           \/ /\ met'[x] + Promise(x)' <= met[x] + Promise(x) + 1
              /\ \A u \in Parties :
                   /\ bit[u] \notin uxEventBits'
                   /\ \/ bit[u] \in uxEventBits /\ entered'[u] = entered[u]
                      \/ entered'[u] = entered[u] + 1,
         exists' => \A u \in Parties :
           \/ (bit[u] \in uxEventBits' => bit[u] \in uxEventBits) /\ entered'[u] = entered[u]
           \/ entered'[u] = entered[u] + 1
  PROVE  Tally(bit)'
<1> SUFFICES ASSUME exists', NEW x \in Parties, NEW u \in Parties
             PROVE  met'[x] + Promise(x)' + Mark(bit[u])' <= entered'[u]
  BY DEF Tally
<1>1. x \in Tasks /\ u \in Tasks
  BY DEF Parties
<1>2. met[x] \in Nat /\ met'[x] \in Nat /\ entered[u] \in Nat /\ entered'[u] \in Nat
  BY <1>1 DEF TypeOK
<1>3. Promise(x) \in {0, 1} /\ Promise(x)' \in {0, 1}
  BY DEF Promise
<1>4. met[x] + Promise(x) + Mark(bit[u]) <= entered[u]
  BY DEF Tally
<1> DEFINE p == Promise(x)
           q == Promise(x)'
<1>5. p \in {0, 1} /\ q \in {0, 1} /\ met[x] + p + Mark(bit[u]) <= entered[u]
  BY <1>3, <1>4
<1>6. \/ met'[x] + q <= met[x] + p
      \/ /\ met'[x] + q <= met[x] + p + 1 /\ bit[u] \notin uxEventBits'
         /\ \/ bit[u] \in uxEventBits /\ entered'[u] = entered[u]
            \/ entered'[u] = entered[u] + 1
  OBVIOUS
<1>7. \/ (bit[u] \in uxEventBits' => bit[u] \in uxEventBits) /\ entered'[u] = entered[u]
      \/ entered'[u] = entered[u] + 1
  OBVIOUS
<1> SUFFICES met'[x] + q + Mark(bit[u])' <= entered'[u]
  OBVIOUS
<1> HIDE DEF p, q
<1>8. CASE bit[u] \in uxEventBits'
  BY <1>2, <1>5, <1>6, <1>7, <1>8 DEF Mark
<1>9. CASE bit[u] \notin uxEventBits'
  BY <1>2, <1>5, <1>6, <1>7, <1>9 DEF Mark
<1> QED BY <1>8, <1>9

\* A step that changes no task but those it releases in a walk for some bits that
\* are no party's.
LEMMA SetMeets ==
  ASSUME NEW bit \in [Parties -> EventBits], BitsAreTheirOwn(bit), MeetInv(bit), TypeOK',
         NEW set \in SUBSET EventBits, \A u \in Parties : bit[u] \notin set,
         SetBits(set), UNCHANGED <<task, exists, entered, met>>
  PROVE  Tally(bit)'
<1> DEFINE bits == uxEventBits \cup set
<1>1. IInv /\ CallsAreTheirs /\ Tally(bit) /\ TypeOK
  BY DEF MeetInv, IInv
<1>2. /\ uxEventBits' = bits \ BitsToClear(bits)
      /\ xTasksWaitingForBits' = xTasksWaitingForBits \ Matched(bits)
      /\ \A x \in Tasks : xEventListItem'[x] =
           IF x \in Matched(bits) THEN Item(bits, FALSE, FALSE, TRUE) ELSE xEventListItem[x]
  BY DEF SetBits, vTaskRemoveFromUnorderedEventList
<1>3. \A u \in Parties : bit[u] \in bits => bit[u] \in uxEventBits
  OBVIOUS
<1> HIDE DEF bits
<1>4. ASSUME NEW x \in Parties
      PROVE  \/ met'[x] + Promise(x)' <= met[x] + Promise(x)
             \/ /\ met'[x] + Promise(x)' <= met[x] + Promise(x) + 1
                /\ \A u \in Parties : bit[u] \notin uxEventBits' /\ bit[u] \in uxEventBits
  <2>1. x \in Tasks /\ met[x] \in Nat
    BY <1>1 DEF Parties, TypeOK
  <2>2. CASE x \in Matched(bits) /\ task[x].call.op = "sync"
    <3>1. \A u \in Parties : bit[u] \notin uxEventBits' /\ bit[u] \in uxEventBits
      BY <1>1, <1>2, <1>3, <2>2, ReleasedMeet
    <3>2. met'[x] + Promise(x)' <= met[x] + Promise(x) + 1
      BY <2>1 DEF Promise
    <3> QED BY <3>1, <3>2
  <2>3. CASE x \notin Matched(bits)
    <3>1. Promise(x)' = Promise(x)
      BY <1>2, <2>1, <2>3 DEF Promise
    <3> QED BY <2>1, <3>1 DEF Promise
  <2>4. CASE task[x].call.op # "sync"
    <3>1. Promise(x)' = 0 /\ Promise(x) = 0
      BY <2>4 DEF Promise
    <3> QED BY <2>1, <3>1
  <2> QED BY <2>2, <2>3, <2>4
<1>5. \A u \in Parties : bit[u] \in uxEventBits' => bit[u] \in uxEventBits
  BY <1>2, <1>3
<1> QED BY <1>1, <1>4, <1>5, Tallied

\* A step in which no task is released, and none of the calls of xEventGroupSync
\* begins or ends.
LEMMA NobodyMeets ==
  ASSUME NEW bit, MeetInv(bit), TypeOK',
         uxEventBits' \in SUBSET uxEventBits, UNCHANGED <<entered, met>>, exists' => exists,
         \A x \in Parties : Promise(x)' <= Promise(x)
  PROVE  Tally(bit)'
<1>1. TypeOK /\ Tally(bit)
  BY DEF MeetInv, IInv
<1>2. ASSUME NEW x \in Parties PROVE met'[x] + Promise(x)' <= met[x] + Promise(x)
  <2>1. met[x] \in Nat /\ Promise(x) \in {0, 1} /\ Promise(x)' \in {0, 1} /\ Promise(x)' <= Promise(x)
    BY <1>1 DEF TypeOK, Parties, Promise
  <2> DEFINE p == Promise(x)
             q == Promise(x)'
  <2>2. p \in {0, 1} /\ q \in {0, 1} /\ q <= p
    BY <2>1
  <2> SUFFICES met'[x] + q <= met[x] + p
    OBVIOUS
  <2> HIDE DEF p, q
  <2> QED BY <2>1, <2>2
<1>3. \A u \in Parties : (bit[u] \in uxEventBits' => bit[u] \in uxEventBits) /\ entered'[u] = entered[u]
  OBVIOUS
<1> QED BY <1>1, <1>2, <1>3, Tallied

LEMMA SyncMeets ==
  ASSUME NEW bit \in [Parties -> EventBits], BitsAreTheirOwn(bit), MeetInv(bit), TypeOK',
         NEW t \in Tasks, xEventGroupSync(t)
  PROVE  Tally(bit)'
<1>1. PICK c \in Calling(t, "sync") :
        LET bits == uxEventBits \cup c.set
            satisfied == c.wait \subseteq bits
            released == Matched(bits)
        IN /\ uxEventBits' = SyncedBits(c)
           /\ entered' = [entered EXCEPT ![t] = @ + 1]
           /\ met' = IF satisfied THEN [met EXCEPT ![t] = @ + 1] ELSE met
           /\ IF satisfied \/ c.block = "no"
                THEN vTaskRemoveFromUnorderedEventList(released, bits) /\ UNCHANGED task
                ELSE /\ xTasksWaitingForBits' = (xTasksWaitingForBits \ released) \cup {t}
                     /\ xEventListItem' = [u \in Tasks |->
                          IF u = t THEN Item(c.wait, TRUE, TRUE, FALSE)
                          ELSE IF u \in released THEN Item(bits, FALSE, FALSE, TRUE)
                          ELSE xEventListItem[u]]
                     /\ task' = [task EXCEPT ![t] = [pc |-> "blocked", call |-> c]]
           /\ exists' = exists
  BY DEF xEventGroupSync
<1> DEFINE bits == uxEventBits \cup c.set
           satisfied == c.wait \subseteq bits
<1>2. IInv /\ CallsAreTheirs /\ Tally(bit) /\ TypeOK
  BY DEF MeetInv, IInv
<1>3. c \in Calls[t] /\ c.op = "sync" /\ task[t].pc = "app" /\ t \in Parties
  BY DEF Calling, Parties
<1>4. t \notin xTasksWaitingForBits
  BY <1>2, <1>3 DEF IInv, ItemsTell
<1>5. \A u \in Parties : /\ bit[u] \in c.wait
                         /\ bit[u] \in bits => bit[u] \in uxEventBits \/ u = t
  BY <1>3 DEF BitsAreTheirOwn
<1>6. \A u \in Parties : /\ u = t => entered'[u] = entered[u] + 1
                         /\ u # t => entered'[u] = entered[u]
  BY <1>1, <1>2 DEF TypeOK, Parties
<1>7. \A b : b \in uxEventBits' =>
        b \in bits /\ b \notin BitsToClear(bits) /\ (satisfied => b \notin c.wait)
  BY <1>1 DEF SyncedBits
<1>8. \A u \in Parties :
        \/ (bit[u] \in uxEventBits' => bit[u] \in uxEventBits) /\ entered'[u] = entered[u]
        \/ entered'[u] = entered[u] + 1
  BY <1>5, <1>6, <1>7
<1>9. \A x \in Tasks : x # t =>
        /\ met'[x] = met[x] /\ task'[x] = task[x]
        /\ x \in xTasksWaitingForBits' <=> x \in xTasksWaitingForBits /\ x \notin Matched(bits)
        /\ xEventListItem'[x] =
             IF x \in Matched(bits) THEN Item(bits, FALSE, FALSE, TRUE) ELSE xEventListItem[x]
  <2> SUFFICES ASSUME NEW x \in Tasks, x # t
               PROVE  /\ met'[x] = met[x] /\ task'[x] = task[x]
                      /\ x \in xTasksWaitingForBits' <=> x \in xTasksWaitingForBits /\ x \notin Matched(bits)
                      /\ xEventListItem'[x] =
                           IF x \in Matched(bits) THEN Item(bits, FALSE, FALSE, TRUE) ELSE xEventListItem[x]
    OBVIOUS
  <2>1. met'[x] = met[x]
    BY <1>1, <1>2 DEF TypeOK
  <2> HIDE DEF bits
  <2>2. CASE satisfied \/ c.block = "no"
    BY <1>1, <2>1, <2>2 DEF bits, vTaskRemoveFromUnorderedEventList
  <2>3. CASE ~(satisfied \/ c.block = "no")
    <3>1. /\ xTasksWaitingForBits' = (xTasksWaitingForBits \ Matched(bits)) \cup {t}
          /\ xEventListItem' = [u \in Tasks |->
               IF u = t THEN Item(c.wait, TRUE, TRUE, FALSE)
               ELSE IF u \in Matched(bits) THEN Item(bits, FALSE, FALSE, TRUE)
               ELSE xEventListItem[u]]
          /\ task' = [task EXCEPT ![t] = [pc |-> "blocked", call |-> c]]
      BY <1>1, <2>3 DEF bits
    <3>2. task'[x] = task[x]
      BY <1>2, <3>1 DEF TypeOK
    <3> QED BY <2>1, <3>1, <3>2
  <2> QED BY <2>2, <2>3
<1>10. /\ Promise(t) = 0 /\ Promise(t)' = 0
       /\ satisfied => met'[t] = met[t] + 1
       /\ ~satisfied => met'[t] = met[t]
  <2>1. Promise(t) = 0
    BY <1>3 DEF Promise
  <2>2. Promise(t)' = 0
    <3>1. CASE satisfied \/ c.block = "no"
      <4>1. task'[t].pc = "app"
        BY <1>1, <1>3, <3>1
      <4> QED BY <4>1 DEF Promise
    <3>2. CASE ~(satisfied \/ c.block = "no")
      <4>1. t \in xTasksWaitingForBits'
        BY <1>1, <3>2
      <4> QED BY <4>1 DEF Promise
    <3> QED BY <3>1, <3>2
  <2>3. /\ satisfied => met'[t] = met[t] + 1
        /\ ~satisfied => met'[t] = met[t]
    BY <1>1, <1>2 DEF TypeOK
  <2> QED BY <2>1, <2>2, <2>3
<1>11. exists' = exists
  BY <1>1
<1> HIDE DEF bits
<1>12. ASSUME NEW x \in Parties
       PROVE  \/ met'[x] + Promise(x)' <= met[x] + Promise(x)
              \/ /\ met'[x] + Promise(x)' <= met[x] + Promise(x) + 1
                 /\ \A u \in Parties :
                      /\ bit[u] \notin uxEventBits'
                      /\ \/ bit[u] \in uxEventBits /\ entered'[u] = entered[u]
                         \/ entered'[u] = entered[u] + 1
  <2>1. x \in Tasks /\ met[x] \in Nat
    BY <1>2 DEF Parties, TypeOK
  <2>2. CASE x = t /\ ~satisfied
    BY <1>10, <2>1, <2>2
  <2>3. CASE x = t /\ satisfied
    <3>1. \A u \in Parties : /\ bit[u] \notin uxEventBits'
                             /\ \/ bit[u] \in uxEventBits /\ entered'[u] = entered[u]
                                \/ entered'[u] = entered[u] + 1
      BY <1>5, <1>6, <1>7, <2>3
    <3> QED BY <1>10, <2>1, <2>3, <3>1
  <2>4. CASE x # t /\ x \in Matched(bits) /\ task[x].call.op = "sync"
    <3>1. \A u \in Parties : bit[u] \in bits /\ bit[u] \in BitsToClear(bits)
      BY <1>2, <2>4, ReleasedMeet
    <3>2. \A u \in Parties : /\ bit[u] \notin uxEventBits'
                             /\ \/ bit[u] \in uxEventBits /\ entered'[u] = entered[u]
                                \/ entered'[u] = entered[u] + 1
      BY <1>5, <1>6, <1>7, <3>1
    <3>3. Promise(x) \in {0, 1} /\ Promise(x)' \in {0, 1}
      BY DEF Promise
    <3> DEFINE p == Promise(x)
               q == Promise(x)'
    <3>4. met'[x] = met[x] /\ p \in {0, 1} /\ q \in {0, 1}
      BY <1>9, <2>1, <2>4, <3>3
    <3> HIDE DEF p, q
    <3>5. met'[x] + q <= met[x] + p + 1
      BY <2>1, <3>4
    <3> QED BY <3>2, <3>5 DEF p, q
  <2>5. CASE x # t /\ x \notin Matched(bits)
    <3>1. Promise(x)' = Promise(x) /\ met'[x] = met[x] /\ Promise(x) \in {0, 1}
      BY <1>9, <2>1, <2>5 DEF Promise
    <3> QED BY <2>1, <3>1
  <2>6. CASE x # t /\ task[x].call.op # "sync"
    <3>1. Promise(x)' = 0 /\ Promise(x) = 0 /\ met'[x] = met[x]
      BY <1>9, <2>1, <2>6 DEF Promise
    <3> QED BY <2>1, <3>1
  <2> QED BY <2>2, <2>3, <2>4, <2>5, <2>6
<1> HIDE DEF satisfied
<1> QED BY <1>2, <1>8, <1>11, <1>12, Tallied

LEMMA ReturnMeets ==
  ASSUME NEW bit \in [Parties -> EventBits], BitsAreTheirOwn(bit), MeetInv(bit), TypeOK',
         NEW t \in Tasks, Return(t)
  PROVE  Tally(bit)'
<1> DEFINE c == task[t].call
           unblocked == xEventListItem[t].unblocked
           uxReturn == IF unblocked THEN xEventListItem[t].bits ELSE uxEventBits
           satisfied == TestWaitCondition(uxReturn, c.wait, c.all)
<1>1. IInv /\ CallsAreTheirs /\ Tally(bit) /\ TypeOK
  BY DEF MeetInv, IInv
<1>2. /\ task[t].pc = "blocked" /\ t \notin xTasksWaitingForBits
      /\ uxEventBits' = IF ~unblocked /\ satisfied /\ c.clear THEN uxEventBits \ c.wait ELSE uxEventBits
      /\ met' = IF c.op = "sync" /\ satisfied THEN [met EXCEPT ![t] = @ + 1] ELSE met
      /\ xEventListItem' = [xEventListItem EXCEPT ![t] = NoItem]
      /\ task' = [task EXCEPT ![t] = AtApp]
      /\ UNCHANGED <<xTasksWaitingForBits, pended, exists, entered>>
  BY DEF Return
<1>3. c \in Calls[t] /\ c \in CallType
  BY <1>1, <1>2, EventAssumption DEF CallsAreTheirs
<1>4. \A u \in Parties : (bit[u] \in uxEventBits' => bit[u] \in uxEventBits) /\ entered'[u] = entered[u]
  BY <1>2
<1>5. ASSUME NEW x \in Parties
      PROVE  \/ met'[x] + Promise(x)' <= met[x] + Promise(x)
             \/ /\ met'[x] + Promise(x)' <= met[x] + Promise(x) + 1
                /\ \A u \in Parties : bit[u] \notin uxEventBits' /\ bit[u] \in uxEventBits
  <2>1. x \in Tasks /\ met[x] \in Nat
    BY <1>1 DEF Parties, TypeOK
  <2>2. CASE x # t
    <3>1. /\ met'[x] = met[x] /\ task'[x] = task[x] /\ xEventListItem'[x] = xEventListItem[x]
          /\ x \in xTasksWaitingForBits' <=> x \in xTasksWaitingForBits
      BY <1>1, <1>2, <2>1, <2>2 DEF TypeOK
    <3>2. Promise(x)' = Promise(x) /\ Promise(x) \in {0, 1}
      BY <3>1 DEF Promise
    <3> QED BY <2>1, <3>1, <3>2
  <2>3. CASE x = t
    <3>1. Promise(t)' = 0
      <4>1. task'[t].pc = "app"
        BY <1>1, <1>2 DEF TypeOK, AtApp
      <4> QED BY <4>1 DEF Promise
    <3>2. Promise(t) = IF c.op = "sync" /\ unblocked THEN 1 ELSE 0
      BY <1>2 DEF Promise
    <3>3. met'[t] = IF c.op = "sync" /\ satisfied THEN met[t] + 1 ELSE met[t]
      BY <1>1, <1>2 DEF TypeOK
    <3>4. CASE c.op = "sync" /\ satisfied /\ ~unblocked
      <4>1. c.all = TRUE /\ c.clear = TRUE /\ \A u \in Parties : bit[u] \in c.wait
        BY <1>3, <2>3, <3>4, EventAssumption DEF BitsAreTheirOwn, CallType
      <4>2. c.wait \subseteq uxEventBits
        BY <3>4, <4>1 DEF TestWaitCondition
      <4>3. uxEventBits' = uxEventBits \ c.wait
        BY <1>2, <3>4, <4>1
      <4>4. \A u \in Parties : bit[u] \notin uxEventBits' /\ bit[u] \in uxEventBits
        BY <4>1, <4>2, <4>3
      <4>5. met'[t] = met[t] + 1 /\ Promise(t) = 0
        BY <3>2, <3>3, <3>4
      <4> QED BY <2>1, <2>3, <3>1, <4>4, <4>5
    <3>5. CASE ~(c.op = "sync" /\ satisfied /\ ~unblocked)
      <4> HIDE DEF satisfied, unblocked, c
      <4>1. met'[t] + 0 <= met[t] + Promise(t)
        <5>1. CASE c.op = "sync" /\ unblocked
          BY <2>1, <2>3, <3>2, <3>3, <5>1
        <5>2. CASE ~(c.op = "sync" /\ unblocked)
          BY <2>1, <2>3, <3>2, <3>3, <3>5, <5>2
        <5> QED BY <5>1, <5>2
      <4> QED BY <2>3, <3>1, <4>1
    <3> QED BY <3>4, <3>5
  <2> QED BY <2>2, <2>3
<1> HIDE DEF satisfied, unblocked, c
<1> QED BY <1>1, <1>2, <1>4, <1>5, Tallied

LEMMA NextCallsAreTheirs ==
  ASSUME IInv, CallsAreTheirs, [Next]_vars
  PROVE  CallsAreTheirs'
<1>0. TypeOK
  BY DEF IInv
<1>1. ASSUME UNCHANGED <<task, pended>>
      PROVE  CallsAreTheirs'
  BY <1>1 DEF CallsAreTheirs
<1>2. ASSUME NEW t \in Tasks, NEW c \in Calls[t], pended' = pended,
             task' = task \/ task' = [task EXCEPT ![t] = [pc |-> "blocked", call |-> c]]
      PROVE  CallsAreTheirs'
  <2>1. CASE task' = task
    BY <1>1, <1>2, <2>1
  <2>2. CASE task' = [task EXCEPT ![t] = [pc |-> "blocked", call |-> c]]
    <3>1. \A u \in Tasks : task'[u] = IF u = t THEN [pc |-> "blocked", call |-> c] ELSE task[u]
      BY <1>0, <2>2 DEF TypeOK
    <3> QED BY <1>2, <3>1 DEF CallsAreTheirs
  <2> QED BY <1>2, <2>1, <2>2
<1>3. ASSUME NEW t \in Tasks, xEventGroupWaitBits(t) PROVE CallsAreTheirs'
  <2>1. PICK c \in Calling(t, "wait") :
          /\ \/ task' = task
             \/ task' = [task EXCEPT ![t] = [pc |-> "blocked", call |-> c]]
          /\ pended' = pended
    BY <1>3 DEF xEventGroupWaitBits, PlaceOnUnorderedEventList
  <2>2. c \in Calls[t]
    BY DEF Calling
  <2> QED BY <1>2, <2>1, <2>2
<1>4. ASSUME NEW t \in Tasks, xEventGroupSync(t) PROVE CallsAreTheirs'
  <2>1. PICK c \in Calling(t, "sync") :
          /\ \/ task' = task
             \/ task' = [task EXCEPT ![t] = [pc |-> "blocked", call |-> c]]
          /\ pended' = pended
    BY <1>4 DEF xEventGroupSync
  <2>2. c \in Calls[t]
    BY DEF Calling
  <2> QED BY <1>2, <2>1, <2>2
<1>5. ASSUME NEW t \in Tasks, Return(t) PROVE CallsAreTheirs'
  <2>1. task' = [task EXCEPT ![t] = AtApp] /\ pended' = pended
    BY <1>5 DEF Return
  <2>2. \A u \in Tasks : task'[u] = IF u = t THEN AtApp ELSE task[u]
    BY <1>0, <2>1 DEF TypeOK
  <2>3. AtApp.pc # "blocked"
    BY DEF AtApp
  <2> QED BY <2>1, <2>2, <2>3 DEF CallsAreTheirs
<1>6. CASE xTimerPendFunctionCallFromISR
  <2>1. PICK c \in IsrCalls : pended' = Append(pended, c)
    BY <1>6 DEF xTimerPendFunctionCallFromISR
  <2>2. pended \in Seq(CallType) /\ task' = task
    BY <1>0, <1>6 DEF TypeOK, xTimerPendFunctionCallFromISR
  <2>3. \A i \in 1 .. Len(pended') : pended'[i] = c \/ (i \in 1 .. Len(pended) /\ pended'[i] = pended[i])
    BY <2>1, <2>2
  <2>4. \A i \in 1 .. Len(pended') : pended'[i] \in IsrCalls
    BY <2>3 DEF CallsAreTheirs
  <2> QED BY <2>2, <2>4 DEF CallsAreTheirs
<1>7. CASE vEventGroupCallback
  <2>1. pended' = Tail(pended) /\ pended \in Seq(CallType) /\ pended # <<>> /\ task' = task
    BY <1>0, <1>7 DEF vEventGroupCallback, TypeOK
  <2>2. \A i \in 1 .. Len(pended') : i + 1 \in 1 .. Len(pended) /\ pended'[i] = pended[i + 1]
    BY <2>1
  <2>3. \A i \in 1 .. Len(pended') : pended'[i] \in IsrCalls
    BY <2>2 DEF CallsAreTheirs
  <2> QED BY <2>1, <2>3 DEF CallsAreTheirs
<1>8. ASSUME NEW t \in Tasks,
             \/ xEventGroupSetBits(t) \/ xEventGroupClearBits(t)
             \/ TimeOut(t) \/ vEventGroupDelete(t)
      PROVE  CallsAreTheirs'
  BY <1>1, <1>8 DEF xEventGroupSetBits, xEventGroupClearBits, TimeOut, vEventGroupDelete
<1>9. CASE UNCHANGED vars
  BY <1>1, <1>9 DEF vars
<1> QED BY <1>3, <1>4, <1>5, <1>6, <1>7, <1>8, <1>9 DEF Next

LEMMA NextMeetInv ==
  ASSUME NEW bit \in [Parties -> EventBits], BitsAreTheirOwn(bit), MeetInv(bit), [Next]_vars
  PROVE  MeetInv(bit)'
<1>0. TypeOK /\ TypeOK' /\ IInv' /\ CallsAreTheirs'
  BY NextTypeOK, NextReleases, NextCallsAreTheirs DEF MeetInv, IInv
<1> SUFFICES Tally(bit)'
  BY <1>0 DEF MeetInv
<1>1. ASSUME NEW t \in Tasks, xEventGroupSetBits(t) PROVE Tally(bit)'
  <2>1. PICK c \in Calling(t, "set") : SetBits(c.set) /\ UNCHANGED <<task, exists, entered, met>>
    BY <1>1 DEF xEventGroupSetBits
  <2>2. c.set \in SUBSET EventBits /\ c \in Calls[t] /\ c.op = "set"
    BY CallsTyped DEF Calling
  <2>3. \A u \in Parties : bit[u] \notin c.set
    BY <2>2 DEF BitsAreTheirOwn
  <2> QED BY <1>0, <2>1, <2>2, <2>3, SetMeets
<1>2. ASSUME NEW t \in Tasks, xEventGroupClearBits(t) PROVE Tally(bit)'
  BY <1>0, <1>2, NobodyMeets DEF xEventGroupClearBits, Promise
<1>3. ASSUME NEW t \in Tasks, xEventGroupWaitBits(t) PROVE Tally(bit)'
  <2>1. PICK c \in Calling(t, "wait") :
          /\ uxEventBits' \in SUBSET uxEventBits
          /\ \/ UNCHANGED <<xTasksWaitingForBits, xEventListItem, task>>
             \/ PlaceOnUnorderedEventList(t, c)
          /\ UNCHANGED <<exists, entered, met>>
    BY <1>3 DEF xEventGroupWaitBits
  <2>2. CASE UNCHANGED <<xTasksWaitingForBits, xEventListItem, task>>
    <3>1. \A x \in Parties : Promise(x)' = Promise(x) /\ Promise(x) \in {0, 1}
      BY <2>2 DEF Promise
    <3> QED BY <1>0, <2>1, <3>1, NobodyMeets
  <2>3. CASE PlaceOnUnorderedEventList(t, c)
    <3>1. \A x \in Tasks : /\ x = t => x \in xTasksWaitingForBits'
                           /\ x # t => /\ task'[x] = task[x] /\ xEventListItem'[x] = xEventListItem[x]
                                       /\ x \in xTasksWaitingForBits' <=> x \in xTasksWaitingForBits
      BY <1>0, <2>3 DEF PlaceOnUnorderedEventList, TypeOK
    <3>2. \A x \in Parties : Promise(x)' <= Promise(x)
      <4> TAKE x \in Parties
      <4>1. x \in Tasks
        BY DEF Parties
      <4>2. CASE x = t
        BY <3>1, <4>1, <4>2 DEF Promise
      <4>3. CASE x # t
        BY <3>1, <4>1, <4>3 DEF Promise
      <4> QED BY <4>2, <4>3
    <3> QED BY <1>0, <2>1, <3>2, NobodyMeets
  <2> QED BY <2>1, <2>2, <2>3
<1>4. ASSUME NEW t \in Tasks, xEventGroupSync(t) PROVE Tally(bit)'
  BY <1>0, <1>4, SyncMeets
<1>5. ASSUME NEW t \in Tasks, TimeOut(t) PROVE Tally(bit)'
  <2>1. ~xEventListItem[t].unblocked
    <3>1. xEventListItem[t] = Item(task[t].call.wait, task[t].call.all, task[t].call.clear, FALSE)
      BY <1>5 DEF TimeOut, MeetInv, IInv, ItemsTell
    <3> QED BY <3>1 DEF Item
  <2>2. \A x \in Parties : Promise(x)' <= Promise(x)
    BY <1>5, <2>1 DEF TimeOut, Promise
  <2> QED BY <1>0, <1>5, <2>2, NobodyMeets DEF TimeOut
<1>6. ASSUME NEW t \in Tasks, Return(t) PROVE Tally(bit)'
  BY <1>0, <1>6, ReturnMeets
<1>7. ASSUME NEW t \in Tasks, vEventGroupDelete(t) PROVE Tally(bit)'
  BY <1>7 DEF vEventGroupDelete, Tally
<1>8. CASE xTimerPendFunctionCallFromISR
  BY <1>0, <1>8, NobodyMeets DEF xTimerPendFunctionCallFromISR, Promise
<1>9. CASE vEventGroupCallback
  <2>0. pended \in Seq(CallType) /\ pended # <<>>
    BY <1>0, <1>9 DEF vEventGroupCallback, TypeOK
  <2>1. Head(pended) \in CallType /\ Head(pended) \in IsrCalls
    BY <2>0 DEF MeetInv, CallsAreTheirs
  <2>2. Head(pended).set \in SUBSET EventBits
    BY <2>1 DEF CallType
  <2>3. CASE Head(pended).op = "set"
    <3>1. \A u \in Parties : bit[u] \notin Head(pended).set
      BY <2>1, <2>3 DEF BitsAreTheirOwn
    <3> QED BY <1>0, <1>9, <2>2, <2>3, <3>1, SetMeets DEF vEventGroupCallback
  <2>4. CASE Head(pended).op # "set"
    BY <1>0, <1>9, <2>4, NobodyMeets DEF vEventGroupCallback, Promise
  <2> QED BY <2>3, <2>4
<1>10. CASE UNCHANGED vars
  BY <1>0, <1>10, NobodyMeets DEF vars, Promise
<1> QED
  BY <1>1, <1>2, <1>3, <1>4, <1>5, <1>6, <1>7, <1>8, <1>9, <1>10 DEF Next

\* A rendezvous is one: no task has been through more of them than any other has
\* come to, whoever times out, comes again with its bit still set, or waits for
\* and clears other bits.  Each party has a bit that all wait for and that only
\* its own calls of xEventGroupSync set, as in the example of event_groups.h (line 628).
THEOREM NobodyMeetsAlone ==
  ASSUME NEW bit \in [Parties -> EventBits], BitsAreTheirOwn(bit)
  PROVE  Spec => []Rendezvous
<1>1. Init => MeetInv(bit)
  <2> SUFFICES ASSUME Init PROVE MeetInv(bit)
    OBVIOUS
  <2>1. IInv
    BY InitTypeOK DEF IInv, Init, ItemsTell, NoSatisfiedWaiter
  <2>2. CallsAreTheirs
    BY DEF Init, AtApp, CallsAreTheirs
  <2>3. Tally(bit)
    BY DEF Init, AtApp, Tally, Promise, Mark, Parties
  <2> QED BY <2>1, <2>2, <2>3 DEF MeetInv
<1>2. MeetInv(bit) /\ [Next]_vars => MeetInv(bit)'
  BY NextMeetInv
<1>3. MeetInv(bit) => Rendezvous
  <2> SUFFICES ASSUME MeetInv(bit), exists, NEW x \in Parties, NEW u \in Parties
               PROVE  met[x] <= entered[u]
    BY DEF Rendezvous
  <2>1. met[x] \in Nat /\ entered[u] \in Nat /\ Promise(x) \in {0, 1} /\ Mark(bit[u]) \in {0, 1}
    BY DEF MeetInv, IInv, TypeOK, Parties, Promise, Mark
  <2>2. met[x] + Promise(x) + Mark(bit[u]) <= entered[u]
    BY DEF MeetInv, Tally
  <2> QED BY <2>1, <2>2
<1> QED BY <1>1, <1>2, <1>3, PTL DEF Spec

-----------------------------------------------------------------------------
(* The Suspended state.                                                    *)

StateLists == {"pxReadyTasksLists", "pxDelayedTaskList", "xSuspendedTaskList"}
EventLists == {"NULL", "queue", "xPendingReadyList"}
SuspensionNotifyStates ==
  {"taskNOT_WAITING_NOTIFICATION", "taskWAITING_NOTIFICATION", "taskNOTIFICATION_RECEIVED"}
TaskItems == [xStateListItem : StateLists, xEventListItem : EventLists,
              ucNotifyState : SuspensionNotifyStates, waits : BOOLEAN]

\* The fields of a task, with whether it was suspended and whether the scheduler is.
\* A task that waits for a notification is in xTaskGenericNotifyWait and on no event
\* list of a queue; a task that is ready is on none either; and xPendingReadyList
\* is in use only while the scheduler is suspended.
FieldsAgree(item, sleeps, suspended) ==
  /\ sleeps <=> /\ item.xStateListItem = "xSuspendedTaskList"
                /\ item.xEventListItem = "NULL"
                /\ item.ucNotifyState # "taskWAITING_NOTIFICATION"
  /\ item.ucNotifyState = "taskWAITING_NOTIFICATION" => item.waits /\ item.xEventListItem # "queue"
  /\ item.xStateListItem = "pxReadyTasksLists" => item.xEventListItem # "queue"
  /\ item.xEventListItem = "xPendingReadyList" => suspended

SuspensionInv ==
  /\ uxSchedulerSuspended \in BOOLEAN
  /\ tcb \in [Tasks -> TaskItems] /\ asleep \in [Tasks -> BOOLEAN]
  /\ \A t \in Tasks : FieldsAgree(tcb[t], asleep[t], uxSchedulerSuspended)

LEMMA SuspensionInitInv == SuspensionInit => SuspensionInv
<1> DEFINE item == [xStateListItem |-> "pxReadyTasksLists", xEventListItem |-> "NULL",
                    ucNotifyState |-> "taskNOT_WAITING_NOTIFICATION", waits |-> FALSE]
<1>1. item \in TaskItems /\ FieldsAgree(item, FALSE, FALSE)
  BY DEF TaskItems, StateLists, EventLists, SuspensionNotifyStates, FieldsAgree
<1> HIDE DEF item
<1>2. ASSUME SuspensionInit PROVE tcb = [t \in Tasks |-> item]
  BY <1>2 DEF SuspensionInit, item
<1> QED BY <1>1, <1>2 DEF SuspensionInit, SuspensionInv

\* An action that changes the fields of one task, and leaves them in agreement.
LEMMA OneTaskChanges ==
  ASSUME SuspensionInv, NEW t \in Tasks, NEW item \in TaskItems, NEW sleeps \in BOOLEAN,
         FieldsAgree(item, sleeps, uxSchedulerSuspended),
         tcb' = [tcb EXCEPT ![t] = item], asleep' = [asleep EXCEPT ![t] = sleeps],
         UNCHANGED uxSchedulerSuspended
  PROVE  SuspensionInv'
<1>1. tcb' \in [Tasks -> TaskItems] /\ asleep' \in [Tasks -> BOOLEAN]
  BY DEF SuspensionInv
<1>2. ASSUME NEW u \in Tasks
      PROVE  FieldsAgree(tcb'[u], asleep'[u], uxSchedulerSuspended)
  <2>1. CASE u = t
    BY <2>1 DEF SuspensionInv
  <2>2. CASE u # t
    BY <2>2 DEF SuspensionInv
  <2> QED BY <2>1, <2>2
<1> QED BY <1>1, <1>2 DEF SuspensionInv

\* The same, for an action that neither suspends nor resumes.
LEMMA OneItemChanges ==
  ASSUME SuspensionInv, NEW t \in Tasks, NEW item \in TaskItems,
         FieldsAgree(item, asleep[t], uxSchedulerSuspended),
         tcb' = [tcb EXCEPT ![t] = item], UNCHANGED <<asleep, uxSchedulerSuspended>>
  PROVE  SuspensionInv'
<1>1. asleep[t] \in BOOLEAN /\ asleep' = [asleep EXCEPT ![t] = asleep[t]]
  BY DEF SuspensionInv
<1> QED BY <1>1, OneTaskChanges

LEMMA SuspensionStepInv == SuspensionInv /\ [SuspensionNext]_suspensionVars => SuspensionInv'
<1> SUFFICES ASSUME SuspensionInv, [SuspensionNext]_suspensionVars
             PROVE  SuspensionInv'
  OBVIOUS
<1> USE DEF TaskItems, StateLists, EventLists, SuspensionNotifyStates, FieldsAgree
<1>1. CASE vTaskSwitchContext
  BY <1>1 DEF vTaskSwitchContext, SuspensionInv
<1>2. CASE vTaskSuspendAll
  BY <1>2 DEF vTaskSuspendAll, SuspensionInv
<1>3. CASE xTaskResumeAll
  <2> DEFINE item(t) == IF tcb[t].xEventListItem = "xPendingReadyList"
                          THEN Ready([tcb[t] EXCEPT !.xEventListItem = "NULL"]) ELSE tcb[t]
  <2>1. ASSUME NEW t \in Tasks
        PROVE  item(t) \in TaskItems /\ FieldsAgree(item(t), asleep[t], FALSE)
    <3>1. tcb[t] \in TaskItems /\ FieldsAgree(tcb[t], asleep[t], uxSchedulerSuspended)
      BY DEF SuspensionInv
    <3> QED BY <3>1 DEF Ready
  <2>2. /\ tcb' = [t \in Tasks |-> item(t)]
        /\ uxSchedulerSuspended' = FALSE /\ UNCHANGED asleep
    BY <1>3 DEF xTaskResumeAll
  <2> HIDE DEF item, TaskItems, FieldsAgree
  <2> QED BY <2>1, <2>2 DEF SuspensionInv
<1>4. ASSUME NEW t \in Tasks, xTaskGenericNotifyWait(t)
      PROVE  SuspensionInv'
  <2> DEFINE waits == [tcb[t] EXCEPT !.waits = TRUE, !.ucNotifyState = "taskWAITING_NOTIFICATION"]
             found == [tcb[t] EXCEPT !.waits = TRUE]
  <2>1. tcb[t] \in TaskItems /\ FieldsAgree(tcb[t], asleep[t], uxSchedulerSuspended)
    BY DEF SuspensionInv
  <2>2. tcb[t].xStateListItem = "pxReadyTasksLists"
    BY <1>4, IdleAssumption DEF xTaskGenericNotifyWait, Runs
  <2>3. /\ UNCHANGED <<asleep, uxSchedulerSuspended>>
        /\ \/ tcb' = [tcb EXCEPT ![t] = found]
           \/ /\ tcb[t].ucNotifyState # "taskNOTIFICATION_RECEIVED"
              /\ \/ tcb' = [tcb EXCEPT ![t] = waits]
                 \/ \E forever \in BOOLEAN : tcb' = [tcb EXCEPT ![t] = Blocked(waits, forever)]
    BY <1>4 DEF xTaskGenericNotifyWait
  <2>4. CASE tcb' = [tcb EXCEPT ![t] = found]
    BY <2>1, <2>2, <2>3, <2>4, OneItemChanges
  <2>5. CASE tcb' = [tcb EXCEPT ![t] = waits]
    BY <2>1, <2>2, <2>3, <2>5, OneItemChanges
  <2>6. ASSUME NEW forever \in BOOLEAN, tcb' = [tcb EXCEPT ![t] = Blocked(waits, forever)]
        PROVE  SuspensionInv'
    <3>1. Blocked(waits, forever) \in TaskItems
      BY <2>1 DEF Blocked
    <3>2. FieldsAgree(Blocked(waits, forever), asleep[t], uxSchedulerSuspended)
      BY <2>1, <2>2 DEF Blocked
    <3> HIDE DEF waits, FieldsAgree, TaskItems
    <3> QED BY <3>1, <3>2, <2>3, <2>6, OneItemChanges
  <2> QED BY <2>3, <2>4, <2>5, <2>6
<1>5. ASSUME NEW t \in Tasks, NotifyWaitEnds(t)
      PROVE  SuspensionInv'
  <2> DEFINE item == [tcb[t] EXCEPT !.waits = FALSE, !.ucNotifyState = "taskNOT_WAITING_NOTIFICATION"]
  <2>1. tcb[t] \in TaskItems /\ FieldsAgree(tcb[t], asleep[t], uxSchedulerSuspended)
    BY DEF SuspensionInv
  <2>2. tcb[t].xStateListItem = "pxReadyTasksLists"
    BY <1>5, IdleAssumption DEF NotifyWaitEnds, Runs
  <2>3. /\ tcb' = [tcb EXCEPT ![t] = item]
        /\ UNCHANGED <<asleep, uxSchedulerSuspended>>
    BY <1>5 DEF NotifyWaitEnds
  <2> QED BY <2>1, <2>2, <2>3, OneItemChanges
<1>6. ASSUME NEW t \in Tasks, vTaskPlaceOnEventList(t)
      PROVE  SuspensionInv'
  <2> DEFINE item(forever) == [Blocked(tcb[t], forever) EXCEPT !.xEventListItem = "queue"]
  <2>1. tcb[t] \in TaskItems /\ FieldsAgree(tcb[t], asleep[t], uxSchedulerSuspended)
    BY DEF SuspensionInv
  <2>2. /\ tcb[t].xStateListItem = "pxReadyTasksLists" /\ ~tcb[t].waits
        /\ UNCHANGED <<asleep, uxSchedulerSuspended>>
    BY <1>6, IdleAssumption DEF vTaskPlaceOnEventList, Runs
  <2>3. ASSUME NEW forever \in BOOLEAN, tcb' = [tcb EXCEPT ![t] = item(forever)]
        PROVE  SuspensionInv'
    <3>1. item(forever) \in TaskItems
      BY <2>1 DEF Blocked
    <3>2. FieldsAgree(item(forever), asleep[t], uxSchedulerSuspended)
      BY <2>1, <2>2 DEF Blocked
    <3> HIDE DEF item, FieldsAgree, TaskItems
    <3> QED BY <3>1, <3>2, <2>2, <2>3, OneItemChanges
  <2>4. CASE tcb' = [tcb EXCEPT ![t] = Blocked(tcb[t], FALSE)]
    BY <2>1, <2>2, <2>4, OneItemChanges DEF Blocked
  <2> QED BY <1>6, <2>3, <2>4 DEF vTaskPlaceOnEventList
<1>7. ASSUME NEW t \in Tasks, vTaskSuspend(t)
      PROVE  SuspensionInv'
  <2>1. tcb[t] \in TaskItems /\ FieldsAgree(tcb[t], asleep[t], uxSchedulerSuspended)
    BY DEF SuspensionInv
  <2>2. Suspended(tcb[t]) \in TaskItems /\ FieldsAgree(Suspended(tcb[t]), TRUE, uxSchedulerSuspended)
    BY <2>1 DEF Suspended
  <2>3. /\ tcb' = [tcb EXCEPT ![t] = Suspended(tcb[t])] /\ asleep' = [asleep EXCEPT ![t] = TRUE]
        /\ UNCHANGED uxSchedulerSuspended
    BY <1>7 DEF vTaskSuspend
  <2> HIDE DEF FieldsAgree, TaskItems
  <2> QED BY <2>2, <2>3, OneTaskChanges
<1>8. ASSUME NEW t \in Tasks, vTaskResume(t) \/ xTaskResumeFromISR(t)
      PROVE  SuspensionInv'
  <2>1. tcb[t] \in TaskItems /\ FieldsAgree(tcb[t], asleep[t], uxSchedulerSuspended)
    BY DEF SuspensionInv
  <2>2. /\ asleep' = [asleep EXCEPT ![t] = FALSE] /\ UNCHANGED uxSchedulerSuspended
        /\ IF prvTaskIsTaskSuspended(t)
             THEN \/ tcb' = [tcb EXCEPT ![t] = Ready(tcb[t])]
                  \/ tcb' = [tcb EXCEPT ![t] = ReadyFromISR(tcb[t])]
             ELSE tcb' = tcb
    BY <1>8 DEF vTaskResume, xTaskResumeFromISR
  <2>3. CASE ~prvTaskIsTaskSuspended(t)
    <3>1. FieldsAgree(tcb[t], FALSE, uxSchedulerSuspended)
      BY <2>1, <2>3 DEF prvTaskIsTaskSuspended
    <3>2. tcb' = [tcb EXCEPT ![t] = tcb[t]]
      BY <2>2, <2>3 DEF SuspensionInv
    <3> HIDE DEF FieldsAgree, TaskItems
    <3> QED BY <2>1, <2>2, <3>1, <3>2, OneTaskChanges
  <2>4. CASE prvTaskIsTaskSuspended(t)
    <3>1. /\ Ready(tcb[t]) \in TaskItems
          /\ FieldsAgree(Ready(tcb[t]), FALSE, uxSchedulerSuspended)
      BY <2>1, <2>4 DEF prvTaskIsTaskSuspended, Ready
    <3>2. /\ ReadyFromISR(tcb[t]) \in TaskItems
          /\ FieldsAgree(ReadyFromISR(tcb[t]), FALSE, uxSchedulerSuspended)
      BY <2>1, <2>4 DEF prvTaskIsTaskSuspended, Ready, ReadyFromISR
    <3> HIDE DEF FieldsAgree, TaskItems
    <3> QED BY <2>2, <2>4, <3>1, <3>2, OneTaskChanges
  <2> QED BY <2>3, <2>4
<1>9. ASSUME NEW t \in Tasks, xTaskGenericNotify(t) \/ xTaskGenericNotifyFromISR(t)
      PROVE  SuspensionInv'
  <2> DEFINE byTask == Notified(tcb[t], Ready(tcb[t]))
             byInterrupt == Notified(tcb[t], ReadyFromISR(tcb[t]))
  <2>1. tcb[t] \in TaskItems /\ FieldsAgree(tcb[t], asleep[t], uxSchedulerSuspended)
    BY DEF SuspensionInv
  <2>2. /\ UNCHANGED <<asleep, uxSchedulerSuspended>>
        /\ \/ tcb' = [tcb EXCEPT ![t] = byTask] /\ ~uxSchedulerSuspended
           \/ tcb' = [tcb EXCEPT ![t] = byInterrupt]
    BY <1>9 DEF xTaskGenericNotify, xTaskGenericNotifyFromISR, Runs
  <2>3. byTask \in TaskItems /\ byInterrupt \in TaskItems
    BY <2>1 DEF Notified, Ready, ReadyFromISR
  <2>4. /\ FieldsAgree(byTask, asleep[t], uxSchedulerSuspended)
        /\ FieldsAgree(byInterrupt, asleep[t], uxSchedulerSuspended)
    BY <2>1 DEF Notified, Ready, ReadyFromISR
  <2> HIDE DEF FieldsAgree, TaskItems, byTask, byInterrupt
  <2> QED BY <2>2, <2>3, <2>4, OneItemChanges
<1>10. ASSUME NEW t \in Tasks, xTaskRemoveFromEventList(t) \/ xTaskIncrementTick(t)
       PROVE  SuspensionInv'
  <2> DEFINE off == [tcb[t] EXCEPT !.xEventListItem = "NULL"]
  <2>1. tcb[t] \in TaskItems /\ FieldsAgree(tcb[t], asleep[t], uxSchedulerSuspended)
    BY DEF SuspensionInv
  <2>2. /\ UNCHANGED <<asleep, uxSchedulerSuspended>> /\ ~asleep[t]
        /\ \/ tcb' = [tcb EXCEPT ![t] = Ready(off)]
           \/ tcb' = [tcb EXCEPT ![t] = ReadyFromISR(off)]
    BY <1>10, <2>1 DEF xTaskRemoveFromEventList, xTaskIncrementTick
  <2>3. /\ Ready(off) \in TaskItems /\ ReadyFromISR(off) \in TaskItems
        /\ FieldsAgree(Ready(off), asleep[t], uxSchedulerSuspended)
        /\ FieldsAgree(ReadyFromISR(off), asleep[t], uxSchedulerSuspended)
    BY <2>1, <2>2 DEF Ready, ReadyFromISR
  <2> HIDE DEF FieldsAgree, TaskItems, off
  <2> QED BY <2>2, <2>3, OneItemChanges
<1>11. CASE UNCHANGED suspensionVars
  BY <1>11 DEF suspensionVars, SuspensionInv
<1> QED
  BY <1>1, <1>2, <1>3, <1>4, <1>5, <1>6, <1>7, <1>8, <1>9, <1>10, <1>11 DEF SuspensionNext

LEMMA SuspensionInvariant == SuspensionSpec => []SuspensionInv
<1> QED BY SuspensionInitInv, SuspensionStepInv, PTL DEF SuspensionSpec

\* eTaskGetState and prvTaskIsTaskSuspended (tasks.c) never take a task that waits
\* for ever for a suspended one, and never lose one that is.
THEOREM SuspendedStateIsExact == SuspensionSpec => []SuspendedExactly
<1>1. SuspensionInv => SuspendedExactly
  BY DEF SuspensionInv, FieldsAgree, SuspendedExactly, eTaskGetState, prvTaskIsTaskSuspended
<1> QED BY <1>1, SuspensionInvariant, PTL

-----------------------------------------------------------------------------
(* Stream buffers.                                                         *)

SbType ==
  [isMessageBuffer : BOOLEAN, xTriggerLevelBytes : Nat \ {0},
   pucBuffer : [0 .. xLength - 1 -> Nat], xHead : 0 .. xLength - 1,
   xTail : 0 .. xLength - 1, waiting : [Ends -> BOOLEAN]]
States ==
  {"app", "wait", "blocked", "woken", "waited", "check", "space", "copy", "commit",
   "trigger", "notify"}
Blocks == {"no", "timed", "forever"}

StreamTypeOK ==
  /\ sb \in SbType
  /\ pc \in [Ends -> States]
  /\ sending \in [length : Nat, block : Blocks, over : BOOLEAN, xSpace : Nat]
  /\ receiving \in [length : Nat, block : Blocks, xBytesAvailable : Nat, data : Seq(Nat)]
  /\ ucNotifyState \in [Ends -> {"none", "waiting", "received"}]
  /\ sent \in Nat

\* How much a buffer holds, and has room for, with one place left free.
InBuffer(s) == IF s.xHead >= s.xTail THEN s.xHead - s.xTail ELSE xLength + s.xHead - s.xTail
Room(s) == xLength - 1 - InBuffer(s)

Header(s) == IF s.isMessageBuffer THEN sbBYTES_TO_STORE_MESSAGE_LENGTH ELSE 0

\* A message buffer holds whole messages, not empty, each with its length before
\* it: starts are the distances from xTail at which they begin.
ByteAt(s, o) == s.pucBuffer[Place(s.xTail, o)]
Tiles(s, starts) ==
  /\ InBuffer(s) > 0 => 0 \in starts
  /\ \A o \in starts : /\ ByteAt(s, o) > 0
                       /\ o + Header(s) + ByteAt(s, o) \in starts \cup {InBuffer(s)}
WholeMessages(s) ==
  s.isMessageBuffer => \E starts \in SUBSET (0 .. InBuffer(s) - 1) : Tiles(s, starts)

\* The writer, until it has moved xHead on, knows of no more room than there is;
\* and what it writes, with a length before it, fits.
WriterOK ==
  /\ pc["writer"] \notin {"app", "trigger", "notify"} => sending.xSpace <= Room(sb)
  /\ pc["writer"] = "commit" =>
       /\ Sending > 0
       /\ sb.isMessageBuffer => sb.pucBuffer[sb.xHead] = Sending

\* The reader, until it has moved xTail on, knows of no more bytes than there are,
\* but of a whole message; and reads one, or some of them.
ReaderOK ==
  /\ pc["reader"] = "copy" =>
       /\ Header(sb) < receiving.xBytesAvailable /\ receiving.xBytesAvailable <= InBuffer(sb)
       /\ sb.isMessageBuffer => Header(sb) + ByteAt(sb, 0) <= receiving.xBytesAvailable
  /\ pc["reader"] = "commit" =>
       /\ Len(receiving.data) > 0 /\ Len(receiving.data) + Header(sb) <= InBuffer(sb)
       /\ sb.isMessageBuffer => Len(receiving.data) = ByteAt(sb, 0)

\* Who waits, and was not notified, is in the field that the other side looks at.
Registered == \A t \in Ends : Waits(t) => sb.waiting[t]

\* And it waits for what is not there, but for the other side to look.
WaitsInVain ==
  /\ Waits("reader") /\ pc["writer"] \notin {"trigger", "notify"} =>
       InBuffer(sb) < sb.xTriggerLevelBytes
  /\ Waits("writer") /\ pc["reader"] # "notify" => Room(sb) < RequiredSpace(sending.length)

StreamIInv ==
  /\ StreamTypeOK /\ WholeMessages(sb) /\ WriterOK /\ ReaderOK /\ Registered /\ WaitsInVain

-----------------------------------------------------------------------------
(* The ring.                                                                   *)

LEMMA Assumed ==
  /\ xLength \in Nat /\ xLength >= 2
  /\ sbBYTES_TO_STORE_MESSAGE_LENGTH \in Nat /\ sbBYTES_TO_STORE_MESSAGE_LENGTH > 0
  /\ SendLengths \subseteq Nat /\ ReceiveLengths \subseteq Nat /\ Bytes \in Nat \ {0}
BY StreamAssumption

LEMMA Remainder ==
  ASSUME NEW n \in Nat \ {0}, NEW x \in Int, x < n, 0 - n <= x
  PROVE  x % n = IF x >= 0 THEN x ELSE x + n
OBVIOUS

\* A place is found by at most one subtraction.
LEMMA PlaceIs ==
  ASSUME NEW a \in 0 .. xLength - 1, NEW i \in 0 .. xLength
  PROVE  /\ Place(a, i) \in 0 .. xLength - 1
         /\ Place(a, i) = IF a + i < xLength THEN a + i ELSE a + i - xLength
BY Assumed DEF Place

LEMMA Counts ==
  ASSUME NEW s \in SbType
  PROVE  /\ InBuffer(s) \in 0 .. xLength - 1 /\ Room(s) \in 0 .. xLength - 1
         /\ InBuffer(s) + Room(s) = xLength - 1
         /\ BytesInBuffer(s) = InBuffer(s)
<1>1. /\ xLength \in Nat /\ xLength >= 2 /\ s.xHead \in 0 .. xLength - 1
      /\ s.xTail \in 0 .. xLength - 1
  BY Assumed DEF SbType
<1> QED BY <1>1 DEF InBuffer, Room, BytesInBuffer

\* xStreamBufferSpacesAvailable
LEMMA Spaces ==
  ASSUME sb \in SbType
  PROVE  SpacesAvailable = Room(sb)
<1>1. /\ xLength \in Nat /\ xLength >= 2 /\ sb.xHead \in 0 .. xLength - 1
      /\ sb.xTail \in 0 .. xLength - 1
  BY Assumed DEF SbType
<1> QED BY <1>1 DEF InBuffer, Room, SpacesAvailable

\* The two headers a message buffer and a stream buffer have.
LEMMA HeaderIs ==
  ASSUME NEW s \in SbType
  PROVE  /\ Header(s) \in Nat
         /\ s.isMessageBuffer => Header(s) > 0 /\ Header(s) = sbBYTES_TO_STORE_MESSAGE_LENGTH
         /\ ~s.isMessageBuffer => Header(s) = 0
BY Assumed DEF Header

\* xHead moves on over free places, xTail over those that are in use.
LEMMA HeadMoves ==
  ASSUME NEW s \in SbType, NEW m \in 0 .. Room(s)
  PROVE  LET r == [s EXCEPT !.xHead = Place(s.xHead, m)]
         IN /\ r \in SbType /\ InBuffer(r) = InBuffer(s) + m /\ Room(r) = Room(s) - m
            /\ r.isMessageBuffer = s.isMessageBuffer /\ r.pucBuffer = s.pucBuffer
            /\ r.xTail = s.xTail /\ r.waiting = s.waiting
            /\ r.xTriggerLevelBytes = s.xTriggerLevelBytes
<1> DEFINE h == Place(s.xHead, m)
           r == [s EXCEPT !.xHead = h]
<1>1. /\ xLength \in Nat /\ xLength >= 2 /\ s.xHead \in 0 .. xLength - 1
      /\ s.xTail \in 0 .. xLength - 1 /\ Room(s) \in 0 .. xLength - 1 /\ m \in 0 .. xLength
  BY Assumed, Counts DEF SbType
<1>2. h \in 0 .. xLength - 1 /\ h = IF s.xHead + m < xLength THEN s.xHead + m ELSE s.xHead + m - xLength
  BY <1>1, PlaceIs
<1> HIDE DEF h
<1>3. /\ r \in SbType /\ r.xHead = h
      /\ r.isMessageBuffer = s.isMessageBuffer /\ r.pucBuffer = s.pucBuffer
      /\ r.xTail = s.xTail /\ r.waiting = s.waiting
      /\ r.xTriggerLevelBytes = s.xTriggerLevelBytes
  BY <1>2 DEF SbType
<1> HIDE DEF r
<1>4. InBuffer(r) = InBuffer(s) + m /\ Room(r) = Room(s) - m
  BY <1>1, <1>2, <1>3 DEF InBuffer, Room
<1> QED BY <1>3, <1>4 DEF r, h

LEMMA TailMoves ==
  ASSUME NEW s \in SbType, NEW m \in 0 .. InBuffer(s)
  PROVE  LET r == [s EXCEPT !.xTail = Place(s.xTail, m)]
         IN /\ r \in SbType /\ InBuffer(r) = InBuffer(s) - m /\ Room(r) = Room(s) + m
            /\ r.isMessageBuffer = s.isMessageBuffer /\ r.pucBuffer = s.pucBuffer
            /\ r.xHead = s.xHead /\ r.waiting = s.waiting
            /\ r.xTriggerLevelBytes = s.xTriggerLevelBytes
            /\ \A o \in Nat : o + m <= xLength => ByteAt(r, o) = ByteAt(s, o + m)
<1> DEFINE t == Place(s.xTail, m)
           r == [s EXCEPT !.xTail = t]
<1>1. /\ xLength \in Nat /\ xLength >= 2 /\ s.xHead \in 0 .. xLength - 1
      /\ s.xTail \in 0 .. xLength - 1 /\ InBuffer(s) \in 0 .. xLength - 1 /\ m \in 0 .. xLength
      /\ m <= InBuffer(s)
  BY Assumed, Counts DEF SbType
<1>2. t \in 0 .. xLength - 1 /\ t = IF s.xTail + m < xLength THEN s.xTail + m ELSE s.xTail + m - xLength
  BY <1>1, PlaceIs
<1> HIDE DEF t
<1>3. /\ r \in SbType /\ r.xTail = t
      /\ r.isMessageBuffer = s.isMessageBuffer /\ r.pucBuffer = s.pucBuffer
      /\ r.xHead = s.xHead /\ r.waiting = s.waiting
      /\ r.xTriggerLevelBytes = s.xTriggerLevelBytes
  BY <1>2 DEF SbType
<1> HIDE DEF r
<1>4. InBuffer(r) = InBuffer(s) - m /\ Room(r) = Room(s) + m
  BY <1>1, <1>2, <1>3 DEF InBuffer, Room
<1>5. ASSUME NEW o \in Nat, o + m <= xLength
      PROVE  ByteAt(r, o) = ByteAt(s, o + m)
  <2>1. o \in 0 .. xLength /\ o + m \in 0 .. xLength
    BY <1>1, <1>5
  <2>2. /\ Place(t, o) = IF t + o < xLength THEN t + o ELSE t + o - xLength
        /\ Place(s.xTail, o + m) =
             IF s.xTail + (o + m) < xLength THEN s.xTail + (o + m) ELSE s.xTail + (o + m) - xLength
    BY <1>1, <1>2, <2>1, PlaceIs
  <2>3. Place(t, o) = Place(s.xTail, o + m)
    BY <1>1, <1>2, <2>1, <2>2
  <2> QED BY <1>3, <2>3 DEF ByteAt
<1> QED BY <1>3, <1>4, <1>5 DEF r, t

\* How far a place is ahead of another one, round the ring.
Ahead(p, from) == IF p >= from THEN p - from ELSE p - from + xLength

LEMMA AheadIs ==
  ASSUME NEW p \in 0 .. xLength - 1, NEW from \in 0 .. xLength - 1
  PROVE  Ahead(p, from) \in Nat /\ (p - from) % xLength = Ahead(p, from)
<1> DEFINE x == p - from
<1>1. /\ p \in Nat /\ from \in Nat /\ xLength \in Nat \ {0}
      /\ x \in Int /\ x < xLength /\ 0 - xLength <= x
  BY Assumed
<1>2. x % xLength = IF x >= 0 THEN x ELSE x + xLength
  <2> HIDE DEF x
  <2> QED BY <1>1, Remainder
<1>3. Ahead(p, from) \in Nat
  BY Assumed DEF Ahead
<1>4. CASE p >= from
  <2>1. x >= 0
    BY <1>1, <1>4
  <2> QED BY <1>2, <1>3, <1>4, <2>1 DEF Ahead
<1>5. CASE ~(p >= from)
  <2>1. ~(x >= 0)
    BY <1>1, <1>5
  <2> QED BY <1>2, <1>3, <1>5, <2>1 DEF Ahead
<1> QED BY <1>4, <1>5

\* The places in use are ahead of xHead by more than there is room.
LEMMA AheadOfHead ==
  ASSUME NEW s \in SbType, NEW o \in 0 .. InBuffer(s) - 1
  PROVE  /\ Place(s.xTail, o) \in 0 .. xLength - 1
         /\ Ahead(Place(s.xTail, o), s.xHead) > Room(s)
<1> DEFINE p == Place(s.xTail, o)
<1>1. /\ xLength \in Nat /\ xLength >= 2 /\ s.xHead \in 0 .. xLength - 1
      /\ s.xTail \in 0 .. xLength - 1 /\ InBuffer(s) \in 0 .. xLength - 1
      /\ Room(s) = xLength - 1 - InBuffer(s)
  BY Assumed, Counts DEF SbType, Room
<1>2. o \in 0 .. xLength /\ o \in Nat /\ o < InBuffer(s)
  BY <1>1
<1>3. p \in 0 .. xLength - 1 /\ p = IF s.xTail + o < xLength THEN s.xTail + o ELSE s.xTail + o - xLength
  BY <1>1, <1>2, PlaceIs
<1> HIDE DEF p
<1>4. CASE s.xHead >= s.xTail
  <2>1. InBuffer(s) = s.xHead - s.xTail
    BY <1>4 DEF InBuffer
  <2> QED BY <1>1, <1>2, <1>3, <1>4, <2>1 DEF Ahead, p
<1>5. CASE ~(s.xHead >= s.xTail)
  <2>1. InBuffer(s) = xLength + s.xHead - s.xTail
    BY <1>5 DEF InBuffer
  <2>2. p >= s.xHead => p = s.xTail + o
    BY <1>1, <1>2, <1>3, <1>5, <2>1
  <2>3. Ahead(p, s.xHead) > Room(s)
    BY <1>1, <1>2, <1>3, <1>5, <2>1, <2>2 DEF Ahead
  <2> QED BY <1>3, <2>3 DEF p
<1> QED BY <1>4, <1>5

LEMMA Concatenated ==
  ASSUME NEW h \in Seq(Nat), NEW d \in Seq(Nat), Len(h) > 0
  PROVE  h \o d \in Seq(Nat) /\ Len(h \o d) = Len(h) + Len(d) /\ (h \o d)[1] = h[1]
<1>1. h \o d \in Seq(Nat)
  OBVIOUS
<1>2. Len(h \o d) = Len(h) + Len(d)
  OBVIOUS
<1>3. (h \o d)[1] = h[1]
  OBVIOUS
<1> QED BY <1>1, <1>2, <1>3

\* The bytes of a call, with the length of a message before them.
LEMMA StoredBytes ==
  ASSUME StreamTypeOK, NEW n \in Nat \ {0}
  PROVE  /\ Stored(Data(n)) \in Seq(Nat)
         /\ Len(Stored(Data(n))) = n + Header(sb)
         /\ sb.isMessageBuffer => Stored(Data(n))[1] = n
<1>1. Data(n) \in Seq(Nat) /\ Len(Data(n)) = n
  <2>1. \A i \in 1 .. n : (sent + i) % Bytes \in Nat
    BY Assumed DEF StreamTypeOK
  <2> QED BY <2>1 DEF Data
<1>2. /\ LengthBytes(n) \in Seq(Nat) /\ Len(LengthBytes(n)) = sbBYTES_TO_STORE_MESSAGE_LENGTH
      /\ LengthBytes(n)[1] = n
  BY Assumed DEF LengthBytes
<1> HIDE DEF Data, LengthBytes
<1>3. CASE sb.isMessageBuffer
  <2>1. Stored(Data(n)) = LengthBytes(n) \o Data(n)
    BY <1>1, <1>3 DEF Stored
  <2>2. Header(sb) = sbBYTES_TO_STORE_MESSAGE_LENGTH
    BY <1>3 DEF Header
  <2> DEFINE h == LengthBytes(n)
             d == Data(n)
  <2>3. /\ h \in Seq(Nat) /\ d \in Seq(Nat) /\ Len(h) > 0 /\ h[1] = n
        /\ Len(h) = Header(sb) /\ Len(d) = n /\ Stored(d) = h \o d
    BY Assumed, <1>1, <1>2, <2>1, <2>2
  <2> HIDE DEF h, d
  <2>4. h \o d \in Seq(Nat) /\ Len(h \o d) = Len(h) + Len(d) /\ (h \o d)[1] = h[1]
    BY <2>3, Concatenated
  <2>5. Len(h) + Len(d) = n + Header(sb)
    BY <2>3
  <2> QED BY <2>3, <2>4, <2>5 DEF d
<1>4. CASE ~sb.isMessageBuffer
  <2>1. Stored(Data(n)) = Data(n) /\ Header(sb) = 0
    BY <1>4 DEF Stored, Header
  <2> QED BY <1>1, <1>4, <2>1
<1> QED BY <1>3, <1>4

\* What is written lies in free places.
LEMMA FilledRing ==
  ASSUME StreamTypeOK, NEW n \in Nat \ {0}, n + Header(sb) <= Room(sb)
  PROVE  LET r == Filled(sb, n)
         IN /\ r \in SbType /\ InBuffer(r) = InBuffer(sb) /\ Room(r) = Room(sb)
            /\ r.isMessageBuffer = sb.isMessageBuffer /\ r.waiting = sb.waiting
            /\ r.xHead = sb.xHead /\ r.xTail = sb.xTail
            /\ r.xTriggerLevelBytes = sb.xTriggerLevelBytes
            /\ \A o \in 0 .. InBuffer(sb) - 1 : ByteAt(r, o) = ByteAt(sb, o)
            /\ sb.isMessageBuffer => r.pucBuffer[r.xHead] = n
<1> DEFINE data == Stored(Data(n))
           ring == WriteBytes(data, sb.xHead)
           r == Filled(sb, n)
<1>1. /\ sb \in SbType /\ xLength \in Nat /\ xLength >= 2 /\ sb.xHead \in 0 .. xLength - 1
      /\ sb.xTail \in 0 .. xLength - 1 /\ InBuffer(sb) \in 0 .. xLength - 1
      /\ Room(sb) = xLength - 1 - InBuffer(sb) /\ sb.pucBuffer \in [0 .. xLength - 1 -> Nat]
  BY Assumed, Counts DEF StreamTypeOK, SbType, Room
<1>2. /\ data \in Seq(Nat) /\ Len(data) = n + Header(sb) /\ Header(sb) \in Nat
      /\ sb.isMessageBuffer => data[1] = n
  BY <1>1, StoredBytes, HeaderIs
<1> HIDE DEF data
<1>3. ASSUME NEW p \in 0 .. xLength - 1
      PROVE  /\ ring[p] = IF Ahead(p, sb.xHead) < Len(data)
                            THEN data[Ahead(p, sb.xHead) + 1] ELSE sb.pucBuffer[p]
             /\ ring[p] \in Nat
  <2> DEFINE i == Ahead(p, sb.xHead)
  <2>1. i \in Nat /\ (p - sb.xHead) % xLength = i
    BY <1>1, AheadIs
  <2>2. ring[p] = IF (p - sb.xHead) % xLength < Len(data)
                    THEN data[((p - sb.xHead) % xLength) + 1] ELSE sb.pucBuffer[p]
    BY DEF WriteBytes
  <2>3. ring[p] = IF i < Len(data) THEN data[i + 1] ELSE sb.pucBuffer[p]
    BY <2>1, <2>2
  <2> HIDE DEF i, ring
  <2>4. ring[p] \in Nat
    <3>1. CASE i < Len(data)
      <4>1. i + 1 \in 1 .. Len(data)
        BY <1>2, <2>1, <3>1
      <4> QED BY <1>2, <2>3, <3>1, <4>1
    <3>2. CASE ~(i < Len(data))
      BY <1>1, <2>3, <3>2
    <3> QED BY <3>1, <3>2
  <2> QED BY <2>3, <2>4 DEF i
<1>4. ring \in [0 .. xLength - 1 -> Nat]
  BY <1>3 DEF WriteBytes
<1> HIDE DEF ring
<1>5. r = [sb EXCEPT !.pucBuffer = ring]
  BY DEF Filled, ring, data
<1>6. /\ r \in SbType /\ r.pucBuffer = ring
      /\ r.isMessageBuffer = sb.isMessageBuffer /\ r.waiting = sb.waiting
      /\ r.xHead = sb.xHead /\ r.xTail = sb.xTail
      /\ r.xTriggerLevelBytes = sb.xTriggerLevelBytes
  BY <1>1, <1>4, <1>5 DEF SbType
<1> HIDE DEF r
<1>7. InBuffer(r) = InBuffer(sb) /\ Room(r) = Room(sb)
  BY <1>6 DEF InBuffer, Room
<1>8. ASSUME NEW o \in 0 .. InBuffer(sb) - 1
      PROVE  ByteAt(r, o) = ByteAt(sb, o)
  <2> DEFINE p == Place(sb.xTail, o)
             i == Ahead(p, sb.xHead)
  <2>1. p \in 0 .. xLength - 1 /\ i > Room(sb) /\ i \in Nat
    BY <1>1, AheadOfHead, AheadIs
  <2>2. ring[p] = IF i < Len(data) THEN data[i + 1] ELSE sb.pucBuffer[p]
    BY <1>3, <2>1
  <2> HIDE DEF i
  <2>3. ~ (i < Len(data))
    BY <1>1, <1>2, <2>1
  <2>4. ring[p] = sb.pucBuffer[p]
    BY <2>2, <2>3
  <2> QED BY <1>6, <2>4 DEF ByteAt
<1>9. ASSUME sb.isMessageBuffer
      PROVE  r.pucBuffer[r.xHead] = n
  <2>1. Ahead(sb.xHead, sb.xHead) = 0 /\ Len(data) > 0
    <3>1. PICK h \in Nat : h = sb.xHead
      BY <1>1
    <3>2. Ahead(h, h) = 0
      BY <3>1 DEF Ahead
    <3>3. Len(data) > 0
      BY <1>1, <1>2
    <3> QED BY <3>1, <3>2, <3>3
  <2>2. ring[sb.xHead] = IF 0 < Len(data) THEN data[0 + 1] ELSE sb.pucBuffer[sb.xHead]
    BY <1>1, <1>3, <2>1
  <2> QED BY <1>2, <1>6, <1>9, <2>1, <2>2
<1> QED BY <1>6, <1>7, <1>8, <1>9 DEF r

-----------------------------------------------------------------------------
(* The messages in the ring.                                                   *)

\* The ring of r is that of s.
SameRing(s, r) ==
  /\ r.isMessageBuffer = s.isMessageBuffer /\ r.pucBuffer = s.pucBuffer
  /\ r.xHead = s.xHead /\ r.xTail = s.xTail

LEMMA RingKept ==
  ASSUME NEW s, NEW r, SameRing(s, r)
  PROVE  /\ InBuffer(r) = InBuffer(s) /\ Room(r) = Room(s) /\ Header(r) = Header(s)
         /\ \A o : ByteAt(r, o) = ByteAt(s, o)
         /\ WholeMessages(s) => WholeMessages(r)
<1>1. /\ InBuffer(r) = InBuffer(s) /\ Header(r) = Header(s)
      /\ \A o : ByteAt(r, o) = ByteAt(s, o)
  BY DEF SameRing, InBuffer, Header, ByteAt
<1>2. Room(r) = Room(s)
  BY <1>1 DEF Room
<1>3. WholeMessages(s) => WholeMessages(r)
  BY <1>1 DEF SameRing, WholeMessages, Tiles
<1> QED BY <1>1, <1>2, <1>3

\* What is written beyond the bytes in use changes no message.
LEMMA WholeFilled ==
  ASSUME NEW s \in SbType, NEW r \in SbType, r.isMessageBuffer = s.isMessageBuffer,
         InBuffer(r) = InBuffer(s), \A o \in 0 .. InBuffer(s) - 1 : ByteAt(r, o) = ByteAt(s, o),
         WholeMessages(s)
  PROVE  WholeMessages(r)
<1> SUFFICES ASSUME s.isMessageBuffer
             PROVE  \E starts \in SUBSET (0 .. InBuffer(s) - 1) : Tiles(r, starts)
  BY DEF WholeMessages
<1>1. PICK starts \in SUBSET (0 .. InBuffer(s) - 1) : Tiles(s, starts)
  BY DEF WholeMessages
<1>2. Header(r) = Header(s)
  BY DEF Header
<1>3. Tiles(r, starts)
  BY <1>1, <1>2 DEF Tiles
<1> QED BY <1>3

\* The first message, and that there is one.
LEMMA FirstMessage ==
  ASSUME NEW s \in SbType, WholeMessages(s), s.isMessageBuffer, InBuffer(s) > 0
  PROVE  /\ ByteAt(s, 0) \in Nat /\ ByteAt(s, 0) > 0
         /\ Header(s) + ByteAt(s, 0) <= InBuffer(s)
<1>1. PICK starts \in SUBSET (0 .. InBuffer(s) - 1) : Tiles(s, starts)
  BY DEF WholeMessages
<1>2. 0 \in starts /\ ByteAt(s, 0) > 0 /\ 0 + Header(s) + ByteAt(s, 0) \in starts \cup {InBuffer(s)}
  BY <1>1 DEF Tiles
<1>3. InBuffer(s) \in Nat /\ Header(s) \in Nat
  BY Counts, HeaderIs
<1>4. ByteAt(s, 0) \in Nat
  <2>1. s.xTail \in 0 .. xLength - 1 /\ 0 \in 0 .. xLength
    BY Assumed DEF SbType
  <2>2. Place(s.xTail, 0) \in 0 .. xLength - 1
    BY <2>1, PlaceIs
  <2> QED BY <2>2 DEF ByteAt, SbType
<1>5. \A x \in starts \cup {InBuffer(s)} : x <= InBuffer(s)
  BY <1>3
<1>6. 0 + Header(s) + ByteAt(s, 0) <= InBuffer(s)
  BY <1>2, <1>5
<1> QED BY <1>2, <1>3, <1>4, <1>6

\* The message that xHead moves over is the last one then.
LEMMA WholeSent ==
  ASSUME NEW s \in SbType, WholeMessages(s), NEW n \in Nat \ {0}, n + Header(s) <= Room(s),
         s.isMessageBuffer => s.pucBuffer[s.xHead] = n,
         NEW r \in SbType, r.isMessageBuffer = s.isMessageBuffer, r.pucBuffer = s.pucBuffer,
         r.xTail = s.xTail, InBuffer(r) = InBuffer(s) + n + Header(s)
  PROVE  WholeMessages(r)
<1> SUFFICES ASSUME s.isMessageBuffer
             PROVE  \E starts \in SUBSET (0 .. InBuffer(r) - 1) : Tiles(r, starts)
  BY DEF WholeMessages
<1> DEFINE held == InBuffer(s)
<1>1. PICK starts \in SUBSET (0 .. InBuffer(s) - 1) : Tiles(s, starts)
  BY DEF WholeMessages
<1>2. /\ held \in 0 .. xLength - 1 /\ held \in Nat /\ Header(s) \in Nat /\ Header(r) = Header(s)
      /\ s.xTail \in 0 .. xLength - 1 /\ s.xHead \in 0 .. xLength - 1 /\ held \in 0 .. xLength
      /\ xLength \in Nat /\ held < InBuffer(r) /\ InBuffer(r) \in Nat
  <2>1. held \in 0 .. xLength - 1 /\ Header(s) \in Nat /\ xLength \in Nat /\ InBuffer(r) \in 0 .. xLength - 1
    BY Counts, HeaderIs, Assumed
  <2>2. Header(r) = Header(s)
    BY DEF Header
  <2>3. s.xTail \in 0 .. xLength - 1 /\ s.xHead \in 0 .. xLength - 1
    BY DEF SbType
  <2> QED BY <2>1, <2>2, <2>3
<1>3. \A o : ByteAt(r, o) = ByteAt(s, o)
  BY DEF ByteAt
<1>4. ByteAt(s, held) = n
  <2> DEFINE p == Place(s.xTail, held)
  <2>1. p = IF s.xTail + held < xLength THEN s.xTail + held ELSE s.xTail + held - xLength
    BY <1>2, PlaceIs
  <2> HIDE DEF p
  <2>2. p = s.xHead
    BY <1>2, <2>1 DEF InBuffer
  <2> QED BY <2>2 DEF ByteAt, p
<1> DEFINE all == starts \cup {held}
<1>5. all \in SUBSET (0 .. InBuffer(r) - 1)
  <2> SUFFICES ASSUME NEW o \in all
               PROVE  o \in 0 .. InBuffer(r) - 1
    OBVIOUS
  <2>1. o \in Nat /\ o <= held
    BY <1>1, <1>2
  <2> HIDE DEF all, held
  <2> QED BY <1>2, <2>1
<1>6. InBuffer(r) > 0 => 0 \in all
  <2>1. held > 0 => 0 \in starts
    BY <1>1 DEF Tiles
  <2> QED BY <1>2, <2>1
<1>7. ASSUME NEW o \in all
      PROVE  ByteAt(r, o) > 0 /\ o + Header(r) + ByteAt(r, o) \in all \cup {InBuffer(r)}
  <2>1. CASE o \in starts
    <3>1. ByteAt(s, o) > 0 /\ o + Header(s) + ByteAt(s, o) \in starts \cup {InBuffer(s)}
      BY <1>1, <2>1 DEF Tiles
    <3> QED BY <1>2, <1>3, <3>1
  <2>2. CASE o = held
    BY <1>2, <1>3, <1>4, <2>2
  <2> QED BY <2>1, <2>2
<1>8. Tiles(r, all)
  BY <1>6, <1>7 DEF Tiles
<1> QED BY <1>5, <1>8

\* xTail moves over the first message, or over some bytes.
LEMMA WholeReceived ==
  ASSUME NEW s \in SbType, WholeMessages(s), NEW m \in 1 .. InBuffer(s),
         s.isMessageBuffer => m = Header(s) + ByteAt(s, 0),
         NEW r \in SbType, r.isMessageBuffer = s.isMessageBuffer, InBuffer(r) = InBuffer(s) - m,
         \A o \in Nat : o + m <= xLength => ByteAt(r, o) = ByteAt(s, o + m)
  PROVE  WholeMessages(r)
<1> SUFFICES ASSUME s.isMessageBuffer
             PROVE  \E starts \in SUBSET (0 .. InBuffer(r) - 1) : Tiles(r, starts)
  BY DEF WholeMessages
<1> DEFINE held == InBuffer(s)
<1>1. PICK starts \in SUBSET (0 .. InBuffer(s) - 1) : Tiles(s, starts)
  BY DEF WholeMessages
<1>2. /\ held \in 0 .. xLength - 1 /\ held \in Nat /\ Header(s) \in Nat /\ Header(r) = Header(s)
      /\ xLength \in Nat /\ m \in Nat /\ m > 0 /\ m <= held
  BY Counts, HeaderIs, Assumed DEF Header
<1>3. m \in starts \cup {held}
  <2>1. 0 \in starts
    BY <1>1, <1>2 DEF Tiles
  <2>2. 0 + Header(s) + ByteAt(s, 0) \in starts \cup {held}
    BY <1>1, <2>1 DEF Tiles
  <2>3. ByteAt(s, 0) \in Nat
    BY <1>2, FirstMessage
  <2> QED BY <1>2, <2>2, <2>3
<1> DEFINE rest == {o \in 0 .. InBuffer(r) - 1 : o + m \in starts}
<1>4. InBuffer(r) > 0 => 0 \in rest
  BY <1>2, <1>3
<1>5. ASSUME NEW o \in rest
      PROVE  ByteAt(r, o) > 0 /\ o + Header(r) + ByteAt(r, o) \in rest \cup {InBuffer(r)}
  <2>1. /\ o \in Nat /\ o + m \in starts /\ o + m <= xLength /\ o + m \in Nat
    BY <1>1, <1>2
  <2>2. ByteAt(r, o) = ByteAt(s, o + m)
    BY <2>1
  <2>3. /\ ByteAt(s, o + m) > 0
        /\ (o + m) + Header(s) + ByteAt(s, o + m) \in starts \cup {held}
    BY <1>1, <2>1 DEF Tiles
  <2>4. ByteAt(s, o + m) \in Nat
    <3>1. s.xTail \in 0 .. xLength - 1 /\ o + m \in 0 .. xLength
      BY <1>2, <2>1 DEF SbType
    <3>2. Place(s.xTail, o + m) \in 0 .. xLength - 1
      BY <3>1, PlaceIs
    <3> QED BY <3>2 DEF ByteAt, SbType
  <2> DEFINE b == ByteAt(s, o + m)
             q == o + Header(r) + b
  <2>5. b \in Nat /\ b > 0 /\ (o + m) + Header(s) + b \in starts \cup {held}
    BY <2>3, <2>4
  <2> HIDE DEF b
  <2>6. q \in Nat /\ q + m = (o + m) + Header(s) + b
    BY <1>2, <2>1, <2>5
  <2>7. CASE q + m = held
    BY <1>2, <2>2, <2>5, <2>6, <2>7 DEF b
  <2>8. CASE q + m \in starts
    <3>1. q \in 0 .. InBuffer(r) - 1
      BY <1>1, <1>2, <2>6, <2>8
    <3> HIDE DEF q
    <3> QED BY <2>2, <2>5, <2>8, <3>1 DEF b, q
  <2> HIDE DEF q
  <2> QED BY <2>5, <2>6, <2>7, <2>8
<1>6. Tiles(r, rest)
  BY <1>4, <1>5 DEF Tiles
<1> QED BY <1>6

\* A reader with no more bytes in the buffer than the length of a message takes
\* has none.
LEMMA NothingThere ==
  ASSUME NEW s \in SbType, WholeMessages(s), InBuffer(s) <= Header(s)
  PROVE  InBuffer(s) = 0
<1>1. InBuffer(s) \in Nat /\ Header(s) \in Nat
  BY Counts, HeaderIs
<1>2. CASE s.isMessageBuffer /\ InBuffer(s) > 0
  BY <1>1, <1>2, FirstMessage
<1>3. CASE ~s.isMessageBuffer
  BY <1>1, <1>3, HeaderIs
<1> QED BY <1>1, <1>2, <1>3

\* A reader takes no more than it knows to be there, and of messages the first one.
LEMMA TakenBytes ==
  ASSUME StreamTypeOK, NEW length \in Nat, NEW available \in Nat, Header(sb) < available,
         available <= InBuffer(sb),
         sb.isMessageBuffer => Header(sb) + ByteAt(sb, 0) <= available
  PROVE  LET data == Taken(length, available)
         IN /\ data \in Seq(Nat) /\ Len(data) \in Nat
            /\ data # <<>> => /\ Len(data) > 0 /\ Len(data) + Header(sb) <= InBuffer(sb)
                              /\ sb.isMessageBuffer => Len(data) = ByteAt(sb, 0)
            /\ data = <<>> => Len(data) = 0
<1> DEFINE next == sb.pucBuffer[sb.xTail]
           wanted == IF ~sb.isMessageBuffer THEN length
                     ELSE IF next > length THEN 0 ELSE next
           there == available - HeaderLength
           xCount == IF wanted < there THEN wanted ELSE there
           data == Taken(length, available)
<1>1. /\ sb \in SbType /\ Header(sb) \in Nat /\ HeaderLength = Header(sb)
      /\ InBuffer(sb) \in 0 .. xLength - 1 /\ xLength \in Nat
      /\ sb.xTail \in 0 .. xLength - 1 /\ sb.pucBuffer \in [0 .. xLength - 1 -> Nat]
  BY Assumed, Counts, HeaderIs DEF StreamTypeOK, SbType, HeaderLength, Header
<1>2. next = ByteAt(sb, 0) /\ next \in Nat
  <2>1. Place(sb.xTail, 0) = sb.xTail
    <3>1. 0 \in 0 .. xLength
      BY <1>1
    <3>2. Place(sb.xTail, 0) =
            IF sb.xTail + 0 < xLength THEN sb.xTail + 0 ELSE sb.xTail + 0 - xLength
      BY <1>1, <3>1, PlaceIs
    <3>3. sb.xTail + 0 = sb.xTail /\ sb.xTail < xLength
      BY <1>1
    <3> QED BY <3>2, <3>3
  <2> QED BY <1>1, <2>1 DEF ByteAt
<1>3. there \in Nat /\ there > 0 /\ there + Header(sb) = available /\ wanted \in Nat
  BY <1>1, <1>2
<1>4. xCount \in Nat /\ xCount <= there /\ (sb.isMessageBuffer /\ xCount > 0 => xCount = ByteAt(sb, 0))
  <2>1. sb.isMessageBuffer => next <= there
    BY <1>1, <1>2, <1>3
  <2> HIDE DEF there, next
  <2> QED BY <1>2, <1>3, <2>1
<1>5. data = ReadBytes(xCount, Place(sb.xTail, HeaderLength))
  BY DEF Taken
<1> HIDE DEF xCount, there, data
<1>6. data \in Seq(Nat) /\ Len(data) = xCount
  <2> DEFINE from == Place(sb.xTail, HeaderLength)
  <2>1. data = [i \in 1 .. xCount |-> sb.pucBuffer[Place(from, i - 1)]]
    BY <1>5 DEF ReadBytes
  <2>2. from \in 0 .. xLength - 1
    <3>1. HeaderLength \in 0 .. xLength
      BY <1>1
    <3> QED BY <1>1, <3>1, PlaceIs
  <2> HIDE DEF from
  <2>3. ASSUME NEW i \in 1 .. xCount
        PROVE  sb.pucBuffer[Place(from, i - 1)] \in Nat
    <3>1. i - 1 \in 0 .. xLength
      BY <1>1, <1>3, <1>4
    <3>2. Place(from, i - 1) \in 0 .. xLength - 1
      BY <2>2, <3>1, PlaceIs
    <3> QED BY <1>1, <3>2
  <2>4. data \in [1 .. xCount -> Nat]
    BY <2>1, <2>3
  <2> QED BY <1>4, <2>4
<1>7. data # <<>> => Len(data) > 0
  BY <1>4, <1>6
<1>8. Len(data) + Header(sb) <= InBuffer(sb)
  BY <1>1, <1>3, <1>4, <1>6
<1>9. data = <<>> => Len(data) = 0
  OBVIOUS
<1> QED BY <1>4, <1>6, <1>7, <1>8, <1>9 DEF data

-----------------------------------------------------------------------------
(* What the steps have in common.                                              *)

\* What is written of a call fits.
LEMMA SendingFits ==
  ASSUME sb \in SbType, NEW length \in Nat, NEW xSpace \in Nat, xSpace <= Room(sb)
  PROVE  /\ Written(length, xSpace) \in Nat
         /\ Written(length, xSpace) # 0 => Written(length, xSpace) + Header(sb) <= Room(sb)
<1>1. /\ Header(sb) \in Nat /\ Room(sb) \in 0 .. xLength - 1 /\ xLength \in Nat
      /\ ~sb.isMessageBuffer => Header(sb) = 0
      /\ sb.isMessageBuffer => HeaderLength = Header(sb)
  BY Assumed, Counts, HeaderIs DEF HeaderLength, Header
<1>2. CASE ~sb.isMessageBuffer
  BY <1>1, <1>2 DEF Written
<1>3. CASE sb.isMessageBuffer
  <2>1. RequiredSpace(length) = length + Header(sb)
    BY <1>1, <1>3 DEF RequiredSpace
  <2>2. Written(length, xSpace) = IF xSpace >= length + Header(sb) THEN length ELSE 0
    BY <1>3, <2>1 DEF Written
  <2> QED BY <1>1, <2>2
<1> QED BY <1>2, <1>3

\* NotifiedSide, a task does not wait any more, and nothing else changes but its field.
LEMMA NotifiedSide ==
  ASSUME NEW s \in SbType, NEW side \in Ends, NEW pcs \in [Ends -> States],
         ucNotifyState \in [Ends -> {"none", "waiting", "received"}],
         pcs[side] \in {"wait", "blocked"} /\ ucNotifyState[side] # "received" => s.waiting[side],
         Notify(s, side, pcs)
  PROVE  /\ sb' \in SbType /\ SameRing(s, sb') /\ sb'.xTriggerLevelBytes = s.xTriggerLevelBytes
         /\ pc' \in [Ends -> States]
         /\ ucNotifyState' \in [Ends -> {"none", "waiting", "received"}]
         /\ ~Waits(side)'
         /\ pc'[side] = pcs[side] \/ (pcs[side] = "blocked" /\ pc'[side] = "woken")
         /\ \A u \in Ends : u # side => /\ pc'[u] = pcs[u] /\ ucNotifyState'[u] = ucNotifyState[u]
                                        /\ sb'.waiting[u] = s.waiting[u]
<1>0. side \in {"writer", "reader"}
  BY DEF Ends
<1>1. CASE s.waiting[side]
  <2> DEFINE state == IF pcs[side] = "blocked" THEN "woken" ELSE pcs[side]
             field == [s.waiting EXCEPT ![side] = FALSE]
  <2>1. /\ sb' = [s EXCEPT !.waiting = field]
        /\ ucNotifyState' = [ucNotifyState EXCEPT ![side] = "received"]
        /\ pc' = [pcs EXCEPT ![side] = state]
    BY <1>1 DEF Notify
  <2>2. state \in States /\ field \in [Ends -> BOOLEAN] /\ \A u \in Ends : u # side => field[u] = s.waiting[u]
    BY DEF States, SbType
  <2> HIDE DEF field
  <2>3. /\ sb' \in SbType /\ sb'.waiting = field
        /\ sb'.isMessageBuffer = s.isMessageBuffer /\ sb'.pucBuffer = s.pucBuffer
        /\ sb'.xHead = s.xHead /\ sb'.xTail = s.xTail
        /\ sb'.xTriggerLevelBytes = s.xTriggerLevelBytes
    BY <2>1, <2>2 DEF SbType
  <2>4. /\ pc' \in [Ends -> States] /\ pc'[side] = state
        /\ \A u \in Ends : u # side => pc'[u] = pcs[u]
    BY <2>1, <2>2
  <2>5. /\ ucNotifyState' \in [Ends -> {"none", "waiting", "received"}]
        /\ ucNotifyState'[side] = "received"
        /\ \A u \in Ends : u # side => ucNotifyState'[u] = ucNotifyState[u]
    BY <2>1
  <2> QED BY <2>2, <2>3, <2>4, <2>5 DEF SameRing, Waits
<1>2. CASE ~s.waiting[side]
  <2>1. sb' = s /\ pc' = pcs /\ UNCHANGED ucNotifyState
    BY <1>2 DEF Notify
  <2>2. ~Waits(side)'
    BY <1>2, <2>1 DEF Waits
  <2> QED BY <1>2, <2>1, <2>2 DEF SameRing
<1> QED BY <1>1, <1>2

\* The writer's counts stay safe when the room for it grows.
LEMMA WriterKept ==
  ASSUME StreamTypeOK, WriterOK, sb' \in SbType, sb'.isMessageBuffer = sb.isMessageBuffer,
         Room(sb') >= Room(sb),
         pc'["writer"] = pc["writer"] \/ (pc["writer"] = "blocked" /\ pc'["writer"] = "woken"),
         sending'.length = sending.length, sending'.xSpace = sending.xSpace,
         pc["writer"] = "commit" => sb'.pucBuffer = sb.pucBuffer /\ sb'.xHead = sb.xHead
  PROVE  WriterOK'
<1>1. /\ sb \in SbType /\ Room(sb) \in 0 .. xLength - 1 /\ Room(sb') \in 0 .. xLength - 1
      /\ sending.xSpace \in Nat /\ xLength \in Nat
  BY Assumed, Counts DEF StreamTypeOK
<1>2. Sending' = Sending
  BY DEF Sending, Written, RequiredSpace, HeaderLength
<1>3. pc'["writer"] \notin {"app", "trigger", "notify"} => sending'.xSpace <= Room(sb')
  BY <1>1 DEF WriterOK
<1>4. Room(sb)' = Room(sb')
  BY DEF Room, InBuffer
<1> HIDE <1>1
<1> QED BY <1>2, <1>3, <1>4 DEF WriterOK

\* And the reader's when there are more bytes.
LEMMA ReaderKept ==
  ASSUME StreamTypeOK, ReaderOK, sb' \in SbType, sb'.isMessageBuffer = sb.isMessageBuffer,
         InBuffer(sb') >= InBuffer(sb), InBuffer(sb) > 0 => ByteAt(sb', 0) = ByteAt(sb, 0),
         pc'["reader"] = pc["reader"] \/ (pc["reader"] = "blocked" /\ pc'["reader"] = "woken"),
         receiving' = receiving
  PROVE  ReaderOK'
<1>1. /\ sb \in SbType /\ InBuffer(sb) \in 0 .. xLength - 1 /\ InBuffer(sb') \in 0 .. xLength - 1
      /\ receiving.xBytesAvailable \in Nat /\ Len(receiving.data) \in Nat /\ xLength \in Nat
      /\ Header(sb) \in Nat
  BY Assumed, Counts, HeaderIs DEF StreamTypeOK
<1>2. Header(sb') = Header(sb)
  BY DEF Header
<1>3. ASSUME pc'["reader"] = "copy"
      PROVE  /\ Header(sb') < receiving'.xBytesAvailable /\ receiving'.xBytesAvailable <= InBuffer(sb')
             /\ sb'.isMessageBuffer => Header(sb') + ByteAt(sb', 0) <= receiving'.xBytesAvailable
  <2>1. /\ Header(sb) < receiving.xBytesAvailable /\ receiving.xBytesAvailable <= InBuffer(sb)
        /\ sb.isMessageBuffer => Header(sb) + ByteAt(sb, 0) <= receiving.xBytesAvailable
    BY <1>3 DEF ReaderOK
  <2>2. InBuffer(sb) > 0
    BY <1>1, <2>1
  <2> QED BY <1>1, <1>2, <2>1, <2>2
<1>4. ASSUME pc'["reader"] = "commit"
      PROVE  /\ Len(receiving'.data) > 0 /\ Len(receiving'.data) + Header(sb') <= InBuffer(sb')
             /\ sb'.isMessageBuffer => Len(receiving'.data) = ByteAt(sb', 0)
  <2>1. /\ Len(receiving.data) > 0 /\ Len(receiving.data) + Header(sb) <= InBuffer(sb)
        /\ sb.isMessageBuffer => Len(receiving.data) = ByteAt(sb, 0)
    BY <1>4 DEF ReaderOK
  <2>2. InBuffer(sb) > 0
    BY <1>1, <2>1
  <2> QED BY <1>1, <1>2, <2>1, <2>2
<1>5. InBuffer(sb)' = InBuffer(sb') /\ Header(sb)' = Header(sb') /\ ByteAt(sb, 0)' = ByteAt(sb', 0)
  BY DEF InBuffer, Header, ByteAt, Place
<1> QED BY <1>3, <1>4, <1>5 DEF ReaderOK

\* xHead moves on over the bytes of a call.
LEMMA SentMoves ==
  ASSUME NEW s \in SbType, s.isMessageBuffer = sb.isMessageBuffer, WholeMessages(s),
         NEW n \in Nat \ {0}, n + Header(s) <= Room(s),
         s.isMessageBuffer => s.pucBuffer[s.xHead] = n
  PROVE  LET r == Sent(s, n)
         IN /\ r \in SbType /\ WholeMessages(r)
            /\ InBuffer(r) = InBuffer(s) + (n + Header(s))
            /\ r.isMessageBuffer = s.isMessageBuffer /\ r.waiting = s.waiting
            /\ r.xTriggerLevelBytes = s.xTriggerLevelBytes
            /\ \A o : ByteAt(r, o) = ByteAt(s, o)
<1> DEFINE m == n + HeaderLength
           r == Sent(s, n)
<1>1. m = n + Header(s) /\ Header(s) \in Nat /\ m \in 0 .. Room(s) /\ Room(s) \in Nat
  BY Counts, HeaderIs DEF HeaderLength, Header
<1>2. r = [s EXCEPT !.xHead = Place(s.xHead, m)]
  BY DEF Sent
<1> HIDE DEF m, r
<1>3. /\ r \in SbType /\ InBuffer(r) = InBuffer(s) + m
      /\ r.isMessageBuffer = s.isMessageBuffer /\ r.pucBuffer = s.pucBuffer
      /\ r.xTail = s.xTail /\ r.waiting = s.waiting
      /\ r.xTriggerLevelBytes = s.xTriggerLevelBytes
  BY <1>1, <1>2, HeadMoves
<1>4. InBuffer(r) = InBuffer(s) + n + Header(s)
  <2>1. InBuffer(s) \in Nat
    BY Counts
  <2> QED BY <1>1, <1>3, <2>1
<1>5. WholeMessages(r)
  BY <1>3, <1>4, WholeSent
<1>6. \A o : ByteAt(r, o) = ByteAt(s, o)
  BY <1>3 DEF ByteAt
<1> QED BY <1>1, <1>3, <1>5, <1>6 DEF r

\* An interrupt's message, written and sent in one step.
LEMMA SentAtOnce ==
  ASSUME StreamTypeOK, WholeMessages(sb), NEW n \in Nat \ {0}, n + Header(sb) <= Room(sb)
  PROVE  LET r == Sent(Filled(sb, n), n)
         IN /\ r \in SbType /\ WholeMessages(r) /\ InBuffer(r) >= InBuffer(sb)
            /\ r.isMessageBuffer = sb.isMessageBuffer /\ r.waiting = sb.waiting
            /\ r.xTriggerLevelBytes = sb.xTriggerLevelBytes
            /\ InBuffer(sb) > 0 => ByteAt(r, 0) = ByteAt(sb, 0)
<1> DEFINE s == Filled(sb, n)
<1>1. sb \in SbType /\ InBuffer(sb) \in Nat /\ Header(sb) \in Nat
  BY Counts, HeaderIs DEF StreamTypeOK
<1>2. /\ s \in SbType /\ InBuffer(s) = InBuffer(sb) /\ Room(s) = Room(sb)
      /\ s.isMessageBuffer = sb.isMessageBuffer /\ s.waiting = sb.waiting
      /\ s.xTriggerLevelBytes = sb.xTriggerLevelBytes
      /\ \A o \in 0 .. InBuffer(sb) - 1 : ByteAt(s, o) = ByteAt(sb, o)
      /\ sb.isMessageBuffer => s.pucBuffer[s.xHead] = n
  BY FilledRing
<1> HIDE DEF s
<1>3. WholeMessages(s)
  BY <1>1, <1>2, WholeFilled
<1>4. Header(s) = Header(sb)
  BY <1>2 DEF Header
<1> DEFINE r == Sent(s, n)
<1>5. /\ r \in SbType /\ WholeMessages(r)
      /\ InBuffer(r) = InBuffer(s) + (n + Header(s))
      /\ r.isMessageBuffer = s.isMessageBuffer /\ r.waiting = s.waiting
      /\ r.xTriggerLevelBytes = s.xTriggerLevelBytes
      /\ \A o : ByteAt(r, o) = ByteAt(s, o)
  BY <1>2, <1>3, <1>4, SentMoves
<1> HIDE DEF r
<1>6. InBuffer(r) >= InBuffer(sb)
  BY <1>1, <1>2, <1>4, <1>5
<1>7. InBuffer(sb) > 0 => ByteAt(r, 0) = ByteAt(sb, 0)
  BY <1>1, <1>2, <1>5
<1> QED BY <1>2, <1>5, <1>6, <1>7 DEF r, s

\* xTail moves on over the bytes of a call.
LEMMA ReceivedMoves ==
  ASSUME sb \in SbType, WholeMessages(sb), NEW n \in Nat \ {0}, n + Header(sb) <= InBuffer(sb),
         sb.isMessageBuffer => n = ByteAt(sb, 0)
  PROVE  LET r == Received(sb, n)
         IN /\ r \in SbType /\ WholeMessages(r) /\ Room(r) >= Room(sb)
            /\ r.isMessageBuffer = sb.isMessageBuffer /\ r.waiting = sb.waiting
            /\ r.pucBuffer = sb.pucBuffer /\ r.xHead = sb.xHead
            /\ r.xTriggerLevelBytes = sb.xTriggerLevelBytes
<1> DEFINE m == n + HeaderLength
           r == Received(sb, n)
<1>1. /\ m = n + Header(sb) /\ Header(sb) \in Nat /\ m \in 1 .. InBuffer(sb)
      /\ m \in 0 .. InBuffer(sb) /\ Room(sb) \in Nat /\ InBuffer(sb) \in Nat
  BY Counts, HeaderIs DEF HeaderLength, Header
<1>2. r = [sb EXCEPT !.xTail = Place(sb.xTail, m)]
  BY DEF Received
<1>3. sb.isMessageBuffer => m = Header(sb) + ByteAt(sb, 0)
  BY <1>1
<1> HIDE DEF m, r
<1>4. /\ r \in SbType /\ InBuffer(r) = InBuffer(sb) - m /\ Room(r) = Room(sb) + m
      /\ r.isMessageBuffer = sb.isMessageBuffer /\ r.pucBuffer = sb.pucBuffer
      /\ r.xHead = sb.xHead /\ r.waiting = sb.waiting
      /\ r.xTriggerLevelBytes = sb.xTriggerLevelBytes
      /\ \A o \in Nat : o + m <= xLength => ByteAt(r, o) = ByteAt(sb, o + m)
  BY <1>1, <1>2, TailMoves
<1>5. WholeMessages(r)
  BY <1>1, <1>3, <1>4, WholeReceived
<1>6. Room(r) >= Room(sb)
  BY <1>1, <1>4
<1> QED BY <1>4, <1>5, <1>6 DEF r

\* A step of the writer that leaves the ring alone.
LEMMA WriterMoves ==
  ASSUME StreamIInv, StreamTypeOK', SameRing(sb, sb'),
         sb'.xTriggerLevelBytes = sb.xTriggerLevelBytes,
         sb'.waiting["reader"] = sb.waiting["reader"], pc'["reader"] = pc["reader"],
         receiving' = receiving, ucNotifyState'["reader"] = ucNotifyState["reader"],
         pc'["writer"] # "commit",
         pc'["writer"] \notin {"app", "trigger", "notify"} => sending'.xSpace <= Room(sb),
         \/ pc'["writer"] \in {"trigger", "notify"} \/ pc["writer"] \notin {"trigger", "notify"}
         \/ InBuffer(sb) < sb.xTriggerLevelBytes,
         Waits("writer")' =>
           /\ sb'.waiting["writer"]
           /\ pc["reader"] # "notify" => Room(sb) < RequiredSpace(sending.length)'
  PROVE  StreamIInv'
<1>0. StreamTypeOK /\ sb' \in SbType
  BY DEF StreamIInv, StreamTypeOK
<1>1. /\ InBuffer(sb') = InBuffer(sb) /\ Room(sb') = Room(sb)
      /\ \A o : ByteAt(sb', o) = ByteAt(sb, o)
      /\ WholeMessages(sb) => WholeMessages(sb')
  BY RingKept
<1>2. WholeMessages(sb)'
  <2>1. WholeMessages(sb')
    BY <1>1 DEF StreamIInv
  <2> QED BY <2>1 DEF WholeMessages, Tiles, InBuffer, Header, ByteAt, Place
<1>3. InBuffer(sb)' = InBuffer(sb') /\ Room(sb)' = Room(sb')
  BY DEF Room, InBuffer
<1>4. WriterOK'
  BY <1>1, <1>3 DEF WriterOK
<1>5. InBuffer(sb') >= InBuffer(sb)
  BY <1>0, <1>1, Counts
<1>6. ReaderOK'
  BY <1>0, <1>1, <1>5, ReaderKept DEF StreamIInv, SameRing
<1>7. Waits("reader")' <=> Waits("reader")
  BY DEF Waits
<1>8. Registered'
  BY <1>7 DEF StreamIInv, Registered, Ends
<1>9. WaitsInVain'
  BY <1>1, <1>3, <1>7 DEF StreamIInv, WaitsInVain
<1> QED BY <1>2, <1>4, <1>6, <1>8, <1>9 DEF StreamIInv

\* And one of the reader.
LEMMA ReaderMoves ==
  ASSUME StreamIInv, StreamTypeOK', SameRing(sb, sb'),
         sb'.xTriggerLevelBytes = sb.xTriggerLevelBytes,
         sb'.waiting["writer"] = sb.waiting["writer"], pc'["writer"] = pc["writer"],
         sending' = sending, ucNotifyState'["writer"] = ucNotifyState["writer"],
         pc'["reader"] = "copy" =>
           /\ Header(sb) < receiving'.xBytesAvailable /\ receiving'.xBytesAvailable <= InBuffer(sb)
           /\ sb.isMessageBuffer => Header(sb) + ByteAt(sb, 0) <= receiving'.xBytesAvailable,
         pc'["reader"] = "commit" =>
           /\ Len(receiving'.data) > 0 /\ Len(receiving'.data) + Header(sb) <= InBuffer(sb)
           /\ sb.isMessageBuffer => Len(receiving'.data) = ByteAt(sb, 0),
         pc'["reader"] = "notify" \/ pc["reader"] # "notify",
         Waits("reader")' =>
           /\ sb'.waiting["reader"]
           /\ pc["writer"] \notin {"trigger", "notify"} => InBuffer(sb) < sb.xTriggerLevelBytes
  PROVE  StreamIInv'
<1>0. StreamTypeOK /\ sb' \in SbType
  BY DEF StreamIInv, StreamTypeOK
<1>1. /\ InBuffer(sb') = InBuffer(sb) /\ Room(sb') = Room(sb) /\ Header(sb') = Header(sb)
      /\ \A o : ByteAt(sb', o) = ByteAt(sb, o)
      /\ WholeMessages(sb) => WholeMessages(sb')
  BY RingKept
<1>2. WholeMessages(sb)'
  <2>1. WholeMessages(sb')
    BY <1>1 DEF StreamIInv
  <2> QED BY <2>1 DEF WholeMessages, Tiles, InBuffer, Header, ByteAt, Place
<1>3. /\ InBuffer(sb)' = InBuffer(sb') /\ Room(sb)' = Room(sb') /\ Header(sb)' = Header(sb')
      /\ ByteAt(sb, 0)' = ByteAt(sb', 0)
  BY DEF Room, InBuffer, Header, ByteAt, Place
<1>4. Room(sb') >= Room(sb)
  BY <1>0, <1>1, Counts
<1>5. WriterOK'
  BY <1>0, <1>4, WriterKept DEF StreamIInv, SameRing
<1>6. ReaderOK'
  BY <1>1, <1>3 DEF SameRing, ReaderOK
<1>7. Waits("writer")' <=> Waits("writer")
  BY DEF Waits
<1>8. Registered'
  BY <1>7 DEF StreamIInv, Registered, Ends
<1>9. RequiredSpace(sending.length)' = RequiredSpace(sending.length)
  BY DEF SameRing, RequiredSpace, HeaderLength
<1>10. WaitsInVain'
  BY <1>1, <1>3, <1>7, <1>9 DEF StreamIInv, WaitsInVain
<1> QED BY <1>2, <1>5, <1>6, <1>8, <1>10 DEF StreamIInv

-----------------------------------------------------------------------------
(* Each step keeps the invariant.                                              *)

SendType == [length : Nat, block : Blocks, over : BOOLEAN, xSpace : Nat]
ReceiveType == [length : Nat, block : Blocks, xBytesAvailable : Nat, data : Seq(Nat)]
NotifyStates == {"none", "waiting", "received"}

LEMMA InitIInv == StreamInit => StreamIInv
<1> SUFFICES ASSUME StreamInit
             PROVE  StreamIInv
  OBVIOUS
<1>1. PICK isMessageBuffer \in BOOLEAN :
        sb = New(isMessageBuffer, Level(0), [i \in 0 .. xLength - 1 |-> 0])
  BY DEF StreamInit
<1>2. sb \in SbType /\ sb.xHead = 0 /\ sb.xTail = 0
  BY <1>1, Assumed DEF New, Level, SbType
<1>3. InBuffer(sb) = 0
  BY <1>2 DEF InBuffer
<1>4. StreamTypeOK
  <2>1. pc \in [Ends -> States] /\ ucNotifyState \in [Ends -> NotifyStates] /\ sent \in Nat
    BY DEF StreamInit, States, NotifyStates
  <2>2. sending \in SendType /\ receiving \in ReceiveType
    BY DEF StreamInit, NotSending, NotReceiving, SendType, ReceiveType, Blocks
  <2> QED BY <1>2, <2>1, <2>2 DEF StreamTypeOK, SendType, ReceiveType, NotifyStates
<1>5. WholeMessages(sb)
  <2>1. Tiles(sb, {}) /\ {} \in SUBSET (0 .. InBuffer(sb) - 1)
    BY <1>3 DEF Tiles
  <2> QED BY <2>1 DEF WholeMessages
<1>6. \A t \in Ends : pc[t] = "app"
  BY DEF StreamInit
<1>7. WriterOK /\ ReaderOK /\ Registered /\ WaitsInVain
  BY <1>6 DEF Ends, WriterOK, ReaderOK, Registered, WaitsInVain, Waits
<1> QED BY <1>4, <1>5, <1>7 DEF StreamIInv

\* What the invariant says of the types, with the counts.
LEMMA Typed ==
  ASSUME StreamIInv
  PROVE  /\ StreamTypeOK /\ sb \in SbType /\ pc \in [Ends -> States]
         /\ sending \in SendType /\ receiving \in ReceiveType
         /\ ucNotifyState \in [Ends -> NotifyStates] /\ sent \in Nat
         /\ InBuffer(sb) \in Nat /\ Room(sb) \in Nat /\ Header(sb) \in Nat
         /\ HeaderLength = Header(sb) /\ SpacesAvailable = Room(sb)
         /\ BytesInBuffer(sb) = InBuffer(sb)
<1>1. StreamTypeOK /\ sb \in SbType
  BY DEF StreamIInv, StreamTypeOK
<1>2. /\ pc \in [Ends -> States] /\ sending \in SendType /\ receiving \in ReceiveType
      /\ ucNotifyState \in [Ends -> NotifyStates] /\ sent \in Nat
  BY <1>1 DEF StreamTypeOK, SendType, ReceiveType, NotifyStates
<1>3. InBuffer(sb) \in Nat /\ Room(sb) \in Nat /\ Header(sb) \in Nat
  BY <1>1, Counts, HeaderIs
<1>4. HeaderLength = Header(sb)
  BY DEF HeaderLength, Header
<1> QED BY <1>1, <1>2, <1>3, <1>4, Counts, Spaces

\* A task's place in its call changes.
LEMMA PlaceInCall ==
  ASSUME NEW side \in Ends, NEW p \in [Ends -> States], NEW x \in States
  PROVE  LET q == [p EXCEPT ![side] = x]
         IN q \in [Ends -> States] /\ q[side] = x /\ \A u \in Ends : u # side => q[u] = p[u]
OBVIOUS

LEMMA FieldsSet ==
  ASSUME NEW s \in SbType, NEW fields \in [Ends -> BOOLEAN], NEW r,
         r = [s EXCEPT !.waiting = fields]
  PROVE  /\ r \in SbType /\ r.waiting = fields /\ SameRing(s, r)
         /\ r.xTriggerLevelBytes = s.xTriggerLevelBytes
BY DEF SbType, SameRing

LEMMA Registers ==
  ASSUME StreamIInv, NEW side \in Ends, Register(side)
  PROVE  /\ sb' \in SbType /\ SameRing(sb, sb') /\ sb'.xTriggerLevelBytes = sb.xTriggerLevelBytes
         /\ sb'.waiting[side]
         /\ pc' \in [Ends -> States] /\ pc'[side] = "wait"
         /\ ucNotifyState' \in [Ends -> NotifyStates]
         /\ \A u \in Ends : u # side => /\ pc'[u] = pc[u] /\ ucNotifyState'[u] = ucNotifyState[u]
                                        /\ sb'.waiting[u] = sb.waiting[u]
<1>1. /\ sb \in SbType /\ pc \in [Ends -> States] /\ ucNotifyState \in [Ends -> NotifyStates]
  BY Typed
<1>2. /\ pc' \in [Ends -> States] /\ pc'[side] = "wait"
      /\ \A u \in Ends : u # side => pc'[u] = pc[u]
  <2>1. "wait" \in States
    BY DEF States
  <2> QED BY <1>1, <2>1, PlaceInCall DEF Register
<1>3. /\ ucNotifyState' \in [Ends -> NotifyStates]
      /\ \A u \in Ends : u # side => ucNotifyState'[u] = ucNotifyState[u]
  BY <1>1 DEF Register, NotifyStates
<1> DEFINE fields == [sb.waiting EXCEPT ![side] = TRUE]
<1>4. sb' = [sb EXCEPT !.waiting = fields]
  BY DEF Register
<1>5. fields \in [Ends -> BOOLEAN] /\ fields[side] /\ \A u \in Ends : u # side => fields[u] = sb.waiting[u]
  BY <1>1 DEF SbType
<1> HIDE DEF fields
<1>6. /\ sb' \in SbType /\ SameRing(sb, sb') /\ sb'.xTriggerLevelBytes = sb.xTriggerLevelBytes
      /\ sb'.waiting = fields
  BY <1>1, <1>4, <1>5, FieldsSet
<1> QED BY <1>2, <1>3, <1>5, <1>6

\* The types after a step.
LEMMA TypedThen ==
  ASSUME sb' \in SbType, pc' \in [Ends -> States], sending' \in SendType,
         receiving' \in ReceiveType, ucNotifyState' \in [Ends -> NotifyStates], sent' \in Nat
  PROVE  StreamTypeOK'
BY DEF StreamTypeOK, SendType, ReceiveType, NotifyStates, SbType, States, Ends, Blocks

LEMMA NothingSent == NotSending \in SendType /\ NotReceiving \in ReceiveType
BY DEF NotSending, NotReceiving, SendType, ReceiveType, Blocks

LEMMA CheckSpaceKeeps ==
  ASSUME StreamIInv, NEW call \in SendType, pc["writer"] \in {"app", "check"}, CheckSpace(call)
  PROVE  StreamIInv'
<1>0. "writer" \in Ends /\ "reader" \in Ends /\ "writer" # "reader" /\ "copy" \in States
  BY DEF Ends, States
<1>1. /\ sb \in SbType /\ pc \in [Ends -> States] /\ ucNotifyState \in [Ends -> NotifyStates]
      /\ Room(sb) \in Nat /\ receiving \in ReceiveType /\ sent \in Nat /\ SpacesAvailable = Room(sb)
  BY Typed
<1>2. sending' = [call EXCEPT !.xSpace = Room(sb)]
  BY <1>1 DEF CheckSpace
<1>3. sending' \in SendType /\ sending'.length = call.length /\ sending'.xSpace = Room(sb)
  BY <1>1, <1>2 DEF SendType
<1>4. receiving' = receiving /\ sent' = sent
  BY DEF CheckSpace
<1>5. CASE Room(sb) < RequiredSpace(call.length)
  <2>1. Register("writer")
    BY <1>1, <1>5 DEF CheckSpace
  <2>2. /\ sb' \in SbType /\ SameRing(sb, sb') /\ sb'.xTriggerLevelBytes = sb.xTriggerLevelBytes
        /\ sb'.waiting["writer"]
        /\ pc' \in [Ends -> States] /\ pc'["writer"] = "wait"
        /\ ucNotifyState' \in [Ends -> NotifyStates]
        /\ pc'["reader"] = pc["reader"] /\ ucNotifyState'["reader"] = ucNotifyState["reader"]
        /\ sb'.waiting["reader"] = sb.waiting["reader"]
    BY <1>0, <2>1, Registers
  <2>3. RequiredSpace(sending.length)' = RequiredSpace(call.length)
    BY <1>3, <2>2 DEF SameRing, RequiredSpace, HeaderLength
  <2>4. StreamTypeOK'
    BY <1>1, <1>3, <1>4, <2>2, TypedThen
  <2>5. sending'.xSpace <= Room(sb)
    BY <1>1, <1>3
  <2> QED BY <1>4, <1>5, <2>2, <2>3, <2>4, <2>5, WriterMoves
<1>6. CASE ~(Room(sb) < RequiredSpace(call.length))
  <2>1. pc' = [pc EXCEPT !["writer"] = "copy"] /\ UNCHANGED <<sb, ucNotifyState>>
    BY <1>1, <1>6 DEF CheckSpace
  <2>2. pc' \in [Ends -> States] /\ pc'["writer"] = "copy" /\ pc'["reader"] = pc["reader"]
    BY <1>0, <1>1, <2>1, PlaceInCall
  <2>3. StreamTypeOK'
    BY <1>1, <1>3, <1>4, <2>1, <2>2, TypedThen
  <2>4. sending'.xSpace <= Room(sb)
    BY <1>1, <1>3
  <2>5. ~Waits("writer")'
    BY <2>2 DEF Waits
  <2> QED BY <1>4, <2>1, <2>2, <2>3, <2>4, <2>5, WriterMoves DEF SameRing
<1> QED BY <1>5, <1>6

\* The writer goes on to another place in its call, or out of it, and leaves the
\* buffer alone but for its own field.
LEMMA WriterGoesOn ==
  ASSUME StreamIInv, NEW x \in States \ {"commit", "wait", "blocked", "trigger"},
         pc' = [pc EXCEPT !["writer"] = x],
         sb' = sb \/ sb' = [sb EXCEPT !.waiting["writer"] = FALSE],
         sending' \in SendType, x \notin {"app", "notify"} => sending'.xSpace <= Room(sb),
         receiving' = receiving, ucNotifyState' \in [Ends -> NotifyStates],
         ucNotifyState'["reader"] = ucNotifyState["reader"], sent' = sent,
         \/ x = "notify" \/ pc["writer"] \notin {"trigger", "notify"}
         \/ InBuffer(sb) < sb.xTriggerLevelBytes
  PROVE  StreamIInv'
<1>0. "writer" \in Ends /\ "reader" \in Ends /\ "writer" # "reader"
  BY DEF Ends
<1>1. /\ sb \in SbType /\ pc \in [Ends -> States] /\ receiving \in ReceiveType /\ sent \in Nat
  BY Typed
<1>2. pc' \in [Ends -> States] /\ pc'["writer"] = x /\ pc'["reader"] = pc["reader"]
  BY <1>0, <1>1, PlaceInCall
<1>3. /\ sb' \in SbType /\ SameRing(sb, sb') /\ sb'.xTriggerLevelBytes = sb.xTriggerLevelBytes
      /\ sb'.waiting["reader"] = sb.waiting["reader"]
  <2>1. CASE sb' = sb
    BY <1>1, <2>1 DEF SameRing
  <2>2. CASE sb' = [sb EXCEPT !.waiting["writer"] = FALSE]
    <3> DEFINE fields == [sb.waiting EXCEPT !["writer"] = FALSE]
    <3>1. sb' = [sb EXCEPT !.waiting = fields]
      BY <2>2
    <3>2. fields \in [Ends -> BOOLEAN] /\ fields["reader"] = sb.waiting["reader"]
      BY <1>0, <1>1 DEF SbType
    <3> HIDE DEF fields
    <3> QED BY <1>1, <3>1, <3>2, FieldsSet
  <2> QED BY <2>1, <2>2
<1>4. StreamTypeOK'
  BY <1>1, <1>2, <1>3, TypedThen
<1>5. ~Waits("writer")'
  BY <1>2 DEF Waits
<1> QED BY <1>2, <1>3, <1>4, <1>5, WriterMoves

LEMMA SendKeeps == StreamIInv /\ xStreamBufferSend => StreamIInv'
<1> SUFFICES ASSUME StreamIInv, xStreamBufferSend
             PROVE  StreamIInv'
  OBVIOUS
<1>1. /\ pc["writer"] = "app" /\ Room(sb) \in Nat /\ ucNotifyState \in [Ends -> NotifyStates]
  BY Typed DEF xStreamBufferSend
<1>2. PICK n \in SendLengths, block \in Blocks :
        LET call == [NotSending EXCEPT !.length = n, !.block = block]
        IN IF block # "no" /\ Fits(n) THEN CheckSpace(call)
           ELSE /\ pc' = [pc EXCEPT !["writer"] = "space"]
                /\ sending' = call
                /\ UNCHANGED <<sb, receiving, ucNotifyState, queued, sent>>
  BY DEF xStreamBufferSend, Blocks
<1> DEFINE call == [NotSending EXCEPT !.length = n, !.block = block]
<1>3. call \in SendType /\ call.xSpace = 0
  <2>1. n \in Nat
    BY Assumed
  <2> QED BY <2>1 DEF NotSending, SendType
<1>4. CASE block # "no" /\ Fits(n)
  <2>1. CheckSpace(call)
    BY <1>2, <1>4
  <2> HIDE DEF call
  <2> QED BY <1>1, <1>3, <2>1, CheckSpaceKeeps
<1>5. CASE ~(block # "no" /\ Fits(n))
  <2>1. /\ pc' = [pc EXCEPT !["writer"] = "space"] /\ sending' = call
        /\ UNCHANGED <<sb, receiving, ucNotifyState, queued, sent>>
    BY <1>2, <1>5
  <2> HIDE DEF call
  <2>2. "space" \in States \ {"commit", "wait", "blocked", "trigger"}
    BY DEF States
  <2>3. sending'.xSpace <= Room(sb)
    BY <1>1, <1>3, <2>1
  <2> QED BY <1>1, <1>3, <2>1, <2>2, <2>3, WriterGoesOn
<1> QED BY <1>4, <1>5

LEMMA SendAgainKeeps == StreamIInv /\ SendAgain => StreamIInv'
BY Typed, CheckSpaceKeeps DEF SendAgain

LEMMA SendWaitedKeeps == StreamIInv /\ SendWaited => StreamIInv'
<1> SUFFICES ASSUME StreamIInv, SendWaited
             PROVE  StreamIInv'
  OBVIOUS
<1>1. /\ pc["writer"] = "waited" /\ sending \in SendType /\ ucNotifyState \in [Ends -> NotifyStates]
      /\ sb' = [sb EXCEPT !.waiting["writer"] = FALSE]
      /\ UNCHANGED <<sending, receiving, ucNotifyState, queued, sent>>
  BY Typed DEF SendWaited
<1>2. PICK x \in {"check", "space", "copy"} : pc' = [pc EXCEPT !["writer"] = x]
  BY DEF SendWaited
<1>3. x \in States \ {"commit", "wait", "blocked", "trigger"}
  BY DEF States
<1>4. sending'.xSpace <= Room(sb)
  BY <1>1 DEF StreamIInv, WriterOK
<1> QED BY <1>1, <1>2, <1>3, <1>4, WriterGoesOn

LEMMA SendSpaceKeeps == StreamIInv /\ SendSpace => StreamIInv'
<1> SUFFICES ASSUME StreamIInv, SendSpace
             PROVE  StreamIInv'
  OBVIOUS
<1>1. /\ pc["writer"] = "space" /\ sending \in SendType /\ ucNotifyState \in [Ends -> NotifyStates]
      /\ Room(sb) \in Nat /\ sending' = [sending EXCEPT !.xSpace = Room(sb)]
      /\ pc' = [pc EXCEPT !["writer"] = "copy"]
      /\ UNCHANGED <<sb, receiving, ucNotifyState, queued, sent>>
  BY Typed DEF SendSpace
<1>2. sending' \in SendType /\ sending'.xSpace <= Room(sb)
  BY <1>1 DEF SendType
<1>3. "copy" \in States \ {"commit", "wait", "blocked", "trigger"}
  BY DEF States
<1> QED BY <1>1, <1>2, <1>3, WriterGoesOn

\* A call of the writer ends.
LEMMA SendReturnsKeeps ==
  ASSUME StreamIInv, SendReturns(sb),
         \/ pc["writer"] \notin {"trigger", "notify"} \/ InBuffer(sb) < sb.xTriggerLevelBytes
  PROVE  StreamIInv'
<1>1. /\ sending' = NotSending /\ pc' = [pc EXCEPT !["writer"] = "app"]
      /\ UNCHANGED <<sb, receiving, ucNotifyState, queued, sent>>
  BY DEF SendReturns
<1>2. sending' \in SendType /\ ucNotifyState \in [Ends -> NotifyStates]
  BY <1>1, NothingSent, Typed
<1>3. "app" \in States \ {"commit", "wait", "blocked", "trigger"}
  BY DEF States
<1> QED BY <1>1, <1>2, <1>3, WriterGoesOn

\* The bytes are written beyond those in use: to the reader nothing changed.
LEMMA SendCopyKeeps == StreamIInv /\ SendCopy => StreamIInv'
<1> SUFFICES ASSUME StreamIInv, SendCopy
             PROVE  StreamIInv'
  OBVIOUS
<1>0. "writer" \in Ends /\ "reader" \in Ends /\ "writer" # "reader" /\ "commit" \in States
  BY DEF Ends, States
<1>1. /\ pc["writer"] = "copy" /\ sb \in SbType /\ StreamTypeOK /\ pc \in [Ends -> States]
      /\ sending \in SendType /\ sent \in Nat /\ receiving \in ReceiveType
      /\ ucNotifyState \in [Ends -> NotifyStates] /\ InBuffer(sb) \in Nat /\ Room(sb) \in Nat
  BY Typed DEF SendCopy
<1>2. CASE Sending = 0
  BY <1>1, <1>2, SendReturnsKeeps DEF SendCopy
<1>3. CASE Sending # 0
  <2> DEFINE n == Sending
  <2>1. /\ sb' = Filled(sb, n) /\ pc' = [pc EXCEPT !["writer"] = "commit"]
        /\ UNCHANGED <<sending, receiving, ucNotifyState, queued, sent>>
    BY <1>3 DEF SendCopy
  <2>2. n \in Nat \ {0} /\ n + Header(sb) <= Room(sb)
    <3>1. sending.xSpace <= Room(sb) /\ sending.length \in Nat /\ sending.xSpace \in Nat
      BY <1>1 DEF StreamIInv, WriterOK, SendType
    <3> QED BY <1>1, <1>3, <3>1, SendingFits DEF Sending
  <2>3. Sending' = Sending
    <3>1. sb'.isMessageBuffer = sb.isMessageBuffer
      BY <1>1, <2>1, <2>2, FilledRing
    <3> QED BY <2>1, <3>1 DEF Sending, Written, RequiredSpace, HeaderLength
  <2> HIDE DEF n
  <2>4. /\ sb' \in SbType /\ InBuffer(sb') = InBuffer(sb) /\ Room(sb') = Room(sb)
        /\ sb'.isMessageBuffer = sb.isMessageBuffer /\ sb'.waiting = sb.waiting
        /\ sb'.xTriggerLevelBytes = sb.xTriggerLevelBytes
        /\ \A o \in 0 .. InBuffer(sb) - 1 : ByteAt(sb', o) = ByteAt(sb, o)
        /\ sb'.isMessageBuffer => sb'.pucBuffer[sb'.xHead] = n
    BY <1>1, <2>1, <2>2, FilledRing
  <2>5. pc' \in [Ends -> States] /\ pc'["writer"] = "commit" /\ pc'["reader"] = pc["reader"]
    BY <1>0, <1>1, <2>1, PlaceInCall
  <2>6. StreamTypeOK'
    BY <1>1, <2>1, <2>4, <2>5, TypedThen
  <2>7. WholeMessages(sb)'
    <3>1. WholeMessages(sb')
      BY <1>1, <2>4, WholeFilled DEF StreamIInv
    <3> QED BY <3>1 DEF WholeMessages, Tiles, InBuffer, Header, ByteAt, Place
  <2>8. InBuffer(sb)' = InBuffer(sb') /\ Room(sb)' = Room(sb')
    BY DEF Room, InBuffer
  <2>9. WriterOK'
    <3>1. sending'.xSpace <= Room(sb)'
      BY <1>1, <2>1, <2>4, <2>8 DEF StreamIInv, WriterOK
    <3>2. Sending' = n /\ n > 0
      BY <2>2, <2>3 DEF n
    <3> QED BY <2>4, <3>1, <3>2 DEF WriterOK
  <2>10. ReaderOK'
    <3>1. InBuffer(sb) > 0 => ByteAt(sb', 0) = ByteAt(sb, 0)
      BY <1>1, <2>4
    <3>2. InBuffer(sb') >= InBuffer(sb)
      BY <1>1, <2>4
    <3> QED BY <1>1, <2>1, <2>4, <2>5, <3>1, <3>2, ReaderKept DEF StreamIInv
  <2>11. (Waits("reader")' <=> Waits("reader")) /\ ~Waits("writer")'
    BY <2>1, <2>5 DEF Waits
  <2>12. Registered'
    BY <2>4, <2>11 DEF StreamIInv, Registered, Ends
  <2>13. WaitsInVain'
    BY <1>1, <2>4, <2>8, <2>11 DEF StreamIInv, WaitsInVain
  <2> QED BY <2>6, <2>7, <2>9, <2>10, <2>12, <2>13 DEF StreamIInv
<1> QED BY <1>2, <1>3

\* xHead moves on: what a reader has counted is still there, and one that waits is
\* looked at next.
LEMMA SendCommitKeeps == StreamIInv /\ SendCommit => StreamIInv'
<1> SUFFICES ASSUME StreamIInv, SendCommit
             PROVE  StreamIInv'
  OBVIOUS
<1>0. "writer" \in Ends /\ "reader" \in Ends /\ "writer" # "reader" /\ "trigger" \in States
  BY DEF Ends, States
<1> DEFINE n == Sending
<1>1. /\ pc["writer"] = "commit" /\ sb \in SbType /\ StreamTypeOK /\ pc \in [Ends -> States]
      /\ sending \in SendType /\ sent \in Nat /\ receiving \in ReceiveType
      /\ ucNotifyState \in [Ends -> NotifyStates] /\ InBuffer(sb) \in Nat /\ Room(sb) \in Nat
      /\ Header(sb) \in Nat
  BY Typed DEF SendCommit
<1>2. /\ sb' = Sent(sb, n) /\ pc' = [pc EXCEPT !["writer"] = "trigger"]
      /\ sent' = (sent + n) % Bytes /\ UNCHANGED <<sending, receiving, ucNotifyState>>
  BY DEF SendCommit, AsSent
<1>3. n \in Nat \ {0} /\ n + Header(sb) <= Room(sb) /\ (sb.isMessageBuffer => sb.pucBuffer[sb.xHead] = n)
  <2>1. sending.xSpace <= Room(sb) /\ sending.length \in Nat /\ sending.xSpace \in Nat /\ n > 0
    BY <1>1 DEF StreamIInv, WriterOK, SendType
  <2>2. sb.isMessageBuffer => sb.pucBuffer[sb.xHead] = n
    BY <1>1 DEF StreamIInv, WriterOK
  <2> QED BY <1>1, <2>1, <2>2, SendingFits DEF Sending
<1> HIDE DEF n
<1>4. /\ sb' \in SbType /\ WholeMessages(sb')
      /\ InBuffer(sb') = InBuffer(sb) + (n + Header(sb))
      /\ sb'.isMessageBuffer = sb.isMessageBuffer /\ sb'.waiting = sb.waiting
      /\ sb'.xTriggerLevelBytes = sb.xTriggerLevelBytes
      /\ \A o : ByteAt(sb', o) = ByteAt(sb, o)
  BY <1>1, <1>2, <1>3, SentMoves DEF StreamIInv
<1>5. pc' \in [Ends -> States] /\ pc'["writer"] = "trigger" /\ pc'["reader"] = pc["reader"]
  BY <1>0, <1>1, <1>2, PlaceInCall
<1>6. StreamTypeOK'
  <2>1. sent' \in Nat
    <3>1. sent + n \in Nat /\ Bytes \in Nat \ {0}
      BY <1>1, <1>3, Assumed
    <3> QED BY <1>2, <3>1
  <2> QED BY <1>1, <1>2, <1>4, <1>5, <2>1, TypedThen
<1>7. WholeMessages(sb)'
  BY <1>4 DEF WholeMessages, Tiles, InBuffer, Header, ByteAt, Place
<1>8. WriterOK'
  BY <1>5 DEF WriterOK
<1>9. ReaderOK'
  <2>1. InBuffer(sb') >= InBuffer(sb)
    BY <1>1, <1>3, <1>4
  <2> QED BY <1>1, <1>2, <1>4, <1>5, <2>1, ReaderKept DEF StreamIInv
<1>10. (Waits("reader")' <=> Waits("reader")) /\ ~Waits("writer")'
  BY <1>2, <1>5 DEF Waits
<1>11. Registered'
  BY <1>4, <1>10 DEF StreamIInv, Registered, Ends
<1>12. WaitsInVain'
  BY <1>5, <1>10 DEF WaitsInVain
<1> QED BY <1>6, <1>7, <1>8, <1>9, <1>11, <1>12 DEF StreamIInv

LEMMA SendTriggerKeeps == StreamIInv /\ SendTrigger => StreamIInv'
<1> SUFFICES ASSUME StreamIInv, SendTrigger
             PROVE  StreamIInv'
  OBVIOUS
<1>1. /\ pc["writer"] = "trigger" /\ sb \in SbType /\ sending \in SendType
      /\ ucNotifyState \in [Ends -> NotifyStates] /\ InBuffer(sb) \in Nat
      /\ BytesInBuffer(sb) = InBuffer(sb) /\ sb.xTriggerLevelBytes \in Nat
  BY Typed DEF SendTrigger, SbType
<1>2. CASE Triggered(sb)
  <2>1. /\ pc' = [pc EXCEPT !["writer"] = "notify"]
        /\ UNCHANGED <<sb, sending, receiving, ucNotifyState, queued, sent>>
    BY <1>2 DEF SendTrigger
  <2>2. "notify" \in States \ {"commit", "wait", "blocked", "trigger"}
    BY DEF States
  <2> QED BY <1>1, <2>1, <2>2, WriterGoesOn
<1>3. CASE ~Triggered(sb)
  <2>1. InBuffer(sb) < sb.xTriggerLevelBytes
    BY <1>1, <1>3 DEF Triggered
  <2>2. SendReturns(sb)
    BY <1>3 DEF SendTrigger
  <2> QED BY <2>1, <2>2, SendReturnsKeeps
<1> QED BY <1>2, <1>3

\* The waits of the writer.
LEMMA WriterWaits ==
  ASSUME StreamIInv, NotifyWait("writer") \/ NotifyWaited("writer") \/ NotifyTimeOut("writer")
  PROVE  StreamIInv'
<1>0. /\ "writer" \in Ends /\ "reader" \in Ends /\ "writer" # "reader" /\ "blocked" \in States
      /\ {"woken", "waited"} \subseteq States \ {"commit", "wait", "blocked", "trigger"}
  BY DEF Ends, States
<1>1. /\ sb \in SbType /\ pc \in [Ends -> States] /\ sending \in SendType /\ sent \in Nat
      /\ receiving \in ReceiveType /\ ucNotifyState \in [Ends -> NotifyStates]
  BY Typed
<1>2. /\ sb' = sb /\ receiving' = receiving /\ sent' = sent
      /\ pc["writer"] \in {"wait", "woken", "blocked"}
      /\ sending' \in SendType /\ sending'.xSpace = sending.xSpace
      /\ sending'.length = sending.length
  <2>1. /\ sb' = sb /\ receiving' = receiving /\ sent' = sent
        /\ pc["writer"] \in {"wait", "woken", "blocked"}
        /\ sending' = sending \/ sending' = [sending EXCEPT !.over = TRUE]
    BY DEF NotifyWait, NotifyWaited, NotifyTimeOut
  <2>2. CASE sending' = sending
    BY <1>1, <2>1, <2>2
  <2>3. CASE sending' = [sending EXCEPT !.over = TRUE]
    BY <1>1, <2>1, <2>3 DEF SendType
  <2> QED BY <2>1, <2>2, <2>3
<1>3. sending'.xSpace <= Room(sb)
  BY <1>2 DEF StreamIInv, WriterOK
<1>4. /\ ucNotifyState' \in [Ends -> NotifyStates]
      /\ ucNotifyState'["reader"] = ucNotifyState["reader"]
  BY <1>0, <1>1 DEF NotifyWait, NotifyWaited, NotifyTimeOut, NotifyStates
<1>5. CASE \E x \in {"woken", "waited"} : pc' = [pc EXCEPT !["writer"] = x]
  BY <1>0, <1>2, <1>3, <1>4, <1>5, WriterGoesOn
<1>6. CASE ~ \E x \in {"woken", "waited"} : pc' = [pc EXCEPT !["writer"] = x]
  <2>1. /\ pc["writer"] = "wait" /\ ucNotifyState["writer"] # "received" /\ sending' = sending
        /\ pc' = [pc EXCEPT !["writer"] = "blocked"]
    BY <1>6 DEF NotifyWait, NotifyWaited, NotifyTimeOut
  <2>2. pc' \in [Ends -> States] /\ pc'["writer"] = "blocked" /\ pc'["reader"] = pc["reader"]
    BY <1>0, <1>1, <2>1, PlaceInCall
  <2>3. StreamTypeOK'
    BY <1>1, <1>2, <1>4, <2>2, TypedThen
  <2>4. Waits("writer")
    BY <2>1 DEF Waits
  <2>5. sb.waiting["writer"] /\ (pc["reader"] # "notify" => Room(sb) < RequiredSpace(sending.length))
    BY <1>0, <2>4 DEF StreamIInv, Registered, WaitsInVain
  <2>6. RequiredSpace(sending.length)' = RequiredSpace(sending.length)
    BY <1>2, <2>1 DEF RequiredSpace, HeaderLength
  <2> QED BY <1>2, <1>3, <1>4, <2>1, <2>2, <2>3, <2>5, <2>6, WriterMoves DEF SameRing
<1> QED BY <1>5, <1>6

\* The reader goes on to another place in its call, and leaves the buffer alone but
\* for its own field.
LEMMA ReaderGoesOn ==
  ASSUME StreamIInv, NEW x \in States \ {"wait", "blocked"},
         pc' = [pc EXCEPT !["reader"] = x],
         sb' = sb \/ sb' = [sb EXCEPT !.waiting["reader"] = FALSE],
         receiving' \in ReceiveType, sending' = sending,
         ucNotifyState' \in [Ends -> NotifyStates],
         ucNotifyState'["writer"] = ucNotifyState["writer"], sent' = sent,
         x = "copy" =>
           /\ Header(sb) < receiving'.xBytesAvailable /\ receiving'.xBytesAvailable <= InBuffer(sb)
           /\ sb.isMessageBuffer => Header(sb) + ByteAt(sb, 0) <= receiving'.xBytesAvailable,
         x = "commit" =>
           /\ Len(receiving'.data) > 0 /\ Len(receiving'.data) + Header(sb) <= InBuffer(sb)
           /\ sb.isMessageBuffer => Len(receiving'.data) = ByteAt(sb, 0),
         pc["reader"] # "notify"
  PROVE  StreamIInv'
<1>0. "writer" \in Ends /\ "reader" \in Ends /\ "writer" # "reader"
  BY DEF Ends
<1>1. /\ sb \in SbType /\ pc \in [Ends -> States] /\ sending \in SendType /\ sent \in Nat
  BY Typed
<1>2. pc' \in [Ends -> States] /\ pc'["reader"] = x /\ pc'["writer"] = pc["writer"]
  BY <1>0, <1>1, PlaceInCall
<1>3. /\ sb' \in SbType /\ SameRing(sb, sb') /\ sb'.xTriggerLevelBytes = sb.xTriggerLevelBytes
      /\ sb'.waiting["writer"] = sb.waiting["writer"]
  <2>1. CASE sb' = sb
    BY <1>1, <2>1 DEF SameRing
  <2>2. CASE sb' = [sb EXCEPT !.waiting["reader"] = FALSE]
    <3> DEFINE fields == [sb.waiting EXCEPT !["reader"] = FALSE]
    <3>1. sb' = [sb EXCEPT !.waiting = fields]
      BY <2>2
    <3>2. fields \in [Ends -> BOOLEAN] /\ fields["writer"] = sb.waiting["writer"]
      BY <1>0, <1>1 DEF SbType
    <3> HIDE DEF fields
    <3> QED BY <1>1, <3>1, <3>2, FieldsSet
  <2> QED BY <2>1, <2>2
<1>4. StreamTypeOK'
  BY <1>1, <1>2, <1>3, TypedThen
<1>5. ~Waits("reader")'
  BY <1>2 DEF Waits
<1> QED BY <1>2, <1>3, <1>4, <1>5, ReaderMoves

\* What a reader that found more than the length of a message takes knows: there is
\* a whole message.
LEMMA FoundBytes ==
  ASSUME StreamIInv, Header(sb) < InBuffer(sb)
  PROVE  sb.isMessageBuffer => Header(sb) + ByteAt(sb, 0) <= InBuffer(sb)
<1>1. sb \in SbType /\ Header(sb) \in Nat /\ InBuffer(sb) \in Nat
  BY Typed
<1>2. InBuffer(sb) > 0
  BY <1>1
<1> QED BY <1>1, <1>2, FirstMessage DEF StreamIInv

LEMMA FoundKeeps ==
  ASSUME StreamIInv, NEW call \in ReceiveType, call.xBytesAvailable = InBuffer(sb),
         pc["reader"] \in {"app", "waited"}, Found(call),
         sb' = sb \/ sb' = [sb EXCEPT !.waiting["reader"] = FALSE],
         UNCHANGED <<sending, ucNotifyState, sent>>
  PROVE  StreamIInv'
<1>1. /\ HeaderLength = Header(sb) /\ Header(sb) \in Nat /\ InBuffer(sb) \in Nat
      /\ ucNotifyState \in [Ends -> NotifyStates]
  BY Typed
<1>2. {"copy", "app"} \subseteq States \ {"wait", "blocked"}
  BY DEF States
<1>3. CASE call.xBytesAvailable > HeaderLength
  <2>1. receiving' = call /\ pc' = [pc EXCEPT !["reader"] = "copy"]
    BY <1>3 DEF Found
  <2>2. Header(sb) < InBuffer(sb)
    BY <1>1, <1>3
  <2>3. sb.isMessageBuffer => Header(sb) + ByteAt(sb, 0) <= InBuffer(sb)
    BY <2>2, FoundBytes
  <2>4. receiving'.xBytesAvailable = InBuffer(sb) /\ receiving'.xBytesAvailable <= InBuffer(sb)
    BY <1>1, <2>1
  <2> QED BY <1>1, <1>2, <2>1, <2>2, <2>3, <2>4, ReaderGoesOn
<1>4. CASE ~(call.xBytesAvailable > HeaderLength)
  <2>1. receiving' = NotReceiving /\ pc' = [pc EXCEPT !["reader"] = "app"]
    BY <1>4 DEF Found
  <2> QED BY <1>1, <1>2, <2>1, NothingSent, ReaderGoesOn
<1> QED BY <1>3, <1>4

LEMMA ReceiveKeeps == StreamIInv /\ xStreamBufferReceive => StreamIInv'
<1> SUFFICES ASSUME StreamIInv, xStreamBufferReceive
             PROVE  StreamIInv'
  OBVIOUS
<1>0. "writer" \in Ends /\ "reader" \in Ends /\ "writer" # "reader"
  BY DEF Ends
<1>1. /\ pc["reader"] = "app" /\ sb \in SbType /\ ucNotifyState \in [Ends -> NotifyStates]
      /\ BytesInBuffer(sb) = InBuffer(sb) /\ HeaderLength = Header(sb) /\ Header(sb) \in Nat
      /\ InBuffer(sb) \in Nat /\ sending \in SendType /\ sent \in Nat
      /\ UNCHANGED <<sending, queued, sent>>
  BY Typed DEF xStreamBufferReceive
<1>2. PICK n \in ReceiveLengths, block \in Blocks :
        LET call == [NotReceiving EXCEPT !.length = n, !.block = block,
                                         !.xBytesAvailable = BytesInBuffer(sb)]
        IN IF block # "no" /\ BytesInBuffer(sb) <= HeaderLength
             THEN Register("reader") /\ receiving' = call
             ELSE Found(call) /\ UNCHANGED <<sb, ucNotifyState>>
  BY DEF xStreamBufferReceive, Blocks
<1> DEFINE call == [NotReceiving EXCEPT !.length = n, !.block = block,
                                        !.xBytesAvailable = BytesInBuffer(sb)]
<1>3. call \in ReceiveType /\ call.xBytesAvailable = InBuffer(sb)
  <2>1. n \in Nat
    BY Assumed
  <2> QED BY <1>1, <2>1, NothingSent DEF ReceiveType
<1>4. CASE block # "no" /\ BytesInBuffer(sb) <= HeaderLength
  <2>1. Register("reader") /\ receiving' = call
    BY <1>2, <1>4
  <2> HIDE DEF call
  <2>2. /\ sb' \in SbType /\ SameRing(sb, sb') /\ sb'.xTriggerLevelBytes = sb.xTriggerLevelBytes
        /\ sb'.waiting["reader"]
        /\ pc' \in [Ends -> States] /\ pc'["reader"] = "wait"
        /\ ucNotifyState' \in [Ends -> NotifyStates]
        /\ pc'["writer"] = pc["writer"] /\ ucNotifyState'["writer"] = ucNotifyState["writer"]
        /\ sb'.waiting["writer"] = sb.waiting["writer"]
    BY <1>0, <2>1, Registers
  <2>3. StreamTypeOK'
    BY <1>1, <1>3, <2>1, <2>2, TypedThen
  <2>4. InBuffer(sb) < sb.xTriggerLevelBytes
    <3>1. InBuffer(sb) = 0
      BY <1>1, <1>4, NothingThere DEF StreamIInv
    <3>2. sb.xTriggerLevelBytes \in Nat \ {0}
      BY <1>1 DEF SbType
    <3> QED BY <3>1, <3>2
  <2> QED BY <1>1, <2>1, <2>2, <2>3, <2>4, ReaderMoves
<1>5. CASE ~(block # "no" /\ BytesInBuffer(sb) <= HeaderLength)
  <2>1. Found(call) /\ UNCHANGED <<sb, ucNotifyState>>
    BY <1>2, <1>5
  <2> HIDE DEF call
  <2> QED BY <1>1, <1>3, <2>1, FoundKeeps
<1> QED BY <1>4, <1>5

LEMMA ReceiveWaitedKeeps == StreamIInv /\ ReceiveWaited => StreamIInv'
<1> SUFFICES ASSUME StreamIInv, ReceiveWaited
             PROVE  StreamIInv'
  OBVIOUS
<1> DEFINE call == [receiving EXCEPT !.xBytesAvailable = BytesInBuffer(sb)]
<1>1. /\ receiving \in ReceiveType /\ BytesInBuffer(sb) = InBuffer(sb) /\ InBuffer(sb) \in Nat
  BY Typed
<1>2. call \in ReceiveType /\ call.xBytesAvailable = InBuffer(sb)
  BY <1>1 DEF ReceiveType
<1>3. /\ pc["reader"] = "waited" /\ sb' = [sb EXCEPT !.waiting["reader"] = FALSE]
      /\ Found(call) /\ UNCHANGED <<sending, ucNotifyState, sent>>
  BY DEF ReceiveWaited
<1> HIDE DEF call
<1> QED BY <1>2, <1>3, FoundKeeps

LEMMA ReceiveCopyKeeps == StreamIInv /\ ReceiveCopy => StreamIInv'
<1> SUFFICES ASSUME StreamIInv, ReceiveCopy
             PROVE  StreamIInv'
  OBVIOUS
<1>1. /\ pc["reader"] = "copy" /\ StreamTypeOK /\ receiving \in ReceiveType
      /\ ucNotifyState \in [Ends -> NotifyStates]
      /\ UNCHANGED <<sb, sending, ucNotifyState, queued, sent>>
  BY Typed DEF ReceiveCopy
<1>2. /\ receiving.length \in Nat /\ receiving.xBytesAvailable \in Nat
  BY <1>1 DEF ReceiveType
<1>3. /\ Header(sb) < receiving.xBytesAvailable /\ receiving.xBytesAvailable <= InBuffer(sb)
      /\ sb.isMessageBuffer => Header(sb) + ByteAt(sb, 0) <= receiving.xBytesAvailable
  BY <1>1 DEF StreamIInv, ReaderOK
<1> DEFINE data == Taken(receiving.length, receiving.xBytesAvailable)
<1>4. /\ data \in Seq(Nat)
      /\ data # <<>> => /\ Len(data) > 0 /\ Len(data) + Header(sb) <= InBuffer(sb)
                        /\ sb.isMessageBuffer => Len(data) = ByteAt(sb, 0)
  BY <1>1, <1>2, <1>3, TakenBytes
<1>5. IF data = <<>>
        THEN receiving' = NotReceiving /\ pc' = [pc EXCEPT !["reader"] = "app"]
        ELSE /\ receiving' = [receiving EXCEPT !.data = data]
             /\ pc' = [pc EXCEPT !["reader"] = "commit"]
  BY DEF ReceiveCopy
<1> HIDE DEF data
<1>6. {"commit", "app"} \subseteq States \ {"wait", "blocked"}
  BY DEF States
<1>7. CASE data = <<>>
  BY <1>1, <1>5, <1>6, <1>7, NothingSent, ReaderGoesOn
<1>8. CASE data # <<>>
  <2>1. receiving' \in ReceiveType /\ receiving'.data = data
    BY <1>1, <1>4, <1>5, <1>8 DEF ReceiveType
  <2> QED BY <1>1, <1>4, <1>5, <1>6, <1>8, <2>1, ReaderGoesOn
<1> QED BY <1>7, <1>8

LEMMA ReaderWaits ==
  ASSUME StreamIInv, NotifyWait("reader") \/ NotifyWaited("reader") \/ NotifyTimeOut("reader")
  PROVE  StreamIInv'
<1>0. /\ "writer" \in Ends /\ "reader" \in Ends /\ "writer" # "reader" /\ "blocked" \in States
      /\ {"woken", "waited"} \subseteq States \ {"wait", "blocked"}
  BY DEF Ends, States
<1>1. /\ sb \in SbType /\ pc \in [Ends -> States] /\ sending \in SendType /\ sent \in Nat
      /\ receiving \in ReceiveType /\ ucNotifyState \in [Ends -> NotifyStates]
  BY Typed
<1>2. /\ sb' = sb /\ receiving' = receiving /\ sent' = sent /\ sending' = sending
      /\ pc["reader"] \in {"wait", "woken", "blocked"}
  BY DEF NotifyWait, NotifyWaited, NotifyTimeOut
<1>3. /\ ucNotifyState' \in [Ends -> NotifyStates]
      /\ ucNotifyState'["writer"] = ucNotifyState["writer"]
  BY <1>0, <1>1 DEF NotifyWait, NotifyWaited, NotifyTimeOut, NotifyStates
<1>4. CASE \E x \in {"woken", "waited"} : pc' = [pc EXCEPT !["reader"] = x]
  BY <1>0, <1>1, <1>2, <1>3, <1>4, ReaderGoesOn
<1>5. CASE ~ \E x \in {"woken", "waited"} : pc' = [pc EXCEPT !["reader"] = x]
  <2>1. /\ pc["reader"] = "wait" /\ ucNotifyState["reader"] # "received"
        /\ pc' = [pc EXCEPT !["reader"] = "blocked"]
    BY <1>5 DEF NotifyWait, NotifyWaited, NotifyTimeOut
  <2>2. pc' \in [Ends -> States] /\ pc'["reader"] = "blocked" /\ pc'["writer"] = pc["writer"]
    BY <1>0, <1>1, <2>1, PlaceInCall
  <2>3. StreamTypeOK'
    BY <1>1, <1>2, <1>3, <2>2, TypedThen
  <2>4. Waits("reader")
    BY <2>1 DEF Waits
  <2>5. /\ sb.waiting["reader"]
        /\ pc["writer"] \notin {"trigger", "notify"} => InBuffer(sb) < sb.xTriggerLevelBytes
    BY <1>0, <2>4 DEF StreamIInv, Registered, WaitsInVain
  <2> QED BY <1>2, <1>3, <2>1, <2>2, <2>3, <2>5, ReaderMoves DEF SameRing
<1> QED BY <1>4, <1>5

\* The invariant as it stands after a step.
LEMMA AllKept ==
  ASSUME StreamTypeOK', WholeMessages(sb'), WriterOK', ReaderOK', Registered', WaitsInVain'
  PROVE  StreamIInv'
<1>1. WholeMessages(sb)'
  BY DEF WholeMessages, Tiles, InBuffer, Header, ByteAt, Place
<1> QED BY <1>1 DEF StreamIInv

\* A notification of one side, by the other one or by an interrupt.
LEMMA NotifyKeeps ==
  ASSUME StreamIInv, NEW side \in Ends, NEW pcs \in [Ends -> States], Notify(sb, side, pcs),
         pcs[side] = pc[side], \A u \in Ends : pcs[u] # pc[u] => pcs[u] = "app",
         sending' \in SendType, receiving' = receiving, sent' = sent,
         pcs["writer"] = pc["writer"] => sending' = sending,
         pcs["writer"] # pc["writer"] => side = "reader",
         pcs["reader"] # pc["reader"] => side = "writer"
  PROVE  StreamIInv'
<1>0. "writer" \in Ends /\ "reader" \in Ends /\ "writer" # "reader" /\ Ends = {"writer", "reader"}
  BY DEF Ends
<1>1. /\ sb \in SbType /\ StreamTypeOK /\ receiving \in ReceiveType /\ sent \in Nat
      /\ ucNotifyState \in [Ends -> NotifyStates] /\ InBuffer(sb) \in Nat /\ Room(sb) \in Nat
  BY Typed
<1>2. pcs[side] \in {"wait", "blocked"} /\ ucNotifyState[side] # "received" => sb.waiting[side]
  BY DEF StreamIInv, Registered, Waits
<1>3. /\ sb' \in SbType /\ SameRing(sb, sb') /\ sb'.xTriggerLevelBytes = sb.xTriggerLevelBytes
      /\ pc' \in [Ends -> States]
      /\ ucNotifyState' \in [Ends -> NotifyStates]
      /\ ~Waits(side)'
      /\ pc'[side] = pcs[side] \/ (pcs[side] = "blocked" /\ pc'[side] = "woken")
      /\ \A u \in Ends : u # side => /\ pc'[u] = pcs[u] /\ ucNotifyState'[u] = ucNotifyState[u]
                                     /\ sb'.waiting[u] = sb.waiting[u]
  BY <1>1, <1>2, NotifiedSide DEF NotifyStates
<1>4. StreamTypeOK'
  BY <1>1, <1>3, TypedThen
<1>5. /\ InBuffer(sb') = InBuffer(sb) /\ Room(sb') = Room(sb) /\ ByteAt(sb', 0) = ByteAt(sb, 0)
      /\ WholeMessages(sb')
  BY <1>3, RingKept DEF StreamIInv
<1>6. InBuffer(sb)' = InBuffer(sb') /\ Room(sb)' = Room(sb')
  BY DEF Room, InBuffer
<1>7. WriterOK'
  <2>1. CASE pcs["writer"] = pc["writer"]
    <3>1. pc'["writer"] = pc["writer"] \/ (pc["writer"] = "blocked" /\ pc'["writer"] = "woken")
      BY <1>0, <1>3, <2>1
    <3>2. Room(sb') >= Room(sb)
      BY <1>1, <1>5
    <3> QED BY <1>1, <1>3, <2>1, <3>1, <3>2, WriterKept DEF StreamIInv, SameRing
  <2>2. CASE pcs["writer"] # pc["writer"]
    <3>1. pc'["writer"] = "app"
      BY <1>0, <1>3, <2>2
    <3> QED BY <3>1 DEF WriterOK
  <2> QED BY <2>1, <2>2
<1>8. ReaderOK'
  <2>1. CASE pcs["reader"] = pc["reader"]
    <3>1. pc'["reader"] = pc["reader"] \/ (pc["reader"] = "blocked" /\ pc'["reader"] = "woken")
      BY <1>0, <1>3, <2>1
    <3>2. InBuffer(sb') >= InBuffer(sb)
      BY <1>1, <1>5
    <3> QED BY <1>1, <1>3, <1>5, <3>1, <3>2, ReaderKept DEF StreamIInv, SameRing
  <2>2. CASE pcs["reader"] # pc["reader"]
    <3>1. pc'["reader"] = "app"
      BY <1>0, <1>3, <2>2
    <3> QED BY <3>1 DEF ReaderOK
  <2> QED BY <2>1, <2>2
<1>9. ASSUME NEW u \in Ends, Waits(u)'
      PROVE  /\ u # side /\ pcs[u] = pc[u] /\ Waits(u) /\ sb'.waiting[u] = sb.waiting[u]
  <2>1. u # side
    BY <1>3, <1>9
  <2>2. pc'[u] = pcs[u] /\ ucNotifyState'[u] = ucNotifyState[u] /\ sb'.waiting[u] = sb.waiting[u]
    BY <1>3, <2>1
  <2>3. pcs[u] = pc[u]
    BY <1>9, <2>2 DEF Waits
  <2> QED BY <1>9, <2>1, <2>2, <2>3 DEF Waits
<1>10. Registered'
  <2>1. \A u \in Ends : Waits(u)' => sb'.waiting[u]
    BY <1>9 DEF StreamIInv, Registered
  <2> QED BY <2>1 DEF Registered, Ends
<1>11. WaitsInVain'
  <2>1. ASSUME Waits("reader")', pc'["writer"] \notin {"trigger", "notify"}
        PROVE  InBuffer(sb') < sb'.xTriggerLevelBytes
    <3>1. Waits("reader") /\ side = "writer"
      BY <1>0, <1>9, <2>1
    <3>2. pc["writer"] \notin {"trigger", "notify"}
      BY <1>0, <1>3, <2>1, <3>1
    <3> QED BY <1>3, <1>5, <3>1, <3>2 DEF StreamIInv, WaitsInVain
  <2>2. ASSUME Waits("writer")', pc'["reader"] # "notify"
        PROVE  Room(sb') < RequiredSpace(sending.length)'
    <3>1. Waits("writer") /\ side = "reader" /\ pcs["writer"] = pc["writer"]
      BY <1>0, <1>9, <2>2
    <3>2. pc["reader"] # "notify"
      BY <1>0, <1>3, <2>2, <3>1
    <3>3. RequiredSpace(sending.length)' = RequiredSpace(sending.length)
      BY <1>3, <3>1 DEF SameRing, RequiredSpace, HeaderLength
    <3> QED BY <1>5, <3>1, <3>2, <3>3 DEF StreamIInv, WaitsInVain
  <2> QED BY <1>6, <2>1, <2>2 DEF WaitsInVain
<1> QED BY <1>4, <1>5, <1>7, <1>8, <1>10, <1>11, AllKept

LEMMA SendNotifyKeeps == StreamIInv /\ SendNotify => StreamIInv'
<1> SUFFICES ASSUME StreamIInv, SendNotify
             PROVE  StreamIInv'
  OBVIOUS
<1> DEFINE pcs == [pc EXCEPT !["writer"] = "app"]
<1>0. /\ "writer" \in Ends /\ "reader" \in Ends /\ "writer" # "reader" /\ "app" \in States
      /\ Ends = {"writer", "reader"}
  BY DEF Ends, States
<1>1. /\ pc["writer"] = "notify" /\ Notify(sb, "reader", pcs) /\ sending' = NotSending
      /\ receiving' = receiving /\ sent' = sent /\ pc \in [Ends -> States]
  BY Typed DEF SendNotify
<1>2. pcs \in [Ends -> States] /\ pcs["writer"] = "app" /\ pcs["reader"] = pc["reader"]
  BY <1>0, <1>1
<1> HIDE DEF pcs
<1> QED BY <1>0, <1>1, <1>2, NothingSent, NotifyKeeps

LEMMA ReceiveNotifyKeeps == StreamIInv /\ ReceiveNotify => StreamIInv'
<1> SUFFICES ASSUME StreamIInv, ReceiveNotify
             PROVE  StreamIInv'
  OBVIOUS
<1> DEFINE pcs == [pc EXCEPT !["reader"] = "app"]
<1>0. /\ "writer" \in Ends /\ "reader" \in Ends /\ "writer" # "reader" /\ "app" \in States
      /\ Ends = {"writer", "reader"}
  BY DEF Ends, States
<1>1. /\ Notify(sb, "writer", pcs) /\ sending' = sending /\ sending \in SendType
      /\ receiving' = receiving /\ sent' = sent /\ pc \in [Ends -> States]
  BY Typed DEF ReceiveNotify
<1>2. pcs \in [Ends -> States] /\ pcs["reader"] = "app" /\ pcs["writer"] = pc["writer"]
  BY <1>0, <1>1
<1> HIDE DEF pcs
<1> QED BY <1>0, <1>1, <1>2, NotifyKeeps

LEMMA CompletedKeeps == ASSUME NEW side \in Ends, StreamIInv, CompletedFromISR(side)
                        PROVE  StreamIInv'
<1>1. /\ Notify(sb, side, pc) /\ sending' = sending /\ sending \in SendType
      /\ receiving' = receiving /\ sent' = sent /\ pc \in [Ends -> States]
  BY Typed DEF CompletedFromISR
<1> QED BY <1>1, NotifyKeeps

\* An interrupt sends in the place of the writer: the reader is notified at once.
LEMMA SendFromISRKeeps == StreamIInv /\ xStreamBufferSendFromISR => StreamIInv'
<1> SUFFICES ASSUME StreamIInv, xStreamBufferSendFromISR
             PROVE  StreamIInv'
  OBVIOUS
<1>0. "writer" \in Ends /\ "reader" \in Ends /\ "writer" # "reader" /\ Ends = {"writer", "reader"}
  BY DEF Ends
<1>1. /\ sb \in SbType /\ StreamTypeOK /\ sending \in SendType /\ receiving \in ReceiveType
      /\ sent \in Nat /\ pc \in [Ends -> States] /\ ucNotifyState \in [Ends -> NotifyStates]
      /\ InBuffer(sb) \in Nat /\ Room(sb) \in Nat /\ SpacesAvailable = Room(sb)
  BY Typed
<1>2. pc["writer"] = "app" /\ UNCHANGED <<sending, receiving>>
  BY DEF xStreamBufferSendFromISR
<1>3. PICK length \in SendLengths :
        LET n == Written(length, SpacesAvailable)
            s == Sent(Filled(sb, n), n)
        IN /\ n > 0
           /\ IF Triggered(s) THEN Notify(s, "reader", pc)
              ELSE sb' = s /\ UNCHANGED <<pc, ucNotifyState>>
           /\ AsSent(n)
  BY DEF xStreamBufferSendFromISR
<1> DEFINE n == Written(length, SpacesAvailable)
           s == Sent(Filled(sb, n), n)
<1>4. n \in Nat \ {0} /\ n + Header(sb) <= Room(sb)
  <2>1. length \in Nat /\ Room(sb) <= Room(sb) /\ n > 0
    BY <1>1, <1>3, Assumed
  <2> QED BY <1>1, <2>1, SendingFits
<1>5. /\ IF Triggered(s) THEN Notify(s, "reader", pc) ELSE sb' = s /\ UNCHANGED <<pc, ucNotifyState>>
      /\ sent' = (sent + n) % Bytes
  BY <1>3 DEF AsSent
<1>6. sent' \in Nat
  <2>1. sent + n \in Nat /\ Bytes \in Nat \ {0}
    BY <1>1, <1>4, Assumed
  <2> HIDE DEF n
  <2> QED BY <1>5, <2>1
<1>7. /\ s \in SbType /\ WholeMessages(s) /\ InBuffer(s) >= InBuffer(sb)
      /\ s.isMessageBuffer = sb.isMessageBuffer /\ s.waiting = sb.waiting
      /\ s.xTriggerLevelBytes = sb.xTriggerLevelBytes
      /\ InBuffer(sb) > 0 => ByteAt(s, 0) = ByteAt(sb, 0)
  <2> HIDE DEF n
  <2> QED BY <1>1, <1>4, SentAtOnce DEF StreamIInv
<1> HIDE DEF n, s
<1>8. Waits("reader") => s.waiting["reader"]
  BY <1>0, <1>7 DEF StreamIInv, Registered
\* Whether the reader is notified or not:
<1>9. /\ sb' \in SbType /\ SameRing(s, sb') /\ sb'.xTriggerLevelBytes = s.xTriggerLevelBytes
      /\ pc' \in [Ends -> States] /\ pc'["writer"] = "app"
      /\ pc'["reader"] = pc["reader"] \/ (pc["reader"] = "blocked" /\ pc'["reader"] = "woken")
      /\ ucNotifyState' \in [Ends -> NotifyStates]
      /\ Waits("reader")' => sb'.waiting["reader"] /\ InBuffer(s) < s.xTriggerLevelBytes
  <2>1. CASE Triggered(s)
    <3>1. pc["reader"] \in {"wait", "blocked"} /\ ucNotifyState["reader"] # "received" => s.waiting["reader"]
      BY <1>8 DEF Waits
    <3>2. Notify(s, "reader", pc)
      BY <1>5, <2>1
    <3> QED BY <1>0, <1>1, <1>2, <1>7, <3>1, <3>2, NotifiedSide DEF NotifyStates
  <2>2. CASE ~Triggered(s)
    <3>1. sb' = s /\ UNCHANGED <<pc, ucNotifyState>>
      BY <1>5, <2>2
    <3>2. InBuffer(s) < s.xTriggerLevelBytes
      <4>1. BytesInBuffer(s) = InBuffer(s) /\ InBuffer(s) \in 0 .. xLength - 1 /\ xLength \in Nat
        BY <1>7, Counts, Assumed
      <4>2. s.xTriggerLevelBytes \in Nat
        BY <1>7 DEF SbType
      <4> QED BY <2>2, <4>1, <4>2 DEF Triggered
    <3>3. Waits("reader")' => Waits("reader")
      BY <3>1 DEF Waits
    <3> QED BY <1>1, <1>2, <1>7, <1>8, <3>1, <3>2, <3>3 DEF SameRing
  <2> QED BY <2>1, <2>2
<1>10. /\ InBuffer(sb') = InBuffer(s) /\ ByteAt(sb', 0) = ByteAt(s, 0) /\ WholeMessages(sb')
  BY <1>7, <1>9, RingKept
<1>11. StreamTypeOK'
  BY <1>1, <1>2, <1>6, <1>9, TypedThen
<1>12. WriterOK'
  BY <1>9 DEF WriterOK
<1>13. ReaderOK'
  BY <1>1, <1>2, <1>7, <1>9, <1>10, ReaderKept DEF StreamIInv, SameRing
<1>14. ~Waits("writer")'
  BY <1>9 DEF Waits
<1>15. Registered'
  BY <1>9, <1>14 DEF Registered, Ends
<1>16. WaitsInVain'
  <2>1. InBuffer(sb)' = InBuffer(sb')
    BY DEF InBuffer
  <2> QED BY <1>9, <1>10, <1>14, <2>1 DEF WaitsInVain
<1> QED BY <1>10, <1>11, <1>12, <1>13, <1>15, <1>16, AllKept

\* xTail moves on: what the writer has counted is still free, and one that waits is
\* looked at next.
LEMMA ReceiveCommitKeeps == StreamIInv /\ ReceiveCommit => StreamIInv'
<1> SUFFICES ASSUME StreamIInv, ReceiveCommit
             PROVE  StreamIInv'
  OBVIOUS
<1>0. "writer" \in Ends /\ "reader" \in Ends /\ "writer" # "reader" /\ "notify" \in States
  BY DEF Ends, States
<1> DEFINE n == Len(receiving.data)
<1>1. /\ sb \in SbType /\ StreamTypeOK /\ sending \in SendType /\ receiving \in ReceiveType
      /\ sent \in Nat /\ pc \in [Ends -> States] /\ ucNotifyState \in [Ends -> NotifyStates]
  BY Typed
<1>2. /\ pc["reader"] = "commit" /\ sb' = Received(sb, n) /\ pc' = [pc EXCEPT !["reader"] = "notify"]
      /\ receiving' = NotReceiving /\ UNCHANGED <<sending, ucNotifyState, sent>>
  BY DEF ReceiveCommit
<1>3. n \in Nat \ {0} /\ n + Header(sb) <= InBuffer(sb) /\ (sb.isMessageBuffer => n = ByteAt(sb, 0))
  <2>1. n \in Nat
    BY <1>1 DEF ReceiveType
  <2> QED BY <1>2, <2>1 DEF StreamIInv, ReaderOK
<1> HIDE DEF n
<1>4. /\ sb' \in SbType /\ WholeMessages(sb') /\ Room(sb') >= Room(sb)
      /\ sb'.isMessageBuffer = sb.isMessageBuffer /\ sb'.waiting = sb.waiting
      /\ sb'.pucBuffer = sb.pucBuffer /\ sb'.xHead = sb.xHead
  BY <1>1, <1>2, <1>3, ReceivedMoves DEF StreamIInv
<1>5. pc' \in [Ends -> States] /\ pc'["reader"] = "notify" /\ pc'["writer"] = pc["writer"]
  BY <1>0, <1>1, <1>2, PlaceInCall
<1>6. StreamTypeOK'
  BY <1>1, <1>2, <1>4, <1>5, NothingSent, TypedThen
<1>7. WriterOK'
  BY <1>1, <1>2, <1>4, <1>5, WriterKept DEF StreamIInv
<1>8. ReaderOK'
  BY <1>5 DEF ReaderOK
<1>9. (Waits("writer")' <=> Waits("writer")) /\ ~Waits("reader")'
  BY <1>2, <1>5 DEF Waits
<1>10. Registered'
  BY <1>4, <1>9 DEF StreamIInv, Registered, Ends
<1>11. WaitsInVain'
  BY <1>5, <1>9 DEF WaitsInVain
<1> QED BY <1>4, <1>6, <1>7, <1>8, <1>10, <1>11, AllKept

\* An interrupt receives in the place of the reader: the writer is notified at once.
LEMMA ReceiveFromISRKeeps == StreamIInv /\ xStreamBufferReceiveFromISR => StreamIInv'
<1> SUFFICES ASSUME StreamIInv, xStreamBufferReceiveFromISR
             PROVE  StreamIInv'
  OBVIOUS
<1>0. "writer" \in Ends /\ "reader" \in Ends /\ "writer" # "reader" /\ Ends = {"writer", "reader"}
  BY DEF Ends
<1>1. /\ sb \in SbType /\ StreamTypeOK /\ sending \in SendType /\ receiving \in ReceiveType
      /\ sent \in Nat /\ pc \in [Ends -> States] /\ ucNotifyState \in [Ends -> NotifyStates]
      /\ InBuffer(sb) \in Nat /\ Room(sb) \in Nat /\ Header(sb) \in Nat
      /\ BytesInBuffer(sb) = InBuffer(sb) /\ HeaderLength = Header(sb)
  BY Typed
<1>2. pc["reader"] = "app" /\ UNCHANGED <<sending, receiving, sent>> /\ Header(sb) < InBuffer(sb)
  BY <1>1 DEF xStreamBufferReceiveFromISR
<1>3. PICK length \in ReceiveLengths :
        LET n == Len(Taken(length, BytesInBuffer(sb)))
        IN n > 0 /\ Notify(Received(sb, n), "writer", pc) /\ AsReceived(n)
  BY DEF xStreamBufferReceiveFromISR
<1> DEFINE data == Taken(length, InBuffer(sb))
           n == Len(data)
           s == Received(sb, n)
<1>4. n > 0 /\ Notify(s, "writer", pc)
  BY <1>1, <1>3
<1>5. n \in Nat \ {0} /\ n + Header(sb) <= InBuffer(sb) /\ (sb.isMessageBuffer => n = ByteAt(sb, 0))
  <2>1. length \in Nat /\ InBuffer(sb) <= InBuffer(sb)
    BY <1>1, Assumed
  <2>2. sb.isMessageBuffer => Header(sb) + ByteAt(sb, 0) <= InBuffer(sb)
    BY <1>2, FoundBytes
  <2>3. /\ data \in Seq(Nat) /\ Len(data) \in Nat
        /\ data # <<>> => /\ Len(data) > 0 /\ Len(data) + Header(sb) <= InBuffer(sb)
                          /\ sb.isMessageBuffer => Len(data) = ByteAt(sb, 0)
        /\ data = <<>> => Len(data) = 0
    BY <1>1, <1>2, <2>1, <2>2, TakenBytes
  <2> HIDE DEF data
  <2> QED BY <1>4, <2>3
<1> HIDE DEF data, n
<1>6. /\ s \in SbType /\ WholeMessages(s) /\ Room(s) >= Room(sb)
      /\ s.isMessageBuffer = sb.isMessageBuffer /\ s.waiting = sb.waiting
      /\ s.pucBuffer = sb.pucBuffer /\ s.xHead = sb.xHead
  BY <1>1, <1>5, ReceivedMoves DEF StreamIInv
<1> HIDE DEF s
<1>7. pc["writer"] \in {"wait", "blocked"} /\ ucNotifyState["writer"] # "received" => s.waiting["writer"]
  BY <1>0, <1>6 DEF StreamIInv, Registered, Waits
<1>8. /\ sb' \in SbType /\ SameRing(s, sb') /\ pc' \in [Ends -> States]
      /\ ucNotifyState' \in [Ends -> NotifyStates] /\ ~Waits("writer")' /\ pc'["reader"] = "app"
      /\ pc'["writer"] = pc["writer"] \/ (pc["writer"] = "blocked" /\ pc'["writer"] = "woken")
  BY <1>0, <1>1, <1>2, <1>4, <1>6, <1>7, NotifiedSide DEF NotifyStates
<1>9. Room(sb') = Room(s) /\ WholeMessages(sb')
  BY <1>6, <1>8, RingKept
<1>10. StreamTypeOK'
  BY <1>1, <1>2, <1>8, TypedThen
<1>11. WriterOK'
  BY <1>1, <1>2, <1>6, <1>8, <1>9, WriterKept DEF StreamIInv, SameRing
<1>12. ReaderOK'
  BY <1>8 DEF ReaderOK
<1>13. ~Waits("reader")'
  BY <1>8 DEF Waits
<1>14. Registered' /\ WaitsInVain'
  BY <1>8, <1>13 DEF Registered, WaitsInVain, Ends
<1> QED BY <1>9, <1>10, <1>11, <1>12, <1>14, AllKept

LEMMA SetTriggerLevelKeeps == StreamIInv /\ xStreamBufferSetTriggerLevel => StreamIInv'
<1> SUFFICES ASSUME StreamIInv, xStreamBufferSetTriggerLevel
             PROVE  StreamIInv'
  OBVIOUS
<1>1. /\ sb \in SbType /\ StreamTypeOK /\ sending \in SendType /\ receiving \in ReceiveType
      /\ sent \in Nat /\ pc \in [Ends -> States] /\ ucNotifyState \in [Ends -> NotifyStates]
      /\ InBuffer(sb) \in Nat /\ Room(sb) \in Nat
  BY Typed
<1>2. pc["reader"] = "app" /\ UNCHANGED <<pc, sending, receiving, ucNotifyState, queued, sent>>
  BY DEF xStreamBufferSetTriggerLevel
<1>3. PICK xTriggerLevel \in TriggerLevels : sb' = [sb EXCEPT !.xTriggerLevelBytes = Level(xTriggerLevel)]
  BY DEF xStreamBufferSetTriggerLevel
<1>4. Level(xTriggerLevel) \in Nat \ {0}
  BY StreamAssumption DEF Level
<1>5. sb' \in SbType /\ SameRing(sb, sb') /\ sb'.waiting = sb.waiting
  BY <1>1, <1>3, <1>4 DEF SbType, SameRing
<1>6. /\ InBuffer(sb') = InBuffer(sb) /\ Room(sb') = Room(sb) /\ ByteAt(sb', 0) = ByteAt(sb, 0)
      /\ WholeMessages(sb') /\ InBuffer(sb') >= InBuffer(sb) /\ Room(sb') >= Room(sb)
  BY <1>1, <1>5, RingKept DEF StreamIInv
<1>7. StreamTypeOK'
  BY <1>1, <1>2, <1>5, TypedThen
<1>8. WriterOK'
  BY <1>1, <1>2, <1>5, <1>6, WriterKept DEF StreamIInv, SameRing
<1>9. ReaderOK'
  BY <1>2 DEF ReaderOK
<1>10. (Waits("writer")' <=> Waits("writer")) /\ ~Waits("reader")'
  BY <1>2 DEF Waits
<1>11. Registered'
  BY <1>5, <1>10 DEF StreamIInv, Registered, Ends
<1>12. WaitsInVain'
  <2>1. Room(sb)' = Room(sb')
    BY DEF Room, InBuffer
  <2>2. RequiredSpace(sending.length)' = RequiredSpace(sending.length)
    BY <1>2, <1>5 DEF SameRing, RequiredSpace, HeaderLength
  <2> QED BY <1>2, <1>6, <1>10, <2>1, <2>2 DEF StreamIInv, WaitsInVain
<1> QED BY <1>6, <1>7, <1>8, <1>9, <1>11, <1>12, AllKept

LEMMA ResetKeeps == StreamIInv /\ xStreamBufferReset => StreamIInv'
<1> SUFFICES ASSUME StreamIInv, xStreamBufferReset
             PROVE  StreamIInv'
  OBVIOUS
<1>1. /\ sb \in SbType /\ sending \in SendType /\ receiving \in ReceiveType
      /\ sent \in Nat /\ pc \in [Ends -> States] /\ ucNotifyState \in [Ends -> NotifyStates]
  BY Typed
<1>2. /\ \A t \in Ends : pc'[t] = "app"
      /\ sb' = New(sb.isMessageBuffer, sb.xTriggerLevelBytes, sb.pucBuffer)
      /\ UNCHANGED <<pc, sending, receiving, ucNotifyState, sent>>
  BY DEF xStreamBufferReset
<1>3. sb' \in SbType /\ sb'.xHead = 0 /\ sb'.xTail = 0
  BY <1>1, <1>2, Assumed DEF New, SbType
<1>4. StreamTypeOK'
  BY <1>1, <1>2, <1>3, TypedThen
<1>5. WholeMessages(sb')
  <2>1. InBuffer(sb') = 0
    BY <1>3 DEF InBuffer
  <2>2. Tiles(sb', {}) /\ {} \in SUBSET (0 .. InBuffer(sb') - 1)
    BY <2>1 DEF Tiles
  <2> QED BY <2>2 DEF WholeMessages
<1>6. WriterOK' /\ ReaderOK' /\ Registered' /\ WaitsInVain'
  BY <1>2 DEF Ends, WriterOK, ReaderOK, Registered, WaitsInVain, Waits
<1> QED BY <1>4, <1>5, <1>6, AllKept

LEMMA NextIInv == StreamIInv /\ [StreamNext]_streamVars => StreamIInv'
<1> SUFFICES ASSUME StreamIInv, [StreamNext]_streamVars
             PROVE  StreamIInv'
  OBVIOUS
<1>1. CASE \/ xStreamBufferSend \/ SendAgain \/ SendWaited \/ SendSpace \/ SendCopy \/ SendCommit
           \/ SendTrigger \/ SendNotify \/ xStreamBufferSendFromISR
  BY <1>1, SendKeeps, SendAgainKeeps, SendWaitedKeeps, SendSpaceKeeps, SendCopyKeeps,
     SendCommitKeeps, SendTriggerKeeps, SendNotifyKeeps, SendFromISRKeeps
<1>2. CASE \/ xStreamBufferReceive \/ ReceiveWaited \/ ReceiveCopy \/ ReceiveCommit
           \/ ReceiveNotify \/ xStreamBufferReceiveFromISR
  BY <1>2, ReceiveKeeps, ReceiveWaitedKeeps, ReceiveCopyKeeps, ReceiveCommitKeeps,
     ReceiveNotifyKeeps, ReceiveFromISRKeeps
<1>3. ASSUME NEW t \in Ends,
             NotifyWait(t) \/ NotifyWaited(t) \/ NotifyTimeOut(t) \/ CompletedFromISR(t)
      PROVE  StreamIInv'
  <2>1. CASE CompletedFromISR(t)
    BY <2>1, CompletedKeeps
  <2>2. CASE t = "writer" /\ ~CompletedFromISR(t)
    BY <1>3, <2>2, WriterWaits
  <2>3. CASE t = "reader" /\ ~CompletedFromISR(t)
    BY <1>3, <2>3, ReaderWaits
  <2> QED BY <2>1, <2>2, <2>3 DEF Ends
<1>4. CASE xStreamBufferSetTriggerLevel \/ xStreamBufferReset
  BY <1>4, SetTriggerLevelKeeps, ResetKeeps
<1>5. CASE UNCHANGED streamVars
  <2>1. UNCHANGED <<sb, pc, sending, receiving, ucNotifyState, queued, sent>>
    BY <1>5 DEF streamVars
  <2>2. WholeMessages(sb') /\ StreamTypeOK'
    BY <2>1 DEF StreamIInv, StreamTypeOK
  <2>3. WriterOK' /\ ReaderOK'
    BY <2>1 DEF StreamIInv, WriterOK, ReaderOK, Room, InBuffer, Header, ByteAt, Place, Sending,
                Written, RequiredSpace, HeaderLength
  <2>4. Registered' /\ WaitsInVain'
    BY <2>1 DEF StreamIInv, Registered, WaitsInVain, Waits, Room, InBuffer, RequiredSpace, HeaderLength
  <2> QED BY <2>2, <2>3, <2>4, AllKept
<1> QED BY <1>1, <1>2, <1>3, <1>4, <1>5 DEF StreamNext

-----------------------------------------------------------------------------
\* Neither side overruns the other one: the amounts that a call has counted, while
\* it copies, are there, and a message buffer holds whole messages.
THEOREM NeitherSideOverruns == StreamSpec => []StreamIInv
BY InitIInv, NextIInv, PTL DEF StreamSpec

\* No notification is lost: a reader that waits while the trigger level is reached,
\* and a writer that waits while there is the room it asked for, are in the field of
\* the buffer that the other side is about to look at.
THEOREM NoNotificationIsLost == StreamSpec => []NoLostNotification
<1>1. ASSUME StreamIInv
      PROVE  NoLostNotification
  <2>1. /\ sb \in SbType /\ BytesInBuffer(sb) = InBuffer(sb) /\ SpacesAvailable = Room(sb)
        /\ InBuffer(sb) \in Nat /\ Room(sb) \in Nat /\ sb.xTriggerLevelBytes \in Nat
    BY <1>1, Typed DEF SbType
  <2>2. RequiredSpace(sending.length) \in Nat
    <3>1. sending.length \in Nat /\ HeaderLength \in Nat /\ xLength \in Nat /\ xLength >= 2
      BY <1>1, Typed, Assumed DEF SendType
    <3> QED BY <3>1 DEF RequiredSpace
  <2>3. "writer" \in Ends /\ "reader" \in Ends
    BY DEF Ends
  <2>4. ASSUME Waits("reader"), BytesInBuffer(sb) >= sb.xTriggerLevelBytes
        PROVE  sb.waiting["reader"] /\ pc["writer"] \in {"trigger", "notify"}
    BY <1>1, <2>1, <2>3, <2>4 DEF StreamIInv, Registered, WaitsInVain
  <2>5. ASSUME Waits("writer"), SpacesAvailable >= RequiredSpace(sending.length)
        PROVE  sb.waiting["writer"] /\ pc["reader"] = "notify"
    BY <1>1, <2>1, <2>2, <2>3, <2>5 DEF StreamIInv, Registered, WaitsInVain
  <2> QED BY <2>4, <2>5 DEF NoLostNotification
<1> QED BY <1>1, NeitherSideOverruns, PTL

-----------------------------------------------------------------------------
(* Sequences of sequences, put together.                                   *)

\* What FlattenSeq computes, of the first n.
IsFlat(f, s, n) == f = [i \in 1 .. n |-> IF i = 1 THEN s[i] ELSE f[i - 1] \o s[i]]

LEMMA FlatExists ==
  ASSUME NEW s
  PROVE  \A n \in Nat : \E f : IsFlat(f, s, n)
<1> DEFINE T == {n \in Nat : \E f : IsFlat(f, s, n)}
<1>1. 0 \in T
  <2> DEFINE f == [i \in 1 .. 0 |-> <<>>]
  <2>1. IsFlat(f, s, 0)
    BY DEF IsFlat
  <2> HIDE DEF f
  <2> QED BY <2>1
<1>2. ASSUME NEW n \in Nat, n \in T PROVE n + 1 \in T
  <2>1. PICK f : IsFlat(f, s, n)
    BY <1>2
  <2> DEFINE step(i) == IF i = 1 THEN s[i] ELSE f[i - 1] \o s[i]
             g == [i \in 1 .. n + 1 |-> step(i)]
             again(i) == IF i = 1 THEN s[i] ELSE g[i - 1] \o s[i]
  <2>2. \A i \in 1 .. n : g[i] = f[i]
    <3>1. \A i \in 1 .. n : f[i] = step(i)
      BY <2>1, Zenon DEF IsFlat
    <3> HIDE DEF step
    <3> QED BY <3>1
  <2>3. ASSUME NEW i \in 1 .. n + 1 PROVE step(i) = again(i)
    <3>1. i # 1 => g[i - 1] = f[i - 1]
      <4>1. i # 1 => i - 1 \in 1 .. n
        OBVIOUS
      <4> HIDE DEF g
      <4> QED BY <2>2, <4>1
    <3> HIDE DEF g
    <3> QED BY <3>1
  <2>4. g = [i \in 1 .. n + 1 |-> again(i)]
    <3> HIDE DEF step, again
    <3> QED BY <2>3
  <2>5. IsFlat(g, s, n + 1)
    <3> HIDE DEF g
    <3> QED BY <2>4 DEF IsFlat
  <2> HIDE DEF g
  <2> QED BY <2>5
<1>3. Nat \subseteq T
  <2> HIDE DEF T
  <2> QED BY <1>1, <1>2, SetInduction
<1> QED BY <1>3

\* It is determined by the sequences.
LEMMA FlatAgrees ==
  ASSUME NEW S, NEW s \in Seq(Seq(S)), NEW t, NEW n \in Nat, n <= Len(s),
         \A i \in 1 .. n : t[i] = s[i],
         NEW k \in Nat, n <= k, NEW f, IsFlat(f, t, k), NEW g, IsFlat(g, s, Len(s))
  PROVE  \A i \in 1 .. n : f[i] = g[i] /\ g[i] \in Seq(S)
<1> DEFINE T == {i \in Nat : i \in 1 .. n => f[i] = g[i] /\ g[i] \in Seq(S)}
<1>0. Len(s) \in Nat
  OBVIOUS
<1>1. \A i \in 1 .. n : f[i] = IF i = 1 THEN t[i] ELSE f[i - 1] \o t[i]
  <2>1. 1 .. n \subseteq 1 .. k
    OBVIOUS
  <2>2. \A i \in 1 .. k : f[i] = IF i = 1 THEN t[i] ELSE f[i - 1] \o t[i]
    BY Zenon DEF IsFlat
  <2> QED BY <2>1, <2>2
<1>2. \A i \in 1 .. n : g[i] = IF i = 1 THEN s[i] ELSE g[i - 1] \o s[i]
  <2>1. 1 .. n \subseteq 1 .. Len(s)
    BY <1>0
  <2>2. \A i \in 1 .. Len(s) : g[i] = IF i = 1 THEN s[i] ELSE g[i - 1] \o s[i]
    BY Zenon DEF IsFlat
  <2> QED BY <2>1, <2>2
<1>3. \A i \in 1 .. n : s[i] \in Seq(S)
  BY <1>0
<1>4. 0 \in T
  OBVIOUS
<1>5. ASSUME NEW i \in Nat, i \in T PROVE i + 1 \in T
  <2> SUFFICES ASSUME i + 1 \in 1 .. n
               PROVE  f[i + 1] = g[i + 1] /\ g[i + 1] \in Seq(S)
    OBVIOUS
  <2>1. s[i + 1] \in Seq(S) /\ t[i + 1] = s[i + 1]
    BY <1>3
  <2>2. CASE i = 0
    BY <1>1, <1>2, <2>1, <2>2
  <2>3. CASE i # 0
    <3>1. i \in 1 .. n /\ i + 1 # 1 /\ (i + 1) - 1 = i
      BY <2>3
    <3>2. f[i] = g[i] /\ g[i] \in Seq(S)
      BY <1>5, <3>1
    <3>3. f[i + 1] = f[i] \o t[i + 1] /\ g[i + 1] = g[i] \o s[i + 1]
      BY <1>1, <1>2, <3>1
    <3>4. g[i] \o s[i + 1] \in Seq(S)
      BY <2>1, <3>2, ConcatProperties
    <3> QED BY <2>1, <3>2, <3>3, <3>4
  <2> QED BY <2>2, <2>3
<1>6. Nat \subseteq T
  <2> HIDE DEF T
  <2> QED BY <1>4, <1>5, SetInduction
<1> QED BY <1>6

LEMMA FlatIs ==
  ASSUME NEW S, NEW s \in Seq(Seq(S)), s # <<>>
  PROVE  \E f : IsFlat(f, s, Len(s)) /\ FlattenSeq(s) = f[Len(s)] /\ f[Len(s)] \in Seq(S)
<1> DEFINE f == CHOOSE f : IsFlat(f, s, Len(s))
<1>1. Len(s) \in Nat /\ Len(s) # 0 /\ Len(s) \in 1 .. Len(s)
  BY EmptySeq
<1>2. IsFlat(f, s, Len(s))
  BY <1>1, FlatExists
<1>3. FlattenSeq(s) = f[Len(s)]
  BY <1>1, Zenon DEF FlattenSeq, IsFlat
<1> HIDE DEF f
<1>4. f[Len(s)] \in Seq(S)
  BY <1>1, <1>2, FlatAgrees
<1> QED BY <1>2, <1>3, <1>4

LEMMA FlatEmpty == FlattenSeq(<<>>) = <<>>
BY DEF FlattenSeq

LEMMA FlatType ==
  ASSUME NEW S, NEW s \in Seq(Seq(S))
  PROVE  FlattenSeq(s) \in Seq(S)
<1>1. CASE s = <<>>
  <2>1. <<>> \in Seq(S)
    OBVIOUS
  <2> QED BY <1>1, <2>1, FlatEmpty
<1>2. CASE s # <<>>
  BY <1>2, FlatIs
<1> QED BY <1>1, <1>2

LEMMA FlatAppend ==
  ASSUME NEW S, NEW s \in Seq(Seq(S)), NEW e \in Seq(S)
  PROVE  FlattenSeq(Append(s, e)) = FlattenSeq(s) \o e
<1>0. PICK t, n : t = Append(s, e) /\ n = Len(s)
  OBVIOUS
<1>1. /\ t \in Seq(Seq(S)) /\ t # <<>> /\ Len(t) = n + 1 /\ n \in Nat
      /\ \A i \in 1 .. n : t[i] = s[i]
      /\ t[n + 1] = e
  <2>1. PICK Q : Q = Seq(S)
    OBVIOUS
  <2>2. s \in Seq(Q) /\ e \in Q
    BY <2>1
  <2>3. /\ t \in Seq(Q) /\ t # <<>> /\ Len(t) = n + 1 /\ n \in Nat
        /\ \A i \in 1 .. n : t[i] = s[i]
        /\ t[n + 1] = e
    BY <1>0, <2>2, AppendProperties, LenProperties
  <2> QED BY <2>1, <2>3
<1>2. PICK f : IsFlat(f, t, n + 1) /\ FlattenSeq(t) = f[n + 1]
  BY <1>1, FlatIs
<1>3. f[n + 1] = IF n + 1 = 1 THEN t[n + 1] ELSE f[(n + 1) - 1] \o t[n + 1]
  <2>1. n + 1 \in 1 .. n + 1
    BY <1>1
  <2> QED BY <1>2, <2>1, Zenon DEF IsFlat
<1>4. CASE s = <<>>
  <2>1. n = 0 /\ FlattenSeq(s) = <<>>
    BY <1>4, <1>0, FlatEmpty
  <2> QED BY <1>1, <1>2, <1>3, <2>1, <1>0, ConcatEmptySeq
<1>5. CASE s # <<>>
  <2>1. n \in 1 .. n /\ n \in Nat \ {0}
    BY <1>1, <1>5, <1>0, EmptySeq
  <2>2. PICK g : IsFlat(g, s, n) /\ FlattenSeq(s) = g[n]
    BY <1>5, <1>0, FlatIs
  <2>3. \A i \in 1 .. n : f[i] = g[i]
    <3>1. /\ n \in Nat /\ n <= Len(s) /\ n + 1 \in Nat /\ n <= n + 1
          /\ IsFlat(f, t, n + 1) /\ IsFlat(g, s, Len(s))
      BY <1>1, <1>2, <1>0, <2>2
    <3>2. \A i \in 1 .. n : t[i] = s[i]
      BY <1>1
    <3>3. s \in Seq(Seq(S))
      OBVIOUS
    <3>4. PICK k : k = n + 1
      OBVIOUS
    <3>5. k \in Nat /\ n <= k /\ IsFlat(f, t, k)
      BY <3>1, <3>4
    <3>6. n \in Nat /\ n <= Len(s) /\ IsFlat(g, s, Len(s))
      BY <3>1
    <3>7. \A i \in 1 .. n : f[i] = g[i] /\ g[i] \in Seq(S)
      BY ONLY <3>2, <3>3, <3>5, <3>6, FlatAgrees
    <3> QED BY <3>7
  <2>4. f[n + 1] = f[n] \o e
    BY <1>1, <1>3, <2>1
  <2> QED BY <1>2, <2>1, <2>2, <2>3, <2>4, <1>0
<1> QED BY <1>4, <1>5

LEMMA ConcatAppend ==
  ASSUME NEW S, NEW a \in Seq(S), NEW p \in Seq(S), NEW e \in S
  PROVE  a \o Append(p, e) = Append(a \o p, e)
<1>1. <<e>> \in Seq(S) /\ a \o p \in Seq(S)
  OBVIOUS
<1>2. Append(p, e) = p \o <<e>> /\ Append(a \o p, e) = (a \o p) \o <<e>>
  BY <1>1, AppendIsConcat
<1>3. (a \o p) \o <<e>> = a \o (p \o <<e>>)
  BY <1>1, ConcatAssociative
<1> QED BY <1>2, <1>3

LEMMA FlatConcat ==
  ASSUME NEW S, NEW a \in Seq(Seq(S)), NEW b \in Seq(Seq(S))
  PROVE  FlattenSeq(a \o b) = FlattenSeq(a) \o FlattenSeq(b)
<1> DEFINE P(k) == SubSeq(b, 1, k)
           T == {k \in Nat : k <= Len(b) => FlattenSeq(a \o P(k)) = FlattenSeq(a) \o FlattenSeq(P(k))}
<1>0. Len(b) \in Nat /\ FlattenSeq(a) \in Seq(S)
  BY FlatType
<1>1. 0 \in T
  <2>1. P(0) = <<>>
    OBVIOUS
  <2>2. a \o <<>> = a /\ FlattenSeq(a) \o <<>> = FlattenSeq(a)
    BY <1>0, ConcatEmptySeq
  <2> HIDE DEF P
  <2> QED BY <2>1, <2>2, FlatEmpty
<1>2. ASSUME NEW k \in Nat, k \in T PROVE k + 1 \in T
  <2> SUFFICES ASSUME k + 1 <= Len(b)
               PROVE  FlattenSeq(a \o P(k + 1)) = FlattenSeq(a) \o FlattenSeq(P(k + 1))
    OBVIOUS
  <2>0. PICK p, e : p = P(k) /\ e = b[k + 1]
    OBVIOUS
  <2>1. p \in Seq(Seq(S)) /\ e \in Seq(S) /\ P(k + 1) = Append(p, e)
    <3>1. p \in Seq(Seq(S)) /\ e \in Seq(S)
      BY <1>0, <2>0
    <3>2. P(k + 1) = p \o <<e>>
      BY <1>0, <2>0, SubSeqRecursiveSecond
    <3>3. Append(p, e) = p \o <<e>>
      BY <3>1, AppendIsConcat
    <3> QED BY <3>1, <3>2, <3>3
  <2>2. FlattenSeq(a \o p) = FlattenSeq(a) \o FlattenSeq(p)
    BY <1>0, <1>2, <2>0
  <2> HIDE DEF P
  <2>4. a \o p \in Seq(Seq(S)) /\ FlattenSeq(p) \in Seq(S)
    BY <2>1, FlatType, ConcatProperties
  <2>3. a \o Append(p, e) = Append(a \o p, e)
    <3>1. PICK Q : Q = Seq(S)
      OBVIOUS
    <3>2. a \in Seq(Q) /\ p \in Seq(Q) /\ e \in Q
      BY <2>1, <3>1
    <3> QED BY ONLY <3>2, ConcatAppend
  <2>5. FlattenSeq(Append(a \o p, e)) = FlattenSeq(a \o p) \o e
    BY <2>1, <2>4, FlatAppend
  <2>6. FlattenSeq(Append(p, e)) = FlattenSeq(p) \o e
    BY <2>1, FlatAppend
  <2>7. (FlattenSeq(a) \o FlattenSeq(p)) \o e = FlattenSeq(a) \o (FlattenSeq(p) \o e)
    <3>1. FlattenSeq(a) \in Seq(S) /\ FlattenSeq(p) \in Seq(S) /\ e \in Seq(S)
      BY <1>0, <2>1, <2>4
    <3> QED BY ONLY <3>1, ConcatAssociative
  <2> QED BY <2>1, <2>2, <2>3, <2>5, <2>6, <2>7
<1>3. Nat \subseteq T
  <2> HIDE DEF T
  <2> QED BY <1>1, <1>2, SetInduction
<1>4. P(Len(b)) = b
  BY SubSeqFull
<1>5. FlattenSeq(a \o P(Len(b))) = FlattenSeq(a) \o FlattenSeq(P(Len(b)))
  <2> HIDE DEF P
  <2>1. Len(b) \in T
    BY <1>0, <1>3
  <2> QED BY <1>0, <2>1
<1> HIDE DEF P
<1> QED BY <1>4, <1>5

LEMMA FlatOne ==
  ASSUME NEW S, NEW e \in Seq(S)
  PROVE  FlattenSeq(<<e>>) = e
<1>1. <<>> \in Seq(Seq(S)) /\ Append(<<>>, e) = <<e>>
  OBVIOUS
<1>2. FlattenSeq(<<e>>) = <<>> \o e
  BY <1>1, FlatAppend, FlatEmpty
<1> QED BY <1>2, ConcatEmptySeq

\* Of sequences of one each, it has as many.
LEMMA FlatOnes ==
  ASSUME NEW S, NEW s \in Seq(Seq(S)), \A i \in 1 .. Len(s) : Len(s[i]) = 1
  PROVE  /\ Len(FlattenSeq(s)) = Len(s)
         /\ \A i \in 1 .. Len(s) : FlattenSeq(s)[i] = s[i][1]
<1> DEFINE P(k) == SubSeq(s, 1, k)
           F(k) == FlattenSeq(P(k))
           T == {k \in Nat : k <= Len(s) => Len(F(k)) = k /\ \A i \in 1 .. k : F(k)[i] = s[i][1]}
<1>0. Len(s) \in Nat
  OBVIOUS
<1>1. 0 \in T
  <2>1. P(0) = <<>>
    OBVIOUS
  <2> HIDE DEF P
  <2> QED BY <2>1, FlatEmpty
<1>2. ASSUME NEW k \in Nat, k \in T PROVE k + 1 \in T
  <2> SUFFICES ASSUME k + 1 <= Len(s)
               PROVE  Len(F(k + 1)) = k + 1 /\ \A i \in 1 .. k + 1 : F(k + 1)[i] = s[i][1]
    <3> HIDE DEF F
    <3> QED OBVIOUS
  <2> DEFINE p == P(k)
             e == s[k + 1]
             f == F(k)
  <2>1. p \in Seq(Seq(S)) /\ e \in Seq(S) /\ P(k + 1) = Append(p, e) /\ Len(e) = 1
    <3>1. p \in Seq(Seq(S)) /\ e \in Seq(S)
      BY <1>0
    <3>2. P(k + 1) = p \o <<e>>
      BY <1>0, SubSeqRecursiveSecond
    <3>3. Append(p, e) = p \o <<e>>
      BY <3>1, AppendIsConcat
    <3> QED BY <3>1, <3>2, <3>3
  <2>2. Len(f) = k /\ \A i \in 1 .. k : f[i] = s[i][1]
    BY <1>0, <1>2
  <2> HIDE DEF P
  <2>3. f \in Seq(S) /\ F(k + 1) = f \o e
    BY <2>1, FlatType, FlatAppend
  <2> HIDE DEF F, f
  <2>4. Len(f \o e) = k + 1 /\ \A i \in 1 .. k + 1 : (f \o e)[i] = IF i <= k THEN f[i] ELSE e[i - k]
    <3>1. Len(f) + Len(e) = k + 1
      BY <2>1, <2>2
    <3>2. \A i \in 1 .. Len(f) + Len(e) : (f \o e)[i] = IF i <= Len(f) THEN f[i] ELSE e[i - Len(f)]
      BY <2>1, <2>3, ConcatProperties
    <3>3. f \in Seq(S) /\ e \in Seq(S)
      BY <2>1, <2>3
    <3>4. Len(f \o e) = Len(f) + Len(e)
      BY ONLY <3>3, ConcatProperties
    <3> QED BY <2>2, <3>1, <3>2, <3>4
  <2>5. ASSUME NEW i \in 1 .. k + 1 PROVE F(k + 1)[i] = s[i][1]
    <3>1. CASE i <= k
      BY <2>2, <2>3, <2>4, <3>1
    <3>2. CASE ~(i <= k)
      <4>1. i = k + 1 /\ i - k = 1
        BY <3>2
      <4> QED BY <2>3, <2>4, <3>2, <4>1
    <3> QED BY <3>1, <3>2
  <2> QED BY <2>3, <2>4, <2>5
<1>3. Nat \subseteq T
  <2> HIDE DEF T
  <2> QED BY <1>1, <1>2, SetInduction
<1>4. P(Len(s)) = s
  BY SubSeqFull
<1> HIDE DEF P
<1> QED BY <1>0, <1>3, <1>4

-----------------------------------------------------------------------------
(* What the ring holds.                                                    *)

\* The bytes in use, and what is stored for messages.
Contents(s) == [i \in 1 .. InBuffer(s) |-> ByteAt(s, i - 1)]
StoredAs(isMessageBuffer, message) ==
  IF isMessageBuffer THEN LengthBytes(Len(message)) \o message ELSE message
AllStored(isMessageBuffer, messages) ==
  [i \in 1 .. Len(messages) |-> StoredAs(isMessageBuffer, messages[i])]
MessagesOf(isMessageBuffer, data) ==
  IF isMessageBuffer THEN <<data>> ELSE [i \in 1 .. Len(data) |-> <<data[i]>>]

\* The bytes in use are those of the messages; a stream's are of one byte each.
Holds(s, messages) ==
  /\ messages \in Seq(Seq(Nat))
  /\ ~s.isMessageBuffer => \A i \in 1 .. Len(messages) : Len(messages[i]) = 1
  /\ Contents(s) = FlattenSeq(AllStored(s.isMessageBuffer, messages))

\* The bytes lie where xHead is about to move over them; and are those that xTail is.
InPlace(s, bytes) == \A j \in 1 .. Len(bytes) : s.pucBuffer[Place(s.xHead, j - 1)] = bytes[j]
Copied(s, data) == \A j \in 1 .. Len(data) : data[j] = ByteAt(s, Header(s) + (j - 1))

DataFrom(first, n) == [i \in 1 .. n |-> (first + i) % Bytes]

ContentsInv ==
  /\ Holds(sb, queued)
  /\ pc["writer"] = "commit" => InPlace(sb, StoredAs(sb.isMessageBuffer, DataFrom(sent, Sending)))
  /\ pc["reader"] = "commit" => Copied(sb, receiving.data)

LEMMA ContentsAre ==
  ASSUME NEW s \in SbType
  PROVE  /\ Contents(s) \in Seq(Nat) /\ Len(Contents(s)) = InBuffer(s)
         /\ \A i \in 1 .. InBuffer(s) : Contents(s)[i] = ByteAt(s, i - 1)
<1>1. InBuffer(s) \in 0 .. xLength - 1 /\ xLength \in Nat
  BY Counts, Assumed
<1>2. ASSUME NEW i \in 1 .. InBuffer(s) PROVE ByteAt(s, i - 1) \in Nat
  <2>1. i - 1 \in 0 .. xLength /\ s.xTail \in 0 .. xLength - 1 /\ s.pucBuffer \in [0 .. xLength - 1 -> Nat]
    BY <1>1 DEF SbType
  <2>2. Place(s.xTail, i - 1) \in 0 .. xLength - 1
    BY <2>1, PlaceIs
  <2> QED BY <2>1, <2>2 DEF ByteAt
<1> QED BY <1>1, <1>2 DEF Contents

LEMMA StoredAre ==
  ASSUME NEW m \in BOOLEAN, NEW d \in Seq(Nat)
  PROVE  /\ StoredAs(m, d) \in Seq(Nat)
         /\ Len(StoredAs(m, d)) = Len(d) + (IF m THEN sbBYTES_TO_STORE_MESSAGE_LENGTH ELSE 0)
         /\ m => /\ StoredAs(m, d)[1] = Len(d)
                 /\ \A j \in 1 .. Len(d) : StoredAs(m, d)[sbBYTES_TO_STORE_MESSAGE_LENGTH + j] = d[j]
         /\ ~m => StoredAs(m, d) = d
<1> DEFINE h == LengthBytes(Len(d))
           k == sbBYTES_TO_STORE_MESSAGE_LENGTH
<1>1. h \in Seq(Nat) /\ Len(h) = k /\ h[1] = Len(d) /\ k \in Nat /\ k > 0 /\ Len(d) \in Nat
  BY Assumed DEF LengthBytes
<1> HIDE DEF h, k
<1>2. CASE m
  <2>1. StoredAs(m, d) = h \o d
    BY <1>2 DEF StoredAs, h
  <2>2. /\ h \o d \in Seq(Nat) /\ Len(h \o d) = k + Len(d)
        /\ \A i \in 1 .. k + Len(d) : (h \o d)[i] = IF i <= k THEN h[i] ELSE d[i - k]
    BY <1>1, ConcatProperties
  <2>3. (h \o d)[1] = Len(d)
    BY <1>1, <2>2
  <2>4. ASSUME NEW j \in 1 .. Len(d) PROVE (h \o d)[k + j] = d[j]
    <3>1. k + j \in 1 .. k + Len(d) /\ ~(k + j <= k) /\ (k + j) - k = j
      BY <1>1
    <3> QED BY <2>2, <3>1
  <2>5. StoredAs(m, d) \in Seq(Nat) /\ Len(StoredAs(m, d)) = Len(d) + k
    BY <1>1, <2>1, <2>2
  <2>6. \A j \in 1 .. Len(d) : StoredAs(m, d)[k + j] = d[j]
    BY <2>1, <2>4
  <2> QED BY <1>2, <2>1, <2>3, <2>5, <2>6 DEF k
<1>3. CASE ~m
  BY <1>1, <1>3 DEF StoredAs
<1> QED BY <1>2, <1>3

LEMMA AllStoredType ==
  ASSUME NEW m \in BOOLEAN, NEW q \in Seq(Seq(Nat))
  PROVE  /\ AllStored(m, q) \in Seq(Seq(Nat)) /\ Len(AllStored(m, q)) = Len(q)
         /\ ~m => AllStored(m, q) = q
<1>1. ASSUME NEW i \in 1 .. Len(q) PROVE StoredAs(m, q[i]) \in Seq(Nat) /\ (~m => StoredAs(m, q[i]) = q[i])
  <2>1. q[i] \in Seq(Nat)
    BY ElementOfSeq
  <2> QED BY <2>1, StoredAre
<1>2. Len(q) \in Nat
  BY LenProperties
<1>3. AllStored(m, q) \in Seq(Seq(Nat)) /\ Len(AllStored(m, q)) = Len(q)
  BY <1>1, <1>2 DEF AllStored
<1>4. ASSUME ~m PROVE AllStored(m, q) = q
  BY <1>1, <1>4, LenProperties DEF AllStored
<1> QED BY <1>3, <1>4

LEMMA AllStoredConcat ==
  ASSUME NEW m \in BOOLEAN, NEW a \in Seq(Seq(Nat)), NEW b \in Seq(Seq(Nat))
  PROVE  /\ a \o b \in Seq(Seq(Nat))
         /\ FlattenSeq(AllStored(m, a \o b)) = FlattenSeq(AllStored(m, a)) \o FlattenSeq(AllStored(m, b))
<1> DEFINE sa == AllStored(m, a)
           sb2 == AllStored(m, b)
           c == a \o b
<1>1. /\ sa \in Seq(Seq(Nat)) /\ sb2 \in Seq(Seq(Nat)) /\ Len(sa) = Len(a) /\ Len(sb2) = Len(b)
      /\ Len(a) \in Nat /\ Len(b) \in Nat
  BY AllStoredType, LenProperties
<1>2. PICK Q : Q = Seq(Nat)
  OBVIOUS
<1>3. /\ c \in Seq(Q) /\ Len(c) = Len(a) + Len(b)
      /\ \A i \in 1 .. Len(a) + Len(b) : c[i] = IF i <= Len(a) THEN a[i] ELSE b[i - Len(a)]
  <2>1. a \in Seq(Q) /\ b \in Seq(Q)
    BY <1>2
  <2> QED BY ONLY <2>1, ConcatProperties
<1>4. /\ sa \o sb2 \in Seq(Q) /\ Len(sa \o sb2) = Len(a) + Len(b)
      /\ \A i \in 1 .. Len(a) + Len(b) : (sa \o sb2)[i] = IF i <= Len(a) THEN sa[i] ELSE sb2[i - Len(a)]
  <2>1. sa \in Seq(Q) /\ sb2 \in Seq(Q)
    BY <1>1, <1>2
  <2>2. /\ sa \o sb2 \in Seq(Q) /\ Len(sa \o sb2) = Len(sa) + Len(sb2)
        /\ \A i \in 1 .. Len(sa) + Len(sb2) : (sa \o sb2)[i] = IF i <= Len(sa) THEN sa[i] ELSE sb2[i - Len(sa)]
    BY ONLY <2>1, ConcatProperties
  <2> HIDE DEF sa, sb2
  <2> QED BY <1>1, <2>2
<1>5. AllStored(m, c) = sa \o sb2
  <2>0. /\ \A i \in 1 .. Len(a) : sa[i] = StoredAs(m, a[i])
        /\ \A i \in 1 .. Len(b) : sb2[i] = StoredAs(m, b[i])
        /\ AllStored(m, c) = [i \in 1 .. Len(c) |-> StoredAs(m, c[i])]
    BY DEF AllStored
  <2>1. AllStored(m, c) \in Seq(Q) /\ Len(AllStored(m, c)) = Len(c)
    BY <1>2, <1>3, AllStoredType
  <2> HIDE DEF sa, sb2, c
  <2>2. ASSUME NEW i \in 1 .. Len(c) PROVE AllStored(m, c)[i] = (sa \o sb2)[i]
    <3>1. AllStored(m, c)[i] = StoredAs(m, c[i])
      BY <2>0
    <3>2. i \in 1 .. Len(a) + Len(b)
      BY <1>3
    <3>3. CASE i <= Len(a)
      <4>1. i \in 1 .. Len(a)
        BY <1>1, <3>2, <3>3
      <4> QED BY <1>3, <1>4, <2>0, <3>1, <3>2, <3>3, <4>1
    <3>4. CASE ~(i <= Len(a))
      <4>1. i - Len(a) \in 1 .. Len(b)
        BY <1>1, <3>2, <3>4
      <4> QED BY <1>3, <1>4, <2>0, <3>1, <3>2, <3>4, <4>1
    <3> QED BY <3>3, <3>4
  <2>3. Len(AllStored(m, c)) = Len(sa \o sb2)
    BY <1>3, <1>4, <2>1
  <2>4. \A i \in 1 .. Len(AllStored(m, c)) : AllStored(m, c)[i] = (sa \o sb2)[i]
    BY <2>1, <2>2
  <2>5. PICK x, y : x = AllStored(m, c) /\ y = sa \o sb2
    OBVIOUS
  <2>6. /\ x \in Seq(Q) /\ y \in Seq(Q) /\ Len(x) = Len(y)
        /\ \A i \in 1 .. Len(x) : x[i] = y[i]
    BY <1>4, <2>1, <2>3, <2>4, <2>5
  <2>7. x = y
    BY ONLY <2>6, SeqEqual
  <2> QED BY <2>5, <2>7
<1> HIDE DEF sa, sb2, c
<1>6. FlattenSeq(sa \o sb2) = FlattenSeq(sa) \o FlattenSeq(sb2)
  BY <1>1, FlatConcat
<1> QED BY <1>2, <1>3, <1>5, <1>6 DEF sa, sb2, c

\* Nothing is lost of it by what is written in free places.
LEMMA HoldsStill ==
  ASSUME NEW s \in SbType, NEW r \in SbType, r.isMessageBuffer = s.isMessageBuffer,
         InBuffer(r) = InBuffer(s), \A o \in 0 .. InBuffer(s) - 1 : ByteAt(r, o) = ByteAt(s, o),
         NEW q, Holds(s, q)
  PROVE  Holds(r, q)
<1>1. InBuffer(s) \in Nat
  BY Counts
<1>2. ASSUME NEW i \in 1 .. InBuffer(s) PROVE ByteAt(r, i - 1) = ByteAt(s, i - 1)
  <2>1. i - 1 \in 0 .. InBuffer(s) - 1
    BY <1>1
  <2> QED BY <2>1
<1>3. Contents(r) = Contents(s)
  BY <1>2 DEF Contents
<1> QED BY <1>3 DEF Holds

\* The message that xHead moves over is the last one then.
LEMMA HoldsSent ==
  ASSUME NEW s \in SbType, NEW q, Holds(s, q), NEW d \in Seq(Nat),
         Len(StoredAs(s.isMessageBuffer, d)) <= Room(s),
         InPlace(s, StoredAs(s.isMessageBuffer, d)),
         NEW r \in SbType, r.isMessageBuffer = s.isMessageBuffer, r.pucBuffer = s.pucBuffer,
         r.xTail = s.xTail, InBuffer(r) = InBuffer(s) + Len(StoredAs(s.isMessageBuffer, d))
  PROVE  Holds(r, q \o MessagesOf(s.isMessageBuffer, d))
<1>0. PICK m, b, held, size : /\ m = s.isMessageBuffer /\ b = StoredAs(s.isMessageBuffer, d)
                              /\ held = InBuffer(s) /\ size = Len(b)
  OBVIOUS
<1>1. /\ m \in BOOLEAN /\ b \in Seq(Nat) /\ size \in Nat /\ held \in Nat /\ held <= xLength - 1
      /\ xLength \in Nat /\ size <= xLength - 1 - held /\ Len(d) \in Nat
      /\ s.xHead \in 0 .. xLength - 1 /\ s.xTail \in 0 .. xLength - 1
      /\ ~m => b = d
  <2>1. m \in BOOLEAN /\ s.xHead \in 0 .. xLength - 1 /\ s.xTail \in 0 .. xLength - 1
    BY <1>0 DEF SbType
  <2>2. b \in Seq(Nat) /\ (~m => b = d)
    BY <1>0, <2>1, StoredAre
  <2> QED BY <1>0, <2>1, <2>2, Counts, Assumed DEF Room
<1>2. ASSUME NEW j \in 1 .. size PROVE ByteAt(r, held + (j - 1)) = b[j]
  <2>1. /\ j - 1 \in 0 .. xLength /\ held + (j - 1) \in 0 .. xLength
    BY <1>1
  <2>2. /\ Place(s.xHead, j - 1) = IF s.xHead + (j - 1) < xLength THEN s.xHead + (j - 1)
                                   ELSE s.xHead + (j - 1) - xLength
        /\ Place(s.xTail, held + (j - 1)) =
             IF s.xTail + (held + (j - 1)) < xLength THEN s.xTail + (held + (j - 1))
             ELSE s.xTail + (held + (j - 1)) - xLength
    BY <1>1, <2>1, PlaceIs
  <2>3. held = IF s.xHead >= s.xTail THEN s.xHead - s.xTail ELSE xLength + s.xHead - s.xTail
    BY <1>0 DEF InBuffer
  <2>4. Place(s.xTail, held + (j - 1)) = Place(s.xHead, j - 1)
    <3>1. PICK h, tail, i, there, back : /\ h = s.xHead /\ tail = s.xTail /\ i = j - 1
                                         /\ there = Place(s.xHead, j - 1)
                                         /\ back = Place(s.xTail, held + (j - 1))
      OBVIOUS
    <3>5. /\ h \in Nat /\ tail \in Nat /\ h < xLength /\ tail < xLength /\ xLength \in Nat
          /\ held \in Nat
      BY <1>1, <3>1
    <3>6. i \in Nat /\ held + i < xLength
      BY <1>1, <3>1
    <3>7. held = IF h >= tail THEN h - tail ELSE xLength + h - tail
      BY ONLY <2>3, <3>1
    <3>8. there = IF h + i < xLength THEN h + i ELSE h + i - xLength
      BY ONLY <2>2, <3>1
    <3>9. back = IF tail + (held + i) < xLength THEN tail + (held + i)
                 ELSE tail + (held + i) - xLength
      BY ONLY <2>2, <3>1
    <3>3. CASE h >= tail
      <4>1. held = h - tail
        BY ONLY <3>3, <3>7
      <4>2. there = back
        BY ONLY <3>5, <3>6, <3>8, <3>9, <4>1
      <4> QED BY <3>1, <4>2
    <3>4. CASE ~(h >= tail)
      <4>1. held = xLength + h - tail
        BY ONLY <3>4, <3>7
      <4>2. there = back
        BY ONLY <3>5, <3>6, <3>8, <3>9, <4>1
      <4> QED BY <3>1, <4>2
    <3> QED BY <3>3, <3>4
  <2>5. s.pucBuffer[Place(s.xHead, j - 1)] = b[j]
    BY <1>0 DEF InPlace
  <2> QED BY <2>4, <2>5 DEF ByteAt
<1>3. /\ Contents(s) \in Seq(Nat) /\ Len(Contents(s)) = held
      /\ \A i \in 1 .. held : Contents(s)[i] = ByteAt(s, i - 1)
  BY <1>0, ContentsAre
<1>4. /\ Contents(r) \in Seq(Nat) /\ Len(Contents(r)) = held + size
      /\ \A i \in 1 .. held + size : Contents(r)[i] = ByteAt(r, i - 1)
  BY <1>0, ContentsAre
<1>5. Contents(r) = Contents(s) \o b
  <2>1. PICK x, y, z : x = Contents(s) /\ y = Contents(r) /\ z = x \o b
    OBVIOUS
  <2>2. /\ z \in Seq(Nat) /\ Len(z) = held + size
        /\ \A i \in 1 .. held + size : z[i] = IF i <= held THEN x[i] ELSE b[i - held]
    <3>1. /\ x \o b \in Seq(Nat) /\ Len(x \o b) = Len(x) + Len(b)
          /\ \A i \in 1 .. Len(x) + Len(b) : (x \o b)[i] = IF i <= Len(x) THEN x[i] ELSE b[i - Len(x)]
      BY <1>1, <1>3, <2>1, ConcatProperties
    <3> QED BY <1>0, <1>3, <2>1, <3>1
  <2>3. ASSUME NEW i \in 1 .. held + size PROVE y[i] = z[i]
    <3>1. CASE i <= held
      <4>1. i \in 1 .. held
        BY <1>1, <3>1
      <4>2. ByteAt(r, i - 1) = ByteAt(s, i - 1)
        BY DEF ByteAt
      <4> QED BY <1>3, <1>4, <2>1, <2>2, <3>1, <4>1, <4>2
    <3>2. CASE ~(i <= held)
      <4>1. i - held \in 1 .. size /\ held + ((i - held) - 1) = i - 1
        BY <1>1, <3>2
      <4>2. ByteAt(r, i - 1) = b[i - held]
        BY <1>2, <4>1
      <4> QED BY <1>4, <2>1, <2>2, <3>2, <4>2
    <3> QED BY <3>1, <3>2
  <2>4. y \in Seq(Nat) /\ Len(y) = Len(z)
    BY <1>4, <2>1, <2>2
  <2>5. \A i \in 1 .. Len(y) : y[i] = z[i]
    BY <1>4, <2>1, <2>3
  <2>6. y = z
    BY ONLY <2>2, <2>4, <2>5, SeqEqual
  <2> QED BY <2>1, <2>6
<1>6. PICK a : a = MessagesOf(m, d)
  OBVIOUS
<1>7. a \in Seq(Seq(Nat)) /\ FlattenSeq(AllStored(m, a)) = b /\ (~m => \A i \in 1 .. Len(a) : Len(a[i]) = 1)
  <2>1. CASE m
    <3>1. a = <<d>>
      BY <1>6, <2>1 DEF MessagesOf
    <3>2. a \in Seq(Seq(Nat)) /\ Len(a) = 1 /\ a[1] = d
      BY <3>1
    <3>3. AllStored(m, a) = <<b>>
      BY <1>0, <3>2 DEF AllStored
    <3> QED BY <1>1, <2>1, <3>2, <3>3, FlatOne
  <2>2. CASE ~m
    <3>1. a = [i \in 1 .. Len(d) |-> <<d[i]>>]
      BY <1>6, <2>2 DEF MessagesOf
    <3>2. \A i \in 1 .. Len(d) : d[i] \in Nat
      BY ElementOfSeq
    <3>3. a \in Seq(Seq(Nat)) /\ Len(a) = Len(d) /\ \A i \in 1 .. Len(d) : Len(a[i]) = 1 /\ a[i][1] = d[i]
      BY <1>1, <3>1, <3>2
    <3>4. AllStored(m, a) = a
      BY <1>1, <2>2, <3>3, AllStoredType
    <3>5. PICK f : f = FlattenSeq(a)
      OBVIOUS
    <3>6. f \in Seq(Nat) /\ Len(f) = Len(d) /\ \A i \in 1 .. Len(f) : f[i] = d[i]
      BY <3>3, <3>5, FlatType, FlatOnes
    <3>7. f = d
      BY ONLY <3>6, d \in Seq(Nat), SeqEqual
    <3> QED BY <1>1, <2>2, <3>3, <3>4, <3>5, <3>7
  <2> QED BY <2>1, <2>2
<1>8. q \in Seq(Seq(Nat)) /\ Contents(s) = FlattenSeq(AllStored(m, q))
      /\ (~m => \A i \in 1 .. Len(q) : Len(q[i]) = 1)
  BY <1>0 DEF Holds
<1>9. /\ q \o a \in Seq(Seq(Nat))
      /\ FlattenSeq(AllStored(m, q \o a)) = Contents(s) \o b
  <2>1. m \in BOOLEAN /\ q \in Seq(Seq(Nat)) /\ a \in Seq(Seq(Nat))
    BY <1>1, <1>7, <1>8
  <2>2. /\ q \o a \in Seq(Seq(Nat))
        /\ FlattenSeq(AllStored(m, q \o a)) = FlattenSeq(AllStored(m, q)) \o FlattenSeq(AllStored(m, a))
    BY ONLY <2>1, AllStoredConcat
  <2> QED BY <1>7, <1>8, <2>2
<1>10. ASSUME ~m, NEW i \in 1 .. Len(q \o a) PROVE Len((q \o a)[i]) = 1
  <2>1. PICK Q : Q = Seq(Nat)
    OBVIOUS
  <2>2. q \in Seq(Q) /\ a \in Seq(Q)
    BY <1>7, <1>8, <2>1
  <2>3. /\ Len(q \o a) = Len(q) + Len(a) /\ Len(q) \in Nat /\ Len(a) \in Nat
        /\ \A k \in 1 .. Len(q) + Len(a) : (q \o a)[k] = IF k <= Len(q) THEN q[k] ELSE a[k - Len(q)]
    BY ONLY <2>2, ConcatProperties, LenProperties
  <2>4. CASE i <= Len(q)
    BY <1>8, <1>10, <2>3, <2>4
  <2>5. CASE ~(i <= Len(q))
    <3>1. i - Len(q) \in 1 .. Len(a)
      BY <2>3, <2>5
    <3> QED BY <1>7, <1>10, <2>3, <2>5, <3>1
  <2> QED BY <2>4, <2>5
<1> QED BY <1>0, <1>5, <1>6, <1>9, <1>10 DEF Holds

\* The messages that a call takes: one, or as many as it reads bytes.
TakenOf(isMessageBuffer, n) == IF isMessageBuffer THEN 1 ELSE n

\* The first messages P, of n bytes, and the bytes front that are stored for them;
\* the messages R after them, and theirs.
FirstOnes(s, q, n, P, R, front, rest) ==
  LET k == TakenOf(s.isMessageBuffer, n)
  IN /\ k \in 1 .. Len(q) /\ P = SubSeq(q, 1, k) /\ R = SubSeq(q, k + 1, Len(q))
     /\ R \in Seq(Seq(Nat)) /\ rest = FlattenSeq(AllStored(s.isMessageBuffer, R))
     /\ front \in Seq(Nat) /\ rest \in Seq(Nat) /\ Len(front) = n + Header(s)
     /\ Contents(s) = front \o rest
     /\ FlattenSeq(P) \in Seq(Nat) /\ Len(FlattenSeq(P)) = n
     /\ \A j \in 1 .. n : FlattenSeq(P)[j] = front[Header(s) + j]

\* They are there, and their bytes are the first ones.
LEMMA FirstBytes ==
  ASSUME NEW s \in SbType, NEW q, Holds(s, q), NEW n \in Nat \ {0}, n + Header(s) <= InBuffer(s),
         s.isMessageBuffer => n = ByteAt(s, 0)
  PROVE  \E P, R, front, rest : FirstOnes(s, q, n, P, R, front, rest)
<1>0. PICK m, c, H, k, held : /\ m = s.isMessageBuffer /\ c = Contents(s) /\ H = Header(s)
                             /\ k = TakenOf(m, n) /\ held = InBuffer(s)
  OBVIOUS
<1>1. /\ m \in BOOLEAN /\ q \in Seq(Seq(Nat)) /\ Len(q) \in Nat /\ c = FlattenSeq(AllStored(m, q))
      /\ (~m => \A i \in 1 .. Len(q) : Len(q[i]) = 1)
      /\ H \in Nat /\ (m => H = sbBYTES_TO_STORE_MESSAGE_LENGTH /\ H > 0) /\ (~m => H = 0)
  <2>1. m \in BOOLEAN
    BY <1>0 DEF SbType
  <2> QED BY <1>0, <2>1, HeaderIs, LenProperties DEF Holds
<1>2. /\ c \in Seq(Nat) /\ Len(c) = held /\ held \in Nat
      /\ \A i \in 1 .. held : c[i] = ByteAt(s, i - 1)
  BY <1>0, ContentsAre, Counts
<1>n. n \in Nat /\ n > 0 /\ n + H <= held /\ (m => n = ByteAt(s, 0))
  BY <1>0
<1>3. k \in 1 .. Len(q)
  <2>1. CASE m
    <3>1. q # <<>>
      <4> SUFFICES ASSUME q = <<>> PROVE FALSE
        OBVIOUS
      <4>1. AllStored(m, q) = <<>>
        BY DEF AllStored
      <4>2. c = <<>>
        BY <1>1, <4>1, FlatEmpty
      <4>3. Len(c) = 0
        BY <4>2
      <4> QED BY <1>1, <1>2, <1>n, <4>3
    <3>2. Len(q) > 0
      BY <1>1, <3>1, EmptySeq
    <3>3. k = 1
      BY <1>0, <2>1 DEF TakenOf
    <3> QED BY <1>1, <3>2, <3>3
  <2>2. CASE ~m
    <3>1. AllStored(m, q) = q
      BY <1>1, <2>2, AllStoredType
    <3>2. Len(c) = Len(q)
      BY <1>1, <2>2, <3>1, FlatOnes
    <3>3. k = n
      BY <1>0, <2>2 DEF TakenOf
    <3> QED BY <1>1, <1>2, <1>n, <2>2, <3>2, <3>3
  <2> QED BY <2>1, <2>2
<1>P. PICK P, R : P = SubSeq(q, 1, k) /\ R = SubSeq(q, k + 1, Len(q))
  OBVIOUS
<1>4. /\ P \in Seq(Seq(Nat)) /\ R \in Seq(Seq(Nat)) /\ P \o R = q /\ Len(P) = k
      /\ \A i \in 1 .. k : P[i] = q[i]
  <2>1. PICK Q : Q = Seq(Nat)
    OBVIOUS
  <2>2. q \in Seq(Q) /\ k \in Nat /\ k >= 1 /\ k <= Len(q) /\ Len(q) \in Nat
    BY <1>1, <1>3, <2>1
  <2>3. P \in Seq(Q) /\ R \in Seq(Q) /\ Len(P) = k /\ \A i \in 1 .. k : P[i] = q[i]
    <3>1. \A i \in 1 .. Len(q) : q[i] \in Q
      BY ONLY <2>2, ElementOfSeq
    <3>2. P = [i \in 1 .. k |-> q[i]]
      BY <1>P, <2>2
    <3>3. R = [i \in 1 .. Len(q) - k |-> q[k + i]]
      <4>1. R = SubSeq(q, k + 1, Len(q))
        BY <1>P
      <4> QED BY ONLY <2>2, <4>1
    <3>4. P \in Seq(Q)
      BY ONLY <2>2, <3>1, <3>2
    <3>5. R \in Seq(Q)
      BY ONLY <2>2, <3>1, <3>3
    <3> QED BY <2>2, <3>2, <3>4, <3>5
  <2>4. SubSeq(q, 1, Len(q)) = q
    BY ONLY <2>2, SubSeqFull
  <2>5. P \o R = SubSeq(q, 1, Len(q))
    <3>1. 1 \in 1 .. Len(q) + 1 /\ k \in 1 - 1 .. Len(q) /\ Len(q) \in k .. Len(q)
      BY <2>2
    <3>2. SubSeq(q, 1, k) \o SubSeq(q, k + 1, Len(q)) = SubSeq(q, 1, Len(q))
      BY ONLY <2>2, <3>1, ConcatAdjacentSubSeq
    <3> QED BY <1>P, <3>2
  <2> QED BY <2>1, <2>3, <2>4, <2>5
<1>F. PICK front, rest : front = FlattenSeq(AllStored(m, P)) /\ rest = FlattenSeq(AllStored(m, R))
  OBVIOUS
<1>5. c = front \o rest /\ front \in Seq(Nat) /\ rest \in Seq(Nat)
  <2>1. FlattenSeq(AllStored(m, P \o R)) = front \o rest
    BY <1>1, <1>4, <1>F, AllStoredConcat
  <2>2. AllStored(m, P) \in Seq(Seq(Nat)) /\ AllStored(m, R) \in Seq(Seq(Nat))
    BY <1>1, <1>4, AllStoredType
  <2>3. front \in Seq(Nat) /\ rest \in Seq(Nat)
    BY <1>F, <2>2, FlatType
  <2> QED BY <1>1, <1>4, <2>1, <2>3
<1>6. /\ Len(front) = n + H
      /\ FlattenSeq(P) \in Seq(Nat) /\ Len(FlattenSeq(P)) = n
      /\ \A j \in 1 .. n : FlattenSeq(P)[j] = front[H + j]
  <2>1. CASE m
    <3>0. k = 1
      BY <1>0, <2>1 DEF TakenOf
    <3>1. PICK d : d = P[1] /\ d \in Seq(Nat)
      <4>1. P[1] \in Seq(Nat)
        <5>1. PICK Q : Q = Seq(Nat)
          OBVIOUS
        <5>2. P \in Seq(Q) /\ 1 \in 1 .. Len(P)
          BY <1>4, <3>0, <5>1
        <5>3. P[1] \in Q
          BY ONLY <5>2, ElementOfSeq
        <5> QED BY <5>1, <5>3
      <4> QED BY <4>1
    <3>2. P = <<d>>
      <4>1. PICK Q : Q = Seq(Nat)
        OBVIOUS
      <4>2. P \in Seq(Q) /\ Len(P) = 1 /\ P[1] = d
        BY <1>4, <3>0, <3>1, <4>1
      <4> QED BY ONLY <4>2
    <3>3. AllStored(m, P) = <<StoredAs(m, d)>>
      BY <3>2 DEF AllStored
    <3>4. /\ StoredAs(m, d) \in Seq(Nat) /\ Len(StoredAs(m, d)) = Len(d) + H
          /\ StoredAs(m, d)[1] = Len(d)
          /\ \A j \in 1 .. Len(d) : StoredAs(m, d)[H + j] = d[j]
      <4>1. m /\ d \in Seq(Nat) /\ H = sbBYTES_TO_STORE_MESSAGE_LENGTH
        BY <1>1, <2>1, <3>1
      <4>2. TRUE \in BOOLEAN /\ m = TRUE
        BY <1>1, <2>1
      <4>3. StoredAs(m, d) = StoredAs(TRUE, d)
        BY <4>2
      <4>4. /\ StoredAs(TRUE, d) \in Seq(Nat)
            /\ Len(StoredAs(TRUE, d)) = Len(d) + sbBYTES_TO_STORE_MESSAGE_LENGTH
            /\ StoredAs(TRUE, d)[1] = Len(d)
            /\ \A j \in 1 .. Len(d) : StoredAs(TRUE, d)[sbBYTES_TO_STORE_MESSAGE_LENGTH + j] = d[j]
        BY <4>1, StoredAre
      <4> QED BY <4>1, <4>3, <4>4
    <3>5. front = StoredAs(m, d) /\ FlattenSeq(P) = d
      BY <1>F, <3>1, <3>2, <3>3, <3>4, FlatOne
    <3>6. Len(d) \in Nat /\ Len(rest) \in Nat /\ 1 <= Len(front) + Len(rest) /\ 1 <= Len(front)
          /\ Len(front) \in Nat
      <4>1. /\ Len(d) \in Nat /\ Len(rest) \in Nat /\ Len(front) = Len(d) + H
            /\ H \in Nat /\ H > 0
        BY <1>1, <1>5, <2>1, <3>1, <3>4, <3>5, LenProperties
      <4> QED BY ONLY <4>1
    <3>7. c[1] = front[1]
      <4>1. \A i \in 1 .. Len(front) + Len(rest) :
              (front \o rest)[i] = IF i <= Len(front) THEN front[i] ELSE rest[i - Len(front)]
        BY <1>5, ConcatProperties
      <4>2. 1 \in 1 .. Len(front) + Len(rest)
        BY <3>6
      <4> QED BY <1>5, <3>6, <4>1, <4>2
    <3>8. c[1] = n
      <4>1. 1 \in 1 .. held /\ 1 - 1 = 0
        BY <1>1, <1>2, <1>n
      <4> QED BY <1>2, <1>n, <2>1, <4>1
    <3>9. Len(d) = n
      BY <3>4, <3>5, <3>7, <3>8
    <3> QED BY <3>1, <3>4, <3>5, <3>9
  <2>2. CASE ~m
    <3>0. k = n /\ H = 0
      BY <1>0, <1>1, <2>2 DEF TakenOf
    <3>1. AllStored(m, P) = P
      BY <1>1, <1>4, <2>2, AllStoredType
    <3>2. ASSUME NEW i \in 1 .. Len(P) PROVE Len(P[i]) = 1
      <4>1. i \in 1 .. k /\ i \in 1 .. Len(q)
        BY <1>1, <1>3, <1>4
      <4>2. P[i] = q[i]
        BY <1>4, <4>1
      <4> QED BY <1>1, <2>2, <4>1, <4>2
    <3>3. Len(FlattenSeq(P)) = Len(P) /\ FlattenSeq(P) \in Seq(Nat)
      BY <1>4, <3>2, FlatOnes, FlatType
    <3>4. front = FlattenSeq(P)
      BY <1>F, <3>1
    <3>5. n \in Nat
      BY <1>n
    <3> QED BY <1>4, <3>0, <3>3, <3>4, <3>5
  <2> QED BY <2>1, <2>2
<1>7. FirstOnes(s, q, n, P, R, front, rest)
  BY <1>0, <1>P, <1>F, <1>3, <1>4, <1>5, <1>6 DEF FirstOnes
<1> QED BY <1>7, Zenon
\* What is taken are bytes of the ring, from behind the length of the message on.
LEMMA CopiedTaken ==
  ASSUME StreamTypeOK, NEW length, NEW available, NEW data \in Seq(Nat), data = Taken(length, available),
         Len(data) + Header(sb) <= InBuffer(sb)
  PROVE  Copied(sb, data)
<1>1. /\ sb \in SbType /\ xLength \in Nat /\ xLength >= 2 /\ sb.xTail \in 0 .. xLength - 1
      /\ InBuffer(sb) \in 0 .. xLength - 1 /\ Header(sb) \in Nat /\ HeaderLength = Header(sb)
  BY Assumed, Counts, HeaderIs DEF StreamTypeOK, SbType, HeaderLength, Header
<1>2. PICK xCount, from : /\ data = ReadBytes(xCount, from) /\ from = Place(sb.xTail, HeaderLength)
  BY DEF Taken
<1>3. data = [i \in 1 .. xCount |-> sb.pucBuffer[Place(from, i - 1)]]
  BY <1>2 DEF ReadBytes
<1>4. SUFFICES ASSUME NEW j \in 1 .. Len(data)
               PROVE  data[j] = ByteAt(sb, Header(sb) + (j - 1))
  BY DEF Copied
<1>5. data[j] = sb.pucBuffer[Place(from, j - 1)]
  <2>1. DOMAIN data = 1 .. xCount
    BY <1>3
  <2>2. DOMAIN data = 1 .. Len(data)
    BY LenProperties
  <2> QED BY <1>3, <2>2
<1>6. Place(from, j - 1) = Place(sb.xTail, Header(sb) + (j - 1))
  <2>1. PICK t, h, i : t = sb.xTail /\ h = Header(sb) /\ i = j - 1
    OBVIOUS
  <2>2. /\ t \in 0 .. xLength - 1 /\ h \in Nat /\ i \in Nat /\ h + i < xLength /\ xLength \in Nat
        /\ h \in 0 .. xLength /\ i \in 0 .. xLength /\ h + i \in 0 .. xLength
    BY <1>1, <2>1
  <2>3. /\ Place(t, h) \in 0 .. xLength - 1
        /\ Place(t, h) = IF t + h < xLength THEN t + h ELSE t + h - xLength
        /\ Place(t, h + i) = IF t + (h + i) < xLength THEN t + (h + i) ELSE t + (h + i) - xLength
    BY <2>2, PlaceIs
  <2>4. PICK f : f = Place(t, h)
    OBVIOUS
  <2>5. Place(f, i) = IF f + i < xLength THEN f + i ELSE f + i - xLength
    BY <2>2, <2>3, <2>4, PlaceIs
  <2>6. Place(f, i) = Place(t, h + i)
    <3>1. PICK x, y : x = Place(f, i) /\ y = Place(t, h + i)
      OBVIOUS
    <3>2. /\ f = IF t + h < xLength THEN t + h ELSE t + h - xLength
          /\ x = IF f + i < xLength THEN f + i ELSE f + i - xLength
          /\ y = IF t + (h + i) < xLength THEN t + (h + i) ELSE t + (h + i) - xLength
      BY <2>3, <2>4, <2>5, <3>1
    <3>5. x = y
      <4>1. CASE t + h < xLength
        BY ONLY <2>2, <3>2, <4>1
      <4>2. CASE ~(t + h < xLength)
        BY ONLY <2>2, <3>2, <4>2
      <4> QED BY <4>1, <4>2
    <3> QED BY <3>1, <3>5
  <2> QED BY <1>1, <1>2, <2>1, <2>4, <2>6
<1> QED BY <1>5, <1>6 DEF ByteAt

\* They stay there for as long as they are in use.
LEMMA CopiedStill ==
  ASSUME NEW s \in SbType, NEW r \in SbType, r.isMessageBuffer = s.isMessageBuffer,
         \A o \in 0 .. InBuffer(s) - 1 : ByteAt(r, o) = ByteAt(s, o),
         NEW data, Len(data) \in Nat, Len(data) + Header(s) <= InBuffer(s), Copied(s, data)
  PROVE  Copied(r, data)
<1>1. Header(r) = Header(s) /\ Header(s) \in Nat /\ InBuffer(s) \in Nat
  BY Counts, HeaderIs DEF Header
<1>2. ASSUME NEW j \in 1 .. Len(data) PROVE data[j] = ByteAt(r, Header(r) + (j - 1))
  <2>1. Header(s) + (j - 1) \in 0 .. InBuffer(s) - 1
    BY <1>1
  <2> QED BY <1>1, <2>1 DEF Copied
<1> QED BY <1>2 DEF Copied

\* They are the messages that the history has first.
LEMMA CopiedIsFirst ==
  ASSUME NEW s \in SbType, NEW q, Holds(s, q), NEW data \in Seq(Nat), Len(data) > 0,
         Len(data) + Header(s) <= InBuffer(s), s.isMessageBuffer => Len(data) = ByteAt(s, 0),
         Copied(s, data)
  PROVE  data = FlattenSeq(SubSeq(q, 1, TakenOf(s.isMessageBuffer, Len(data))))
<1>0. PICK n, H : n = Len(data) /\ H = Header(s)
  OBVIOUS
<1>1. n \in Nat \ {0} /\ H \in Nat /\ n + H <= InBuffer(s) /\ InBuffer(s) \in Nat
  BY <1>0, Counts, HeaderIs, LenProperties
<1>2. PICK P, front, rest :
        /\ P = SubSeq(q, 1, TakenOf(s.isMessageBuffer, n))
        /\ front \in Seq(Nat) /\ rest \in Seq(Nat) /\ Len(front) = n + H
        /\ Contents(s) = front \o rest
        /\ FlattenSeq(P) \in Seq(Nat) /\ Len(FlattenSeq(P)) = n
        /\ \A j \in 1 .. n : FlattenSeq(P)[j] = front[H + j]
  <2>1. /\ s \in SbType /\ Holds(s, q) /\ n \in Nat \ {0} /\ n + Header(s) <= InBuffer(s)
        /\ s.isMessageBuffer => n = ByteAt(s, 0)
    BY <1>0, <1>1
  <2>2. PICK P, R, front, rest : FirstOnes(s, q, n, P, R, front, rest)
    BY <2>1, FirstBytes, Zenon
  <2>3. /\ P = SubSeq(q, 1, TakenOf(s.isMessageBuffer, n))
        /\ front \in Seq(Nat) /\ rest \in Seq(Nat) /\ Len(front) = n + H
        /\ Contents(s) = front \o rest
        /\ FlattenSeq(P) \in Seq(Nat) /\ Len(FlattenSeq(P)) = n
        /\ \A j \in 1 .. n : FlattenSeq(P)[j] = front[H + j]
    BY <1>0, <2>2 DEF FirstOnes
  <2> QED BY <2>3, Zenon
<1>3. PICK f : f = FlattenSeq(P)
  OBVIOUS
<1>4. ASSUME NEW j \in 1 .. n PROVE f[j] = data[j]
  <2>1. /\ H + j \in 1 .. n + H /\ H + j \in 1 .. InBuffer(s) /\ (H + j) - 1 = H + (j - 1)
    BY <1>1
  <2>2. Contents(s)[H + j] = ByteAt(s, H + (j - 1))
    BY <2>1, ContentsAre
  <2>3. (front \o rest)[H + j] = front[H + j]
    <3>1. \A i \in 1 .. Len(front) + Len(rest) :
            (front \o rest)[i] = IF i <= Len(front) THEN front[i] ELSE rest[i - Len(front)]
      BY <1>2, ConcatProperties
    <3>2. Len(rest) \in Nat /\ H + j \in 1 .. Len(front) + Len(rest) /\ H + j <= Len(front)
      BY <1>1, <1>2, <2>1, LenProperties
    <3> QED BY <3>1, <3>2
  <2>4. data[j] = ByteAt(s, H + (j - 1))
    BY <1>0 DEF Copied
  <2> QED BY <1>2, <1>3, <2>2, <2>3, <2>4
<1>5. f \in Seq(Nat) /\ data \in Seq(Nat) /\ Len(f) = Len(data) /\ \A i \in 1 .. Len(f) : f[i] = data[i]
  BY <1>0, <1>2, <1>3, <1>4
<1>6. f = data
  BY ONLY <1>5, SeqEqual
<1> QED BY <1>0, <1>2, <1>3, <1>6

\* When xTail has moved over them, the rest is in the buffer.
LEMMA HoldsReceived ==
  ASSUME NEW s \in SbType, NEW q, Holds(s, q), NEW n \in Nat \ {0}, n + Header(s) <= InBuffer(s),
         s.isMessageBuffer => n = ByteAt(s, 0),
         NEW r \in SbType, r.isMessageBuffer = s.isMessageBuffer,
         InBuffer(r) = InBuffer(s) - (n + Header(s)),
         \A o \in Nat : o + (n + Header(s)) <= xLength => ByteAt(r, o) = ByteAt(s, o + (n + Header(s)))
  PROVE  Holds(r, SubSeq(q, TakenOf(s.isMessageBuffer, n) + 1, Len(q)))
<1>0. PICK m, M, k : m = s.isMessageBuffer /\ M = n + Header(s) /\ k = TakenOf(m, n)
  OBVIOUS
<1>1. /\ InBuffer(s) \in 0 .. xLength - 1 /\ M \in Nat /\ M <= InBuffer(s) /\ xLength \in Nat
      /\ m \in BOOLEAN /\ InBuffer(r) \in Nat
  <2>1. m \in BOOLEAN
    BY <1>0 DEF SbType
  <2>2. InBuffer(s) \in 0 .. xLength - 1 /\ InBuffer(r) \in 0 .. xLength - 1
    BY Counts
  <2>3. Header(s) \in Nat /\ xLength \in Nat
    BY HeaderIs, Assumed
  <2> QED BY <1>0, <2>1, <2>2, <2>3
<1>2. PICK R, front, rest :
        /\ R = SubSeq(q, k + 1, Len(q)) /\ R \in Seq(Seq(Nat)) /\ k \in 1 .. Len(q)
        /\ front \in Seq(Nat) /\ rest \in Seq(Nat) /\ Len(front) = M
        /\ rest = FlattenSeq(AllStored(m, R))
        /\ Contents(s) = front \o rest
  <2>1. /\ s \in SbType /\ Holds(s, q) /\ n \in Nat \ {0} /\ n + Header(s) <= InBuffer(s)
        /\ s.isMessageBuffer => n = ByteAt(s, 0)
    OBVIOUS
  <2>2. k = TakenOf(s.isMessageBuffer, n)
    BY <1>0
  <2>3. PICK P, R, front, rest : FirstOnes(s, q, n, P, R, front, rest)
    BY <2>1, FirstBytes, Zenon
  <2> QED BY <1>0, <2>2, <2>3 DEF FirstOnes
<1>3. /\ Len(Contents(s)) = InBuffer(s)
      /\ \A i \in 1 .. InBuffer(s) : Contents(s)[i] = ByteAt(s, i - 1)
  BY ContentsAre
<1>4. /\ Contents(r) \in Seq(Nat) /\ Len(Contents(r)) = InBuffer(s) - M
      /\ \A i \in 1 .. InBuffer(r) : Contents(r)[i] = ByteAt(r, i - 1)
  BY <1>0, ContentsAre
<1>5. /\ Len(rest) \in Nat /\ InBuffer(s) = M + Len(rest)
      /\ \A i \in 1 .. M + Len(rest) : (front \o rest)[i] = IF i <= M THEN front[i] ELSE rest[i - M]
  <2>1. /\ Len(front \o rest) = Len(front) + Len(rest) /\ Len(rest) \in Nat
        /\ \A i \in 1 .. Len(front) + Len(rest) :
             (front \o rest)[i] = IF i <= Len(front) THEN front[i] ELSE rest[i - Len(front)]
    <3>1. front \in Seq(Nat) /\ rest \in Seq(Nat)
      BY <1>2
    <3> QED BY ONLY <3>1, ConcatProperties, LenProperties
  <2> QED BY <1>2, <1>3, <2>1
<1>6. ASSUME NEW i \in 1 .. Len(rest) PROVE Contents(r)[i] = rest[i]
  <2>1. /\ M + i \in 1 .. M + Len(rest) /\ ~(M + i <= M) /\ (M + i) - M = i
        /\ M + i \in 1 .. InBuffer(s) /\ i - 1 \in Nat /\ (i - 1) + M = (M + i) - 1 /\ (i - 1) + M <= xLength
        /\ i \in 1 .. InBuffer(r)
    <3>1. InBuffer(r) = InBuffer(s) - M
      BY <1>0
    <3>2. /\ InBuffer(s) \in 0 .. xLength - 1 /\ M \in Nat /\ xLength \in Nat /\ Len(rest) \in Nat
          /\ InBuffer(s) = M + Len(rest) /\ i \in 1 .. Len(rest)
      BY <1>1, <1>5
    <3> QED BY ONLY <3>1, <3>2
  <2>2. rest[i] = ByteAt(s, (M + i) - 1)
    BY <1>2, <1>3, <1>5, <2>1
  <2>3. ByteAt(r, i - 1) = ByteAt(s, (i - 1) + M)
    BY <1>0, <2>1
  <2> QED BY <1>4, <2>1, <2>2, <2>3
<1>7. Contents(r) = rest
  <2>1. PICK x : x = Contents(r)
    OBVIOUS
  <2>2. x \in Seq(Nat) /\ rest \in Seq(Nat) /\ Len(x) = Len(rest) /\ \A i \in 1 .. Len(x) : x[i] = rest[i]
    BY <1>1, <1>2, <1>4, <1>5, <1>6, <2>1
  <2>3. x = rest
    BY ONLY <2>2, SeqEqual
  <2> QED BY <2>1, <2>3
<1>8. ASSUME ~m, NEW i \in 1 .. Len(R) PROVE Len(R[i]) = 1
  <2>1. PICK Q : Q = Seq(Nat)
    OBVIOUS
  <2>2. q \in Seq(Q) /\ k \in Nat /\ k <= Len(q) /\ Len(q) \in Nat
    <3>1. q \in Seq(Q)
      BY <2>1 DEF Holds
    <3>2. Len(q) \in Nat
      BY ONLY <3>1, LenProperties
    <3> QED BY <1>2, <3>1, <3>2
  <2>3. R = [x \in 1 .. Len(q) - k |-> q[k + x]]
    <3>1. R = SubSeq(q, k + 1, Len(q))
      BY <1>2
    <3> QED BY ONLY <2>2, <3>1
  <2>4. i \in 1 .. Len(q) - k
    <3>1. Len(q) - k \in Nat
      BY <2>2
    <3>2. Len(R) = Len(q) - k
      BY <2>3, <3>1
    <3> QED BY <3>2
  <2>5. k + i \in 1 .. Len(q) /\ R[i] = q[k + i]
    BY <2>2, <2>3, <2>4
  <2> QED BY <1>0, <1>8, <2>5 DEF Holds
<1> QED BY <1>0, <1>2, <1>7, <1>8 DEF Holds

\* The bytes of a call, once written, lie where xHead is to move.
LEMMA InPlaceFilled ==
  ASSUME StreamTypeOK, NEW n \in Nat \ {0}, n + Header(sb) <= Room(sb)
  PROVE  InPlace(Filled(sb, n), StoredAs(sb.isMessageBuffer, DataFrom(sent, n)))
<1>0. PICK data, ring, h : /\ data = Stored(Data(n)) /\ ring = WriteBytes(data, sb.xHead)
                           /\ h = sb.xHead
  OBVIOUS
<1>1. /\ sb \in SbType /\ xLength \in Nat /\ xLength >= 2 /\ h \in 0 .. xLength - 1
      /\ Room(sb) \in 0 .. xLength - 1 /\ Header(sb) \in Nat
      /\ data \in Seq(Nat) /\ Len(data) = n + Header(sb)
  BY <1>0, Assumed, Counts, HeaderIs, StoredBytes DEF StreamTypeOK, SbType
<1>2. data = StoredAs(sb.isMessageBuffer, DataFrom(sent, n))
  BY <1>0 DEF Stored, StoredAs, Data, DataFrom
<1>3. Filled(sb, n).pucBuffer = ring /\ Filled(sb, n).xHead = h
  BY <1>0, <1>1 DEF Filled, SbType
<1>4. ASSUME NEW j \in 1 .. Len(data) PROVE ring[Place(h, j - 1)] = data[j]
  <2>1. PICK p : p = Place(h, j - 1)
    OBVIOUS
  <2>2. j - 1 \in 0 .. xLength /\ j - 1 < xLength /\ j \in Nat
    BY <1>1
  <2>3. /\ p \in 0 .. xLength - 1
        /\ p = IF h + (j - 1) < xLength THEN h + (j - 1) ELSE h + (j - 1) - xLength
    BY <1>1, <2>1, <2>2, PlaceIs
  <2>4. Ahead(p, h) = j - 1
    <3>1. Ahead(p, h) = IF p >= h THEN p - h ELSE p - h + xLength
      BY DEF Ahead
    <3>2. /\ p \in Nat /\ h \in Nat /\ h < xLength /\ p < xLength /\ xLength \in Nat /\ j \in Nat /\ j >= 1
          /\ j - 1 < xLength
      BY <1>1, <2>2, <2>3
    <3>3. CASE h + (j - 1) < xLength
      BY ONLY <2>3, <3>1, <3>2, <3>3
    <3>4. CASE ~(h + (j - 1) < xLength)
      BY ONLY <2>3, <3>1, <3>2, <3>4
    <3> QED BY <3>3, <3>4
  <2>5. (p - h) % xLength = j - 1
    BY <1>1, <2>3, <2>4, AheadIs
  <2>6. ring[p] = IF (p - h) % xLength < Len(data) THEN data[((p - h) % xLength) + 1] ELSE sb.pucBuffer[p]
    BY <1>0, <2>3 DEF WriteBytes
  <2>7. j - 1 < Len(data) /\ (j - 1) + 1 = j
    BY <1>1
  <2> QED BY <2>1, <2>5, <2>6, <2>7
<1> QED BY <1>2, <1>3, <1>4 DEF InPlace
-----------------------------------------------------------------------------
(* The steps.                                                              *)

LEMMA AllContents ==
  ASSUME Holds(sb', queued'),
         pc'["writer"] = "commit" => InPlace(sb', StoredAs(sb'.isMessageBuffer, DataFrom(sent', Sending'))),
         pc'["reader"] = "commit" => Copied(sb', receiving'.data)
  PROVE  ContentsInv'
BY DEF ContentsInv, Holds, Contents, InBuffer, ByteAt, Place, AllStored, StoredAs, LengthBytes,
       InPlace, Copied, DataFrom, Header

\* A step that leaves the ring alone, and what is copied into and out of it.
Quiet ==
  /\ SameRing(sb, sb') /\ UNCHANGED <<queued, sent>>
  /\ pc'["writer"] = "commit" => pc["writer"] = "commit" /\ sending' = sending
  /\ pc'["reader"] = "commit" => pc["reader"] = "commit" /\ receiving' = receiving

LEMMA SendingSame ==
  ASSUME sb'.isMessageBuffer = sb.isMessageBuffer, sending' = sending
  PROVE  Sending' = Sending
BY DEF Sending, Written, RequiredSpace, HeaderLength

LEMMA ReaderCopied ==
  ASSUME StreamIInv, ContentsInv, pc["reader"] = "commit"
  PROVE  /\ receiving.data \in Seq(Nat) /\ Len(receiving.data) \in Nat /\ Len(receiving.data) > 0
         /\ Len(receiving.data) + Header(sb) <= InBuffer(sb) /\ Copied(sb, receiving.data)
         /\ sb.isMessageBuffer => Len(receiving.data) = ByteAt(sb, 0)
<1>1. receiving.data \in Seq(Nat)
  BY Typed DEF ReceiveType
<1> QED BY <1>1, LenProperties DEF StreamIInv, ReaderOK, ContentsInv

LEMMA QuietKeeps ==
  ASSUME StreamIInv, ContentsInv, sb' \in SbType, Quiet
  PROVE  ContentsInv'
<1>1. sb \in SbType /\ SameRing(sb, sb') /\ sb'.isMessageBuffer = sb.isMessageBuffer
      /\ sb'.pucBuffer = sb.pucBuffer /\ sb'.xHead = sb.xHead
  BY Typed DEF Quiet, SameRing
<1>2. InBuffer(sb') = InBuffer(sb) /\ \A o : ByteAt(sb', o) = ByteAt(sb, o)
  BY <1>1, RingKept
<1>3. Holds(sb', queued')
  BY <1>1, <1>2, HoldsStill DEF ContentsInv, Quiet
<1>4. ASSUME pc'["writer"] = "commit"
      PROVE  InPlace(sb', StoredAs(sb'.isMessageBuffer, DataFrom(sent', Sending')))
  <2>1. pc["writer"] = "commit" /\ sending' = sending /\ sent' = sent
    BY <1>4 DEF Quiet
  <2>2. Sending' = Sending
    BY <1>1, <2>1, SendingSame
  <2>3. InPlace(sb, StoredAs(sb.isMessageBuffer, DataFrom(sent, Sending)))
    BY <2>1 DEF ContentsInv
  <2> QED BY <1>1, <2>1, <2>2, <2>3 DEF InPlace
<1>5. ASSUME pc'["reader"] = "commit" PROVE Copied(sb', receiving'.data)
  <2>1. pc["reader"] = "commit" /\ receiving' = receiving
    BY <1>5 DEF Quiet
  <2> QED BY <1>1, <1>2, <2>1, ReaderCopied, CopiedStill
<1> QED BY <1>3, <1>4, <1>5, AllContents

\* A task that waits, or is notified, is not copying.
LEMMA NotifyIsQuiet ==
  ASSUME NEW side \in Ends, NEW s \in SbType, NEW pcs \in [Ends -> States], Notify(s, side, pcs)
  PROVE  /\ SameRing(s, sb')
         /\ \A u \in Ends : pc'[u] = "commit" => pcs[u] = "commit"
<1>1. CASE s.waiting[side]
  <2>1. /\ sb' = [s EXCEPT !.waiting[side] = FALSE]
        /\ pc' = [pcs EXCEPT ![side] = IF @ = "blocked" THEN "woken" ELSE @]
    BY <1>1 DEF Notify
  <2>2. SameRing(s, sb')
    BY <2>1 DEF SameRing, SbType
  <2>3. ASSUME NEW u \in Ends, pc'[u] = "commit" PROVE pcs[u] = "commit"
    BY <2>1, <2>3
  <2> QED BY <2>2, <2>3
<1>2. CASE ~s.waiting[side]
  BY <1>2 DEF Notify, SameRing
<1> QED BY <1>1, <1>2
\* One side's step, to a place that is not in the middle of a copy.
LEMMA SideIsQuiet ==
  ASSUME StreamIInv, NEW side \in Ends, NEW x, x # "commit", pc' = [pc EXCEPT ![side] = x],
         SameRing(sb, sb'), UNCHANGED <<queued, sent>>,
         side = "writer" => receiving' = receiving, side = "reader" => sending' = sending
  PROVE  Quiet
<1>1. pc \in [Ends -> States] /\ Ends = {"writer", "reader"}
  BY Typed DEF Ends
<1>2. CASE side = "writer"
  BY <1>1, <1>2 DEF Quiet
<1>3. CASE side = "reader"
  BY <1>1, <1>3 DEF Quiet
<1> QED BY <1>1, <1>2, <1>3

LEMMA RegisterIsQuiet ==
  ASSUME StreamIInv, NEW side \in Ends, Register(side), UNCHANGED <<queued, sent>>,
         side = "writer" => receiving' = receiving, side = "reader" => sending' = sending
  PROVE  Quiet
<1>1. SameRing(sb, sb')
  BY Registers
<1>2. pc' = [pc EXCEPT ![side] = "wait"]
  BY DEF Register
<1> QED BY <1>1, <1>2, SideIsQuiet

LEMMA SameRingIfSame ==
  ASSUME NEW s, NEW r, r = s
  PROVE  SameRing(s, r)
BY DEF SameRing

LEMMA FieldIsQuiet ==
  ASSUME NEW s \in SbType, NEW side \in Ends, NEW b \in BOOLEAN
  PROVE  SameRing(s, [s EXCEPT !.waiting[side] = b])
BY DEF SameRing, SbType

LEMMA CheckSpaceIsQuiet ==
  ASSUME StreamIInv, NEW call, CheckSpace(call)
  PROVE  Quiet
<1>0. "writer" \in Ends /\ "writer" # "reader"
  BY DEF Ends
<1>1. UNCHANGED <<receiving, queued, sent>>
  BY DEF CheckSpace
<1>2. CASE Register("writer")
  BY <1>0, <1>1, <1>2, RegisterIsQuiet
<1>3. CASE pc' = [pc EXCEPT !["writer"] = "copy"] /\ UNCHANGED <<sb, ucNotifyState>>
  BY <1>0, <1>1, <1>3, SideIsQuiet, SameRingIfSame
<1> QED BY <1>2, <1>3 DEF CheckSpace

LEMMA SendReturnsIsQuiet ==
  ASSUME StreamIInv, SendReturns(sb)
  PROVE  Quiet
<1>0. "writer" \in Ends /\ "writer" # "reader"
  BY DEF Ends
<1> QED BY <1>0, SideIsQuiet, SameRingIfSame DEF SendReturns

LEMMA WriterIsQuiet ==
  ASSUME StreamIInv,
         xStreamBufferSend \/ SendAgain \/ SendWaited \/ SendSpace \/ SendTrigger \/ SendNotify
  PROVE  Quiet
<1>0. "writer" \in Ends /\ "reader" \in Ends /\ "writer" # "reader"
  BY DEF Ends
<1>1. sb \in SbType /\ pc \in [Ends -> States]
  BY Typed
<1>2. CASE xStreamBufferSend
  <2>1. PICK n \in SendLengths, block \in {"no", "timed", "forever"} :
          LET call == [NotSending EXCEPT !.length = n, !.block = block]
          IN IF block # "no" /\ Fits(n) THEN CheckSpace(call)
             ELSE /\ pc' = [pc EXCEPT !["writer"] = "space"]
                  /\ sending' = call
                  /\ UNCHANGED <<sb, receiving, ucNotifyState, queued, sent>>
    BY <1>2 DEF xStreamBufferSend
  <2>2. CASE block # "no" /\ Fits(n)
    <3>1. PICK call : CheckSpace(call)
      BY <2>1, <2>2
    <3> QED BY <3>1, CheckSpaceIsQuiet
  <2>3. CASE ~(block # "no" /\ Fits(n))
    BY <1>0, <2>1, <2>3, SideIsQuiet, SameRingIfSame
  <2> QED BY <2>2, <2>3
<1>3. CASE SendAgain
  BY <1>3, CheckSpaceIsQuiet DEF SendAgain
<1>4. CASE SendWaited
  <2>1. PICK x : x # "commit" /\ pc' = [pc EXCEPT !["writer"] = x]
    BY <1>4 DEF SendWaited
  <2>2. SameRing(sb, sb')
    BY <1>0, <1>1, <1>4, FieldIsQuiet DEF SendWaited
  <2> QED BY <1>0, <1>4, <2>1, <2>2, SideIsQuiet DEF SendWaited
<1>5. CASE SendSpace
  BY <1>0, <1>5, SideIsQuiet, SameRingIfSame DEF SendSpace
<1>6. CASE SendTrigger
  <2>1. CASE Triggered(sb)
    BY <1>0, <1>6, <2>1, SideIsQuiet, SameRingIfSame DEF SendTrigger
  <2>2. CASE ~Triggered(sb)
    BY <1>6, <2>2, SendReturnsIsQuiet DEF SendTrigger
  <2> QED BY <2>1, <2>2
<1>7. CASE SendNotify
  <2>1. PICK pcs : pcs = [pc EXCEPT !["writer"] = "app"]
    OBVIOUS
  <2>2. pcs \in [Ends -> States] /\ pcs["writer"] = "app" /\ pcs["reader"] = pc["reader"]
    BY <1>0, <1>1, <2>1 DEF States
  <2>3. Notify(sb, "reader", pcs) /\ UNCHANGED <<receiving, queued, sent>>
    BY <1>7, <2>1 DEF SendNotify
  <2>4. SameRing(sb, sb') /\ \A u \in Ends : pc'[u] = "commit" => pcs[u] = "commit"
    BY <1>0, <1>1, <2>2, <2>3, NotifyIsQuiet
  <2> QED BY <1>0, <2>2, <2>3, <2>4 DEF Quiet
<1> QED BY <1>2, <1>3, <1>4, <1>5, <1>6, <1>7

LEMMA FoundIsQuiet ==
  ASSUME StreamIInv, NEW call, Found(call), SameRing(sb, sb'), UNCHANGED <<sending, queued, sent>>
  PROVE  Quiet
<1>0. "reader" \in Ends /\ "writer" # "reader"
  BY DEF Ends
<1>1. PICK x : /\ x = IF call.xBytesAvailable > HeaderLength THEN "copy" ELSE "app"
              /\ pc' = [pc EXCEPT !["reader"] = x]
  BY DEF Found
<1>2. x # "commit"
  BY <1>1
<1> QED BY <1>0, <1>1, <1>2, SideIsQuiet

LEMMA ReaderIsQuiet ==
  ASSUME StreamIInv, xStreamBufferReceive \/ ReceiveWaited \/ ReceiveNotify
  PROVE  Quiet
<1>0. "writer" \in Ends /\ "reader" \in Ends /\ "writer" # "reader"
  BY DEF Ends
<1>1. sb \in SbType /\ pc \in [Ends -> States]
  BY Typed
<1>2. CASE xStreamBufferReceive
  <2>1. UNCHANGED <<sending, queued, sent>>
    BY <1>2 DEF xStreamBufferReceive
  <2>2. PICK n \in ReceiveLengths, block \in {"no", "timed", "forever"} :
          LET call == [NotReceiving EXCEPT !.length = n, !.block = block,
                                           !.xBytesAvailable = BytesInBuffer(sb)]
          IN IF block # "no" /\ BytesInBuffer(sb) <= HeaderLength
               THEN Register("reader") /\ receiving' = call
               ELSE Found(call) /\ UNCHANGED <<sb, ucNotifyState>>
    BY <1>2 DEF xStreamBufferReceive
  <2>3. CASE block # "no" /\ BytesInBuffer(sb) <= HeaderLength
    <3>1. Register("reader")
      BY <2>2, <2>3
    <3> QED BY <1>0, <2>1, <3>1, RegisterIsQuiet
  <2>4. CASE ~(block # "no" /\ BytesInBuffer(sb) <= HeaderLength)
    <3>1. PICK call : Found(call) /\ sb' = sb
      BY <2>2, <2>4
    <3> QED BY <2>1, <3>1, FoundIsQuiet, SameRingIfSame
  <2> QED BY <2>3, <2>4
<1>3. CASE ReceiveWaited
  <2>1. SameRing(sb, sb')
    BY <1>0, <1>1, <1>3, FieldIsQuiet DEF ReceiveWaited
  <2>2. PICK call : Found(call)
    BY <1>3 DEF ReceiveWaited
  <2> QED BY <1>3, <2>1, <2>2, FoundIsQuiet DEF ReceiveWaited
<1>4. CASE ReceiveNotify
  <2>1. PICK pcs : pcs = [pc EXCEPT !["reader"] = "app"]
    OBVIOUS
  <2>2. pcs \in [Ends -> States] /\ pcs["reader"] = "app" /\ pcs["writer"] = pc["writer"]
    BY <1>0, <1>1, <2>1 DEF States
  <2>3. Notify(sb, "writer", pcs) /\ UNCHANGED <<sending, receiving, queued, sent>>
    BY <1>4, <2>1 DEF ReceiveNotify
  <2>4. SameRing(sb, sb') /\ \A u \in Ends : pc'[u] = "commit" => pcs[u] = "commit"
    BY <1>0, <1>1, <2>2, <2>3, NotifyIsQuiet
  <2> QED BY <1>0, <2>2, <2>3, <2>4 DEF Quiet
<1> QED BY <1>2, <1>3, <1>4

LEMMA WaitIsQuiet ==
  ASSUME StreamIInv, NEW t \in Ends,
         NotifyWait(t) \/ NotifyWaited(t) \/ NotifyTimeOut(t) \/ CompletedFromISR(t)
  PROVE  Quiet
<1>0. "writer" \in Ends /\ "reader" \in Ends /\ Ends = {"writer", "reader"}
  BY DEF Ends
<1>1. sb \in SbType /\ pc \in [Ends -> States]
  BY Typed
<1>2. CASE NotifyWait(t)
  <2>1. PICK x : x # "commit" /\ pc' = [pc EXCEPT ![t] = x]
    BY <1>2 DEF NotifyWait
  <2> QED BY <1>2, <2>1, SideIsQuiet, SameRingIfSame DEF NotifyWait
<1>3. CASE NotifyWaited(t)
  BY <1>3, SideIsQuiet, SameRingIfSame DEF NotifyWaited
<1>4. CASE NotifyTimeOut(t)
  <2>1. pc' = [pc EXCEPT ![t] = "woken"] /\ UNCHANGED <<sb, receiving, queued, sent>>
        /\ (t # "writer" => sending' = sending)
    BY <1>4 DEF NotifyTimeOut
  <2> QED BY <2>1, SideIsQuiet, SameRingIfSame
<1>5. CASE CompletedFromISR(t)
  <2>1. Notify(sb, t, pc) /\ UNCHANGED <<sending, receiving, queued, sent>>
    BY <1>5 DEF CompletedFromISR
  <2>2. SameRing(sb, sb') /\ \A u \in Ends : pc'[u] = "commit" => pc[u] = "commit"
    BY <1>1, <2>1, NotifyIsQuiet
  <2> QED BY <1>0, <2>1, <2>2 DEF Quiet
<1> QED BY <1>2, <1>3, <1>4, <1>5
LEMMA SendCopyFills == StreamIInv /\ ContentsInv /\ SendCopy /\ sb' \in SbType => ContentsInv'
<1> SUFFICES ASSUME StreamIInv, ContentsInv, SendCopy, sb' \in SbType
             PROVE  ContentsInv'
  OBVIOUS
<1>1. CASE Sending = 0
  BY <1>1, SendReturnsIsQuiet, QuietKeeps DEF SendCopy
<1>2. CASE Sending # 0
  <2>1. PICK n : n = Sending
    OBVIOUS
  <2>2. /\ sb' = Filled(sb, n) /\ pc' = [pc EXCEPT !["writer"] = "commit"]
        /\ UNCHANGED <<sending, receiving, queued, sent>>
    BY <1>2, <2>1 DEF SendCopy
  <2>3. /\ StreamTypeOK /\ sb \in SbType /\ n \in Nat \ {0} /\ n + Header(sb) <= Room(sb)
    <3>1. pc["writer"] = "copy" /\ sending \in SendType /\ StreamTypeOK /\ sb \in SbType
      BY Typed DEF SendCopy
    <3>2. sending.xSpace <= Room(sb) /\ sending.length \in Nat /\ sending.xSpace \in Nat
      BY <3>1 DEF StreamIInv, WriterOK, SendType
    <3> QED BY <1>2, <2>1, <3>1, <3>2, SendingFits DEF Sending
  <2>4. /\ InBuffer(sb') = InBuffer(sb) /\ sb'.isMessageBuffer = sb.isMessageBuffer
        /\ \A o \in 0 .. InBuffer(sb) - 1 : ByteAt(sb', o) = ByteAt(sb, o)
    BY <2>2, <2>3, FilledRing
  <2>5. Holds(sb', queued')
    BY <2>2, <2>3, <2>4, HoldsStill DEF ContentsInv
  <2>6. InPlace(sb', StoredAs(sb'.isMessageBuffer, DataFrom(sent', Sending')))
    <3>1. InPlace(sb', StoredAs(sb.isMessageBuffer, DataFrom(sent, n)))
      BY <2>2, <2>3, InPlaceFilled
    <3>2. Sending' = n
      BY <2>1, <2>2, <2>4, SendingSame
    <3> QED BY <2>2, <2>4, <3>1, <3>2
  <2>7. ASSUME pc'["reader"] = "commit" PROVE Copied(sb', receiving'.data)
    <3>1. pc["reader"] = "commit"
      BY <2>2, <2>7, Typed DEF Ends
    <3> QED BY <2>2, <2>3, <2>4, <3>1, ReaderCopied, CopiedStill
  <2> QED BY <2>5, <2>6, <2>7, AllContents
<1> QED BY <1>1, <1>2

\* xHead moves on, over the bytes that lie there.
LEMMA HoldsThen ==
  ASSUME NEW s \in SbType, s.isMessageBuffer = sb.isMessageBuffer, NEW q, Holds(s, q), WholeMessages(s),
         NEW n \in Nat \ {0}, n + Header(s) <= Room(s), sent \in Nat,
         s.isMessageBuffer => s.pucBuffer[s.xHead] = n,
         InPlace(s, StoredAs(s.isMessageBuffer, DataFrom(sent, n)))
  PROVE  Holds(Sent(s, n), q \o Messages(Data(n)))
<1>1. PICK r, d : r = Sent(s, n) /\ d = DataFrom(sent, n)
  OBVIOUS
<1>2. /\ r \in SbType /\ InBuffer(r) = InBuffer(s) + (n + Header(s))
      /\ r.isMessageBuffer = s.isMessageBuffer
  BY <1>1, SentMoves
<1>3. r.pucBuffer = s.pucBuffer /\ r.xTail = s.xTail
  BY <1>1 DEF Sent, SbType
<1>4. d \in Seq(Nat) /\ Len(d) = n
  <2>1. \A i \in 1 .. n : (sent + i) % Bytes \in Nat
    BY Assumed
  <2> QED BY <1>1, <2>1 DEF DataFrom
<1>5. Len(StoredAs(s.isMessageBuffer, d)) = n + Header(s)
  <2>1. s.isMessageBuffer \in BOOLEAN
    BY DEF SbType
  <2> QED BY <1>4, <2>1, StoredAre DEF Header
<1>6. InPlace(s, StoredAs(s.isMessageBuffer, d))
  BY <1>1
<1>7. Holds(r, q \o MessagesOf(s.isMessageBuffer, d))
  BY <1>2, <1>3, <1>4, <1>5, <1>6, HoldsSent
<1>8. MessagesOf(s.isMessageBuffer, d) = Messages(Data(n))
  BY <1>1 DEF MessagesOf, Messages, Data, DataFrom
<1> QED BY <1>1, <1>7, <1>8

LEMMA SendCommitSends == StreamIInv /\ ContentsInv /\ SendCommit /\ sb' \in SbType => ContentsInv'
<1> SUFFICES ASSUME StreamIInv, ContentsInv, SendCommit, sb' \in SbType
             PROVE  ContentsInv'
  OBVIOUS
<1>1. PICK n : n = Sending
  OBVIOUS
<1>2. /\ pc["writer"] = "commit" /\ sb' = Sent(sb, n) /\ queued' = queued \o Messages(Data(n))
      /\ pc' = [pc EXCEPT !["writer"] = "trigger"] /\ UNCHANGED <<sending, receiving>>
  BY <1>1 DEF SendCommit, AsSent
<1>3. sb \in SbType /\ sending \in SendType /\ sent \in Nat /\ WholeMessages(sb) /\ pc \in [Ends -> States]
  BY Typed DEF StreamIInv
<1>4. /\ n \in Nat \ {0} /\ n + Header(sb) <= Room(sb)
      /\ sb.isMessageBuffer => sb.pucBuffer[sb.xHead] = n
  <2>1. sending.xSpace <= Room(sb) /\ sending.length \in Nat /\ sending.xSpace \in Nat /\ n > 0
    BY <1>1, <1>2, <1>3 DEF StreamIInv, WriterOK, SendType
  <2>2. sb.isMessageBuffer => sb.pucBuffer[sb.xHead] = n
    BY <1>1, <1>2 DEF StreamIInv, WriterOK
  <2> QED BY <1>1, <1>3, <2>1, <2>2, SendingFits DEF Sending
<1>5. Holds(sb', queued')
  <2>1. Holds(sb, queued) /\ InPlace(sb, StoredAs(sb.isMessageBuffer, DataFrom(sent, n)))
    BY <1>1, <1>2 DEF ContentsInv
  <2> QED BY <1>2, <1>3, <1>4, <2>1, HoldsThen
<1>6. pc'["writer"] # "commit" /\ pc'["reader"] = pc["reader"]
  BY <1>2, <1>3 DEF Ends
<1>7. ASSUME pc'["reader"] = "commit" PROVE Copied(sb', receiving'.data)
  <2>1. sb'.isMessageBuffer = sb.isMessageBuffer /\ \A o : ByteAt(sb', o) = ByteAt(sb, o)
    BY <1>2, <1>3, <1>4, SentMoves
  <2> QED BY <1>2, <1>3, <1>6, <1>7, <2>1, ReaderCopied, CopiedStill
<1> QED BY <1>5, <1>6, <1>7, AllContents

LEMMA SendFromISRSends ==
  StreamIInv /\ ContentsInv /\ xStreamBufferSendFromISR /\ sb' \in SbType => ContentsInv'
<1> SUFFICES ASSUME StreamIInv, ContentsInv, xStreamBufferSendFromISR, sb' \in SbType
             PROVE  ContentsInv'
  OBVIOUS
<1>0. "writer" \in Ends /\ "reader" \in Ends
  BY DEF Ends
<1>1. /\ sb \in SbType /\ StreamTypeOK /\ sent \in Nat /\ pc \in [Ends -> States] /\ WholeMessages(sb)
      /\ SpacesAvailable = Room(sb) /\ Room(sb) \in Nat /\ InBuffer(sb) \in Nat
  BY Typed DEF StreamIInv
<1>2. pc["writer"] = "app" /\ receiving' = receiving
  BY DEF xStreamBufferSendFromISR
<1>3. PICK length \in SendLengths :
        LET n == Written(length, SpacesAvailable)
            s == Sent(Filled(sb, n), n)
        IN /\ n > 0
           /\ IF Triggered(s) THEN Notify(s, "reader", pc)
              ELSE sb' = s /\ UNCHANGED <<pc, ucNotifyState>>
           /\ AsSent(n)
  BY DEF xStreamBufferSendFromISR
<1>4. PICK n : n = Written(length, SpacesAvailable)
  OBVIOUS
<1>5. PICK f, s : f = Filled(sb, n) /\ s = Sent(f, n)
  OBVIOUS
<1>6. /\ n > 0 /\ queued' = queued \o Messages(Data(n))
      /\ IF Triggered(s) THEN Notify(s, "reader", pc) ELSE sb' = s /\ UNCHANGED <<pc, ucNotifyState>>
  BY <1>3, <1>4, <1>5 DEF AsSent
<1>7. n \in Nat \ {0} /\ n + Header(sb) <= Room(sb)
  <2>1. length \in Nat /\ Room(sb) <= Room(sb)
    BY <1>1, Assumed
  <2>2. n \in Nat /\ (n # 0 => n + Header(sb) <= Room(sb))
    BY <1>1, <1>4, <2>1, SendingFits
  <2> QED BY <1>6, <2>2
<1>8. /\ f \in SbType /\ InBuffer(f) = InBuffer(sb) /\ Room(f) = Room(sb)
      /\ f.isMessageBuffer = sb.isMessageBuffer
      /\ \A o \in 0 .. InBuffer(sb) - 1 : ByteAt(f, o) = ByteAt(sb, o)
      /\ sb.isMessageBuffer => f.pucBuffer[f.xHead] = n
  BY <1>1, <1>5, <1>7, FilledRing
<1>9. Header(f) = Header(sb) /\ WholeMessages(f)
  BY <1>1, <1>8, WholeFilled DEF Header
<1>10. Holds(s, queued')
  <2>1. Holds(f, queued)
    BY <1>1, <1>8, HoldsStill DEF ContentsInv
  <2>2. InPlace(f, StoredAs(f.isMessageBuffer, DataFrom(sent, n)))
    BY <1>1, <1>5, <1>7, <1>8, InPlaceFilled
  <2> QED BY <1>1, <1>5, <1>6, <1>7, <1>8, <1>9, <2>1, <2>2, HoldsThen
<1>11. /\ s \in SbType /\ s.isMessageBuffer = f.isMessageBuffer
       /\ \A o : ByteAt(s, o) = ByteAt(f, o)
  BY <1>5, <1>7, <1>8, <1>9, SentMoves
<1>12. /\ SameRing(s, sb')
       /\ \A u \in Ends : pc'[u] = "commit" => pc[u] = "commit"
  <2>1. CASE Triggered(s)
    BY <1>0, <1>1, <1>6, <1>11, <2>1, NotifyIsQuiet
  <2>2. CASE ~Triggered(s)
    BY <1>6, <2>2, SameRingIfSame
  <2> QED BY <2>1, <2>2
<1>13. InBuffer(sb') = InBuffer(s) /\ sb'.isMessageBuffer = s.isMessageBuffer
       /\ \A o : ByteAt(sb', o) = ByteAt(s, o)
  BY <1>12, RingKept DEF SameRing
<1>14. Holds(sb', queued')
  BY <1>10, <1>11, <1>13, HoldsStill
<1>15. ASSUME pc'["reader"] = "commit" PROVE Copied(sb', receiving'.data)
  <2>1. pc["reader"] = "commit"
    BY <1>0, <1>12, <1>15
  <2>2. sb'.isMessageBuffer = sb.isMessageBuffer /\ \A o \in 0 .. InBuffer(sb) - 1 : ByteAt(sb', o) = ByteAt(sb, o)
    BY <1>8, <1>11, <1>13
  <2> QED BY <1>1, <1>2, <2>1, <2>2, ReaderCopied, CopiedStill
<1>16. pc'["writer"] # "commit"
  BY <1>0, <1>2, <1>12
<1> QED BY <1>14, <1>15, <1>16, AllContents
LEMMA ReceiveCopyReads == StreamIInv /\ ContentsInv /\ ReceiveCopy /\ sb' \in SbType => ContentsInv'
<1> SUFFICES ASSUME StreamIInv, ContentsInv, ReceiveCopy, sb' \in SbType
             PROVE  ContentsInv'
  OBVIOUS
<1>0. "writer" \in Ends /\ "reader" \in Ends /\ "writer" # "reader"
  BY DEF Ends
<1>1. /\ pc["reader"] = "copy" /\ StreamTypeOK /\ receiving \in ReceiveType /\ pc \in [Ends -> States]
      /\ sb' = sb /\ sending' = sending /\ queued' = queued /\ sent' = sent
  BY Typed DEF ReceiveCopy
<1>2. PICK data : data = Taken(receiving.length, receiving.xBytesAvailable)
  OBVIOUS
<1>3. /\ data \in Seq(Nat)
      /\ data # <<>> => Len(data) > 0 /\ Len(data) + Header(sb) <= InBuffer(sb)
  <2>1. receiving.length \in Nat /\ receiving.xBytesAvailable \in Nat
    BY <1>1 DEF ReceiveType
  <2>2. /\ Header(sb) < receiving.xBytesAvailable /\ receiving.xBytesAvailable <= InBuffer(sb)
        /\ sb.isMessageBuffer => Header(sb) + ByteAt(sb, 0) <= receiving.xBytesAvailable
    BY <1>1 DEF StreamIInv, ReaderOK
  <2> QED BY <1>1, <1>2, <2>1, <2>2, TakenBytes
<1>4. CASE data = <<>>
  <2>1. pc' = [pc EXCEPT !["reader"] = "app"]
    BY <1>2, <1>4 DEF ReceiveCopy
  <2> QED BY <1>0, <1>1, <2>1, SideIsQuiet, SameRingIfSame, QuietKeeps
<1>5. CASE data # <<>>
  <2>1. receiving' = [receiving EXCEPT !.data = data] /\ pc' = [pc EXCEPT !["reader"] = "commit"]
    BY <1>2, <1>5 DEF ReceiveCopy
  <2>2. receiving'.data = data
    BY <1>1, <2>1 DEF ReceiveType
  <2>3. Copied(sb, data)
    BY <1>1, <1>2, <1>3, <1>5, CopiedTaken
  <2>4. Holds(sb', queued')
    BY <1>1 DEF ContentsInv
  <2>5. ASSUME pc'["writer"] = "commit"
        PROVE  InPlace(sb', StoredAs(sb'.isMessageBuffer, DataFrom(sent', Sending')))
    <3>1. pc["writer"] = "commit"
      BY <1>0, <1>1, <2>1, <2>5
    <3>2. Sending' = Sending
      BY <1>1, SendingSame
    <3> QED BY <1>1, <3>1, <3>2 DEF ContentsInv
  <2>6. Copied(sb', receiving'.data)
    BY <1>1, <2>2, <2>3
  <2> QED BY <2>4, <2>5, <2>6, AllContents
<1> QED BY <1>4, <1>5

\* xTail moves on, over bytes the reader has.
LEMMA HoldsLess ==
  ASSUME StreamIInv, ContentsInv, NEW n \in Nat \ {0}, n + Header(sb) <= InBuffer(sb),
         sb.isMessageBuffer => n = ByteAt(sb, 0), AsReceived(n)
  PROVE  Holds(Received(sb, n), queued')
<1>1. PICK r, M : r = Received(sb, n) /\ M = n + HeaderLength
  OBVIOUS
<1>2. /\ sb \in SbType /\ M = n + Header(sb) /\ M \in 0 .. InBuffer(sb) /\ Holds(sb, queued)
  BY <1>1, Typed DEF ContentsInv
<1>3. r = [sb EXCEPT !.xTail = Place(sb.xTail, M)]
  BY <1>1 DEF Received
<1>4. /\ r \in SbType /\ InBuffer(r) = InBuffer(sb) - M /\ r.isMessageBuffer = sb.isMessageBuffer
      /\ \A o \in Nat : o + M <= xLength => ByteAt(r, o) = ByteAt(sb, o + M)
  BY <1>2, <1>3, TailMoves
<1>5. Holds(r, SubSeq(queued, TakenOf(sb.isMessageBuffer, n) + 1, Len(queued)))
  BY <1>2, <1>4, HoldsReceived
<1>6. queued' = SubSeq(queued, TakenOf(sb.isMessageBuffer, n) + 1, Len(queued))
  <2>1. CASE sb.isMessageBuffer
    <3>1. queued' = Tail(queued)
      BY <2>1 DEF AsReceived
    <3>2. TakenOf(sb.isMessageBuffer, n) + 1 = 2
      BY <2>1 DEF TakenOf
    <3>3. Tail(queued) = SubSeq(queued, 2, Len(queued))
      <4>1. PICK Q : queued \in Seq(Q)
        BY <1>2 DEF Holds
      <4>2. queued # <<>>
        <5>1. PICK P, R, front, rest : FirstOnes(sb, queued, n, P, R, front, rest)
          BY <1>2, FirstBytes, Zenon
        <5>2. TakenOf(sb.isMessageBuffer, n) \in 1 .. Len(queued)
          BY <5>1 DEF FirstOnes
        <5> QED BY <2>1, <5>2 DEF TakenOf
      <4> QED BY ONLY <4>1, <4>2, TailIsSubSeq
    <3> QED BY <3>1, <3>2, <3>3
  <2>2. CASE ~sb.isMessageBuffer
    BY <2>2 DEF AsReceived, TakenOf
  <2> QED BY <2>1, <2>2
<1> QED BY <1>1, <1>5, <1>6

LEMMA ReceiveCommitReceives == StreamIInv /\ ContentsInv /\ ReceiveCommit /\ sb' \in SbType => ContentsInv'
<1> SUFFICES ASSUME StreamIInv, ContentsInv, ReceiveCommit, sb' \in SbType
             PROVE  ContentsInv'
  OBVIOUS
<1>1. PICK n : n = Len(receiving.data)
  OBVIOUS
<1>2. /\ pc["reader"] = "commit" /\ sb' = Received(sb, n) /\ pc' = [pc EXCEPT !["reader"] = "notify"]
      /\ AsReceived(n) /\ sending' = sending /\ sent' = sent
  BY <1>1 DEF ReceiveCommit
<1>3. sb \in SbType /\ WholeMessages(sb) /\ pc \in [Ends -> States]
  BY Typed DEF StreamIInv
<1>4. n \in Nat \ {0} /\ n + Header(sb) <= InBuffer(sb) /\ (sb.isMessageBuffer => n = ByteAt(sb, 0))
  BY <1>1, <1>2, ReaderCopied
<1>5. Holds(sb', queued')
  BY <1>2, <1>4, HoldsLess
<1>6. sb'.isMessageBuffer = sb.isMessageBuffer /\ sb'.pucBuffer = sb.pucBuffer /\ sb'.xHead = sb.xHead
  BY <1>2, <1>3, <1>4, ReceivedMoves
<1>7. pc'["reader"] # "commit" /\ pc'["writer"] = pc["writer"]
  BY <1>2, <1>3 DEF Ends
<1>8. ASSUME pc'["writer"] = "commit"
      PROVE  InPlace(sb', StoredAs(sb'.isMessageBuffer, DataFrom(sent', Sending')))
  <2>1. Sending' = Sending
    BY <1>2, <1>6, SendingSame
  <2> QED BY <1>2, <1>6, <1>7, <1>8, <2>1 DEF ContentsInv, InPlace
<1> QED BY <1>5, <1>7, <1>8, AllContents

LEMMA ReceiveFromISRReceives ==
  StreamIInv /\ ContentsInv /\ xStreamBufferReceiveFromISR /\ sb' \in SbType => ContentsInv'
<1> SUFFICES ASSUME StreamIInv, ContentsInv, xStreamBufferReceiveFromISR, sb' \in SbType
             PROVE  ContentsInv'
  OBVIOUS
<1>0. "writer" \in Ends /\ "reader" \in Ends
  BY DEF Ends
<1>1. /\ sb \in SbType /\ StreamTypeOK /\ pc \in [Ends -> States] /\ WholeMessages(sb)
      /\ InBuffer(sb) \in Nat /\ Header(sb) \in Nat
      /\ BytesInBuffer(sb) = InBuffer(sb) /\ HeaderLength = Header(sb)
  BY Typed DEF StreamIInv
<1>2. pc["reader"] = "app" /\ sending' = sending /\ sent' = sent /\ Header(sb) < InBuffer(sb)
  BY <1>1 DEF xStreamBufferReceiveFromISR
<1>3. PICK length \in ReceiveLengths :
        LET n == Len(Taken(length, BytesInBuffer(sb)))
        IN n > 0 /\ Notify(Received(sb, n), "writer", pc) /\ AsReceived(n)
  BY DEF xStreamBufferReceiveFromISR
<1>4. PICK data : data = Taken(length, InBuffer(sb))
  OBVIOUS
<1>5. PICK n, s : n = Len(data) /\ s = Received(sb, n)
  OBVIOUS
<1>6. n > 0 /\ Notify(s, "writer", pc) /\ AsReceived(n)
  BY <1>1, <1>3, <1>4, <1>5
<1>7. n \in Nat \ {0} /\ n + Header(sb) <= InBuffer(sb) /\ (sb.isMessageBuffer => n = ByteAt(sb, 0))
  <2>1. length \in Nat /\ InBuffer(sb) <= InBuffer(sb)
    BY <1>1, Assumed
  <2>2. sb.isMessageBuffer => Header(sb) + ByteAt(sb, 0) <= InBuffer(sb)
    BY <1>1, <1>2, FoundBytes
  <2>3. /\ data \in Seq(Nat) /\ Len(data) \in Nat
        /\ data # <<>> => /\ Len(data) > 0 /\ Len(data) + Header(sb) <= InBuffer(sb)
                          /\ sb.isMessageBuffer => Len(data) = ByteAt(sb, 0)
        /\ data = <<>> => Len(data) = 0
    BY <1>1, <1>2, <1>4, <2>1, <2>2, TakenBytes
  <2> QED BY <1>5, <1>6, <2>3
<1>8. Holds(s, queued')
  BY <1>5, <1>6, <1>7, HoldsLess
<1>9. /\ s \in SbType /\ s.isMessageBuffer = sb.isMessageBuffer
      /\ s.pucBuffer = sb.pucBuffer /\ s.xHead = sb.xHead
  BY <1>1, <1>5, <1>7, ReceivedMoves
<1>10. /\ SameRing(s, sb')
       /\ \A u \in Ends : pc'[u] = "commit" => pc[u] = "commit"
  BY <1>0, <1>1, <1>6, <1>9, NotifyIsQuiet
<1>11. /\ sb'.isMessageBuffer = s.isMessageBuffer /\ sb'.pucBuffer = s.pucBuffer /\ sb'.xHead = s.xHead
       /\ InBuffer(sb') = InBuffer(s) /\ \A o : ByteAt(sb', o) = ByteAt(s, o)
  BY <1>10, RingKept DEF SameRing
<1>12. Holds(sb', queued')
  BY <1>8, <1>9, <1>11, HoldsStill
<1>13. pc'["reader"] # "commit" /\ (pc'["writer"] = "commit" => pc["writer"] = "commit")
  BY <1>0, <1>2, <1>10
<1>14. ASSUME pc'["writer"] = "commit"
       PROVE  InPlace(sb', StoredAs(sb'.isMessageBuffer, DataFrom(sent', Sending')))
  <2>1. Sending' = Sending
    BY <1>2, <1>9, <1>11, SendingSame
  <2> QED BY <1>2, <1>9, <1>11, <1>13, <1>14, <2>1 DEF ContentsInv, InPlace
<1> QED BY <1>12, <1>13, <1>14, AllContents

LEMMA NothingHeld ==
  ASSUME NEW s \in SbType, InBuffer(s) = 0
  PROVE  Holds(s, <<>>)
<1>1. AllStored(s.isMessageBuffer, <<>>) = <<>>
  BY DEF AllStored
<1>2. Contents(s) = <<>>
  BY DEF Contents
<1> QED BY <1>1, <1>2, FlatEmpty DEF Holds

LEMMA InitContents == StreamInit => ContentsInv
<1> SUFFICES ASSUME StreamInit
             PROVE  ContentsInv
  OBVIOUS
<1>1. PICK isMessageBuffer \in BOOLEAN :
        sb = New(isMessageBuffer, Level(0), [i \in 0 .. xLength - 1 |-> 0])
  BY DEF StreamInit
<1>2. sb \in SbType /\ sb.xHead = 0 /\ sb.xTail = 0
  BY <1>1, Assumed DEF New, Level, SbType
<1>3. Holds(sb, queued)
  <2>1. InBuffer(sb) = 0
    BY <1>2 DEF InBuffer
  <2> QED BY <1>2, <2>1, NothingHeld DEF StreamInit
<1> QED BY <1>3 DEF ContentsInv, StreamInit, Ends

LEMMA ResetEmpties == StreamIInv /\ ContentsInv /\ xStreamBufferReset /\ sb' \in SbType => ContentsInv'
<1> SUFFICES ASSUME xStreamBufferReset, sb' \in SbType
             PROVE  ContentsInv'
  OBVIOUS
<1>1. pc'["writer"] # "commit" /\ pc'["reader"] # "commit"
  BY DEF xStreamBufferReset, Ends
<1>2. InBuffer(sb') = 0
  BY DEF xStreamBufferReset, New, InBuffer
<1>3. Holds(sb', queued')
  BY <1>2, NothingHeld DEF xStreamBufferReset
<1> QED BY <1>1, <1>3, AllContents

LEMMA NextContents == StreamIInv /\ ContentsInv /\ [StreamNext]_streamVars => ContentsInv'
<1> SUFFICES ASSUME StreamIInv, ContentsInv, [StreamNext]_streamVars
             PROVE  ContentsInv'
  OBVIOUS
<1>1. sb' \in SbType
  BY NextIInv, Typed DEF StreamIInv, StreamTypeOK, SbType
<1>2. CASE \/ xStreamBufferSend \/ SendAgain \/ SendWaited \/ SendSpace \/ SendCopy \/ SendCommit
           \/ SendTrigger \/ SendNotify \/ xStreamBufferSendFromISR
  BY <1>1, <1>2, WriterIsQuiet, QuietKeeps, SendCopyFills, SendCommitSends, SendFromISRSends
<1>3. CASE \/ xStreamBufferReceive \/ ReceiveWaited \/ ReceiveCopy \/ ReceiveCommit
           \/ ReceiveNotify \/ xStreamBufferReceiveFromISR
  BY <1>1, <1>3, ReaderIsQuiet, QuietKeeps, ReceiveCopyReads, ReceiveCommitReceives,
     ReceiveFromISRReceives
<1>4. ASSUME NEW t \in Ends,
             NotifyWait(t) \/ NotifyWaited(t) \/ NotifyTimeOut(t) \/ CompletedFromISR(t)
      PROVE  ContentsInv'
  BY <1>1, <1>4, WaitIsQuiet, QuietKeeps
<1>5. CASE xStreamBufferSetTriggerLevel
  <2>1. SameRing(sb, sb')
    BY <1>5, Typed DEF xStreamBufferSetTriggerLevel, SameRing, SbType
  <2>2. Quiet
    BY <1>5, <2>1 DEF xStreamBufferSetTriggerLevel, Quiet
  <2> QED BY <1>1, <2>2, QuietKeeps
<1>6. CASE xStreamBufferReset
  BY <1>1, <1>6, ResetEmpties
<1>7. CASE UNCHANGED streamVars
  BY <1>1, <1>7, SameRingIfSame, QuietKeeps DEF streamVars, Quiet
<1> QED BY <1>2, <1>3, <1>4, <1>5, <1>6, <1>7 DEF StreamNext

\* What was sent is in the buffer, and is what a reader reads, in order, once, and
\* message by message: though neither side locks the ring, the bytes a call reads
\* are never those that the other side writes at the time.
THEOREM WhatIsSentIsReceived == StreamSpec => []SentIsReceived
<1>1. ASSUME StreamIInv, ContentsInv
      PROVE  SentIsReceived
  <2>1. sb \in SbType /\ BytesInBuffer(sb) = InBuffer(sb)
    BY <1>1, Typed
  <2>2. Holds(sb, queued)
    BY <1>1 DEF ContentsInv
  <2>3. ReadBytes(BytesInBuffer(sb), sb.xTail) = Contents(sb)
    BY <2>1 DEF ReadBytes, Contents, ByteAt
  <2>4. [i \in 1 .. Len(queued) |-> Stored(queued[i])] = AllStored(sb.isMessageBuffer, queued)
    BY DEF Stored, AllStored, StoredAs
  <2>5. ASSUME pc["reader"] = "commit"
        PROVE  receiving.data =
                 FlattenSeq(SubSeq(queued, 1, TakenOf(sb.isMessageBuffer, Len(receiving.data))))
    BY <1>1, <2>1, <2>2, <2>5, ReaderCopied, CopiedIsFirst
  <2> QED BY <2>2, <2>3, <2>4, <2>5 DEF SentIsReceived, Holds, TakenOf
<1>2. StreamInit => StreamIInv /\ ContentsInv
  BY InitIInv, InitContents
<1>3. StreamIInv /\ ContentsInv /\ [StreamNext]_streamVars => (StreamIInv /\ ContentsInv)'
  BY NextIInv, NextContents
<1> QED BY <1>1, <1>2, <1>3, PTL DEF StreamSpec

-----------------------------------------------------------------------------
(* Software timers.                                                            *)

(* Ticks, modulo the range of the tick count.                              *)

TickRange == portMAX_DELAY + 1

LEMMA TimersAssumed ==
  /\ Autoreload \subseteq Timers /\ Periods # {} /\ MaxAge \in Nat /\ MaxAge <= portMAX_DELAY
  /\ portMAX_DELAY \in Nat \ {0} /\ TickRange \in Nat \ {0} /\ TickRange = portMAX_DELAY + 1
  /\ \A p \in Periods : p \in Nat /\ 1 <= p /\ p <= portMAX_DELAY /\ p \in TickType
  /\ \A x : x \in TickType <=> x \in Nat /\ x <= portMAX_DELAY
BY TimerAssumption DEF TickType, TickRange

LEMMA SumWraps ==
  ASSUME NEW a \in TickType, NEW b \in TickType
  PROVE  AddTicks(a, b) = IF a + b <= portMAX_DELAY THEN a + b ELSE a + b - TickRange
<1>1. portMAX_DELAY \in Nat \ {0} /\ a \in Nat /\ b \in Nat /\ a <= portMAX_DELAY /\ b <= portMAX_DELAY
  BY TimersAssumed
<1> DEFINE n == portMAX_DELAY + 1
           sum == a + b
<1>2. n \in Nat \ {0} /\ sum \in Nat /\ sum < 2 * n /\ (sum < n <=> sum <= portMAX_DELAY)
  BY <1>1
<1> HIDE DEF n, sum
<1>3. ASSUME sum < n
      PROVE  sum % n = sum
  BY <1>2, <1>3
<1>4. ASSUME n <= sum
      PROVE  sum % n = sum - n
  BY <1>2, <1>4
<1>5. sum % n = IF sum < n THEN sum ELSE sum - n
  BY <1>2, <1>3, <1>4
<1> QED BY <1>1, <1>2, <1>5 DEF AddTicks, n, sum, TickRange

LEMMA DifferenceWraps ==
  ASSUME NEW a \in TickType, NEW b \in TickType
  PROVE  SubTicks(a, b) = IF a >= b THEN a - b ELSE a - b + TickRange
<1>1. portMAX_DELAY \in Nat \ {0} /\ a \in Nat /\ b \in Nat /\ a <= portMAX_DELAY /\ b <= portMAX_DELAY
  BY TimersAssumed
<1> DEFINE n == portMAX_DELAY + 1
           less == a - b
<1>2. n \in Nat \ {0} /\ less \in Int /\ less < n /\ 0 - n < less
  BY <1>1
<1>3. less >= 0 <=> a >= b
  BY <1>1
<1> HIDE DEF n, less
<1>4. ASSUME less >= 0
      PROVE  less % n = less
  BY <1>2, <1>4
<1>5. ASSUME less < 0
      PROVE  less % n = less + n
  BY <1>2, <1>5
<1>6. less % n = IF less >= 0 THEN less ELSE less + n
  BY <1>2, <1>4, <1>5
<1> QED BY <1>1, <1>3, <1>6 DEF SubTicks, n, less, TickRange

LEMMA TicksAddUp ==
  ASSUME NEW a \in Nat, NEW b \in Nat, NEW c \in Nat
  PROVE  /\ AddTicks(a, b) \in TickType
         /\ AddTicks(AddTicks(a, b), c) = AddTicks(a, b + c)
<1>1. TickRange \in Nat \ {0} /\ a + b \in Nat /\ a + b + c \in Nat
  BY TimersAssumed
<1> DEFINE n == TickRange
           r == (a + b) % n
           q == (a + b) \div n
           r2 == (r + c) % n
           q2 == (r + c) \div n
           r3 == (a + b + c) % n
           q3 == (a + b + c) \div n
<1>2. r \in 0 .. n - 1 /\ q \in Nat /\ a + b = n * q + r /\ r \in Nat
  BY <1>1, Divided
<1>3. r2 \in 0 .. n - 1 /\ q2 \in Nat /\ r + c = n * q2 + r2
  <2>1. PICK sum \in Nat : sum = r + c
    BY <1>2
  <2>2. PICK m \in Nat \ {0} : m = n
    BY <1>1
  <2> HIDE DEF r, n
  <2>3. sum % m \in 0 .. m - 1 /\ sum \div m \in Nat /\ sum = m * (sum \div m) + (sum % m)
    BY Divided
  <2> QED BY <2>1, <2>2, <2>3
<1>4. r3 \in 0 .. n - 1 /\ q3 \in Nat /\ a + b + c = n * q3 + r3
  BY <1>1, Divided
<1>5. AddTicks(a, b) = r /\ AddTicks(AddTicks(a, b), c) = r2 /\ AddTicks(a, b + c) = r3
  BY DEF AddTicks, TickRange
<1>6. r \in TickType
  BY <1>2, TimersAssumed
<1> HIDE DEF r, q, r2, q2, r3, q3
<1>7. n * (q + q2) + r2 = n * q3 + r3 /\ q + q2 \in Nat
  <2>1. n \in Nat
    BY <1>1
  <2> HIDE DEF n
  <2>2. n * (q + q2) = n * q + n * q2 /\ n * q \in Nat /\ n * q2 \in Nat /\ n * q3 \in Nat
    BY <1>2, <1>3, <1>4, <2>1
  <2> QED BY <1>2, <1>3, <1>4, <2>2
<1>8. r2 = r3
  <2>1. n \in Nat \ {0}
    BY <1>1
  <2> HIDE DEF n
  <2>2. PICK q1 \in Nat : q1 = q + q2
    BY <1>7
  <2>3. n * q1 + r2 = n * q3 + r3 /\ r2 \in 0 .. n - 1 /\ r3 \in 0 .. n - 1 /\ q3 \in Nat
    BY <1>3, <1>4, <1>7, <2>2
  <2> QED BY ONLY <2>1, <2>2, <2>3, RemainderUnique
<1> QED BY <1>5, <1>6, <1>8

\* The test of prvInsertTimerInActiveList is right for a command, or an expiry,
\* of any age less than the range of the tick count, whichever of the times lies
\* behind a wrap.
LEMMA DueIfPast ==
  ASSUME NEW s, NEW t, NEW now \in TickType, NEW past \in TickType, NEW age \in TickType,
         AddTicks(past, age) = now,
         NEW p, p = s.xTimerPeriodInTicks[t], p \in Periods
  PROVE  IsDue(s, t, AddTicks(past, p), now, past) <=> age >= p
<1>1. /\ now \in Nat /\ now <= portMAX_DELAY /\ past \in Nat /\ past <= portMAX_DELAY
      /\ age \in Nat /\ age <= portMAX_DELAY
      /\ p \in Nat /\ 1 <= p /\ p <= portMAX_DELAY /\ p \in TickType
      /\ portMAX_DELAY \in Nat /\ TickRange = portMAX_DELAY + 1
  BY TimersAssumed
<1>2. now = IF past + age <= portMAX_DELAY THEN past + age ELSE past + age - TickRange
  BY SumWraps
<1>3. PICK next : next = AddTicks(past, p)
  OBVIOUS
<1>4. next = IF past + p <= portMAX_DELAY THEN past + p ELSE past + p - TickRange
  BY <1>1, <1>3, SumWraps
<1>5. SubTicks(now, past) = IF now >= past THEN now - past ELSE now - past + TickRange
  BY DifferenceWraps
<1>6. PICK since : since = SubTicks(now, past)
  OBVIOUS
<1>7. IsDue(s, t, next, now, past) <=> IF next <= now THEN since >= p ELSE now < past /\ next >= past
  BY <1>6 DEF IsDue
<1>8. since = age
  BY ONLY <1>1, <1>2, <1>5, <1>6
<1> QED BY ONLY <1>1, <1>2, <1>3, <1>4, <1>7, <1>8

LEMMA MinIs ==
  ASSUME NEW S \in SUBSET Nat, NEW k \in S, \A i \in S : k <= i
  PROVE  Min(S) = k
<1>1. \A i \in S : (\A j \in S : i <= j) => i = k
  <2> SUFFICES ASSUME NEW i \in S, \A j \in S : i <= j PROVE i = k
    OBVIOUS
  <2>1. i <= k /\ k <= i /\ i \in Nat /\ k \in Nat
    OBVIOUS
  <2> QED BY <2>1
<1> QED BY <1>1 DEF Min

LEMMA MaxOfTwo ==
  ASSUME NEW a \in Int, NEW b \in Int
  PROVE  Max({a, b}) = IF a >= b THEN a ELSE b
<1>1. PICK m \in Int : m = IF a >= b THEN a ELSE b
  OBVIOUS
<1>2. m \in {a, b} /\ \A y \in {a, b} : m >= y
  BY <1>1
<1>3. \A x \in {a, b} : (\A y \in {a, b} : x >= y) => x = m
  <2> SUFFICES ASSUME NEW x \in {a, b}, \A y \in {a, b} : x >= y PROVE x = m
    OBVIOUS
  <2>1. x >= m /\ m >= x /\ x \in Int
    BY <1>2
  <2> QED BY <2>1
<1>4. Max({a, b}) = m
  BY <1>2, <1>3 DEF Max
<1> QED BY <1>1, <1>4

LEMMA Products ==
  ASSUME NEW a \in Nat, NEW b \in Nat, NEW c \in Nat
  PROVE  a * (b + c) = a * b + a * c /\ a * b = b * a /\ a * b \in Nat /\ (b + 1) * a = b * a + a
OBVIOUS

\* How many expiries there were since the first, and how long it is to the next.
Missed(age, p) == age \div p
ToNext(age, p) == p - (age % p)

LEMMA MissedIs ==
  ASSUME NEW age \in TickType, NEW p \in Periods
  PROVE  /\ Missed(age, p) \in Nat /\ ToNext(age, p) \in TickType /\ ToNext(age, p) # 0
         /\ ToNext(age, p) \in 1 .. p
         /\ age + ToNext(age, p) = (Missed(age, p) + 1) * p
<1>1. p \in Nat \ {0} /\ age \in Nat /\ p <= portMAX_DELAY /\ portMAX_DELAY \in Nat
  BY TimersAssumed
<1>2. /\ age % p \in 0 .. p - 1 /\ age \div p \in Nat
      /\ age = p * (age \div p) + (age % p)
  BY ONLY <1>1, Divided
<1>3. PICK m, k : m = age % p /\ k = age \div p
  OBVIOUS
<1>4. m \in Nat /\ m < p /\ k \in Nat /\ age = p * k + m
  BY <1>1, <1>2, <1>3
<1>5. p - m \in Nat /\ p - m <= portMAX_DELAY /\ p - m # 0 /\ p - m \in 1 .. p
  BY <1>1, <1>4
<1>6. (k + 1) * p = p * k + p
  BY <1>1, <1>4
<1>7. PICK x \in Nat : x = p * k
  BY <1>1, <1>4
<1>8. age + (p - m) = x + p
  BY <1>1, <1>4, <1>7
<1>9. Missed(age, p) = k /\ ToNext(age, p) = p - m
  BY <1>3 DEF Missed, ToNext
<1> QED BY <1>4, <1>5, <1>6, <1>7, <1>8, <1>9, TimersAssumed

Reloads(s, t, past, now, age, p) ==
  Reload(s, t, past, now) =
    Insert(Callback(s, t, Missed(age, p)), t, AddTicks(now, ToNext(age, p)), now)

\* An auto-reload timer whose expiry was so many ticks ago: its callback is called
\* for each expiry it missed since, and its next expiry is the first to come.
LEMMA ReloadIs ==
  ASSUME NEW s, NEW t, NEW now \in TickType, NEW past \in TickType, NEW age \in TickType,
         AddTicks(past, age) = now,
         NEW p, p = s.xTimerPeriodInTicks[t], p \in Periods
  PROVE  Reloads(s, t, past, now, age, p)
<1> DEFINE Expiry(i) == AddTicks(past, i * p)
           S == {i \in 0 .. portMAX_DELAY : ~IsDue(s, t, Expiry(i + 1), now, Expiry(i))}
           k == age \div p
           rest == age % p
<1>1. /\ p \in Nat \ {0} /\ p \in TickType /\ past \in Nat /\ age \in Nat /\ portMAX_DELAY \in Nat
      /\ age <= portMAX_DELAY /\ \A x : x \in TickType <=> x \in Nat /\ x <= portMAX_DELAY
  BY TimersAssumed
<1>2. rest \in 0 .. p - 1 /\ k \in Nat /\ age = p * k + rest /\ k <= age /\ rest \in Nat
  BY <1>1, Divided
<1> HIDE DEF k, rest
<1>3. ASSUME NEW i \in Nat, i <= k
      PROVE  /\ i * p <= age /\ i * p \in Nat /\ Expiry(i) \in TickType
             /\ (i + 1) * p = i * p + p
             /\ IsDue(s, t, Expiry(i + 1), now, Expiry(i)) <=> age - i * p >= p
  <2>1. i * p \in Nat /\ i * p <= p * k /\ (i + 1) * p = i * p + p
    <3>1. PICK d \in Nat : k = i + d
      <4>1. k - i \in Nat /\ k = i + (k - i)
        BY <1>2, <1>3
      <4> QED BY <4>1
    <3>2. p \in Nat /\ i \in Nat
      BY <1>1
    <3>3. /\ p * (i + d) = p * i + p * d /\ p * d \in Nat /\ p * i = i * p /\ p * i \in Nat
          /\ (i + 1) * p = i * p + p
      BY ONLY <3>1, <3>2, Products
    <3>4. p * k = p * (i + d)
      BY <3>1
    <3>5. PICK x \in Nat, y \in Nat : x = i * p /\ y = p * d
      BY <3>3
    <3>6. p * k = x + y
      BY <3>3, <3>4, <3>5
    <3> QED BY <3>3, <3>5, <3>6
  <2>2. PICK a \in Nat : a = i * p /\ a <= age
    BY <1>1, <1>2, <2>1
  <2>3. age - a \in TickType /\ age - a \in Nat
    BY <1>1, <2>2
  <2>4. /\ AddTicks(past, a) \in TickType
        /\ AddTicks(AddTicks(past, a), age - a) = now
        /\ AddTicks(AddTicks(past, a), p) = AddTicks(past, a + p)
    <3>1. PICK b \in Nat : b = age - a /\ a + b = age
      BY <1>1, <2>2, <2>3
    <3>2. past \in Nat /\ p \in Nat
      BY <1>1
    <3>3. AddTicks(AddTicks(past, a), b) = AddTicks(past, a + b)
      BY ONLY <3>1, <3>2, <2>2, TicksAddUp
    <3>4. /\ AddTicks(past, a) \in TickType
          /\ AddTicks(AddTicks(past, a), p) = AddTicks(past, a + p)
      BY ONLY <3>2, <2>2, TicksAddUp
    <3> QED BY <3>1, <3>3, <3>4
  <2>5. IsDue(s, t, AddTicks(past, a + p), now, AddTicks(past, a)) <=> age - a >= p
    <3>1. PICK from, since : from = AddTicks(past, a) /\ since = age - a
      OBVIOUS
    <3>2. /\ from \in TickType /\ since \in TickType /\ AddTicks(from, since) = now
          /\ now \in TickType /\ p = s.xTimerPeriodInTicks[t] /\ p \in Periods
      BY <2>3, <2>4, <3>1
    <3>3. IsDue(s, t, AddTicks(from, p), now, from) <=> since >= p
      BY ONLY <3>2, DueIfPast
    <3> QED BY <2>4, <3>1, <3>3
  <2> QED BY <2>1, <2>2, <2>4, <2>5
<1>4. k \in S
  <2>1. age - k * p < p /\ k \in 0 .. portMAX_DELAY
    <3>1. k * p = p * k
      BY <1>1, <1>2
    <3>2. k * p \in Nat
      BY <1>2, <1>3
    <3> QED BY <1>1, <1>2, <3>1, <3>2
  <2>2. age - k * p \in Int
    BY <1>1, <1>2, <1>3
  <2>3. ~IsDue(s, t, Expiry(k + 1), now, Expiry(k))
    BY <1>1, <1>2, <1>3, <2>1, <2>2
  <2> QED BY <2>1, <2>3
<1>5. ASSUME NEW i \in S PROVE k <= i
  <2> SUFFICES ASSUME i < k PROVE FALSE
    BY <1>2
  <2>1. i \in Nat /\ i + 1 <= k /\ i + 1 \in Nat
    BY <1>1, <1>2
  <2>4. i <= k
    BY <1>2, <2>1
  <2>2. (i + 1) * p <= age
    <3> HIDE DEF Expiry, S
    <3> QED BY <1>3, <2>1
  <2>3. age - i * p >= p
    <3>1. (i + 1) * p = i * p + p
      BY <1>3, <2>1, <2>4
    <3>2. PICK a \in Nat : a = i * p
      BY <1>3, <2>1, <2>4
    <3>3. a + p <= age
      BY <2>2, <3>1, <3>2
    <3>4. age - a >= p
      BY <1>1, <3>3
    <3> QED BY <3>2, <3>4
  <2>5. ~IsDue(s, t, Expiry(i + 1), now, Expiry(i))
    OBVIOUS
  <2> HIDE DEF Expiry
  <2> QED BY <1>3, <2>1, <2>3, <2>4, <2>5
<1>6. Min(S) = k
  <2>1. S \in SUBSET Nat
    BY <1>1
  <2> HIDE DEF S
  <2> QED BY <1>4, <1>5, <2>1, MinIs
<1>7. Expiry(k + 1) = AddTicks(now, p - rest)
  <2>1. PICK b \in Nat : b = p - rest /\ b + rest = p
    <3>1. p - rest \in Nat /\ p - rest + rest = p
      BY <1>1, <1>2
    <3> QED BY <3>1
  <2>2. (k + 1) * p = age + b
    <3>1. (k + 1) * p = p * k + p /\ p * k \in Nat
      <4>1. k \in Nat /\ p \in Nat
        BY <1>1, <1>2
      <4>2. (k + 1) * p = k * p + p /\ p * k = k * p /\ p * k \in Nat
        BY ONLY <4>1, Products
      <4> QED BY <4>2
    <3>2. PICK a \in Nat : a = p * k
      BY <3>1
    <3>3. age = a + rest
      BY <1>2, <3>2
    <3>4. a + p = age + b
      BY <1>1, <1>2, <2>1, <3>3
    <3> QED BY <3>1, <3>2, <3>4
  <2>3. past \in Nat /\ age \in Nat
    BY <1>1
  <2>4. AddTicks(AddTicks(past, age), b) = AddTicks(past, age + b)
    BY ONLY <2>1, <2>3, TicksAddUp
  <2> QED BY <2>1, <2>2, <2>4
<1>8. Reload(s, t, past, now) = Insert(Callback(s, t, Min(S)), t, Expiry(Min(S) + 1), now)
  BY Zenon DEF Reload
<1> HIDE DEF S
<1>9. Reload(s, t, past, now) = Insert(Callback(s, t, k), t, Expiry(k + 1), now)
  BY <1>6, <1>8
<1> QED BY <1>7, <1>9 DEF k, rest, Missed, ToNext, Reloads

-----------------------------------------------------------------------------
(* The timers and their lists, a record: what the operations change.       *)

TimerLists == [
  pxCurrentTimerList : Seq(Timers), pxOverflowTimerList : Seq(Timers),
  xItemValue : [Timers -> TickType], xLastTime : TickType,
  active : SUBSET Timers, absent : SUBSET Timers,
  xTimerPeriodInTicks : [Timers -> Periods], called : [Timers -> Nat]]

OnCurrent(s) == Members(s.pxCurrentTimerList)
OnOverflow(s) == Members(s.pxOverflowTimerList)
OnLists(s) == OnCurrent(s) \cup OnOverflow(s)

\* No timer is on both lists, or twice on one; each list is in the order of the times.
Ordered(s) ==
  /\ s \in TimerLists
  /\ IsItems(s.pxCurrentTimerList, Timers) /\ IsItems(s.pxOverflowTimerList, Timers)
  /\ OnCurrent(s) \cap OnOverflow(s) = {}
  /\ ListSorted(s.pxCurrentTimerList, s.xItemValue)
  /\ ListSorted(s.pxOverflowTimerList, s.xItemValue)

\* What no expiry changes.
Kept(s, r) ==
  /\ r.absent = s.absent /\ r.xLastTime = s.xLastTime
  /\ r.xTimerPeriodInTicks = s.xTimerPeriodInTicks

LEMMA SortedAgain ==
  ASSUME NEW items, NEW v, NEW w, ListSorted(items, v),
         \A u \in Members(items) : w[u] = v[u]
  PROVE  ListSorted(items, w)
<1>1. \A i \in 1 .. Len(items) : items[i] \in Members(items)
  BY DEF Members
<1> QED BY <1>1 DEF ListSorted

LEMMA CallbackIs ==
  ASSUME NEW s, Ordered(s), NEW t \in Timers, NEW n \in Nat
  PROVE  /\ Callback(s, t, n) = [s EXCEPT !.called = [s.called EXCEPT ![t] = s.called[t] + n]]
         /\ Ordered(Callback(s, t, n))
<1> DEFINE called == [s.called EXCEPT ![t] = s.called[t] + n]
           r == [s EXCEPT !.called = called]
<1>1. s \in TimerLists /\ s.called \in [Timers -> Nat]
  BY DEF Ordered, TimerLists
<1>2. Callback(s, t, n) = r
  BY <1>1 DEF Callback, TimerLists
<1>3. called \in [Timers -> Nat]
  BY <1>1
<1> HIDE DEF called
<1>4. /\ r \in TimerLists
      /\ r.pxCurrentTimerList = s.pxCurrentTimerList /\ r.pxOverflowTimerList = s.pxOverflowTimerList
      /\ r.xItemValue = s.xItemValue
  BY <1>1, <1>3 DEF TimerLists
<1> HIDE DEF r
<1>5. Ordered(r)
  BY <1>4 DEF Ordered, OnCurrent, OnOverflow
<1> QED BY <1>2, <1>5 DEF r, called

LEMMA RemoveIs ==
  ASSUME NEW s, Ordered(s), NEW t \in Timers, NEW r, r = RemoveFromActive(s, t)
  PROVE  /\ Ordered(r) /\ Kept(s, r) /\ r.active = s.active /\ r.called = s.called
         /\ r.pxCurrentTimerList = Without(s.pxCurrentTimerList, t)
         /\ OnCurrent(r) = OnCurrent(s) \ {t} /\ OnOverflow(r) = OnOverflow(s) \ {t}
         /\ \A u \in Timers : u # t => r.xItemValue[u] = s.xItemValue[u]
<1> DEFINE value == [s.xItemValue EXCEPT ![t] = 0]
           current == Without(s.pxCurrentTimerList, t)
           overflow == Without(s.pxOverflowTimerList, t)
<1>1. s \in TimerLists /\ s.xItemValue \in [Timers -> TickType] /\ 0 \in TickType
  <2>1. 0 \in TickType
    BY TimersAssumed
  <2> QED BY <2>1 DEF Ordered, TimerLists
<1>2. r = [s EXCEPT !.pxCurrentTimerList = current, !.pxOverflowTimerList = overflow,
                    !.xItemValue = value]
  BY <1>1 DEF RemoveFromActive, TimerLists
<1>3. value \in [Timers -> TickType] /\ \A u \in Timers : u # t => value[u] = s.xItemValue[u]
  BY <1>1
<1>4. /\ IsItems(current, Timers) /\ Members(current) = OnCurrent(s) \ {t}
      /\ ListSorted(current, s.xItemValue)
  BY WithoutItems, WithoutSorted DEF Ordered, OnCurrent
<1>5. /\ IsItems(overflow, Timers) /\ Members(overflow) = OnOverflow(s) \ {t}
      /\ ListSorted(overflow, s.xItemValue)
  BY WithoutItems, WithoutSorted DEF Ordered, OnOverflow
<1> HIDE DEF value, current, overflow
<1>6. current \in Seq(Timers) /\ overflow \in Seq(Timers)
  BY <1>4, <1>5 DEF IsItems
<1>7. /\ r \in TimerLists /\ Kept(s, r) /\ r.active = s.active /\ r.called = s.called
      /\ r.pxCurrentTimerList = current /\ r.pxOverflowTimerList = overflow
      /\ r.xItemValue = value
  BY <1>1, <1>2, <1>3, <1>6 DEF TimerLists, Kept
<1>8. \A u \in Timers : u # t => value[u] = s.xItemValue[u]
  BY <1>3
<1>9. ListSorted(current, value) /\ ListSorted(overflow, value)
  <2>1. \A u \in Members(current) : value[u] = s.xItemValue[u]
    BY <1>4, <1>8, ItemsMembers
  <2>2. \A u \in Members(overflow) : value[u] = s.xItemValue[u]
    BY <1>5, <1>8, ItemsMembers
  <2> QED BY <1>4, <1>5, <2>1, <2>2, SortedAgain
<1>10. OnCurrent(r) = OnCurrent(s) \ {t} /\ OnOverflow(r) = OnOverflow(s) \ {t}
  BY <1>4, <1>5, <1>7 DEF OnCurrent, OnOverflow
<1>11. OnCurrent(s) \cap OnOverflow(s) = {}
  BY DEF Ordered
<1>12. Ordered(r)
  BY <1>4, <1>5, <1>7, <1>9, <1>10, <1>11 DEF Ordered
<1> QED BY <1>7, <1>8, <1>10, <1>12 DEF current

LEMMA InsertIs ==
  ASSUME NEW s, Ordered(s), NEW t \in Timers, t \notin OnLists(s), NEW next \in TickType,
         NEW now \in TickType, NEW r, r = Insert(s, t, next, now)
  PROVE  /\ Ordered(r) /\ Kept(s, r) /\ r.active = s.active /\ r.called = s.called
         /\ r.xItemValue[t] = next
         /\ \A u \in Timers : u # t => r.xItemValue[u] = s.xItemValue[u]
         /\ next <= now => /\ r.pxCurrentTimerList = s.pxCurrentTimerList
                           /\ OnOverflow(r) = OnOverflow(s) \cup {t}
         /\ ~(next <= now) => /\ r.pxOverflowTimerList = s.pxOverflowTimerList
                              /\ OnCurrent(r) = OnCurrent(s) \cup {t}
<1> DEFINE value == [s.xItemValue EXCEPT ![t] = next]
           current == SortedInsert(s.pxCurrentTimerList, t, value)
           overflow == SortedInsert(s.pxOverflowTimerList, t, value)
<1>1. /\ s \in TimerLists /\ s.xItemValue \in [Timers -> TickType]
      /\ IsItems(s.pxCurrentTimerList, Timers) /\ IsItems(s.pxOverflowTimerList, Timers)
      /\ t \notin Members(s.pxCurrentTimerList) /\ t \notin Members(s.pxOverflowTimerList)
  BY DEF Ordered, TimerLists, OnLists, OnCurrent, OnOverflow
<1>2. r = IF next <= now
            THEN [s EXCEPT !.xItemValue = value, !.pxOverflowTimerList = overflow]
            ELSE [s EXCEPT !.xItemValue = value, !.pxCurrentTimerList = current]
  BY <1>1 DEF Insert, TimerLists
<1>3. /\ value \in [Timers -> TickType] /\ value[t] = next
      /\ \A u \in Timers : u # t => value[u] = s.xItemValue[u]
      /\ \A u \in Timers : value[u] \in Int
  BY <1>1, TimersAssumed
<1> HIDE DEF value
<1>4. /\ ListSorted(s.pxCurrentTimerList, value) /\ ListSorted(s.pxOverflowTimerList, value)
      /\ Members(s.pxCurrentTimerList) \subseteq Timers /\ Members(s.pxOverflowTimerList) \subseteq Timers
  <2>1. Members(s.pxCurrentTimerList) \subseteq Timers /\ Members(s.pxOverflowTimerList) \subseteq Timers
    BY <1>1, ItemsMembers
  <2>2. /\ \A u \in Members(s.pxCurrentTimerList) : value[u] = s.xItemValue[u]
        /\ \A u \in Members(s.pxOverflowTimerList) : value[u] = s.xItemValue[u]
    BY <1>1, <1>3, <2>1
  <2> QED BY <2>1, <2>2, SortedAgain DEF Ordered
<1>5. /\ IsItems(current, Timers) /\ Members(current) = OnCurrent(s) \cup {t}
      /\ ListSorted(current, value)
  <2>1. \A i \in 1 .. Len(s.pxCurrentTimerList) : value[s.pxCurrentTimerList[i]] \in Int
    BY <1>3, <1>4 DEF Members
  <2>2. ListSorted(current, value)
    BY <1>1, <1>3, <1>4, <2>1, SortedInsertSorted
  <2> QED BY <1>1, <2>2, SortedInsertItems DEF OnCurrent
<1>6. /\ IsItems(overflow, Timers) /\ Members(overflow) = OnOverflow(s) \cup {t}
      /\ ListSorted(overflow, value)
  <2>1. \A i \in 1 .. Len(s.pxOverflowTimerList) : value[s.pxOverflowTimerList[i]] \in Int
    BY <1>3, <1>4 DEF Members
  <2>2. ListSorted(overflow, value)
    BY <1>1, <1>3, <1>4, <2>1, SortedInsertSorted
  <2> QED BY <1>1, <2>2, SortedInsertItems DEF OnOverflow
<1> HIDE DEF current, overflow
<1>7. current \in Seq(Timers) /\ overflow \in Seq(Timers)
  BY <1>5, <1>6 DEF IsItems
<1>8. t \notin OnCurrent(s) /\ t \notin OnOverflow(s) /\ OnCurrent(s) \cap OnOverflow(s) = {}
  BY DEF Ordered, OnLists
<1>9. CASE next <= now
  <2>1. r = [s EXCEPT !.xItemValue = value, !.pxOverflowTimerList = overflow]
    BY <1>2, <1>9
  <2>2. /\ r \in TimerLists /\ Kept(s, r) /\ r.active = s.active /\ r.called = s.called
        /\ r.pxCurrentTimerList = s.pxCurrentTimerList /\ r.pxOverflowTimerList = overflow
        /\ r.xItemValue = value
    BY <1>1, <1>3, <1>7, <2>1 DEF TimerLists, Kept
  <2>3. OnCurrent(r) = OnCurrent(s) /\ OnOverflow(r) = OnOverflow(s) \cup {t}
    BY <1>6, <2>2 DEF OnCurrent, OnOverflow
  <2>4. Ordered(r)
    BY <1>1, <1>4, <1>6, <1>8, <2>2, <2>3 DEF Ordered
  <2> QED BY <1>3, <1>9, <2>2, <2>3, <2>4
<1>10. CASE ~(next <= now)
  <2>1. r = [s EXCEPT !.xItemValue = value, !.pxCurrentTimerList = current]
    BY <1>2, <1>10
  <2>2. /\ r \in TimerLists /\ Kept(s, r) /\ r.active = s.active /\ r.called = s.called
        /\ r.pxOverflowTimerList = s.pxOverflowTimerList /\ r.pxCurrentTimerList = current
        /\ r.xItemValue = value
    BY <1>1, <1>3, <1>7, <2>1 DEF TimerLists, Kept
  <2>3. OnOverflow(r) = OnOverflow(s) /\ OnCurrent(r) = OnCurrent(s) \cup {t}
    BY <1>5, <2>2 DEF OnCurrent, OnOverflow
  <2>4. Ordered(r)
    BY <1>1, <1>4, <1>5, <1>8, <2>2, <2>3 DEF Ordered
  <2> QED BY <1>3, <1>10, <2>2, <2>3, <2>4
<1> QED BY <1>9, <1>10

\* The time of a timer's next expiry, on a scale that does not wrap here.
ExpiryOf(s, u) == s.xItemValue[u] + (IF u \in OnOverflow(s) THEN TickRange ELSE 0)

\* Only one timer changes.
Others(s, r, t) ==
  \A u \in Timers \ {t} :
    /\ r.xItemValue[u] = s.xItemValue[u] /\ r.called[u] = s.called[u]
    /\ u \in OnCurrent(r) <=> u \in OnCurrent(s)
    /\ u \in OnOverflow(r) <=> u \in OnOverflow(s)

\* A timer is put on the list for the range of ticks that its next expiry falls into.
LEMMA InsertAhead ==
  ASSUME NEW s, Ordered(s), NEW t \in Timers, t \notin OnLists(s), NEW now \in TickType,
         NEW rest \in TickType, rest # 0, NEW r, r = Insert(s, t, AddTicks(now, rest), now)
  PROVE  /\ Ordered(r) /\ Kept(s, r) /\ r.active = s.active /\ r.called = s.called
         /\ Others(s, r, t) /\ OnLists(r) = OnLists(s) \cup {t}
         /\ ExpiryOf(r, t) = now + rest
         /\ now = portMAX_DELAY => r.pxCurrentTimerList = s.pxCurrentTimerList
<1>1. /\ now \in Nat /\ now <= portMAX_DELAY /\ rest \in Nat /\ rest <= portMAX_DELAY
      /\ portMAX_DELAY \in Nat /\ TickRange = portMAX_DELAY + 1
  BY TimersAssumed
<1>2. PICK next : next = AddTicks(now, rest)
  OBVIOUS
<1>3. next = IF now + rest <= portMAX_DELAY THEN now + rest ELSE now + rest - TickRange
  BY <1>2, SumWraps
<1>4. next \in TickType
  BY <1>1, <1>2, TicksAddUp
<1>5. r = Insert(s, t, next, now)
  BY <1>2
<1>6. /\ Ordered(r) /\ Kept(s, r) /\ r.active = s.active /\ r.called = s.called
      /\ r.xItemValue[t] = next
      /\ \A u \in Timers : u # t => r.xItemValue[u] = s.xItemValue[u]
      /\ next <= now => /\ r.pxCurrentTimerList = s.pxCurrentTimerList
                        /\ OnOverflow(r) = OnOverflow(s) \cup {t}
      /\ ~(next <= now) => /\ r.pxOverflowTimerList = s.pxOverflowTimerList
                           /\ OnCurrent(r) = OnCurrent(s) \cup {t}
  BY <1>4, <1>5, InsertIs
<1>7. /\ next <= now => OnCurrent(r) = OnCurrent(s)
      /\ ~(next <= now) => OnOverflow(r) = OnOverflow(s)
  BY <1>6 DEF OnCurrent, OnOverflow
<1>8. Others(s, r, t)
  BY <1>6, <1>7 DEF Others
<1>9. OnLists(r) = OnLists(s) \cup {t}
  BY <1>6, <1>7 DEF OnLists
<1>10. ExpiryOf(r, t) = next + (IF next <= now THEN TickRange ELSE 0)
  <2>1. t \in OnOverflow(r) <=> next <= now
    BY <1>6, <1>7 DEF OnLists
  <2> QED BY <1>6, <2>1 DEF ExpiryOf
<1>11. next + (IF next <= now THEN TickRange ELSE 0) = now + rest
  BY ONLY <1>1, <1>3, rest # 0
<1>12. now = portMAX_DELAY => next <= now
  BY ONLY <1>1, <1>3
<1> QED BY <1>6, <1>8, <1>9, <1>10, <1>11, <1>12

\* What an expiry so many ticks ago does, to an auto-reload timer and to another.
Expired(s, r, t, now, age, p) ==
  /\ Ordered(r) /\ Kept(s, r) /\ Others(s, r, t)
  /\ now = portMAX_DELAY => r.pxCurrentTimerList = s.pxCurrentTimerList
  /\ t \in Autoreload => /\ r.active = s.active
                         /\ r.called[t] = s.called[t] + Missed(age, p) + 1
                         /\ OnLists(r) = OnLists(s) \cup {t}
                         /\ ExpiryOf(r, t) = now + ToNext(age, p)
  /\ t \notin Autoreload => /\ r.active = s.active \ {t}
                            /\ r.called[t] = s.called[t] + 1
                            /\ OnLists(r) = OnLists(s)

LEMMA AfterExpiryIs ==
  ASSUME NEW s, Ordered(s), NEW t \in Timers, t \notin OnLists(s), NEW now \in TickType,
         NEW past \in TickType, NEW age \in TickType, AddTicks(past, age) = now,
         NEW p, p = s.xTimerPeriodInTicks[t], p \in Periods,
         NEW r, r = AfterExpiry(s, t, past, now)
  PROVE  Expired(s, r, t, now, age, p)
<1>1. s \in TimerLists /\ s.called \in [Timers -> Nat]
  BY DEF Ordered, TimerLists
<1>2. CASE t \in Autoreload
  <2>0. PICK k, rest : k = Missed(age, p) /\ rest = ToNext(age, p)
    OBVIOUS
  <2> DEFINE q == Callback(s, t, k)
             i == Insert(q, t, AddTicks(now, rest), now)
  <2>1. k \in Nat /\ rest \in TickType /\ rest # 0
    BY <2>0, MissedIs
  <2>2. Reload(s, t, past, now) = i
    <3>1. Reloads(s, t, past, now, age, p)
      BY ReloadIs
    <3> QED BY <2>0, <3>1 DEF Reloads
  <2>3. r = Callback(i, t, 1)
    BY <1>2, <2>2 DEF AfterExpiry
  <2>4. q = [s EXCEPT !.called = [s.called EXCEPT ![t] = s.called[t] + k]] /\ Ordered(q)
    BY <2>1, CallbackIs
  <2> HIDE DEF q
  <2>5. /\ Kept(s, q) /\ q.active = s.active /\ q.called = [s.called EXCEPT ![t] = s.called[t] + k]
        /\ q.pxCurrentTimerList = s.pxCurrentTimerList
        /\ q.pxOverflowTimerList = s.pxOverflowTimerList /\ q.xItemValue = s.xItemValue
    BY <1>1, <2>4 DEF TimerLists, Kept
  <2>6. OnCurrent(q) = OnCurrent(s) /\ OnOverflow(q) = OnOverflow(s) /\ OnLists(q) = OnLists(s)
    BY <2>5 DEF OnCurrent, OnOverflow, OnLists
  <2>7. t \notin OnLists(q)
    BY <2>6
  <2>8. /\ Ordered(i) /\ Kept(q, i) /\ i.active = q.active /\ i.called = q.called
        /\ Others(q, i, t) /\ OnLists(i) = OnLists(q) \cup {t}
        /\ ExpiryOf(i, t) = now + rest
        /\ now = portMAX_DELAY => i.pxCurrentTimerList = q.pxCurrentTimerList
    <3>1. /\ Ordered(q) /\ t \in Timers /\ t \notin OnLists(q) /\ now \in TickType
          /\ rest \in TickType /\ rest # 0
      BY <2>1, <2>4, <2>7
    <3>2. PICK j : j = i
      OBVIOUS
    <3>3. j = Insert(q, t, AddTicks(now, rest), now)
      BY <3>2
    <3> HIDE DEF i
    <3>4. /\ Ordered(j) /\ Kept(q, j) /\ j.active = q.active /\ j.called = q.called
          /\ Others(q, j, t) /\ OnLists(j) = OnLists(q) \cup {t}
          /\ ExpiryOf(j, t) = now + rest
          /\ now = portMAX_DELAY => j.pxCurrentTimerList = q.pxCurrentTimerList
      BY ONLY <3>1, <3>3, InsertAhead
    <3> QED BY <3>2, <3>4
  <2> HIDE DEF i
  <2>9. r = [i EXCEPT !.called = [i.called EXCEPT ![t] = i.called[t] + 1]] /\ Ordered(r)
    BY <2>3, <2>8, CallbackIs
  <2>10. i \in TimerLists /\ i.called \in [Timers -> Nat]
    BY <2>8 DEF Ordered, TimerLists
  <2>11. /\ Kept(i, r) /\ r.active = i.active /\ r.called = [i.called EXCEPT ![t] = i.called[t] + 1]
         /\ r.pxCurrentTimerList = i.pxCurrentTimerList
         /\ r.pxOverflowTimerList = i.pxOverflowTimerList /\ r.xItemValue = i.xItemValue
    BY <2>9, <2>10 DEF TimerLists, Kept
  <2>12. OnCurrent(r) = OnCurrent(i) /\ OnOverflow(r) = OnOverflow(i) /\ OnLists(r) = OnLists(i)
    BY <2>11 DEF OnCurrent, OnOverflow, OnLists
  <2>13. /\ r.called[t] = s.called[t] + k + 1
         /\ \A u \in Timers \ {t} : r.called[u] = s.called[u]
    BY <1>1, <2>5, <2>8, <2>11
  <2>14. Others(s, r, t)
    BY <2>5, <2>6, <2>8, <2>11, <2>12, <2>13 DEF Others
  <2>15. ExpiryOf(r, t) = now + rest
    BY <2>8, <2>11, <2>12 DEF ExpiryOf
  <2>16. Kept(s, r)
    BY <2>5, <2>8, <2>11 DEF Kept
  <2> QED BY <1>2, <2>5, <2>6, <2>8, <2>9, <2>11, <2>12, <2>13, <2>14, <2>15, <2>16, <2>0 DEF Expired
<1>3. CASE t \notin Autoreload
  <2> DEFINE q == [s EXCEPT !.active = s.active \ {t}]
  <2>1. r = Callback(q, t, 1)
    BY <1>1, <1>3 DEF AfterExpiry, TimerLists
  <2>2. /\ q \in TimerLists /\ Kept(s, q) /\ q.active = s.active \ {t} /\ q.called = s.called
        /\ q.pxCurrentTimerList = s.pxCurrentTimerList
        /\ q.pxOverflowTimerList = s.pxOverflowTimerList /\ q.xItemValue = s.xItemValue
    BY <1>1 DEF TimerLists, Kept
  <2> HIDE DEF q
  <2>3. Ordered(q)
    BY <2>2 DEF Ordered, OnCurrent, OnOverflow
  <2>4. r = [q EXCEPT !.called = [q.called EXCEPT ![t] = q.called[t] + 1]] /\ Ordered(r)
    BY <2>1, <2>3, CallbackIs
  <2>5. /\ Kept(q, r) /\ r.active = q.active /\ r.called = [q.called EXCEPT ![t] = q.called[t] + 1]
        /\ r.pxCurrentTimerList = q.pxCurrentTimerList
        /\ r.pxOverflowTimerList = q.pxOverflowTimerList /\ r.xItemValue = q.xItemValue
    BY <2>2, <2>4 DEF TimerLists, Kept
  <2>6. OnCurrent(r) = OnCurrent(s) /\ OnOverflow(r) = OnOverflow(s) /\ OnLists(r) = OnLists(s)
    BY <2>2, <2>5 DEF OnCurrent, OnOverflow, OnLists
  <2>7. /\ r.called[t] = s.called[t] + 1
        /\ \A u \in Timers \ {t} : r.called[u] = s.called[u]
    BY <1>1, <2>2, <2>5
  <2>8. Others(s, r, t)
    BY <2>2, <2>5, <2>6, <2>7 DEF Others
  <2>9. Kept(s, r)
    BY <2>2, <2>5 DEF Kept
  <2> QED BY <1>3, <2>2, <2>4, <2>5, <2>6, <2>7, <2>8, <2>9 DEF Expired
<1> QED BY <1>2, <1>3

-----------------------------------------------------------------------------
(* The account of a timer: the time on its list, the expiries whose        *)
(* callback is to come, and the ticks to the next expiry fit together.     *)

\* Time is counted like ExpiryOf.
Account(s, u, time, owed, toNext) ==
  IF u \notin OnLists(s) THEN owed = 0 /\ toNext = 0
  ELSE IF u \in Autoreload
    THEN /\ owed \in Nat /\ toNext \in 1 .. s.xTimerPeriodInTicks[u]
         /\ ExpiryOf(s, u) + owed * s.xTimerPeriodInTicks[u] = time + toNext
    ELSE \/ owed = 0 /\ toNext > 0 /\ ExpiryOf(s, u) = time + toNext
         \/ owed = 1 /\ toNext = 0 /\ ExpiryOf(s, u) <= time

Accounts(s, expiries, toNext, time) ==
  \A u \in Timers : Account(s, u, time, expiries[u] - s.called[u], toNext[u])

LEMMA AccountSame ==
  ASSUME NEW s, NEW r, NEW u, NEW time, NEW owed, NEW toNext, Account(s, u, time, owed, toNext),
         r.xTimerPeriodInTicks = s.xTimerPeriodInTicks,
         u \in OnLists(s) <=> u \in OnLists(r), ExpiryOf(s, u) = ExpiryOf(r, u)
  PROVE  Account(r, u, time, owed, toNext)
BY DEF Account

LEMMA OthersSame ==
  ASSUME NEW s, NEW r, NEW t, Others(s, r, t), NEW u \in Timers \ {t}
  PROVE  /\ u \in OnLists(s) <=> u \in OnLists(r)
         /\ ExpiryOf(s, u) = ExpiryOf(r, u)
         /\ r.called[u] = s.called[u]
BY DEF Others, OnLists, ExpiryOf

LEMMA NotNegative ==
  ASSUME NEW d \in Int, NEW p \in Nat \ {0}, 0 - p < d * p
  PROVE  d \in Nat
<1> SUFFICES ASSUME d < 0 PROVE FALSE
  OBVIOUS
<1>1. PICK e \in Nat : d = 0 - 1 - e
  <2>1. 0 - 1 - d \in Nat /\ d = 0 - 1 - (0 - 1 - d)
    OBVIOUS
  <2> QED BY <2>1
<1>2. e * p \in Nat
  OBVIOUS
<1>3. d * p = 0 - p - e * p
  BY <1>1
<1> QED BY <1>2, <1>3

LEMMA LessTimes ==
  ASSUME NEW d \in Int, NEW k \in Int, NEW p \in Nat
  PROVE  (d - k) * p = d * p - k * p /\ d * p \in Int /\ k * p \in Int
OBVIOUS

\* The arithmetic of an auto-reload timer: expired are as many periods as it takes
\* from its time on the list to the next after now.
LEMMA OwedAfter ==
  ASSUME NEW p \in Nat \ {0}, NEW owed \in Int, NEW k \in Nat, NEW toNext \in 1 .. p,
         NEW expiry \in Nat, NEW time \in Nat, NEW now \in Nat, now <= time, NEW rest \in 1 .. p,
         expiry + owed * p = time + toNext,
         now + rest = expiry + k * p
  PROVE  owed - k \in Nat /\ (now + rest) + (owed - k) * p = time + toNext
<1>1. (owed - k) * p = owed * p - k * p /\ owed * p \in Int /\ k * p \in Int
  BY LessTimes
<1>2. PICK a \in Int, b \in Int : a = owed * p /\ b = k * p
  BY <1>1
<1>3. (now + rest) + (a - b) = time + toNext
  BY <1>2
<1>4. 0 - p < a - b
  BY <1>3
<1>5. owed - k \in Int /\ 0 - p < (owed - k) * p
  BY <1>1, <1>2, <1>4
<1>6. owed - k \in Nat
  <2>1. PICK d \in Int : d = owed - k
    OBVIOUS
  <2> QED BY <1>5, <2>1, NotNegative
<1> QED BY <1>1, <1>2, <1>3, <1>6

\* All that says at what time the timers expire.  X: timers that say they are active,
\* but are on no list.
InOrder(s, X, expiries, toNext, time) ==
  /\ Ordered(s) /\ OnLists(s) = s.active \ X
  /\ expiries \in [Timers -> Int] /\ toNext \in [Timers -> Int] /\ time \in Nat
  /\ Accounts(s, expiries, toNext, time)

Follows(s, r, X, expiries, toNext, time) ==
  InOrder(r, X, expiries, toNext, time) /\ Kept(s, r) /\ r.active \subseteq s.active

\* prvProcessExpiredTimer, at the end of a range of ticks or when the first timer
\* on the list has expired.
LEMMA ExpiryStep ==
  ASSUME NEW s, NEW X, NEW expiries, NEW toNext, NEW time, InOrder(s, X, expiries, toNext, time),
         s.pxCurrentTimerList # <<>>, NEW now \in TickType, now <= time,
         s.xItemValue[Head(s.pxCurrentTimerList)] <= now, NEW r, r = ProcessExpired(s, now)
  PROVE  /\ Follows(s, r, X, expiries, toNext, time)
         /\ now = portMAX_DELAY => Len(r.pxCurrentTimerList) = Len(s.pxCurrentTimerList) - 1
<1>0. /\ Ordered(s) /\ OnLists(s) = s.active \ X /\ Accounts(s, expiries, toNext, time)
      /\ expiries \in [Timers -> Int] /\ toNext \in [Timers -> Int] /\ time \in Nat
  BY DEF InOrder
<1> DEFINE t == Head(s.pxCurrentTimerList)
           q == RemoveFromActive(s, t)
           past == s.xItemValue[t]
           p == s.xTimerPeriodInTicks[t]
           age == now - past
<1>1. /\ s \in TimerLists /\ t \in OnCurrent(s) /\ t \in Timers
      /\ s.xTimerPeriodInTicks \in [Timers -> Periods] /\ s.called \in [Timers -> Nat]
      /\ s.xItemValue \in [Timers -> TickType]
  <2>1. IsItems(s.pxCurrentTimerList, Timers) /\ s \in TimerLists
    BY <1>0 DEF Ordered
  <2>2. t \in Timers /\ t \in Members(s.pxCurrentTimerList)
    BY <2>1, TailItems
  <2> QED BY <2>1, <2>2 DEF OnCurrent, TimerLists
<1>2. /\ past \in TickType /\ past \in Nat /\ past <= now /\ now \in Nat /\ p \in Periods
      /\ p \in Nat \ {0} /\ now <= portMAX_DELAY /\ age \in TickType /\ portMAX_DELAY \in Nat
  <2>1. past \in TickType /\ p \in Periods /\ past <= now
    BY <1>1
  <2> HIDE DEF past, p
  <2>2. past \in Nat /\ now \in Nat /\ now <= portMAX_DELAY /\ portMAX_DELAY \in Nat /\ p \in Nat \ {0}
    BY <2>1, TimersAssumed
  <2>3. age \in Nat /\ age <= portMAX_DELAY
    BY <2>1, <2>2
  <2> QED BY <2>1, <2>2, <2>3, TimersAssumed
<1> HIDE DEF t
<1>3. /\ Ordered(q) /\ Kept(s, q) /\ q.active = s.active /\ q.called = s.called
      /\ q.pxCurrentTimerList = Without(s.pxCurrentTimerList, t)
      /\ OnCurrent(q) = OnCurrent(s) \ {t} /\ OnOverflow(q) = OnOverflow(s) \ {t}
      /\ \A u \in Timers : u # t => q.xItemValue[u] = s.xItemValue[u]
  BY <1>0, <1>1, RemoveIs
<1>4. t \notin OnLists(q) /\ OnLists(q) = OnLists(s) \ {t} /\ Others(s, q, t)
  BY <1>3 DEF OnLists, Others
<1>5. AddTicks(past, age) = now
  <2>1. PICK g \in TickType : g = age /\ past + g = now
    BY <1>2
  <2>2. AddTicks(past, g) = IF past + g <= portMAX_DELAY THEN past + g ELSE past + g - TickRange
    BY <1>2, <2>1, SumWraps
  <2> HIDE DEF past, age
  <2> QED BY <1>2, <2>1, <2>2
<1>6. r = AfterExpiry(q, t, past, now)
  BY DEF ProcessExpired, t
<1>7. q.xTimerPeriodInTicks = s.xTimerPeriodInTicks
  BY <1>3 DEF Kept
<1> HIDE DEF q, past, age, p
<1>8. Expired(q, r, t, now, age, p)
  <2>1. p = q.xTimerPeriodInTicks[t]
    BY <1>7 DEF p
  <2>2. /\ Ordered(q) /\ t \in Timers /\ t \notin OnLists(q) /\ now \in TickType
        /\ past \in TickType /\ age \in TickType /\ p \in Periods
    BY <1>1, <1>2, <1>3, <1>4
  <2> QED BY ONLY <1>5, <1>6, <2>1, <2>2, AfterExpiryIs
<1>9. Kept(s, r) /\ r.xTimerPeriodInTicks = s.xTimerPeriodInTicks
  BY <1>3, <1>8 DEF Kept, Expired
<1>10. OnLists(r) = r.active \ X /\ r.active \subseteq s.active
  <2>1. t \in OnLists(s)
    BY <1>1 DEF OnLists
  <2> QED BY <1>0, <1>3, <1>4, <1>8, <2>1 DEF Expired
<1>11. ASSUME NEW u \in Timers, u # t
       PROVE  Account(r, u, time, expiries[u] - r.called[u], toNext[u])
  <2>1. /\ u \in OnLists(s) <=> u \in OnLists(q)
        /\ ExpiryOf(s, u) = ExpiryOf(q, u)
        /\ q.called[u] = s.called[u]
    BY <1>4, <1>11, OthersSame
  <2>2. /\ u \in OnLists(q) <=> u \in OnLists(r)
        /\ ExpiryOf(q, u) = ExpiryOf(r, u)
        /\ r.called[u] = q.called[u]
    BY <1>8, <1>11, OthersSame DEF Expired
  <2>3. Account(s, u, time, expiries[u] - s.called[u], toNext[u])
    BY <1>0 DEF Accounts
  <2>4. PICK owed : owed = expiries[u] - s.called[u] /\ owed = expiries[u] - r.called[u]
    BY <2>1, <2>2
  <2>5. Account(s, u, time, owed, toNext[u])
    BY <2>3, <2>4
  <2>6. Account(r, u, time, owed, toNext[u])
    BY <1>9, <2>1, <2>2, <2>5, AccountSame
  <2> QED BY <2>4, <2>6
<1>12. Account(r, t, time, expiries[t] - r.called[t], toNext[t])
  <2>1. PICK owed, next, expiry : /\ owed = expiries[t] - s.called[t] /\ next = toNext[t]
                                  /\ expiry = ExpiryOf(s, t)
    OBVIOUS
  <2>2. Account(s, t, time, owed, next)
    BY <1>0, <1>1, <2>1 DEF Accounts
  <2>3. expiry = past /\ t \in OnLists(s)
    <3>1. t \notin OnOverflow(s)
      BY <1>0, <1>1 DEF Ordered
    <3> QED BY <1>1, <1>2, <2>1, <3>1 DEF ExpiryOf, OnLists, past
  <2>4. s.called[t] \in Nat /\ q.called[t] = s.called[t] /\ expiries[t] \in Int
    BY <1>0, <1>1, <1>3
  <2>5. CASE t \in Autoreload
    <3>1. PICK m, rest : m = Missed(age, p) /\ rest = ToNext(age, p)
      OBVIOUS
    <3> DEFINE k == m + 1
    <3>2. /\ k \in Nat /\ m \in Nat /\ rest \in 1 .. p /\ age + rest = k * p
      <4>1. age \in TickType /\ p \in Periods
        BY <1>2
      <4>2. m \in Nat /\ rest \in 1 .. p /\ age + rest = (m + 1) * p
        BY ONLY <3>1, <4>1, MissedIs
      <4> QED BY <4>2
    <3>20. k = m + 1
      OBVIOUS
    <3> HIDE DEF k
    <3>3. owed \in Nat /\ next \in 1 .. p /\ expiry + owed * p = time + next
      BY <2>2, <2>3, <2>5, <2>1 DEF Account, p
    <3>4. now + rest = expiry + k * p /\ expiry \in Nat
      <4>1. age = now - past
        BY DEF age
      <4>2. PICK b : b = k * p
        OBVIOUS
      <4>3. age + rest = b
        BY <3>2, <4>2
      <4>4. now + rest = past + b
        BY <1>2, <3>2, <4>1, <4>3
      <4> QED BY <1>2, <2>3, <4>2, <4>4
    <3>5. owed - k \in Nat /\ (now + rest) + (owed - k) * p = time + next
      <4>1. p \in Nat \ {0} /\ owed \in Int /\ now \in Nat /\ time \in Nat /\ now <= time
        BY <1>0, <1>2, <3>3
      <4> QED BY ONLY <3>2, <3>3, <3>4, <4>1, OwedAfter
    <3>6. PICK still : still = expiries[t] - r.called[t]
      OBVIOUS
    <3>7. still = owed - k
      <4>1. r.called[t] = q.called[t] + m + 1
        <5>1. r.called[t] = q.called[t] + Missed(age, p) + 1
          BY <1>8, <2>5 DEF Expired
        <5> QED BY <3>1, <5>1
      <4>2. PICK c \in Int, e \in Int : c = s.called[t] /\ e = expiries[t]
        BY <2>4
      <4>3. r.called[t] = c + m + 1 /\ owed = e - c
        BY <2>1, <2>4, <4>1, <4>2
      <4>4. still = e - (c + m + 1)
        BY <3>6, <4>2, <4>3
      <4>5. k = m + 1 /\ m \in Nat /\ c \in Int /\ e \in Int
        BY <3>2, <3>20
      <4> QED BY ONLY <4>3, <4>4, <4>5
    <3>8. ExpiryOf(r, t) = now + rest /\ t \in OnLists(r) /\ r.xTimerPeriodInTicks[t] = p
      BY <1>8, <1>9, <2>5, <3>1 DEF p, Expired
    <3> QED BY <2>1, <2>5, <3>3, <3>5, <3>6, <3>7, <3>8 DEF Account
  <2>6. CASE t \notin Autoreload
    <3>1. \/ owed = 0 /\ next > 0 /\ expiry = time + next
          \/ owed = 1 /\ next = 0 /\ expiry <= time
      BY <2>1, <2>2, <2>3, <2>6 DEF Account
    <3>2. owed = 1 /\ next = 0
      <4>1. next \in Int
        BY <1>0, <1>1, <2>1
      <4> QED BY <1>0, <1>2, <2>3, <3>1, <4>1
    <3>3. expiries[t] - r.called[t] = 0
      BY <1>8, <2>1, <2>4, <2>6, <3>2 DEF Expired
    <3> QED BY <1>4, <1>8, <2>1, <2>6, <3>2, <3>3 DEF Account, Expired
  <2> QED BY <2>5, <2>6
<1>13. ASSUME now = portMAX_DELAY
       PROVE  Len(r.pxCurrentTimerList) = Len(s.pxCurrentTimerList) - 1
  <2>1. r.pxCurrentTimerList = Without(s.pxCurrentTimerList, t)
    BY <1>3, <1>8, <1>13 DEF Expired
  <2>2. s.pxCurrentTimerList \in Seq(Timers) /\ t \in Members(s.pxCurrentTimerList)
    BY <1>0, <1>1 DEF Ordered, IsItems, OnCurrent
  <2>3. PICK place \in 1 .. Len(s.pxCurrentTimerList) : place = PositionOf(s.pxCurrentTimerList, t)
    BY <2>2, PositionOfMember
  <2>4. Len(RemoveAt(s.pxCurrentTimerList, place)) = Len(s.pxCurrentTimerList) - 1
    BY <2>2, RemoveAtElements
  <2> QED BY <2>1, <2>2, <2>3, <2>4 DEF Without
<1>14. Accounts(r, expiries, toNext, time)
  BY <1>11, <1>12 DEF Accounts
<1> QED BY <1>0, <1>8, <1>9, <1>10, <1>13, <1>14 DEF Expired, Follows, InOrder

-----------------------------------------------------------------------------
(* prvSwitchTimerLists.                                                    *)

Greatest(u) == CHOOSE x \in u : \A y \in u : x >= y

\* What FoldLeft computes there, of sets of places.
FoldsTo(g, s, D) ==
  g = [u \in D |-> IF u = {} THEN s
                   ELSE ProcessExpired(g[u \ {Greatest(u)}], portMAX_DELAY)]

LEMMA GreatestIs ==
  ASSUME NEW n \in Nat, NEW u \in SUBSET (1 .. n + 1), u # {}
  PROVE  /\ Greatest(u) \in u /\ u \ {Greatest(u)} \in SUBSET (1 .. n)
         /\ u = 1 .. n + 1 => Greatest(u) = n + 1 /\ u \ {Greatest(u)} = 1 .. n
<1>1. u \in SUBSET (0 .. n + 1) /\ n + 1 \in Nat
  OBVIOUS
<1>2. \E x \in u : \A y \in u : x >= y
  BY <1>1, GreatestNatural
<1>3. Greatest(u) \in u /\ \A y \in u : Greatest(u) >= y
  BY <1>2 DEF Greatest
<1>4. n + 1 \in u => Greatest(u) = n + 1
  <2>1. PICK m : m = Greatest(u)
    OBVIOUS
  <2>2. m \in 1 .. n + 1 /\ \A y \in u : m >= y
    BY <1>3, <2>1
  <2>3. n + 1 \in u => m = n + 1
    BY <2>2
  <2> QED BY <2>1, <2>3
<1>5. u \ {Greatest(u)} \in SUBSET (1 .. n)
  <2> SUFFICES ASSUME NEW y \in u, y # Greatest(u) PROVE y \in 1 .. n
    OBVIOUS
  <2>1. y \in 1 .. n + 1 /\ (y = n + 1 => FALSE)
    BY <1>4
  <2> QED BY <2>1
<1>6. ASSUME u = 1 .. n + 1 PROVE Greatest(u) = n + 1 /\ u \ {Greatest(u)} = 1 .. n
  BY <1>4, <1>6
<1> QED BY <1>3, <1>5, <1>6

LEMMA FoldExists ==
  ASSUME NEW s
  PROVE  \A n \in Nat : \E g : FoldsTo(g, s, SUBSET (1 .. n))
<1> DEFINE T == {n \in Nat : \E g : FoldsTo(g, s, SUBSET (1 .. n))}
<1>1. 0 \in T
  <2> DEFINE g == [u \in SUBSET (1 .. 0) |-> s]
  <2>1. \A u \in SUBSET (1 .. 0) : u = {}
    OBVIOUS
  <2>2. FoldsTo(g, s, SUBSET (1 .. 0))
    BY <2>1 DEF FoldsTo
  <2> HIDE DEF g
  <2> QED BY <2>2
<1>2. ASSUME NEW n \in Nat, n \in T PROVE n + 1 \in T
  <2>1. PICK g : FoldsTo(g, s, SUBSET (1 .. n))
    BY <1>2
  <2> DEFINE D == SUBSET (1 .. n + 1)
             step(u) == IF u = {} THEN s ELSE ProcessExpired(g[u \ {Greatest(u)}], portMAX_DELAY)
             h == [u \in D |-> step(u)]
             again(u) == IF u = {} THEN s ELSE ProcessExpired(h[u \ {Greatest(u)}], portMAX_DELAY)
  <2>2. \A u \in SUBSET (1 .. n) : u \in D /\ g[u] = h[u]
    <3>1. \A u \in SUBSET (1 .. n) : g[u] = step(u)
      BY <2>1, Zenon DEF FoldsTo
    <3>2. \A u \in SUBSET (1 .. n) : u \in D
      OBVIOUS
    <3> HIDE DEF step
    <3> QED BY <3>1, <3>2
  <2>3. ASSUME NEW u \in D PROVE step(u) = again(u)
    <3>1. u # {} => g[u \ {Greatest(u)}] = h[u \ {Greatest(u)}]
      <4>1. u # {} => u \ {Greatest(u)} \in SUBSET (1 .. n)
        BY GreatestIs
      <4> HIDE DEF h
      <4> QED BY <2>2, <4>1
    <3> HIDE DEF h
    <3> QED BY <3>1
  <2>4. h = [u \in D |-> again(u)]
    <3> HIDE DEF step, again, D
    <3> QED BY <2>3
  <2>5. FoldsTo(h, s, D)
    <3> HIDE DEF h, D
    <3> QED BY <2>4 DEF FoldsTo
  <2> HIDE DEF h
  <2> QED BY <2>5
<1>3. Nat \subseteq T
  <2> HIDE DEF T
  <2> QED BY <1>1, <1>2, SetInduction
<1> QED BY <1>3

\* One timer after the other expires at the end of the range.
AllExpired(s, items) == FoldLeft(LAMBDA q, t : ProcessExpired(q, portMAX_DELAY), s, items)

InTurn(st, s, n) ==
  st[0] = s /\ \A i \in 0 .. n - 1 : st[i + 1] = ProcessExpired(st[i], portMAX_DELAY)

LEMMA ExpiriesInTurn ==
  ASSUME NEW s, NEW items, NEW n \in Nat, items \in Seq(Timers), Len(items) = n
  PROVE  \E st : InTurn(st, s, n) /\ AllExpired(s, items) = st[n]
<1> DEFINE g == CHOOSE g : FoldsTo(g, s, SUBSET (1 .. n))
<1>1. FoldsTo(g, s, SUBSET (1 .. n))
  BY FoldExists
<1>2. DOMAIN items = 1 .. n
  OBVIOUS
<1>3. AllExpired(s, items) = g[1 .. n]
  BY <1>2 DEF AllExpired, FoldLeft, MapThenFoldSet, FoldsTo, Greatest, Max
<1> HIDE DEF g
<1> DEFINE st == [i \in 0 .. n |-> g[1 .. i]]
<1>4. \A i \in 0 .. n : st[i] = g[1 .. i]
  OBVIOUS
<1>5. st[0] = s
  <2>1. 1 .. 0 = {} /\ {} \in SUBSET (1 .. n)
    OBVIOUS
  <2>2. g[{}] = s
    BY <1>1, <2>1 DEF FoldsTo
  <2> QED BY <2>1, <2>2
<1>6. ASSUME NEW i \in 0 .. n - 1 PROVE st[i + 1] = ProcessExpired(st[i], portMAX_DELAY)
  <2>1. i \in Nat /\ i + 1 \in 0 .. n /\ i \in 0 .. n
    OBVIOUS
  <2>2. PICK u : u = 1 .. i + 1
    OBVIOUS
  <2>3. u \in SUBSET (1 .. n) /\ u # {} /\ u \in SUBSET (1 .. i + 1) /\ 1 \in u
    BY <2>1, <2>2
  <2>4. u \ {Greatest(u)} = 1 .. i
    <3>1. (u = 1 .. i + 1) => Greatest(u) = i + 1
      BY <2>1, <2>3, GreatestIs
    <3> QED BY <2>1, <2>2, <3>1
  <2>5. g[u] = ProcessExpired(g[u \ {Greatest(u)}], portMAX_DELAY)
    BY <1>1, <2>3 DEF FoldsTo
  <2> HIDE DEF st
  <2> QED BY <1>4, <2>1, <2>2, <2>4, <2>5
<1>7. st[n] = g[1 .. n]
  OBVIOUS
<1> HIDE DEF st
<1> QED BY <1>3, <1>5, <1>6, <1>7 DEF InTurn

\* At the end of the range each timer of the current list expires, so that none is left.
LEMMA AllExpire ==
  ASSUME NEW s, NEW X, NEW expiries, NEW toNext, NEW time, InOrder(s, X, expiries, toNext, time),
         portMAX_DELAY <= time,
         NEW n, n = Len(s.pxCurrentTimerList),
         NEW st, InTurn(st, s, n), NEW r, r = st[n]
  PROVE  Follows(s, r, X, expiries, toNext, time) /\ r.pxCurrentTimerList = <<>>
<1> DEFINE Left(q, i) == /\ Follows(s, q, X, expiries, toNext, time)
                         /\ Len(q.pxCurrentTimerList) = n - i
           T == {i \in Nat : i <= n => Left(st[i], i)}
<1>1. n \in Nat
  BY DEF InOrder, Ordered, TimerLists
<1>2. 0 \in T
  BY <1>1 DEF Kept, InTurn, Follows
<1>3. ASSUME NEW i \in Nat, i \in T PROVE i + 1 \in T
  <2> SUFFICES ASSUME i + 1 <= n PROVE Left(st[i + 1], i + 1)
    OBVIOUS
  <2>1. PICK q, f : q = st[i] /\ f = st[i + 1]
    OBVIOUS
  <2>2. Left(q, i) /\ f = ProcessExpired(q, portMAX_DELAY)
    <3>1. i \in 0 .. n - 1 /\ i <= n
      BY <1>1
    <3> HIDE DEF Left
    <3> QED BY <1>3, <2>1, <3>1 DEF InTurn
  <2>3. Ordered(q) /\ q \in TimerLists /\ IsItems(q.pxCurrentTimerList, Timers)
    BY <2>2 DEF InOrder, Ordered, Follows
  <2>4. q.pxCurrentTimerList # <<>>
    BY <1>1, <2>2, <2>3
  <2>5. q.xItemValue[Head(q.pxCurrentTimerList)] <= portMAX_DELAY
    <3>1. Head(q.pxCurrentTimerList) \in Timers
      BY <2>3, <2>4, TailItems
    <3>2. q.xItemValue[Head(q.pxCurrentTimerList)] \in TickType
      BY <2>3, <3>1 DEF TimerLists
    <3> QED BY <3>2, TimersAssumed
  <2>6. portMAX_DELAY \in TickType
    BY TimersAssumed
  <2>7. InOrder(q, X, expiries, toNext, time)
    BY <2>2 DEF Follows
  <2>8. /\ Follows(q, f, X, expiries, toNext, time)
        /\ Len(f.pxCurrentTimerList) = Len(q.pxCurrentTimerList) - 1
    <3>1. f = ProcessExpired(q, portMAX_DELAY)
      BY <2>2
    <3> QED BY ONLY <3>1, <2>4, <2>5, <2>6, <2>7, portMAX_DELAY <= time, ExpiryStep
  <2>9. Left(f, i + 1)
    <3>1. Follows(s, f, X, expiries, toNext, time)
      BY <2>2, <2>8 DEF Follows, Kept
    <3>2. Len(f.pxCurrentTimerList) = n - (i + 1)
      BY <1>1, <2>2, <2>8
    <3> QED BY <3>1, <3>2
  <2> QED BY <2>1, <2>9
<1>4. Nat \subseteq T
  <2> HIDE DEF T
  <2> QED BY <1>2, <1>3, SetInduction
<1>5. Left(st[n], n)
  <2> HIDE DEF Left
  <2>1. n \in T
    BY <1>1, <1>4
  <2> QED BY <1>1, <2>1
<1>6. r.pxCurrentTimerList = <<>>
  <2>1. r.pxCurrentTimerList \in Seq(Timers) /\ Len(r.pxCurrentTimerList) = 0
    BY <1>1, <1>5 DEF Follows, InOrder, Ordered, TimerLists
  <2> QED BY <2>1
<1> QED BY <1>5, <1>6

LEMMA SwitchIs ==
  ASSUME NEW s, NEW X, NEW expiries, NEW toNext, NEW now \in TickType,
         InOrder(s, X, expiries, toNext, now + TickRange), NEW r, r = SwitchTimerLists(s)
  PROVE  Follows(s, r, X, expiries, toNext, now)
<1>1. /\ now \in Nat /\ TickRange \in Nat \ {0} /\ TickRange = portMAX_DELAY + 1
      /\ portMAX_DELAY \in Nat
  BY TimersAssumed
<1>2. PICK time \in Nat : time = now + TickRange
  BY <1>1
<1>3. InOrder(s, X, expiries, toNext, time) /\ portMAX_DELAY <= time
  BY <1>1, <1>2
<1>4. PICK n \in Nat : n = Len(s.pxCurrentTimerList) /\ s.pxCurrentTimerList \in Seq(Timers)
  BY <1>3 DEF InOrder, Ordered, TimerLists
<1>5. PICK st : InTurn(st, s, n) /\ AllExpired(s, s.pxCurrentTimerList) = st[n]
  BY <1>4, ExpiriesInTurn
<1>6. PICK f : f = st[n]
  OBVIOUS
<1>7. /\ InOrder(f, X, expiries, toNext, time) /\ Kept(s, f)
      /\ f.active \subseteq s.active /\ f.pxCurrentTimerList = <<>>
  <2>1. Follows(s, f, X, expiries, toNext, time) /\ f.pxCurrentTimerList = <<>>
    BY ONLY <1>3, <1>4, <1>5, <1>6, AllExpire
  <2> QED BY <2>1 DEF Follows
<1>8. r = [f EXCEPT !.pxCurrentTimerList = f.pxOverflowTimerList,
                    !.pxOverflowTimerList = f.pxCurrentTimerList]
  BY <1>5, <1>6 DEF SwitchTimerLists, AllExpired
<1>9. f \in TimerLists
  BY <1>7 DEF InOrder, Ordered
<1>10. /\ r \in TimerLists /\ Kept(f, r) /\ r.active = f.active /\ r.called = f.called
       /\ r.xItemValue = f.xItemValue
       /\ r.pxCurrentTimerList = f.pxOverflowTimerList /\ r.pxOverflowTimerList = <<>>
  BY <1>7, <1>8, <1>9 DEF TimerLists, Kept
<1>11. OnCurrent(r) = OnOverflow(f) /\ OnOverflow(r) = {} /\ OnLists(r) = OnLists(f)
  <2>1. OnCurrent(f) = {}
    BY <1>7 DEF OnCurrent, Members
  <2>2. OnOverflow(r) = {} /\ OnCurrent(r) = OnOverflow(f)
    BY <1>10 DEF OnCurrent, OnOverflow, Members
  <2> QED BY <2>1, <2>2 DEF OnLists
<1>12. Ordered(r)
  BY <1>7, <1>10, <1>11 DEF InOrder, Ordered
<1>13. ASSUME NEW u \in Timers
       PROVE  Account(r, u, now, expiries[u] - r.called[u], toNext[u])
  <2>1. PICK owed, next, v : owed = expiries[u] - r.called[u] /\ next = toNext[u] /\ v = r.xItemValue[u]
    OBVIOUS
  <2>2. Account(f, u, time, owed, next) /\ next \in Int /\ v \in Nat
    <3>1. f.called[u] = r.called[u]
      BY <1>10
    <3>2. v \in Nat
      BY <1>10, <2>1, TimersAssumed DEF TimerLists
    <3> QED BY <1>7, <2>1, <3>1, <3>2 DEF InOrder, Accounts
  <2>3. CASE u \notin OnLists(f)
    BY <1>11, <2>1, <2>2, <2>3 DEF Account
  <2>4. CASE u \in OnLists(f)
    <3>1. u \in OnOverflow(f)
      BY <1>7, <2>4 DEF OnLists, OnCurrent, Members
    <3>2. ExpiryOf(f, u) = v + TickRange /\ ExpiryOf(r, u) = v
      BY <1>10, <1>11, <2>1, <2>2, <3>1 DEF ExpiryOf
    <3>3. f.xTimerPeriodInTicks = r.xTimerPeriodInTicks
      BY <1>10 DEF Kept
    <3>4. CASE u \in Autoreload
      <4>1. PICK p : p = r.xTimerPeriodInTicks[u]
        OBVIOUS
      <4>2. owed \in Nat /\ next \in 1 .. p /\ (v + TickRange) + owed * p = time + next
        BY <2>2, <2>4, <3>2, <3>3, <3>4, <4>1 DEF Account
      <4>3. p \in Nat
        BY <1>10, <4>1, TimersAssumed DEF TimerLists
      <4>4. PICK x \in Nat : x = owed * p
        BY <4>2, <4>3
      <4>5. v + x = now + next
        BY <1>1, <1>2, <2>2, <4>2, <4>4
      <4> QED BY <1>11, <2>1, <2>4, <3>2, <3>4, <4>1, <4>2, <4>4, <4>5 DEF Account
    <3>5. CASE u \notin Autoreload
      <4>1. \/ owed = 0 /\ next > 0 /\ v + TickRange = time + next
            \/ owed = 1 /\ next = 0 /\ v + TickRange <= time
        BY <2>2, <2>4, <3>2, <3>5 DEF Account
      <4>2. \/ owed = 0 /\ next > 0 /\ v = now + next
            \/ owed = 1 /\ next = 0 /\ v <= now
        BY <1>1, <1>2, <2>2, <4>1
      <4> QED BY <1>11, <2>1, <2>4, <3>2, <3>5, <4>2 DEF Account
    <3> QED BY <3>4, <3>5
  <2> QED BY <2>3, <2>4
<1>14. InOrder(r, X, expiries, toNext, now)
  <2>1. Accounts(r, expiries, toNext, now)
    BY <1>13 DEF Accounts
  <2> QED BY <1>1, <1>7, <1>10, <1>11, <1>12, <2>1 DEF InOrder
<1> QED BY <1>7, <1>10, <1>14 DEF Kept, Follows

-----------------------------------------------------------------------------
(* prvSampleTimeNow.                                                       *)

\* The tick count is the time, unless no timer is on a list: then the task that
\* sleeps may miss a wrap.
OnTimeFor(s, time) ==
  OnLists(s) # {} =>
    xTickCount = AddTicks(s.xLastTime, time - s.xLastTime) /\ time - s.xLastTime \in TickType

LEMMA AnyTime ==
  ASSUME NEW s, NEW X, NEW expiries, NEW toNext, NEW time, NEW now \in Nat,
         InOrder(s, X, expiries, toNext, time), OnLists(s) = {}
  PROVE  InOrder(s, X, expiries, toNext, now)
BY DEF InOrder, Accounts, Account

LEMMA SampleIs ==
  ASSUME NEW s, NEW X, NEW expiries, NEW toNext, NEW time, InOrder(s, X, expiries, toNext, time),
         xTickCount \in TickType, OnTimeFor(s, time), NEW r, r = SampleTimeNow(s)
  PROVE  /\ InOrder(r, X, expiries, toNext, xTickCount)
         /\ r.absent = s.absent /\ r.xTimerPeriodInTicks = s.xTimerPeriodInTicks
         /\ r.xLastTime = xTickCount /\ r.active \subseteq s.active
         /\ ~ListsWereSwitched(s) => /\ r.pxCurrentTimerList = s.pxCurrentTimerList
                                     /\ r.pxOverflowTimerList = s.pxOverflowTimerList
                                     /\ r.xItemValue = s.xItemValue
                                     /\ r.called = s.called /\ r.active = s.active
<1>1. /\ xTickCount \in Nat /\ xTickCount <= portMAX_DELAY /\ portMAX_DELAY \in Nat
      /\ TickRange = portMAX_DELAY + 1
  BY TimersAssumed
<1>2. PICK now : now = IF ListsWereSwitched(s) THEN xTickCount + TickRange ELSE xTickCount
  OBVIOUS
<1>3. InOrder(s, X, expiries, toNext, now)
  <2>1. CASE OnLists(s) = {}
    <3>1. now \in Nat
      BY <1>1, <1>2
    <3> QED BY <2>1, <3>1, AnyTime
  <2>2. CASE OnLists(s) # {}
    <3>1. PICK last, d : last = s.xLastTime /\ d = time - last
      OBVIOUS
    <3>2. /\ last \in TickType /\ d \in TickType /\ xTickCount = AddTicks(last, d)
          /\ time \in Nat /\ last \in Nat /\ d \in Nat /\ last <= portMAX_DELAY /\ d <= portMAX_DELAY
      <4>1. last \in TickType /\ d \in TickType /\ xTickCount = AddTicks(last, d) /\ time \in Nat
        BY <2>2, <3>1 DEF OnTimeFor, InOrder, Ordered, TimerLists
      <4> QED BY <4>1, TimersAssumed
    <3>3. xTickCount = IF last + d <= portMAX_DELAY THEN last + d ELSE last + d - TickRange
      BY <3>2, SumWraps
    <3>4. ListsWereSwitched(s) <=> xTickCount < last
      BY <3>1 DEF ListsWereSwitched
    <3>5. now = time
      BY <1>1, <1>2, <3>1, <3>2, <3>3, <3>4
    <3> QED BY <3>5
  <2> QED BY <2>1, <2>2
<1>4. CASE ListsWereSwitched(s)
  <2>1. PICK q : q = SwitchTimerLists(s)
    OBVIOUS
  <2>2. now = xTickCount + TickRange
    BY <1>2, <1>4
  <2>3. InOrder(q, X, expiries, toNext, xTickCount) /\ Kept(s, q) /\ q.active \subseteq s.active
    BY <1>3, <2>1, <2>2, SwitchIs DEF Follows
  <2>4. r = [q EXCEPT !.xLastTime = xTickCount]
    BY <1>4, <2>1 DEF SampleTimeNow
  <2>5. q \in TimerLists
    BY <2>3 DEF InOrder, Ordered
  <2>6. /\ r \in TimerLists /\ r.absent = q.absent /\ r.xTimerPeriodInTicks = q.xTimerPeriodInTicks
        /\ r.xLastTime = xTickCount /\ r.active = q.active /\ r.called = q.called
        /\ r.xItemValue = q.xItemValue
        /\ r.pxCurrentTimerList = q.pxCurrentTimerList /\ r.pxOverflowTimerList = q.pxOverflowTimerList
    BY <2>4, <2>5 DEF TimerLists
  <2>7. InOrder(r, X, expiries, toNext, xTickCount)
    BY <2>3, <2>6 DEF InOrder, Ordered, OnLists, OnCurrent, OnOverflow, Accounts, Account, ExpiryOf
  <2> QED BY <1>4, <2>3, <2>6, <2>7 DEF Kept
<1>5. CASE ~ListsWereSwitched(s)
  <2>1. now = xTickCount
    BY <1>2, <1>5
  <2>2. r = [s EXCEPT !.xLastTime = xTickCount]
    BY <1>5 DEF SampleTimeNow
  <2>3. s \in TimerLists
    BY <1>3 DEF InOrder, Ordered
  <2>4. /\ r \in TimerLists /\ r.absent = s.absent /\ r.xTimerPeriodInTicks = s.xTimerPeriodInTicks
        /\ r.xLastTime = xTickCount /\ r.active = s.active /\ r.called = s.called
        /\ r.xItemValue = s.xItemValue
        /\ r.pxCurrentTimerList = s.pxCurrentTimerList /\ r.pxOverflowTimerList = s.pxOverflowTimerList
    BY <2>2, <2>3 DEF TimerLists
  <2>5. InOrder(r, X, expiries, toNext, xTickCount)
    BY <1>3, <2>1, <2>4 DEF InOrder, Ordered, OnLists, OnCurrent, OnOverflow, Accounts, Account, ExpiryOf
  <2> QED BY <1>5, <2>4, <2>5
<1> QED BY <1>4, <1>5

-----------------------------------------------------------------------------
(* What the commands do to the timers.                                     *)

\* The callbacks were called: none is owed that was counted.
LEMMA CalledIs ==
  ASSUME NEW s, NEW X, NEW expiries, NEW toNext, NEW time, InOrder(s, X, expiries, toNext, time),
         NEW r, r = [s EXCEPT !.called = [t \in Timers |-> 0]],
         NEW owed, owed = [t \in Timers |-> expiries[t] - s.called[t]]
  PROVE  /\ InOrder(r, X, owed, toNext, time) /\ Kept(s, r) /\ r.active = s.active
         /\ r.called = [t \in Timers |-> 0]
         /\ r.pxCurrentTimerList = s.pxCurrentTimerList
         /\ r.pxOverflowTimerList = s.pxOverflowTimerList /\ r.xItemValue = s.xItemValue
<1>1. s \in TimerLists /\ Ordered(s) /\ expiries \in [Timers -> Int] /\ s.called \in [Timers -> Nat]
  BY DEF InOrder, Ordered, TimerLists
<1>2. PICK none : none = [t \in Timers |-> 0]
  OBVIOUS
<1>3. none \in [Timers -> Nat] /\ \A t \in Timers : none[t] = 0
  BY <1>2
<1>4. r = [s EXCEPT !.called = none]
  BY <1>2
<1>5. /\ r \in TimerLists /\ Kept(s, r) /\ r.active = s.active /\ r.called = none
      /\ r.pxCurrentTimerList = s.pxCurrentTimerList
      /\ r.pxOverflowTimerList = s.pxOverflowTimerList /\ r.xItemValue = s.xItemValue
  BY <1>1, <1>3, <1>4 DEF TimerLists, Kept
<1>6. OnCurrent(r) = OnCurrent(s) /\ OnOverflow(r) = OnOverflow(s) /\ OnLists(r) = OnLists(s)
  BY <1>5 DEF OnCurrent, OnOverflow, OnLists
<1>7. Ordered(r)
  BY <1>1, <1>5, <1>6 DEF Ordered
<1>8. owed \in [Timers -> Int]
  BY <1>1
<1>9. ASSUME NEW u \in Timers
      PROVE  Account(r, u, time, owed[u] - r.called[u], toNext[u])
  <2>1. Account(s, u, time, expiries[u] - s.called[u], toNext[u])
    BY DEF InOrder, Accounts
  <2>2. owed[u] - r.called[u] = expiries[u] - s.called[u]
    BY <1>1, <1>3, <1>5
  <2>3. ExpiryOf(s, u) = ExpiryOf(r, u) /\ r.xTimerPeriodInTicks = s.xTimerPeriodInTicks
    BY <1>5, <1>6 DEF ExpiryOf, Kept
  <2>4. Account(r, u, time, expiries[u] - s.called[u], toNext[u])
    BY <1>6, <2>1, <2>3, AccountSame
  <2> QED BY <2>2, <2>4
<1>10. Accounts(r, owed, toNext, time)
  BY <1>9 DEF Accounts
<1>11. InOrder(r, X, owed, toNext, time)
  BY <1>5, <1>6, <1>7, <1>8, <1>10 DEF InOrder
<1> QED BY <1>2, <1>5, <1>11

\* A timer that is taken off its list is owed nothing.
NothingCalled(s) == s.called = [t \in Timers |-> 0]

NothingOwed(t, expiries, toNext, d, l) ==
  d = [expiries EXCEPT ![t] = 0] /\ l = [toNext EXCEPT ![t] = 0]

Removed(s, q, t, d, l, time) ==
  /\ InOrder(q, {t}, d, l, time) /\ Kept(s, q) /\ q.active = s.active
  /\ OnLists(q) \subseteq OnLists(s) /\ t \notin OnLists(q)

LEMMA RemovedIs ==
  ASSUME NEW s, NEW expiries, NEW toNext, NEW time, InOrder(s, {}, expiries, toNext, time),
         NothingCalled(s), NEW t \in Timers, NEW q, q = RemoveFromActive(s, t),
         NEW d, NEW l, NothingOwed(t, expiries, toNext, d, l)
  PROVE  Removed(s, q, t, d, l, time)
<1>0. /\ s.called = [u \in Timers |-> 0]
      /\ d = [expiries EXCEPT ![t] = 0] /\ l = [toNext EXCEPT ![t] = 0]
  BY DEF NothingCalled, NothingOwed
<1>1. /\ Ordered(s) /\ OnLists(s) = s.active /\ Accounts(s, expiries, toNext, time)
      /\ expiries \in [Timers -> Int] /\ toNext \in [Timers -> Int] /\ time \in Nat
  BY DEF InOrder
<1>2. /\ Ordered(q) /\ Kept(s, q) /\ q.active = s.active /\ q.called = s.called
      /\ OnCurrent(q) = OnCurrent(s) \ {t} /\ OnOverflow(q) = OnOverflow(s) \ {t}
      /\ \A u \in Timers : u # t => q.xItemValue[u] = s.xItemValue[u]
  BY <1>1, RemoveIs
<1>3. OnLists(q) = OnLists(s) \ {t}
  BY <1>2 DEF OnLists
<1>4. d \in [Timers -> Int] /\ l \in [Timers -> Int] /\ d[t] = 0 /\ l[t] = 0
      /\ \A u \in Timers : u # t => d[u] = expiries[u] /\ l[u] = toNext[u]
  BY <1>0, <1>1
<1>5. ASSUME NEW u \in Timers
      PROVE  Account(q, u, time, d[u] - q.called[u], l[u])
  <2>1. CASE u = t
    <3>1. q.called[t] = 0
      BY <1>0, <1>2
    <3>2. d[t] - q.called[t] = 0
      BY <1>4, <3>1
    <3> QED BY <1>3, <1>4, <2>1, <3>2 DEF Account
  <2>2. CASE u # t
    <3>1. Account(s, u, time, expiries[u] - s.called[u], toNext[u])
      BY <1>1 DEF Accounts
    <3>2. d[u] - q.called[u] = expiries[u] - s.called[u] /\ l[u] = toNext[u]
      BY <1>2, <1>4, <2>2
    <3>3. /\ u \in OnLists(s) <=> u \in OnLists(q)
          /\ ExpiryOf(s, u) = ExpiryOf(q, u) /\ q.xTimerPeriodInTicks = s.xTimerPeriodInTicks
      BY <1>2, <1>3, <2>2 DEF ExpiryOf, Kept
    <3>4. Account(q, u, time, expiries[u] - s.called[u], toNext[u])
      BY <3>1, <3>3, AccountSame
    <3> QED BY <3>2, <3>4
  <2> QED BY <2>1, <2>2
<1>6. Accounts(q, d, l, time)
  BY <1>5 DEF Accounts
<1>7. InOrder(q, {t}, d, l, time)
  BY <1>1, <1>2, <1>3, <1>4, <1>6 DEF InOrder
<1> QED BY <1>2, <1>3, <1>7 DEF Removed

\* Only the timer t, which is on no list, changes: whether it is active, whether it
\* exists and what its period is.
ChangedTo(s, r, t, A, B, p) ==
  r = [s EXCEPT !.active = A, !.absent = B,
                !.xTimerPeriodInTicks = [s.xTimerPeriodInTicks EXCEPT ![t] = p]]

Changed(s, r, t, Y, expiries, toNext, time, A, B, p) ==
  /\ InOrder(r, Y, expiries, toNext, time) /\ t \notin OnLists(r)
  /\ r.active = A /\ r.absent = B /\ r.called = s.called /\ r.xLastTime = s.xLastTime
  /\ r.xTimerPeriodInTicks[t] = p

LEMMA ChangedIs ==
  ASSUME NEW s, NEW t \in Timers, NEW expiries, NEW toNext, NEW time, NEW X, NEW Y,
         InOrder(s, X, expiries, toNext, time), t \notin OnLists(s),
         NEW A \in SUBSET Timers, NEW B \in SUBSET Timers, NEW p \in Periods,
         s.active \ X = A \ Y,
         NEW r, ChangedTo(s, r, t, A, B, p)
  PROVE  Changed(s, r, t, Y, expiries, toNext, time, A, B, p)
<1>1. /\ Ordered(s) /\ OnLists(s) = s.active \ X /\ Accounts(s, expiries, toNext, time)
      /\ expiries \in [Timers -> Int] /\ toNext \in [Timers -> Int] /\ time \in Nat
      /\ s \in TimerLists /\ s.xTimerPeriodInTicks \in [Timers -> Periods]
  BY DEF InOrder, Ordered, TimerLists
<1>2. PICK f : f = [s.xTimerPeriodInTicks EXCEPT ![t] = p]
  OBVIOUS
<1>3. /\ f \in [Timers -> Periods] /\ f[t] = p
      /\ \A u \in Timers : u # t => f[u] = s.xTimerPeriodInTicks[u]
  BY <1>1, <1>2
<1>4. r = [s EXCEPT !.active = A, !.absent = B, !.xTimerPeriodInTicks = f]
  BY <1>2 DEF ChangedTo
<1>5. /\ r \in TimerLists /\ r.active = A /\ r.absent = B /\ r.xTimerPeriodInTicks = f
      /\ r.pxCurrentTimerList = s.pxCurrentTimerList
      /\ r.pxOverflowTimerList = s.pxOverflowTimerList /\ r.xItemValue = s.xItemValue
      /\ r.called = s.called /\ r.xLastTime = s.xLastTime
  BY <1>1, <1>3, <1>4 DEF TimerLists
<1>6. OnCurrent(r) = OnCurrent(s) /\ OnOverflow(r) = OnOverflow(s) /\ OnLists(r) = OnLists(s)
  BY <1>5 DEF OnCurrent, OnOverflow, OnLists
<1>7. Ordered(r)
  BY <1>1, <1>5, <1>6 DEF Ordered
<1>8. ASSUME NEW u \in Timers
      PROVE  Account(r, u, time, expiries[u] - r.called[u], toNext[u])
  <2>1. Account(s, u, time, expiries[u] - s.called[u], toNext[u])
    BY <1>1 DEF Accounts
  <2>2. expiries[u] - s.called[u] = expiries[u] - r.called[u] /\ ExpiryOf(r, u) = ExpiryOf(s, u)
    BY <1>5, <1>6 DEF ExpiryOf
  <2>3. CASE u = t
    BY <1>6, <2>1, <2>2, <2>3 DEF Account
  <2>4. CASE u # t
    <3>1. f[u] = s.xTimerPeriodInTicks[u]
      BY <1>3, <2>4
    <3> QED BY <1>5, <1>6, <2>1, <2>2, <3>1 DEF Account
  <2> QED BY <2>3, <2>4
<1>9. Accounts(r, expiries, toNext, time)
  BY <1>8 DEF Accounts
<1>10. InOrder(r, Y, expiries, toNext, time)
  BY <1>1, <1>5, <1>6, <1>7, <1>9 DEF InOrder
<1> QED BY <1>3, <1>5, <1>6, <1>10 DEF Changed

\* The timer t goes to a list, its next expiry to come after some ticks.
Inserted(s, r, t, expiries, toNext, rest, now) ==
  /\ InOrder(r, {}, expiries, [toNext EXCEPT ![t] = rest], now)
  /\ Kept(s, r) /\ r.active = s.active

LEMMA InsertedIs ==
  ASSUME NEW s, NEW t \in Timers, NEW expiries, NEW toNext, NEW now \in TickType,
         InOrder(s, {t}, expiries, toNext, now), t \in s.active,
         NEW rest \in TickType, rest # 0, rest <= s.xTimerPeriodInTicks[t],
         NEW r, r = Insert(s, t, AddTicks(now, rest), now)
  PROVE  Inserted(s, r, t, expiries, toNext, rest, now)
<1>1. /\ Ordered(s) /\ OnLists(s) = s.active \ {t} /\ Accounts(s, expiries, toNext, now)
      /\ expiries \in [Timers -> Int] /\ toNext \in [Timers -> Int] /\ now \in Nat
      /\ s \in TimerLists /\ s.xTimerPeriodInTicks \in [Timers -> Periods]
      /\ t \notin OnLists(s)
  BY DEF InOrder, Ordered, TimerLists
<1>2. /\ Ordered(r) /\ Kept(s, r) /\ r.active = s.active /\ r.called = s.called
      /\ Others(s, r, t) /\ OnLists(r) = OnLists(s) \cup {t}
      /\ ExpiryOf(r, t) = now + rest
  BY ONLY <1>1, t \in Timers, now \in TickType, rest \in TickType, rest # 0,
          r = Insert(s, t, AddTicks(now, rest), now), InsertAhead
<1>3. PICK l : l = [toNext EXCEPT ![t] = rest]
  OBVIOUS
<1>4. rest \in Nat /\ l \in [Timers -> Int] /\ l[t] = rest
      /\ \A u \in Timers : u # t => l[u] = toNext[u]
  BY <1>1, <1>3, TimersAssumed
<1>5. ASSUME NEW u \in Timers
      PROVE  Account(r, u, now, expiries[u] - r.called[u], l[u])
  <2>1. Account(s, u, now, expiries[u] - s.called[u], toNext[u])
    BY <1>1 DEF Accounts
  <2>2. CASE u = t
    <3>1. expiries[t] - r.called[t] = 0
      BY <1>1, <1>2, <2>1, <2>2 DEF Account
    <3>2. PICK p, e : p = r.xTimerPeriodInTicks[t] /\ e = ExpiryOf(r, t)
      OBVIOUS
    <3>3. p \in Nat \ {0} /\ rest \in 1 .. p
      <4>1. p = s.xTimerPeriodInTicks[t]
        BY <1>2, <3>2 DEF Kept
      <4>2. p \in Periods
        BY <1>1, <4>1
      <4>3. p \in Nat /\ 1 <= p
        BY <4>2, TimersAssumed
      <4> QED BY <1>4, <4>1, <4>3
    <3>4. e + 0 * p = now + rest /\ e = now + rest /\ rest > 0 /\ 0 \in Nat
      BY <1>1, <1>2, <1>4, <3>2, <3>3
    <3> QED BY <1>2, <1>4, <2>2, <3>1, <3>2, <3>3, <3>4 DEF Account
  <2>3. CASE u # t
    <3>1. /\ u \in OnLists(s) <=> u \in OnLists(r)
          /\ ExpiryOf(s, u) = ExpiryOf(r, u)
          /\ r.called[u] = s.called[u]
      BY <1>2, <2>3, OthersSame
    <3>2. r.xTimerPeriodInTicks = s.xTimerPeriodInTicks
      BY <1>2 DEF Kept
    <3>3. Account(r, u, now, expiries[u] - s.called[u], toNext[u])
      BY <2>1, <3>1, <3>2, AccountSame
    <3> QED BY <1>4, <2>3, <3>1, <3>3
  <2> QED BY <2>2, <2>3
<1>6. Accounts(r, expiries, l, now)
  BY <1>5 DEF Accounts
<1>7. OnLists(r) = r.active \ {}
  BY <1>1, <1>2
<1>8. InOrder(r, {}, expiries, l, now)
  BY <1>1, <1>2, <1>4, <1>6, <1>7 DEF InOrder
<1> QED BY <1>2, <1>3, <1>8 DEF Inserted

\* The timer t, due when the command to start it is received: an expiry so many ticks ago.
ExpiresTo(t, age, p, n, next) ==
  /\ n = (IF t \in Autoreload THEN Missed(age, p) + 1 ELSE 1)
  /\ next = (IF t \in Autoreload THEN ToNext(age, p) ELSE 0)

ExpiredNow(s, r, t, expiries, toNext, n, next, now) ==
  /\ InOrder(r, {}, [expiries EXCEPT ![t] = n], [toNext EXCEPT ![t] = next], now)
  /\ Kept(s, r) /\ r.active \subseteq s.active

LEMMA ExpiredNowIs ==
  ASSUME NEW s, NEW t \in Timers, NEW expiries, NEW toNext, NEW now \in TickType,
         InOrder(s, {t}, expiries, toNext, now), t \in s.active,
         expiries[t] = 0, s.called[t] = 0,
         NEW past \in TickType, NEW age \in TickType, AddTicks(past, age) = now,
         NEW p, p = s.xTimerPeriodInTicks[t],
         NEW r, r = AfterExpiry(s, t, past, now),
         NEW n, NEW next, ExpiresTo(t, age, p, n, next)
  PROVE  ExpiredNow(s, r, t, expiries, toNext, n, next, now)
<1>0. /\ n = (IF t \in Autoreload THEN Missed(age, p) + 1 ELSE 1)
      /\ next = (IF t \in Autoreload THEN ToNext(age, p) ELSE 0)
  BY DEF ExpiresTo
<1>1. /\ Ordered(s) /\ OnLists(s) = s.active \ {t} /\ Accounts(s, expiries, toNext, now)
      /\ expiries \in [Timers -> Int] /\ toNext \in [Timers -> Int] /\ now \in Nat
      /\ s \in TimerLists /\ s.xTimerPeriodInTicks \in [Timers -> Periods]
      /\ t \notin OnLists(s) /\ p \in Periods
  BY DEF InOrder, Ordered, TimerLists
<1>2. Expired(s, r, t, now, age, p)
  BY <1>1, AfterExpiryIs
<1>3. /\ Ordered(r) /\ Kept(s, r) /\ Others(s, r, t)
      /\ t \in Autoreload => /\ r.active = s.active /\ r.called[t] = n
                             /\ OnLists(r) = OnLists(s) \cup {t}
                             /\ ExpiryOf(r, t) = now + next
      /\ t \notin Autoreload => /\ r.active = s.active \ {t} /\ r.called[t] = n
                                /\ OnLists(r) = OnLists(s)
  <2>1. PICK m : m = Missed(age, p)
    OBVIOUS
  <2>2. m \in Nat
    BY <1>1, <2>1, MissedIs
  <2>3. t \in Autoreload => r.called[t] = n
    <3>1. t \in Autoreload => r.called[t] = s.called[t] + m + 1 /\ n = m + 1
      BY <1>0, <1>2, <2>1 DEF Expired
    <3> QED BY <2>2, <3>1
  <2>4. t \notin Autoreload => r.called[t] = n
    BY <1>0, <1>2 DEF Expired
  <2> QED BY <1>0, <1>2, <2>3, <2>4 DEF Expired
<1>4. n \in Nat /\ next \in TickType /\ (t \in Autoreload => next \in 1 .. p)
  <2>1. PICK m, k : m = Missed(age, p) /\ k = ToNext(age, p)
    OBVIOUS
  <2>2. m \in Nat /\ k \in TickType /\ k \in 1 .. p
    BY <1>1, <2>1, MissedIs
  <2>3. 0 \in TickType
    BY TimersAssumed
  <2> QED BY <1>0, <2>1, <2>2, <2>3
<1>5. PICK d, l : d = [expiries EXCEPT ![t] = n] /\ l = [toNext EXCEPT ![t] = next]
  OBVIOUS
<1>6. /\ next \in Nat /\ d \in [Timers -> Int] /\ l \in [Timers -> Int] /\ d[t] = n /\ l[t] = next
      /\ \A u \in Timers : u # t => l[u] = toNext[u] /\ d[u] = expiries[u]
  <2>1. next \in Nat
    BY <1>4, TimersAssumed
  <2> QED BY <1>1, <1>4, <1>5, <2>1
<1>7. ASSUME NEW u \in Timers
      PROVE  Account(r, u, now, d[u] - r.called[u], l[u])
  <2>1. CASE u = t
    <3>1. d[t] - r.called[t] = 0
      BY <1>3, <1>4, <1>6
    <3>2. CASE t \notin Autoreload
      BY <1>0, <1>1, <1>3, <1>6, <2>1, <3>1, <3>2 DEF Account
    <3>3. CASE t \in Autoreload
      <4>1. PICK e : e = ExpiryOf(r, t)
        OBVIOUS
      <4>2. p \in Nat /\ p = r.xTimerPeriodInTicks[t]
        BY <1>1, <1>3, TimersAssumed DEF Kept
      <4>3. e + 0 * p = now + next /\ 0 \in Nat
        BY <1>1, <1>3, <1>6, <3>3, <4>1, <4>2
      <4> QED BY <1>3, <1>4, <1>6, <2>1, <3>1, <3>3, <4>1, <4>2, <4>3 DEF Account
    <3> QED BY <3>2, <3>3
  <2>2. CASE u # t
    <3>1. /\ u \in OnLists(s) <=> u \in OnLists(r)
          /\ ExpiryOf(s, u) = ExpiryOf(r, u)
          /\ r.called[u] = s.called[u]
      BY <1>3, <2>2, OthersSame
    <3>2. r.xTimerPeriodInTicks = s.xTimerPeriodInTicks
      BY <1>3 DEF Kept
    <3>3. Account(s, u, now, expiries[u] - s.called[u], toNext[u])
      BY <1>1 DEF Accounts
    <3>4. Account(r, u, now, expiries[u] - s.called[u], toNext[u])
      BY <3>1, <3>2, <3>3, AccountSame
    <3> QED BY <1>6, <2>2, <3>1, <3>4
  <2> QED BY <2>1, <2>2
<1>8. Accounts(r, d, l, now)
  BY <1>7 DEF Accounts
<1>9. OnLists(r) = r.active \ {} /\ r.active \subseteq s.active
  BY <1>1, <1>3
<1>10. InOrder(r, {}, d, l, now)
  BY <1>1, <1>3, <1>6, <1>8, <1>9 DEF InOrder
<1> QED BY <1>3, <1>5, <1>9, <1>10 DEF ExpiredNow

\* The expiries of a timer that was started some ticks ago.
LEMMA SinceIs ==
  ASSUME NEW age \in TickType, NEW p \in Periods, NEW t \in Timers
  PROVE  /\ age < p => Since(t, age, p) = <<0, p - age>> /\ p - age \in TickType /\ p - age # 0
         /\ age >= p /\ t \notin Autoreload => Since(t, age, p) = <<1, 0>>
         /\ age >= p /\ t \in Autoreload =>
              Since(t, age, p) = <<Missed(age - p, p) + 1, ToNext(age - p, p)>>
         /\ age >= p => age - p \in TickType
<1>1. p \in Nat \ {0} /\ age \in Nat /\ p <= portMAX_DELAY /\ portMAX_DELAY \in Nat
      /\ age <= portMAX_DELAY
  BY TimersAssumed
<1>2. PICK k, m : k = age \div p /\ m = age % p
  OBVIOUS
<1>3. m \in 0 .. p - 1 /\ k \in Nat /\ age = p * k + m
  BY <1>1, <1>2, Divided
<1>4. ASSUME age < p
      PROVE  Since(t, age, p) = <<0, p - age>> /\ p - age \in TickType /\ p - age # 0
  <2>1. k = 0 /\ m = age
    BY <1>1, <1>2, <1>4
  <2>2. p - age \in Nat /\ p - age <= portMAX_DELAY /\ p - age # 0 /\ ~(age >= p)
    BY <1>1, <1>4
  <2> QED BY <1>2, <2>1, <2>2, TimersAssumed DEF Since
<1>5. ASSUME age >= p
      PROVE  /\ age - p \in TickType
             /\ t \notin Autoreload => Since(t, age, p) = <<1, 0>>
             /\ t \in Autoreload =>
                  Since(t, age, p) = <<Missed(age - p, p) + 1, ToNext(age - p, p)>>
  <2>1. age - p \in Nat /\ age - p <= portMAX_DELAY
    BY <1>1, <1>5
  <2>2. PICK rest \in Nat : rest = age - p
    BY <2>1
  <2>3. PICK k2, m2 : k2 = rest \div p /\ m2 = rest % p
    OBVIOUS
  <2>4. m2 \in 0 .. p - 1 /\ k2 \in Nat /\ rest = p * k2 + m2
    BY <1>1, <2>3, Divided
  <2>5. p * (k2 + 1) + m2 = p * k + m /\ k2 + 1 \in Nat
    <3>1. p * (k2 + 1) = p * k2 + p /\ p * k2 \in Nat /\ p * k \in Nat
      BY <1>1, <1>3, <2>4
    <3> QED BY <1>1, <1>3, <2>2, <2>4, <3>1
  <2>6. m2 = m
    <3>1. PICK k3 \in Nat : k3 = k2 + 1
      BY <2>5
    <3>2. p * k3 + m2 = p * k + m
      BY <2>5, <3>1
    <3> QED BY ONLY <1>1, <1>3, <2>4, <3>1, <3>2, RemainderUnique
  <2>7. k = k2 + 1
    <3>1. (age - p) \div p = (age \div p) - 1
      BY <1>1, <1>5
    <3> QED BY <1>2, <1>3, <2>2, <2>3, <2>4, <3>1
  <2>8. Missed(age - p, p) + 1 = k /\ ToNext(age - p, p) = p - m
    BY <2>2, <2>3, <2>6, <2>7 DEF Missed, ToNext
  <2> QED BY <1>2, <1>5, <2>1, <2>8, TimersAssumed DEF Since
<1> QED BY <1>1, <1>4, <1>5

Expiries(m) ==
  CASE m.xMessageID = "START" -> Since(m.pxTimer, m.age, lists.xTimerPeriodInTicks[m.pxTimer])
    [] m.xMessageID = "CHANGE_PERIOD" -> <<0, m.xMessageValue>>
    [] OTHER -> <<0, 0>>

Commands == [xMessageID : {"START", "STOP", "CHANGE_PERIOD", "DELETE"}, pxTimer : Timers,
             xMessageValue : TickType, age : TickType]

\* A command tells the time at which it was given.
CommandOK(m) ==
  /\ m.pxTimer \notin lists.absent
  /\ m.xMessageID = "START" => AddTicks(m.xMessageValue, m.age) = xTickCount
  /\ m.xMessageID = "CHANGE_PERIOD" => m.xMessageValue \in Periods

\* What a command leaves: the expiries are those of the timer's new life.
Obeyed(s, r, m, expiries, toNext) ==
  LET t == m.pxTimer
      e == Expiries(m)
  IN /\ InOrder(r, {}, [expiries EXCEPT ![t] = e[1]], [toNext EXCEPT ![t] = e[2]], xTickCount)
     /\ e[1] \in Int /\ e[2] \in TickType
     /\ r.absent = IF m.xMessageID = "DELETE" THEN s.absent \cup {t} ELSE s.absent
     /\ r.xLastTime = xTickCount /\ r.active \cap r.absent = {}

LEMMA ProcessIs ==
  ASSUME NEW time, NEW m \in Commands, CommandOK(m),
         InOrder(lists, {}, due, left, time), lists.called = [t \in Timers |-> 0],
         lists.active \cap lists.absent = {},
         xTickCount \in TickType, OnTimeFor(lists, time),
         NEW f, f = Process(lists, m)
  PROVE  Obeyed(lists, f, m, due, left)
<1>101. PICK t, value, age : t = m.pxTimer /\ value = m.xMessageValue /\ age = m.age
  OBVIOUS
<1>102. PICK q, d, l, p : /\ q = RemoveFromActive(lists, t) /\ p = lists.xTimerPeriodInTicks[t]
                        /\ d = [due EXCEPT ![t] = 0] /\ l = [left EXCEPT ![t] = 0]
  OBVIOUS
<1>103. PICK r : r = SampleTimeNow(q)
  OBVIOUS
<1> DEFINE started == [r EXCEPT !.active = @ \cup {t}]
           changed == [r EXCEPT !.active = @ \cup {t}, !.xTimerPeriodInTicks[t] = value]
           stopped == [r EXCEPT !.active = @ \ {t}]
<1>1. t \in Timers /\ value \in TickType /\ age \in TickType
      /\ m.xMessageID \in {"START", "STOP", "CHANGE_PERIOD", "DELETE"} /\ t \notin lists.absent
  BY <1>101 DEF Commands, CommandOK
<1>2. due \in [Timers -> Int] /\ left \in [Timers -> Int]
  BY DEF InOrder
<1>3. /\ InOrder(q, {t}, d, l, time) /\ Kept(lists, q) /\ q.active = lists.active
      /\ OnLists(q) \subseteq OnLists(lists) /\ t \notin OnLists(q)
  <2>1. NothingCalled(lists) /\ NothingOwed(t, due, left, d, l) /\ t \in Timers
    BY <1>1, <1>102 DEF NothingCalled, NothingOwed
  <2>2. Removed(lists, q, t, d, l, time)
    BY ONLY <1>102, <2>1, InOrder(lists, {}, due, left, time), RemovedIs
  <2> QED BY <2>2 DEF Removed
<1>4. OnTimeFor(q, time)
  BY <1>3 DEF OnTimeFor, Kept
<1>5. /\ InOrder(r, {t}, d, l, xTickCount)
      /\ r.absent = q.absent /\ r.xTimerPeriodInTicks = q.xTimerPeriodInTicks
      /\ r.xLastTime = xTickCount /\ r.active \subseteq q.active
  BY <1>3, <1>4, <1>103, SampleIs
<1>6. /\ r.absent = lists.absent /\ r.xTimerPeriodInTicks = lists.xTimerPeriodInTicks
      /\ r.xLastTime = xTickCount /\ r.active \cap lists.absent = {}
  BY <1>3, <1>5 DEF Kept
<1>7. /\ r \in TimerLists /\ r.active \in SUBSET Timers /\ r.absent \in SUBSET Timers
      /\ r.xTimerPeriodInTicks \in [Timers -> Periods] /\ p \in Periods
      /\ p = r.xTimerPeriodInTicks[t] /\ t \notin OnLists(r) /\ OnLists(r) = r.active \ {t}
  BY <1>1, <1>5, <1>6, <1>102 DEF InOrder, Ordered, TimerLists
<1>8. d \in [Timers -> Int] /\ l \in [Timers -> Int] /\ d[t] = 0 /\ l[t] = 0 /\ r.called[t] = 0
  <2>1. d \in [Timers -> Int] /\ l \in [Timers -> Int] /\ d[t] = 0 /\ l[t] = 0
    BY <1>1, <1>2, <1>102
  <2>2. Account(r, t, xTickCount, d[t] - r.called[t], l[t])
    BY <1>1, <1>5 DEF InOrder, Accounts
  <2>3. d[t] - r.called[t] = 0 /\ r.called[t] \in Nat
    BY <1>1, <1>7, <2>2 DEF Account, TimerLists
  <2> QED BY <2>1, <2>3
<1>9. \A a, b : /\ [d EXCEPT ![t] = a] = [due EXCEPT ![t] = a]
                /\ [l EXCEPT ![t] = b] = [left EXCEPT ![t] = b]
  BY <1>1, <1>2, <1>102
<1>10. CASE m.xMessageID \in {"STOP", "DELETE"}
  <2>1. PICK B : B = IF m.xMessageID = "DELETE" THEN lists.absent \cup {t} ELSE lists.absent
    OBVIOUS
  <2>2. f = [r EXCEPT !.active = r.active \ {t}, !.absent = B,
                      !.xTimerPeriodInTicks = [r.xTimerPeriodInTicks EXCEPT ![t] = p]]
    <3>1. [r.xTimerPeriodInTicks EXCEPT ![t] = p] = r.xTimerPeriodInTicks
      BY <1>1, <1>7
    <3>2. [r EXCEPT !.active = r.active \ {t}, !.absent = B,
                    !.xTimerPeriodInTicks = r.xTimerPeriodInTicks]
            = [r EXCEPT !.active = r.active \ {t}, !.absent = B]
      BY <1>7 DEF TimerLists
    <3>3. CASE m.xMessageID = "STOP"
      <4>1. f = stopped
        BY <3>3, <1>101, <1>102, <1>103 DEF Process
      <4>2. stopped = [r EXCEPT !.active = r.active \ {t}, !.absent = B]
        BY <1>6, <1>7, <2>1, <3>3 DEF TimerLists
      <4> QED BY <3>1, <3>2, <4>1, <4>2
    <3>4. CASE m.xMessageID = "DELETE"
      <4>1. f = [stopped EXCEPT !.absent = @ \cup {t}]
        BY <3>4, <1>101, <1>102, <1>103 DEF Process
      <4>2. f = [r EXCEPT !.active = r.active \ {t}, !.absent = B]
        BY <1>6, <1>7, <2>1, <3>4, <4>1 DEF TimerLists
      <4> QED BY <3>1, <3>2, <4>2
    <3> QED BY <1>10, <3>3, <3>4
  <2>3. /\ r.active \ {t} \in SUBSET Timers /\ B \in SUBSET Timers
        /\ r.active \ {t} = (r.active \ {t}) \ {}
    BY <1>1, <1>6, <1>7, <2>1
  <2>4. /\ InOrder(f, {}, d, l, xTickCount) /\ f.active = r.active \ {t} /\ f.absent = B
        /\ f.xLastTime = r.xLastTime
    <3>1. PICK A : A = r.active \ {t}
      OBVIOUS
    <3>2. /\ A \in SUBSET Timers /\ B \in SUBSET Timers /\ r.active \ {t} = A \ {}
          /\ t \in Timers /\ t \notin OnLists(r) /\ p \in Periods
          /\ InOrder(r, {t}, d, l, xTickCount)
      BY <1>1, <1>5, <1>7, <2>3, <3>1
    <3>3. ChangedTo(r, f, t, A, B, p)
      BY <2>2, <3>1 DEF ChangedTo
    <3>4. Changed(r, f, t, {}, d, l, xTickCount, A, B, p)
      BY ONLY <3>2, <3>3, ChangedIs
    <3> QED BY <3>1, <3>4 DEF Changed
  <2>5. Expiries(m) = <<0, 0>>
    BY <1>10 DEF Expiries
  <2>6. [d EXCEPT ![t] = 0] = d /\ [l EXCEPT ![t] = 0] = l
    BY <1>8
  <2>7. InOrder(f, {}, [due EXCEPT ![t] = 0], [left EXCEPT ![t] = 0], xTickCount)
    BY <1>9, <2>4, <2>6
  <2>8. f.active \cap f.absent = {} /\ f.absent = B /\ f.xLastTime = xTickCount
    BY <1>6, <2>1, <2>4
  <2>9. 0 \in TickType
    BY TimersAssumed
  <2> QED BY <1>101, <2>1, <2>5, <2>7, <2>8, <2>9 DEF Obeyed
<1>11. CASE m.xMessageID = "CHANGE_PERIOD"
  <2>1. f = Insert(changed, t, AddTicks(xTickCount, value), xTickCount)
    BY <1>11, <1>101, <1>102, <1>103 DEF Process
  <2>2. changed = [r EXCEPT !.active = r.active \cup {t}, !.absent = r.absent,
                            !.xTimerPeriodInTicks = [r.xTimerPeriodInTicks EXCEPT ![t] = value]]
    BY <1>7 DEF TimerLists
  <2>3. value \in Periods
    BY <1>11, <1>101 DEF CommandOK
  <2>4. r.active \cup {t} \in SUBSET Timers /\ r.active \ {t} = (r.active \cup {t}) \ {t}
    BY <1>1, <1>7
  <2>5. PICK s : s = changed
    OBVIOUS
  <2> HIDE DEF changed
  <2>6. /\ InOrder(s, {t}, d, l, xTickCount) /\ s.active = r.active \cup {t}
        /\ s.absent = r.absent /\ s.xLastTime = r.xLastTime
        /\ s.xTimerPeriodInTicks[t] = value
    <3>1. PICK A, B : A = r.active \cup {t} /\ B = r.absent
      OBVIOUS
    <3>2. /\ A \in SUBSET Timers /\ B \in SUBSET Timers /\ r.active \ {t} = A \ {t}
          /\ t \in Timers /\ t \notin OnLists(r) /\ value \in Periods
          /\ InOrder(r, {t}, d, l, xTickCount)
      BY <1>1, <1>5, <1>7, <2>3, <2>4, <3>1
    <3>3. ChangedTo(r, s, t, A, B, value)
      BY <2>2, <2>5, <3>1 DEF ChangedTo
    <3>4. Changed(r, s, t, {t}, d, l, xTickCount, A, B, value)
      BY ONLY <3>2, <3>3, ChangedIs
    <3> QED BY <3>1, <3>4 DEF Changed
  <2>7. value \in TickType /\ value # 0 /\ value <= value
    BY <2>3, TimersAssumed
  <2>8. /\ InOrder(f, {}, d, [l EXCEPT ![t] = value], xTickCount)
        /\ Kept(s, f) /\ f.active = s.active
    <3>1. /\ t \in Timers /\ InOrder(s, {t}, d, l, xTickCount) /\ t \in s.active
          /\ value \in TickType /\ value # 0 /\ value <= s.xTimerPeriodInTicks[t]
          /\ f = Insert(s, t, AddTicks(xTickCount, value), xTickCount) /\ xTickCount \in TickType
      BY <1>1, <2>1, <2>5, <2>6, <2>7
    <3>2. Inserted(s, f, t, d, l, value, xTickCount)
      BY ONLY <3>1, InsertedIs
    <3> QED BY <3>2 DEF Inserted
  <2>9. Expiries(m) = <<0, value>>
    BY <1>11, <1>101 DEF Expiries
  <2>10. [d EXCEPT ![t] = 0] = d
    BY <1>8
  <2>11. InOrder(f, {}, [due EXCEPT ![t] = 0], [left EXCEPT ![t] = value], xTickCount)
    BY <1>9, <2>8, <2>10
  <2>12. f.active \cap f.absent = {} /\ f.absent = lists.absent /\ f.xLastTime = xTickCount
    BY <1>1, <1>6, <2>6, <2>8 DEF Kept
  <2> QED BY <1>101, <1>11, <2>7, <2>9, <2>11, <2>12 DEF Obeyed
<1>12. CASE m.xMessageID = "START"
  <2>1. f = Start(r, t, value)
    BY <1>12, <1>101, <1>102, <1>103 DEF Process
  <2>2. started = [r EXCEPT !.active = r.active \cup {t}, !.absent = r.absent,
                            !.xTimerPeriodInTicks = [r.xTimerPeriodInTicks EXCEPT ![t] = p]]
    <3>1. [r.xTimerPeriodInTicks EXCEPT ![t] = p] = r.xTimerPeriodInTicks
      BY <1>1, <1>7
    <3> QED BY <1>7, <3>1 DEF TimerLists
  <2>3. AddTicks(value, age) = xTickCount
    BY <1>12, <1>101 DEF CommandOK
  <2>4. r.active \cup {t} \in SUBSET Timers /\ r.active \ {t} = (r.active \cup {t}) \ {t}
    BY <1>1, <1>7
  <2>5. PICK s : s = started
    OBVIOUS
  <2>6. /\ InOrder(s, {t}, d, l, xTickCount) /\ s.active = r.active \cup {t}
        /\ s.absent = r.absent /\ s.xLastTime = r.xLastTime
        /\ s.xTimerPeriodInTicks[t] = p /\ s.called = r.called
    <3>1. PICK A, B : A = r.active \cup {t} /\ B = r.absent
      OBVIOUS
    <3>2. /\ A \in SUBSET Timers /\ B \in SUBSET Timers /\ r.active \ {t} = A \ {t}
          /\ t \in Timers /\ t \notin OnLists(r) /\ p \in Periods
          /\ InOrder(r, {t}, d, l, xTickCount)
      BY <1>1, <1>5, <1>7, <2>4, <3>1
    <3>3. ChangedTo(r, s, t, A, B, p)
      BY <2>2, <2>5, <3>1 DEF ChangedTo
    <3>4. Changed(r, s, t, {t}, d, l, xTickCount, A, B, p)
      BY ONLY <3>2, <3>3, ChangedIs
    <3> QED BY <3>1, <3>4 DEF Changed
  <2>7. PICK next : next = AddTicks(value, p)
    OBVIOUS
  <2>8. f = IF IsDue(s, t, next, xTickCount, value) THEN AfterExpiry(s, t, next, xTickCount)
            ELSE Insert(s, t, next, xTickCount)
    BY <1>7, <2>1, <2>5, <2>7 DEF Start
  <2> HIDE DEF started
  <2>9. IsDue(s, t, next, xTickCount, value) <=> age >= p
    BY <1>1, <1>7, <2>3, <2>6, <2>7, DueIfPast
  <2>10. Expiries(m) = Since(t, age, p)
    BY <1>12, <1>101, <1>102 DEF Expiries
  <2>11. /\ age \in Nat /\ p \in Nat /\ value \in Nat /\ p <= portMAX_DELAY /\ p \in TickType
    BY <1>1, <1>7, TimersAssumed
  <2>12. Kept(s, f) /\ f.active \subseteq s.active
           => f.active \cap f.absent = {} /\ f.absent = lists.absent /\ f.xLastTime = xTickCount
    BY <1>1, <1>6, <2>6 DEF Kept
  <2>13. CASE age < p
    <3>1. PICK rest : rest = p - age
      OBVIOUS
    <3>2. Since(t, age, p) = <<0, rest>> /\ rest \in TickType /\ rest # 0 /\ rest <= p
          /\ rest \in Nat /\ age + rest = p
      <4>1. Since(t, age, p) = <<0, rest>> /\ rest \in TickType /\ rest # 0
        BY <1>1, <1>7, <2>13, <3>1, SinceIs
      <4> QED BY <2>11, <2>13, <3>1, <4>1
    <3>3. next = AddTicks(xTickCount, rest)
      <4>1. AddTicks(AddTicks(value, age), rest) = AddTicks(value, age + rest)
        BY ONLY <2>11, <3>2, TicksAddUp
      <4> QED BY <2>3, <2>7, <3>2, <4>1
    <3>4. f = Insert(s, t, AddTicks(xTickCount, rest), xTickCount)
      BY <2>8, <2>9, <2>11, <2>13, <3>3
    <3>5. /\ InOrder(f, {}, d, [l EXCEPT ![t] = rest], xTickCount)
          /\ Kept(s, f) /\ f.active = s.active
      <4>1. /\ t \in Timers /\ InOrder(s, {t}, d, l, xTickCount) /\ t \in s.active
            /\ rest \in TickType /\ rest # 0 /\ rest <= s.xTimerPeriodInTicks[t]
            /\ xTickCount \in TickType
        BY <1>1, <2>6, <3>2
      <4>2. Inserted(s, f, t, d, l, rest, xTickCount)
        BY ONLY <3>4, <4>1, InsertedIs
      <4> QED BY <4>2 DEF Inserted
    <3>6. [d EXCEPT ![t] = 0] = d
      BY <1>8
    <3>7. InOrder(f, {}, [due EXCEPT ![t] = 0], [left EXCEPT ![t] = rest], xTickCount)
      BY <1>9, <3>5, <3>6
    <3> QED BY <1>101, <1>12, <2>10, <2>12, <3>2, <3>5, <3>7 DEF Obeyed
  <2>14. CASE age >= p
    <3>1. PICK since : since = age - p
      OBVIOUS
    <3>2. since \in TickType /\ since \in Nat /\ p + since = age
      <4>1. since \in TickType
        BY <1>1, <1>7, <2>14, <3>1, SinceIs
      <4> QED BY <2>11, <3>1, <4>1, TimersAssumed
    <3>3. AddTicks(next, since) = xTickCount /\ next \in TickType
      <4>1. /\ AddTicks(AddTicks(value, p), since) = AddTicks(value, p + since)
            /\ AddTicks(value, p) \in TickType
        BY ONLY <2>11, <3>2, TicksAddUp
      <4> QED BY <2>3, <2>7, <3>2, <4>1
    <3>4. f = AfterExpiry(s, t, next, xTickCount)
      BY <2>8, <2>9, <2>14
    <3>5. PICK n, rest : /\ n = (IF t \in Autoreload THEN Missed(since, p) + 1 ELSE 1)
                         /\ rest = (IF t \in Autoreload THEN ToNext(since, p) ELSE 0)
      OBVIOUS
    <3>6. s.called[t] = 0 /\ t \in s.active
      BY <1>8, <2>6
    <3>7. /\ InOrder(f, {}, [d EXCEPT ![t] = n], [l EXCEPT ![t] = rest], xTickCount)
          /\ Kept(s, f) /\ f.active \subseteq s.active
      <4>1. PICK now : now = xTickCount
        OBVIOUS
      <4>2. /\ InOrder(s, {t}, d, l, now) /\ t \in s.active /\ d[t] = 0 /\ s.called[t] = 0
            /\ next \in TickType /\ since \in TickType /\ AddTicks(next, since) = now
            /\ p = s.xTimerPeriodInTicks[t] /\ f = AfterExpiry(s, t, next, now)
            /\ now \in TickType /\ t \in Timers
        BY <1>1, <1>8, <2>6, <3>2, <3>3, <3>4, <3>6, <4>1
      <4>3. ExpiresTo(t, since, p, n, rest)
        BY <3>5 DEF ExpiresTo
      <4>4. ExpiredNow(s, f, t, d, l, n, rest, now)
        BY ONLY <4>2, <4>3, ExpiredNowIs
      <4> QED BY <4>1, <4>4 DEF ExpiredNow
    <3>8. Since(t, age, p) = <<n, rest>> /\ n \in Int /\ rest \in TickType
      <4>1. /\ Missed(since, p) \in Nat /\ ToNext(since, p) \in TickType
        BY <1>7, <3>2, MissedIs
      <4>2. PICK a, b : a = Missed(since, p) /\ b = ToNext(since, p)
        OBVIOUS
      <4>3. t \in Autoreload => Since(t, age, p) = <<a + 1, b>>
        BY <1>1, <1>7, <2>14, <3>1, <4>2, SinceIs
      <4>4. t \notin Autoreload => Since(t, age, p) = <<1, 0>>
        BY <1>1, <1>7, <2>14, SinceIs
      <4>5. 0 \in TickType
        BY TimersAssumed
      <4> QED BY <3>5, <4>1, <4>2, <4>3, <4>4, <4>5
    <3>9. InOrder(f, {}, [due EXCEPT ![t] = n], [left EXCEPT ![t] = rest], xTickCount)
      BY <1>9, <3>7
    <3> QED BY <1>101, <1>12, <2>10, <2>12, <3>7, <3>8, <3>9 DEF Obeyed
  <2> QED BY <2>11, <2>13, <2>14
<1> QED BY <1>1, <1>10, <1>11, <1>12

-----------------------------------------------------------------------------
(* The invariant of the timers.                                            *)

\* The lists tell when each timer expires next, and the history agrees.
ListsOK ==
  /\ xTickCount \in TickType /\ late \in TickType /\ uptime \in 0 .. MaxAge
  /\ left \in [Timers -> TickType]
  /\ InOrder(lists, {}, due, left, lists.xLastTime + late)
  /\ OnTimeFor(lists, lists.xLastTime + late)
  /\ NothingCalled(lists) /\ lists.active \cap lists.absent = {}

\* The timer task sleeps through no expiry, and for less than the range of the tick count.
DaemonOK ==
  /\ daemon \in [pc : {"timers", "commands", "blocked"}, sleep : -1 .. portMAX_DELAY]
  /\ daemon.pc = "blocked" <=> daemon.sleep # 0
  /\ daemon.sleep = Forever => lists.active = {}
  /\ daemon.sleep > 0 =>
       /\ late + daemon.sleep <= portMAX_DELAY
       /\ \A t \in lists.active :
            ExpiryOf(lists, t) >= lists.xLastTime + late + daemon.sleep

\* The last command for a timer is the one that deletes it.
QueueOK ==
  /\ xTimerQueue \in Seq(Commands)
  /\ \A i \in 1 .. Len(xTimerQueue) : CommandOK(xTimerQueue[i])
  /\ \A i, j \in 1 .. Len(xTimerQueue) :
       i < j /\ xTimerQueue[i].xMessageID = "DELETE"
         => xTimerQueue[i].pxTimer # xTimerQueue[j].pxTimer

TimersInv == ListsOK /\ DaemonOK /\ QueueOK

LEMMA TimersInvInit == TimerInit => TimersInv
<1> SUFFICES ASSUME TimerInit PROVE TimersInv
  OBVIOUS
<1>1. PICK p : p = CHOOSE q \in Periods : TRUE
  OBVIOUS
<1>2. PICK f, none : f = [t \in Timers |-> p] /\ none = [t \in Timers |-> 0]
  OBVIOUS
<1>3. /\ f \in [Timers -> Periods] /\ none \in [Timers -> Nat] /\ none \in [Timers -> TickType]
      /\ \A t \in Timers : none[t] = 0
  <2>1. p \in Periods /\ 0 \in TickType
    BY <1>1, TimersAssumed
  <2> QED BY <1>2, <2>1
<1>4. PICK r : r = [pxCurrentTimerList |-> <<>>, pxOverflowTimerList |-> <<>>,
                    xItemValue |-> none, xLastTime |-> 0, active |-> {}, absent |-> Timers,
                    xTimerPeriodInTicks |-> f, called |-> none]
  OBVIOUS
<1>5. /\ lists = r /\ xTickCount = 0 /\ xTimerQueue = <<>> /\ due = none /\ left = none
      /\ late = 0 /\ uptime = 0 /\ daemon = [pc |-> "timers", sleep |-> 0]
  BY <1>1, <1>2, <1>4 DEF TimerInit
<1>6. /\ r \in TimerLists /\ r.pxCurrentTimerList = <<>> /\ r.pxOverflowTimerList = <<>>
      /\ r.active = {} /\ r.called = none /\ r.xLastTime = 0
  <2>1. 0 \in TickType /\ <<>> \in Seq(Timers)
    BY TimersAssumed
  <2> QED BY <1>3, <1>4, <2>1 DEF TimerLists
<1>7. OnCurrent(r) = {} /\ OnOverflow(r) = {} /\ OnLists(r) = {}
  BY <1>6 DEF OnCurrent, OnOverflow, OnLists, Members
<1>8. Ordered(r)
  BY <1>6, <1>7 DEF Ordered, IsItems, ListSorted
<1>9. Accounts(r, none, none, 0)
  <2> SUFFICES ASSUME NEW u \in Timers PROVE Account(r, u, 0, none[u] - r.called[u], none[u])
    BY DEF Accounts
  <2>1. none[u] - r.called[u] = 0 /\ none[u] = 0
    BY <1>3, <1>6
  <2> QED BY <1>7, <2>1 DEF Account
<1>10. InOrder(r, {}, none, none, 0)
  <2>1. none \in [Timers -> Int]
    BY <1>3
  <2> QED BY <1>6, <1>7, <1>8, <1>9, <2>1 DEF InOrder
<1>11. ListsOK
  <2>1. 0 \in TickType /\ 0 \in 0 .. MaxAge /\ lists.xLastTime + late = 0
    BY <1>5, <1>6, TimersAssumed
  <2>2. NothingCalled(lists) /\ OnTimeFor(lists, lists.xLastTime + late)
    BY <1>2, <1>5, <1>6, <1>7 DEF NothingCalled, OnTimeFor
  <2> QED BY <1>3, <1>5, <1>6, <1>10, <2>1, <2>2 DEF ListsOK
<1>12. DaemonOK
  <2>1. 0 \in -1 .. portMAX_DELAY
    BY TimersAssumed
  <2> QED BY <1>5, <2>1 DEF DaemonOK, Forever
<1>13. QueueOK
  BY <1>5 DEF QueueOK
<1> QED BY <1>11, <1>12, <1>13 DEF TimersInv

-----------------------------------------------------------------------------
(* The tick.                                                               *)

TickAccounts(u, owed, toNext, p, o, n) ==
  /\ o = (IF toNext = 1 THEN owed + 1 ELSE owed)
  /\ n = (IF toNext = 1 /\ u \in Autoreload THEN p ELSE Max({toNext - 1, 0}))

LEMMA TickAccount ==
  ASSUME NEW s, s \in TimerLists, NEW u \in Timers, NEW time \in Nat,
         NEW owed \in Int, NEW toNext \in Int, Account(s, u, time, owed, toNext),
         NEW o, NEW n, TickAccounts(u, owed, toNext, s.xTimerPeriodInTicks[u], o, n)
  PROVE  Account(s, u, time + 1, o, n)
<1>1. PICK p, e, m : /\ p = s.xTimerPeriodInTicks[u] /\ e = ExpiryOf(s, u)
                     /\ m = Max({toNext - 1, 0})
  OBVIOUS
<1>2. p \in Nat /\ 1 <= p /\ e \in Nat
  <2>1. p \in Periods /\ s.xItemValue[u] \in TickType
    BY <1>1 DEF TimerLists
  <2> QED BY <1>1, <2>1, TimersAssumed DEF ExpiryOf
<1>3. m = IF toNext - 1 >= 0 THEN toNext - 1 ELSE 0
  <2>1. PICK x \in Int : x = toNext - 1
    OBVIOUS
  <2>2. Max({x, 0}) = IF x >= 0 THEN x ELSE 0
    BY MaxOfTwo
  <2> QED BY <1>1, <2>1, <2>2
<1>4. /\ o = (IF toNext = 1 THEN owed + 1 ELSE owed)
      /\ n = (IF toNext = 1 /\ u \in Autoreload THEN p ELSE m)
  BY <1>1 DEF TickAccounts
<1>5. CASE u \notin OnLists(s)
  BY <1>3, <1>4, <1>5 DEF Account
<1>6. CASE u \in OnLists(s) /\ u \in Autoreload
  <2>1. owed \in Nat /\ toNext \in 1 .. p /\ e + owed * p = time + toNext
    BY <1>1, <1>6 DEF Account
  <2>2. o \in Nat /\ n \in 1 .. p /\ e + o * p = (time + 1) + n
    <3>1. PICK x \in Nat : x = owed * p /\ (owed + 1) * p = x + p
      BY <1>2, <2>1, Products
    <3>2. CASE toNext = 1
      <4>1. o = owed + 1 /\ n = p
        BY <1>4, <1>6, <3>2
      <4>2. e + x = time + 1
        BY <2>1, <3>1, <3>2
      <4>3. o * p = x + p
        BY <3>1, <4>1
      <4> QED BY <1>2, <2>1, <4>1, <4>2, <4>3
    <3>3. CASE toNext # 1
      <4>1. o = owed /\ n = toNext - 1
        BY <1>3, <1>4, <2>1, <3>3
      <4>2. e + x = time + toNext /\ o * p = x
        BY <2>1, <3>1, <4>1
      <4> QED BY <1>2, <2>1, <3>3, <4>1, <4>2
    <3> QED BY <3>2, <3>3
  <2> QED BY <1>1, <1>6, <2>2 DEF Account
<1>7. CASE u \in OnLists(s) /\ u \notin Autoreload
  <2>1. \/ owed = 0 /\ toNext > 0 /\ e = time + toNext
        \/ owed = 1 /\ toNext = 0 /\ e <= time
    BY <1>1, <1>7 DEF Account
  <2>2. \/ o = 0 /\ n > 0 /\ e = (time + 1) + n
        \/ o = 1 /\ n = 0 /\ e <= time + 1
    BY <1>2, <1>3, <1>4, <1>7, <2>1
  <2> QED BY <1>1, <1>7, <2>2 DEF Account
<1> QED BY <1>5, <1>6, <1>7

\* At a tick an expiry falls due, or comes nearer.
LEMMA TickInOrder ==
  ASSUME NEW s, NEW d, NEW l, NEW time, InOrder(s, {}, d, l, time), NothingCalled(s),
         NEW d2, d2 = [t \in Timers |-> IF l[t] = 1 THEN d[t] + 1 ELSE d[t]],
         NEW l2, l2 = [t \in Timers |->
                         IF l[t] = 1 /\ t \in Autoreload THEN s.xTimerPeriodInTicks[t]
                         ELSE Max({l[t] - 1, 0})]
  PROVE  InOrder(s, {}, d2, l2, time + 1)
<1>1. /\ Ordered(s) /\ OnLists(s) = s.active \ {} /\ Accounts(s, d, l, time) /\ s \in TimerLists
      /\ d \in [Timers -> Int] /\ l \in [Timers -> Int] /\ time \in Nat
      /\ s.xTimerPeriodInTicks \in [Timers -> Periods]
  BY DEF InOrder, Ordered, TimerLists
<1>2. d2 \in [Timers -> Int]
  BY <1>1
<1>3. ASSUME NEW u \in Timers
      PROVE  l2[u] \in Int /\ Account(s, u, time + 1, d2[u] - s.called[u], l2[u])
  <2>1. PICK owed, toNext, o, n : /\ owed = d[u] - s.called[u] /\ toNext = l[u]
                                  /\ o = d2[u] - s.called[u] /\ n = l2[u]
    OBVIOUS
  <2>2. s.called[u] = 0
    BY DEF NothingCalled
  <2>3. /\ owed \in Int /\ toNext \in Int /\ owed = d[u] /\ o = d2[u]
    BY <1>1, <1>2, <2>1, <2>2
  <2>4. TickAccounts(u, owed, toNext, s.xTimerPeriodInTicks[u], o, n)
    BY <2>1, <2>3 DEF TickAccounts
  <2>5. Account(s, u, time, owed, toNext)
    BY <1>1, <2>1 DEF Accounts
  <2>6. Account(s, u, time + 1, o, n)
    BY <1>1, <2>3, <2>4, <2>5, TickAccount
  <2>7. n \in Int
    <3>1. PICK x \in Int : x = toNext - 1
      BY <2>3
    <3>2. Max({x, 0}) \in Int
      BY MaxOfTwo
    <3>3. s.xTimerPeriodInTicks[u] \in Int
      BY <1>1, TimersAssumed
    <3> QED BY <2>4, <3>1, <3>2, <3>3 DEF TickAccounts
  <2> QED BY <2>1, <2>6, <2>7
<1>4. l2 \in [Timers -> Int]
  <2>1. PICK f : f = [t \in Timers |-> l2[t]]
    OBVIOUS
  <2>2. f \in [Timers -> Int]
    BY <1>3, <2>1
  <2>3. l2 = f
    BY <2>1
  <2> QED BY <2>2, <2>3
<1>5. Accounts(s, d2, l2, time + 1)
  BY <1>3 DEF Accounts
<1>6. time + 1 \in Nat
  BY <1>1
<1> QED BY ONLY <1>1, <1>2, <1>4, <1>5, <1>6 DEF InOrder

LEMMA TickKeeps ==
  TimersInv /\ Tick => TimersInv'
<1> SUFFICES ASSUME TimersInv, Tick PROVE TimersInv'
  OBVIOUS
<1>1. ListsOK /\ DaemonOK /\ QueueOK
  BY DEF TimersInv
<1>2. PICK time, last : time = lists.xLastTime + late /\ last = lists.xLastTime
  OBVIOUS
<1>3. /\ InOrder(lists, {}, due, left, time) /\ NothingCalled(lists) /\ OnTimeFor(lists, time)
      /\ xTickCount \in TickType /\ late \in TickType /\ left \in [Timers -> TickType]
      /\ lists.active \cap lists.absent = {} /\ uptime \in 0 .. MaxAge
  BY <1>1, <1>2 DEF ListsOK
<1>4. /\ lists \in TimerLists /\ OnLists(lists) = lists.active /\ last \in TickType /\ last \in Nat
      /\ late \in Nat /\ time \in Nat /\ lists.active \subseteq Timers
  <2>1. lists \in TimerLists /\ OnLists(lists) = lists.active
    BY <1>3 DEF InOrder, Ordered
  <2>2. last \in TickType /\ last \in Nat /\ late \in Nat /\ lists.active \subseteq Timers
    BY <1>2, <1>3, <2>1, TimersAssumed DEF TimerLists
  <2> QED BY <1>2, <2>1, <2>2
<1>5. /\ xTickCount' = AddTicks(xTickCount, 1) /\ lists' = lists
      /\ due' = [t \in Timers |-> IF left[t] = 1 THEN due[t] + 1 ELSE due[t]]
      /\ left' = [t \in Timers |->
            IF left[t] = 1 /\ t \in Autoreload THEN lists.xTimerPeriodInTicks[t]
            ELSE Max({left[t] - 1, 0})]
      /\ late' = IF daemon.sleep = Forever THEN 0 ELSE late + 1
      /\ uptime' = IF uptime < MaxAge THEN uptime + 1 ELSE uptime
      /\ daemon' = IF daemon.pc # "blocked" \/ daemon.sleep = Forever THEN daemon
                   ELSE [daemon EXCEPT !.sleep = @ - 1,
                                       !.pc = IF daemon.sleep = 1 THEN "commands" ELSE @]
      /\ late < portMAX_DELAY \/ daemon.pc = "blocked"
  BY DEF Tick
<1>6. InOrder(lists, {}, due', left', time + 1)
  <2>1. PICK d, l : d = due' /\ l = left'
    OBVIOUS
  <2>2. InOrder(lists, {}, d, l, time + 1)
    BY <1>3, <1>5, <2>1, TickInOrder
  <2> QED BY <2>1, <2>2
<1>7. left' \in [Timers -> TickType]
  <2> SUFFICES ASSUME NEW t \in Timers
               PROVE  (IF left[t] = 1 /\ t \in Autoreload THEN lists.xTimerPeriodInTicks[t]
                       ELSE Max({left[t] - 1, 0})) \in TickType
    BY <1>5
  <2>1. PICK x \in Int : x = left[t] - 1 /\ left[t] \in Nat /\ left[t] <= portMAX_DELAY
    <3>1. left[t] \in Nat /\ left[t] <= portMAX_DELAY
      BY <1>3, TimersAssumed
    <3> QED BY <3>1
  <2>2. Max({x, 0}) = IF x >= 0 THEN x ELSE 0
    BY MaxOfTwo
  <2>3. Max({x, 0}) \in TickType
    BY <2>1, <2>2, TimersAssumed
  <2>4. lists.xTimerPeriodInTicks[t] \in TickType
    BY <1>4, TimersAssumed DEF TimerLists
  <2> QED BY <2>1, <2>3, <2>4
<1>8. /\ daemon \in [pc : {"timers", "commands", "blocked"}, sleep : -1 .. portMAX_DELAY]
      /\ daemon.sleep \in Int /\ portMAX_DELAY \in Nat /\ Forever = -1
      /\ daemon.pc = "blocked" <=> daemon.sleep # 0
      /\ daemon.sleep = Forever => lists.active = {}
      /\ daemon.sleep > 0 =>
           /\ late + daemon.sleep <= portMAX_DELAY
           /\ \A t \in lists.active : ExpiryOf(lists, t) >= time + daemon.sleep
  BY <1>1, <1>2, TimersAssumed DEF DaemonOK, Forever
<1>9. xTickCount' \in TickType
  <2>1. xTickCount \in Nat
    BY <1>3, TimersAssumed
  <2> QED BY <1>5, <2>1, TicksAddUp
<1>10. /\ InOrder(lists, {}, due', left', lists.xLastTime + late') /\ late' \in TickType
       /\ OnTimeFor(lists, lists.xLastTime + late)'
  <2>1. CASE daemon.sleep = Forever
    <3>1. OnLists(lists) = {} /\ late' = 0 /\ lists.xLastTime + late' = last
      BY <1>2, <1>4, <1>5, <1>8, <2>1
    <3>2. InOrder(lists, {}, due', left', last)
      BY <1>4, <1>6, <3>1, AnyTime
    <3>3. 0 \in TickType
      BY TimersAssumed
    <3> QED BY <1>5, <3>1, <3>2, <3>3 DEF OnTimeFor
  <2>2. CASE daemon.sleep # Forever
    <3>1. late' = late + 1 /\ late < portMAX_DELAY
      BY <1>4, <1>5, <1>8, <2>2
    <3>2. late' \in TickType /\ lists.xLastTime + late' = time + 1 /\ late + 1 - 0 = late'
      BY <1>2, <1>4, <1>8, <3>1, TimersAssumed
    <3>3. OnLists(lists) # {} => xTickCount' = AddTicks(last, late + 1)
      <4>1. OnLists(lists) # {} => xTickCount = AddTicks(last, late)
        <5>1. time - last = late
          BY <1>2, <1>4
        <5> QED BY <1>2, <1>3, <5>1 DEF OnTimeFor
      <4>2. AddTicks(AddTicks(last, late), 1) = AddTicks(last, late + 1)
        BY <1>4, TicksAddUp
      <4> QED BY <1>5, <4>1, <4>2
    <3>4. time + 1 - last = late + 1
      BY <1>2, <1>4
    <3>5. OnTimeFor(lists, lists.xLastTime + late)'
      <4>1. PICK n : n = late' /\ n = late + 1 /\ n \in TickType
        BY <3>1, <3>2
      <4>2. PICK later : later = time + 1
        OBVIOUS
      <4>3. later - last = n /\ (lists.xLastTime + late)' = later /\ lists'.xLastTime = last
        BY <1>2, <1>4, <1>5, <3>2, <4>1, <4>2
      <4>4. OnLists(lists) # {} => xTickCount' = AddTicks(last, n)
        BY <3>3, <4>1
      <4>5. OnLists(lists') = OnLists(lists)
        BY <1>5
      <4> QED BY ONLY <4>1, <4>3, <4>4, <4>5 DEF OnTimeFor
    <3>6. InOrder(lists, {}, due', left', lists.xLastTime + late')
      BY <1>6, <3>2
    <3> QED BY <3>2, <3>5, <3>6
  <2> QED BY <2>1, <2>2
<1>11. ListsOK'
  <2>1. uptime' \in 0 .. MaxAge
    BY <1>3, <1>5, TimersAssumed
  <2> QED BY <1>3, <1>5, <1>7, <1>9, <1>10, <2>1 DEF ListsOK, NothingCalled
<1>12. DaemonOK'
  <2>1. CASE daemon.pc # "blocked" \/ daemon.sleep = Forever
    <3>1. daemon' = daemon /\ ~(daemon.sleep > 0)
      BY <1>5, <1>8, <2>1
    <3> QED BY <1>5, <1>8, <3>1 DEF DaemonOK
  <2>2. CASE daemon.pc = "blocked" /\ daemon.sleep # Forever
    <3>1. daemon.sleep > 0 /\ late' = late + 1
      BY <1>5, <1>8, <2>2
    <3>2. PICK n, at : n = daemon.sleep - 1 /\ at = IF daemon.sleep = 1 THEN "commands" ELSE "blocked"
      OBVIOUS
    <3>3. /\ daemon' = [pc |-> at, sleep |-> n] /\ daemon'.pc = at /\ daemon'.sleep = n
          /\ at \in {"timers", "commands", "blocked"}
      BY <1>5, <1>8, <2>2, <3>2
    <3>4. n \in -1 .. portMAX_DELAY /\ n >= 0 /\ late' + n = late + daemon.sleep
          /\ at = "blocked" <=> n # 0
      BY <1>4, <1>8, <3>1, <3>2
    <3>5. lists.xLastTime + late' + n = time + daemon.sleep
      BY <1>2, <1>4, <1>8, <3>1, <3>2
    <3> HIDE <1>2
    <3> QED BY <1>5, <1>8, <3>1, <3>3, <3>4, <3>5 DEF DaemonOK
  <2> QED BY <2>1, <2>2
<1>13. QueueOK'
  <2>1. PICK q : q = [i \in 1 .. Len(xTimerQueue) |-> [xTimerQueue[i] EXCEPT !.age = @ + 1]]
    OBVIOUS
  <2>2. xTimerQueue' = q /\ \A i \in 1 .. Len(xTimerQueue) : xTimerQueue[i].age < portMAX_DELAY
    BY <2>1 DEF Tick
  <2>3. /\ xTimerQueue \in Seq(Commands)
        /\ \A i \in 1 .. Len(xTimerQueue) : CommandOK(xTimerQueue[i])
        /\ \A i, j \in 1 .. Len(xTimerQueue) :
             i < j /\ xTimerQueue[i].xMessageID = "DELETE"
               => xTimerQueue[i].pxTimer # xTimerQueue[j].pxTimer
    BY <1>1 DEF QueueOK
  <2>4. ASSUME NEW i \in 1 .. Len(xTimerQueue)
        PROVE  /\ q[i] \in Commands /\ q[i].xMessageID = xTimerQueue[i].xMessageID
               /\ q[i].pxTimer = xTimerQueue[i].pxTimer /\ CommandOK(q[i])'
    <3>1. PICK m, a : m = xTimerQueue[i] /\ a = m.age + 1
      OBVIOUS
    <3>2. m \in Commands /\ m.age < portMAX_DELAY /\ CommandOK(m)
      BY <2>2, <2>3, <3>1
    <3>3. /\ m.age \in Nat /\ m.xMessageValue \in Nat /\ a \in TickType
      BY <3>1, <3>2, TimersAssumed DEF Commands
    <3>4. q[i] = [m EXCEPT !.age = a]
      BY <2>1, <3>1
    <3>5. /\ q[i] \in Commands /\ q[i].xMessageID = m.xMessageID /\ q[i].pxTimer = m.pxTimer
          /\ q[i].xMessageValue = m.xMessageValue /\ q[i].age = a
      BY <3>2, <3>3, <3>4 DEF Commands
    <3>6. m.xMessageID = "START" => AddTicks(m.xMessageValue, a) = xTickCount'
      <4>1. AddTicks(AddTicks(m.xMessageValue, m.age), 1) = AddTicks(m.xMessageValue, m.age + 1)
        BY <3>3, TicksAddUp
      <4> QED BY <1>5, <3>1, <3>2, <4>1 DEF CommandOK
    <3> QED BY <1>5, <3>1, <3>2, <3>5, <3>6 DEF CommandOK
  <2>5. Len(xTimerQueue) \in Nat /\ q \in Seq(Commands) /\ Len(q) = Len(xTimerQueue)
    <3>1. Len(xTimerQueue) \in Nat
      BY <2>3
    <3>2. PICK n \in Nat : n = Len(xTimerQueue)
      BY <3>1
    <3>3. DOMAIN q = 1 .. n
      BY <2>1, <3>2
    <3>4. q = [i \in 1 .. n |-> q[i]]
      BY <2>1, <3>2
    <3>5. q \in [1 .. n -> Commands]
      BY <2>4, <3>2, <3>4
    <3> QED BY <3>1, <3>2, <3>5
  <2>6. /\ \A i \in 1 .. Len(q) : CommandOK(q[i])'
        /\ \A i, j \in 1 .. Len(q) : i < j /\ q[i].xMessageID = "DELETE" => q[i].pxTimer # q[j].pxTimer
    BY <2>3, <2>4, <2>5
  <2> QED BY <2>2, <2>5, <2>6 DEF QueueOK
<1> QED BY <1>11, <1>12, <1>13 DEF TimersInv

-----------------------------------------------------------------------------
(* The timer task.                                                         *)

\* It has looked at the time, and calls the callbacks of the expiries up to then.
LEMMA CalledKeeps ==
  ASSUME xTickCount \in TickType, uptime \in 0 .. MaxAge, NEW r, NEW d, NEW l \in [Timers -> TickType],
         InOrder(r, {}, d, l, xTickCount), r.xLastTime = xTickCount, r.active \cap r.absent = {},
         lists' = [r EXCEPT !.called = [t \in Timers |-> 0]],
         due' = [t \in Timers |-> d[t] - r.called[t]], left' = l, late' = 0,
         xTickCount' = xTickCount, uptime' = uptime
  PROVE  /\ ListsOK' /\ lists'.active = r.active /\ lists'.absent = r.absent
         /\ lists'.xLastTime = xTickCount
         /\ lists'.pxCurrentTimerList = r.pxCurrentTimerList
         /\ lists'.pxOverflowTimerList = r.pxOverflowTimerList /\ lists'.xItemValue = r.xItemValue
<1>1. PICK q, o, now : q = lists' /\ o = due' /\ now = xTickCount
  OBVIOUS
<1>2. /\ InOrder(q, {}, o, l, now) /\ Kept(r, q) /\ q.active = r.active
      /\ q.called = [t \in Timers |-> 0]
      /\ q.pxCurrentTimerList = r.pxCurrentTimerList
      /\ q.pxOverflowTimerList = r.pxOverflowTimerList /\ q.xItemValue = r.xItemValue
  <2>1. q = [r EXCEPT !.called = [t \in Timers |-> 0]] /\ o = [t \in Timers |-> d[t] - r.called[t]]
    BY <1>1
  <2> QED BY <1>1, <2>1, CalledIs
<1>3. /\ now \in Nat /\ 0 \in TickType /\ q.xLastTime = now /\ now + 0 = now /\ now - now = 0
      /\ q.absent = r.absent
  BY <1>1, <1>2, TimersAssumed DEF Kept
<1>4. AddTicks(now, 0) = now
  <2>1. AddTicks(now, 0) = IF now + 0 <= portMAX_DELAY THEN now + 0 ELSE now + 0 - TickRange
    BY <1>1, <1>3, SumWraps
  <2>2. now <= portMAX_DELAY
    BY <1>1, TimersAssumed
  <2> QED BY <1>3, <2>1, <2>2
<1>5. /\ lists'.xLastTime + late' = now /\ now \in TickType
  BY <1>1, <1>3
<1>6. OnTimeFor(lists, lists.xLastTime + late)'
  BY <1>1, <1>3, <1>4, <1>5 DEF OnTimeFor
<1>7. ListsOK'
  <2>1. InOrder(lists, {}, due, left, lists.xLastTime + late)'
    BY <1>1, <1>2, <1>5
  <2>2. NothingCalled(lists)'
    BY <1>1, <1>2 DEF NothingCalled
  <2>3. (lists.active \cap lists.absent)' = {}
    BY <1>1, <1>2, <1>3
  <2> QED BY <1>3, <1>6, <2>1, <2>2, <2>3 DEF ListsOK
<1> QED BY <1>1, <1>2, <1>3, <1>7

\* What the timer task finds at the time it looks at.
LEMMA SampledIs ==
  ASSUME ListsOK, NEW s, s = SampleTimeNow(lists)
  PROVE  /\ InOrder(s, {}, due, left, xTickCount) /\ s.xLastTime = xTickCount
         /\ s.absent = lists.absent /\ s.active \subseteq lists.active
         /\ s.active \cap s.absent = {}
         /\ ~ListsWereSwitched(lists) => /\ s.pxCurrentTimerList = lists.pxCurrentTimerList
                                         /\ s.pxOverflowTimerList = lists.pxOverflowTimerList
                                         /\ s.xItemValue = lists.xItemValue
                                         /\ s.active = lists.active
<1>1. PICK time : time = lists.xLastTime + late
  OBVIOUS
<1>2. /\ InOrder(lists, {}, due, left, time) /\ OnTimeFor(lists, time) /\ xTickCount \in TickType
      /\ lists.active \cap lists.absent = {}
  BY <1>1 DEF ListsOK
<1>3. /\ InOrder(s, {}, due, left, xTickCount)
      /\ s.absent = lists.absent /\ s.xTimerPeriodInTicks = lists.xTimerPeriodInTicks
      /\ s.xLastTime = xTickCount /\ s.active \subseteq lists.active
      /\ ~ListsWereSwitched(lists) => /\ s.pxCurrentTimerList = lists.pxCurrentTimerList
                                      /\ s.pxOverflowTimerList = lists.pxOverflowTimerList
                                      /\ s.xItemValue = lists.xItemValue
                                      /\ s.called = lists.called /\ s.active = lists.active
  BY <1>2, SampleIs
<1> QED BY <1>2, <1>3

\* How long the timer task may sleep: the next expiry is not before that.
LEMMA SleepIs ==
  ASSUME NEW s, Ordered(s), NEW now \in TickType,
         NEW list, list = s.pxCurrentTimerList,
         NEW next, next = (IF list = <<>> THEN 0 ELSE s.xItemValue[Head(list)]),
         ~(list # <<>> /\ next <= now),
         ~(list = <<>> /\ s.pxOverflowTimerList = <<>>),
         NEW ticks, ticks = Max({SubTicks(next, now), 1})
  PROVE  /\ ticks \in 1 .. portMAX_DELAY
         /\ \A t \in OnLists(s) : ExpiryOf(s, t) >= now + ticks
<1>1. /\ s \in TimerLists /\ IsItems(list, Timers) /\ ListSorted(list, s.xItemValue)
      /\ OnCurrent(s) \cap OnOverflow(s) = {} /\ OnCurrent(s) = Members(list)
      /\ s.xItemValue \in [Timers -> TickType] /\ OnOverflow(s) \subseteq Timers
      /\ OnCurrent(s) \subseteq Timers
  <2>1. IsItems(s.pxOverflowTimerList, Timers) /\ IsItems(list, Timers)
    BY DEF Ordered
  <2>2. OnOverflow(s) \subseteq Timers /\ OnCurrent(s) \subseteq Timers
    BY <2>1, ItemsMembers DEF OnOverflow, OnCurrent
  <2> QED BY <2>2 DEF Ordered, TimerLists, OnCurrent
<1>2. /\ portMAX_DELAY \in Nat \ {0} /\ TickRange = portMAX_DELAY + 1
      /\ now \in Nat /\ now <= portMAX_DELAY
  BY TimersAssumed
<1>3. next \in TickType
  <2>1. list # <<>> => Head(list) \in Timers
    BY <1>1, TailItems
  <2>2. 0 \in TickType
    BY TimersAssumed
  <2> QED BY <1>1, <2>1, <2>2
<1>4. next \in Nat /\ next <= portMAX_DELAY
  BY <1>3, TimersAssumed
<1>5. SubTicks(next, now) = IF next >= now THEN next - now ELSE next - now + TickRange
  BY <1>3, DifferenceWraps
<1>6. PICK x \in Int : x = SubTicks(next, now)
  BY <1>2, <1>4, <1>5
<1>7. ticks = IF x >= 1 THEN x ELSE 1
  <2>1. Max({x, 1}) = IF x >= 1 THEN x ELSE 1
    BY MaxOfTwo
  <2> QED BY <1>6, <2>1
<1>8. x = IF next >= now THEN next - now ELSE next - now + TickRange
  BY <1>5, <1>6
<1>9. /\ list = <<>> => next = 0
      /\ list # <<>> => next > now
  BY <1>2, <1>4
<1>13. ASSUME next > now PROVE now + ticks = next
  <2>1. x = next - now /\ x >= 1
    BY ONLY <1>2, <1>4, <1>8, <1>13
  <2> QED BY ONLY <1>2, <1>4, <1>7, <2>1
<1>10. ticks \in 1 .. portMAX_DELAY
  <2>1. x <= portMAX_DELAY
    BY <1>2, <1>4, <1>8
  <2> QED BY <1>2, <1>7, <2>1
<1>11. ASSUME NEW t \in OnOverflow(s)
       PROVE  ExpiryOf(s, t) >= now + ticks
  <2>1. PICK v \in Nat : v = s.xItemValue[t]
    BY <1>1, TimersAssumed
  <2>2. ExpiryOf(s, t) = v + TickRange
    BY <2>1 DEF ExpiryOf
  <2>3. CASE list = <<>>
    <3>1. now + ticks <= TickRange
      BY <1>2, <1>7, <1>8, <1>9, <2>3
    <3> QED BY <1>2, <1>10, <2>1, <2>2, <3>1
  <2>4. CASE list # <<>>
    <3>1. now + ticks = next
      BY <1>9, <1>13, <2>4
    <3> QED BY <1>2, <1>4, <1>10, <2>1, <2>2, <3>1
  <2> QED BY <2>3, <2>4
<1>12. ASSUME NEW t \in OnCurrent(s)
       PROVE  ExpiryOf(s, t) >= now + ticks
  <2>1. list # <<>> /\ list \in Seq(Timers) /\ t \notin OnOverflow(s)
    BY <1>1 DEF Members, IsItems
  <2>2. now + ticks = next
    BY <1>9, <1>13, <2>1
  <2>3. PICK v \in Nat : v = s.xItemValue[t]
    BY <1>1, TimersAssumed
  <2>4. next <= v
    <3>1. PICK i \in 1 .. Len(list) : list[i] = t
      BY <1>1 DEF Members
    <3>2. next = s.xItemValue[list[1]] /\ 1 \in 1 .. Len(list) /\ Len(list) \in Nat
      BY <2>1
    <3>3. CASE i = 1
      BY <1>4, <2>3, <3>1, <3>2, <3>3
    <3>4. CASE 1 < i
      BY <1>1, <2>3, <3>1, <3>2, <3>4 DEF ListSorted
    <3> QED BY <3>1, <3>3, <3>4
  <2>5. ExpiryOf(s, t) = v
    BY <2>1, <2>3 DEF ExpiryOf
  <2> QED BY <1>2, <1>4, <1>10, <2>2, <2>3, <2>4, <2>5
<1> QED BY <1>10, <1>11, <1>12 DEF OnLists

LEMMA TimerTaskKeeps ==
  TimersInv /\ prvProcessTimerOrBlockTask => TimersInv'
<1> SUFFICES ASSUME TimersInv, prvProcessTimerOrBlockTask PROVE TimersInv'
  OBVIOUS
<1>1. ListsOK /\ DaemonOK /\ QueueOK
  BY DEF TimersInv
<1>2. PICK list, next, s, ticks :
        /\ list = lists.pxCurrentTimerList
        /\ next = (IF list = <<>> THEN 0 ELSE lists.xItemValue[Head(list)])
        /\ s = SampleTimeNow(lists) /\ ticks = Max({SubTicks(next, xTickCount), 1})
  OBVIOUS
<1> DEFINE expired == list # <<>> /\ next <= xTickCount
           forever == list = <<>> /\ s.pxOverflowTimerList = <<>>
           awake == ListsWereSwitched(lists) \/ expired \/ xTimerQueue # <<>>
<1>3. PICK r : r = IF ~ListsWereSwitched(lists) /\ expired THEN ProcessExpired(s, xTickCount) ELSE s
  OBVIOUS
<1>4. /\ lists' = [r EXCEPT !.called = [t \in Timers |-> 0]]
      /\ due' = [t \in Timers |-> due[t] - r.called[t]]
      /\ daemon.pc = "timers" /\ late' = 0 /\ left' = left /\ uptime' = uptime
      /\ xTickCount' = xTickCount /\ xTimerQueue' = xTimerQueue
  BY <1>2, <1>3 DEF prvProcessTimerOrBlockTask, Called
<1>5. daemon' = IF awake THEN [daemon EXCEPT !.pc = "commands"]
                ELSE [pc |-> "blocked", sleep |-> IF forever THEN Forever ELSE ticks]
  BY <1>2 DEF prvProcessTimerOrBlockTask
<1>6. /\ InOrder(s, {}, due, left, xTickCount) /\ s.xLastTime = xTickCount
      /\ s.absent = lists.absent /\ s.active \subseteq lists.active
      /\ s.active \cap s.absent = {}
      /\ ~ListsWereSwitched(lists) => /\ s.pxCurrentTimerList = lists.pxCurrentTimerList
                                      /\ s.pxOverflowTimerList = lists.pxOverflowTimerList
                                      /\ s.xItemValue = lists.xItemValue
                                      /\ s.active = lists.active
  BY <1>1, <1>2, SampledIs
<1>7. /\ xTickCount \in TickType /\ xTickCount \in Nat /\ uptime \in 0 .. MaxAge
      /\ left \in [Timers -> TickType]
  BY <1>1, TimersAssumed DEF ListsOK
<1>8. /\ InOrder(r, {}, due, left, xTickCount) /\ r.xLastTime = xTickCount
      /\ r.absent = lists.absent /\ r.active \subseteq lists.active /\ r.active \cap r.absent = {}
  <2>1. CASE ~ListsWereSwitched(lists) /\ expired
    <3>1. PICK now : now = xTickCount
      OBVIOUS
    <3>2. /\ s.pxCurrentTimerList # <<>> /\ s.xItemValue[Head(s.pxCurrentTimerList)] <= now
          /\ now \in TickType /\ now <= now /\ r = ProcessExpired(s, now)
          /\ InOrder(s, {}, due, left, now)
      BY <1>2, <1>3, <1>6, <1>7, <2>1, <3>1
    <3>3. Follows(s, r, {}, due, left, now)
      BY ONLY <3>2, ExpiryStep
    <3> QED BY <1>6, <3>1, <3>3 DEF Follows, Kept
  <2>2. CASE ~(~ListsWereSwitched(lists) /\ expired)
    BY <1>3, <1>6, <2>2
  <2> QED BY <2>1, <2>2
<1> HIDE DEF expired, forever, awake
<1>9. /\ ListsOK' /\ lists'.active = r.active /\ lists'.absent = r.absent
      /\ lists'.xLastTime = xTickCount
      /\ lists'.pxCurrentTimerList = r.pxCurrentTimerList
      /\ lists'.pxOverflowTimerList = r.pxOverflowTimerList /\ lists'.xItemValue = r.xItemValue
  BY <1>4, <1>7, <1>8, CalledKeeps
<1>10. QueueOK'
  BY <1>1, <1>4, <1>8, <1>9 DEF QueueOK, CommandOK
<1>11. daemon.sleep = 0 /\ daemon \in [pc : {"timers", "commands", "blocked"}, sleep : -1 .. portMAX_DELAY]
  BY <1>1, <1>4 DEF DaemonOK
<1>12. DaemonOK'
  <2>1. CASE awake
    <3>1. daemon' = [pc |-> "commands", sleep |-> 0]
      BY <1>5, <1>11, <2>1
    <3>2. 0 \in -1 .. portMAX_DELAY
      BY <1>11
    <3> QED BY <3>1, <3>2 DEF DaemonOK, Forever
  <2>2. CASE ~awake
    <3>1. /\ ~ListsWereSwitched(lists) /\ ~expired /\ r = s
          /\ list = r.pxCurrentTimerList
          /\ next = (IF list = <<>> THEN 0 ELSE r.xItemValue[Head(list)])
      BY <1>2, <1>3, <1>6, <2>2 DEF awake
    <3>2. Ordered(r) /\ OnLists(r) = r.active
      BY <1>8 DEF InOrder
    <3>3. CASE forever
      <4>1. daemon' = [pc |-> "blocked", sleep |-> -1] /\ -1 \in -1 .. portMAX_DELAY
        BY <1>5, <2>2, <3>3, TimersAssumed DEF Forever
      <4>2. r.active = {}
        BY <3>1, <3>2, <3>3 DEF forever, OnLists, OnCurrent, OnOverflow, Members
      <4> QED BY <1>9, <4>1, <4>2 DEF DaemonOK, Forever
    <3>4. CASE ~forever
      <4>1. daemon' = [pc |-> "blocked", sleep |-> ticks]
        BY <1>5, <2>2, <3>4
      <4>2. PICK now : now = xTickCount
        OBVIOUS
      <4>3. /\ now \in TickType /\ now \in Nat /\ ticks = Max({SubTicks(next, now), 1})
            /\ ~(list # <<>> /\ next <= now) /\ ~(list = <<>> /\ r.pxOverflowTimerList = <<>>)
        BY <1>2, <1>7, <3>1, <3>4, <4>2 DEF expired, forever
      <4>4. /\ ticks \in 1 .. portMAX_DELAY
            /\ \A t \in OnLists(r) : ExpiryOf(r, t) >= now + ticks
        BY <3>1, <3>2, <4>3, SleepIs
      <4>5. \A t : ExpiryOf(lists, t)' = ExpiryOf(r, t)
        BY <1>9 DEF ExpiryOf, OnOverflow
      <4>6. /\ late' + ticks = ticks /\ lists'.xLastTime + late' = now /\ portMAX_DELAY \in Nat
            /\ ticks # 0 /\ ticks # -1 /\ ticks > 0 /\ ticks <= portMAX_DELAY
            /\ ticks \in -1 .. portMAX_DELAY
        BY <1>4, <1>9, <4>2, <4>3, <4>4, TimersAssumed
      <4>7. daemon'.sleep = ticks /\ daemon'.pc = "blocked"
            /\ daemon' \in [pc : {"timers", "commands", "blocked"}, sleep : -1 .. portMAX_DELAY]
        BY <4>1, <4>6
      <4> HIDE <1>4
      <4> QED BY <1>9, <3>2, <4>4, <4>5, <4>6, <4>7 DEF DaemonOK, Forever
    <3> QED BY <3>3, <3>4
  <2> QED BY <2>1, <2>2
<1> QED BY <1>9, <1>10, <1>12 DEF TimersInv

LEMMA CommandsKeep ==
  TimersInv /\ prvProcessReceivedCommands => TimersInv'
<1> SUFFICES ASSUME TimersInv, prvProcessReceivedCommands PROVE TimersInv'
  OBVIOUS
<1>1. ListsOK /\ DaemonOK /\ QueueOK
  BY DEF TimersInv
<1>2. daemon.pc = "commands" /\ xTickCount' = xTickCount /\ uptime' = uptime
  BY DEF prvProcessReceivedCommands
<1>3. daemon.sleep = 0 /\ daemon \in [pc : {"timers", "commands", "blocked"}, sleep : -1 .. portMAX_DELAY]
  BY <1>1, <1>2 DEF DaemonOK
<1>4. CASE xTimerQueue = <<>>
  <2>1. /\ daemon' = [pc |-> "timers", sleep |-> 0] /\ lists' = lists /\ xTimerQueue' = xTimerQueue
        /\ due' = due /\ left' = left /\ late' = late
    BY <1>3, <1>4 DEF prvProcessReceivedCommands
  <2>2. DaemonOK'
    BY <1>3, <2>1 DEF DaemonOK, Forever
  <2>3. ListsOK' /\ QueueOK'
    BY <1>1, <1>2, <2>1 DEF ListsOK, QueueOK, OnTimeFor, NothingCalled, CommandOK
  <2> QED BY <2>2, <2>3 DEF TimersInv
<1>5. CASE xTimerQueue # <<>>
  <2>1. PICK m, t, s, e : /\ m = Head(xTimerQueue) /\ t = m.pxTimer /\ s = Process(lists, m)
                          /\ e = Expiries(m)
    OBVIOUS
  <2>2. /\ xTimerQueue' = Tail(xTimerQueue) /\ lists' = [s EXCEPT !.called = [u \in Timers |-> 0]]
        /\ due' = [u \in Timers |-> (IF u = t THEN e[1] ELSE due[u]) - s.called[u]]
        /\ left' = [left EXCEPT ![t] = e[2]] /\ late' = 0 /\ daemon' = daemon
    BY <1>5, <2>1 DEF prvProcessReceivedCommands, Expiries
  <2>3. PICK time : time = lists.xLastTime + late
    OBVIOUS
  <2>4. /\ InOrder(lists, {}, due, left, time) /\ NothingCalled(lists)
        /\ lists.active \cap lists.absent = {} /\ xTickCount \in TickType
        /\ OnTimeFor(lists, time) /\ uptime \in 0 .. MaxAge /\ left \in [Timers -> TickType]
    BY <1>1, <2>3 DEF ListsOK
  <2>5. xTimerQueue \in Seq(Commands) /\ 1 \in 1 .. Len(xTimerQueue) /\ m = xTimerQueue[1]
        /\ m \in Commands /\ CommandOK(m) /\ t \in Timers
    <3>1. xTimerQueue \in Seq(Commands) /\ 1 \in 1 .. Len(xTimerQueue) /\ m = xTimerQueue[1]
      BY <1>1, <1>5, <2>1 DEF QueueOK
    <3>2. m \in Commands
      BY <3>1
    <3>3. CommandOK(m)
      BY <1>1, <3>1 DEF QueueOK
    <3> QED BY <2>1, <3>1, <3>2, <3>3 DEF Commands
  <2>6. Obeyed(lists, s, m, due, left)
    BY <2>1, <2>4, <2>5, ProcessIs DEF NothingCalled
  <2>7. PICK d, l : d = [due EXCEPT ![t] = e[1]] /\ l = [left EXCEPT ![t] = e[2]]
    OBVIOUS
  <2>8. /\ InOrder(s, {}, d, l, xTickCount) /\ e[1] \in Int /\ e[2] \in TickType
        /\ s.absent = (IF m.xMessageID = "DELETE" THEN lists.absent \cup {t} ELSE lists.absent)
        /\ s.xLastTime = xTickCount /\ s.active \cap s.absent = {}
    BY <2>1, <2>6, <2>7 DEF Obeyed
  <2>9. l \in [Timers -> TickType] /\ due \in [Timers -> Int]
    BY <2>4, <2>5, <2>7, <2>8 DEF InOrder
  <2>10. due' = [u \in Timers |-> d[u] - s.called[u]]
    <3>1. \A u \in Timers : d[u] = IF u = t THEN e[1] ELSE due[u]
      BY <2>5, <2>7, <2>9
    <3> QED BY <2>2, <3>1
  <2>11. ListsOK' /\ lists'.absent = s.absent
    <3>1. /\ xTickCount \in TickType /\ uptime \in 0 .. MaxAge /\ l \in [Timers -> TickType]
          /\ InOrder(s, {}, d, l, xTickCount) /\ s.xLastTime = xTickCount
          /\ s.active \cap s.absent = {} /\ left' = l /\ late' = 0
          /\ xTickCount' = xTickCount /\ uptime' = uptime
      BY <1>2, <2>2, <2>4, <2>7, <2>8, <2>9
    <3>2. lists' = [s EXCEPT !.called = [u \in Timers |-> 0]]
      BY <2>2
    <3> QED BY ONLY <2>10, <3>1, <3>2, CalledKeeps
  <2>12. DaemonOK'
    BY <1>2, <1>3, <2>2 DEF DaemonOK, Forever
  <2>13. QueueOK'
    <3>1. PICK q : q = Tail(xTimerQueue)
      OBVIOUS
    <3>2. /\ q \in Seq(Commands) /\ Len(q) = Len(xTimerQueue) - 1 /\ Len(xTimerQueue) \in Nat
          /\ \A i \in 1 .. Len(q) : i + 1 \in 1 .. Len(xTimerQueue) /\ q[i] = xTimerQueue[i + 1]
      BY <1>5, <2>5, <3>1
    <3>3. \A i \in 1 .. Len(q) : CommandOK(q[i])'
      <4> SUFFICES ASSUME NEW i \in 1 .. Len(q) PROVE CommandOK(q[i])'
        OBVIOUS
      <4>1. PICK j \in 1 .. Len(xTimerQueue) : j = i + 1 /\ 1 < j /\ q[i] = xTimerQueue[j]
        BY <3>2
      <4>2. CommandOK(q[i]) /\ (m.xMessageID = "DELETE" => q[i].pxTimer # t)
        BY <1>1, <2>1, <2>5, <4>1 DEF QueueOK
      <4> QED BY <1>2, <2>8, <2>11, <4>2 DEF CommandOK
    <3>4. \A i, j \in 1 .. Len(q) : i < j /\ q[i].xMessageID = "DELETE" => q[i].pxTimer # q[j].pxTimer
      <4> SUFFICES ASSUME NEW i \in 1 .. Len(q), NEW j \in 1 .. Len(q), i < j,
                          q[i].xMessageID = "DELETE"
                   PROVE  q[i].pxTimer # q[j].pxTimer
        OBVIOUS
      <4>1. PICK a \in 1 .. Len(xTimerQueue), b \in 1 .. Len(xTimerQueue) :
              a < b /\ q[i] = xTimerQueue[a] /\ q[j] = xTimerQueue[b]
        BY <3>2
      <4> QED BY <1>1, <4>1 DEF QueueOK
    <3> QED BY <2>2, <3>1, <3>2, <3>3, <3>4 DEF QueueOK
  <2> QED BY <2>11, <2>12, <2>13 DEF TimersInv
<1> QED BY <1>4, <1>5

-----------------------------------------------------------------------------
(* The tasks that use timers.                                              *)

LEMMA GenericCommandKeeps ==
  ASSUME NEW t \in Timers, NEW id \in {"START", "STOP", "CHANGE_PERIOD", "DELETE"},
         NEW value \in TickType, NEW age \in TickType,
         id = "START" => AddTicks(value, age) = xTickCount,
         id = "CHANGE_PERIOD" => value \in Periods,
         TimersInv, xTimerGenericCommand(t, id, value, age)
  PROVE  TimersInv'
<1>1. ListsOK /\ DaemonOK /\ QueueOK
  BY DEF TimersInv
<1>2. PICK m : m = [xMessageID |-> id, pxTimer |-> t, xMessageValue |-> value, age |-> age]
  OBVIOUS
<1>3. /\ t \notin lists.absent /\ xTimerQueue' = Append(xTimerQueue, m)
      /\ \A i \in 1 .. Len(xTimerQueue) :
           xTimerQueue[i].pxTimer = t => xTimerQueue[i].xMessageID # "DELETE"
      /\ daemon' = IF daemon.pc = "blocked" THEN [daemon EXCEPT !.pc = "commands", !.sleep = 0]
                   ELSE daemon
      /\ xTickCount' = xTickCount /\ lists' = lists /\ due' = due /\ left' = left
      /\ late' = late /\ uptime' = uptime
  BY <1>2 DEF xTimerGenericCommand
<1>4. ListsOK'
  BY <1>1, <1>3 DEF ListsOK, OnTimeFor, NothingCalled
<1>5. DaemonOK'
  <2>1. daemon \in [pc : {"timers", "commands", "blocked"}, sleep : -1 .. portMAX_DELAY]
    BY <1>1 DEF DaemonOK
  <2>2. CASE daemon.pc = "blocked"
    <3>1. daemon' = [pc |-> "commands", sleep |-> 0] /\ 0 \in -1 .. portMAX_DELAY
      <4>1. daemon' = [pc |-> "commands", sleep |-> 0]
        BY <1>3, <2>1, <2>2
      <4>2. 0 \in -1 .. portMAX_DELAY
        BY TimersAssumed
      <4> QED BY <4>1, <4>2
    <3> QED BY <3>1 DEF DaemonOK, Forever
  <2>3. CASE daemon.pc # "blocked"
    BY <1>1, <1>3, <2>3 DEF DaemonOK
  <2> QED BY <2>2, <2>3
<1>6. QueueOK'
  <2>1. m \in Commands /\ m.pxTimer = t /\ m.xMessageID = id /\ CommandOK(m)
    BY <1>2, <1>3 DEF Commands, CommandOK
  <2>2. PICK q, r : q = xTimerQueue /\ r = Append(xTimerQueue, m)
    OBVIOUS
  <2>3. /\ q \in Seq(Commands) /\ Len(q) \in Nat
        /\ \A i \in 1 .. Len(q) : CommandOK(q[i]) /\ (q[i].xMessageID = "DELETE" => q[i].pxTimer # t)
        /\ \A i, j \in 1 .. Len(q) : i < j /\ q[i].xMessageID = "DELETE" => q[i].pxTimer # q[j].pxTimer
    BY <1>1, <1>3, <2>2 DEF QueueOK
  <2>4. /\ r \in Seq(Commands) /\ Len(r) = Len(q) + 1 /\ r[Len(q) + 1] = m
        /\ \A i \in 1 .. Len(q) : r[i] = q[i]
    BY <2>1, <2>2, <2>3
  <2>5. \A i \in 1 .. Len(r) : i = Len(q) + 1 \/ i \in 1 .. Len(q)
    BY <2>3, <2>4
  <2>6. \A i \in 1 .. Len(r) : CommandOK(r[i])
    BY <2>1, <2>3, <2>4, <2>5
  <2>7. ASSUME NEW i \in 1 .. Len(r), NEW j \in 1 .. Len(r), i < j, r[i].xMessageID = "DELETE"
        PROVE  r[i].pxTimer # r[j].pxTimer
    <3>1. i \in 1 .. Len(q)
      BY <2>3, <2>4, <2>7
    <3>2. CASE j \in 1 .. Len(q)
      BY <2>3, <2>4, <2>7, <3>1, <3>2
    <3>3. CASE j = Len(q) + 1
      BY <2>1, <2>3, <2>4, <2>7, <3>1, <3>3
    <3> QED BY <2>5, <3>2, <3>3
  <2>8. \A i \in 1 .. Len(r) : CommandOK(r[i])'
    BY <1>3, <2>6 DEF CommandOK
  <2>9. xTimerQueue' = r
    BY <1>3, <2>2
  <2> QED BY <2>4, <2>7, <2>8, <2>9 DEF QueueOK
<1> QED BY <1>4, <1>5, <1>6 DEF TimersInv

LEMMA CreateKeeps ==
  ASSUME NEW t \in Timers, TimersInv, xTimerCreate(t)
  PROVE  TimersInv'
<1>1. ListsOK /\ DaemonOK /\ QueueOK
  BY DEF TimersInv
<1>2. PICK p \in Periods : lists' = [lists EXCEPT !.absent = @ \ {t}, !.xTimerPeriodInTicks[t] = p]
  BY DEF xTimerCreate
<1>3. /\ t \in lists.absent /\ xTickCount' = xTickCount /\ xTimerQueue' = xTimerQueue
      /\ daemon' = daemon /\ due' = due /\ left' = left /\ late' = late /\ uptime' = uptime
  BY DEF xTimerCreate
<1>4. PICK time, s, r : time = lists.xLastTime + late /\ s = lists /\ r = lists'
  OBVIOUS
<1>5. /\ InOrder(s, {}, due, left, time) /\ lists.active \cap lists.absent = {}
      /\ OnTimeFor(lists, time)
  BY <1>1, <1>4 DEF ListsOK
<1>6. /\ s \in TimerLists /\ OnLists(s) = s.active /\ t \notin OnLists(s)
      /\ s.active \in SUBSET Timers /\ s.absent \in SUBSET Timers
  BY <1>3, <1>4, <1>5 DEF InOrder, Ordered, TimerLists
<1>7. PICK A, B : A = s.active /\ B = s.absent \ {t}
  OBVIOUS
<1>8. ChangedTo(s, r, t, A, B, p)
  BY <1>2, <1>4, <1>6, <1>7 DEF ChangedTo, TimerLists
<1>9. Changed(s, r, t, {}, due, left, time, A, B, p)
  <2>1. A \in SUBSET Timers /\ B \in SUBSET Timers /\ s.active \ {} = A \ {}
    BY <1>6, <1>7
  <2> QED BY ONLY t \in Timers, <1>5, <1>6, <1>8, <2>1, ChangedIs, p \in Periods
<1>10. /\ InOrder(r, {}, due, left, time) /\ r.active = s.active /\ r.absent = s.absent \ {t}
       /\ r.called = s.called /\ r.xLastTime = s.xLastTime
  BY <1>7, <1>9 DEF Changed
<1>11. OnLists(r) = OnLists(s) /\ \A u : ExpiryOf(r, u) = ExpiryOf(s, u)
  <2>1. /\ r.pxCurrentTimerList = s.pxCurrentTimerList /\ r.xItemValue = s.xItemValue
        /\ r.pxOverflowTimerList = s.pxOverflowTimerList
    BY <1>6, <1>8 DEF ChangedTo, TimerLists
  <2> QED BY <2>1 DEF OnLists, OnCurrent, OnOverflow, ExpiryOf
<1>12. ListsOK'
  <2>1. OnTimeFor(lists, lists.xLastTime + late)'
    BY <1>3, <1>4, <1>5, <1>10, <1>11 DEF OnTimeFor
  <2>2. InOrder(lists, {}, due, left, lists.xLastTime + late)'
    BY <1>3, <1>4, <1>10
  <2>3. NothingCalled(lists)' /\ (lists.active \cap lists.absent)' = {}
    BY <1>1, <1>4, <1>5, <1>10 DEF NothingCalled, ListsOK
  <2> QED BY <1>1, <1>3, <2>1, <2>2, <2>3 DEF ListsOK
<1>13. DaemonOK'
  <2>1. \A u : ExpiryOf(lists, u)' = ExpiryOf(lists, u)
    BY <1>4, <1>11
  <2> QED BY <1>1, <1>3, <1>4, <1>10, <2>1 DEF DaemonOK
<1>14. QueueOK'
  BY <1>1, <1>3, <1>4, <1>10 DEF QueueOK, CommandOK
<1> QED BY <1>12, <1>13, <1>14 DEF TimersInv

LEMMA TimersInvNext ==
  TimersInv /\ [TimerNext]_timerVars => TimersInv'
<1> SUFFICES ASSUME TimersInv, [TimerNext]_timerVars PROVE TimersInv'
  OBVIOUS
<1>1. xTickCount \in TickType /\ uptime \in 0 .. MaxAge
  BY DEF TimersInv, ListsOK
<1>2. /\ xTickCount \in Nat /\ xTickCount <= portMAX_DELAY /\ 0 \in TickType
      /\ \A age \in 0 .. uptime : age \in TickType /\ age \in Nat /\ age <= portMAX_DELAY
  BY <1>1, TimersAssumed
<1>3. ASSUME NEW t \in Timers, xTimerStart(t) PROVE TimersInv'
  <2>1. PICK age \in 0 .. uptime : xTimerGenericCommand(t, "START", SubTicks(xTickCount, age), age)
    BY <1>3 DEF xTimerStart
  <2>2. PICK value : value = SubTicks(xTickCount, age)
    OBVIOUS
  <2>3. age \in TickType /\ age \in Nat /\ age <= portMAX_DELAY
        /\ portMAX_DELAY \in Nat /\ TickRange = portMAX_DELAY + 1
    BY <1>2, TimersAssumed
  <2>4. value = IF xTickCount >= age THEN xTickCount - age ELSE xTickCount - age + TickRange
    BY <1>1, <2>2, <2>3, DifferenceWraps
  <2>5. value \in Nat /\ value <= portMAX_DELAY
    BY ONLY <1>2, <2>3, <2>4
  <2>6. value \in TickType
    BY <2>5, TimersAssumed
  <2>7. AddTicks(value, age) = IF value + age <= portMAX_DELAY THEN value + age ELSE value + age - TickRange
    BY <2>3, <2>6, SumWraps
  <2>8. AddTicks(value, age) = xTickCount
    BY ONLY <1>2, <2>3, <2>4, <2>5, <2>7
  <2> QED BY <2>1, <2>2, <2>3, <2>6, <2>8, GenericCommandKeeps
<1>4. ASSUME NEW t \in Timers, xTimerStop(t) PROVE TimersInv'
  <2>1. xTimerGenericCommand(t, "STOP", 0, 0)
    BY <1>4 DEF xTimerStop
  <2> QED BY <1>2, <2>1, GenericCommandKeeps
<1>5. ASSUME NEW t \in Timers, xTimerChangePeriod(t) PROVE TimersInv'
  <2>1. PICK p \in Periods : xTimerGenericCommand(t, "CHANGE_PERIOD", p, 0)
    BY <1>5 DEF xTimerChangePeriod
  <2>2. p \in TickType
    BY TimersAssumed
  <2> QED BY <1>2, <2>1, <2>2, GenericCommandKeeps
<1>6. ASSUME NEW t \in Timers, xTimerDelete(t) PROVE TimersInv'
  <2>1. xTimerGenericCommand(t, "DELETE", 0, 0)
    BY <1>6 DEF xTimerDelete
  <2> QED BY <1>2, <2>1, GenericCommandKeeps
<1>7. ASSUME NEW t \in Timers, xTimerCreate(t) PROVE TimersInv'
  BY <1>7, CreateKeeps
<1>8. CASE Tick
  BY <1>8, TickKeeps
<1>9. CASE prvProcessTimerOrBlockTask
  BY <1>9, TimerTaskKeeps
<1>10. CASE prvProcessReceivedCommands
  BY <1>10, CommandsKeep
<1>11. CASE UNCHANGED timerVars
  BY <1>11 DEF timerVars, TimersInv, ListsOK, DaemonOK, QueueOK, CommandOK, OnTimeFor, NothingCalled
<1> QED BY <1>3, <1>4, <1>5, <1>6, <1>7, <1>8, <1>9, <1>10, <1>11 DEF TimerNext

\* The invariant of the timers is one: the lists stay sorted and tell when each timer
\* expires, the timer task wakes in time, and every command tells its time.
THEOREM TimersInvariant == TimerSpec => []TimersInv
<1>1. TimerInit => TimersInv
  BY TimersInvInit
<1>2. TimersInv /\ [TimerNext]_timerVars => TimersInv'
  BY TimersInvNext
<1> QED BY <1>1, <1>2, PTL DEF TimerSpec

\* The variables of the timers have their types.
THEOREM TimersTyped == TimerSpec => []TimerTypeOK
<1>1. TimersInv => TimerTypeOK
  <2> SUFFICES ASSUME TimersInv PROVE TimerTypeOK
    OBVIOUS
  <2>1. lists \in TimerLists
    BY DEF TimersInv, ListsOK, InOrder, Ordered
  <2> QED BY <2>1, TimersAssumed DEF TimersInv, ListsOK, DaemonOK, TimerTypeOK, TimerLists
<1> QED BY <1>1, TimersInvariant, PTL

\* A callback is called once for every expiry, never before it, and the timer task sleeps
\* through none: whatever the width of the tick count, the periods and the number of timers.
THEOREM CallbacksAreExact == TimerSpec => []CallbacksExact
<1>1. TimersInv => CallbacksExact
  <2> SUFFICES ASSUME TimersInv, NEW t \in Timers
               PROVE  due[t] >= 0 /\ (daemon.pc = "blocked" => due[t] = 0)
    BY DEF CallbacksExact
  <2>1. PICK time, p, e, owed, next :
          /\ time = lists.xLastTime + late /\ p = lists.xTimerPeriodInTicks[t]
          /\ e = ExpiryOf(lists, t) /\ owed = due[t] /\ next = left[t]
    OBVIOUS
  <2>2. InOrder(lists, {}, due, left, time) /\ NothingCalled(lists)
    BY <2>1 DEF TimersInv, ListsOK
  <2>3. /\ OnLists(lists) = lists.active /\ time \in Nat /\ owed \in Int
        /\ p \in Nat /\ 1 <= p /\ e \in Nat /\ Account(lists, t, time, owed, next)
    <3>1. /\ OnLists(lists) = lists.active /\ time \in Nat /\ lists \in TimerLists
          /\ due \in [Timers -> Int] /\ Account(lists, t, time, due[t] - lists.called[t], left[t])
      BY <2>2 DEF InOrder, Accounts, Ordered
    <3>2. p \in Periods /\ lists.xItemValue[t] \in TickType
      BY <2>1, <3>1 DEF TimerLists
    <3>3. lists.called[t] = 0
      BY <2>2 DEF NothingCalled
    <3>4. due[t] - lists.called[t] = owed /\ owed \in Int
      BY <2>1, <3>1, <3>3
    <3>5. e \in Nat /\ p \in Nat /\ 1 <= p
      BY <2>1, <3>2, TimersAssumed DEF ExpiryOf
    <3> QED BY <2>1, <3>1, <3>4, <3>5
  <2>4. /\ t \notin OnLists(lists) => owed = 0
        /\ t \in OnLists(lists) /\ t \in Autoreload =>
             owed \in Nat /\ next \in 1 .. p /\ e + owed * p = time + next
        /\ t \in OnLists(lists) /\ t \notin Autoreload =>
             owed = 0 \/ (owed = 1 /\ e <= time)
    BY <2>1, <2>3 DEF Account
  <2>5. owed >= 0
    BY <2>3, <2>4
  <2>6. ASSUME daemon.pc = "blocked" PROVE owed = 0
    <3>1. t \in OnLists(lists) => e > time
      <4>1. /\ daemon.sleep # 0 /\ daemon.sleep \in -1 .. portMAX_DELAY
            /\ daemon.sleep = Forever => lists.active = {}
            /\ daemon.sleep > 0 => \A u \in lists.active :
                 ExpiryOf(lists, u) >= lists.xLastTime + late + daemon.sleep
        BY <2>6 DEF TimersInv, DaemonOK
      <4>2. daemon.sleep \in Int /\ (daemon.sleep # -1 => daemon.sleep > 0)
        BY <4>1, TimersAssumed
      <4>3. t \in OnLists(lists) => daemon.sleep > 0 /\ e >= time + daemon.sleep
        BY <2>1, <2>3, <4>1, <4>2 DEF Forever
      <4> QED BY <2>3, <4>2, <4>3
    <3>2. CASE t \in OnLists(lists) /\ t \in Autoreload
      <4> SUFFICES ASSUME owed # 0 PROVE FALSE
        OBVIOUS
      <4>1. PICK k \in Nat : owed = k + 1
        <5>1. owed - 1 \in Nat /\ owed = (owed - 1) + 1
          BY <2>4, <3>2
        <5> QED BY <5>1
      <4>2. PICK x \in Nat : x = k * p /\ (k + 1) * p = x + p
        BY <2>3, Products
      <4>3. e + x + p = time + next /\ next <= p
        BY <2>3, <2>4, <3>2, <4>1, <4>2
      <4> QED BY <2>3, <2>4, <3>1, <3>2, <4>2, <4>3
    <3>3. CASE t \in OnLists(lists) /\ t \notin Autoreload
      BY <2>3, <2>4, <3>1, <3>3
    <3> QED BY <2>4, <3>2, <3>3
  <2> QED BY <2>1, <2>5, <2>6
<1> QED BY <1>1, TimersInvariant, PTL

\* A timer is on one of the lists, once, just when it says it is active.
THEOREM ActiveTimersAreListed == TimerSpec => []ActiveIsListed
<1>1. TimersInv => ActiveIsListed
  <2> SUFFICES ASSUME TimersInv PROVE ActiveIsListed
    OBVIOUS
  <2>1. PICK a, b, c : /\ a = lists.pxCurrentTimerList /\ b = lists.pxOverflowTimerList
                       /\ c = a \o b
    OBVIOUS
  <2>2. /\ IsItems(a, Timers) /\ IsItems(b, Timers) /\ Members(a) \cap Members(b) = {}
        /\ Members(a) \cup Members(b) = lists.active
    BY <2>1 DEF TimersInv, ListsOK, InOrder, Ordered, OnLists, OnCurrent, OnOverflow
  <2>3. PICK m \in Nat, n \in Nat : m = Len(a) /\ n = Len(b)
    BY <2>2 DEF IsItems
  <2>4. /\ c \in Seq(Timers) /\ Len(c) = m + n
        /\ \A i \in 1 .. m : c[i] = a[i] /\ c[i] \in Members(a)
        /\ \A i \in 1 .. m + n : i > m => i - m \in 1 .. n /\ c[i] = b[i - m] /\ c[i] \in Members(b)
    <3>1. /\ c \in Seq(Timers) /\ Len(c) = m + n
          /\ \A i \in 1 .. m : c[i] = a[i]
          /\ \A i \in 1 .. m + n : i > m => i - m \in 1 .. n /\ c[i] = b[i - m]
      <4>1. a \in Seq(Timers) /\ b \in Seq(Timers)
        BY <2>2 DEF IsItems
      <4>2. /\ a \o b \in Seq(Timers) /\ Len(a \o b) = Len(a) + Len(b)
            /\ \A i \in 1 .. Len(a) + Len(b) : (a \o b)[i] = IF i <= Len(a) THEN a[i] ELSE b[i - Len(a)]
        BY ONLY <4>1, ConcatProperties
      <4>3. /\ c \in Seq(Timers) /\ Len(c) = m + n
            /\ \A i \in 1 .. m + n : c[i] = IF i <= m THEN a[i] ELSE b[i - m]
        BY <2>1, <2>3, <4>2
      <4> QED BY <2>3, <4>3
    <3>2. /\ \A i \in 1 .. m : a[i] \in Members(a)
          /\ \A i \in 1 .. n : b[i] \in Members(b)
      BY <2>3 DEF Members
    <3> QED BY <3>1, <3>2
  <2>5. ASSUME NEW i \in 1 .. m + n, NEW j \in 1 .. m + n, c[i] = c[j]
        PROVE  i = j
    <3>1. CASE i <= m /\ j <= m
      <4>1. i \in 1 .. m /\ j \in 1 .. m
        BY <3>1
      <4>2. a[i] = a[j]
        BY <2>4, <2>5, <4>1
      <4> QED BY <2>2, <2>3, <4>1, <4>2 DEF IsItems
    <3>2. CASE i > m /\ j > m
      <4>1. PICK x \in 1 .. n, y \in 1 .. n : x = i - m /\ y = j - m /\ c[i] = b[x] /\ c[j] = b[y]
        BY <2>4, <3>2
      <4>2. x = y
        BY <2>2, <2>3, <2>5, <4>1 DEF IsItems
      <4> QED BY <4>1, <4>2
    <3>3. CASE (i <= m /\ j > m) \/ (i > m /\ j <= m)
      BY <2>2, <2>4, <2>5, <3>3
    <3> QED BY <3>1, <3>2, <3>3
  <2>6. DOMAIN c = 1 .. m + n
    BY <2>4
  <2>7. IsInjective(c)
    BY <2>5, <2>6 DEF IsInjective
  <2>8. Members(c) = Members(a) \cup Members(b)
    <3>1. \A u \in Members(c) : u \in Members(a) \cup Members(b)
      <4> SUFFICES ASSUME NEW i \in 1 .. m + n PROVE c[i] \in Members(a) \cup Members(b)
        BY <2>4 DEF Members
      <4>1. CASE i <= m
        BY <2>4, <4>1
      <4>2. CASE i > m
        BY <2>4, <4>2
      <4> QED BY <4>1, <4>2
    <3>2. \A u \in Members(a) : u \in Members(c)
      <4> SUFFICES ASSUME NEW i \in 1 .. m PROVE a[i] \in Members(c)
        BY <2>3 DEF Members
      <4>1. i \in 1 .. m + n /\ c[i] = a[i]
        BY <2>4
      <4> QED BY <2>4, <4>1 DEF Members
    <3>3. \A u \in Members(b) : u \in Members(c)
      <4> SUFFICES ASSUME NEW i \in 1 .. n PROVE b[i] \in Members(c)
        BY <2>3 DEF Members
      <4>1. PICK k \in 1 .. m + n : k = m + i
        OBVIOUS
      <4>2. c[k] = b[i]
        <5>1. k > m /\ k - m = i
          BY <4>1
        <5> QED BY <2>4, <5>1
      <4> QED BY <2>4, <4>1, <4>2 DEF Members
    <3> QED BY <3>1, <3>2, <3>3
  <2> QED BY <2>1, <2>2, <2>7, <2>8 DEF ActiveIsListed
<1> QED BY <1>1, TimersInvariant, PTL
=============================================================================
