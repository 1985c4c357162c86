----------------------------- MODULE EventGroups -----------------------------
(***************************************************************************)
(* One event group (FreeRTOS/Source/event_groups.c): tasks that set and    *)
(* clear bits, that wait for any or for all of some bits, and that meet    *)
(* others in xEventGroupSync.                                              *)
(*                                                                         *)
(* A step is a section of the code with the scheduler suspended or         *)
(* interrupts masked: interrupts touch no event group, for the calls they  *)
(* make are left to the timer task.  Any task that is ready may be the one *)
(* that runs, so that the steps come in every order priorities allow.      *)
(***************************************************************************)
EXTENDS AppTasks, Integers, Sequences

CONSTANTS
  EventBits,  \* the bits of the group
  Calls,      \* [task -> the calls the task makes, in any order]
  IsrCalls,   \* the calls that interrupts leave to the timer task
  MaxPended,  \* bound: calls left to the timer task at a time
  MaxSyncs    \* bound: calls of xEventGroupSync a task makes

\* A call: op is "wait", "sync", "set", "clear" or "delete"; for "sync" the bits
\* of set are set first.  block is "no", "timed" or "forever": xTicksToWait is 0,
\* a number of ticks, or portMAX_DELAY.
Call(op, set, wait, all, clear, block) ==
  [op |-> op, set |-> set, wait |-> wait, all |-> all, clear |-> clear, block |-> block]
Ops == {"wait", "sync", "set", "clear", "delete"}
CallType ==
  [op : Ops, set : SUBSET EventBits, wait : SUBSET EventBits, all : BOOLEAN,
   clear : BOOLEAN, block : {"no", "timed", "forever"}]

\* The assertions of xEventGroupWaitBits and xEventGroupSync: some bit is waited
\* for.  A rendezvous waits for all its bits, and clears them.
ASSUME EventAssumption ==
  /\ \A t \in Tasks : Calls[t] \subseteq CallType
  /\ \A t \in Tasks : \A c \in Calls[t] :
       /\ c.op \in {"wait", "sync"} => c.wait # {}
       /\ c.op = "sync" => c.all /\ c.clear
  /\ IsrCalls \subseteq {c \in CallType : c.op \in {"set", "clear"}}
  /\ MaxPended \in Nat /\ MaxSyncs \in Nat

VARIABLES
  uxEventBits,
  xTasksWaitingForBits,  \* the tasks on the list; their order decides nothing
  xEventListItem,        \* [task -> the value of its event item]
  task,                  \* [task -> [pc, call]]
  pended,                \* the calls that the timer task has yet to make
  exists,                \* FALSE once the group is deleted
  entered,               \* history: [task -> calls of xEventGroupSync]
  met                    \* history: [task -> calls that returned with all bits]

vars == <<uxEventBits, xTasksWaitingForBits, xEventListItem, task, pended, exists,
          entered, met>>

\* The value of an event item: bits and the control bits beside them.
Item(bits, all, clear, unblocked) ==
  [bits |-> bits, all |-> all, clear |-> clear, unblocked |-> unblocked]
NoItem == Item({}, FALSE, FALSE, FALSE)
AtApp == [pc |-> "app", call |-> Call("set", {}, {}, FALSE, FALSE, "no")]

Init ==
  /\ uxEventBits = {}
  /\ xTasksWaitingForBits = {}
  /\ xEventListItem = [t \in Tasks |-> NoItem]
  /\ task = [t \in Tasks |-> AtApp]
  /\ pended = <<>>
  /\ exists = TRUE
  /\ entered = [t \in Tasks |-> 0]
  /\ met = [t \in Tasks |-> 0]

-----------------------------------------------------------------------------
(* Each definition whose name ends in Faulty is a variant of the one that  *)
(* follows it, with a plausible mistake; the specification uses none.      *)

\* prvTestWaitCondition
TestWaitCondition(current, wait, all) ==
  IF all THEN wait \subseteq current ELSE current \cap wait # {}

\* The walk down the list in xEventGroupSetBits: all tasks are tested against the
\* bits as they are with those set, and the bits to clear are cleared after it.
Matched(bits) ==
  {t \in xTasksWaitingForBits :
     TestWaitCondition(bits, xEventListItem[t].bits, xEventListItem[t].all)}
BitsToClear(bits) ==
  UNION {xEventListItem[t].bits : t \in {m \in Matched(bits) : xEventListItem[m].clear}}

\* The event items and the list after tasks have been taken off it.
vTaskRemoveFromUnorderedEventList(released, bits) ==
  /\ xTasksWaitingForBits' = xTasksWaitingForBits \ released
  /\ xEventListItem' = [t \in Tasks |->
       IF t \in released THEN Item(bits, FALSE, FALSE, TRUE) ELSE xEventListItem[t]]

SetBitsFaulty(set) ==  \* the walk ends with the first task it releases
  LET bits == uxEventBits \cup set
      first == CHOOSE t \in Matched(bits) : TRUE
      released == IF Matched(bits) = {} THEN {} ELSE {first}
  IN /\ uxEventBits' = bits \ BitsToClear(bits)
     /\ vTaskRemoveFromUnorderedEventList(released, bits)

SetBits(set) ==
  LET bits == uxEventBits \cup set
  IN /\ uxEventBits' = bits \ BitsToClear(bits)
     /\ vTaskRemoveFromUnorderedEventList(Matched(bits), bits)

\* A task outside the calls begins one.
Calling(t, op) == {c \in Calls[t] : c.op = op /\ task[t].pc = "app" /\ exists}

xEventGroupSetBits(t) ==
  \E c \in Calling(t, "set") :
    /\ SetBits(c.set)
    /\ UNCHANGED <<task, pended, exists, entered, met>>

xEventGroupClearBits(t) ==
  \E c \in Calling(t, "clear") :
    /\ uxEventBits' = uxEventBits \ c.set
    /\ UNCHANGED <<xTasksWaitingForBits, xEventListItem, task, pended, exists, entered, met>>

\* Interrupts: the timer command queue may be full, and then the call is lost.
xTimerPendFunctionCallFromISR ==
  /\ Len(pended) < MaxPended
  /\ \E c \in IsrCalls : pended' = Append(pended, c)
  /\ UNCHANGED <<uxEventBits, xTasksWaitingForBits, xEventListItem, task, exists, entered, met>>

\* The timer task makes the call: vEventGroupSetBitsCallback, vEventGroupClearBitsCallback.
vEventGroupCallback ==
  /\ pended # <<>> /\ exists
  /\ pended' = Tail(pended)
  /\ IF Head(pended).op = "set" THEN SetBits(Head(pended).set)
     ELSE /\ uxEventBits' = uxEventBits \ Head(pended).set
          /\ UNCHANGED <<xTasksWaitingForBits, xEventListItem>>
  /\ UNCHANGED <<task, exists, entered, met>>

\* vTaskPlaceOnUnorderedEventList, with the lists as SetBits left them.
PlaceOnUnorderedEventList(t, c) ==
  /\ xTasksWaitingForBits' = xTasksWaitingForBits \cup {t}
  /\ xEventListItem' = [xEventListItem EXCEPT ![t] = Item(c.wait, c.all, c.clear, FALSE)]
  /\ task' = [task EXCEPT ![t] = [pc |-> "blocked", call |-> c]]

\* The first section of xEventGroupWaitBits.
xEventGroupWaitBits(t) ==
  \E c \in Calling(t, "wait") :
    /\ LET satisfied == TestWaitCondition(uxEventBits, c.wait, c.all)
       IN /\ uxEventBits' = IF satisfied /\ c.clear THEN uxEventBits \ c.wait ELSE uxEventBits
          /\ IF satisfied \/ c.block = "no"
               THEN UNCHANGED <<xTasksWaitingForBits, xEventListItem, task>>
               ELSE PlaceOnUnorderedEventList(t, c)
    /\ UNCHANGED <<pended, exists, entered, met>>

\* What xEventGroupSync leaves of the bits: those that SetBits clears for others,
\* and the caller's if all were there when its own are counted in, are cleared.
SyncedBitsFaulty(c) ==
  LET bits == uxEventBits \cup c.set IN bits \ BitsToClear(bits)
SyncedBits(c) ==
  LET bits == uxEventBits \cup c.set
  IN (bits \ BitsToClear(bits)) \ (IF c.wait \subseteq bits THEN c.wait ELSE {})

\* The first section of xEventGroupSync.
xEventGroupSync(t) ==
  \E c \in Calling(t, "sync") :
    LET bits == uxEventBits \cup c.set
        satisfied == c.wait \subseteq bits
        released == Matched(bits)
    IN /\ entered[t] < MaxSyncs
       /\ uxEventBits' = SyncedBits(c)
       /\ entered' = [entered EXCEPT ![t] = @ + 1]
       /\ met' = IF satisfied THEN [met EXCEPT ![t] = @ + 1] ELSE met
       /\ IF satisfied \/ c.block = "no"
            THEN vTaskRemoveFromUnorderedEventList(released, bits) /\ UNCHANGED task
            ELSE /\ xTasksWaitingForBits' = (xTasksWaitingForBits \ released) \cup {t}
                 /\ xEventListItem' = [u \in Tasks |->
                      IF u = t THEN Item(c.wait, TRUE, TRUE, FALSE)
                      ELSE IF u \in released THEN Item(bits, FALSE, FALSE, TRUE)
                      ELSE xEventListItem[u]]
                 /\ task' = [task EXCEPT ![t] = [pc |-> "blocked", call |-> c]]
       /\ UNCHANGED <<pended, exists>>

\* xTaskIncrementTick: the wait is over before the bits were set.
TimeOut(t) ==
  /\ t \in xTasksWaitingForBits /\ task[t].call.block = "timed"
  /\ xTasksWaitingForBits' = xTasksWaitingForBits \ {t}
  /\ UNCHANGED <<uxEventBits, xEventListItem, task, pended, exists, entered, met>>

\* The task runs again.  If no set released it, bits that were set since it timed
\* out are taken all the same.
Return(t) ==
  /\ task[t].pc = "blocked" /\ t \notin xTasksWaitingForBits
  /\ LET c == task[t].call
         unblocked == xEventListItem[t].unblocked
         uxReturn == IF unblocked THEN xEventListItem[t].bits ELSE uxEventBits
         satisfied == TestWaitCondition(uxReturn, c.wait, c.all)
     IN /\ uxEventBits' = IF ~unblocked /\ satisfied /\ c.clear THEN uxEventBits \ c.wait
                          ELSE uxEventBits
        /\ met' = IF c.op = "sync" /\ satisfied THEN [met EXCEPT ![t] = @ + 1] ELSE met
  /\ xEventListItem' = [xEventListItem EXCEPT ![t] = NoItem]
  /\ task' = [task EXCEPT ![t] = AtApp]
  /\ UNCHANGED <<xTasksWaitingForBits, pended, exists, entered>>

\* The tasks that wait get no bits, and the memory is freed: a task that has
\* timed out and not run yet reads what is there then.
vEventGroupDelete(t) ==
  /\ Calling(t, "delete") # {}
  /\ vTaskRemoveFromUnorderedEventList(xTasksWaitingForBits, {})
  /\ exists' = FALSE
  /\ uxEventBits' \in SUBSET EventBits
  /\ UNCHANGED <<task, pended, entered, met>>

Next ==
  \/ \E t \in Tasks :
       \/ xEventGroupSetBits(t) \/ xEventGroupClearBits(t)
       \/ xEventGroupWaitBits(t) \/ xEventGroupSync(t)
       \/ TimeOut(t) \/ Return(t) \/ vEventGroupDelete(t)
  \/ xTimerPendFunctionCallFromISR \/ vEventGroupCallback

Spec == Init /\ [][Next]_vars

-----------------------------------------------------------------------------
TypeOK ==
  /\ uxEventBits \subseteq EventBits
  /\ xTasksWaitingForBits \subseteq Tasks
  /\ xEventListItem \in [Tasks -> [bits : SUBSET EventBits, all : BOOLEAN,
                                   clear : BOOLEAN, unblocked : BOOLEAN]]
  /\ task \in [Tasks -> [pc : {"app", "blocked"}, call : CallType]]
  /\ pended \in Seq(CallType)
  /\ exists \in BOOLEAN
  /\ entered \in [Tasks -> Nat] /\ met \in [Tasks -> Nat]

\* No task waits for bits that are there: whoever sets, clears, times out or
\* waits meanwhile, a set that satisfies several tasks releases them all.
NoSatisfiedWaiter ==
  \A t \in xTasksWaitingForBits :
    ~TestWaitCondition(uxEventBits, task[t].call.wait, task[t].call.all)

\* A rendezvous is one: no task has been through more of them than any of the
\* tasks whose bits it waits for has come to, though some of them timed out.
\* For bits that only xEventGroupSync sets, each for one task.
Parties == {t \in Tasks : \E c \in Calls[t] : c.op = "sync"}
Rendezvous == exists => \A t, u \in Parties : met[t] <= entered[u]
=============================================================================
