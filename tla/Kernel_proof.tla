---------------------------- MODULE Kernel_proof ----------------------------
(***************************************************************************)
(* The scheduler and the blocking calls of the queues, for any tasks,      *)
(* priorities, queues, calls and interrupts.                               *)
(***************************************************************************)
EXTENDS Kernel, KernelLists_proof, FiniteSetTheorems, TLAPS

-----------------------------------------------------------------------------
(* The kernel's record.                                                    *)

TaskLists == {items \in Seq(Tasks) : IsItems(items, Tasks)}
ReadyLists == {list \in [items : Seq(AllTasks), index : Nat] : IsList(list, AllTasks)}

KernelState ==
  [pxCurrentTCB : AllTasks,
   pxReadyTasksLists : [Priorities -> ReadyLists], uxTopReadyPriority : SUBSET Priorities,
   pxDelayedTaskList : TaskLists, pxOverflowDelayedTaskList : TaskLists,
   xSuspendedTaskList : TaskLists, xPendingReadyList : TaskLists,
   events : [EventLists -> TaskLists],
   xItemValue : [Tasks -> TickType], xTickCount : TickType, xNumOfOverflows : Nat,
   xNextTaskUnblockTime : TickType,
   uxSchedulerSuspended : Int, xPendedTicks : Int, xPendedCounts : Int,
   xYieldPending : BOOLEAN]

ReadyAt(s, p) == Members(s.pxReadyTasksLists[p].items)
Delayed(s) == Members(s.pxDelayedTaskList)
Overflown(s) == Members(s.pxOverflowDelayedTaskList)
Forever(s) == Members(s.xSuspendedTaskList)
Pending(s) == Members(s.xPendingReadyList)
Waiting(s, e) == Members(s.events[e])

\* The fields that the operations on lists leave alone.
SameTime(s, r) ==
  /\ r.xItemValue = s.xItemValue /\ r.xTickCount = s.xTickCount
  /\ r.xNumOfOverflows = s.xNumOfOverflows /\ r.xNextTaskUnblockTime = s.xNextTaskUnblockTime
SameControl(s, r) ==
  /\ r.pxCurrentTCB = s.pxCurrentTCB /\ r.uxSchedulerSuspended = s.uxSchedulerSuspended
  /\ r.xPendedTicks = s.xPendedTicks /\ r.xPendedCounts = s.xPendedCounts
  /\ r.xYieldPending = s.xYieldPending
SameReady(s, r) ==
  /\ r.pxReadyTasksLists = s.pxReadyTasksLists /\ r.uxTopReadyPriority = s.uxTopReadyPriority
SameBlocked(s, r) ==
  /\ r.pxDelayedTaskList = s.pxDelayedTaskList
  /\ r.pxOverflowDelayedTaskList = s.pxOverflowDelayedTaskList
  /\ r.xSuspendedTaskList = s.xSuspendedTaskList
SameEvents(s, r) == r.events = s.events /\ r.xPendingReadyList = s.xPendingReadyList

SameClock(s, r) == r.xTickCount = s.xTickCount /\ r.xNumOfOverflows = s.xNumOfOverflows

SamePended(s, r) == r.xPendedTicks = s.xPendedTicks /\ r.xPendedCounts = s.xPendedCounts

\* Both lists of delayed tasks are in the order of the wake times.
SortedLists(s) ==
  /\ ListSorted(s.pxDelayedTaskList, s.xItemValue)
  /\ ListSorted(s.pxOverflowDelayedTaskList, s.xItemValue)

\* A task has one state item, and a ready one is on the list of its priority.
StateItems(s) ==
  /\ \A p \in Priorities : \A t \in ReadyAt(s, p) : Priority[t] = p
  /\ Delayed(s) \cap Overflown(s) = {} /\ Delayed(s) \cap Forever(s) = {}
  /\ Overflown(s) \cap Forever(s) = {}
  /\ Ready(s) \cap (Delayed(s) \cup Overflown(s) \cup Forever(s)) = {}
  /\ Ready(s) \cup Delayed(s) \cup Overflown(s) \cup Forever(s) = AllTasks

\* A task has one event item, on no list if the task is ready.
EventItems(s) ==
  /\ \A e, o \in EventLists : e # o => Waiting(s, e) \cap Waiting(s, o) = {}
  /\ \A e \in EventLists : /\ Waiting(s, e) \cap Pending(s) = {}
                           /\ Waiting(s, e) \cap Ready(s) = {}
  /\ Pending(s) \cap Ready(s) = {}

TopExact(s) == \A p \in Priorities : p \in s.uxTopReadyPriority <=> ReadyAt(s, p) # {}

LEMMA Basics ==
  /\ Priorities \subseteq 0 .. 31 /\ Priorities \subseteq Nat /\ 0 \in Priorities
  /\ \A t \in AllTasks : Priority[t] \in Priorities /\ Priority[t] \in Nat
  /\ Tasks \subseteq AllTasks /\ Idle \in AllTasks /\ Idle \notin Tasks
  /\ \A q \in Queues : ToSend(q) \in EventLists /\ ToReceive(q) \in EventLists
  /\ \A q, o \in Queues : ToSend(q) # ToReceive(o)
  /\ \A q, o \in Queues : q # o => ToSend(q) # ToSend(o) /\ ToReceive(q) # ToReceive(o)
<1>1. Priority \in [AllTasks -> 0 .. 31] /\ Priority[Idle] = 0 /\ Idle \notin Tasks
  BY IdleAssumption, KernelAssumption
<1>2. /\ Tasks \subseteq AllTasks /\ Idle \in AllTasks
      /\ \A t \in AllTasks : Priority[t] \in Priorities /\ Priority[t] \in Nat
      /\ Priorities \subseteq 0 .. 31 /\ Priorities \subseteq Nat
  BY <1>1 DEF Priorities, AllTasks
<1>3. /\ \A q \in Queues : ToSend(q) \in EventLists /\ ToReceive(q) \in EventLists
      /\ \A q, o \in Queues : ToSend(q) # ToReceive(o)
      /\ \A q, o \in Queues : q # o => ToSend(q) # ToSend(o) /\ ToReceive(q) # ToReceive(o)
  BY DEF EventLists, ToSend, ToReceive
<1> QED BY <1>1, <1>2, <1>3

LEMMA ListTypes ==
  /\ \A items : items \in TaskLists <=> IsItems(items, Tasks)
  /\ \A list : list \in ReadyLists <=> IsList(list, AllTasks)
  /\ <<>> \in TaskLists
<1>1. \A items : items \in TaskLists <=> IsItems(items, Tasks)
  BY DEF TaskLists, IsItems
<1>2. ASSUME NEW list
      PROVE  list \in ReadyLists <=> IsList(list, AllTasks)
  <2>1. ASSUME IsList(list, AllTasks)
        PROVE  list \in [items : Seq(AllTasks), index : Nat]
    <3>1. /\ list = [items |-> list.items, index |-> list.index]
          /\ list.items \in Seq(AllTasks) /\ list.index \in 0 .. Len(list.items)
      BY <2>1 DEF IsList, IsItems
    <3>2. list.index \in Nat
      BY <3>1, LenProperties
    <3> QED BY <3>1, <3>2
  <2> QED BY <2>1 DEF ReadyLists
<1> QED BY <1>1, <1>2, EmptyItems

LEMMA TaskListMembers ==
  ASSUME NEW items \in TaskLists
  PROVE  Members(items) \subseteq Tasks /\ (items = <<>> <=> Members(items) = {})
BY ListTypes, ItemsMembers

LEMMA ReadyListMembers ==
  ASSUME NEW list \in ReadyLists
  PROVE  Members(list.items) \subseteq AllTasks /\ (list.items = <<>> <=> Members(list.items) = {})
BY ListTypes, ItemsMembers DEF IsList

LEMMA Fields ==
  ASSUME NEW s \in KernelState
  PROVE  /\ s.pxCurrentTCB \in AllTasks /\ s.uxTopReadyPriority \subseteq Priorities
         /\ s.pxReadyTasksLists \in [Priorities -> ReadyLists]
         /\ s.pxDelayedTaskList \in TaskLists /\ s.pxOverflowDelayedTaskList \in TaskLists
         /\ s.xSuspendedTaskList \in TaskLists /\ s.xPendingReadyList \in TaskLists
         /\ s.events \in [EventLists -> TaskLists]
         /\ s.xItemValue \in [Tasks -> TickType] /\ s.xTickCount \in TickType
         /\ s.xNumOfOverflows \in Nat /\ s.xNextTaskUnblockTime \in TickType
         /\ s.uxSchedulerSuspended \in Int /\ s.xPendedTicks \in Int /\ s.xPendedCounts \in Int
         /\ s.xYieldPending \in BOOLEAN
BY DEF KernelState

LEMMA StateMembers ==
  ASSUME NEW s \in KernelState
  PROVE  /\ \A p \in Priorities : ReadyAt(s, p) \subseteq AllTasks
         /\ \A p \in Priorities : s.pxReadyTasksLists[p].items = <<>> <=> ReadyAt(s, p) = {}
         /\ Delayed(s) \subseteq Tasks /\ Overflown(s) \subseteq Tasks
         /\ Forever(s) \subseteq Tasks /\ Pending(s) \subseteq Tasks
         /\ \A e \in EventLists : Waiting(s, e) \subseteq Tasks
         /\ \A e \in EventLists : s.events[e] = <<>> <=> Waiting(s, e) = {}
         /\ s.xPendingReadyList = <<>> <=> Pending(s) = {}
         /\ \A t \in AllTasks : t \in Ready(s) <=> \E p \in Priorities : t \in ReadyAt(s, p)
<1>1. \A p \in Priorities : s.pxReadyTasksLists[p] \in ReadyLists
  BY Fields
<1>2. \A e \in EventLists : s.events[e] \in TaskLists
  BY Fields
<1>3. /\ \A p \in Priorities : ReadyAt(s, p) \subseteq AllTasks
      /\ \A p \in Priorities : s.pxReadyTasksLists[p].items = <<>> <=> ReadyAt(s, p) = {}
  BY <1>1, ReadyListMembers DEF ReadyAt
<1>4. /\ \A e \in EventLists : Waiting(s, e) \subseteq Tasks
      /\ \A e \in EventLists : s.events[e] = <<>> <=> Waiting(s, e) = {}
  BY <1>2, TaskListMembers DEF Waiting
<1>5. /\ Delayed(s) \subseteq Tasks /\ Overflown(s) \subseteq Tasks
      /\ Forever(s) \subseteq Tasks /\ Pending(s) \subseteq Tasks
      /\ s.xPendingReadyList = <<>> <=> Pending(s) = {}
  BY Fields, TaskListMembers DEF Delayed, Overflown, Forever, Pending
<1>6. \A t \in AllTasks : t \in Ready(s) <=> \E p \in Priorities : t \in ReadyAt(s, p)
  BY DEF Ready, ReadyAt
<1> QED BY <1>3, <1>4, <1>5, <1>6

-----------------------------------------------------------------------------
(* Tasks come to the ready lists and leave them.                           *)

WithReady(s, lists, top) == [s EXCEPT !.pxReadyTasksLists = lists, !.uxTopReadyPriority = top]

LEMMA ReadyFields ==
  ASSUME NEW s \in KernelState, NEW lists \in [Priorities -> ReadyLists],
         NEW top \in SUBSET Priorities, NEW r, r = WithReady(s, lists, top)
  PROVE  /\ r \in KernelState /\ r.pxReadyTasksLists = lists /\ r.uxTopReadyPriority = top
         /\ SameBlocked(s, r) /\ SameEvents(s, r) /\ SameTime(s, r) /\ SameControl(s, r)
BY DEF WithReady, KernelState, SameBlocked, SameEvents, SameTime, SameControl

\* From s to r tasks T come to the ready lists.
ReadyAdds(s, r, T) ==
  /\ \A p \in Priorities : ReadyAt(r, p) = ReadyAt(s, p) \cup {t \in T : Priority[t] = p}
  /\ r.uxTopReadyPriority = s.uxTopReadyPriority \cup {Priority[t] : t \in T}

LEMMA AddToReadyAdds ==
  ASSUME NEW s \in KernelState, NEW t \in AllTasks, t \notin Ready(s), NEW r,
         r = AddToReady(s, t)
  PROVE  /\ r \in KernelState /\ ReadyAdds(s, r, {t})
         /\ SameBlocked(s, r) /\ SameEvents(s, r) /\ SameTime(s, r) /\ SameControl(s, r)
<1> DEFINE p == Priority[t]
           list == s.pxReadyTasksLists[p]
           lists == [s.pxReadyTasksLists EXCEPT ![p] = InsertEnd(list, t)]
           top == s.uxTopReadyPriority \cup {p}
<1>1. p \in Priorities /\ list \in ReadyLists /\ t \in AllTasks \ Members(list.items)
  BY Basics, Fields, StateMembers DEF ReadyAt
<1>2. r = WithReady(s, lists, top)
  BY DEF AddToReady, WithReady
<1>3. /\ InsertEnd(list, t) \in ReadyLists
      /\ Members(InsertEnd(list, t).items) = Members(list.items) \cup {t}
  <2> HIDE DEF list
  <2> QED BY <1>1, ListTypes, InsertEndItems
<1>4. lists \in [Priorities -> ReadyLists] /\ top \in SUBSET Priorities
  BY <1>1, <1>3, Fields
<1> DEFINE added == InsertEnd(list, t)
<1> HIDE DEF added
<1>5. \A q \in Priorities : lists[q] = IF q = p THEN added ELSE s.pxReadyTasksLists[q]
  BY <1>1, Fields DEF added
<1>6. Members(added.items) = ReadyAt(s, p) \cup {t}
  BY <1>3 DEF added, ReadyAt
<1> HIDE DEF lists, top
<1>7. /\ r \in KernelState /\ r.pxReadyTasksLists = lists /\ r.uxTopReadyPriority = top
      /\ SameBlocked(s, r) /\ SameEvents(s, r) /\ SameTime(s, r) /\ SameControl(s, r)
  BY <1>2, <1>4, ReadyFields
<1>8. \A q \in Priorities : ReadyAt(r, q) = IF q = p THEN ReadyAt(s, p) \cup {t} ELSE ReadyAt(s, q)
  BY <1>5, <1>6, <1>7 DEF ReadyAt
<1>9. r.uxTopReadyPriority = s.uxTopReadyPriority \cup {p}
  BY <1>7 DEF top
<1> QED BY <1>7, <1>8, <1>9 DEF ReadyAdds

\* From s to r task t leaves the ready lists.
ReadyRemoves(s, r, t) ==
  /\ \A p \in Priorities : ReadyAt(r, p) = ReadyAt(s, p) \ {t}
  /\ TopExact(r)

LEMMA RemoveFromReadyRemoves ==
  ASSUME NEW s \in KernelState, NEW t \in Ready(s), StateItems(s), TopExact(s), NEW r,
         r = RemoveFromReady(s, t)
  PROVE  /\ r \in KernelState /\ ReadyRemoves(s, r, t)
         /\ SameBlocked(s, r) /\ SameEvents(s, r) /\ SameTime(s, r) /\ SameControl(s, r)
<1> DEFINE p == Priority[t]
           list == s.pxReadyTasksLists[p]
           removed == ListRemove(list, t)
           lists == [s.pxReadyTasksLists EXCEPT ![p] = removed]
           top == IF removed.items = <<>> THEN s.uxTopReadyPriority \ {p} ELSE s.uxTopReadyPriority
<1>1. t \in AllTasks /\ t \in ReadyAt(s, p) /\ p \in Priorities /\ list \in ReadyLists
  <2>1. PICK q \in Priorities : t \in ReadyAt(s, q)
    BY DEF Ready, ReadyAt
  <2>2. t \in AllTasks /\ q = p
    BY <2>1, StateMembers DEF StateItems
  <2> QED BY <2>1, <2>2, Fields
<1>2. r = WithReady(s, lists, top)
  BY DEF RemoveFromReady, WithReady
<1>3. /\ removed \in ReadyLists /\ Members(removed.items) = Members(list.items) \ {t}
      /\ (removed.items = <<>> <=> Members(removed.items) = {})
  <2>1. t \in Members(list.items)
    BY <1>1 DEF ReadyAt
  <2> HIDE DEF list
  <2>2. removed \in ReadyLists /\ Members(removed.items) = Members(list.items) \ {t}
    BY <1>1, <2>1, ListTypes, ListRemoveItems
  <2> HIDE DEF removed
  <2> QED BY <2>2, ReadyListMembers
<1> HIDE DEF removed
<1>4. lists \in [Priorities -> ReadyLists] /\ top \in SUBSET Priorities
  BY <1>1, <1>3, Fields
<1>5. \A q \in Priorities : lists[q] = IF q = p THEN removed ELSE s.pxReadyTasksLists[q]
  BY <1>1, Fields
<1>6. Members(removed.items) = ReadyAt(s, p) \ {t}
  BY <1>3 DEF ReadyAt
<1> HIDE DEF lists
<1>7. /\ r \in KernelState /\ r.pxReadyTasksLists = lists /\ r.uxTopReadyPriority = top
      /\ SameBlocked(s, r) /\ SameEvents(s, r) /\ SameTime(s, r) /\ SameControl(s, r)
  <2> HIDE DEF top
  <2> QED BY <1>2, <1>4, ReadyFields
<1>8. \A q \in Priorities : q # p => t \notin ReadyAt(s, q)
  BY DEF StateItems
<1>9. \A q \in Priorities : ReadyAt(r, q) = ReadyAt(s, q) \ {t}
  <2>1. \A q \in Priorities : ReadyAt(r, q) = IF q = p THEN ReadyAt(s, p) \ {t} ELSE ReadyAt(s, q)
    BY <1>5, <1>6, <1>7 DEF ReadyAt
  <2> QED BY <1>8, <2>1
<1>10. r.uxTopReadyPriority = IF ReadyAt(r, p) = {} THEN s.uxTopReadyPriority \ {p}
                              ELSE s.uxTopReadyPriority
  BY <1>1, <1>3, <1>6, <1>7, <1>9
<1>11. TopExact(r)
  BY <1>8, <1>9, <1>10 DEF TopExact
<1> QED BY <1>7, <1>9, <1>11 DEF ReadyRemoves

-----------------------------------------------------------------------------
(* Tasks leave the Blocked state.                                          *)

WithEvents(s, events, pending) == [s EXCEPT !.events = events, !.xPendingReadyList = pending]

LEMMA EventFields ==
  ASSUME NEW s \in KernelState, NEW events \in [EventLists -> TaskLists],
         NEW pending \in TaskLists, NEW r, r = WithEvents(s, events, pending)
  PROVE  /\ r \in KernelState /\ r.events = events /\ r.xPendingReadyList = pending
         /\ SameReady(s, r) /\ SameBlocked(s, r) /\ SameTime(s, r) /\ SameControl(s, r)
BY DEF WithEvents, KernelState, SameReady, SameBlocked, SameTime, SameControl

LEMMA WithoutMembers ==
  ASSUME NEW items \in TaskLists, NEW t
  PROVE  Without(items, t) \in TaskLists /\ Members(Without(items, t)) = Members(items) \ {t}
BY ListTypes, WithoutItems

BlockedLess(s, r, T) ==
  /\ Delayed(r) = Delayed(s) \ T /\ Overflown(r) = Overflown(s) \ T
  /\ Forever(r) = Forever(s) \ T

LEMMA RemoveFromBlockedRemoves ==
  ASSUME NEW s \in KernelState, NEW t, NEW r, r = RemoveFromBlocked(s, t)
  PROVE  /\ r \in KernelState /\ BlockedLess(s, r, {t}) /\ (SortedLists(s) => SortedLists(r))
         /\ SameReady(s, r) /\ SameEvents(s, r) /\ SameTime(s, r) /\ SameControl(s, r)
<1> DEFINE delayed == Without(s.pxDelayedTaskList, t)
           overflow == Without(s.pxOverflowDelayedTaskList, t)
           suspended == Without(s.xSuspendedTaskList, t)
<1>1. /\ delayed \in TaskLists /\ overflow \in TaskLists /\ suspended \in TaskLists
      /\ Members(delayed) = Delayed(s) \ {t} /\ Members(overflow) = Overflown(s) \ {t}
      /\ Members(suspended) = Forever(s) \ {t}
  BY Fields, WithoutMembers DEF Delayed, Overflown, Forever
<1>2. r = [s EXCEPT !.pxDelayedTaskList = delayed, !.pxOverflowDelayedTaskList = overflow,
                    !.xSuspendedTaskList = suspended]
  BY DEF RemoveFromBlocked
<1>4. SortedLists(s) => ListSorted(delayed, s.xItemValue) /\ ListSorted(overflow, s.xItemValue)
  BY Fields, ListTypes, WithoutSorted DEF SortedLists
<1> HIDE DEF delayed, overflow, suspended
<1>3. /\ r \in KernelState /\ r.pxDelayedTaskList = delayed
      /\ r.pxOverflowDelayedTaskList = overflow /\ r.xSuspendedTaskList = suspended
      /\ SameReady(s, r) /\ SameEvents(s, r) /\ SameTime(s, r) /\ SameControl(s, r)
  BY <1>1, <1>2 DEF KernelState, SameReady, SameEvents, SameTime, SameControl
<1>5. SortedLists(s) => SortedLists(r)
  BY <1>3, <1>4 DEF SortedLists, SameTime
<1> QED BY <1>1, <1>3, <1>5 DEF BlockedLess, Delayed, Overflown, Forever

EventsLess(s, r, T) ==
  /\ \A e \in EventLists : Waiting(r, e) = Waiting(s, e) \ T
  /\ Pending(r) = Pending(s) \ T

\* From s to r tasks T, and no others, have become ready.
Unblocked(s, r, T) ==
  /\ r \in KernelState /\ ReadyAdds(s, r, T) /\ BlockedLess(s, r, T) /\ EventsLess(s, r, T)
  /\ SameTime(s, r) /\ SameControl(s, r) /\ (SortedLists(s) => SortedLists(r))

LEMMA SameMembers ==
  ASSUME NEW s, NEW r
  PROVE  /\ SameReady(s, r) => /\ \A p \in Priorities : ReadyAt(r, p) = ReadyAt(s, p)
                             /\ Ready(r) = Ready(s)
         /\ SameBlocked(s, r) => /\ Delayed(r) = Delayed(s) /\ Overflown(r) = Overflown(s)
                               /\ Forever(r) = Forever(s)
         /\ SameEvents(s, r) => /\ \A e \in EventLists : Waiting(r, e) = Waiting(s, e)
                              /\ Pending(r) = Pending(s)
BY DEF SameReady, SameBlocked, SameEvents, ReadyAt, Ready, Delayed, Overflown, Forever, Waiting, Pending

LEMMA SamesCompose ==
  ASSUME NEW s, NEW r, NEW u, SameTime(s, r), SameTime(r, u), SameControl(s, r), SameControl(r, u)
  PROVE  SameTime(s, u) /\ SameControl(s, u)
BY DEF SameTime, SameControl

LEMMA SameSorted ==
  ASSUME NEW s, NEW r, SameBlocked(s, r), SameTime(s, r)
  PROVE  SortedLists(s) => SortedLists(r)
BY DEF SameBlocked, SameTime, SortedLists

LEMMA UnblockUnblocks ==
  ASSUME NEW s \in KernelState, NEW t \in Tasks, t \notin Ready(s)
  PROVE  Unblocked(s, Unblock(s, t), {t})
<1> DEFINE u == RemoveFromBlocked(s, t)
           events == [e \in EventLists |-> Without(s.events[e], t)]
           pending == Without(u.xPendingReadyList, t)
           v == WithEvents(u, events, pending)
           r == AddToReady(v, t)
<1>1. Unblock(s, t) = r
  BY DEF Unblock, WithEvents
<1>2. /\ u \in KernelState /\ BlockedLess(s, u, {t}) /\ (SortedLists(s) => SortedLists(u))
      /\ SameReady(s, u) /\ SameEvents(s, u) /\ SameTime(s, u) /\ SameControl(s, u)
  BY RemoveFromBlockedRemoves
<1> HIDE DEF u
<1>3. /\ events \in [EventLists -> TaskLists] /\ pending \in TaskLists
      /\ \A e \in EventLists : Members(events[e]) = Waiting(s, e) \ {t}
      /\ Members(pending) = Pending(s) \ {t}
  <2>1. \A e \in EventLists : s.events[e] \in TaskLists
    BY Fields
  <2>2. u.xPendingReadyList = s.xPendingReadyList /\ s.xPendingReadyList \in TaskLists
    BY <1>2, Fields DEF SameEvents
  <2> QED BY <2>1, <2>2, WithoutMembers DEF Waiting, Pending
<1> HIDE DEF events, pending
<1>4. /\ v \in KernelState /\ v.events = events /\ v.xPendingReadyList = pending
      /\ SameReady(u, v) /\ SameBlocked(u, v) /\ SameTime(u, v) /\ SameControl(u, v)
  BY <1>2, <1>3, EventFields
<1> HIDE DEF v
<1>5. t \in AllTasks /\ t \notin Ready(v)
  BY <1>2, <1>4, SameMembers, Basics
<1>6. /\ r \in KernelState /\ ReadyAdds(v, r, {t})
      /\ SameBlocked(v, r) /\ SameEvents(v, r) /\ SameTime(v, r) /\ SameControl(v, r)
  BY <1>4, <1>5, AddToReadyAdds
<1> HIDE DEF r
<1>7. SameTime(s, r) /\ SameControl(s, r)
  <2>1. SameTime(s, v) /\ SameControl(s, v)
    BY <1>2, <1>4, SamesCompose
  <2> QED BY <1>6, <2>1, SamesCompose
<1>8. ReadyAdds(s, r, {t})
  <2>1. /\ \A p \in Priorities : ReadyAt(v, p) = ReadyAt(s, p)
        /\ v.uxTopReadyPriority = s.uxTopReadyPriority
    BY <1>2, <1>4, SameMembers DEF SameReady
  <2> QED BY <1>6, <2>1 DEF ReadyAdds
<1>9. BlockedLess(s, r, {t})
  BY <1>2, <1>4, <1>6, SameMembers DEF BlockedLess
<1>10. EventsLess(s, r, {t})
  <2>1. /\ \A e \in EventLists : Waiting(r, e) = Members(events[e])
        /\ Pending(r) = Members(pending)
    BY <1>4, <1>6 DEF SameEvents, Waiting, Pending
  <2> QED BY <1>3, <2>1 DEF EventsLess
<1>11. SortedLists(s) => SortedLists(r)
  BY <1>2, <1>4, <1>6, SameSorted
<1> QED BY <1>1, <1>6, <1>7, <1>8, <1>9, <1>10, <1>11 DEF Unblocked

\* The loop over the tasks that become ready comes to its end.
LEMMA UnblockAllRuns ==
  ASSUME NEW s, NEW list, Len(list) \in Nat
  PROVE  \E f : /\ f = [i \in 0 .. Len(list) |-> IF i = 0 THEN s ELSE Unblock(f[i - 1], list[i])]
               /\ UnblockAll(s, list) = f[Len(list)]
<1> DEFINE Run(f, n) == f = [i \in 0 .. n |-> IF i = 0 THEN s ELSE Unblock(f[i - 1], list[i])]
           Runs == {n \in Nat : \E f : Run(f, n)}
<1>1. 0 \in Runs
  <2> DEFINE f == [i \in 0 .. 0 |-> s]
  <2>1. Run(f, 0)
    OBVIOUS
  <2> QED BY <2>1
<1>2. ASSUME NEW n \in Nat, n \in Runs
      PROVE  n + 1 \in Runs
  <2>1. PICK f : Run(f, n)
    BY <1>2
  <2> DEFINE g == [i \in 0 .. n + 1 |-> IF i <= n THEN f[i] ELSE Unblock(f[n], list[n + 1])]
             Again(i) == IF i = 0 THEN s ELSE Unblock(g[i - 1], list[i])
  <2>2. \A i \in 0 .. n : f[i] = IF i = 0 THEN s ELSE Unblock(f[i - 1], list[i])
    BY <2>1
  <2>3. ASSUME NEW i \in 0 .. n + 1
        PROVE  g[i] = Again(i)
    <3>1. CASE i = 0
      BY <2>2, <3>1
    <3>2. CASE i \in 1 .. n
      <4>1. g[i] = f[i] /\ g[i - 1] = f[i - 1]
        BY <3>2
      <4>2. i \in 0 .. n /\ i # 0
        BY <3>2
      <4> QED BY <2>2, <4>1, <4>2
    <3>3. CASE i = n + 1
      <4>1. g[i] = Unblock(f[n], list[n + 1]) /\ g[i - 1] = f[n]
        BY <3>3
      <4> QED BY <3>3, <4>1
    <3> QED BY <3>1, <3>2, <3>3
  <2>4. Run(g, n + 1)
    <3>1. g = [i \in 0 .. n + 1 |-> g[i]]
      OBVIOUS
    <3> HIDE DEF g
    <3> QED BY <2>3, <3>1
  <2> HIDE DEF g
  <2> QED BY <2>4
<1> HIDE DEF Run
<1>3. Nat \subseteq Runs
  <2> HIDE DEF Runs
  <2> QED BY <1>1, <1>2, SetInduction
<1>4. \E f : Run(f, Len(list))
  BY <1>3
<1> DEFINE after == CHOOSE f : Run(f, Len(list))
<1>5. Run(after, Len(list))
  BY <1>4
<1>6. UnblockAll(s, list) = after[Len(list)]
  BY DEF UnblockAll, Run
<1> QED BY <1>5, <1>6 DEF Run

-----------------------------------------------------------------------------
Good(s) == s \in KernelState /\ StateItems(s) /\ EventItems(s) /\ TopExact(s)

LEMMA ReadyOfAdds ==
  ASSUME NEW s, NEW r, NEW T \in SUBSET AllTasks, ReadyAdds(s, r, T)
  PROVE  Ready(r) = Ready(s) \cup T
<1>1. \A t \in T : Priority[t] \in Priorities
  BY Basics
<1>2. \A p \in Priorities : ReadyAt(r, p) = ReadyAt(s, p) \cup {t \in T : Priority[t] = p}
  BY DEF ReadyAdds
<1>3. /\ Ready(r) = UNION {ReadyAt(r, p) : p \in Priorities}
      /\ Ready(s) = UNION {ReadyAt(s, p) : p \in Priorities}
  BY DEF Ready, ReadyAt
<1> QED BY <1>1, <1>2, <1>3

LEMMA UnblockedCompose ==
  ASSUME NEW s, NEW r, NEW u, NEW T, NEW t, Unblocked(s, r, T), Unblocked(r, u, {t})
  PROVE  Unblocked(s, u, T \cup {t})
<1>1. ReadyAdds(s, u, T \cup {t})
  BY DEF Unblocked, ReadyAdds
<1>2. BlockedLess(s, u, T \cup {t})
  BY DEF Unblocked, BlockedLess
<1>3. EventsLess(s, u, T \cup {t})
  BY DEF Unblocked, EventsLess
<1>4. SameTime(s, u) /\ SameControl(s, u) /\ u \in KernelState
  BY SamesCompose DEF Unblocked
<1>5. SortedLists(s) => SortedLists(u)
  BY DEF Unblocked
<1> QED BY <1>1, <1>2, <1>3, <1>4, <1>5 DEF Unblocked

LEMMA UnblockAllUnblocks ==
  ASSUME NEW s \in KernelState, NEW list \in TaskLists, Members(list) \cap Ready(s) = {}
  PROVE  Unblocked(s, UnblockAll(s, list), Members(list))
<1>1. /\ Len(list) \in Nat /\ \A i \in 1 .. Len(list) : list[i] \in Tasks
      /\ \A i, j \in 1 .. Len(list) : list[i] = list[j] => i = j
  BY LenProperties, ElementOfSeq DEF TaskLists, IsItems
<1>2. PICK f : /\ f = [i \in 0 .. Len(list) |-> IF i = 0 THEN s ELSE Unblock(f[i - 1], list[i])]
               /\ UnblockAll(s, list) = f[Len(list)]
  BY <1>1, UnblockAllRuns
<1>3. /\ f[0] = s
      /\ \A n \in Nat : n + 1 <= Len(list) => f[n + 1] = Unblock(f[n], list[n + 1])
  <2>1. \A i \in 0 .. Len(list) : f[i] = IF i = 0 THEN s ELSE Unblock(f[i - 1], list[i])
    BY <1>2
  <2>2. 0 \in 0 .. Len(list)
    BY <1>1
  <2>3. ASSUME NEW n \in Nat, n + 1 <= Len(list)
        PROVE  f[n + 1] = Unblock(f[n], list[n + 1])
    <3>1. n + 1 \in 0 .. Len(list) /\ n + 1 # 0 /\ (n + 1) - 1 = n
      BY <1>1, <2>3
    <3>2. f[n + 1] = Unblock(f[(n + 1) - 1], list[n + 1])
      BY <2>1, <3>1
    <3> QED BY <3>1, <3>2
  <2> QED BY <2>1, <2>2, <2>3
<1> DEFINE First(n) == {list[i] : i \in 1 .. n}
           Done == {n \in Nat : n <= Len(list) => Unblocked(s, f[n], First(n))}
<1>4. 0 \in Done
  <2>1. First(0) = {}
    OBVIOUS
  <2>2. Unblocked(s, s, {})
    BY DEF Unblocked, ReadyAdds, BlockedLess, EventsLess, SameTime, SameControl
  <2> QED BY <1>3, <2>1, <2>2
<1>5. ASSUME NEW n \in Nat, n \in Done
      PROVE  n + 1 \in Done
  <2> SUFFICES ASSUME n + 1 <= Len(list)
               PROVE  Unblocked(s, f[n + 1], First(n + 1))
    OBVIOUS
  <2> DEFINE t == list[n + 1]
  <2>1. Unblocked(s, f[n], First(n))
    BY <1>1, <1>5
  <2>2. /\ t \in Tasks /\ t \notin First(n) /\ First(n + 1) = First(n) \cup {t}
        /\ First(n) \subseteq Tasks /\ t \in Members(list)
    <3>1. n + 1 \in 1 .. Len(list) /\ \A i \in 1 .. n : i \in 1 .. Len(list) /\ i # n + 1
      BY <1>1
    <3>2. \A i \in 1 .. n + 1 : i \in 1 .. n \/ i = n + 1
      OBVIOUS
    <3>3. \A i \in 1 .. n : i \in 1 .. n + 1
      OBVIOUS
    <3> QED BY <1>1, <3>1, <3>2, <3>3 DEF Members
  <2> HIDE DEF First
  <2>3. t \notin Ready(f[n])
    <3>1. Ready(f[n]) = Ready(s) \cup First(n)
      BY <2>1, <2>2, ReadyOfAdds, Basics DEF Unblocked
    <3> QED BY <2>2, <3>1
  <2>4. Unblocked(f[n], f[n + 1], {t})
    <3>1. f[n] \in KernelState
      BY <2>1 DEF Unblocked
    <3> QED BY <1>3, <2>2, <2>3, <3>1, UnblockUnblocks
  <2> HIDE DEF t
  <2>5. Unblocked(s, f[n + 1], First(n) \cup {t})
    BY <2>1, <2>4, UnblockedCompose
  <2> QED BY <2>2, <2>5
<1> HIDE DEF Done
<1>6. Nat \subseteq Done
  BY <1>4, <1>5, SetInduction
<1>7. Unblocked(s, f[Len(list)], First(Len(list)))
  <2> HIDE DEF First
  <2>1. Len(list) \in Done /\ Len(list) <= Len(list)
    BY <1>1, <1>6
  <2> QED BY <2>1 DEF Done
<1> QED BY <1>2, <1>7 DEF Members

LEMMA UnblockedGood ==
  ASSUME NEW s, Good(s), NEW T \in SUBSET Tasks, T \cap Ready(s) = {}, NEW r, Unblocked(s, r, T)
  PROVE  Good(r) /\ Ready(r) = Ready(s) \cup T
<1>1. Ready(r) = Ready(s) \cup T
  BY ReadyOfAdds, Basics DEF Unblocked
<1>2. /\ \A p \in Priorities : ReadyAt(r, p) = ReadyAt(s, p) \cup {t \in T : Priority[t] = p}
      /\ r.uxTopReadyPriority = s.uxTopReadyPriority \cup {Priority[t] : t \in T}
  BY DEF Unblocked, ReadyAdds
<1>3. BlockedLess(s, r, T) /\ EventsLess(s, r, T) /\ r \in KernelState
  BY DEF Unblocked
<1>4. StateItems(r)
  BY <1>1, <1>2, <1>3, Basics DEF Good, StateItems, BlockedLess
<1>5. EventItems(r)
  BY <1>1, <1>3 DEF Good, EventItems, EventsLess
<1>6. TopExact(r)
  BY <1>2 DEF Good, TopExact
<1> QED BY <1>1, <1>3, <1>4, <1>5, <1>6 DEF Good

-----------------------------------------------------------------------------
(* The tick.                                                               *)

LEMMA TickTypes ==
  /\ \A a, b \in Int : AddTicks(a, b) \in TickType /\ SubTicks(a, b) \in TickType
  /\ TickType \subseteq Nat /\ 0 \in TickType /\ portMAX_DELAY \in TickType
<1>1. portMAX_DELAY \in Nat \ {0}
  BY KernelAssumption
<1>2. \A x \in Int : x % (portMAX_DELAY + 1) \in 0 .. portMAX_DELAY
  BY <1>1
<1> QED BY <1>1, <1>2 DEF AddTicks, SubTicks, TickType

LEMMA NextUnblockTimeType ==
  ASSUME NEW s \in KernelState
  PROVE  NextUnblockTime(s) \in TickType
<1>1. CASE s.pxDelayedTaskList = <<>>
  BY <1>1, TickTypes DEF NextUnblockTime
<1>2. CASE s.pxDelayedTaskList # <<>>
  <2>1. Head(s.pxDelayedTaskList) \in Tasks
    BY <1>2, Fields, ListTypes, TailItems
  <2> QED BY <1>2, <2>1, Fields DEF NextUnblockTime
<1> QED BY <1>1, <1>2

LEMMA UnblockTimeFields ==
  ASSUME NEW s \in KernelState, NEW ticks \in TickType, NEW r,
         r = [s EXCEPT !.xNextTaskUnblockTime = ticks]
  PROVE  /\ r \in KernelState /\ SameReady(s, r) /\ SameBlocked(s, r) /\ SameEvents(s, r)
         /\ SameControl(s, r)
BY DEF KernelState, SameReady, SameBlocked, SameEvents, SameControl

\* What is Good does not depend on the times.
LEMMA GoodLists ==
  ASSUME NEW s, Good(s), NEW r \in KernelState, SameReady(s, r), SameEvents(s, r),
         Forever(r) = Forever(s),
         \/ Delayed(r) = Delayed(s) /\ Overflown(r) = Overflown(s)
         \/ Delayed(r) = Overflown(s) /\ Overflown(r) = Delayed(s)
  PROVE  Good(r)
<1>1. /\ \A p \in Priorities : ReadyAt(r, p) = ReadyAt(s, p)
      /\ Ready(r) = Ready(s) /\ r.uxTopReadyPriority = s.uxTopReadyPriority
      /\ \A e \in EventLists : Waiting(r, e) = Waiting(s, e)
      /\ Pending(r) = Pending(s)
  BY SameMembers DEF SameReady
<1>2. StateItems(r)
  BY <1>1 DEF Good, StateItems
<1>3. EventItems(r)
  BY <1>1 DEF Good, EventItems
<1>4. TopExact(r)
  BY <1>1 DEF Good, TopExact
<1> QED BY <1>2, <1>3, <1>4 DEF Good

LEMMA CountedGood ==
  ASSUME NEW s, Good(s), NEW c, c = Counted(s)
  PROVE  Good(c) /\ SameReady(s, c) /\ SameEvents(s, c) /\ SameControl(s, c)
<1> DEFINE ticks == AddTicks(s.xTickCount, 1)
           overflows == (s.xNumOfOverflows + 1) % OverflowRange
<1>1. s \in KernelState
  BY DEF Good
<1>2. ticks \in TickType
  <2>1. s.xTickCount \in TickType /\ TickType \subseteq Nat
    BY <1>1, Fields, TickTypes
  <2>2. s.xTickCount \in Nat
    BY <2>1
  <2>3. s.xTickCount \in Int /\ 1 \in Int
    BY <2>2
  <2> QED BY <2>3, TickTypes
<1>3. overflows \in Nat
  <2>1. s.xNumOfOverflows \in Nat /\ OverflowRange \in Nat /\ OverflowRange > 1
    BY <1>1, Fields, KernelAssumption
  <2> QED BY <2>1
<1> HIDE DEF ticks, overflows
<1> DEFINE r == [s EXCEPT !.xTickCount = ticks]
           u == [r EXCEPT !.pxDelayedTaskList = r.pxOverflowDelayedTaskList,
                          !.pxOverflowDelayedTaskList = r.pxDelayedTaskList,
                          !.xNumOfOverflows = overflows]
           v == [u EXCEPT !.xNextTaskUnblockTime = NextUnblockTime(u)]
<1>4. /\ r \in KernelState /\ SameReady(s, r) /\ SameBlocked(s, r) /\ SameEvents(s, r)
      /\ SameControl(s, r) /\ r.xNumOfOverflows = s.xNumOfOverflows
  BY <1>1, <1>2 DEF KernelState, SameReady, SameBlocked, SameEvents, SameControl
<1>5. Good(r)
  BY <1>4, GoodLists, SameMembers
<1>6. c = IF r.xTickCount = 0 THEN SwitchDelayedLists(r) ELSE r
  BY DEF Counted, ticks
<1> HIDE DEF r
<1>7. CASE r.xTickCount # 0
  BY <1>4, <1>5, <1>6, <1>7
<1>8. CASE r.xTickCount = 0
  <2>1. c = v
    BY <1>4, <1>6, <1>8 DEF SwitchDelayedLists, overflows
  <2>2. /\ u \in KernelState /\ SameReady(r, u) /\ SameEvents(r, u) /\ SameControl(r, u)
        /\ u.xSuspendedTaskList = r.xSuspendedTaskList
        /\ u.pxDelayedTaskList = r.pxOverflowDelayedTaskList
        /\ u.pxOverflowDelayedTaskList = r.pxDelayedTaskList
    BY <1>3, <1>4 DEF KernelState, SameReady, SameEvents, SameControl
  <2> HIDE DEF u
  <2>3. Good(u)
    BY <1>5, <2>2, GoodLists DEF Forever, Delayed, Overflown
  <2>4. /\ v \in KernelState /\ SameReady(u, v) /\ SameBlocked(u, v) /\ SameEvents(u, v)
        /\ SameControl(u, v)
    BY <2>2, NextUnblockTimeType, UnblockTimeFields
  <2> HIDE DEF v
  <2>5. Good(v)
    BY <2>3, <2>4, GoodLists, SameMembers
  <2> QED BY <1>4, <2>1, <2>2, <2>4, <2>5 DEF SameReady, SameEvents, SameControl
<1> QED BY <1>7, <1>8

LEMMA DueItems ==
  ASSUME NEW s \in KernelState
  PROVE  Due(s) \in TaskLists /\ Members(Due(s)) \subseteq Delayed(s)
<1> DEFINE list == s.pxDelayedTaskList
           later == {i \in 1 .. Len(list) : s.xItemValue[list[i]] > s.xTickCount}
           n == IF later = {} THEN Len(list) ELSE Min(later) - 1
<1>1. IsItems(list, Tasks) /\ Len(list) \in Nat /\ list \in TaskLists
  BY Fields, ListTypes, LenProperties DEF IsItems
<1>2. n \in 0 .. Len(list)
  <2>1. CASE later = {}
    BY <1>1, <2>1
  <2>2. CASE later # {}
    <3>1. later \in SUBSET Nat
      BY <1>1
    <3>2. \E i \in later : \A j \in later : i <= j
      BY <2>2, <3>1, LeastNatural
    <3>3. Min(later) \in later
      BY <3>2 DEF Min
    <3>4. Min(later) \in 1 .. Len(list)
      BY <3>3
    <3> HIDE DEF later
    <3> QED BY <1>1, <2>2, <3>4
  <2> QED BY <2>1, <2>2
<1>3. Due(s) = IF s.xTickCount < s.xNextTaskUnblockTime THEN <<>> ELSE SubSeq(list, 1, n)
  BY DEF Due
<1> HIDE DEF n
<1>4. SubSeq(list, 1, n) \in TaskLists /\ Members(SubSeq(list, 1, n)) \subseteq Members(list)
  <2> HIDE DEF list
  <2> QED BY <1>1, <1>2, ListTypes, PrefixItems
<1>5. <<>> \in TaskLists /\ Members(<<>>) = {}
  BY ListTypes, EmptyItems
<1> QED BY <1>3, <1>4, <1>5 DEF Delayed

\* A tick readies the tasks that are due, and changes nothing else that tasks and
\* queues depend on.
Ticked(s, r) ==
  LET due == Members(Due(Counted(s)))
  IN /\ Good(r) /\ SameControl(s, r)
     /\ due \subseteq Tasks /\ Ready(r) = Ready(s) \cup due /\ EventsLess(s, r, due)

LEMMA IncrementTickTicks ==
  ASSUME NEW s, Good(s)
  PROVE  Ticked(s, IncrementTick(s))
<1> DEFINE c == Counted(s)
           list == Due(c)
           r == UnblockAll(c, list)
           u == [r EXCEPT !.xNextTaskUnblockTime = NextUnblockTime(r)]
<1>1. Good(c) /\ SameReady(s, c) /\ SameEvents(s, c) /\ SameControl(s, c)
  BY CountedGood
<1>2. c \in KernelState
  BY <1>1 DEF Good
<1>3. IncrementTick(s) = IF c.xTickCount < c.xNextTaskUnblockTime THEN r ELSE u
  BY DEF IncrementTick
<1>4. list \in TaskLists /\ Members(list) \subseteq Delayed(c) /\ Members(list) \subseteq Tasks
  <2> HIDE DEF c
  <2> QED BY <1>2, DueItems, TaskListMembers
<1>5. Members(list) \cap Ready(c) = {}
  BY <1>1, <1>4 DEF Good, StateItems
<1>6. Unblocked(c, r, Members(list))
  <2> HIDE DEF c, list
  <2> QED BY <1>2, <1>4, <1>5, UnblockAllUnblocks
<1> HIDE DEF r
<1>7. Good(r) /\ Ready(r) = Ready(c) \cup Members(list)
  BY <1>1, <1>4, <1>5, <1>6, UnblockedGood
<1>8. /\ SameControl(c, r) /\ EventsLess(c, r, Members(list)) /\ r \in KernelState
  BY <1>6 DEF Unblocked
<1>9. Ticked(s, r)
  <2>1. Ready(c) = Ready(s)
    BY <1>1, SameMembers
  <2>2. EventsLess(s, r, Members(list))
    BY <1>1, <1>8, SameMembers DEF EventsLess
  <2>3. SameControl(s, r)
    BY <1>1, <1>8 DEF SameControl
  <2> HIDE DEF c
  <2>4. c = Counted(s)
    BY DEF c
  <2> QED BY <1>4, <1>7, <2>1, <2>2, <2>3, <2>4 DEF Ticked
<1>10. Ticked(s, u)
  <2>1. /\ u \in KernelState /\ SameReady(r, u) /\ SameBlocked(r, u) /\ SameEvents(r, u)
        /\ SameControl(r, u)
    BY <1>8, NextUnblockTimeType, UnblockTimeFields
  <2> HIDE DEF u, c, list
  <2>2. Good(u) /\ Ready(u) = Ready(r)
    BY <1>7, <2>1, GoodLists, SameMembers
  <2>3. SameControl(s, u)
    BY <1>9, <2>1 DEF Ticked, SameControl
  <2>4. EventsLess(s, u, Members(Due(Counted(s))))
    BY <1>9, <2>1, SameMembers DEF Ticked, EventsLess
  <2> QED BY <1>9, <2>2, <2>3, <2>4 DEF Ticked
<1> QED BY <1>3, <1>9, <1>10

-----------------------------------------------------------------------------
(* The other steps of the kernel's record.                                 *)

\* xTaskResumeAll readies what became ready while the scheduler was suspended.
PendingMoved(s, r) ==
  /\ Good(r) /\ Ready(r) = Ready(s) \cup Pending(s) /\ Pending(r) = {}
  /\ \A e \in EventLists : Waiting(r, e) = Waiting(s, e)
  /\ r.pxCurrentTCB = s.pxCurrentTCB /\ r.uxSchedulerSuspended = s.uxSchedulerSuspended
  /\ s.xYieldPending => r.xYieldPending
  /\ (\E t \in Pending(s) : Priority[t] > Priority[s.pxCurrentTCB]) => r.xYieldPending
  /\ BlockedLess(s, r, Pending(s)) /\ SamePended(s, r) /\ (SortedLists(s) => SortedLists(r))
  /\ r.xItemValue = s.xItemValue /\ SameClock(s, r)
  /\ r.xNextTaskUnblockTime = IF Pending(s) = {} THEN s.xNextTaskUnblockTime ELSE NextUnblockTime(r)

LEMMA MovePendingReadyMoves ==
  ASSUME NEW s, Good(s)
  PROVE  PendingMoved(s, MovePendingReady(s))
<1> DEFINE higher == \E t \in Members(s.xPendingReadyList) : Priority[t] >= Priority[s.pxCurrentTCB]
           m == UnblockAll(s, s.xPendingReadyList)
           ticks == NextUnblockTime(m)
           yield == m.xYieldPending \/ higher
           r == [m EXCEPT !.xYieldPending = yield, !.xNextTaskUnblockTime = ticks]
<1>1. /\ s \in KernelState /\ s.xPendingReadyList \in TaskLists /\ Pending(s) \subseteq Tasks
      /\ s.pxCurrentTCB \in AllTasks
  BY Fields, StateMembers DEF Good
<1>2. CASE s.xPendingReadyList = <<>>
  <2>1. MovePendingReady(s) = s /\ Pending(s) = {}
    BY <1>1, <1>2, StateMembers DEF MovePendingReady
  <2> QED BY <2>1 DEF PendingMoved, BlockedLess, SamePended, SameClock
<1>3. CASE s.xPendingReadyList # <<>>
  <2>1. Unblocked(s, m, Pending(s))
    BY <1>1, UnblockAllUnblocks DEF Good, EventItems, Pending
  <2>2. MovePendingReady(s) = r
    BY <1>3 DEF MovePendingReady
  <2> HIDE DEF m
  <2>3. Good(m) /\ Ready(m) = Ready(s) \cup Pending(s) /\ m \in KernelState
    BY <1>1, <2>1, UnblockedGood DEF Good, EventItems
  <2>4. EventsLess(s, m, Pending(s)) /\ SameControl(s, m)
    BY <2>1 DEF Unblocked
  <2>5. ticks \in TickType /\ yield \in BOOLEAN
    BY <2>3, NextUnblockTimeType
  <2>6. yield <=> s.xYieldPending \/ higher
    BY <2>4 DEF SameControl
  <2> HIDE DEF ticks, yield
  <2>7. /\ r \in KernelState /\ SameReady(m, r) /\ SameBlocked(m, r) /\ SameEvents(m, r)
        /\ r.pxCurrentTCB = m.pxCurrentTCB /\ r.uxSchedulerSuspended = m.uxSchedulerSuspended
        /\ r.xYieldPending = yield
    BY <2>3, <2>5 DEF KernelState, SameReady, SameBlocked, SameEvents
  <2>12. /\ r.xItemValue = m.xItemValue /\ SameClock(m, r)
         /\ SamePended(m, r) /\ r.xNextTaskUnblockTime = ticks
    BY <2>3, <2>5 DEF KernelState, SamePended, SameClock
  <2> HIDE DEF r
  <2>8. Good(r) /\ Ready(r) = Ready(m)
    BY <2>3, <2>7, GoodLists, SameMembers
  <2>9. Pending(r) = {} /\ \A e \in EventLists : Waiting(r, e) = Waiting(s, e)
    BY <2>4, <2>7, SameMembers DEF EventsLess, Good, EventItems
  <2>10. (\E t \in Pending(s) : Priority[t] > Priority[s.pxCurrentTCB]) => higher
    BY <1>1, Basics DEF Pending
  <2>11. /\ r.pxCurrentTCB = s.pxCurrentTCB /\ r.uxSchedulerSuspended = s.uxSchedulerSuspended
         /\ s.xYieldPending => r.xYieldPending
         /\ higher => r.xYieldPending
    BY <2>4, <2>6, <2>7 DEF SameControl
  <2>13. BlockedLess(s, r, Pending(s)) /\ SamePended(s, r) /\ (SortedLists(s) => SortedLists(r))
    <3>1. /\ BlockedLess(s, m, Pending(s)) /\ SameControl(s, m) /\ SameTime(s, m)
          /\ (SortedLists(s) => SortedLists(m))
      BY <2>1 DEF Unblocked
    <3>2. BlockedLess(s, r, Pending(s))
      BY <2>7, <3>1, SameMembers DEF BlockedLess
    <3> QED BY <2>7, <2>12, <3>1, <3>2 DEF SamePended, SameControl, SortedLists, SameBlocked
  <2>14. r.xItemValue = s.xItemValue /\ SameClock(s, r)
    BY <2>1, <2>12 DEF Unblocked, SameTime, SameClock
  <2>15. r.xNextTaskUnblockTime = NextUnblockTime(r) /\ Pending(s) # {}
    BY <1>1, <1>3, <2>7, <2>12, StateMembers DEF ticks, NextUnblockTime, SameBlocked
  <2> HIDE DEF higher
  <2> QED BY <2>2, <2>3, <2>8, <2>9, <2>10, <2>11, <2>13, <2>14, <2>15 DEF PendingMoved
<1> QED BY <1>2, <1>3

\* The running task leaves the Ready state.
CurrentLeaves(s, r) ==
  /\ r \in KernelState /\ StateItems(r) /\ TopExact(r) /\ Ready(r) = Ready(s) \ {s.pxCurrentTCB}
  /\ SameEvents(s, r) /\ SameControl(s, r) /\ SameClock(s, r)

\* From s by way of r, where t is ready no more, to u, where it is blocked.
LEMMA LeavesTo ==
  ASSUME NEW s, StateItems(s), NEW t \in Ready(s), NEW r, ReadyRemoves(s, r, t),
         Ready(r) = Ready(s) \ {t}, SameEvents(s, r), SameControl(s, r), SameClock(s, r),
         t = s.pxCurrentTCB, NEW u \in KernelState,
         SameReady(r, u), SameEvents(r, u), SameControl(r, u), SameClock(r, u),
         \/ /\ Delayed(u) = Delayed(s) /\ Overflown(u) = Overflown(s)
            /\ Forever(u) = Forever(s) \cup {t}
         \/ /\ Delayed(u) = Delayed(s) /\ Overflown(u) = Overflown(s) \cup {t}
            /\ Forever(u) = Forever(s)
         \/ /\ Delayed(u) = Delayed(s) \cup {t} /\ Overflown(u) = Overflown(s)
            /\ Forever(u) = Forever(s)
  PROVE  CurrentLeaves(s, u)
<1>1. /\ \A p \in Priorities : ReadyAt(u, p) = ReadyAt(r, p)
      /\ Ready(u) = Ready(s) \ {t} /\ u.uxTopReadyPriority = r.uxTopReadyPriority
  BY SameMembers DEF SameReady
<1>2. TopExact(u)
  BY <1>1 DEF ReadyRemoves, TopExact
<1>3. \A p \in Priorities : \A x \in ReadyAt(u, p) : Priority[x] = p
  BY <1>1 DEF ReadyRemoves, StateItems
<1>4. StateItems(u)
  BY <1>1, <1>3 DEF StateItems
<1>5. SameEvents(s, u) /\ SameControl(s, u) /\ SameClock(s, u)
  BY DEF SameEvents, SameControl, SameClock
<1> QED BY <1>1, <1>2, <1>4, <1>5 DEF CurrentLeaves

LEMMA AddCurrentTaskLeaves ==
  ASSUME NEW s \in KernelState, StateItems(s), TopExact(s), s.pxCurrentTCB \in Ready(s) \cap Tasks,
         NEW ticks \in Int, NEW can \in BOOLEAN
  PROVE  CurrentLeaves(s, AddCurrentTaskToDelayedList(s, ticks, can))
<1> DEFINE t == s.pxCurrentTCB
           r == RemoveFromReady(s, t)
           wake == AddTicks(s.xTickCount, ticks)
           timed == [r EXCEPT !.xItemValue[t] = wake]
           forever == Append(r.xSuspendedTaskList, t)
           overflow == SortedInsert(timed.pxOverflowDelayedTaskList, t, timed.xItemValue)
           delayed == SortedInsert(timed.pxDelayedTaskList, t, timed.xItemValue)
           next == IF wake < timed.xNextTaskUnblockTime THEN wake ELSE timed.xNextTaskUnblockTime
           u1 == [r EXCEPT !.xSuspendedTaskList = forever]
           u2 == [timed EXCEPT !.pxOverflowDelayedTaskList = overflow]
           u3 == [timed EXCEPT !.pxDelayedTaskList = delayed, !.xNextTaskUnblockTime = next]
           u == AddCurrentTaskToDelayedList(s, ticks, can)
<1>1. u = u1 \/ u = u2 \/ u = u3
  BY DEF AddCurrentTaskToDelayedList
<1>2. /\ r \in KernelState /\ ReadyRemoves(s, r, t)
      /\ SameBlocked(s, r) /\ SameEvents(s, r) /\ SameTime(s, r) /\ SameControl(s, r)
      /\ SameClock(s, r)
  BY RemoveFromReadyRemoves DEF SameTime, SameClock
<1>3. wake \in TickType
  <2>1. s.xTickCount \in TickType /\ TickType \subseteq Nat
    BY Fields, TickTypes
  <2>2. s.xTickCount \in Nat
    BY <2>1
  <2>3. s.xTickCount \in Int
    BY <2>2
  <2> QED BY <2>3, TickTypes
<1>4. t \in Tasks /\ t \in AllTasks /\ Ready(r) = Ready(s) \ {t}
  <2>1. Ready(r) = UNION {ReadyAt(r, p) : p \in Priorities}
    BY DEF Ready, ReadyAt
  <2>2. Ready(s) = UNION {ReadyAt(s, p) : p \in Priorities}
    BY DEF Ready, ReadyAt
  <2> QED BY <1>2, <2>1, <2>2, Basics DEF ReadyRemoves
<1>5. /\ t \notin Delayed(s) /\ t \notin Overflown(s) /\ t \notin Forever(s)
      /\ Delayed(r) = Delayed(s) /\ Overflown(r) = Overflown(s) /\ Forever(r) = Forever(s)
  BY <1>2, SameMembers DEF StateItems
<1> HIDE DEF r, wake
<1>6. /\ timed \in KernelState /\ SameReady(r, timed) /\ SameBlocked(r, timed)
      /\ SameEvents(r, timed) /\ SameControl(r, timed) /\ SameClock(r, timed)
      /\ timed.xNextTaskUnblockTime = r.xNextTaskUnblockTime
  BY <1>2, <1>3, <1>4 DEF KernelState, SameReady, SameBlocked, SameEvents, SameControl, SameClock
<1> HIDE DEF timed
<1>7. /\ forever \in TaskLists /\ overflow \in TaskLists /\ delayed \in TaskLists
      /\ Members(forever) = Forever(s) \cup {t} /\ Members(overflow) = Overflown(s) \cup {t}
      /\ Members(delayed) = Delayed(s) \cup {t}
  <2>1. /\ r.xSuspendedTaskList \in TaskLists /\ timed.pxOverflowDelayedTaskList \in TaskLists
        /\ timed.pxDelayedTaskList \in TaskLists
    BY <1>2, <1>6, Fields
  <2>2. /\ Members(r.xSuspendedTaskList) = Forever(s)
        /\ Members(timed.pxOverflowDelayedTaskList) = Overflown(s)
        /\ Members(timed.pxDelayedTaskList) = Delayed(s)
    BY <1>5, <1>6 DEF Forever, Overflown, Delayed, SameBlocked
  <2> HIDE DEF t
  <2> QED BY <1>4, <1>5, <2>1, <2>2, ListTypes, AppendItems, SortedInsertItems
<1>8. next \in TickType
  BY <1>2, <1>3, <1>6, Fields
<1> HIDE DEF forever, overflow, delayed, next
<1>9. CASE u = u1
  <2>1. /\ u \in KernelState /\ SameReady(r, u) /\ SameEvents(r, u) /\ SameControl(r, u)
        /\ SameClock(r, u) /\ u.xSuspendedTaskList = forever /\ u.pxDelayedTaskList = r.pxDelayedTaskList
        /\ u.pxOverflowDelayedTaskList = r.pxOverflowDelayedTaskList
    BY <1>2, <1>7, <1>9 DEF KernelState, SameReady, SameEvents, SameControl, SameClock
  <2>2. Forever(u) = Forever(s) \cup {t} /\ Delayed(u) = Delayed(s) /\ Overflown(u) = Overflown(s)
    BY <1>5, <1>7, <2>1 DEF Forever, Delayed, Overflown
  <2> HIDE DEF u, t
  <2>3. CurrentLeaves(s, u)
    BY <1>2, <1>4, <1>5, <2>1, <2>2, LeavesTo DEF t
  <2> QED BY <2>3 DEF u
<1>10. CASE u = u2
  <2>1. /\ u \in KernelState /\ SameReady(timed, u) /\ SameEvents(timed, u) /\ SameControl(timed, u)
        /\ SameClock(timed, u) /\ u.xSuspendedTaskList = timed.xSuspendedTaskList
        /\ u.pxDelayedTaskList = timed.pxDelayedTaskList
        /\ u.pxOverflowDelayedTaskList = overflow
    BY <1>6, <1>7, <1>10 DEF KernelState, SameReady, SameEvents, SameControl, SameClock
  <2>2. Forever(u) = Forever(s) /\ Delayed(u) = Delayed(s) /\ Overflown(u) = Overflown(s) \cup {t}
    BY <1>5, <1>6, <1>7, <2>1 DEF Forever, Delayed, Overflown, SameBlocked
  <2>3. SameReady(r, u) /\ SameEvents(r, u) /\ SameControl(r, u) /\ SameClock(r, u)
    BY <1>6, <2>1 DEF SameReady, SameEvents, SameControl, SameClock
  <2> HIDE DEF u, t
  <2>4. CurrentLeaves(s, u)
    BY <1>2, <1>4, <1>5, <2>1, <2>2, <2>3, LeavesTo DEF t
  <2> QED BY <2>4 DEF u
<1>11. CASE u = u3
  <2>1. /\ u \in KernelState /\ SameReady(timed, u) /\ SameEvents(timed, u) /\ SameControl(timed, u)
        /\ SameClock(timed, u) /\ u.xSuspendedTaskList = timed.xSuspendedTaskList /\ u.pxDelayedTaskList = delayed
        /\ u.pxOverflowDelayedTaskList = timed.pxOverflowDelayedTaskList
    BY <1>6, <1>7, <1>8, <1>11 DEF KernelState, SameReady, SameEvents, SameControl, SameClock
  <2>2. Forever(u) = Forever(s) /\ Delayed(u) = Delayed(s) \cup {t} /\ Overflown(u) = Overflown(s)
    BY <1>5, <1>6, <1>7, <2>1 DEF Forever, Delayed, Overflown, SameBlocked
  <2>3. SameReady(r, u) /\ SameEvents(r, u) /\ SameControl(r, u) /\ SameClock(r, u)
    BY <1>6, <2>1 DEF SameReady, SameEvents, SameControl, SameClock
  <2> HIDE DEF u, t
  <2>4. CurrentLeaves(s, u)
    BY <1>2, <1>4, <1>5, <2>1, <2>2, <2>3, LeavesTo DEF t
  <2> QED BY <2>4 DEF u
<1> QED BY <1>1, <1>9, <1>10, <1>11

\* The running task is placed on event list e.
Placed(s, r, e) ==
  /\ Good(r) /\ Ready(r) = Ready(s) \ {s.pxCurrentTCB} /\ SameControl(s, r)
  /\ \A o \in EventLists : Waiting(r, o) = IF o = e THEN Waiting(s, o) \cup {s.pxCurrentTCB}
                                                    ELSE Waiting(s, o)
  /\ Pending(r) = Pending(s) /\ SameClock(s, r)

LEMMA PlaceOnEventListPlaces ==
  ASSUME NEW s, Good(s), s.pxCurrentTCB \in Ready(s) \cap Tasks, NEW e \in EventLists,
         NEW ticks \in Int
  PROVE  Placed(s, PlaceOnEventList(s, e, ticks), e)
<1> DEFINE t == s.pxCurrentTCB
           value == [x \in AllTasks |-> 0 - Priority[x]]
           list == SortedInsert(s.events[e], t, value)
           events == [s.events EXCEPT ![e] = list]
           v == [s EXCEPT !.events = events]
           r == AddCurrentTaskToDelayedList(v, ticks, TRUE)
<1>1. PlaceOnEventList(s, e, ticks) = r
  <2>1. [s EXCEPT !.events[e] = list] = v
    OBVIOUS
  <2> QED BY <2>1 DEF PlaceOnEventList
<1>2. /\ s \in KernelState /\ s.events \in [EventLists -> TaskLists] /\ s.events[e] \in TaskLists
      /\ \A o \in EventLists : t \notin Waiting(s, o)
      /\ t \notin Pending(s) /\ t \in Tasks
  BY Fields DEF Good, EventItems
<1>3. list \in TaskLists /\ Members(list) = Waiting(s, e) \cup {t}
  <2> HIDE DEF t, value
  <2> QED BY <1>2, ListTypes, SortedInsertItems DEF Waiting
<1> HIDE DEF list, t
<1>4. events \in [EventLists -> TaskLists] /\ \A o \in EventLists : events[o] = IF o = e THEN list ELSE s.events[o]
  BY <1>2, <1>3
<1> HIDE DEF events
<1>5. /\ v \in KernelState /\ SameReady(s, v) /\ SameBlocked(s, v) /\ SameControl(s, v)
      /\ SameClock(s, v)
      /\ v.events = events /\ v.xPendingReadyList = s.xPendingReadyList
  BY <1>2, <1>4 DEF KernelState, SameReady, SameBlocked, SameControl, SameClock
<1> HIDE DEF v
<1>6. StateItems(v) /\ TopExact(v) /\ Ready(v) = Ready(s) /\ v.pxCurrentTCB = t
  <2>1. /\ \A p \in Priorities : ReadyAt(v, p) = ReadyAt(s, p)
        /\ Ready(v) = Ready(s) /\ v.uxTopReadyPriority = s.uxTopReadyPriority
        /\ Delayed(v) = Delayed(s) /\ Overflown(v) = Overflown(s) /\ Forever(v) = Forever(s)
    BY <1>5, SameMembers DEF SameReady
  <2>2. StateItems(v)
    BY <2>1 DEF Good, StateItems
  <2>3. TopExact(v)
    BY <2>1 DEF Good, TopExact
  <2> QED BY <1>5, <2>1, <2>2, <2>3 DEF SameControl, t
<1>7. CurrentLeaves(v, r)
  <2>1. v.pxCurrentTCB \in Ready(v) \cap Tasks
    BY <1>6 DEF t
  <2> QED BY <1>5, <1>6, <2>1, AddCurrentTaskLeaves
<1> HIDE DEF r
<1>8. /\ r \in KernelState /\ StateItems(r) /\ TopExact(r) /\ Ready(r) = Ready(s) \ {t}
      /\ SameEvents(v, r) /\ SameControl(v, r) /\ SameClock(v, r)
  BY <1>6, <1>7 DEF CurrentLeaves
<1>9. /\ \A o \in EventLists : Waiting(r, o) = IF o = e THEN Waiting(s, o) \cup {t} ELSE Waiting(s, o)
      /\ Pending(r) = Pending(s)
  BY <1>3, <1>4, <1>5, <1>8 DEF Waiting, Pending, SameEvents
<1>10. EventItems(r)
  BY <1>2, <1>8, <1>9 DEF Good, EventItems
<1>11. SameControl(s, r) /\ SameClock(s, r)
  BY <1>5, <1>8 DEF SameControl, SameClock
<1>12. Placed(s, r, e)
  BY <1>8, <1>9, <1>10, <1>11 DEF Placed, Good, t
<1> QED BY <1>1, <1>12

\* Task t, the first that waits on event list e, receives its event: it becomes
\* ready, with the scheduler suspended when that is resumed.
Woken(s, r, t) ==
  /\ Good(r) /\ r.pxCurrentTCB = s.pxCurrentTCB /\ r.uxSchedulerSuspended = s.uxSchedulerSuspended
  /\ \A o \in EventLists : Waiting(r, o) = Waiting(s, o) \ {t}
  /\ r.xYieldPending = (s.xYieldPending \/ Priority[t] > Priority[s.pxCurrentTCB])
  /\ IF s.uxSchedulerSuspended = 0
       THEN Ready(r) = Ready(s) \cup {t} /\ Pending(r) = Pending(s) /\ BlockedLess(s, r, {t})
       ELSE Ready(r) = Ready(s) /\ Pending(r) = Pending(s) \cup {t} /\ BlockedLess(s, r, {})
  /\ SameTime(s, r) /\ SamePended(s, r) /\ (SortedLists(s) => SortedLists(r))

LEMMA RemoveFromEventListWakes ==
  ASSUME NEW s, Good(s), NEW e \in EventLists, s.events[e] # <<>>
  PROVE  \E t \in Waiting(s, e) : Woken(s, RemoveFromEventList(s, e), t)
<1> DEFINE t == Head(s.events[e])
           list == Tail(s.events[e])
           higher == Priority[t] > Priority[s.pxCurrentTCB]
           events == [s.events EXCEPT ![e] = list]
           yield == s.xYieldPending \/ HigherWoken(s, e)
           u == [s EXCEPT !.events = events, !.xYieldPending = yield]
           v == RemoveFromBlocked(u, t)
           pending == Append(u.xPendingReadyList, t)
           r1 == AddToReady(v, t)
           r2 == [u EXCEPT !.xPendingReadyList = pending]
           r == RemoveFromEventList(s, e)
<1>1. r = IF s.uxSchedulerSuspended = 0 THEN r1 ELSE r2
  <2>1. u.uxSchedulerSuspended = s.uxSchedulerSuspended
    OBVIOUS
  <2> QED BY <2>1 DEF RemoveFromEventList
<1>2. /\ s \in KernelState /\ s.events \in [EventLists -> TaskLists] /\ s.events[e] \in TaskLists
      /\ s.xYieldPending \in BOOLEAN
  BY Fields DEF Good
<1>3. t \in Tasks /\ t \in Waiting(s, e) /\ list \in TaskLists /\ Members(list) = Waiting(s, e) \ {t}
  BY <1>2, ListTypes, TailItems DEF Waiting
<1>4. /\ t \in AllTasks /\ t \notin Ready(s) /\ t \notin Pending(s)
      /\ \A o \in EventLists : o # e => t \notin Waiting(s, o)
  BY <1>3, Basics DEF Good, EventItems
<1> HIDE DEF t, list
<1>5. /\ events \in [EventLists -> TaskLists] /\ yield \in BOOLEAN
      /\ \A o \in EventLists : events[o] = IF o = e THEN list ELSE s.events[o]
  BY <1>2, <1>3
<1>11. yield <=> s.xYieldPending \/ higher
  BY DEF HigherWoken, t
<1> HIDE DEF events, yield
<1>6. /\ u \in KernelState /\ SameReady(s, u) /\ SameBlocked(s, u) /\ SameTime(s, u)
      /\ u.events = events /\ u.xPendingReadyList = s.xPendingReadyList
      /\ u.pxCurrentTCB = s.pxCurrentTCB /\ u.uxSchedulerSuspended = s.uxSchedulerSuspended
      /\ u.xYieldPending = yield /\ SamePended(s, u)
  BY <1>2, <1>5 DEF KernelState, SameReady, SameBlocked, SameTime, SamePended
<1> HIDE DEF u
<1>7. /\ \A o \in EventLists : Waiting(u, o) = Waiting(s, o) \ {t}
      /\ Pending(u) = Pending(s)
      /\ \A p \in Priorities : ReadyAt(u, p) = ReadyAt(s, p)
      /\ Ready(u) = Ready(s) /\ u.uxTopReadyPriority = s.uxTopReadyPriority
      /\ Delayed(u) = Delayed(s) /\ Overflown(u) = Overflown(s) /\ Forever(u) = Forever(s)
  <2>1. \A o \in EventLists : Waiting(u, o) = IF o = e THEN Members(list) ELSE Waiting(s, o)
    BY <1>5, <1>6 DEF Waiting
  <2>2. Pending(u) = Pending(s)
    BY <1>6 DEF Pending
  <2> QED BY <1>3, <1>4, <1>6, <2>1, <2>2, SameMembers DEF SameReady
<1>8. Good(u)
  <2>1. StateItems(u)
    BY <1>7 DEF Good, StateItems
  <2>2. EventItems(u)
    BY <1>7 DEF Good, EventItems
  <2>3. TopExact(u)
    BY <1>7 DEF Good, TopExact
  <2> QED BY <1>6, <2>1, <2>2, <2>3 DEF Good
<1>9. CASE s.uxSchedulerSuspended = 0
  <2>1. /\ v \in KernelState /\ BlockedLess(u, v, {t}) /\ (SortedLists(u) => SortedLists(v))
        /\ SameReady(u, v) /\ SameEvents(u, v) /\ SameTime(u, v) /\ SameControl(u, v)
    BY <1>6, RemoveFromBlockedRemoves
  <2> HIDE DEF v
  <2>2. /\ r1 \in KernelState /\ ReadyAdds(v, r1, {t})
        /\ SameBlocked(v, r1) /\ SameEvents(v, r1) /\ SameTime(v, r1) /\ SameControl(v, r1)
    BY <1>4, <1>7, <2>1, AddToReadyAdds, SameMembers
  <2> HIDE DEF r1
  <2>3. Unblocked(u, r1, {t})
    <3>1. ReadyAdds(u, r1, {t})
      BY <2>1, <2>2, SameMembers DEF ReadyAdds, SameReady
    <3>2. BlockedLess(u, r1, {t})
      BY <2>1, <2>2, SameMembers DEF BlockedLess
    <3>3. EventsLess(u, r1, {t})
      BY <1>4, <1>7, <2>1, <2>2, SameMembers DEF EventsLess
    <3>4. SameTime(u, r1) /\ SameControl(u, r1)
      BY <2>1, <2>2, SamesCompose
    <3>5. SortedLists(u) => SortedLists(r1)
      BY <2>1, <2>2, SameSorted
    <3> QED BY <2>2, <3>1, <3>2, <3>3, <3>4, <3>5 DEF Unblocked
  <2>4. Good(r1) /\ Ready(r1) = Ready(u) \cup {t}
    <3>1. {t} \in SUBSET Tasks /\ {t} \cap Ready(u) = {}
      BY <1>3, <1>4, <1>7
    <3> QED BY <1>8, <2>3, <3>1, UnblockedGood
  <2>5. EventsLess(u, r1, {t}) /\ SameControl(u, r1)
    BY <2>3 DEF Unblocked
  <2>6. /\ BlockedLess(s, r1, {t}) /\ SameTime(s, r1) /\ SamePended(s, r1)
        /\ (SortedLists(s) => SortedLists(r1))
    <3>1. SameTime(s, r1) /\ SamePended(s, r1)
      BY <1>6, <2>3 DEF Unblocked, SameTime, SameControl, SamePended
    <3>2. SortedLists(s) => SortedLists(r1)
      BY <1>6, <2>3, SameSorted DEF Unblocked
    <3> QED BY <1>7, <2>3, <3>1, <3>2 DEF Unblocked, BlockedLess
  <2>7. Woken(s, r1, t)
    BY <1>4, <1>5, <1>6, <1>7, <1>9, <1>11, <2>4, <2>5, <2>6 DEF Woken, EventsLess, SameControl
  <2> QED BY <1>1, <1>3, <1>9, <2>7
<1>10. CASE s.uxSchedulerSuspended # 0
  <2>1. pending \in TaskLists /\ Members(pending) = Pending(s) \cup {t}
    <3>1. u.xPendingReadyList \in TaskLists /\ Members(u.xPendingReadyList) = Pending(s)
      BY <1>6, <1>7, Fields DEF Pending
    <3> QED BY <1>3, <1>4, <3>1, ListTypes, AppendItems
  <2> HIDE DEF pending
  <2>2. /\ r2 \in KernelState /\ SameReady(u, r2) /\ SameBlocked(u, r2) /\ SameControl(u, r2)
        /\ SameTime(u, r2) /\ r2.events = u.events /\ r2.xPendingReadyList = pending
    BY <1>6, <2>1 DEF KernelState, SameReady, SameBlocked, SameControl, SameTime
  <2> HIDE DEF r2
  <2>3. /\ \A o \in EventLists : Waiting(r2, o) = Waiting(u, o)
        /\ Pending(r2) = Pending(s) \cup {t}
        /\ \A p \in Priorities : ReadyAt(r2, p) = ReadyAt(u, p)
        /\ Ready(r2) = Ready(u) /\ r2.uxTopReadyPriority = u.uxTopReadyPriority
        /\ Delayed(r2) = Delayed(u) /\ Overflown(r2) = Overflown(u) /\ Forever(r2) = Forever(u)
    BY <2>1, <2>2, SameMembers DEF SameReady, Waiting, Pending
  <2>4. Good(r2)
    <3>1. StateItems(r2)
      BY <1>8, <2>3 DEF Good, StateItems
    <3>2. EventItems(r2)
      BY <1>4, <1>7, <1>8, <2>3 DEF Good, EventItems
    <3>3. TopExact(r2)
      BY <1>8, <2>3 DEF Good, TopExact
    <3> QED BY <2>2, <3>1, <3>2, <3>3 DEF Good
  <2>5. /\ BlockedLess(s, r2, {}) /\ SameTime(s, r2) /\ SamePended(s, r2)
        /\ (SortedLists(s) => SortedLists(r2))
    <3>1. SameTime(s, r2) /\ SamePended(s, r2)
      BY <1>6, <2>2 DEF SameTime, SameControl, SamePended
    <3>2. SortedLists(s) => SortedLists(r2)
      BY <1>6, <2>2, SameSorted
    <3> QED BY <1>7, <2>3, <3>1, <3>2 DEF BlockedLess
  <2>6. Woken(s, r2, t)
    BY <1>5, <1>6, <1>7, <1>10, <1>11, <2>2, <2>3, <2>4, <2>5 DEF Woken, SameControl
  <2> QED BY <1>1, <1>3, <1>10, <2>6
<1> QED BY <1>9, <1>10

\* vTaskSwitchContext chooses a ready task of the highest priority, if it may.
Switched(s, r) ==
  /\ Good(r) /\ Ready(r) = Ready(s) /\ Pending(r) = Pending(s)
  /\ \A e \in EventLists : Waiting(r, e) = Waiting(s, e)
  /\ r.uxSchedulerSuspended = s.uxSchedulerSuspended
  /\ SameBlocked(s, r) /\ SameTime(s, r) /\ SamePended(s, r)
  /\ s.uxSchedulerSuspended > 0 => r.pxCurrentTCB = s.pxCurrentTCB /\ r.xYieldPending
  /\ ~(s.uxSchedulerSuspended > 0) =>
       /\ r.pxCurrentTCB \in Ready(r)
       /\ \A t \in Ready(r) : Priority[t] <= Priority[r.pxCurrentTCB]

LEMMA SwitchContextSwitches ==
  ASSUME NEW s, Good(s)
  PROVE  Switched(s, SwitchContext(s))
<1> DEFINE p == Max(s.uxTopReadyPriority)
           list == NextEntry(s.pxReadyTasksLists[p])
           lists == [s.pxReadyTasksLists EXCEPT ![p] = list]
           t == list.items[list.index]
           r1 == [s EXCEPT !.xYieldPending = TRUE]
           r2 == [s EXCEPT !.xYieldPending = FALSE, !.pxReadyTasksLists = lists, !.pxCurrentTCB = t]
           r == SwitchContext(s)
<1>1. s \in KernelState /\ s.pxReadyTasksLists \in [Priorities -> ReadyLists]
  BY Fields DEF Good
<1>2. CASE s.uxSchedulerSuspended > 0
  <2>1. r = r1
    BY <1>2 DEF SwitchContext
  <2>2. /\ r1 \in KernelState /\ SameReady(s, r1) /\ SameBlocked(s, r1) /\ SameEvents(s, r1)
        /\ r1.uxSchedulerSuspended = s.uxSchedulerSuspended
        /\ r1.pxCurrentTCB = s.pxCurrentTCB /\ r1.xYieldPending
        /\ SameTime(s, r1) /\ SamePended(s, r1)
    BY <1>1 DEF KernelState, SameReady, SameBlocked, SameEvents, SameTime, SamePended
  <2> HIDE DEF r1
  <2>3. Good(r1)
    BY <2>2, GoodLists, SameMembers
  <2> QED BY <1>2, <2>1, <2>2, <2>3, SameMembers DEF Switched
<1>3. CASE ~(s.uxSchedulerSuspended > 0)
  <2>1. r = r2
    BY <1>3 DEF SwitchContext
  <2>2. /\ s.uxTopReadyPriority \in SUBSET (0 .. 31) /\ s.uxTopReadyPriority # {}
        /\ s.uxTopReadyPriority \subseteq Priorities
    <3>1. Idle \in Ready(s)
      BY <1>1, StateMembers, Basics DEF Good, StateItems
    <3>2. \E q \in Priorities : ReadyAt(s, q) # {}
      BY <1>1, <3>1, Basics, StateMembers
    <3> QED BY <1>1, <3>2, Fields, Basics DEF Good, TopExact
  <2>3. p \in s.uxTopReadyPriority /\ \A q \in s.uxTopReadyPriority : p >= q
    <3>1. \E top \in s.uxTopReadyPriority : \A q \in s.uxTopReadyPriority : top >= q
      <4>1. 31 \in Nat
        OBVIOUS
      <4> QED BY <2>2, <4>1, GreatestNatural
    <3> QED BY <3>1 DEF Max
  <2> HIDE DEF p
  <2>4. p \in Priorities /\ ReadyAt(s, p) # {} /\ s.pxReadyTasksLists[p] \in ReadyLists
    BY <1>1, <2>2, <2>3 DEF Good, TopExact
  <2>5. /\ list \in ReadyLists /\ list.items = s.pxReadyTasksLists[p].items
        /\ list.index \in 1 .. Len(list.items)
    <3>1. s.pxReadyTasksLists[p].items # <<>>
      BY <1>1, <2>4, StateMembers
    <3> QED BY <2>4, <3>1, ListTypes, NextEntryItems
  <2> HIDE DEF list
  <2>6. t \in ReadyAt(s, p)
    BY <2>5 DEF ReadyAt, Members
  <2>7. t \in AllTasks /\ t \in Ready(s) /\ Priority[t] = p
    BY <1>1, <2>4, <2>6, StateMembers DEF Good, StateItems
  <2> HIDE DEF t
  <2>8. /\ lists \in [Priorities -> ReadyLists]
        /\ \A q \in Priorities : lists[q] = IF q = p THEN list ELSE s.pxReadyTasksLists[q]
    BY <1>1, <2>4, <2>5
  <2> HIDE DEF lists
  <2>9. /\ r2 \in KernelState /\ SameBlocked(s, r2) /\ SameEvents(s, r2)
        /\ r2.uxSchedulerSuspended = s.uxSchedulerSuspended /\ r2.pxReadyTasksLists = lists
        /\ r2.uxTopReadyPriority = s.uxTopReadyPriority /\ r2.pxCurrentTCB = t
        /\ SameTime(s, r2) /\ SamePended(s, r2)
    BY <1>1, <2>7, <2>8 DEF KernelState, SameBlocked, SameEvents, SameTime, SamePended
  <2> HIDE DEF r2
  <2>10. /\ \A q \in Priorities : ReadyAt(r2, q) = ReadyAt(s, q)
         /\ Ready(r2) = Ready(s)
    <3>1. \A q \in Priorities : ReadyAt(r2, q) = ReadyAt(s, q)
      BY <2>5, <2>8, <2>9 DEF ReadyAt
    <3>2. /\ Ready(r2) = UNION {ReadyAt(r2, q) : q \in Priorities}
          /\ Ready(s) = UNION {ReadyAt(s, q) : q \in Priorities}
      BY DEF Ready, ReadyAt
    <3> QED BY <3>1, <3>2
  <2>11. /\ Delayed(r2) = Delayed(s) /\ Overflown(r2) = Overflown(s) /\ Forever(r2) = Forever(s)
         /\ \A e \in EventLists : Waiting(r2, e) = Waiting(s, e)
         /\ Pending(r2) = Pending(s)
    BY <2>9, SameMembers
  <2>12. Good(r2)
    <3>1. StateItems(r2)
      BY <2>10, <2>11 DEF Good, StateItems
    <3>2. EventItems(r2)
      BY <2>10, <2>11 DEF Good, EventItems
    <3>3. TopExact(r2)
      BY <2>9, <2>10 DEF Good, TopExact
    <3> QED BY <2>9, <3>1, <3>2, <3>3 DEF Good
  <2>13. \A x \in Ready(r2) : Priority[x] <= p
    <3>1. ASSUME NEW x \in Ready(r2)
          PROVE  Priority[x] <= p
      <4>1. x \in Ready(s) /\ x \in AllTasks
        BY <2>10 DEF Good, StateItems
      <4>2. PICK q \in Priorities : x \in ReadyAt(s, q)
        BY <1>1, <4>1, StateMembers
      <4>3. q \in s.uxTopReadyPriority /\ Priority[x] = q
        BY <4>2 DEF Good, TopExact, StateItems
      <4>4. p >= q /\ p \in Nat /\ q \in Nat
        BY <2>3, <2>4, <4>2, <4>3, Basics
      <4> QED BY <4>3, <4>4
    <3> QED BY <3>1
  <2>14. r2.pxCurrentTCB \in Ready(r2) /\ \A x \in Ready(r2) : Priority[x] <= Priority[r2.pxCurrentTCB]
    BY <2>7, <2>9, <2>10, <2>13
  <2> QED BY <1>3, <2>1, <2>9, <2>10, <2>11, <2>12, <2>14 DEF Switched
<1> QED BY <1>2, <1>3

(* The invariant.                                                          *)

\* Where a task is in a call: with the scheduler suspended; with interrupts on
\* and the scheduler running; on its way out of a call; with a queue locked.
HoldingPcs == {"delay", "lock", "check", "test", "place", "unlockTx", "wakeTx",
               "unlockRx", "wakeRx", "resume"}
RunningPcs == {"app", "try", "suspend", "yield", "expired", "return"}
EndingPcs == {"unlockTx", "wakeTx", "unlockRx", "wakeRx", "resume", "unwind", "yield"}
LockedPcs == {"check", "test", "place", "unlockTx", "wakeTx", "unlockRx", "wakeRx"}

TaskState ==
  [pc : HoldingPcs \cup RunningPcs \cup {"unwind"}, call : QueueCalls \cup DelayCalls \cup {NoCall},
   ticks : Int, xEntryTimeSet : BOOLEAN, xOverflowCount : Nat, xTimeOnEntering : Int,
   after : {"none", "blocked", "retry", "expired", "delayed"}]
QueueState == [uxMessagesWaiting : Int, cRxLock : Int, cTxLock : Int]

Types ==
  /\ Good(k) /\ queue \in [Queues -> QueueState] /\ task \in [AllTasks -> TaskState]
  /\ pendSV \in BOOLEAN

\* What follows xTaskResumeAll is settled before it, and fits the call.
Consistent(r) ==
  /\ r.pc \in {"try", "lock", "expired"} \cup LockedPcs => r.call \in QueueCalls
  /\ r.pc \in {"unlockTx", "wakeTx", "unlockRx", "wakeRx"} => r.after \in {"blocked", "retry", "expired"}
  /\ r.pc \in {"resume", "unwind", "yield"} =>
       \/ r.after \in {"blocked", "retry", "expired"} /\ r.call \in QueueCalls
       \/ r.after = "delayed" /\ r.call \in DelayCalls
  /\ r.pc = "suspend" => r.call \in QueueCalls \cup DelayCalls
  /\ r.pc = "delay" => r.call \in DelayCalls
  /\ r.pc = "app" => ~r.xEntryTimeSet

\* Only the running task is where the scheduler is suspended.
Control ==
  /\ k.uxSchedulerSuspended = IF task[k.pxCurrentTCB].pc \in HoldingPcs THEN 1 ELSE 0
  /\ \A t \in AllTasks \ {k.pxCurrentTCB} : task[t].pc \in RunningPcs
  /\ \A t \in AllTasks : Consistent(task[t])
  /\ task[Idle].pc = "app"

\* The running task has left the ready lists only to give way.
Away(r) == r.pc \in EndingPcs /\ r.after \in {"blocked", "delayed"}
CurrentReady ==
  \/ k.pxCurrentTCB \in Ready(k) \/ Away(task[k.pxCurrentTCB])
  \/ pendSV /\ k.uxSchedulerSuspended = 0

Scheduling == Types /\ Control /\ CurrentReady

\* Only the queue of the running task's call is locked, from prvLockQueue to
\* the end of prvUnlockQueue.
Locks ==
  LET r == task[k.pxCurrentTCB] IN
  /\ \A q \in Queues : /\ queue[q].cTxLock >= queueUNLOCKED /\ queue[q].cRxLock >= queueUNLOCKED
                       /\ ~(r.pc \in LockedPcs /\ r.call.queue = q) =>
                            queue[q].cTxLock = queueUNLOCKED /\ queue[q].cRxLock = queueUNLOCKED
  /\ r.pc \in LockedPcs => queue[r.call.queue].cRxLock # queueUNLOCKED
  /\ r.pc \in LockedPcs =>
       (queue[r.call.queue].cTxLock = queueUNLOCKED <=> r.pc \in {"unlockRx", "wakeRx"})

\* A waiting task is in the call that its event list is for, and will look at
\* the queue again when it is woken.
Ops == {"send", "receive"}
EventOf(op, q) == IF op = "send" THEN ToSend(q) ELSE ToReceive(q)
Waits(r, op, q) ==
  /\ r.call.op = op /\ r.call.queue = q
  /\ r.pc = "try" \/ (r.pc \in EndingPcs /\ r.after = "blocked")
Waiters ==
  \A op \in Ops, q \in Queues : \A t \in Waiting(k, EventOf(op, q)) : Waits(task[t], op, q)

\* What the tasks that wait on a queue wait for: messages, or free places.  Those
\* that came while the queue is locked are yet to be told.
Supply(op, q) ==
  IF op = "send" THEN uxLength[q] - queue[q].uxMessagesWaiting ELSE queue[q].uxMessagesWaiting
LockOf(op, q) == IF op = "send" THEN queue[q].cRxLock ELSE queue[q].cTxLock
Untold(op, q) == IF LockOf(op, q) = queueUNLOCKED THEN 0 ELSE LockOf(op, q)
Told(op, q) == Supply(op, q) - Untold(op, q)

Supplied ==
  \A op \in Ops, q \in Queues :
    Waiting(k, EventOf(op, q)) # {} => Told(op, q) <= Cardinality(WillRetry(op, q))

\* A task that is about to wait has seen the queue unready since it locked it.
Placing ==
  LET r == task[k.pxCurrentTCB]
  IN r.pc = "place" => Told(r.call.op, r.call.queue) <= 0

Preempting ==
  (\E t \in Ready(k) : Priority[t] > Priority[k.pxCurrentTCB]) => pendSV \/ k.xYieldPending

KernelIInv == Scheduling /\ Locks /\ Waiters /\ Supplied /\ Placing /\ Preempting

-----------------------------------------------------------------------------
(* What a step keeps.                                                      *)

LEMMA CallFacts ==
  /\ \A c \in QueueCalls : c.op \in Ops /\ c.queue \in Queues /\ c.ticks \in Int /\ c.op # "delay"
  /\ \A c \in DelayCalls : c.op = "delay" /\ c.ticks \in Int /\ c.queue = "none"
  /\ \A t \in AllTasks : Calls[t] \subseteq QueueCalls \cup DelayCalls
  /\ Calls[Idle] = {}
<1>1. \A n \in TickType : n \in Int
  BY TickTypes
<1>2. /\ \A t \in AllTasks : Calls[t] \subseteq QueueCalls \cup DelayCalls
      /\ Calls[Idle] = {}
  BY KernelAssumption
<1> QED BY <1>1, <1>2 DEF QueueCalls, DelayCalls, Ops

LEMMA SchedulingFacts ==
  ASSUME Scheduling
  PROVE  /\ k \in KernelState /\ k.pxCurrentTCB \in AllTasks
         /\ \A t \in AllTasks : task[t] \in TaskState /\ Consistent(task[t])
         /\ \A q \in Queues : queue[q] \in QueueState
BY Fields DEF Scheduling, Types, Control, Good

\* A step of the running task.
LEMMA CurrentSteps ==
  ASSUME Scheduling, NEW t, t = k.pxCurrentTCB, NEW r \in TaskState, Consistent(r),
         task' = [task EXCEPT ![t] = r], Good(k'), k'.pxCurrentTCB = t,
         queue' \in [Queues -> QueueState], pendSV' \in BOOLEAN,
         k'.uxSchedulerSuspended = IF r.pc \in HoldingPcs THEN 1 ELSE 0,
         t = Idle => r.pc = "app",
         t \in Ready(k') \/ Away(r) \/ (pendSV' /\ k'.uxSchedulerSuspended = 0)
  PROVE  Scheduling'
<1>1. t \in AllTasks /\ task \in [AllTasks -> TaskState]
  BY SchedulingFacts DEF Scheduling, Types
<1>2. Types'
  BY <1>1 DEF Types
<1>3. task'[t] = r /\ \A x \in AllTasks \ {t} : task'[x] = task[x]
  BY <1>1
<1>4. Control'
  BY <1>1, <1>3, Basics DEF Scheduling, Control
<1>5. CurrentReady'
  BY <1>3 DEF CurrentReady
<1> QED BY <1>2, <1>4, <1>5 DEF Scheduling

\* A step of an interrupt, or of the running task where it stays.
LEMMA TasksStay ==
  ASSUME Scheduling, task' = task, Good(k'), k'.pxCurrentTCB = k.pxCurrentTCB,
         queue' \in [Queues -> QueueState], pendSV' \in BOOLEAN, pendSV => pendSV',
         k'.uxSchedulerSuspended = k.uxSchedulerSuspended, Ready(k) \subseteq Ready(k')
  PROVE  Scheduling'
<1>1. Types'
  BY DEF Scheduling, Types
<1>2. Control'
  BY DEF Scheduling, Control
<1>3. CurrentReady'
  BY DEF Scheduling, CurrentReady
<1> QED BY <1>1, <1>2, <1>3 DEF Scheduling

LEMMA PreemptingKept ==
  ASSUME Preempting, k'.pxCurrentTCB = k.pxCurrentTCB, pendSV => pendSV',
         k.xYieldPending => k'.xYieldPending \/ pendSV',
         \A t \in Ready(k') \ Ready(k) :
           Priority[t] > Priority[k.pxCurrentTCB] => k'.xYieldPending \/ pendSV'
  PROVE  Preempting'
BY DEF Preempting

\* The task may have left its event list, and goes on to where it is still a
\* task that waits, if it was one.
LEMMA WaitersKept ==
  ASSUME Scheduling, Waiters, NEW t \in AllTasks, NEW r, task' = [task EXCEPT ![t] = r],
         \A e \in EventLists : Waiting(k', e) \subseteq Waiting(k, e),
         t \in Ready(k) \/ (\A op \in Ops, q \in Queues : Waits(task[t], op, q) => Waits(r, op, q))
  PROVE  Waiters'
<1> SUFFICES ASSUME NEW op \in Ops, NEW q \in Queues, NEW x \in Waiting(k', EventOf(op, q))
             PROVE  Waits(task'[x], op, q)
  BY DEF Waiters, Waits
<1>1. EventOf(op, q) \in EventLists
  BY Basics DEF EventOf
<1>2. x \in Waiting(k, EventOf(op, q)) /\ Waits(task[x], op, q)
  BY <1>1 DEF Waiters
<1>3. x \in AllTasks /\ x \notin Ready(k)
  <2>1. x \in Tasks
    BY <1>1, <1>2, SchedulingFacts, StateMembers
  <2> QED BY <1>1, <1>2, <2>1, Basics DEF Scheduling, Types, Good, EventItems
<1>4. task'[x] = IF x = t THEN r ELSE task[x]
  BY <1>3 DEF Scheduling, Types
<1> QED BY <1>2, <1>3, <1>4

(* The tasks that will look at a queue again.                              *)

LEMMA Counts ==
  ASSUME NEW A \in SUBSET Tasks, NEW B \in SUBSET Tasks
  PROVE  /\ Cardinality(A) \in Nat /\ Cardinality(B) \in Nat
         /\ A \subseteq B => Cardinality(A) <= Cardinality(B)
         /\ \A t : A \ {t} \subseteq B => Cardinality(A) - 1 <= Cardinality(B)
         /\ \A t : t \notin A /\ A \cup {t} \subseteq B => Cardinality(A) + 1 <= Cardinality(B)
<1>1. IsFiniteSet(Tasks)
  BY KernelAssumption
<1>2. IsFiniteSet(A) /\ IsFiniteSet(B)
  BY <1>1, FS_Subset
<1>3. Cardinality(A) \in Nat /\ Cardinality(B) \in Nat
  BY <1>2, FS_CardinalityType
<1>4. A \subseteq B => Cardinality(A) <= Cardinality(B)
  BY <1>2, FS_Subset
<1>5. ASSUME NEW t, A \ {t} \subseteq B
      PROVE  Cardinality(A) - 1 <= Cardinality(B)
  <2>1. /\ IsFiniteSet(A \ {t})
        /\ Cardinality(A \ {t}) = IF t \in A THEN Cardinality(A) - 1 ELSE Cardinality(A)
    BY <1>2, FS_RemoveElement
  <2>2. Cardinality(A \ {t}) <= Cardinality(B)
    BY <1>2, <1>5, FS_Subset
  <2> QED BY <1>3, <2>1, <2>2
<1>6. ASSUME NEW t, t \notin A, A \cup {t} \subseteq B
      PROVE  Cardinality(A) + 1 <= Cardinality(B)
  <2>1. /\ IsFiniteSet(A \cup {t})
        /\ Cardinality(A \cup {t}) = Cardinality(A) + 1
    BY <1>2, <1>6, FS_AddElement
  <2>2. Cardinality(A \cup {t}) <= Cardinality(B)
    BY <1>2, <1>6, FS_Subset
  <2> QED BY <2>1, <2>2
<1> QED BY <1>3, <1>4, <1>5, <1>6

Retries(r, op, q) ==
  /\ r.call.op = op /\ r.call.queue = q
  /\ r.pc = "try" \/ (r.pc \in EndingPcs /\ r.after \in {"blocked", "retry"})

LEMMA WillRetryMembers ==
  ASSUME NEW op, NEW q
  PROVE  /\ WillRetry(op, q) \subseteq Tasks
         /\ \A t \in Tasks : t \in WillRetry(op, q) <=>
              /\ Retries(task[t], op, q)
              /\ t \notin Waiting(k, ToSend(q)) /\ t \notin Waiting(k, ToReceive(q))
<1>1. WillRetry(op, q) \subseteq Tasks
  BY DEF WillRetry
<1>2. ASSUME NEW t \in Tasks
      PROVE  t \in WillRetry(op, q) <=>
               /\ Retries(task[t], op, q)
               /\ t \notin Waiting(k, ToSend(q)) /\ t \notin Waiting(k, ToReceive(q))
  <2>1. t \in WillRetry(op, q) <=>
          /\ task[t].call.op = op /\ task[t].call.queue = q
          /\ t \notin Members(k.events[ToSend(q)]) /\ t \notin Members(k.events[ToReceive(q)])
          /\ \/ task[t].pc = "try"
             \/ task[t].pc \in EndingPcs /\ task[t].after \in {"blocked", "retry"}
    BY DEF WillRetry, EndingPcs
  <2> QED BY <2>1 DEF Retries, Waiting
<1> QED BY <1>1, <1>2

\* The same after a step.
LEMMA WillRetryMembersNext ==
  ASSUME NEW op, NEW q
  PROVE  /\ WillRetry(op, q)' \subseteq Tasks
         /\ \A t \in Tasks : t \in WillRetry(op, q)' <=>
              /\ Retries(task'[t], op, q)
              /\ t \notin Waiting(k', ToSend(q)) /\ t \notin Waiting(k', ToReceive(q))
<1>1. WillRetry(op, q)' \subseteq Tasks
  BY DEF WillRetry
<1>2. ASSUME NEW t \in Tasks
      PROVE  t \in WillRetry(op, q)' <=>
               /\ Retries(task'[t], op, q)
               /\ t \notin Waiting(k', ToSend(q)) /\ t \notin Waiting(k', ToReceive(q))
  <2>1. t \in WillRetry(op, q)' <=>
          /\ task'[t].call.op = op /\ task'[t].call.queue = q
          /\ t \notin Members(k'.events[ToSend(q)]) /\ t \notin Members(k'.events[ToReceive(q)])
          /\ \/ task'[t].pc = "try"
             \/ task'[t].pc \in EndingPcs /\ task'[t].after \in {"blocked", "retry"}
    BY DEF WillRetry, EndingPcs
  <2> QED BY <2>1 DEF Retries, Waiting
<1> QED BY <1>1, <1>2

LEMMA RetriersKept ==
  ASSUME Scheduling, NEW t \in AllTasks, NEW r, task' = [task EXCEPT ![t] = r],
         \A e \in EventLists : Waiting(k', e) \subseteq Waiting(k, e),
         NEW op \in Ops, NEW q \in Queues
  PROVE  /\ WillRetry(op, q) \ {t} \subseteq WillRetry(op, q)'
         /\ (Retries(task[t], op, q) => Retries(r, op, q)) => WillRetry(op, q) \subseteq WillRetry(op, q)'
<1>1. ToSend(q) \in EventLists /\ ToReceive(q) \in EventLists
  BY Basics
<1>2. \A x \in AllTasks : task'[x] = IF x = t THEN r ELSE task[x]
  BY DEF Scheduling, Types
<1>3. Tasks \subseteq AllTasks
  BY Basics
<1> QED BY <1>1, <1>2, <1>3, WillRetryMembers, WillRetryMembersNext

LEMMA ToldType ==
  ASSUME Types
  PROVE  \A op \in Ops, q \in Queues : Told(op, q) \in Int /\ Supply(op, q) \in Int /\ Untold(op, q) \in Int
<1> SUFFICES ASSUME NEW op \in Ops, NEW q \in Queues
             PROVE  Told(op, q) \in Int /\ Supply(op, q) \in Int /\ Untold(op, q) \in Int
  OBVIOUS
<1>1. queue[q] \in QueueState /\ uxLength[q] \in Int
  BY KernelAssumption DEF Types
<1>2. queue[q].uxMessagesWaiting \in Int /\ LockOf(op, q) \in Int
  BY <1>1 DEF QueueState, LockOf
<1>3. Supply(op, q) \in Int /\ Untold(op, q) \in Int
  BY <1>1, <1>2 DEF Supply, Untold
<1> QED BY <1>3 DEF Told

LEMMA ToldTypeNext ==
  ASSUME Types'
  PROVE  \A op \in Ops, q \in Queues : Told(op, q)' \in Int
<1> SUFFICES ASSUME NEW op \in Ops, NEW q \in Queues
             PROVE  Told(op, q)' \in Int
  OBVIOUS
<1>1. queue'[q] \in QueueState /\ uxLength[q] \in Int
  BY KernelAssumption DEF Types
<1>2. queue'[q].uxMessagesWaiting \in Int /\ LockOf(op, q)' \in Int
  BY <1>1 DEF QueueState, LockOf
<1>3. Supply(op, q)' \in Int /\ Untold(op, q)' \in Int
  BY <1>1, <1>2 DEF Supply, Untold
<1> QED BY <1>3 DEF Told

\* A step after which the tasks that wait on queue q for op are as well supplied.
Balanced(op, q) ==
  \/ Told(op, q)' <= 0
  \/ Waiting(k', EventOf(op, q)) = {}
  \/ /\ Waiting(k, EventOf(op, q)) # {}
     /\ \/ Told(op, q)' <= Told(op, q) /\ WillRetry(op, q) \subseteq WillRetry(op, q)'
        \/ /\ Told(op, q)' <= Told(op, q) - 1
           /\ \E t \in AllTasks : WillRetry(op, q) \ {t} \subseteq WillRetry(op, q)'
        \/ /\ Told(op, q)' <= Told(op, q) + 1
           /\ \E t \in AllTasks : /\ t \notin WillRetry(op, q)
                                  /\ WillRetry(op, q) \cup {t} \subseteq WillRetry(op, q)'

LEMMA SuppliedNext ==
  ASSUME Supplied, Types, Types', \A op \in Ops, q \in Queues : Balanced(op, q)
  PROVE  Supplied'
<1> SUFFICES ASSUME NEW op \in Ops, NEW q \in Queues, Waiting(k', EventOf(op, q)) # {}
             PROVE  Told(op, q)' <= Cardinality(WillRetry(op, q)')
  BY DEF Supplied, Waiting
<1> DEFINE A == WillRetry(op, q)
           B == WillRetry(op, q)'
           a == Told(op, q)
           b == Told(op, q)'
<1>1. a \in Int /\ b \in Int
  BY ToldType, ToldTypeNext
<1>2. A \in SUBSET Tasks /\ B \in SUBSET Tasks
  BY WillRetryMembers, WillRetryMembersNext
<1>3. Waiting(k, EventOf(op, q)) # {} => a <= Cardinality(A)
  BY DEF Supplied
<1>4. \/ b <= 0
      \/ /\ a <= Cardinality(A)
         /\ \/ b <= a /\ A \subseteq B
            \/ b <= a - 1 /\ \E t \in AllTasks : A \ {t} \subseteq B
            \/ b <= a + 1 /\ \E t \in AllTasks : t \notin A /\ A \cup {t} \subseteq B
  BY <1>3 DEF Balanced
<1> HIDE DEF A, B, a, b
<1>5. Cardinality(A) \in Nat /\ Cardinality(B) \in Nat
  BY <1>2, Counts
<1>6. CASE b <= 0
  BY <1>1, <1>5, <1>6 DEF b, B
<1>7. CASE a <= Cardinality(A) /\ b <= a /\ A \subseteq B
  <2>1. Cardinality(A) <= Cardinality(B)
    BY <1>2, <1>7, Counts
  <2>2. b <= Cardinality(B)
    BY <1>1, <1>5, <1>7, <2>1
  <2> QED BY <2>2 DEF b, B
<1>8. CASE a <= Cardinality(A) /\ b <= a - 1 /\ \E t \in AllTasks : A \ {t} \subseteq B
  <2>1. Cardinality(A) - 1 <= Cardinality(B)
    BY <1>2, <1>8, Counts
  <2>2. b <= Cardinality(B)
    BY <1>1, <1>5, <1>8, <2>1
  <2> QED BY <2>2 DEF b, B
<1>9. CASE /\ a <= Cardinality(A) /\ b <= a + 1
           /\ \E t \in AllTasks : t \notin A /\ A \cup {t} \subseteq B
  <2>1. Cardinality(A) + 1 <= Cardinality(B)
    BY <1>2, <1>9, Counts
  <2>2. b <= Cardinality(B)
    BY <1>1, <1>5, <1>9, <2>1
  <2> QED BY <2>2 DEF b, B
<1> QED BY <1>4, <1>6, <1>7, <1>8, <1>9

\* The running task goes on, and the lists of tasks that wait become no longer.
LEMMA OthersBalance ==
  ASSUME Scheduling, NEW t \in AllTasks, NEW r, task' = [task EXCEPT ![t] = r],
         \A e \in EventLists : Waiting(k', e) \subseteq Waiting(k, e),
         NEW op \in Ops, NEW q \in Queues,
         \/ Told(op, q)' <= Told(op, q) /\ (Retries(task[t], op, q) => Retries(r, op, q))
         \/ Told(op, q)' <= Told(op, q) - 1
  PROVE  Balanced(op, q)
<1>1. EventOf(op, q) \in EventLists
  BY Basics DEF EventOf
<1>2. Waiting(k, EventOf(op, q)) = {} => Waiting(k', EventOf(op, q)) = {}
  BY <1>1
<1>3. CASE Told(op, q)' <= Told(op, q) /\ (Retries(task[t], op, q) => Retries(r, op, q))
  <2>1. WillRetry(op, q) \subseteq WillRetry(op, q)'
    BY <1>3, RetriersKept
  <2> QED BY <1>2, <1>3, <2>1 DEF Balanced
<1>4. CASE Told(op, q)' <= Told(op, q) - 1
  <2>1. WillRetry(op, q) \ {t} \subseteq WillRetry(op, q)'
    BY RetriersKept
  <2> QED BY <1>2, <1>4, <2>1 DEF Balanced
<1> QED BY <1>3, <1>4

\* The first task on event list e is woken, if there is one.
WokenBy(s, r, e) ==
  /\ Good(r) /\ r.pxCurrentTCB = s.pxCurrentTCB /\ r.uxSchedulerSuspended = s.uxSchedulerSuspended
  /\ Ready(s) \subseteq Ready(r)
  /\ \A o \in EventLists : Waiting(r, o) \subseteq Waiting(s, o)
  /\ s.xYieldPending => r.xYieldPending
  /\ \A t \in Ready(r) \ Ready(s) : Priority[t] > Priority[s.pxCurrentTCB] => r.xYieldPending
  /\ \/ Waiting(s, e) = {}
     \/ \E h \in Waiting(s, e) : \A o \in EventLists : Waiting(r, o) = Waiting(s, o) \ {h}

LEMMA WakeWakes ==
  ASSUME NEW s, Good(s), NEW e \in EventLists
  PROVE  WokenBy(s, Wake(s, e), e)
<1>1. CASE s.events[e] = <<>>
  <2>1. Wake(s, e) = s /\ Waiting(s, e) = {}
    BY <1>1, StateMembers DEF Wake, Good
  <2> QED BY <2>1 DEF WokenBy
<1>2. CASE s.events[e] # <<>>
  <2> DEFINE r == RemoveFromEventList(s, e)
  <2>1. PICK h \in Waiting(s, e) : Woken(s, r, h)
    BY <1>2, RemoveFromEventListWakes
  <2>2. Wake(s, e) = r
    BY <1>2 DEF Wake
  <2> HIDE DEF r
  <2>3. WokenBy(s, r, e)
    BY <2>1 DEF Woken, WokenBy
  <2> QED BY <2>2, <2>3
<1> QED BY <1>1, <1>2

\* A task is woken for what comes.
LEMMA WakeBalances ==
  ASSUME Scheduling, Waiters, NEW op \in Ops, NEW q \in Queues, WokenBy(k, k', EventOf(op, q)),
         NEW t \in AllTasks, NEW r, task' = [task EXCEPT ![t] = r],
         Retries(task[t], op, q) => Retries(r, op, q), Told(op, q)' <= Told(op, q) + 1
  PROVE  Balanced(op, q)
<1> DEFINE e == EventOf(op, q)
<1>1. e \in EventLists /\ ToSend(q) \in EventLists /\ ToReceive(q) \in EventLists
  BY Basics DEF EventOf
<1>2. CASE Waiting(k, e) = {}
  BY <1>1, <1>2 DEF Balanced, WokenBy
<1>3. CASE Waiting(k, e) # {}
  <2>1. PICK h \in Waiting(k, e) : \A o \in EventLists : Waiting(k', o) = Waiting(k, o) \ {h}
    BY <1>3 DEF WokenBy
  <2>2. h \in Tasks /\ h \in AllTasks
    BY <1>1, <2>1, SchedulingFacts, StateMembers, Basics
  <2>3. Retries(task[h], op, q)
    BY <2>1 DEF Waiters, Waits, Retries
  <2>4. task'[h] = IF h = t THEN r ELSE task[h]
    BY <2>2 DEF Scheduling, Types
  <2>5. h \in WillRetry(op, q)'
    BY <1>1, <2>1, <2>2, <2>3, <2>4, WillRetryMembersNext
  <2>6. h \notin WillRetry(op, q)
    BY <2>1, <2>2, WillRetryMembers DEF EventOf
  <2>7. \A o \in EventLists : Waiting(k', o) \subseteq Waiting(k, o)
    BY DEF WokenBy
  <2>8. WillRetry(op, q) \subseteq WillRetry(op, q)'
    BY <2>7, RetriersKept
  <2> QED BY <1>3, <2>2, <2>5, <2>6, <2>8 DEF Balanced
<1> QED BY <1>2, <1>3

-----------------------------------------------------------------------------
(* The steps of a call that change only where the running task is.         *)

LEMMA Acting ==
  ASSUME KernelIInv, NEW t \in AllTasks, NEW pcs, At(t, pcs)
  PROVE  /\ t = k.pxCurrentTCB /\ ~pendSV /\ task[t].pc \in pcs
         /\ task[t] \in TaskState /\ Consistent(task[t]) /\ task \in [AllTasks -> TaskState]
         /\ t \in Ready(k) \/ Away(task[t])
         /\ task[t].pc # "app" => t \in Tasks
         /\ Good(k) /\ queue \in [Queues -> QueueState]
         /\ k.uxSchedulerSuspended = IF task[t].pc \in HoldingPcs THEN 1 ELSE 0
<1>1. t = k.pxCurrentTCB /\ ~pendSV /\ task[t].pc \in pcs
  BY DEF At
<1>2. /\ task[t] \in TaskState /\ Consistent(task[t]) /\ task \in [AllTasks -> TaskState]
      /\ Good(k) /\ queue \in [Queues -> QueueState]
  BY DEF KernelIInv, Scheduling, Types, Control
<1>3. t \in Ready(k) \/ Away(task[t])
  BY <1>1 DEF KernelIInv, Scheduling, CurrentReady
<1>4. task[t].pc # "app" => t \in Tasks
  BY DEF KernelIInv, Scheduling, Control, AllTasks
<1>5. k.uxSchedulerSuspended = IF task[t].pc \in HoldingPcs THEN 1 ELSE 0
  BY <1>1 DEF KernelIInv, Scheduling, Control
<1> QED BY <1>1, <1>2, <1>3, <1>4, <1>5

Pcs == HoldingPcs \cup RunningPcs \cup {"unwind"}
Afters == {"none", "blocked", "retry", "expired", "delayed"}

LEMMA GotoFields ==
  ASSUME NEW x \in TaskState, NEW pc \in Pcs, NEW r, r = [x EXCEPT !.pc = pc]
  PROVE  /\ r \in TaskState /\ r.pc = pc /\ r.call = x.call /\ r.after = x.after
         /\ r.xEntryTimeSet = x.xEntryTimeSet
BY DEF TaskState, Pcs

GoesOn(x, pc, after) == [x EXCEPT !.pc = pc, !.after = after]

LEMMA GotoAfterFields ==
  ASSUME NEW x \in TaskState, NEW pc \in Pcs, NEW after \in Afters, NEW r,
         r = GoesOn(x, pc, after)
  PROVE  /\ r \in TaskState /\ r.pc = pc /\ r.call = x.call /\ r.after = after
         /\ r.xEntryTimeSet = x.xEntryTimeSet
BY DEF TaskState, Pcs, Afters, GoesOn

LEMMA AtAppState ==
  /\ AtApp \in TaskState /\ Consistent(AtApp) /\ AtApp.pc = "app"
  /\ \A op \in Ops, q \in Queues : ~Retries(AtApp, op, q)
BY DEF AtApp, TaskState, Consistent, RunningPcs, LockedPcs, Retries, EndingPcs, NoCall, Call

LEMMA OwnSteps ==
  ASSUME KernelIInv, NEW t \in Tasks, t = k.pxCurrentTCB, t \in Ready(k),
         NEW r \in TaskState, Consistent(r), task' = [task EXCEPT ![t] = r],
         UNCHANGED <<k, queue, pendSV>>,
         r.pc \in HoldingPcs <=> task[t].pc \in HoldingPcs,
         r.pc \in LockedPcs <=> task[t].pc \in LockedPcs,
         r.pc \in LockedPcs => r.call = task[t].call,
         r.pc \notin {"unlockRx", "wakeRx"}, task[t].pc \notin {"unlockRx", "wakeRx"},
         \A op \in Ops, q \in Queues :
           Retries(task[t], op, q) /\ ~Retries(r, op, q) => Told(op, q) <= 0,
         r.pc = "place" => Told(r.call.op, r.call.queue) <= 0
  PROVE  KernelIInv'
<1>1. /\ Scheduling /\ Types /\ Locks /\ Waiters /\ Supplied /\ Preempting
      /\ t \in AllTasks /\ t # Idle /\ task'[t] = r
      /\ \A e \in EventLists : Waiting(k', e) = Waiting(k, e)
  BY Basics DEF KernelIInv, Scheduling, Types
<1>2. \A op, q : Told(op, q)' = Told(op, q)
  BY DEF Told, Supply, Untold, LockOf
<1>3. k'.uxSchedulerSuspended = IF r.pc \in HoldingPcs THEN 1 ELSE 0
  BY <1>1 DEF Scheduling, Control
<1>4. Scheduling'
  BY <1>1, <1>3, CurrentSteps DEF Types
<1>5. Locks'
  <2>1. \A q \in Queues : (r.pc \in LockedPcs /\ r.call.queue = q) =>
                           (task[t].pc \in LockedPcs /\ task[t].call.queue = q)
    OBVIOUS
  <2>2. \A q \in Queues : (task[t].pc \in LockedPcs /\ task[t].call.queue = q) =>
                           (r.pc \in LockedPcs /\ r.call.queue = q)
    OBVIOUS
  <2> QED BY <1>1, <2>1, <2>2 DEF Locks
<1>6. Waiters'
  BY <1>1, WaitersKept
<1>7. Supplied'
  <2>1. ASSUME NEW op \in Ops, NEW q \in Queues
        PROVE  Balanced(op, q)
    <3>1. CASE Told(op, q) <= 0
      BY <1>2, <3>1 DEF Balanced
    <3>2. CASE Retries(task[t], op, q) => Retries(r, op, q)
      <4>1. Told(op, q)' <= Told(op, q)
        BY <1>1, <1>2, ToldType
      <4> QED BY <1>1, <3>2, <4>1, OthersBalance
    <3> QED BY <3>1, <3>2
  <2> QED BY <1>1, <1>4, <2>1, SuppliedNext DEF Scheduling
<1>8. Placing'
  BY <1>1, <1>2 DEF Placing
<1>9. Preempting'
  BY <1>1 DEF Preempting
<1> QED BY <1>4, <1>5, <1>6, <1>7, <1>8, <1>9 DEF KernelIInv

\* A queue that the caller finds unready has nothing for the tasks that wait.
LEMMA UnreadyTold ==
  ASSUME Types, Locks, NEW c \in QueueCalls,
         IF c.op = "send" THEN queue[c.queue].uxMessagesWaiting >= uxLength[c.queue]
                          ELSE queue[c.queue].uxMessagesWaiting <= 0
  PROVE  Told(c.op, c.queue) <= 0
<1> DEFINE op == c.op
           q == c.queue
<1>1. op \in Ops /\ q \in Queues
  BY CallFacts
<1>2. queue[q] \in QueueState /\ uxLength[q] \in Int
  BY <1>1, KernelAssumption DEF Types
<1>3. queue[q].uxMessagesWaiting \in Int /\ LockOf(op, q) \in Int /\ LockOf(op, q) >= -1
  BY <1>1, <1>2 DEF QueueState, LockOf, Locks, queueUNLOCKED
<1>4. Untold(op, q) \in Int /\ Untold(op, q) >= 0
  BY <1>3 DEF Untold, queueUNLOCKED
<1>5. Supply(op, q) \in Int /\ Supply(op, q) <= 0
  BY <1>2, <1>3 DEF Supply
<1> QED BY <1>4, <1>5 DEF Told

LEMMA NotReadyKeeps ==
  ASSUME KernelIInv, NEW t \in Tasks, At(t, {"app", "try"}), NEW c \in QueueCalls,
         task[t].pc # "app" => c = task[t].call, Told(c.op, c.queue) <= 0, NotReady(t, c)
  PROVE  KernelIInv'
<1>1. /\ t = k.pxCurrentTCB /\ task[t].pc \in {"app", "try"} /\ t \in AllTasks
      /\ task[t] \in TaskState /\ Consistent(task[t]) /\ task \in [AllTasks -> TaskState]
      /\ t \in Ready(k) /\ UNCHANGED <<k, queue, pendSV>>
  BY Acting, Basics DEF NotReady, Away, EndingPcs
<1>2. /\ c.op \in Ops /\ c.queue \in Queues /\ c.ticks \in Int
      /\ k.xNumOfOverflows \in Nat /\ k.xTickCount \in Int
  <2>1. k.xTickCount \in TickType /\ k.xNumOfOverflows \in Nat
    BY SchedulingFacts, Fields DEF KernelIInv
  <2>2. \A n \in TickType : n \in Int
    BY TickTypes
  <2> QED BY <2>1, <2>2, CallFacts
<1>3. \A op \in Ops, q \in Queues : Retries(task[t], op, q) => Told(op, q) <= 0
  BY <1>1 DEF Retries, EndingPcs
<1>4. CASE Return(t)
  <2>1. task' = [task EXCEPT ![t] = AtApp]
    BY <1>4 DEF Return
  <2> QED BY <1>1, <1>3, <2>1, AtAppState, OwnSteps DEF HoldingPcs, LockedPcs
<1>5. CASE task[t].xEntryTimeSet /\ ~Return(t)
  <2> DEFINE r == [task[t] EXCEPT !.pc = "suspend"]
  <2>1. task' = [task EXCEPT ![t] = r]
    BY <1>5 DEF NotReady, Goto
  <2>2. r \in TaskState /\ r.pc = "suspend" /\ r.call = task[t].call
    BY <1>1, GotoFields DEF Pcs, RunningPcs
  <2>3. task[t].pc = "try" /\ task[t].call \in QueueCalls
    BY <1>1, <1>5 DEF Consistent
  <2> HIDE DEF r
  <2>4. Consistent(r)
    BY <2>2, <2>3 DEF Consistent, LockedPcs
  <2> QED BY <1>1, <1>3, <2>1, <2>2, <2>4, OwnSteps DEF HoldingPcs, LockedPcs
<1>6. CASE ~task[t].xEntryTimeSet /\ ~Return(t)
  <2> DEFINE ticks == IF task[t].pc = "app" THEN c.ticks ELSE task[t].ticks
             r == [pc |-> "suspend", call |-> c, ticks |-> ticks,
                   xEntryTimeSet |-> TRUE, xOverflowCount |-> k.xNumOfOverflows,
                   xTimeOnEntering |-> k.xTickCount, after |-> "none"]
  <2>1. task' = [task EXCEPT ![t] = r]
    BY <1>6 DEF NotReady
  <2>2. ticks \in Int
    BY <1>1, <1>2 DEF TaskState
  <2>3. r \in TaskState /\ r.pc = "suspend" /\ r.call = c
    BY <1>2, <2>2 DEF TaskState, RunningPcs
  <2> HIDE DEF r
  <2>4. Consistent(r)
    BY <2>3 DEF Consistent, LockedPcs
  <2> QED BY <1>1, <1>3, <2>1, <2>3, <2>4, OwnSteps DEF HoldingPcs, LockedPcs
<1> QED BY <1>4, <1>5, <1>6

LEMMA StartDelay ==
  ASSUME KernelIInv, NEW t \in Tasks, NEW c \in Calls[t], Calling(t, "delay", c),
         task' = [task EXCEPT ![t] = [AtApp EXCEPT !.pc = "suspend", !.call = c, !.ticks = c.ticks]],
         UNCHANGED <<k, queue, pendSV>>
  PROVE  KernelIInv'
<1> DEFINE r == [AtApp EXCEPT !.pc = "suspend", !.call = c, !.ticks = c.ticks]
<1>1. /\ t = k.pxCurrentTCB /\ task[t].pc \in {"app", "try"} /\ t \in AllTasks
      /\ task[t] \in TaskState /\ Consistent(task[t])
      /\ t \in Ready(k)
  BY Acting, Basics DEF Calling, Away, EndingPcs
<1>2. c \in DelayCalls /\ c.ticks \in Int
  BY <1>1, CallFacts DEF Calling
<1>3. task[t].pc = "app"
  BY <1>1, <1>2, CallFacts DEF Calling, Consistent
<1>4. r \in TaskState /\ r.pc = "suspend" /\ r.call = c
  BY <1>2, AtAppState DEF TaskState, RunningPcs
<1> HIDE DEF r
<1>5. Consistent(r)
  BY <1>2, <1>4 DEF Consistent, LockedPcs
<1>6. \A op \in Ops, q \in Queues : ~Retries(task[t], op, q)
  BY <1>3 DEF Retries, EndingPcs
<1>7. task' = [task EXCEPT ![t] = r]
  BY DEF r
<1> QED BY <1>1, <1>3, <1>4, <1>5, <1>6, <1>7, OwnSteps DEF HoldingPcs, LockedPcs

LEMMA CheckForTimeOutKeeps ==
  ASSUME KernelIInv, NEW t \in AllTasks, xTaskCheckForTimeOut(t)
  PROVE  KernelIInv'
<1>1. /\ t = k.pxCurrentTCB /\ task[t].pc = "check" /\ t \in Tasks
      /\ task[t] \in TaskState /\ Consistent(task[t]) /\ t \in Ready(k)
      /\ UNCHANGED <<k, queue, pendSV>>
  BY Acting DEF xTaskCheckForTimeOut, Away, EndingPcs
<1> DEFINE r1 == [task[t] EXCEPT !.ticks = 0, !.pc = "unlockTx", !.after = "expired"]
           r2 == [task[t] EXCEPT !.pc = "test"]
           r3 == StillToWait(t)
<1>2. PICK r : task' = [task EXCEPT ![t] = r] /\ (r = r1 \/ r = r2 \/ r = r3)
  BY DEF xTaskCheckForTimeOut
<1>3. /\ k.xNumOfOverflows \in Nat /\ k.xTickCount \in Int /\ xElapsedTime(t) \in Int
      /\ task[t].ticks \in Int
  <2>1. k.xTickCount \in TickType /\ k.xNumOfOverflows \in Nat
    BY SchedulingFacts, Fields DEF KernelIInv
  <2>2. \A n \in TickType : n \in Int
    BY TickTypes
  <2>3. task[t].xTimeOnEntering \in Int /\ task[t].ticks \in Int
    BY <1>1 DEF TaskState
  <2>4. SubTicks(k.xTickCount, task[t].xTimeOnEntering) \in TickType
    BY <2>1, <2>2, <2>3, TickTypes
  <2> QED BY <2>1, <2>2, <2>3, <2>4 DEF xElapsedTime
<1>4. /\ r \in TaskState /\ r.call = task[t].call
      /\ r.pc = "test" \/ (r.pc = "unlockTx" /\ r.after = "expired")
  <2>1. CASE r = r1
    <3> DEFINE pc == "unlockTx"
               after == "expired"
               left == 0
    <3>1. r = [task[t] EXCEPT !.ticks = left, !.pc = pc, !.after = after]
      BY <2>1
    <3>2. /\ left \in Int /\ pc \in HoldingPcs \cup RunningPcs \cup {"unwind"}
          /\ after \in {"none", "blocked", "retry", "expired", "delayed"}
      BY DEF HoldingPcs
    <3> HIDE DEF left, pc, after
    <3>3. r \in TaskState /\ r.call = task[t].call /\ r.pc = pc /\ r.after = after
      BY <1>1, <3>1, <3>2 DEF TaskState
    <3> QED BY <3>3 DEF pc, after
  <2>2. CASE r = r2
    BY <1>1, <2>2 DEF TaskState, HoldingPcs
  <2>3. CASE r = r3
    <3> DEFINE elapsed == xElapsedTime(t)
               left == task[t].ticks - elapsed
    <3>1. r = [task[t] EXCEPT !.ticks = left, !.pc = "test", !.xOverflowCount = k.xNumOfOverflows,
                              !.xTimeOnEntering = k.xTickCount]
      BY <2>3 DEF StillToWait
    <3>2. left \in Int
      BY <1>3
    <3> HIDE DEF left
    <3> QED BY <1>1, <1>3, <3>1, <3>2 DEF TaskState, HoldingPcs
  <2> QED BY <1>2, <2>1, <2>2, <2>3
<1>5. Consistent(r)
  BY <1>1, <1>4 DEF Consistent, LockedPcs
<1>6. \A op \in Ops, q \in Queues : ~Retries(task[t], op, q)
  BY <1>1 DEF Retries, EndingPcs
<1> QED BY <1>1, <1>2, <1>4, <1>5, <1>6, OwnSteps DEF HoldingPcs, LockedPcs

LEMMA TestQueueKeeps ==
  ASSUME KernelIInv, NEW t \in AllTasks, TestQueue(t)
  PROVE  KernelIInv'
<1>1. /\ t = k.pxCurrentTCB /\ task[t].pc = "test" /\ t \in Tasks
      /\ task[t] \in TaskState /\ Consistent(task[t]) /\ t \in Ready(k)
      /\ UNCHANGED <<k, queue, pendSV>> /\ Types /\ Locks
  BY Acting DEF TestQueue, Away, EndingPcs, KernelIInv, Scheduling
<1> DEFINE r1 == [task[t] EXCEPT !.pc = "place"]
           r2 == [task[t] EXCEPT !.pc = "unlockTx", !.after = "retry"]
           c == task[t].call
<1>2. PICK r : /\ task' = [task EXCEPT ![t] = r]
               /\ (r = r1 /\ QueueUnready(c)) \/ r = r2
  BY DEF TestQueue
<1>3. /\ r \in TaskState /\ r.call = c
      /\ (r.pc = "place" /\ QueueUnready(c)) \/ (r.pc = "unlockTx" /\ r.after = "retry")
  BY <1>1, <1>2 DEF TaskState, HoldingPcs
<1>4. c \in QueueCalls
  BY <1>1 DEF Consistent, LockedPcs
<1>5. Consistent(r)
  BY <1>3, <1>4 DEF Consistent, LockedPcs
<1>6. QueueUnready(c) => Told(c.op, c.queue) <= 0
  <2>1. /\ c.queue \in Queues /\ uxLength[c.queue] \in Int
        /\ queue[c.queue].uxMessagesWaiting \in Int
    BY <1>1, <1>4, CallFacts, KernelAssumption DEF Types, QueueState
  <2>2. QueueUnready(c) =>
          IF c.op = "send" THEN queue[c.queue].uxMessagesWaiting >= uxLength[c.queue]
                           ELSE queue[c.queue].uxMessagesWaiting <= 0
    BY <2>1 DEF QueueUnready
  <2> QED BY <1>1, <1>4, <2>2, UnreadyTold
<1>7. \A op \in Ops, q \in Queues : ~Retries(task[t], op, q)
  BY <1>1 DEF Retries, EndingPcs
<1> QED BY <1>1, <1>2, <1>3, <1>5, <1>6, <1>7, OwnSteps DEF HoldingPcs, LockedPcs

LEMMA ReturnKeeps ==
  ASSUME KernelIInv, NEW t \in AllTasks, At(t, {"expired", "return"}), Return(t),
         UNCHANGED <<k, queue, pendSV>>
  PROVE  KernelIInv'
<1>1. /\ t = k.pxCurrentTCB /\ task[t].pc \in {"expired", "return"} /\ t \in Tasks /\ t \in Ready(k)
  BY Acting DEF Away, EndingPcs
<1>2. task' = [task EXCEPT ![t] = AtApp]
  BY DEF Return
<1>3. \A op \in Ops, q \in Queues : ~Retries(task[t], op, q)
  BY <1>1 DEF Retries, EndingPcs
<1> QED BY <1>1, <1>2, <1>3, AtAppState, OwnSteps DEF HoldingPcs, LockedPcs

LEMMA ExpiredKeeps ==
  ASSUME KernelIInv, NEW t \in AllTasks, Expired(t)
  PROVE  KernelIInv'
<1>1. At(t, {"expired"}) /\ UNCHANGED <<k, queue, pendSV>> /\ (Goto(t, "try") \/ Return(t))
  BY DEF Expired
<1>2. CASE Return(t)
  BY <1>1, <1>2, ReturnKeeps DEF At
<1>3. CASE Goto(t, "try")
  <2> DEFINE r == [task[t] EXCEPT !.pc = "try"]
  <2>1. /\ t = k.pxCurrentTCB /\ task[t].pc = "expired" /\ t \in Tasks /\ t \in Ready(k)
        /\ task[t] \in TaskState /\ Consistent(task[t])
    BY <1>1, Acting DEF Away, EndingPcs
  <2>2. task' = [task EXCEPT ![t] = r]
    BY <1>3 DEF Goto
  <2>3. r \in TaskState /\ r.pc = "try" /\ r.call = task[t].call
    BY <2>1, GotoFields DEF Pcs, RunningPcs
  <2> HIDE DEF r
  <2>4. Consistent(r)
    BY <2>1, <2>3 DEF Consistent, LockedPcs
  <2>5. \A op \in Ops, q \in Queues : ~Retries(task[t], op, q)
    BY <2>1 DEF Retries, EndingPcs
  <2> QED BY <1>1, <2>1, <2>2, <2>3, <2>4, <2>5, OwnSteps DEF HoldingPcs, LockedPcs
<1> QED BY <1>1, <1>2, <1>3

LEMMA DelayOverKeeps ==
  ASSUME KernelIInv, NEW t \in AllTasks, DelayOver(t)
  PROVE  KernelIInv'
BY ReturnKeeps DEF DelayOver, At

-----------------------------------------------------------------------------
(* The other steps of the running task.                                    *)

LEMMA LocksKept ==
  ASSUME Scheduling, Locks, NEW t, t = k.pxCurrentTCB, k'.pxCurrentTCB = t,
         NEW r, task' = [task EXCEPT ![t] = r],
         \A q \in Queues : queue'[q].cTxLock = queue[q].cTxLock /\ queue'[q].cRxLock = queue[q].cRxLock,
         r.pc \in LockedPcs <=> task[t].pc \in LockedPcs,
         r.pc \in LockedPcs => r.call = task[t].call /\ r.call.queue \in Queues,
         r.pc \in {"unlockRx", "wakeRx"} <=> task[t].pc \in {"unlockRx", "wakeRx"}
  PROVE  Locks'
<1>1. task'[t] = r
  BY SchedulingFacts DEF Scheduling, Types
<1>2. \A q \in Queues : (r.pc \in LockedPcs /\ r.call.queue = q) <=>
                         (task[t].pc \in LockedPcs /\ task[t].call.queue = q)
  OBVIOUS
<1> QED BY <1>1, <1>2 DEF Locks

LEMMA Goes ==
  ASSUME KernelIInv, NEW t \in AllTasks, NEW r, task' = [task EXCEPT ![t] = r],
         t = k.pxCurrentTCB, k'.pxCurrentTCB = t, r.pc # "place",
         Scheduling', Locks', Preempting',
         \A e \in EventLists : Waiting(k', e) \subseteq Waiting(k, e),
         t \in Ready(k) \/ (\A op \in Ops, q \in Queues : Waits(task[t], op, q) => Waits(r, op, q)),
         \A op \in Ops, q \in Queues : Balanced(op, q)
  PROVE  KernelIInv'
<1>1. Scheduling /\ Waiters /\ Supplied
  BY DEF KernelIInv
<1>2. Waiters'
  BY <1>1, WaitersKept
<1>3. Supplied'
  BY <1>1, SuppliedNext DEF Scheduling
<1>4. Placing'
  BY <1>1 DEF Scheduling, Types, Placing
<1> QED BY <1>2, <1>3, <1>4 DEF KernelIInv

\* The lists do not depend on whether the scheduler is suspended, nor on the ticks
\* that are pended.
SameLists(s, r) ==
  /\ Ready(r) = Ready(s) /\ Pending(r) = Pending(s) /\ r.pxCurrentTCB = s.pxCurrentTCB
  /\ \A e \in EventLists : Waiting(r, e) = Waiting(s, e)

LEMMA ListsSame ==
  ASSUME NEW s, Good(s), NEW r \in KernelState, SameReady(s, r), SameBlocked(s, r), SameEvents(s, r),
         r.pxCurrentTCB = s.pxCurrentTCB
  PROVE  Good(r) /\ SameLists(s, r)
BY GoodLists, SameMembers DEF SameLists

LEMMA SuspendFields ==
  ASSUME NEW s, Good(s), NEW n \in Int, NEW r, r = [s EXCEPT !.uxSchedulerSuspended = n]
  PROVE  /\ Good(r) /\ SameLists(s, r)
         /\ r.uxSchedulerSuspended = n /\ r.xYieldPending = s.xYieldPending
<1>1. s \in KernelState
  BY DEF Good
<1>2. /\ r \in KernelState /\ SameReady(s, r) /\ SameBlocked(s, r) /\ SameEvents(s, r)
      /\ r.uxSchedulerSuspended = n /\ r.xYieldPending = s.xYieldPending
      /\ r.pxCurrentTCB = s.pxCurrentTCB
  BY <1>1 DEF KernelState, SameReady, SameBlocked, SameEvents
<1> QED BY <1>2, ListsSame

LEMMA SuspendAllKeeps ==
  ASSUME KernelIInv, NEW t \in AllTasks, vTaskSuspendAll(t)
  PROVE  KernelIInv'
<1> DEFINE pc == IF task[t].call.op = "delay" THEN "delay" ELSE "lock"
           r == [task[t] EXCEPT !.pc = pc]
<1>1. /\ At(t, {"suspend"}) /\ task' = [task EXCEPT ![t] = r] /\ UNCHANGED <<queue, pendSV>>
      /\ k' = [k EXCEPT !.uxSchedulerSuspended = k.uxSchedulerSuspended + 1]
  BY DEF vTaskSuspendAll, Goto
<1>2. /\ t = k.pxCurrentTCB /\ task[t].pc = "suspend" /\ t \in Tasks /\ t \in Ready(k) /\ ~pendSV
      /\ task[t] \in TaskState /\ Consistent(task[t]) /\ k.uxSchedulerSuspended = 0
      /\ Scheduling /\ Types /\ Locks /\ Preempting /\ Good(k)
  BY <1>1, Acting DEF Away, EndingPcs, KernelIInv, Scheduling, HoldingPcs
<1>3. r \in TaskState /\ r.pc = pc /\ r.call = task[t].call /\ pc \in {"delay", "lock"}
  <2>1. pc \in Pcs /\ pc \in {"delay", "lock"}
    BY DEF Pcs, HoldingPcs
  <2> HIDE DEF pc
  <2> QED BY <1>2, <2>1, GotoFields
<1>4. /\ Good(k') /\ SameLists(k, k') /\ k'.uxSchedulerSuspended = 1
      /\ k'.xYieldPending = k.xYieldPending
  BY <1>1, <1>2, SuspendFields
<1>5. Consistent(r)
  BY <1>2, <1>3, CallFacts DEF Consistent, LockedPcs
<1> HIDE DEF r
<1>6. Scheduling'
  BY <1>1, <1>2, <1>3, <1>4, <1>5, CurrentSteps, Basics DEF SameLists, Types, HoldingPcs
<1>7. Locks'
  BY <1>1, <1>2, <1>3, <1>4, LocksKept DEF SameLists, LockedPcs
<1>8. Preempting'
  BY <1>1, <1>2, <1>4, PreemptingKept DEF SameLists
<1>9. ASSUME NEW op \in Ops, NEW q \in Queues
      PROVE  Balanced(op, q)
  <2>1. Told(op, q)' = Told(op, q) /\ Told(op, q) \in Int
    BY <1>1, <1>2, ToldType DEF Told, Supply, Untold, LockOf
  <2>2. ~Retries(task[t], op, q)
    BY <1>2 DEF Retries, EndingPcs
  <2>3. Told(op, q)' <= Told(op, q)
    BY <2>1
  <2> QED BY <1>1, <1>2, <1>4, <2>2, <2>3, OthersBalance DEF SameLists
<1>10. r.pc # "place" /\ k'.pxCurrentTCB = t
  BY <1>2, <1>3, <1>4 DEF SameLists
<1>11. \A e \in EventLists : Waiting(k', e) \subseteq Waiting(k, e)
  BY <1>4 DEF SameLists
<1> QED BY <1>1, <1>2, <1>6, <1>7, <1>8, <1>9, <1>10, <1>11, Goes

LEMMA DelayCurrentTaskKeeps ==
  ASSUME KernelIInv, NEW t \in AllTasks, DelayCurrentTask(t)
  PROVE  KernelIInv'
<1> DEFINE r == [task[t] EXCEPT !.pc = "resume", !.after = "delayed"]
<1>1. /\ At(t, {"delay"}) /\ task' = [task EXCEPT ![t] = r] /\ UNCHANGED <<queue, pendSV>>
      /\ k' = AddCurrentTaskToDelayedList(k, task[t].ticks, FALSE)
  BY DEF DelayCurrentTask
<1>2. /\ t = k.pxCurrentTCB /\ task[t].pc = "delay" /\ t \in Tasks /\ t \in Ready(k) /\ ~pendSV
      /\ task[t] \in TaskState /\ Consistent(task[t]) /\ k.uxSchedulerSuspended = 1
      /\ Scheduling /\ Types /\ Locks /\ Preempting /\ Good(k)
  BY <1>1, Acting DEF Away, EndingPcs, KernelIInv, Scheduling, HoldingPcs
<1>3. r \in TaskState /\ r.pc = "resume" /\ r.call = task[t].call /\ r.after = "delayed"
  <2>1. "resume" \in Pcs /\ "delayed" \in Afters
    BY DEF Pcs, HoldingPcs, Afters
  <2>2. r = GoesOn(task[t], "resume", "delayed")
    BY DEF GoesOn
  <2> HIDE DEF r
  <2> QED BY <1>2, <2>1, <2>2, GotoAfterFields
<1>4. CurrentLeaves(k, k')
  <2>1. k.pxCurrentTCB \in Ready(k) \cap Tasks /\ task[t].ticks \in Int
    BY <1>2 DEF TaskState
  <2> QED BY <1>1, <1>2, <2>1, AddCurrentTaskLeaves DEF Good
<1>5. /\ Ready(k') = Ready(k) \ {t} /\ k'.pxCurrentTCB = t /\ k'.uxSchedulerSuspended = 1
      /\ k'.xYieldPending = k.xYieldPending
      /\ \A e \in EventLists : Waiting(k', e) = Waiting(k, e)
      /\ Pending(k') = Pending(k)
  BY <1>2, <1>4, SameMembers DEF CurrentLeaves, SameControl
<1>6. Good(k')
  <2>1. EventItems(k')
    BY <1>2, <1>5 DEF Good, EventItems
  <2> QED BY <1>4, <2>1 DEF CurrentLeaves, Good
<1>7. Consistent(r)
  BY <1>2, <1>3 DEF Consistent, LockedPcs
<1> HIDE DEF r
<1>8. Scheduling'
  BY <1>1, <1>2, <1>3, <1>5, <1>6, <1>7, CurrentSteps, Basics DEF Types, HoldingPcs, Away, EndingPcs
<1>9. Locks'
  BY <1>1, <1>2, <1>3, <1>5, LocksKept DEF LockedPcs
<1>10. Preempting'
  BY <1>1, <1>2, <1>5, PreemptingKept
<1>11. ASSUME NEW op \in Ops, NEW q \in Queues
       PROVE  Balanced(op, q)
  <2>1. Told(op, q)' = Told(op, q) /\ Told(op, q) \in Int
    BY <1>1, <1>2, ToldType DEF Told, Supply, Untold, LockOf
  <2>2. ~Retries(task[t], op, q)
    BY <1>2 DEF Retries, EndingPcs
  <2>3. Told(op, q)' <= Told(op, q)
    BY <2>1
  <2> QED BY <1>1, <1>2, <1>5, <2>2, <2>3, OthersBalance
<1> QED BY <1>1, <1>2, <1>3, <1>5, <1>8, <1>9, <1>10, <1>11, Goes

LEMMA LockQueueKeeps ==
  ASSUME KernelIInv, NEW t \in AllTasks, prvLockQueue(t)
  PROVE  KernelIInv'
<1> DEFINE r == [task[t] EXCEPT !.pc = "check"]
           o == task[t].call.queue
           locked == [queue[o] EXCEPT !.cRxLock = Lock(queue[o].cRxLock), !.cTxLock = Lock(queue[o].cTxLock)]
<1>1. /\ At(t, {"lock"}) /\ task' = [task EXCEPT ![t] = r] /\ UNCHANGED <<k, pendSV>>
  BY DEF prvLockQueue, Goto
<1>2. /\ t = k.pxCurrentTCB /\ task[t].pc = "lock" /\ t \in Tasks /\ t \in Ready(k) /\ ~pendSV
      /\ task[t] \in TaskState /\ Consistent(task[t]) /\ k.uxSchedulerSuspended = 1
      /\ Scheduling /\ Types /\ Locks /\ Preempting /\ Good(k) /\ queue \in [Queues -> QueueState]
  BY <1>1, Acting DEF Away, EndingPcs, KernelIInv, Scheduling, HoldingPcs
<1>3. r \in TaskState /\ r.pc = "check" /\ r.call = task[t].call
  BY <1>2, GotoFields DEF Pcs, HoldingPcs
<1>4. task[t].call \in QueueCalls /\ o \in Queues
  BY <1>2, CallFacts DEF Consistent
<1>5. \A q \in Queues : queue[q].cTxLock = -1 /\ queue[q].cRxLock = -1
  BY <1>2 DEF Locks, LockedPcs, queueUNLOCKED
<1>6. queue' = [queue EXCEPT ![o] = locked]
  BY <1>2, <1>4 DEF prvLockQueue
<1>7. /\ locked \in QueueState /\ locked.cTxLock = 0 /\ locked.cRxLock = 0
      /\ locked.uxMessagesWaiting = queue[o].uxMessagesWaiting
  <2> DEFINE before == queue[o]
             rx == Lock(queue[o].cRxLock)
             tx == Lock(queue[o].cTxLock)
  <2>1. before \in QueueState /\ rx = 0 /\ tx = 0
    BY <1>2, <1>4, <1>5 DEF Lock, queueUNLOCKED, queueLOCKED_UNMODIFIED
  <2>2. locked = [before EXCEPT !.cRxLock = rx, !.cTxLock = tx] /\ before = queue[o]
    OBVIOUS
  <2>3. rx \in Int /\ tx \in Int
    BY <2>1
  <2> HIDE DEF o, before, rx, tx, locked
  <2>4. /\ locked \in QueueState /\ locked.cTxLock = tx /\ locked.cRxLock = rx
        /\ locked.uxMessagesWaiting = before.uxMessagesWaiting
    BY <2>1, <2>2, <2>3 DEF QueueState
  <2> QED BY <2>1, <2>2, <2>4
<1> HIDE DEF locked
<1>8. queue' \in [Queues -> QueueState] /\ \A q \in Queues : queue'[q] = IF q = o THEN locked ELSE queue[q]
  BY <1>2, <1>4, <1>6, <1>7
<1>9. Consistent(r)
  BY <1>2, <1>3, <1>4 DEF Consistent, LockedPcs
<1> HIDE DEF r
<1>10. Scheduling'
  BY <1>1, <1>2, <1>3, <1>8, <1>9, CurrentSteps, Basics DEF Types, HoldingPcs
<1>11. Locks'
  <2>1. task'[t] = r /\ k'.pxCurrentTCB = t /\ r.call.queue = o
    BY <1>1, <1>2, <1>3 DEF Types
  <2>2. r.pc \in LockedPcs /\ r.pc \notin {"unlockRx", "wakeRx"}
    BY <1>3 DEF LockedPcs
  <2> HIDE DEF o
  <2>3. /\ \A q \in Queues : /\ queue'[q].cTxLock >= -1 /\ queue'[q].cRxLock >= -1
                             /\ q # o => queue'[q].cTxLock = -1 /\ queue'[q].cRxLock = -1
        /\ queue'[o].cTxLock # -1 /\ queue'[o].cRxLock # -1
    BY <1>4, <1>5, <1>7, <1>8
  <2> QED BY <2>1, <2>2, <2>3 DEF Locks, queueUNLOCKED
<1>12. Preempting'
  BY <1>1, <1>2 DEF Preempting
<1>13. ASSUME NEW op \in Ops, NEW q \in Queues
       PROVE  Balanced(op, q)
  <2>1. Told(op, q)' = Told(op, q) /\ Told(op, q) \in Int
    <3>1. Supply(op, q)' = Supply(op, q)
      BY <1>7, <1>8 DEF Supply
    <3>2. Untold(op, q)' = 0 /\ Untold(op, q) = 0
      BY <1>5, <1>7, <1>8 DEF Untold, LockOf, queueUNLOCKED
    <3> QED BY <1>2, <3>1, <3>2, ToldType DEF Told
  <2>2. ~Retries(task[t], op, q)
    BY <1>2 DEF Retries, EndingPcs
  <2>3. Told(op, q)' <= Told(op, q)
    BY <2>1
  <2> QED BY <1>1, <1>2, <2>2, <2>3, OthersBalance
<1>14. /\ k'.pxCurrentTCB = t /\ r.pc # "place"
       /\ \A e \in EventLists : Waiting(k', e) \subseteq Waiting(k, e)
  BY <1>1, <1>2, <1>3
<1> QED BY <1>1, <1>2, <1>10, <1>11, <1>12, <1>13, <1>14, Goes

LEMMA PlaceKeeps ==
  ASSUME KernelIInv, NEW t \in AllTasks, vTaskPlaceOnEventList(t)
  PROVE  KernelIInv'
<1> DEFINE r == [task[t] EXCEPT !.pc = "unlockTx", !.after = "blocked"]
           c == task[t].call
           e == EventOf(c.op, c.queue)
<1>1. /\ At(t, {"place"}) /\ task' = [task EXCEPT ![t] = r] /\ UNCHANGED <<queue, pendSV>>
      /\ k' = PlaceOnEventList(k, e, task[t].ticks)
  BY DEF vTaskPlaceOnEventList, EventOf
<1>2. /\ t = k.pxCurrentTCB /\ task[t].pc = "place" /\ t \in Tasks /\ t \in Ready(k) /\ ~pendSV
      /\ task[t] \in TaskState /\ Consistent(task[t]) /\ k.uxSchedulerSuspended = 1
      /\ Scheduling /\ Types /\ Locks /\ Preempting /\ Good(k)
      /\ Waiters /\ Supplied /\ Placing
  BY <1>1, Acting DEF Away, EndingPcs, KernelIInv, Scheduling, HoldingPcs
<1>3. r \in TaskState /\ r.pc = "unlockTx" /\ r.call = c /\ r.after = "blocked"
  <2>1. "unlockTx" \in Pcs /\ "blocked" \in Afters
    BY DEF Pcs, HoldingPcs, Afters
  <2>2. r = GoesOn(task[t], "unlockTx", "blocked")
    BY DEF GoesOn
  <2> HIDE DEF r
  <2> QED BY <1>2, <2>1, <2>2, GotoAfterFields
<1>4. /\ c \in QueueCalls /\ c.op \in Ops /\ c.queue \in Queues /\ e \in EventLists
      /\ task[t].ticks \in Int
  <2>1. c \in QueueCalls /\ task[t].ticks \in Int
    BY <1>2 DEF Consistent, LockedPcs, TaskState
  <2>2. c.op \in Ops /\ c.queue \in Queues
    BY <2>1, CallFacts
  <2> HIDE DEF c
  <2> QED BY <2>1, <2>2, Basics DEF EventOf
<1>5. Placed(k, k', e)
  <2>1. k.pxCurrentTCB \in Ready(k) \cap Tasks
    BY <1>2
  <2> HIDE DEF e
  <2> QED BY <1>1, <1>2, <1>4, <2>1, PlaceOnEventListPlaces
<1> HIDE DEF r, c
<1>6. /\ Good(k') /\ Ready(k') = Ready(k) \ {t} /\ k'.pxCurrentTCB = t
      /\ k'.uxSchedulerSuspended = 1 /\ k'.xYieldPending = k.xYieldPending
      /\ \A o \in EventLists : Waiting(k', o) = IF o = e THEN Waiting(k, o) \cup {t} ELSE Waiting(k, o)
  BY <1>2, <1>5 DEF Placed, SameControl
<1>7. Consistent(r)
  BY <1>3, <1>4 DEF Consistent, LockedPcs
<1>8. Scheduling'
  BY <1>1, <1>2, <1>3, <1>6, <1>7, CurrentSteps, Basics DEF Types, HoldingPcs, Away, EndingPcs
<1>9. Locks'
  BY <1>1, <1>2, <1>3, <1>4, <1>6, LocksKept DEF LockedPcs, c
<1>10. Preempting'
  BY <1>1, <1>2, <1>6, PreemptingKept
<1>11. task'[t] = r /\ \A x \in AllTasks \ {t} : task'[x] = task[x]
  BY <1>1, <1>2 DEF Types
<1>12. \A op \in Ops, q \in Queues : EventOf(op, q) = e => op = c.op /\ q = c.queue
  BY <1>4 DEF EventOf, ToSend, ToReceive, Ops
<1>13. Waiters'
  <2> SUFFICES ASSUME NEW op \in Ops, NEW q \in Queues, NEW x \in Waiting(k', EventOf(op, q))
               PROVE  Waits(task'[x], op, q)
    BY DEF Waiters, Waits
  <2>1. EventOf(op, q) \in EventLists
    BY Basics DEF EventOf
  <2>2. CASE x \in Waiting(k, EventOf(op, q))
    <3>1. Waits(task[x], op, q) /\ x # t /\ x \in AllTasks
      <4>1. x \in AllTasks
        BY <2>1, <2>2, SchedulingFacts, StateMembers, Basics, <1>2
      <4> QED BY <1>2, <2>1, <2>2, <4>1 DEF Waiters, Good, EventItems
    <3> QED BY <1>11, <3>1
  <2>3. CASE x \notin Waiting(k, EventOf(op, q))
    <3>1. x = t /\ op = c.op /\ q = c.queue
      BY <1>6, <1>12, <2>1, <2>3
    <3> QED BY <1>3, <1>11, <3>1 DEF Waits, EndingPcs
  <2> QED BY <2>2, <2>3
<1>14. Supplied'
  <2>1. ASSUME NEW op \in Ops, NEW q \in Queues
        PROVE  Balanced(op, q)
    <3>1. Told(op, q)' = Told(op, q) /\ Told(op, q) \in Int
      BY <1>1, <1>2, ToldType DEF Told, Supply, Untold, LockOf
    <3>2. EventOf(op, q) \in EventLists /\ ToSend(q) \in EventLists /\ ToReceive(q) \in EventLists
      BY Basics DEF EventOf
    <3>3. CASE EventOf(op, q) = e
      <4>1. Told(op, q) <= 0
        BY <1>2, <1>12, <3>3 DEF Placing, c
      <4> QED BY <3>1, <4>1 DEF Balanced
    <3>4. CASE EventOf(op, q) # e
      <4>1. Waiting(k', EventOf(op, q)) = Waiting(k, EventOf(op, q))
        BY <1>6, <3>2, <3>4
      <4>2. WillRetry(op, q) \subseteq WillRetry(op, q)'
        <5>1. ~Retries(task[t], op, q)
          BY <1>2 DEF Retries, EndingPcs
        <5>2. ASSUME NEW x \in WillRetry(op, q)
              PROVE  x \in WillRetry(op, q)'
          <6>1. /\ x \in Tasks /\ Retries(task[x], op, q)
                /\ x \notin Waiting(k, ToSend(q)) /\ x \notin Waiting(k, ToReceive(q))
            BY <5>2, WillRetryMembers
          <6>2. x # t /\ x \in AllTasks
            BY <5>1, <6>1, Basics
          <6>3. x \notin Waiting(k', ToSend(q)) /\ x \notin Waiting(k', ToReceive(q))
            BY <1>6, <3>2, <6>1, <6>2
          <6> QED BY <1>11, <6>1, <6>2, <6>3, WillRetryMembersNext
        <5> QED BY <5>2
      <4>3. Told(op, q)' <= Told(op, q)
        BY <3>1
      <4> QED BY <4>1, <4>2, <4>3 DEF Balanced
    <3> QED BY <3>3, <3>4
  <2> QED BY <1>2, <1>8, <2>1, SuppliedNext DEF Scheduling
<1>15. Placing'
  BY <1>3, <1>6, <1>11 DEF Placing
<1> QED BY <1>8, <1>9, <1>10, <1>13, <1>14, <1>15 DEF KernelIInv

\* A step from one of the last parts of a call to the next one.
LEMMA EndingSteps ==
  ASSUME NEW x \in TaskState, Consistent(x), NEW pc \in Pcs, NEW r, r = [x EXCEPT !.pc = pc],
         \/ x.pc \in {"unlockTx", "wakeTx", "unlockRx", "wakeRx"} /\ pc \in EndingPcs \ {"yield"}
         \/ x.pc \in {"resume", "unwind"} /\ pc \in {"unwind", "yield"}
         \/ x.pc \in {"resume", "unwind", "yield"} /\ pc = "try" /\ x.after \in {"blocked", "retry"}
  PROVE  /\ r \in TaskState /\ Consistent(r) /\ r.pc = pc /\ r.call = x.call /\ r.after = x.after
         /\ \A op \in Ops, q \in Queues : /\ Waits(x, op, q) => Waits(r, op, q)
                                          /\ Retries(x, op, q) => Retries(r, op, q)
<1>1. /\ r \in TaskState /\ r.pc = pc /\ r.call = x.call /\ r.after = x.after
      /\ r.xEntryTimeSet = x.xEntryTimeSet
  BY GotoFields
<1>2. Consistent(r)
  BY <1>1 DEF Consistent, LockedPcs, EndingPcs
<1>3. x.pc \in EndingPcs /\ (pc \in EndingPcs \/ pc = "try")
  BY DEF EndingPcs
<1>4. ASSUME NEW op \in Ops, NEW q \in Queues
      PROVE  /\ Waits(x, op, q) => Waits(r, op, q)
             /\ Retries(x, op, q) => Retries(r, op, q)
  BY <1>1, <1>3 DEF Waits, Retries
<1> QED BY <1>1, <1>2, <1>4

\* prvUnlockQueue tells a task that waits of one message or place that came while
\* the queue was locked, or there is none to tell.
LEMMA UnlockKeeps ==
  ASSUME KernelIInv, NEW t \in Tasks, At(t, {"unlockTx", "wakeTx", "unlockRx", "wakeRx"}),
         NEW op \in Ops, NEW q \in Queues, NEW pc \in {"wakeTx", "unlockRx", "wakeRx", "resume"},
         Goto(t, pc), pendSV' = pendSV, queue' \in [Queues -> QueueState], Locks',
         \A x \in Ops, o \in Queues :
           /\ Supply(x, o)' = Supply(x, o)
           /\ x # op \/ o # q => Untold(x, o)' = Untold(x, o),
         \/ WokenBy(k, k', EventOf(op, q)) /\ Untold(op, q)' = Untold(op, q) - 1
         \/ k' = k /\ (Untold(op, q)' = Untold(op, q) \/ Waiting(k, EventOf(op, q)) = {})
  PROVE  KernelIInv'
<1> DEFINE r == [task[t] EXCEPT !.pc = pc]
<1>1. /\ t = k.pxCurrentTCB /\ ~pendSV /\ t \in AllTasks /\ t # Idle
      /\ task[t] \in TaskState /\ Consistent(task[t]) /\ k.uxSchedulerSuspended = 1
      /\ t \in Ready(k) \/ Away(task[t])
      /\ Scheduling /\ Types /\ Preempting /\ Good(k) /\ Waiters
      /\ task[t].pc \in {"unlockTx", "wakeTx", "unlockRx", "wakeRx"}
  BY Acting, Basics DEF KernelIInv, Scheduling, HoldingPcs
<1>2. task' = [task EXCEPT ![t] = r]
  BY DEF Goto
<1>3. /\ r \in TaskState /\ Consistent(r) /\ r.pc = pc /\ r.call = task[t].call /\ r.after = task[t].after
      /\ \A x \in Ops, o \in Queues : /\ Waits(task[t], x, o) => Waits(r, x, o)
                                      /\ Retries(task[t], x, o) => Retries(r, x, o)
  <2>1. pc \in Pcs /\ pc \in EndingPcs \ {"yield"}
    BY DEF Pcs, HoldingPcs, EndingPcs
  <2> HIDE DEF r
  <2>2. r = [task[t] EXCEPT !.pc = pc]
    BY DEF r
  <2> QED BY <1>1, <2>1, <2>2, EndingSteps
<1> HIDE DEF r
<1>4. /\ Good(k') /\ k'.pxCurrentTCB = t /\ k'.uxSchedulerSuspended = 1
      /\ Ready(k) \subseteq Ready(k')
      /\ \A e \in EventLists : Waiting(k', e) \subseteq Waiting(k, e)
      /\ k.xYieldPending => k'.xYieldPending
      /\ \A x \in Ready(k') \ Ready(k) : Priority[x] > Priority[t] => k'.xYieldPending
  BY <1>1 DEF WokenBy
<1>5. Scheduling'
  <2>1. pc \in HoldingPcs /\ pc \in EndingPcs /\ pendSV' \in BOOLEAN
    BY <1>1 DEF HoldingPcs, EndingPcs, Types
  <2>2. t \in Ready(k') \/ Away(r)
    BY <1>1, <1>3, <1>4, <2>1 DEF Away
  <2> QED BY <1>1, <1>2, <1>3, <1>4, <2>1, <2>2, CurrentSteps
<1>6. Preempting'
  BY <1>1, <1>4, PreemptingKept
<1>7. ASSUME NEW x \in Ops, NEW o \in Queues
      PROVE  Balanced(x, o)
  <2>1. /\ Told(x, o) = Supply(x, o) - Untold(x, o) /\ Told(x, o)' = Supply(x, o)' - Untold(x, o)'
        /\ Supply(x, o)' = Supply(x, o) /\ Supply(x, o) \in Int /\ Untold(x, o) \in Int
    BY <1>1, ToldType DEF Told
  <2>2. CASE Untold(x, o)' = Untold(x, o)
    <3>1. Told(x, o)' <= Told(x, o)
      BY <2>1, <2>2
    <3> QED BY <1>1, <1>2, <1>3, <1>4, <3>1, OthersBalance
  <2>3. CASE x = op /\ o = q /\ WokenBy(k, k', EventOf(op, q)) /\ Untold(op, q)' = Untold(op, q) - 1
    <3>1. Told(x, o)' <= Told(x, o) + 1
      BY <2>1, <2>3
    <3> QED BY <1>1, <1>2, <1>3, <2>3, <3>1, WakeBalances
  <2>4. CASE x = op /\ o = q /\ k' = k /\ Waiting(k, EventOf(op, q)) = {}
    BY <2>4 DEF Balanced
  <2> QED BY <2>2, <2>3, <2>4
<1>8. r.pc # "place"
  BY <1>3
<1> QED BY <1>1, <1>2, <1>3, <1>4, <1>5, <1>6, <1>7, <1>8, Goes

LEMMA UnlockQueueTxKeeps ==
  ASSUME KernelIInv, NEW t \in AllTasks, prvUnlockQueueTx(t)
  PROVE  KernelIInv'
<1>1. /\ At(t, {"unlockTx", "wakeTx"}) /\ pendSV' = pendSV
  BY DEF prvUnlockQueueTx
<1>3. /\ t = k.pxCurrentTCB /\ t \in Tasks /\ task[t].pc \in {"unlockTx", "wakeTx"}
      /\ task[t] \in TaskState /\ Consistent(task[t]) /\ Good(k) /\ Locks
      /\ queue \in [Queues -> QueueState] /\ task \in [AllTasks -> TaskState]
  BY <1>1, Acting DEF KernelIInv
<1>11. PICK q \in Queues : q = task[t].call.queue
  BY <1>3, CallFacts DEF Consistent, LockedPcs
<1> DEFINE told == queue[q].cTxLock - 1
           wakes == queue[q].cTxLock > 0 /\ k.events[ToReceive(q)] # <<>>
           lock == IF wakes THEN told ELSE -1
           pc == IF wakes THEN "wakeTx" ELSE "unlockRx"
           next == [queue[q] EXCEPT !.cTxLock = lock]
<1>2. queue' = [queue EXCEPT ![q] = next] /\ Goto(t, pc) /\ k' = IF wakes THEN Wake(k, ToReceive(q)) ELSE k
  BY <1>11 DEF prvUnlockQueueTx, queueLOCKED_UNMODIFIED, queueUNLOCKED
<1>4. q \in Queues /\ queue[q] \in QueueState /\ EventOf("receive", q) = ToReceive(q)
      /\ ToReceive(q) \in EventLists
  BY <1>3, Basics DEF EventOf
<1>5. /\ queue[q].cTxLock \in Int /\ queue[q].cTxLock >= 0 /\ queue[q].cRxLock # -1
      /\ \A o \in Queues : /\ queue[o].cTxLock \in Int /\ queue[o].cRxLock \in Int
                           /\ queue[o].cTxLock >= -1 /\ queue[o].cRxLock >= -1
                           /\ o # q => queue[o].cTxLock = -1 /\ queue[o].cRxLock = -1
  <2>1. \A o \in Queues : queue[o].cTxLock \in Int /\ queue[o].cRxLock \in Int
    BY <1>3 DEF QueueState
  <2>2. task[t].pc \in LockedPcs /\ task[t].pc \notin {"unlockRx", "wakeRx"}
    BY <1>3 DEF LockedPcs
  <2> QED BY <1>3, <1>11, <2>1, <2>2 DEF Locks, queueUNLOCKED
<1>6. lock \in Int /\ lock >= -1 /\ (wakes => lock = queue[q].cTxLock - 1 /\ lock >= 0) /\ (~wakes => lock = -1)
  BY <1>5
<1> HIDE DEF lock
<1>7. /\ next \in QueueState /\ next.cTxLock = lock /\ next.cRxLock = queue[q].cRxLock
      /\ next.uxMessagesWaiting = queue[q].uxMessagesWaiting
  BY <1>4, <1>6 DEF QueueState
<1> HIDE DEF next
<1>8. /\ queue' \in [Queues -> QueueState]
      /\ \A o \in Queues : queue'[o] = IF o = q THEN next ELSE queue[o]
  BY <1>2, <1>3, <1>4, <1>7
<1>0. LockOf("receive", q) = queue[q].cTxLock /\ LockOf("receive", q)' = lock
  <2>1. LockOf("receive", q)' = queue'[q].cTxLock
    BY DEF LockOf
  <2> QED BY <1>4, <1>7, <1>8, <2>1 DEF LockOf
<1>9. CASE wakes
  <2>1. WokenBy(k, k', EventOf("receive", q))
    BY <1>2, <1>3, <1>4, <1>9, WakeWakes
  <2>2. k'.pxCurrentTCB = t /\ task'[t].pc = "wakeTx" /\ task'[t].call.queue = q /\ Goto(t, "wakeTx")
    BY <1>2, <1>3, <1>9, <1>11, <2>1 DEF WokenBy, Goto, TaskState
  <2>3. Locks'
    <3>1. task'[t].pc \in LockedPcs /\ task'[t].pc \notin {"unlockRx", "wakeRx"}
      BY <2>2 DEF LockedPcs
    <3>2. /\ \A o \in Queues : /\ queue'[o].cTxLock >= -1 /\ queue'[o].cRxLock >= -1
                               /\ o # q => queue'[o].cTxLock = -1 /\ queue'[o].cRxLock = -1
          /\ queue'[q].cTxLock # -1 /\ queue'[q].cRxLock # -1
      BY <1>4, <1>5, <1>6, <1>7, <1>8, <1>9
    <3> QED BY <2>2, <3>1, <3>2 DEF Locks, queueUNLOCKED
  <2>4. ASSUME NEW x \in Ops, NEW o \in Queues
        PROVE  /\ Supply(x, o)' = Supply(x, o)
               /\ x # "receive" \/ o # q => Untold(x, o)' = Untold(x, o)
    BY <1>7, <1>8 DEF Supply, Untold, LockOf, Ops
  <2>5. Untold("receive", q)' = Untold("receive", q) - 1
    BY <1>0, <1>5, <1>6, <1>9 DEF Untold, queueUNLOCKED
  <2> HIDE DEF wakes, pc
  <2>6. At(t, {"unlockTx", "wakeTx", "unlockRx", "wakeRx"}) /\ "receive" \in Ops
    BY <1>1 DEF At, Ops
  <2> QED BY <1>1, <1>3, <1>4, <1>8, <2>1, <2>2, <2>3, <2>4, <2>5, <2>6, UnlockKeeps
<1>10. CASE ~wakes
  <2>1. k' = k /\ task'[t].pc = "unlockRx" /\ task'[t].call.queue = q /\ Goto(t, "unlockRx")
    BY <1>2, <1>3, <1>10, <1>11 DEF Goto, TaskState
  <2>2. Locks'
    <3>1. task'[t].pc \in LockedPcs /\ task'[t].pc \in {"unlockRx", "wakeRx"}
      BY <2>1 DEF LockedPcs
    <3>2. /\ \A o \in Queues : /\ queue'[o].cTxLock >= -1 /\ queue'[o].cRxLock >= -1
                               /\ o # q => queue'[o].cTxLock = -1 /\ queue'[o].cRxLock = -1
          /\ queue'[q].cTxLock = -1 /\ queue'[q].cRxLock # -1
      BY <1>4, <1>5, <1>6, <1>7, <1>8, <1>10
    <3> QED BY <1>3, <2>1, <3>1, <3>2 DEF Locks, queueUNLOCKED
  <2>3. ASSUME NEW x \in Ops, NEW o \in Queues
        PROVE  /\ Supply(x, o)' = Supply(x, o)
               /\ x # "receive" \/ o # q => Untold(x, o)' = Untold(x, o)
    BY <1>7, <1>8 DEF Supply, Untold, LockOf, Ops
  <2>4. Untold("receive", q)' = Untold("receive", q) \/ Waiting(k, ToReceive(q)) = {}
    <3>1. CASE queue[q].cTxLock > 0
      BY <1>3, <1>4, <1>10, <3>1, StateMembers DEF Good
    <3>2. CASE queue[q].cTxLock = 0
      BY <1>0, <1>6, <1>10, <3>2 DEF Untold, queueUNLOCKED
    <3> QED BY <1>5, <3>1, <3>2
  <2> HIDE DEF wakes, pc
  <2>5. At(t, {"unlockTx", "wakeTx", "unlockRx", "wakeRx"}) /\ "receive" \in Ops
    BY <1>1 DEF At, Ops
  <2> QED BY <1>1, <1>3, <1>4, <1>8, <2>1, <2>2, <2>3, <2>4, <2>5, UnlockKeeps
<1> QED BY <1>9, <1>10

LEMMA UnlockQueueRxKeeps ==
  ASSUME KernelIInv, NEW t \in AllTasks, prvUnlockQueueRx(t)
  PROVE  KernelIInv'
<1>1. /\ At(t, {"unlockRx", "wakeRx"}) /\ pendSV' = pendSV
  BY DEF prvUnlockQueueRx
<1>3. /\ t = k.pxCurrentTCB /\ t \in Tasks /\ task[t].pc \in {"unlockRx", "wakeRx"}
      /\ task[t] \in TaskState /\ Consistent(task[t]) /\ Good(k) /\ Locks
      /\ queue \in [Queues -> QueueState] /\ task \in [AllTasks -> TaskState]
  BY <1>1, Acting DEF KernelIInv
<1>11. PICK q \in Queues : q = task[t].call.queue
  BY <1>3, CallFacts DEF Consistent, LockedPcs
<1> DEFINE told == queue[q].cRxLock - 1
           wakes == queue[q].cRxLock > 0 /\ k.events[ToSend(q)] # <<>>
           lock == IF wakes THEN told ELSE -1
           pc == IF wakes THEN "wakeRx" ELSE "resume"
           next == [queue[q] EXCEPT !.cRxLock = lock]
<1>2. queue' = [queue EXCEPT ![q] = next] /\ Goto(t, pc) /\ k' = IF wakes THEN Wake(k, ToSend(q)) ELSE k
  BY <1>11 DEF prvUnlockQueueRx, queueLOCKED_UNMODIFIED, queueUNLOCKED
<1>4. q \in Queues /\ queue[q] \in QueueState /\ EventOf("send", q) = ToSend(q)
      /\ ToSend(q) \in EventLists
  BY <1>3, Basics DEF EventOf
<1>5. /\ queue[q].cRxLock \in Int /\ queue[q].cRxLock >= 0 /\ queue[q].cTxLock = -1
      /\ \A o \in Queues : /\ queue[o].cTxLock \in Int /\ queue[o].cRxLock \in Int
                           /\ queue[o].cTxLock >= -1 /\ queue[o].cRxLock >= -1
                           /\ o # q => queue[o].cTxLock = -1 /\ queue[o].cRxLock = -1
  <2>1. \A o \in Queues : queue[o].cTxLock \in Int /\ queue[o].cRxLock \in Int
    BY <1>3 DEF QueueState
  <2>2. task[t].pc \in LockedPcs /\ task[t].pc \in {"unlockRx", "wakeRx"}
    BY <1>3 DEF LockedPcs
  <2> QED BY <1>3, <1>11, <2>1, <2>2 DEF Locks, queueUNLOCKED
<1>6. lock \in Int /\ lock >= -1 /\ (wakes => lock = queue[q].cRxLock - 1 /\ lock >= 0) /\ (~wakes => lock = -1)
  BY <1>5
<1> HIDE DEF lock
<1>7. /\ next \in QueueState /\ next.cRxLock = lock /\ next.cTxLock = queue[q].cTxLock
      /\ next.uxMessagesWaiting = queue[q].uxMessagesWaiting
  BY <1>4, <1>6 DEF QueueState
<1> HIDE DEF next
<1>8. /\ queue' \in [Queues -> QueueState]
      /\ \A o \in Queues : queue'[o] = IF o = q THEN next ELSE queue[o]
  BY <1>2, <1>3, <1>4, <1>7
<1>0. LockOf("send", q) = queue[q].cRxLock /\ LockOf("send", q)' = lock
  <2>1. LockOf("send", q)' = queue'[q].cRxLock
    BY DEF LockOf
  <2> QED BY <1>4, <1>7, <1>8, <2>1 DEF LockOf
<1>12. ASSUME NEW x \in Ops, NEW o \in Queues
       PROVE  /\ Supply(x, o)' = Supply(x, o)
              /\ x # "send" \/ o # q => Untold(x, o)' = Untold(x, o)
  BY <1>7, <1>8 DEF Supply, Untold, LockOf, Ops
<1>13. At(t, {"unlockTx", "wakeTx", "unlockRx", "wakeRx"}) /\ "send" \in Ops
  BY <1>1 DEF At, Ops
<1>9. CASE wakes
  <2>1. WokenBy(k, k', EventOf("send", q))
    BY <1>2, <1>3, <1>4, <1>9, WakeWakes
  <2>2. k'.pxCurrentTCB = t /\ task'[t].pc = "wakeRx" /\ task'[t].call.queue = q /\ Goto(t, "wakeRx")
    BY <1>2, <1>3, <1>9, <1>11, <2>1 DEF WokenBy, Goto, TaskState
  <2>3. Locks'
    <3>1. task'[t].pc \in LockedPcs /\ task'[t].pc \in {"unlockRx", "wakeRx"}
      BY <2>2 DEF LockedPcs
    <3>2. /\ \A o \in Queues : /\ queue'[o].cTxLock >= -1 /\ queue'[o].cRxLock >= -1
                               /\ o # q => queue'[o].cTxLock = -1 /\ queue'[o].cRxLock = -1
          /\ queue'[q].cTxLock = -1 /\ queue'[q].cRxLock # -1
      BY <1>4, <1>5, <1>6, <1>7, <1>8, <1>9
    <3> QED BY <2>2, <3>1, <3>2 DEF Locks, queueUNLOCKED
  <2>4. Untold("send", q)' = Untold("send", q) - 1
    BY <1>0, <1>5, <1>6, <1>9 DEF Untold, queueUNLOCKED
  <2> HIDE DEF wakes, pc
  <2> QED BY <1>1, <1>3, <1>4, <1>8, <1>12, <1>13, <2>1, <2>2, <2>3, <2>4, UnlockKeeps
<1>10. CASE ~wakes
  <2>1. k' = k /\ task'[t].pc = "resume" /\ task'[t].call.queue = q /\ Goto(t, "resume")
    BY <1>2, <1>3, <1>10, <1>11 DEF Goto, TaskState
  <2>2. Locks'
    <3>1. task'[t].pc \notin LockedPcs
      BY <2>1 DEF LockedPcs
    <3>2. \A o \in Queues : queue'[o].cTxLock = -1 /\ queue'[o].cRxLock = -1
      BY <1>4, <1>5, <1>6, <1>7, <1>8, <1>10
    <3> QED BY <1>3, <2>1, <3>1, <3>2 DEF Locks, queueUNLOCKED
  <2>3. Untold("send", q)' = Untold("send", q) \/ Waiting(k, ToSend(q)) = {}
    <3>1. CASE queue[q].cRxLock > 0
      BY <1>3, <1>4, <1>10, <3>1, StateMembers DEF Good
    <3>2. CASE queue[q].cRxLock = 0
      BY <1>0, <1>6, <1>10, <3>2 DEF Untold, queueUNLOCKED
    <3> QED BY <1>5, <3>1, <3>2
  <2> HIDE DEF wakes, pc
  <2> QED BY <1>1, <1>3, <1>4, <1>8, <1>12, <1>13, <2>1, <2>2, <2>3, UnlockKeeps
<1> QED BY <1>9, <1>10

\* The end of xTaskResumeAll: the caller goes on where after says.
LEMMA ResumedGoes ==
  ASSUME NEW t, NEW s, task[t] \in TaskState, Consistent(task[t]), task[t].pc \in {"resume", "unwind"},
         Resumed(t, s)
  PROVE  \E r : /\ r \in TaskState /\ Consistent(r) /\ task' = [task EXCEPT ![t] = r]
                /\ r.pc \in {"try", "yield", "expired", "return"}
                /\ r.call = task[t].call /\ r.after = task[t].after
                /\ \A op \in Ops, q \in Queues : /\ Waits(task[t], op, q) => Waits(r, op, q)
                                                 /\ Retries(task[t], op, q) => Retries(r, op, q)
                /\ Away(task[t]) => s.xYieldPending \/ Away(r)
<1> DEFINE x == task[t]
           after == task[t].after
<1>1. \/ after \in {"blocked", "retry", "expired"} /\ x.call \in QueueCalls
      \/ after = "delayed" /\ x.call \in DelayCalls
  BY DEF Consistent
<1>2. PICK pc : /\ Goto(t, pc)
                /\ \/ after = "blocked" /\ pc = (IF s.xYieldPending THEN "try" ELSE "yield")
                   \/ after = "retry" /\ pc = "try"
                   \/ after = "expired" /\ pc = "expired"
                   \/ after = "delayed" /\ pc = (IF s.xYieldPending THEN "return" ELSE "yield")
  BY <1>1 DEF Resumed
<1> DEFINE r == [x EXCEPT !.pc = pc]
<1>3. pc \in {"try", "yield", "expired", "return"} /\ pc \in Pcs
  BY <1>2 DEF Pcs, RunningPcs
<1>4. task' = [task EXCEPT ![t] = r]
  BY <1>2 DEF Goto
<1>5. /\ r \in TaskState /\ r.pc = pc /\ r.call = x.call /\ r.after = after
      /\ r.xEntryTimeSet = x.xEntryTimeSet
  <2> HIDE DEF x
  <2>1. x \in TaskState
    BY DEF x
  <2> QED BY <1>3, <2>1, GotoFields DEF x
<1> HIDE DEF r
<1>6. Consistent(r)
  BY <1>1, <1>2, <1>5 DEF Consistent, LockedPcs
<1>7. ASSUME NEW op \in Ops, NEW q \in Queues
      PROVE  /\ Waits(task[t], op, q) => Waits(r, op, q)
             /\ Retries(task[t], op, q) => Retries(r, op, q)
  <2>1. CASE after \in {"blocked", "retry"}
    BY <1>2, <1>5, <2>1 DEF Waits, Retries, EndingPcs
  <2>2. CASE after \in {"expired", "delayed"}
    BY <2>2 DEF Waits, Retries, EndingPcs
  <2> QED BY <1>1, <2>1, <2>2
<1>8. Away(task[t]) => s.xYieldPending \/ Away(r)
  BY <1>2, <1>5 DEF Away, EndingPcs
<1> QED BY <1>3, <1>4, <1>5, <1>6, <1>7, <1>8

Pended(s, counts, ticks, yield) ==
  [s EXCEPT !.xPendedCounts = counts, !.xPendedTicks = ticks, !.xYieldPending = yield]

LEMMA PendedFields ==
  ASSUME NEW s, Good(s), NEW counts \in Int, NEW ticks \in Int, NEW yield \in BOOLEAN, NEW r,
         r = Pended(s, counts, ticks, yield)
  PROVE  /\ Good(r) /\ SameLists(s, r)
         /\ r.uxSchedulerSuspended = s.uxSchedulerSuspended /\ r.xYieldPending = yield
<1>1. s \in KernelState
  BY DEF Good
<1>2. /\ r \in KernelState /\ SameReady(s, r) /\ SameBlocked(s, r) /\ SameEvents(s, r)
      /\ r.uxSchedulerSuspended = s.uxSchedulerSuspended /\ r.xYieldPending = yield
      /\ r.pxCurrentTCB = s.pxCurrentTCB
  BY <1>1 DEF Pended, KernelState, SameReady, SameBlocked, SameEvents
<1> QED BY <1>2, ListsSame

\* A step of xTaskResumeAll after which the scheduler runs again.
LEMMA ResumingKeeps ==
  ASSUME KernelIInv, NEW t \in Tasks, t = k.pxCurrentTCB, ~pendSV, task[t].pc \in {"resume", "unwind"},
         NEW r \in TaskState, Consistent(r), task' = [task EXCEPT ![t] = r], UNCHANGED queue,
         r.pc \in {"unwind", "try", "yield", "expired", "return"},
         \A op \in Ops, q \in Queues : /\ Waits(task[t], op, q) => Waits(r, op, q)
                                       /\ Retries(task[t], op, q) => Retries(r, op, q),
         Away(task[t]) => pendSV' \/ Away(r), pendSV' \in BOOLEAN,
         Good(k'), k'.pxCurrentTCB = t, k'.uxSchedulerSuspended = 0, Ready(k) \subseteq Ready(k'),
         \A e \in EventLists : Waiting(k', e) \subseteq Waiting(k, e),
         k.xYieldPending => k'.xYieldPending,
         \A x \in Ready(k') \ Ready(k) : Priority[x] > Priority[t] => k'.xYieldPending
  PROVE  KernelIInv'
<1>1. /\ Scheduling /\ Types /\ Locks /\ Preempting /\ t \in AllTasks /\ t # Idle
      /\ queue \in [Queues -> QueueState]
      /\ t \in Ready(k) \/ Away(task[t])
  BY Basics DEF KernelIInv, Scheduling, Types, CurrentReady
<1>2. r.pc \notin HoldingPcs /\ r.pc \notin LockedPcs /\ task[t].pc \notin LockedPcs /\ r.pc # "place"
      /\ r.pc \notin {"unlockRx", "wakeRx"} /\ task[t].pc \notin {"unlockRx", "wakeRx"}
  BY DEF HoldingPcs, LockedPcs
<1>3. t \in Ready(k') \/ Away(r) \/ (pendSV' /\ k'.uxSchedulerSuspended = 0)
  BY <1>1
<1>4. Scheduling'
  <2>1. k'.uxSchedulerSuspended = IF r.pc \in HoldingPcs THEN 1 ELSE 0
    BY <1>2
  <2>2. queue' \in [Queues -> QueueState]
    BY <1>1
  <2> QED BY <1>1, <1>3, <2>1, <2>2, CurrentSteps
<1>5. Locks'
  BY <1>1, <1>2, LocksKept
<1>6. Preempting'
  BY <1>1, PreemptingKept
<1>7. ASSUME NEW op \in Ops, NEW q \in Queues
      PROVE  Balanced(op, q)
  <2>1. Told(op, q)' = Told(op, q) /\ Told(op, q) \in Int
    BY <1>1, ToldType DEF Told, Supply, Untold, LockOf
  <2>2. Told(op, q)' <= Told(op, q)
    BY <2>1
  <2> QED BY <1>1, <2>2, OthersBalance
<1> QED BY <1>1, <1>2, <1>4, <1>5, <1>6, <1>7, Goes

LEMMA ResumeAllKeeps ==
  ASSUME KernelIInv, NEW t \in AllTasks, xTaskResumeAll(t)
  PROVE  KernelIInv'
<1> DEFINE before == k.uxSchedulerSuspended - 1
           s0 == [k EXCEPT !.uxSchedulerSuspended = before]
           s == MovePendingReady(s0)
           ticks == s.xPendedTicks
           yield == s.xYieldPending
           r1 == [task[t] EXCEPT !.pc = "unwind"]
<1>1. /\ At(t, {"resume"}) /\ UNCHANGED queue
      /\ k' = [s EXCEPT !.xPendedCounts = ticks]
      /\ (Goto(t, "unwind") /\ UNCHANGED pendSV) \/ Resumed(t, s)
  BY DEF xTaskResumeAll
<1>2. /\ t = k.pxCurrentTCB /\ task[t].pc = "resume" /\ t \in Tasks /\ ~pendSV
      /\ task[t] \in TaskState /\ Consistent(task[t]) /\ k.uxSchedulerSuspended = 1
      /\ Good(k) /\ Types
  BY <1>1, Acting DEF KernelIInv, Scheduling, HoldingPcs
<1>3. /\ Good(s0) /\ SameLists(k, s0) /\ s0.uxSchedulerSuspended = 0
      /\ s0.xYieldPending = k.xYieldPending
  <2>1. before = 0 /\ before \in Int
    BY <1>2
  <2> HIDE DEF before
  <2> QED BY <1>2, <2>1, SuspendFields
<1> HIDE DEF s0
<1>4. PendingMoved(s0, s)
  BY <1>3, MovePendingReadyMoves
<1> HIDE DEF s
<1>5. Good(s) /\ s \in KernelState /\ ticks \in Int /\ yield \in BOOLEAN
  BY <1>4, Fields DEF PendingMoved, Good
<1>6. /\ Good(k') /\ SameLists(s, k') /\ k'.uxSchedulerSuspended = 0 /\ k'.xYieldPending = s.xYieldPending
  <2>1. k' = Pended(s, ticks, ticks, yield)
    BY <1>1, <1>5 DEF Pended, KernelState
  <2>2. s.uxSchedulerSuspended = 0
    BY <1>3, <1>4 DEF PendingMoved
  <2> HIDE DEF ticks, yield
  <2>3. /\ Good(k') /\ SameLists(s, k') /\ k'.uxSchedulerSuspended = s.uxSchedulerSuspended
        /\ k'.xYieldPending = yield
    BY <1>5, <2>1, PendedFields
  <2> USE DEF yield
  <2> QED BY <2>2, <2>3
<1>7. /\ k'.pxCurrentTCB = t /\ Ready(k') = Ready(k) \cup Pending(k)
      /\ \A e \in EventLists : Waiting(k', e) = Waiting(k, e)
      /\ k.xYieldPending => k'.xYieldPending
      /\ (\E x \in Pending(k) : Priority[x] > Priority[t]) => k'.xYieldPending
  BY <1>2, <1>3, <1>4, <1>6 DEF SameLists, PendingMoved
<1>8. \A x \in Ready(k') \ Ready(k) : Priority[x] > Priority[t] => k'.xYieldPending
  BY <1>7
<1>9. CASE Goto(t, "unwind") /\ UNCHANGED pendSV
  <2>1. task' = [task EXCEPT ![t] = r1]
    BY <1>9 DEF Goto
  <2>2. /\ r1 \in TaskState /\ Consistent(r1) /\ r1.pc = "unwind" /\ r1.call = task[t].call
        /\ r1.after = task[t].after
        /\ \A op \in Ops, q \in Queues : /\ Waits(task[t], op, q) => Waits(r1, op, q)
                                         /\ Retries(task[t], op, q) => Retries(r1, op, q)
    <3>1. "unwind" \in Pcs /\ "unwind" \in {"unwind", "yield"}
      BY DEF Pcs
    <3> QED BY <1>2, <3>1, EndingSteps
  <2> HIDE DEF r1
  <2>3. Away(task[t]) => Away(r1)
    BY <2>2 DEF Away, EndingPcs
  <2>4. pendSV' \in BOOLEAN
    BY <1>2, <1>9 DEF Types
  <2> QED BY <1>1, <1>2, <1>6, <1>7, <1>8, <2>1, <2>2, <2>3, <2>4, ResumingKeeps
<1>10. CASE Resumed(t, s)
  <2>1. PICK r : /\ r \in TaskState /\ Consistent(r) /\ task' = [task EXCEPT ![t] = r]
                 /\ r.pc \in {"try", "yield", "expired", "return"}
                 /\ r.call = task[t].call /\ r.after = task[t].after
                 /\ \A op \in Ops, q \in Queues : /\ Waits(task[t], op, q) => Waits(r, op, q)
                                                  /\ Retries(task[t], op, q) => Retries(r, op, q)
                 /\ Away(task[t]) => s.xYieldPending \/ Away(r)
    BY <1>2, <1>10, ResumedGoes
  <2>2. pendSV' = s.xYieldPending /\ pendSV' \in BOOLEAN
    BY <1>5, <1>10 DEF Resumed
  <2>3. Away(task[t]) => pendSV' \/ Away(r)
    BY <2>1, <2>2
  <2>4. Ready(k) \subseteq Ready(k') /\ \A e \in EventLists : Waiting(k', e) \subseteq Waiting(k, e)
    BY <1>7
  <2>5. /\ task[t].pc \in {"resume", "unwind"}
        /\ r.pc \in {"unwind", "try", "yield", "expired", "return"}
    BY <1>2, <2>1
  <2> QED BY <1>1, <1>2, <1>6, <1>7, <1>8, <2>1, <2>2, <2>3, <2>4, <2>5, ResumingKeeps
<1> QED BY <1>1, <1>9, <1>10

LEMMA UnwindKeeps ==
  ASSUME KernelIInv, NEW t \in AllTasks, UnwindPendedTick(t)
  PROVE  KernelIInv'
<1> DEFINE i == IncrementTick(k)
           yield == SwitchRequired(k)
           s == [i EXCEPT !.xYieldPending = yield]
           counts == s.xPendedCounts - 1
           ticks == IF k.xPendedCounts = 1 THEN 0 ELSE s.xPendedTicks
           due == Members(Due(Counted(k)))
<1>1. /\ At(t, {"unwind"}) /\ UNCHANGED queue
      /\ k' = [s EXCEPT !.xPendedCounts = counts, !.xPendedTicks = ticks]
      /\ Resumed(t, s) \/ UNCHANGED <<task, pendSV>>
  BY DEF UnwindPendedTick
<1>2. /\ t = k.pxCurrentTCB /\ task[t].pc = "unwind" /\ t \in Tasks /\ ~pendSV
      /\ task[t] \in TaskState /\ Consistent(task[t]) /\ k.uxSchedulerSuspended = 0
      /\ Good(k) /\ Types /\ task \in [AllTasks -> TaskState]
  BY <1>1, Acting DEF KernelIInv, Scheduling, HoldingPcs
<1>3. Ticked(k, i)
  BY <1>2, IncrementTickTicks
<1>4. /\ Good(i) /\ i \in KernelState /\ SameControl(k, i) /\ due \subseteq Tasks
      /\ Ready(i) = Ready(k) \cup due /\ EventsLess(k, i, due)
  BY <1>3 DEF Ticked, Good
<1>5. /\ yield \in BOOLEAN /\ (k.xYieldPending => yield)
      /\ \A x \in due : Priority[x] >= Priority[t] => yield
  BY <1>2 DEF SwitchRequired
<1> HIDE DEF i, yield, due
<1>6. s \in KernelState /\ s.xYieldPending = yield
  BY <1>4, <1>5 DEF KernelState
<1>7. counts \in Int /\ ticks \in Int
  <2>1. s.xPendedCounts \in Int /\ s.xPendedTicks \in Int
    BY <1>6, Fields
  <2> QED BY <2>1
<1>8. k' = Pended(i, counts, ticks, yield)
  BY <1>1, <1>4 DEF Pended, KernelState
<1> HIDE DEF counts, ticks
<1>9. /\ Good(k') /\ SameLists(i, k') /\ k'.uxSchedulerSuspended = i.uxSchedulerSuspended
      /\ k'.xYieldPending = yield
  BY <1>4, <1>5, <1>7, <1>8, PendedFields
<1>10. /\ k'.pxCurrentTCB = t /\ k'.uxSchedulerSuspended = 0 /\ Ready(k') = Ready(k) \cup due
       /\ \A e \in EventLists : Waiting(k', e) \subseteq Waiting(k, e)
       /\ k.xYieldPending => k'.xYieldPending
  BY <1>2, <1>4, <1>5, <1>9 DEF SameLists, SameControl, EventsLess
<1>11. \A x \in Ready(k') \ Ready(k) : Priority[x] > Priority[t] => k'.xYieldPending
  <2>1. ASSUME NEW x \in Ready(k') \ Ready(k), Priority[x] > Priority[t]
        PROVE  k'.xYieldPending
    <3>1. x \in due /\ x \in AllTasks
      BY <1>4, <1>10, Basics
    <3>2. Priority[x] \in Nat /\ Priority[t] \in Nat
      BY <3>1, Basics
    <3>3. Priority[x] >= Priority[t]
      BY <2>1, <3>2
    <3> QED BY <1>5, <1>9, <3>1, <3>3
  <2> QED BY <2>1
<1>12. CASE UNCHANGED <<task, pendSV>>
  <2> DEFINE r == task[t]
  <2>1. task' = [task EXCEPT ![t] = r]
    BY <1>2, <1>12
  <2>2. /\ \A op \in Ops, q \in Queues : /\ Waits(task[t], op, q) => Waits(r, op, q)
                                         /\ Retries(task[t], op, q) => Retries(r, op, q)
        /\ Away(task[t]) => Away(r)
        /\ r \in TaskState /\ Consistent(r) /\ r.pc = "unwind" /\ task[t].pc = "unwind"
    BY <1>2
  <2>3. pendSV' \in BOOLEAN
    BY <1>2, <1>12 DEF Types
  <2> HIDE DEF r
  <2>4. Ready(k) \subseteq Ready(k')
    BY <1>10
  <2> QED BY <1>1, <1>2, <1>9, <1>10, <1>11, <2>1, <2>2, <2>3, <2>4, ResumingKeeps
<1>13. CASE Resumed(t, s)
  <2> HIDE DEF s
  <2>1. PICK r : /\ r \in TaskState /\ Consistent(r) /\ task' = [task EXCEPT ![t] = r]
                 /\ r.pc \in {"try", "yield", "expired", "return"}
                 /\ r.call = task[t].call /\ r.after = task[t].after
                 /\ \A op \in Ops, q \in Queues : /\ Waits(task[t], op, q) => Waits(r, op, q)
                                                  /\ Retries(task[t], op, q) => Retries(r, op, q)
                 /\ Away(task[t]) => s.xYieldPending \/ Away(r)
    BY <1>2, <1>13, ResumedGoes
  <2>2. pendSV' = s.xYieldPending /\ pendSV' \in BOOLEAN
    BY <1>5, <1>6, <1>13 DEF Resumed
  <2>3. Away(task[t]) => pendSV' \/ Away(r)
    BY <2>1, <2>2
  <2>4. Ready(k) \subseteq Ready(k')
    BY <1>10
  <2>5. /\ task[t].pc \in {"resume", "unwind"}
        /\ r.pc \in {"unwind", "try", "yield", "expired", "return"}
    BY <1>2, <2>1
  <2> QED BY <1>1, <1>2, <1>9, <1>10, <1>11, <2>1, <2>2, <2>3, <2>4, <2>5, ResumingKeeps
<1> QED BY <1>1, <1>12, <1>13

LEMMA YieldKeeps ==
  ASSUME KernelIInv, NEW t \in AllTasks, Yield(t)
  PROVE  KernelIInv'
<1> DEFINE pc == IF task[t].after = "delayed" THEN "return" ELSE "try"
           r == [task[t] EXCEPT !.pc = pc]
<1>1. At(t, {"yield"}) /\ task' = [task EXCEPT ![t] = r] /\ pendSV' = TRUE /\ UNCHANGED <<k, queue>>
  BY DEF Yield, Goto
<1>2. /\ t = k.pxCurrentTCB /\ task[t].pc = "yield" /\ t \in Tasks /\ t # Idle
      /\ task[t] \in TaskState /\ Consistent(task[t]) /\ k.uxSchedulerSuspended = 0
      /\ Scheduling /\ Types /\ Locks /\ Preempting
  BY <1>1, Acting, Basics DEF KernelIInv, Scheduling, HoldingPcs
<1>3. pc \in {"return", "try"} /\ pc \in Pcs /\ (task[t].after # "delayed" <=> pc = "try")
  BY DEF Pcs, RunningPcs
<1> HIDE DEF pc
<1>4. /\ r \in TaskState /\ r.pc = pc /\ r.call = task[t].call /\ r.after = task[t].after
      /\ r.xEntryTimeSet = task[t].xEntryTimeSet
  BY <1>2, <1>3, GotoFields
<1> HIDE DEF r
<1>5. Consistent(r)
  BY <1>2, <1>3, <1>4 DEF Consistent, LockedPcs
<1>6. ASSUME NEW op \in Ops, NEW q \in Queues
      PROVE  /\ Waits(task[t], op, q) => Waits(r, op, q)
             /\ Retries(task[t], op, q) => Retries(r, op, q)
  BY <1>2, <1>3, <1>4 DEF Waits, Retries
<1>7. Scheduling'
  <2>1. r.pc \notin HoldingPcs
    BY <1>3, <1>4 DEF HoldingPcs
  <2> QED BY <1>1, <1>2, <1>4, <1>5, <2>1, CurrentSteps DEF Types
<1>8. Locks'
  BY <1>1, <1>2, <1>3, <1>4, LocksKept DEF LockedPcs
<1>9. Preempting'
  BY <1>1 DEF Preempting
<1>10. ASSUME NEW op \in Ops, NEW q \in Queues
       PROVE  Balanced(op, q)
  <2>1. Told(op, q)' = Told(op, q) /\ Told(op, q) \in Int
    BY <1>1, <1>2, ToldType DEF Told, Supply, Untold, LockOf
  <2>2. Told(op, q)' <= Told(op, q)
    BY <2>1
  <2> QED BY <1>1, <1>2, <1>6, <2>2, OthersBalance
<1>11. /\ k'.pxCurrentTCB = t /\ r.pc # "place"
       /\ \A e \in EventLists : Waiting(k', e) \subseteq Waiting(k, e)
  BY <1>1, <1>2, <1>3, <1>4
<1> QED BY <1>1, <1>2, <1>6, <1>7, <1>8, <1>9, <1>10, <1>11, Goes


-----------------------------------------------------------------------------
(* A call that succeeds, and the interrupts.                               *)

\* The running task takes a message or a place, and leaves one for the others.
Exchanged(t, c, op, q, other) ==
  /\ At(t, {"app", "try"}) /\ (task[t].pc # "app" => c = task[t].call)
  /\ c \in QueueCalls /\ op = c.op /\ q = c.queue /\ other \in Ops /\ other # op
  /\ queue' \in [Queues -> QueueState]
  /\ \A o \in Queues : queue'[o].cTxLock = queue[o].cTxLock /\ queue'[o].cRxLock = queue[o].cRxLock
  /\ \A o \in Queues : o # q => queue'[o] = queue[o]
  /\ Supply(op, q)' = Supply(op, q) - 1 /\ Supply(other, q)' = Supply(other, q) + 1
  /\ k' = Wake(k, EventOf(other, q)) /\ pendSV' \in BOOLEAN /\ task' = [task EXCEPT ![t] = AtApp]

LEMMA ExchangeKeeps ==
  ASSUME KernelIInv, NEW t \in Tasks, NEW c, NEW op, NEW q, NEW other, Exchanged(t, c, op, q, other)
  PROVE  KernelIInv'
<1> DEFINE r == AtApp
<1>0. /\ At(t, {"app", "try"}) /\ (task[t].pc # "app" => c = task[t].call)
      /\ c \in QueueCalls /\ op = c.op /\ q = c.queue /\ other \in Ops /\ other # op
      /\ queue' \in [Queues -> QueueState]
      /\ \A o \in Queues : queue'[o].cTxLock = queue[o].cTxLock /\ queue'[o].cRxLock = queue[o].cRxLock
      /\ \A o \in Queues : o # q => queue'[o] = queue[o]
      /\ Supply(op, q)' = Supply(op, q) - 1 /\ Supply(other, q)' = Supply(other, q) + 1
      /\ k' = Wake(k, EventOf(other, q)) /\ pendSV' \in BOOLEAN /\ task' = [task EXCEPT ![t] = AtApp]
  BY DEF Exchanged
<1>1. /\ t = k.pxCurrentTCB /\ ~pendSV /\ task[t].pc \in {"app", "try"} /\ t \in AllTasks /\ t # Idle
      /\ Good(k) /\ t \in Ready(k) /\ k.uxSchedulerSuspended = 0
      /\ task \in [AllTasks -> TaskState]
      /\ Scheduling /\ Types /\ Locks /\ Preempting /\ Waiters
  BY <1>0, Acting, Basics DEF Away, EndingPcs, HoldingPcs, KernelIInv, Scheduling
<1>2. op \in Ops /\ q \in Queues /\ EventOf(other, q) \in EventLists
  BY <1>0, CallFacts, Basics DEF EventOf
<1>3. WokenBy(k, k', EventOf(other, q))
  BY <1>0, <1>1, <1>2, WakeWakes
<1>4. /\ Good(k') /\ k'.pxCurrentTCB = t /\ k'.uxSchedulerSuspended = 0 /\ Ready(k) \subseteq Ready(k')
      /\ \A o \in EventLists : Waiting(k', o) \subseteq Waiting(k, o)
      /\ k.xYieldPending => k'.xYieldPending
      /\ \A x \in Ready(k') \ Ready(k) : Priority[x] > Priority[k.pxCurrentTCB] => k'.xYieldPending
  BY <1>0, <1>1, <1>3 DEF WokenBy
<1>5. r \in TaskState /\ Consistent(r) /\ r.pc = "app"
  BY AtAppState
<1> HIDE DEF r
<1>6. task' = [task EXCEPT ![t] = r]
  BY <1>0 DEF r
<1>7. Scheduling'
  <2>1. r.pc \notin HoldingPcs /\ t \in Ready(k')
    BY <1>0, <1>1, <1>4, <1>5 DEF HoldingPcs
  <2>2. k'.uxSchedulerSuspended = IF r.pc \in HoldingPcs THEN 1 ELSE 0
    BY <1>0, <1>4, <2>1
  <2>3. t = Idle => r.pc = "app"
    BY <1>0, <1>5
  <2> QED BY <1>0, <1>1, <1>4, <1>5, <1>6, <2>1, <2>2, <2>3, CurrentSteps
<1>8. Locks'
  <2>1. /\ r.pc \notin LockedPcs /\ task[t].pc \notin LockedPcs
        /\ r.pc \notin {"unlockRx", "wakeRx"} /\ task[t].pc \notin {"unlockRx", "wakeRx"}
    BY <1>1, <1>5 DEF LockedPcs
  <2>2. /\ r.pc \in LockedPcs <=> task[t].pc \in LockedPcs
        /\ r.pc \in LockedPcs => r.call = task[t].call /\ r.call.queue \in Queues
        /\ r.pc \in {"unlockRx", "wakeRx"} <=> task[t].pc \in {"unlockRx", "wakeRx"}
    BY <2>1
  <2>3. \A o \in Queues : queue'[o].cTxLock = queue[o].cTxLock /\ queue'[o].cRxLock = queue[o].cRxLock
    BY <1>0
  <2> QED BY <1>1, <1>4, <1>6, <2>2, <2>3, LocksKept
<1>9. Preempting'
  BY <1>0, <1>1, <1>4, PreemptingKept
<1>10. ASSUME NEW x \in Ops, NEW o \in Queues, Retries(task[t], x, o)
       PROVE  x = op /\ o = q
  BY <1>0, <1>1, <1>10 DEF Retries, EndingPcs
<1>11. ASSUME NEW x \in Ops, NEW o \in Queues
       PROVE  Balanced(x, o)
  <2>1. Told(x, o) \in Int /\ Told(other, q) \in Int /\ Told(op, q) \in Int
    BY <1>0, <1>1, <1>2, ToldType
  <2>2. CASE o # q
    <3>1. Told(x, o)' = Told(x, o)
      BY <1>0, <2>2 DEF Told, Supply, Untold, LockOf
    <3>2. Told(x, o)' <= Told(x, o) /\ ~Retries(task[t], x, o)
      BY <1>0, <1>10, <2>1, <2>2, <3>1
    <3> QED BY <1>0, <1>1, <1>4, <1>6, <3>2, OthersBalance
  <2>3. \A y \in Ops : Untold(y, q)' = Untold(y, q)
    BY <1>0, <1>2 DEF Untold, LockOf
  <2>4. Supply(op, q) \in Int /\ Supply(other, q) \in Int /\ Untold(op, q) \in Int /\ Untold(other, q) \in Int
    BY <1>0, <1>1, <1>2, ToldType
  <2>5. CASE o = q /\ x = op
    <3>1. Told(x, o)' <= Told(x, o) - 1
      BY <1>0, <1>2, <2>3, <2>4, <2>5 DEF Told
    <3> QED BY <1>0, <1>1, <1>4, <1>6, <3>1, OthersBalance
  <2>6. CASE o = q /\ x # op
    <3>1. x = other
      BY <1>0, <1>2, <2>6 DEF Ops
    <3>2. Told(x, o)' <= Told(x, o) + 1
      BY <1>0, <2>3, <2>4, <2>6, <3>1 DEF Told
    <3>3. WokenBy(k, k', EventOf(x, o)) /\ ~Retries(task[t], x, o)
      BY <1>0, <1>3, <1>10, <2>6, <3>1
    <3> QED BY <1>0, <1>1, <1>6, <3>2, <3>3, WakeBalances
  <2> QED BY <1>0, <2>2, <2>5, <2>6
<1> QED BY <1>0, <1>1, <1>4, <1>5, <1>6, <1>7, <1>8, <1>9, <1>11, Goes

LEMMA GenericSendKeeps ==
  ASSUME KernelIInv, NEW t \in AllTasks, xQueueGenericSend(t)
  PROVE  KernelIInv'
<1>1. PICK c \in Calls[t] :
        /\ Calling(t, "send", c)
        /\ IF queue[c.queue].uxMessagesWaiting < uxLength[c.queue]
             THEN /\ queue' = [queue EXCEPT ![c.queue].uxMessagesWaiting = @ + 1]
                  /\ k' = Wake(k, ToReceive(c.queue))
                  /\ pendSV' = HigherWoken(k, ToReceive(c.queue))
                  /\ Return(t)
             ELSE NotReady(t, c)
  BY DEF xQueueGenericSend
<1>2. c \in QueueCalls /\ c.op = "send" /\ c.queue \in Queues /\ t \in Tasks
  BY <1>1, CallFacts DEF Calling, AllTasks
<1>3. At(t, {"app", "try"}) /\ (task[t].pc # "app" => c = task[t].call)
  BY <1>1 DEF Calling
<1>4. Types /\ Locks /\ queue \in [Queues -> QueueState]
  BY DEF KernelIInv, Scheduling, Types
<1> DEFINE q == c.queue
<1>5. queue[q] \in QueueState /\ uxLength[q] \in Int /\ queue[q].uxMessagesWaiting \in Int
  BY <1>2, <1>4, KernelAssumption DEF QueueState
<1>6. CASE queue[q].uxMessagesWaiting < uxLength[q]
  <2> DEFINE n == queue[q].uxMessagesWaiting + 1
             other == "receive"
  <2>1. queue' = [queue EXCEPT ![q].uxMessagesWaiting = n]
    BY <1>1, <1>6
  <2>2. n \in Int /\ n = queue[q].uxMessagesWaiting + 1
    BY <1>5
  <2> HIDE DEF n
  <2>3. /\ queue' \in [Queues -> QueueState]
        /\ \A o \in Queues : queue'[o].cTxLock = queue[o].cTxLock /\ queue'[o].cRxLock = queue[o].cRxLock
        /\ \A o \in Queues \ {q} : queue'[o] = queue[o]
        /\ queue'[q].uxMessagesWaiting = n
    BY <1>2, <1>4, <2>1, <2>2 DEF QueueState
  <2>4. Supply("send", q)' = Supply("send", q) - 1 /\ Supply(other, q)' = Supply(other, q) + 1
    BY <1>5, <2>2, <2>3 DEF Supply
  <2>5. k' = Wake(k, EventOf(other, q)) /\ pendSV' \in BOOLEAN /\ task' = [task EXCEPT ![t] = AtApp]
    BY <1>1, <1>6 DEF EventOf, HigherWoken, Return
  <2>6. PICK x, o, y : x = "send" /\ o = q /\ y = other
    OBVIOUS
  <2> HIDE DEF q, other
  <2>7. /\ c \in QueueCalls /\ x = c.op /\ o = c.queue /\ y \in Ops /\ y # x
    BY <1>2, <2>6 DEF Ops, q, other
  <2>8. /\ \A z \in Queues : z # o => queue'[z] = queue[z]
        /\ Supply(x, o)' = Supply(x, o) - 1 /\ Supply(y, o)' = Supply(y, o) + 1
        /\ k' = Wake(k, EventOf(y, o))
    BY <2>3, <2>4, <2>5, <2>6
  <2>9. Exchanged(t, c, x, o, y)
    BY <1>3, <2>3, <2>5, <2>7, <2>8 DEF Exchanged
  <2> QED BY <1>2, <2>9, ExchangeKeeps
<1>7. CASE ~(queue[q].uxMessagesWaiting < uxLength[q])
  <2>1. NotReady(t, c)
    BY <1>1, <1>7
  <2>2. queue[q].uxMessagesWaiting >= uxLength[q]
    BY <1>5, <1>7
  <2>3. Told(c.op, c.queue) <= 0
    BY <1>2, <1>4, <2>2, UnreadyTold
  <2> QED BY <1>2, <1>3, <2>1, <2>3, NotReadyKeeps
<1> QED BY <1>6, <1>7

LEMMA ReceiveKeeps ==
  ASSUME KernelIInv, NEW t \in AllTasks, xQueueReceive(t)
  PROVE  KernelIInv'
<1>1. PICK c \in Calls[t] :
        /\ Calling(t, "receive", c)
        /\ IF queue[c.queue].uxMessagesWaiting > 0
             THEN /\ queue' = [queue EXCEPT ![c.queue].uxMessagesWaiting = @ - 1]
                  /\ k' = Wake(k, ToSend(c.queue))
                  /\ pendSV' = HigherWoken(k, ToSend(c.queue))
                  /\ Return(t)
             ELSE NotReady(t, c)
  BY DEF xQueueReceive
<1>2. c \in QueueCalls /\ c.op = "receive" /\ c.queue \in Queues /\ t \in Tasks
  BY <1>1, CallFacts DEF Calling, AllTasks
<1>3. At(t, {"app", "try"}) /\ (task[t].pc # "app" => c = task[t].call)
  BY <1>1 DEF Calling
<1>4. Types /\ Locks /\ queue \in [Queues -> QueueState]
  BY DEF KernelIInv, Scheduling, Types
<1> DEFINE q == c.queue
<1>5. queue[q] \in QueueState /\ uxLength[q] \in Int /\ queue[q].uxMessagesWaiting \in Int
  BY <1>2, <1>4, KernelAssumption DEF QueueState
<1>6. CASE queue[q].uxMessagesWaiting > 0
  <2> DEFINE n == queue[q].uxMessagesWaiting - 1
             other == "send"
  <2>1. queue' = [queue EXCEPT ![q].uxMessagesWaiting = n]
    BY <1>1, <1>6
  <2>2. n \in Int /\ n = queue[q].uxMessagesWaiting - 1
    BY <1>5
  <2> HIDE DEF n
  <2>3. /\ queue' \in [Queues -> QueueState]
        /\ \A o \in Queues : queue'[o].cTxLock = queue[o].cTxLock /\ queue'[o].cRxLock = queue[o].cRxLock
        /\ \A o \in Queues \ {q} : queue'[o] = queue[o]
        /\ queue'[q].uxMessagesWaiting = n
    BY <1>2, <1>4, <2>1, <2>2 DEF QueueState
  <2>4. Supply("receive", q)' = Supply("receive", q) - 1 /\ Supply(other, q)' = Supply(other, q) + 1
    BY <1>5, <2>2, <2>3 DEF Supply
  <2>5. k' = Wake(k, EventOf(other, q)) /\ pendSV' \in BOOLEAN /\ task' = [task EXCEPT ![t] = AtApp]
    BY <1>1, <1>6 DEF EventOf, HigherWoken, Return
  <2>6. PICK x, o, y : x = "receive" /\ o = q /\ y = other
    OBVIOUS
  <2> HIDE DEF q, other
  <2>7. /\ c \in QueueCalls /\ x = c.op /\ o = c.queue /\ y \in Ops /\ y # x
    BY <1>2, <2>6 DEF Ops, q, other
  <2>8. /\ \A z \in Queues : z # o => queue'[z] = queue[z]
        /\ Supply(x, o)' = Supply(x, o) - 1 /\ Supply(y, o)' = Supply(y, o) + 1
        /\ k' = Wake(k, EventOf(y, o))
    BY <2>3, <2>4, <2>5, <2>6
  <2>9. Exchanged(t, c, x, o, y)
    BY <1>3, <2>3, <2>5, <2>7, <2>8 DEF Exchanged
  <2> QED BY <1>2, <2>9, ExchangeKeeps
<1>7. CASE ~(queue[q].uxMessagesWaiting > 0)
  <2>1. NotReady(t, c)
    BY <1>1, <1>7
  <2>2. queue[q].uxMessagesWaiting <= 0
    BY <1>5, <1>7
  <2>3. Told(c.op, c.queue) <= 0
    BY <1>2, <1>4, <2>2, UnreadyTold
  <2> QED BY <1>2, <1>3, <2>1, <2>3, NotReadyKeeps
<1> QED BY <1>6, <1>7

\* A switch is asked for.
LEMMA AskedKeeps ==
  ASSUME KernelIInv, task' = task, k' = k, queue' = queue, pendSV' \in BOOLEAN, pendSV => pendSV'
  PROVE  KernelIInv'
<1>1. Scheduling /\ Types /\ Locks /\ Preempting /\ Waiters /\ Supplied /\ Placing
  BY DEF KernelIInv, Scheduling
<1>2. Scheduling'
  BY <1>1 DEF Scheduling, Types, Control, CurrentReady
<1>3. Locks' /\ Waiters' /\ Placing' /\ Preempting'
  <2>1. Locks'
    BY <1>1 DEF Locks
  <2>2. Waiters'
    BY <1>1 DEF Waiters
  <2>3. Placing'
    BY <1>1 DEF Placing, Told, Supply, Untold, LockOf
  <2>4. Preempting'
    BY <1>1 DEF Preempting
  <2> QED BY <2>1, <2>2, <2>3, <2>4
<1>4. Supplied'
  BY <1>1 DEF Supplied, Told, Supply, Untold, LockOf, WillRetry
<1> QED BY <1>2, <1>3, <1>4 DEF KernelIInv

LEMMA TaskDelayKeeps ==
  ASSUME KernelIInv, NEW t \in AllTasks, vTaskDelay(t)
  PROVE  KernelIInv'
<1>1. PICK c \in Calls[t] :
        /\ Calling(t, "delay", c)
        /\ IF c.ticks > 0
             THEN /\ task' = [task EXCEPT ![t] = [AtApp EXCEPT !.pc = "suspend", !.call = c,
                                                             !.ticks = c.ticks]]
                  /\ UNCHANGED pendSV
             ELSE pendSV' = TRUE /\ UNCHANGED task
        /\ UNCHANGED <<k, queue, waited>>
  BY DEF vTaskDelay
<1>2. t \in Tasks
  BY <1>1, CallFacts DEF AllTasks
<1>3. CASE c.ticks > 0
  BY <1>1, <1>2, <1>3, StartDelay
<1>4. CASE ~(c.ticks > 0)
  BY <1>1, <1>4, AskedKeeps
<1> QED BY <1>3, <1>4

\* An interrupt: the running task stays where it is.
LEMMA InterruptKeeps ==
  ASSUME KernelIInv, UNCHANGED task, Good(k'), k'.pxCurrentTCB = k.pxCurrentTCB,
         k'.uxSchedulerSuspended = k.uxSchedulerSuspended, Ready(k) \subseteq Ready(k'),
         \A e \in EventLists : Waiting(k', e) \subseteq Waiting(k, e),
         k.xYieldPending => k'.xYieldPending,
         \A x \in Ready(k') \ Ready(k) :
           Priority[x] > Priority[k.pxCurrentTCB] => k'.xYieldPending \/ pendSV',
         queue' \in [Queues -> QueueState], pendSV' \in BOOLEAN, pendSV => pendSV',
         Locks', Placing', \A op \in Ops, q \in Queues : Balanced(op, q)
  PROVE  KernelIInv'
<1> DEFINE t == k.pxCurrentTCB
           r == task[t]
<1>1. /\ Scheduling /\ Types /\ Waiters /\ Supplied /\ Preempting /\ t \in AllTasks
      /\ task \in [AllTasks -> TaskState]
  BY SchedulingFacts DEF KernelIInv, Scheduling, Types
<1>2. Scheduling'
  BY <1>1, TasksStay
<1>3. Types'
  BY <1>2 DEF Scheduling
<1>4. task' = [task EXCEPT ![t] = r]
  BY <1>1
<1>5. \A op \in Ops, q \in Queues : Waits(task[t], op, q) => Waits(r, op, q)
  OBVIOUS
<1> HIDE DEF t, r
<1>6. Waiters'
  BY <1>1, <1>4, <1>5, WaitersKept
<1>7. Supplied'
  BY <1>1, <1>3, SuppliedNext
<1>8. Preempting'
  BY <1>1, PreemptingKept
<1> QED BY <1>2, <1>6, <1>7, <1>8 DEF KernelIInv

\* The part of it that has to do with the queues, if they are left alone.
LEMMA QueuesAlone ==
  ASSUME KernelIInv, UNCHANGED <<task, queue>>, k'.pxCurrentTCB = k.pxCurrentTCB,
         \A e \in EventLists : Waiting(k', e) \subseteq Waiting(k, e)
  PROVE  /\ queue' \in [Queues -> QueueState] /\ Locks' /\ Placing'
         /\ \A op \in Ops, q \in Queues : Balanced(op, q)
<1> DEFINE t == k.pxCurrentTCB
           r == task[t]
<1>1. /\ Scheduling /\ Types /\ Locks /\ Placing /\ t \in AllTasks
      /\ task \in [AllTasks -> TaskState] /\ queue \in [Queues -> QueueState]
  BY SchedulingFacts DEF KernelIInv, Scheduling, Types
<1>2. Locks' /\ Placing'
  <2>1. Locks'
    BY <1>1 DEF Locks
  <2>2. Placing'
    BY <1>1 DEF Placing, Told, Supply, Untold, LockOf
  <2> QED BY <2>1, <2>2
<1>3. task' = [task EXCEPT ![t] = r]
  BY <1>1
<1>4. ASSUME NEW op \in Ops, NEW q \in Queues
      PROVE  Balanced(op, q)
  <2>1. Told(op, q)' = Told(op, q) /\ Told(op, q) \in Int
    BY <1>1, ToldType DEF Told, Supply, Untold, LockOf
  <2>2. Told(op, q)' <= Told(op, q) /\ (Retries(task[t], op, q) => Retries(r, op, q))
    BY <2>1
  <2> HIDE DEF t, r
  <2> QED BY <1>1, <1>3, <2>2, OthersBalance
<1> QED BY <1>1, <1>2, <1>4

LEMMA TickKeeps ==
  ASSUME KernelIInv, xPortSysTickHandler
  PROVE  KernelIInv'
<1>1. Good(k) /\ k \in KernelState /\ pendSV \in BOOLEAN /\ k.pxCurrentTCB \in AllTasks
  BY SchedulingFacts DEF KernelIInv, Scheduling, Types
<1>2. CASE k.uxSchedulerSuspended = 0
  <2> DEFINE i == IncrementTick(k)
             due == Members(Due(Counted(k)))
             required == SwitchRequired(k)
  <2>1. /\ k' = i /\ pendSV' = (pendSV \/ required) /\ UNCHANGED <<task, queue>>
    BY <1>2 DEF xPortSysTickHandler
  <2>2. Ticked(k, i)
    BY <1>1, IncrementTickTicks
  <2>3. /\ Good(i) /\ SameControl(k, i) /\ due \subseteq Tasks /\ Ready(i) = Ready(k) \cup due
        /\ EventsLess(k, i, due)
    BY <2>2 DEF Ticked
  <2>4. \A x \in due : Priority[x] >= Priority[k.pxCurrentTCB] => required
    BY DEF SwitchRequired
  <2> HIDE DEF i, due, required
  <2>5. /\ Good(k') /\ k'.pxCurrentTCB = k.pxCurrentTCB
        /\ k'.uxSchedulerSuspended = k.uxSchedulerSuspended /\ k'.xYieldPending = k.xYieldPending
        /\ Ready(k) \subseteq Ready(k') /\ Ready(k') \ Ready(k) \subseteq due
        /\ \A e \in EventLists : Waiting(k', e) \subseteq Waiting(k, e)
    BY <2>1, <2>3 DEF SameControl, EventsLess
  <2>6. pendSV' \in BOOLEAN /\ (pendSV => pendSV') /\ (required => pendSV')
    BY <2>1
  <2>7. \A x \in Ready(k') \ Ready(k) :
          Priority[x] > Priority[k.pxCurrentTCB] => k'.xYieldPending \/ pendSV'
    <3>1. ASSUME NEW x \in Ready(k') \ Ready(k), Priority[x] > Priority[k.pxCurrentTCB]
          PROVE  pendSV'
      <4>1. x \in due /\ x \in AllTasks
        BY <2>3, <2>5, <3>1, Basics
      <4>2. Priority[x] \in Nat /\ Priority[k.pxCurrentTCB] \in Nat
        BY <1>1, <4>1, Basics
      <4>3. Priority[x] >= Priority[k.pxCurrentTCB]
        BY <3>1, <4>2
      <4> QED BY <2>4, <2>6, <4>1, <4>3
    <3> QED BY <3>1
  <2>8. /\ queue' \in [Queues -> QueueState] /\ Locks' /\ Placing'
        /\ \A op \in Ops, q \in Queues : Balanced(op, q)
    BY <2>1, <2>5, QueuesAlone
  <2> QED BY <2>1, <2>5, <2>6, <2>7, <2>8, InterruptKeeps
<1>3. CASE k.uxSchedulerSuspended # 0
  <2> DEFINE counts == k.xPendedCounts
             ticks == k.xPendedTicks + 1
             yield == k.xYieldPending
  <2>1. k' = [k EXCEPT !.xPendedTicks = ticks] /\ UNCHANGED <<task, queue, pendSV>>
    BY <1>3 DEF xPortSysTickHandler
  <2>2. k' = Pended(k, counts, ticks, yield)
    BY <1>1, <2>1 DEF Pended, KernelState
  <2>3. counts \in Int /\ ticks \in Int /\ yield \in BOOLEAN
    BY <1>1, Fields
  <2> HIDE DEF counts, ticks
  <2>4. /\ Good(k') /\ SameLists(k, k') /\ k'.uxSchedulerSuspended = k.uxSchedulerSuspended
        /\ k'.xYieldPending = yield
    BY <1>1, <2>2, <2>3, PendedFields
  <2>5. /\ k'.pxCurrentTCB = k.pxCurrentTCB /\ Ready(k') = Ready(k)
        /\ k'.xYieldPending = k.xYieldPending
        /\ \A e \in EventLists : Waiting(k', e) \subseteq Waiting(k, e)
    BY <2>4 DEF SameLists
  <2>6. /\ queue' \in [Queues -> QueueState] /\ Locks' /\ Placing'
        /\ \A op \in Ops, q \in Queues : Balanced(op, q)
    BY <2>1, <2>5, QueuesAlone
  <2> QED BY <1>1, <2>1, <2>4, <2>5, <2>6, InterruptKeeps
<1> QED BY <1>2, <1>3

LEMMA PendSVKeeps ==
  ASSUME KernelIInv, xPortPendSVHandler
  PROVE  KernelIInv'
<1> DEFINE t == k.pxCurrentTCB
           r == task[t]
<1>1. /\ ~Masked /\ k' = SwitchContext(k) /\ pendSV' = FALSE /\ UNCHANGED <<queue, task>>
  BY DEF xPortPendSVHandler
<1>2. /\ Scheduling /\ Types /\ Control /\ CurrentReady /\ Locks /\ Placing /\ Waiters /\ Supplied
      /\ t \in AllTasks /\ r \in TaskState /\ Good(k)
      /\ task \in [AllTasks -> TaskState] /\ queue \in [Queues -> QueueState]
  BY SchedulingFacts DEF KernelIInv, Scheduling, Types
<1>3. Switched(k, k')
  BY <1>1, <1>2, SwitchContextSwitches
<1>4. /\ Good(k') /\ Ready(k') = Ready(k) /\ k'.uxSchedulerSuspended = k.uxSchedulerSuspended
      /\ \A e \in EventLists : Waiting(k', e) = Waiting(k, e)
  BY <1>3 DEF Switched
<1>5. Types'
  BY <1>1, <1>2, <1>4 DEF Types
<1>6. Waiters'
  <2>1. \A op \in Ops, q \in Queues : EventOf(op, q) \in EventLists
    BY Basics DEF EventOf
  <2> QED BY <1>1, <1>2, <1>4, <2>1 DEF Waiters
<1>7. Supplied'
  <2>1. task' = [task EXCEPT ![t] = r]
    BY <1>1, <1>2
  <2>2. ASSUME NEW op \in Ops, NEW q \in Queues
        PROVE  Balanced(op, q)
    <3>1. Told(op, q)' = Told(op, q) /\ Told(op, q) \in Int
      BY <1>1, <1>2, ToldType DEF Told, Supply, Untold, LockOf
    <3>2. Told(op, q)' <= Told(op, q) /\ (Retries(task[t], op, q) => Retries(r, op, q))
      BY <3>1
    <3>3. \A e \in EventLists : Waiting(k', e) \subseteq Waiting(k, e)
      BY <1>4
    <3> HIDE DEF t, r
    <3> QED BY <1>2, <2>1, <3>2, <3>3, OthersBalance
  <2> QED BY <1>2, <1>5, <2>2, SuppliedNext
<1>8. CASE k.uxSchedulerSuspended > 0
  <2>1. k'.pxCurrentTCB = t /\ k'.xYieldPending /\ ~(k.uxSchedulerSuspended = 0)
    BY <1>3, <1>8 DEF Switched
  <2>2. Control'
    BY <1>1, <1>2, <1>4, <2>1 DEF Control
  <2>3. CurrentReady'
    BY <1>1, <1>2, <1>4, <2>1 DEF CurrentReady
  <2>4. Locks'
    BY <1>1, <1>2, <2>1 DEF Locks
  <2>5. Placing'
    BY <1>1, <1>2, <2>1 DEF Placing, Told, Supply, Untold, LockOf
  <2>6. Preempting'
    BY <2>1 DEF Preempting
  <2> QED BY <1>5, <1>6, <1>7, <2>2, <2>3, <2>4, <2>5, <2>6 DEF KernelIInv, Scheduling
<1>9. CASE ~(k.uxSchedulerSuspended > 0)
  <2>1. /\ k'.pxCurrentTCB \in Ready(k') /\ k'.pxCurrentTCB \in AllTasks
        /\ \A x \in Ready(k') : Priority[x] <= Priority[k'.pxCurrentTCB]
    BY <1>3, <1>4, <1>9, Fields DEF Switched, Good
  <2>2. k.uxSchedulerSuspended = 0 /\ r.pc \in RunningPcs
    <3>1. r.pc \notin HoldingPcs
      BY <1>2, <1>9 DEF Control
    <3>2. r.pc # "unwind"
      BY <1>1 DEF Masked
    <3>3. r.pc \in HoldingPcs \cup RunningPcs \cup {"unwind"}
      BY <1>2 DEF TaskState
    <3> QED BY <1>2, <3>1, <3>2, <3>3 DEF Control
  <2>3. \A x \in AllTasks : task[x].pc \in RunningPcs
    BY <1>2, <2>2 DEF Control
  <2>4. \A pc \in RunningPcs : pc \notin HoldingPcs /\ pc \notin LockedPcs /\ pc # "place"
    BY DEF RunningPcs, HoldingPcs, LockedPcs
  <2>5. Control'
    <3>1. task'[k'.pxCurrentTCB].pc \notin HoldingPcs
      BY <1>1, <2>1, <2>3, <2>4
    <3>2. \A x \in AllTasks : task'[x].pc \in RunningPcs /\ Consistent(task'[x])
      BY <1>1, <1>2, <2>3 DEF Control
    <3>3. task'[Idle].pc = "app"
      BY <1>1, <1>2 DEF Control
    <3> QED BY <1>4, <2>2, <3>1, <3>2, <3>3 DEF Control
  <2>6. CurrentReady'
    BY <2>1 DEF CurrentReady
  <2>7. Locks'
    <3>1. \A q \in Queues : queue[q].cTxLock = queueUNLOCKED /\ queue[q].cRxLock = queueUNLOCKED
      BY <1>2, <2>2, <2>4 DEF Locks
    <3>2. task'[k'.pxCurrentTCB].pc \notin LockedPcs
      BY <1>1, <2>1, <2>3, <2>4
    <3>3. \A q \in Queues : /\ queue'[q].cTxLock = queueUNLOCKED /\ queue'[q].cRxLock = queueUNLOCKED
                            /\ queue'[q].cTxLock >= queueUNLOCKED /\ queue'[q].cRxLock >= queueUNLOCKED
      BY <1>1, <3>1 DEF queueUNLOCKED
    <3> QED BY <3>2, <3>3 DEF Locks
  <2>8. Placing'
    BY <1>1, <2>1, <2>3, <2>4 DEF Placing
  <2>9. Preempting'
    <3>1. \A x \in Ready(k') : ~(Priority[x] > Priority[k'.pxCurrentTCB])
      <4>1. \A x \in Ready(k') : x \in AllTasks
        BY <1>4 DEF Good, StateItems
      <4>2. \A x \in AllTasks : Priority[x] \in Nat
        BY Basics
      <4> QED BY <2>1, <4>1, <4>2
    <3> QED BY <3>1 DEF Preempting
  <2> QED BY <1>5, <1>6, <1>7, <2>5, <2>6, <2>7, <2>8, <2>9 DEF KernelIInv, Scheduling
<1> QED BY <1>8, <1>9

\* An interrupt has used queue q: op is what it did, and other what it did it for.
IsrUses(op, other, q) ==
  /\ op \in Ops /\ other \in Ops /\ op # other /\ q \in Queues
  /\ UNCHANGED task /\ queue' \in [Queues -> QueueState]
  /\ \A o \in Queues : o # q => queue'[o] = queue[o]
  /\ Supply(op, q)' = Supply(op, q) - 1 /\ Supply(other, q)' = Supply(other, q) + 1
  /\ LockOf(op, q)' = LockOf(op, q)
  /\ pendSV' \in BOOLEAN /\ (pendSV => pendSV')
  /\ \/ /\ LockOf(other, q) = queueUNLOCKED /\ LockOf(other, q)' = queueUNLOCKED
        /\ k' = Wake(k, EventOf(other, q))
     \/ /\ LockOf(other, q) # queueUNLOCKED /\ LockOf(other, q)' = LockOf(other, q) + 1
        /\ k' = k

LEMMA IsrKeeps ==
  ASSUME KernelIInv, NEW op, NEW other, NEW q, IsrUses(op, other, q)
  PROVE  KernelIInv'
<1> DEFINE t == k.pxCurrentTCB
           r == task[t]
<1>1. /\ op \in Ops /\ other \in Ops /\ op # other /\ q \in Queues
      /\ UNCHANGED task /\ queue' \in [Queues -> QueueState]
      /\ \A o \in Queues : o # q => queue'[o] = queue[o]
      /\ Supply(op, q)' = Supply(op, q) - 1 /\ Supply(other, q)' = Supply(other, q) + 1
      /\ LockOf(op, q)' = LockOf(op, q)
      /\ pendSV' \in BOOLEAN /\ (pendSV => pendSV')
      /\ \/ /\ LockOf(other, q) = queueUNLOCKED /\ LockOf(other, q)' = queueUNLOCKED
            /\ k' = Wake(k, EventOf(other, q))
         \/ /\ LockOf(other, q) # queueUNLOCKED /\ LockOf(other, q)' = LockOf(other, q) + 1
            /\ k' = k
  BY DEF IsrUses
<1>2. /\ Scheduling /\ Types /\ Locks /\ Placing /\ Waiters /\ Good(k) /\ t \in AllTasks
      /\ r \in TaskState /\ Consistent(r) /\ task \in [AllTasks -> TaskState]
      /\ EventOf(other, q) \in EventLists
  BY <1>1, SchedulingFacts, Basics DEF KernelIInv, Scheduling, Types, EventOf
<1>3. /\ Supply(op, q) \in Int /\ Supply(other, q) \in Int
      /\ LockOf(other, q) \in Int /\ LockOf(op, q) \in Int
      /\ LockOf(other, q) >= -1
  <2>1. queue[q].cTxLock \in Int /\ queue[q].cRxLock \in Int
    BY <1>1, <1>2, SchedulingFacts DEF QueueState
  <2> QED BY <1>1, <1>2, <2>1, ToldType DEF LockOf, Locks, queueUNLOCKED
<1>4. /\ Good(k') /\ k'.pxCurrentTCB = t /\ k'.uxSchedulerSuspended = k.uxSchedulerSuspended
      /\ Ready(k) \subseteq Ready(k')
      /\ \A o \in EventLists : Waiting(k', o) \subseteq Waiting(k, o)
      /\ k.xYieldPending => k'.xYieldPending
      /\ \A x \in Ready(k') \ Ready(k) :
           Priority[x] > Priority[k.pxCurrentTCB] => k'.xYieldPending \/ pendSV'
      /\ LockOf(other, q) = queueUNLOCKED => WokenBy(k, k', EventOf(other, q))
  <2>1. CASE k' = k /\ LockOf(other, q) # queueUNLOCKED
    BY <1>2, <2>1
  <2>2. CASE k' = Wake(k, EventOf(other, q))
    <3>1. WokenBy(k, k', EventOf(other, q))
      BY <1>2, <2>2, WakeWakes
    <3> QED BY <3>1 DEF WokenBy
  <2> QED BY <1>1, <2>1, <2>2
<1>5. Locks'
  <2>1. \A o \in Queues : o # q => /\ queue'[o].cTxLock = queue[o].cTxLock
                                   /\ queue'[o].cRxLock = queue[o].cRxLock
    BY <1>1
  <2>2. /\ LockOf(op, q)' = LockOf(op, q) /\ LockOf(op, q) \in Int
        /\ LockOf(other, q)' = LockOf(other, q) \/ (LockOf(other, q) >= 0 /\ LockOf(other, q)' = LockOf(other, q) + 1)
    BY <1>1, <1>3 DEF queueUNLOCKED
  <2>3. /\ \/ queue'[q].cTxLock = queue[q].cTxLock
           \/ queue[q].cTxLock >= 0 /\ queue'[q].cTxLock = queue[q].cTxLock + 1
        /\ \/ queue'[q].cRxLock = queue[q].cRxLock
           \/ queue[q].cRxLock >= 0 /\ queue'[q].cRxLock = queue[q].cRxLock + 1
    BY <1>1, <2>2 DEF Ops, LockOf
  <2>4. \A o \in Queues : /\ queue[o].cTxLock \in Int /\ queue[o].cRxLock \in Int
    BY <1>2, SchedulingFacts DEF QueueState
  <2>5. \A o \in Queues : /\ queue'[o].cTxLock = -1 <=> queue[o].cTxLock = -1
                          /\ queue'[o].cRxLock = -1 <=> queue[o].cRxLock = -1
                          /\ queue[o].cTxLock >= -1 => queue'[o].cTxLock >= -1
                          /\ queue[o].cRxLock >= -1 => queue'[o].cRxLock >= -1
    BY <2>1, <2>3, <2>4
  <2>6. r.pc \in LockedPcs => r.call.queue \in Queues
    BY <1>2, CallFacts DEF Consistent
  <2>7. k'.pxCurrentTCB = k.pxCurrentTCB /\ task' = task
    BY <1>1, <1>4
  <2> QED BY <1>2, <2>5, <2>6, <2>7 DEF Locks, queueUNLOCKED
<1>6. Untold(op, q) \in Int /\ Untold(other, q) \in Int /\ Untold(op, q)' = Untold(op, q)
  BY <1>1, <1>3 DEF Untold
<1>7. \/ Untold(other, q)' = Untold(other, q) /\ LockOf(other, q) = queueUNLOCKED
      \/ Untold(other, q)' = Untold(other, q) + 1 /\ LockOf(other, q) # queueUNLOCKED
  <2>1. CASE LockOf(other, q) = queueUNLOCKED
    BY <1>1, <2>1 DEF Untold
  <2>2. CASE LockOf(other, q) # queueUNLOCKED
    <3>1. LockOf(other, q)' = LockOf(other, q) + 1 /\ LockOf(other, q)' # -1
      BY <1>1, <1>3, <2>2 DEF queueUNLOCKED
    <3> QED BY <2>2, <3>1 DEF Untold, queueUNLOCKED
  <2> QED BY <2>1, <2>2
<1>8. \A x \in Ops, o \in Queues : o # q => Told(x, o)' = Told(x, o)
  BY <1>1 DEF Told, Supply, Untold, LockOf
<1>9. /\ Told(op, q)' = Told(op, q) - 1 /\ Told(op, q) \in Int /\ Told(other, q) \in Int
      /\ Told(other, q)' = IF LockOf(other, q) = queueUNLOCKED THEN Told(other, q) + 1 ELSE Told(other, q)
  BY <1>1, <1>3, <1>6, <1>7 DEF Told
<1>10. task' = [task EXCEPT ![t] = r]
  BY <1>1, <1>2
<1>11. Placing'
  <2>1. k'.pxCurrentTCB = k.pxCurrentTCB /\ task' = task
    BY <1>1, <1>4
  <2>2. ASSUME r.pc = "place"
        PROVE  Told(r.call.op, r.call.queue)' <= 0
    <3> DEFINE x == task[k.pxCurrentTCB].call.op
               o == task[k.pxCurrentTCB].call.queue
    <3>1. PICK y, u : y = x /\ u = o
      OBVIOUS
    <3>2. y \in Ops /\ u \in Queues
      BY <1>2, <2>2, <3>1, CallFacts DEF Consistent, LockedPcs
    <3>3. Told(y, u) <= 0 /\ Told(y, u) \in Int
      BY <1>2, <2>2, <3>1, <3>2, ToldType DEF Placing
    <3>4. u = q => LockOf(other, q) # queueUNLOCKED
      BY <1>1, <1>2, <2>2, <3>1 DEF Locks, LockedPcs, LockOf
    <3>5. Told(y, u)' <= Told(y, u)
      BY <1>1, <1>8, <1>9, <3>2, <3>3, <3>4 DEF Ops
    <3>6. Told(y, u)' <= 0
      BY <1>8, <1>9, <1>1, <3>2, <3>3, <3>4 DEF Ops
    <3> QED BY <2>1, <3>1, <3>6
  <2> QED BY <2>1, <2>2 DEF Placing
<1>12. ASSUME NEW x \in Ops, NEW o \in Queues
       PROVE  Balanced(x, o)
  <2>1. Retries(task[t], x, o) => Retries(r, x, o)
    OBVIOUS
  <2>2. CASE o = q /\ x = other /\ LockOf(other, q) = queueUNLOCKED
    <3>1. WokenBy(k, k', EventOf(x, o)) /\ Told(x, o)' <= Told(x, o) + 1
      BY <1>4, <1>9, <2>2
    <3> HIDE DEF t, r
    <3> QED BY <1>2, <1>10, <2>1, <3>1, WakeBalances
  <2>3. CASE ~(o = q /\ x = other /\ LockOf(other, q) = queueUNLOCKED)
    <3>1. Told(x, o) \in Int
      BY <1>2, ToldType
    <3>2. Told(x, o)' <= Told(x, o)
      BY <1>1, <1>8, <1>9, <2>3, <3>1 DEF Ops
    <3> HIDE DEF t, r
    <3> QED BY <1>2, <1>4, <1>10, <2>1, <3>2, OthersBalance
  <2> QED BY <2>2, <2>3
<1> QED BY <1>1, <1>4, <1>5, <1>11, <1>12, InterruptKeeps

LEMMA SendFromISRKeeps ==
  ASSUME KernelIInv, NEW q \in IsrSends, xQueueGenericSendFromISR(q)
  PROVE  KernelIInv'
<1> DEFINE n == queue[q].uxMessagesWaiting + 1
           lock == CountWhileLocked(queue[q].cTxLock)
<1>1. /\ q \in Queues /\ queue \in [Queues -> QueueState] /\ pendSV \in BOOLEAN
      /\ queue[q].uxMessagesWaiting \in Int /\ queue[q].cTxLock \in Int /\ uxLength[q] \in Int
  BY KernelAssumption DEF KernelIInv, Scheduling, Types, QueueState
<1>2. /\ queue' = [queue EXCEPT ![q].uxMessagesWaiting = n, ![q].cTxLock = lock]
      /\ EventFromISR(q, "cTxLock", ToReceive(q))
  BY DEF xQueueGenericSendFromISR
<1>3. /\ n = queue[q].uxMessagesWaiting + 1 /\ n \in Int /\ lock \in Int
      /\ lock = IF queue[q].cTxLock = queueUNLOCKED THEN queue[q].cTxLock ELSE queue[q].cTxLock + 1
  BY <1>1 DEF CountWhileLocked
<1> HIDE DEF n, lock
<1>4. /\ queue' \in [Queues -> QueueState] /\ \A o \in Queues : o # q => queue'[o] = queue[o]
      /\ queue'[q].uxMessagesWaiting = n /\ queue'[q].cTxLock = lock
      /\ queue'[q].cRxLock = queue[q].cRxLock
  BY <1>1, <1>2, <1>3 DEF QueueState
<1> DEFINE op == "send"
           other == "receive"
<1>5. /\ op \in Ops /\ other \in Ops /\ op # other
      /\ Supply(op, q)' = Supply(op, q) - 1 /\ Supply(other, q)' = Supply(other, q) + 1
      /\ LockOf(op, q)' = LockOf(op, q)
      /\ LockOf(other, q) = queue[q].cTxLock /\ LockOf(other, q)' = queue'[q].cTxLock
      /\ EventOf(other, q) = ToReceive(q)
  BY <1>1, <1>3, <1>4 DEF Ops, Supply, LockOf, EventOf
<1>6. UNCHANGED task /\ pendSV' \in BOOLEAN /\ (pendSV => pendSV')
  BY <1>1, <1>2 DEF EventFromISR
<1>7. \/ /\ queue[q].cTxLock = queueUNLOCKED /\ queue'[q].cTxLock = queueUNLOCKED
         /\ k' = Wake(k, ToReceive(q))
      \/ /\ queue[q].cTxLock # queueUNLOCKED /\ queue'[q].cTxLock = queue[q].cTxLock + 1
         /\ k' = k
  BY <1>2, <1>3, <1>4 DEF EventFromISR
<1> HIDE DEF op, other
<1>8. IsrUses(op, other, q)
  BY <1>1, <1>4, <1>5, <1>6, <1>7 DEF IsrUses
<1> QED BY <1>8, IsrKeeps

LEMMA ReceiveFromISRKeeps ==
  ASSUME KernelIInv, NEW q \in IsrReceives, xQueueReceiveFromISR(q)
  PROVE  KernelIInv'
<1> DEFINE n == queue[q].uxMessagesWaiting - 1
           lock == CountWhileLocked(queue[q].cRxLock)
<1>1. /\ q \in Queues /\ queue \in [Queues -> QueueState] /\ pendSV \in BOOLEAN
      /\ queue[q].uxMessagesWaiting \in Int /\ queue[q].cRxLock \in Int /\ uxLength[q] \in Int
  BY KernelAssumption DEF KernelIInv, Scheduling, Types, QueueState
<1>2. /\ queue' = [queue EXCEPT ![q].uxMessagesWaiting = n, ![q].cRxLock = lock]
      /\ EventFromISR(q, "cRxLock", ToSend(q))
  BY DEF xQueueReceiveFromISR
<1>3. /\ n = queue[q].uxMessagesWaiting - 1 /\ n \in Int /\ lock \in Int
      /\ lock = IF queue[q].cRxLock = queueUNLOCKED THEN queue[q].cRxLock ELSE queue[q].cRxLock + 1
  BY <1>1 DEF CountWhileLocked
<1> HIDE DEF n, lock
<1>4. /\ queue' \in [Queues -> QueueState] /\ \A o \in Queues : o # q => queue'[o] = queue[o]
      /\ queue'[q].uxMessagesWaiting = n /\ queue'[q].cRxLock = lock
      /\ queue'[q].cTxLock = queue[q].cTxLock
  BY <1>1, <1>2, <1>3 DEF QueueState
<1> DEFINE op == "receive"
           other == "send"
<1>5. /\ op \in Ops /\ other \in Ops /\ op # other
      /\ Supply(op, q)' = Supply(op, q) - 1 /\ Supply(other, q)' = Supply(other, q) + 1
      /\ LockOf(op, q)' = LockOf(op, q)
      /\ LockOf(other, q) = queue[q].cRxLock /\ LockOf(other, q)' = queue'[q].cRxLock
      /\ EventOf(other, q) = ToSend(q)
  BY <1>1, <1>3, <1>4 DEF Ops, Supply, LockOf, EventOf
<1>6. UNCHANGED task /\ pendSV' \in BOOLEAN /\ (pendSV => pendSV')
  BY <1>1, <1>2 DEF EventFromISR
<1>7. \/ /\ queue[q].cRxLock = queueUNLOCKED /\ queue'[q].cRxLock = queueUNLOCKED
         /\ k' = Wake(k, ToSend(q))
      \/ /\ queue[q].cRxLock # queueUNLOCKED /\ queue'[q].cRxLock = queue[q].cRxLock + 1
         /\ k' = k
  BY <1>2, <1>3, <1>4 DEF EventFromISR
<1> HIDE DEF op, other
<1>8. IsrUses(op, other, q)
  BY <1>1, <1>4, <1>5, <1>6, <1>7 DEF IsrUses
<1> QED BY <1>8, IsrKeeps

-----------------------------------------------------------------------------
LEMMA GreatestPriority ==
  Max(Priorities) \in Priorities /\ \A p \in Priorities : Max(Priorities) >= p
<1>1. 31 \in Nat /\ Priorities \in SUBSET (0 .. 31) /\ Priorities # {}
  BY Basics
<1>2. \E top \in Priorities : \A p \in Priorities : top >= p
  BY <1>1, GreatestNatural
<1> QED BY <1>2 DEF Max

LEMMA CreatedItems ==
  ASSUME NEW p \in Priorities
  PROVE  /\ IsItems(Created[p], AllTasks) /\ Members(Created[p]) = {t \in AllTasks : Priority[t] = p}
         /\ Last(Created[p]) \in AllTasks /\ Priority[Last(Created[p])] = p
<1>1. /\ Created[p] \in Seq(AllTasks) /\ IsInjective(Created[p])
      /\ Members(Created[p]) = {t \in AllTasks : Priority[t] = p}
  BY KernelAssumption
<1>2. Len(Created[p]) \in Nat /\ DOMAIN Created[p] = 1 .. Len(Created[p])
  BY <1>1, LenProperties
<1>3. IsItems(Created[p], AllTasks)
  BY <1>1, <1>2 DEF IsItems, IsInjective
<1>4. \E t \in AllTasks : Priority[t] = p
  BY DEF Priorities
<1>5. Created[p] # <<>>
  BY <1>1, <1>3, <1>4, ItemsMembers
<1>6. Len(Created[p]) \in 1 .. Len(Created[p])
  BY <1>1, <1>2, <1>5, EmptySeq
<1>7. Last(Created[p]) \in Members(Created[p])
  BY <1>6 DEF Last, Members
<1> QED BY <1>1, <1>3, <1>7

LEMMA InitHolds == Init => KernelIInv
<1> SUFFICES ASSUME Init
             PROVE  KernelIInv
  OBVIOUS
<1> DEFINE cur == Last(Created[Max(Priorities)])
           lists == [p \in Priorities |-> [items |-> Created[p], index |-> 0]]
           events == [e \in EventLists |-> <<>>]
           times == [t \in Tasks |-> 0]
           none == <<>>
           messages == [uxMessagesWaiting |-> 0, cRxLock |-> queueUNLOCKED, cTxLock |-> queueUNLOCKED]
<1>1. cur \in AllTasks /\ \A p \in Priorities : Priority[cur] >= p
  BY GreatestPriority, CreatedItems
<1>2. lists \in [Priorities -> ReadyLists]
  <2>1. ASSUME NEW p \in Priorities
        PROVE  [items |-> Created[p], index |-> 0] \in ReadyLists
    <3>1. IsItems(Created[p], AllTasks) /\ Created[p] \in Seq(AllTasks) /\ Len(Created[p]) \in Nat
      BY CreatedItems, LenProperties DEF IsItems
    <3> QED BY <3>1 DEF ReadyLists, IsList
  <2> QED BY <2>1
<1>3. /\ none \in TaskLists /\ Members(none) = {} /\ events \in [EventLists -> TaskLists]
      /\ times \in [Tasks -> TickType] /\ 0 \in TickType /\ portMAX_DELAY \in TickType
  BY ListTypes, EmptyItems, TickTypes
<1>4. \A p \in Priorities : lists[p].items = Created[p]
  OBVIOUS
<1>5. \A e \in EventLists : events[e] = none
  OBVIOUS
<1> HIDE DEF cur, lists, events, times, none
<1>6. k = [pxCurrentTCB |-> cur, pxReadyTasksLists |-> lists, uxTopReadyPriority |-> Priorities,
           pxDelayedTaskList |-> none, pxOverflowDelayedTaskList |-> none,
           xSuspendedTaskList |-> none, xPendingReadyList |-> none,
           events |-> events, xItemValue |-> times, xTickCount |-> 0, xNumOfOverflows |-> 0,
           xNextTaskUnblockTime |-> portMAX_DELAY,
           uxSchedulerSuspended |-> 0, xPendedTicks |-> 0, xPendedCounts |-> 0,
           xYieldPending |-> FALSE]
  BY DEF Init, cur, lists, events, times, none
<1>7. /\ k \in KernelState /\ k.pxCurrentTCB = cur /\ k.pxReadyTasksLists = lists
      /\ k.uxTopReadyPriority = Priorities /\ k.uxSchedulerSuspended = 0
      /\ k.pxDelayedTaskList = none /\ k.pxOverflowDelayedTaskList = none
      /\ k.xSuspendedTaskList = none /\ k.xPendingReadyList = none /\ k.events = events
  BY <1>1, <1>2, <1>3, <1>6 DEF KernelState
<1>8. /\ \A p \in Priorities : ReadyAt(k, p) = {t \in AllTasks : Priority[t] = p} /\ ReadyAt(k, p) # {}
      /\ Delayed(k) = {} /\ Overflown(k) = {} /\ Forever(k) = {} /\ Pending(k) = {}
      /\ \A e \in EventLists : Waiting(k, e) = {}
  <2>1. ASSUME NEW p \in Priorities
        PROVE  ReadyAt(k, p) = {t \in AllTasks : Priority[t] = p} /\ ReadyAt(k, p) # {}
    BY <1>4, <1>7, CreatedItems DEF ReadyAt
  <2>2. /\ Delayed(k) = {} /\ Overflown(k) = {} /\ Forever(k) = {} /\ Pending(k) = {}
        /\ \A e \in EventLists : Waiting(k, e) = {}
    BY <1>3, <1>5, <1>7 DEF Delayed, Overflown, Forever, Pending, Waiting
  <2> QED BY <2>1, <2>2
<1>9. Ready(k) = AllTasks
  <2>1. Ready(k) = UNION {ReadyAt(k, p) : p \in Priorities}
    BY DEF Ready, ReadyAt
  <2>2. \A t \in AllTasks : Priority[t] \in Priorities
    BY Basics
  <2> QED BY <1>8, <2>1, <2>2
<1>10. Good(k)
  <2>1. StateItems(k)
    BY <1>8, <1>9 DEF StateItems
  <2>2. EventItems(k)
    BY <1>8 DEF EventItems
  <2>3. TopExact(k)
    BY <1>7, <1>8 DEF TopExact
  <2> QED BY <1>7, <2>1, <2>2, <2>3 DEF Good
<1>11. task = [t \in AllTasks |-> AtApp] /\ pendSV = FALSE /\ queue = [q \in Queues |-> messages]
  BY DEF Init
<1>12. Types
  <2>1. messages \in QueueState
    BY DEF QueueState, queueUNLOCKED
  <2> QED BY <1>10, <1>11, <2>1, AtAppState DEF Types
<1>13. \A t \in AllTasks : task[t].pc = "app" /\ Consistent(task[t])
  BY <1>11, AtAppState
<1>14. Control
  BY <1>1, <1>7, <1>13, Basics DEF Control, HoldingPcs, RunningPcs
<1>15. Locks
  <2>1. \A q \in Queues : queue[q].cTxLock = -1 /\ queue[q].cRxLock = -1
    BY <1>11 DEF queueUNLOCKED
  <2> QED BY <1>1, <1>7, <1>13, <2>1 DEF Locks, LockedPcs, queueUNLOCKED
<1>16. Waiters /\ Supplied
  <2>1. \A op \in Ops, q \in Queues : Waiting(k, EventOf(op, q)) = {}
    BY <1>8, Basics DEF EventOf
  <2> QED BY <2>1 DEF Waiters, Supplied
<1>17. Placing
  BY <1>1, <1>7, <1>13 DEF Placing
<1>18. Preempting
  <2>1. \A t \in AllTasks : Priority[t] \in Priorities /\ Priority[t] \in Nat
    BY Basics
  <2> QED BY <1>1, <1>7, <1>9, <2>1 DEF Preempting
<1> QED BY <1>1, <1>7, <1>9, <1>12, <1>14, <1>15, <1>16, <1>17, <1>18
        DEF KernelIInv, Scheduling, CurrentReady

LEMMA TaskStepKeeps ==
  ASSUME KernelIInv, NEW t \in AllTasks, TaskStep(t)
  PROVE  KernelIInv'
<1>1. CASE xQueueGenericSend(t) \/ xQueueReceive(t) \/ vTaskDelay(t)
  BY <1>1, GenericSendKeeps, ReceiveKeeps, TaskDelayKeeps
<1>2. CASE vTaskSuspendAll(t) \/ DelayCurrentTask(t) \/ prvLockQueue(t)
  BY <1>2, SuspendAllKeeps, DelayCurrentTaskKeeps, LockQueueKeeps
<1>3. CASE xTaskCheckForTimeOut(t) \/ TestQueue(t) \/ vTaskPlaceOnEventList(t)
  BY <1>3, CheckForTimeOutKeeps, TestQueueKeeps, PlaceKeeps
<1>4. CASE prvUnlockQueueTx(t) \/ prvUnlockQueueRx(t)
  BY <1>4, UnlockQueueTxKeeps, UnlockQueueRxKeeps
<1>5. CASE xTaskResumeAll(t) \/ UnwindPendedTick(t)
  BY <1>5, ResumeAllKeeps, UnwindKeeps
<1>6. CASE Yield(t) \/ Expired(t) \/ DelayOver(t)
  BY <1>6, YieldKeeps, ExpiredKeeps, DelayOverKeeps
<1> QED BY <1>1, <1>2, <1>3, <1>4, <1>5, <1>6 DEF TaskStep

\* The invariant of the kernel holds in every state that it reaches.
THEOREM KernelInvariant == Spec => []KernelIInv
<1>1. Init => KernelIInv
  BY InitHolds
<1>2. KernelIInv /\ [Next]_vars => KernelIInv'
  <2> SUFFICES ASSUME KernelIInv, [Next]_vars
               PROVE  KernelIInv'
    OBVIOUS
  <2>1. CASE \E t \in AllTasks : TaskStep(t)
    BY <2>1, TaskStepKeeps
  <2>2. CASE xPortSysTickHandler
    BY <2>2, TickKeeps
  <2>3. CASE xPortPendSVHandler
    BY <2>3, PendSVKeeps
  <2>4. CASE \E q \in IsrSends : xQueueGenericSendFromISR(q)
    BY <2>4, SendFromISRKeeps
  <2>5. CASE \E q \in IsrReceives : xQueueReceiveFromISR(q)
    BY <2>5, ReceiveFromISRKeeps
  <2>6. CASE UNCHANGED vars
    <3>1. UNCHANGED <<task, k, queue, pendSV>>
      BY <2>6 DEF vars
    <3>2. pendSV' \in BOOLEAN /\ (pendSV => pendSV')
      BY <3>1 DEF KernelIInv, Scheduling, Types
    <3> QED BY <3>1, <3>2, AskedKeeps
  <2> QED BY <2>1, <2>2, <2>3, <2>4, <2>5, <2>6 DEF Next
<1> QED BY <1>1, <1>2, PTL DEF Spec

\* The bitmap that the scheduler selects the next task from is exact.
THEOREM BitmapIsExact == Spec => []TopReadyPriorityExact
<1>1. KernelIInv => TopReadyPriorityExact
  <2> SUFFICES ASSUME KernelIInv
               PROVE  TopReadyPriorityExact
    OBVIOUS
  <2>1. Good(k) /\ k \in KernelState
    BY DEF KernelIInv, Scheduling, Types, Good
  <2>2. \A p \in Priorities : p \in k.uxTopReadyPriority <=> k.pxReadyTasksLists[p].items # <<>>
    BY <2>1, StateMembers DEF Good, TopExact
  <2>3. k.uxTopReadyPriority \subseteq Priorities
    BY <2>1, Fields
  <2> QED BY <2>2, <2>3 DEF TopReadyPriorityExact
<1> QED BY <1>1, KernelInvariant, PTL

LEMMA ItemsAreInjective ==
  ASSUME NEW S, NEW items, IsItems(items, S)
  PROVE  IsInjective(items)
BY LenProperties DEF IsItems, IsInjective

\* Every task is on one list, once, and waits on one event at most.
THEOREM EachTaskOnOneList == Spec => []ItemsOnOneList
<1>1. KernelIInv => ItemsOnOneList
  <2> SUFFICES ASSUME KernelIInv
               PROVE  ItemsOnOneList
    OBVIOUS
  <2> DEFINE blocked == <<k.pxDelayedTaskList, k.pxOverflowDelayedTaskList, k.xSuspendedTaskList>>
  <2>1. Good(k) /\ k \in KernelState
    BY DEF KernelIInv, Scheduling, Types, Good
  <2>2. ASSUME NEW p \in Priorities
        PROVE  /\ IsInjective(k.pxReadyTasksLists[p].items)
               /\ \A t \in Members(k.pxReadyTasksLists[p].items) : Priority[t] = p
    <3>1. k.pxReadyTasksLists[p] \in ReadyLists
      BY <2>1, Fields
    <3>2. IsItems(k.pxReadyTasksLists[p].items, AllTasks)
      BY <3>1, ListTypes DEF IsList
    <3> QED BY <2>1, <3>2, ItemsAreInjective DEF Good, StateItems, ReadyAt
  <2>3. \A items \in TaskLists : IsInjective(items)
    BY ListTypes, ItemsAreInjective
  <2>4. /\ blocked[1] = k.pxDelayedTaskList /\ blocked[2] = k.pxOverflowDelayedTaskList
        /\ blocked[3] = k.xSuspendedTaskList
    OBVIOUS
  <2> HIDE DEF blocked
  <2>5. /\ Members(blocked[1]) = Delayed(k) /\ Members(blocked[2]) = Overflown(k)
        /\ Members(blocked[3]) = Forever(k)
    BY <2>4 DEF Delayed, Overflown, Forever
  <2>6. \A i \in 1 .. 3 : i = 1 \/ i = 2 \/ i = 3
    OBVIOUS
  <2>7. \A i \in 1 .. 3 : IsInjective(blocked[i])
    BY <2>1, <2>3, <2>4, <2>6, Fields
  <2>8. \A i \in 1 .. 3 : Members(blocked[i]) \cap ReadyTasks = {}
    BY <2>1, <2>5, <2>6 DEF Good, StateItems, ReadyTasks
  <2>9. \A i \in 1 .. 3 : \A j \in 1 .. 3 \ {i} : Members(blocked[i]) \cap Members(blocked[j]) = {}
    BY <2>1, <2>5, <2>6 DEF Good, StateItems
  <2>10. ReadyTasks \cup UNION {Members(blocked[i]) : i \in 1 .. 3} = AllTasks
    <3>1. UNION {Members(blocked[i]) : i \in 1 .. 3} = Delayed(k) \cup Overflown(k) \cup Forever(k)
      <4>1. 1 \in 1 .. 3 /\ 2 \in 1 .. 3 /\ 3 \in 1 .. 3
        OBVIOUS
      <4>2. \A x : (\E i \in 1 .. 3 : x \in Members(blocked[i])) <=>
                     x \in Delayed(k) \/ x \in Overflown(k) \/ x \in Forever(k)
        BY <2>5, <2>6, <4>1
      <4> QED BY <4>2
    <3> QED BY <2>1, <3>1 DEF Good, StateItems, ReadyTasks
  <2>11. ASSUME NEW e \in EventLists
         PROVE  /\ IsInjective(k.events[e])
                /\ Members(k.events[e]) \cap (ReadyTasks \cup Members(k.xPendingReadyList)) = {}
                /\ \A o \in EventLists \ {e} : Members(k.events[e]) \cap Members(k.events[o]) = {}
    <3>1. IsInjective(k.events[e])
      BY <2>1, <2>3, Fields
    <3> QED BY <2>1, <3>1 DEF Good, EventItems, Waiting, Pending, ReadyTasks
  <2>12. IsInjective(k.xPendingReadyList) /\ Members(k.xPendingReadyList) \cap ReadyTasks = {}
    BY <2>1, <2>3, Fields DEF Good, EventItems, Pending, ReadyTasks
  <2> QED BY <2>2, <2>7, <2>8, <2>9, <2>10, <2>11, <2>12 DEF ItemsOnOneList, blocked
<1> QED BY <1>1, KernelInvariant, PTL

\* No message, and no place, is left lying while a task waits for it.
THEOREM WakeupsAreNotLost == Spec => []NoLostWakeup
<1>1. KernelIInv => NoLostWakeup
  <2> SUFFICES ASSUME KernelIInv
               PROVE  NoLostWakeup
    OBVIOUS
  <2>1. Good(k) /\ k \in KernelState /\ Types /\ Control /\ Locks /\ Supplied
    BY DEF KernelIInv, Scheduling, Types, Good
  <2>2. LockedOnlyWhileSuspended
    BY <2>1 DEF LockedOnlyWhileSuspended, Locks, Control, LockedPcs, HoldingPcs
  <2>3. ASSUME NEW op \in Ops, NEW q \in Queues, LockOf(op, q) = queueUNLOCKED,
               k.events[EventOf(op, q)] # <<>>
        PROVE  Supply(op, q) <= Cardinality(WillRetry(op, q))
    <3>1. EventOf(op, q) \in EventLists
      BY Basics DEF EventOf
    <3>2. Waiting(k, EventOf(op, q)) # {}
      BY <2>1, <2>3, <3>1, StateMembers
    <3>3. Told(op, q) = Supply(op, q)
      BY <2>1, <2>3, ToldType DEF Told, Untold
    <3> QED BY <2>1, <3>2, <3>3 DEF Supplied
  <2>4. ASSUME NEW q \in Queues
        PROVE  /\ queue[q].cTxLock = queueUNLOCKED /\ k.events[ToReceive(q)] # <<>> =>
                    queue[q].uxMessagesWaiting <= Cardinality(WillRetry("receive", q))
               /\ queue[q].cRxLock = queueUNLOCKED /\ k.events[ToSend(q)] # <<>> =>
                    uxLength[q] - queue[q].uxMessagesWaiting <= Cardinality(WillRetry("send", q))
    <3>1. "send" \in Ops /\ "receive" \in Ops
      BY DEF Ops
    <3>2. /\ LockOf("send", q) = queue[q].cRxLock /\ LockOf("receive", q) = queue[q].cTxLock
          /\ EventOf("send", q) = ToSend(q) /\ EventOf("receive", q) = ToReceive(q)
          /\ Supply("send", q) = uxLength[q] - queue[q].uxMessagesWaiting
          /\ Supply("receive", q) = queue[q].uxMessagesWaiting
      BY DEF LockOf, EventOf, Supply
    <3>3. /\ LockOf("send", q) = queueUNLOCKED /\ k.events[EventOf("send", q)] # <<>> =>
               Supply("send", q) <= Cardinality(WillRetry("send", q))
          /\ LockOf("receive", q) = queueUNLOCKED /\ k.events[EventOf("receive", q)] # <<>> =>
               Supply("receive", q) <= Cardinality(WillRetry("receive", q))
      BY <2>3, <3>1
    <3> QED BY <3>2, <3>3
  <2> QED BY <2>2, <2>4 DEF NoLostWakeup
<1> QED BY <1>1, KernelInvariant, PTL

\* A task readied above the running one is switched to.
THEOREM PreemptionIsKept == Spec => []PreemptionNotLost
<1>1. KernelIInv => PreemptionNotLost
  BY DEF KernelIInv, Preempting, PreemptionNotLost, ReadyTasks
<1> QED BY <1>1, KernelInvariant, PTL

-----------------------------------------------------------------------------
(* The time base.  The lists are in the order of the wake times, which are *)
(* still to come; the time of the next look at them is not too late.       *)

OnTime(s) ==
  /\ SortedLists(s)
  /\ \A t \in Delayed(s) : /\ s.xTickCount < s.xItemValue[t]
                           /\ s.xNextTaskUnblockTime <= s.xItemValue[t]

\* The least wake time of a set of tasks, as module DelayedTasks has it.
Earliest(list, value) ==
  IF list = {} THEN portMAX_DELAY
  ELSE value[CHOOSE t \in list : \A u \in list : value[t] <= value[u]]

LEMMA EarliestIsHead ==
  ASSUME NEW items \in TaskLists, NEW value \in [Tasks -> TickType], ListSorted(items, value)
  PROVE  /\ Earliest(Members(items), value) =
              IF items = <<>> THEN portMAX_DELAY ELSE value[Head(items)]
         /\ \A t \in Members(items) : Earliest(Members(items), value) <= value[t]
<1>1. /\ IsItems(items, Tasks) /\ Members(items) \subseteq Tasks
      /\ (items = <<>> <=> Members(items) = {})
  BY ListTypes, TaskListMembers
<1>2. CASE items = <<>>
  BY <1>1, <1>2 DEF Earliest
<1>3. CASE items # <<>>
  <2> DEFINE h == Head(items)
             list == Members(items)
             least == CHOOSE t \in list : \A u \in list : value[t] <= value[u]
  <2>1. /\ h \in list /\ Members(Tail(items)) = list \ {h}
        /\ \A t \in Members(Tail(items)) : value[h] <= value[t]
    BY <1>1, <1>3, TailItems, TailSorted
  <2> HIDE DEF h, list
  <2>2. \A t \in list : value[t] \in Nat
    BY <1>1, TickTypes DEF list
  <2>3. \A t \in list : value[h] <= value[t]
    BY <2>1, <2>2
  <2>4. least \in list /\ \A u \in list : value[least] <= value[u]
    BY <2>1, <2>3
  <2> HIDE DEF least
  <2>5. value[least] = value[h]
    BY <2>1, <2>2, <2>3, <2>4
  <2>6. Earliest(list, value) = value[least]
    BY <2>1 DEF Earliest, least
  <2> QED BY <1>3, <2>3, <2>5, <2>6 DEF h, list
<1> QED BY <1>2, <1>3

\* The walk down the list finds the tasks that are due, all of them.
LEMMA DueExact ==
  ASSUME NEW s \in KernelState, SortedLists(s),
         \A t \in Delayed(s) : s.xNextTaskUnblockTime <= s.xItemValue[t]
  PROVE  Members(Due(s)) = {t \in Delayed(s) : s.xItemValue[t] <= s.xTickCount}
<1> DEFINE list == s.pxDelayedTaskList
           value == s.xItemValue
           tick == s.xTickCount
           later == {i \in 1 .. Len(list) : value[list[i]] > tick}
           n == IF later = {} THEN Len(list) ELSE Min(later) - 1
<1>1. /\ list \in TaskLists /\ IsItems(list, Tasks) /\ Len(list) \in Nat /\ list \in Seq(Tasks)
      /\ \A i \in 1 .. Len(list) : list[i] \in Tasks
      /\ value \in [Tasks -> TickType] /\ tick \in Nat /\ s.xNextTaskUnblockTime \in Nat
  BY Fields, ListTypes, TickTypes, LenProperties, ElementOfSeq DEF IsItems
<1>2. ListSorted(list, value)
  BY DEF SortedLists
<1>3. Due(s) = IF tick < s.xNextTaskUnblockTime THEN <<>> ELSE SubSeq(list, 1, n)
  BY DEF Due
<1>4. Delayed(s) = Members(list)
  BY DEF Delayed
<1> HIDE DEF list, value, tick
<1>5. \A i \in 1 .. Len(list) : value[list[i]] \in Nat
  BY <1>1, TickTypes
<1>6. CASE tick < s.xNextTaskUnblockTime
  <2>1. \A i \in 1 .. Len(list) : s.xNextTaskUnblockTime <= value[list[i]]
    BY <1>4 DEF Members, value
  <2>2. \A i \in 1 .. Len(list) : ~(value[list[i]] <= tick)
    BY <1>1, <1>5, <1>6, <2>1
  <2>3. Members(Due(s)) = {}
    BY <1>3, <1>6, EmptyItems
  <2> QED BY <1>4, <2>2, <2>3 DEF Members, value, tick
<1>7. CASE ~(tick < s.xNextTaskUnblockTime)
  <2>1. /\ n \in 0 .. Len(list)
        /\ \A i \in 1 .. Len(list) : i <= n <=> value[list[i]] <= tick
    <3>1. CASE later = {}
      <4>1. \A i \in 1 .. Len(list) : value[list[i]] <= tick
        BY <1>1, <1>5, <3>1
      <4>2. n = Len(list)
        BY <3>1
      <4> HIDE DEF n
      <4> QED BY <1>1, <4>1, <4>2
    <3>2. CASE later # {}
      <4>1. later \in SUBSET Nat
        BY <1>1
      <4>2. \E i \in later : \A j \in later : i <= j
        BY <3>2, <4>1, LeastNatural
      <4>3. Min(later) \in later /\ \A j \in later : Min(later) <= j
        BY <4>2 DEF Min
      <4> DEFINE m == Min(later)
      <4>4. m \in 1 .. Len(list) /\ value[list[m]] > tick
        BY <4>3
      <4>5. \A j \in 1 .. Len(list) : value[list[j]] > tick => m <= j
        BY <4>3
      <4>6. n = m - 1
        BY <3>2
      <4> HIDE DEF m, later, n
      <4>7. ASSUME NEW i \in 1 .. Len(list)
            PROVE  i <= m - 1 <=> value[list[i]] <= tick
        <5>1. CASE i < m
          BY <1>1, <1>5, <4>4, <4>5, <5>1
        <5>2. CASE i = m
          BY <1>1, <1>5, <4>4, <5>2
        <5>3. CASE i > m
          <6>1. value[list[m]] <= value[list[i]]
            BY <1>2, <4>4, <5>3 DEF ListSorted
          <6> QED BY <1>1, <1>5, <4>4, <5>3, <6>1
        <5> QED BY <4>4, <5>1, <5>2, <5>3
      <4> QED BY <1>1, <4>4, <4>6, <4>7
    <3> QED BY <3>1, <3>2
  <2>2. Due(s) = SubSeq(list, 1, n)
    BY <1>3, <1>7
  <2> HIDE DEF n
  <2>3. /\ Len(SubSeq(list, 1, n)) = n
        /\ \A i \in 1 .. n : SubSeq(list, 1, n)[i] = list[i]
    <3>1. \A i \in 1 .. n : list[i] \in Tasks
      BY <1>1, <2>1
    <3>2. n \in Nat
      BY <1>1, <2>1
    <3> QED BY <1>1, <3>1, <3>2, SubSeqProperties
  <2>4. Members(Due(s)) = {list[i] : i \in 1 .. n}
    BY <2>2, <2>3 DEF Members
  <2>5. \A i \in 1 .. n : i \in 1 .. Len(list) /\ value[list[i]] <= tick
    BY <1>1, <2>1
  <2>6. \A i \in 1 .. Len(list) : value[list[i]] <= tick => i \in 1 .. n
    BY <1>1, <2>1
  <2> QED BY <1>4, <2>4, <2>5, <2>6 DEF Members, value, tick
<1> QED BY <1>6, <1>7

\* A tick, and any sum of two numbers of ticks.
LEMMA AddTicksWraps ==
  ASSUME NEW a \in TickType, NEW b \in TickType
  PROVE  /\ AddTicks(a, b) = IF a + b > portMAX_DELAY THEN a + b - (portMAX_DELAY + 1) ELSE a + b
         /\ a \in Nat /\ b \in Nat /\ a <= portMAX_DELAY /\ b <= portMAX_DELAY
<1>1. portMAX_DELAY \in Nat \ {0} /\ a \in Nat /\ b \in Nat /\ a <= portMAX_DELAY /\ b <= portMAX_DELAY
  BY KernelAssumption DEF TickType
<1> DEFINE n == portMAX_DELAY + 1
           sum == a + b
<1>2. n \in Nat \ {0} /\ sum \in Nat /\ sum < 2 * n
  BY <1>1
<1> HIDE DEF n, sum
<1>3. ASSUME sum < n
      PROVE  sum % n = sum
  BY <1>2, <1>3
<1>4. ASSUME n <= sum
      PROVE  sum % n = sum - n
  BY <1>2, <1>4
<1>5. sum % n = IF sum >= n THEN sum - n ELSE sum
  BY <1>2, <1>3, <1>4
<1> QED BY <1>1, <1>5 DEF AddTicks, n, sum

\* The list of the tasks that the coming tick is about.
TickList(s, now) == IF now = 0 THEN Overflown(s) ELSE Delayed(s)

\* The tick is counted, and the lists are switched if the count wraps.
LEMMA CountedTimes ==
  ASSUME NEW s, Good(s), OnTime(s), NEW c, c = Counted(s), NEW now, now = AddTicks(s.xTickCount, 1)
  PROVE  /\ now = IF s.xTickCount = portMAX_DELAY THEN 0 ELSE s.xTickCount + 1
         /\ now = 0 => Delayed(s) = {}
         /\ c.xTickCount = now /\ c.xItemValue = s.xItemValue
         /\ Delayed(c) = TickList(s, now) /\ Forever(c) = Forever(s)
         /\ Overflown(c) = IF now = 0 THEN Delayed(s) ELSE Overflown(s)
         /\ c.xNextTaskUnblockTime = IF now = 0 THEN Earliest(Overflown(s), s.xItemValue)
                                     ELSE s.xNextTaskUnblockTime
         /\ SortedLists(c)
         /\ \A t \in Delayed(c) : /\ now <= c.xItemValue[t]
                                  /\ c.xNextTaskUnblockTime <= c.xItemValue[t]
<1> DEFINE overflows == (s.xNumOfOverflows + 1) % OverflowRange
           r == [s EXCEPT !.xTickCount = now]
           u == [r EXCEPT !.pxDelayedTaskList = r.pxOverflowDelayedTaskList,
                          !.pxOverflowDelayedTaskList = r.pxDelayedTaskList,
                          !.xNumOfOverflows = overflows]
           v == [u EXCEPT !.xNextTaskUnblockTime = NextUnblockTime(u)]
<1>1. s \in KernelState /\ s.xTickCount \in TickType /\ s.xItemValue \in [Tasks -> TickType]
  BY Fields DEF Good
<1>2. /\ now = IF s.xTickCount = portMAX_DELAY THEN 0 ELSE s.xTickCount + 1
      /\ s.xTickCount \in Nat /\ s.xTickCount <= portMAX_DELAY /\ portMAX_DELAY \in Nat
      /\ now \in TickType /\ 1 \in TickType
  <2>1. portMAX_DELAY \in Nat \ {0}
    BY KernelAssumption
  <2>2. 1 \in TickType
    BY <2>1 DEF TickType
  <2>3. now = IF s.xTickCount + 1 > portMAX_DELAY THEN s.xTickCount + 1 - (portMAX_DELAY + 1)
              ELSE s.xTickCount + 1
    BY <1>1, <2>2, AddTicksWraps
  <2>4. s.xTickCount \in Nat /\ s.xTickCount <= portMAX_DELAY
    BY <1>1, <2>2, AddTicksWraps
  <2>5. now = IF s.xTickCount = portMAX_DELAY THEN 0 ELSE s.xTickCount + 1
    BY <2>1, <2>3, <2>4
  <2> QED BY <2>1, <2>2, <2>4, <2>5 DEF TickType
<1>3. \A t \in Tasks : s.xItemValue[t] \in Nat /\ s.xItemValue[t] <= portMAX_DELAY
  BY <1>1, <1>2 DEF TickType
<1>4. Delayed(s) \subseteq Tasks /\ Overflown(s) \subseteq Tasks
  BY <1>1, StateMembers
<1>5. now = 0 => Delayed(s) = {}
  BY <1>2, <1>3, <1>4 DEF OnTime
<1>6. /\ r \in KernelState /\ r.xTickCount = now /\ SameBlocked(s, r) /\ r.xItemValue = s.xItemValue
      /\ r.xNextTaskUnblockTime = s.xNextTaskUnblockTime /\ r.xNumOfOverflows = s.xNumOfOverflows
  BY <1>1, <1>2 DEF KernelState, SameBlocked
<1>7. c = IF r.xTickCount = 0 THEN SwitchDelayedLists(r) ELSE r
  BY DEF Counted
<1>8. SortedLists(r) /\ Delayed(r) = Delayed(s) /\ Overflown(r) = Overflown(s) /\ Forever(r) = Forever(s)
  BY <1>6, SameMembers DEF OnTime, SortedLists, SameBlocked
<1> HIDE DEF r
<1>9. CASE now # 0
  <2>1. c = r
    BY <1>6, <1>7, <1>9
  <2>2. ASSUME NEW t \in Delayed(r)
        PROVE  now <= r.xItemValue[t] /\ r.xNextTaskUnblockTime <= r.xItemValue[t]
    <3>1. /\ s.xTickCount < s.xItemValue[t] /\ s.xNextTaskUnblockTime <= s.xItemValue[t]
          /\ s.xItemValue[t] \in Nat
      BY <1>3, <1>4, <1>8 DEF OnTime
    <3>2. now = s.xTickCount + 1
      BY <1>2, <1>9
    <3>3. now <= s.xItemValue[t]
      BY <1>2, <3>1, <3>2
    <3> QED BY <1>6, <3>1, <3>3
  <2> QED BY <1>2, <1>6, <1>8, <1>9, <2>1, <2>2 DEF TickList
<1>10. CASE now = 0
  <2>1. c = v
    BY <1>6, <1>7, <1>10 DEF SwitchDelayedLists
  <2>2. /\ u \in KernelState /\ u.pxDelayedTaskList = r.pxOverflowDelayedTaskList
        /\ u.pxOverflowDelayedTaskList = r.pxDelayedTaskList
        /\ u.xSuspendedTaskList = r.xSuspendedTaskList
        /\ u.xItemValue = r.xItemValue /\ u.xTickCount = now
    <3>1. overflows \in Nat
      <4>1. s.xNumOfOverflows \in Nat /\ OverflowRange \in Nat /\ OverflowRange > 1
        BY <1>1, Fields, KernelAssumption
      <4> QED BY <4>1
    <3> HIDE DEF overflows
    <3> QED BY <1>6, <3>1 DEF KernelState
  <2> HIDE DEF u
  <2>3. /\ v.pxDelayedTaskList = u.pxDelayedTaskList /\ v.xTickCount = now
        /\ v.pxOverflowDelayedTaskList = u.pxOverflowDelayedTaskList
        /\ v.xSuspendedTaskList = u.xSuspendedTaskList /\ v.xItemValue = u.xItemValue
        /\ v.xNextTaskUnblockTime = NextUnblockTime(u)
    BY <2>2 DEF KernelState
  <2> HIDE DEF v
  <2>4. /\ Delayed(v) = Overflown(s) /\ Overflown(v) = Delayed(s) /\ Forever(v) = Forever(s)
        /\ SortedLists(v) /\ v.xItemValue = s.xItemValue
    BY <1>6, <1>8, <2>2, <2>3 DEF Delayed, Overflown, Forever, SortedLists
  <2>5. /\ v.xNextTaskUnblockTime = Earliest(Overflown(s), s.xItemValue)
        /\ \A t \in Delayed(v) : v.xNextTaskUnblockTime <= s.xItemValue[t]
    <3> DEFINE items == v.pxDelayedTaskList
    <3>1. items \in TaskLists /\ ListSorted(items, s.xItemValue) /\ Members(items) = Overflown(s)
      BY <2>2, <2>3, <2>4, Fields DEF SortedLists, Delayed
    <3>2. NextUnblockTime(u) = IF items = <<>> THEN portMAX_DELAY ELSE s.xItemValue[Head(items)]
      BY <2>3, <2>4 DEF NextUnblockTime
    <3> HIDE DEF items
    <3> QED BY <1>1, <2>3, <2>4, <3>1, <3>2, EarliestIsHead
  <2>6. ASSUME NEW t \in Delayed(v)
        PROVE  now <= s.xItemValue[t]
    <3>1. s.xItemValue[t] \in Nat
      BY <1>3, <1>4, <2>4
    <3> QED BY <1>10, <3>1
  <2> QED BY <1>2, <1>5, <1>10, <2>1, <2>3, <2>4, <2>5, <2>6 DEF TickList
<1> QED BY <1>9, <1>10

\* The tasks that are due become ready.
DueNow(c) ==
  IF c.xTickCount >= c.xNextTaskUnblockTime
    THEN {t \in Delayed(c) : c.xItemValue[t] <= c.xTickCount} ELSE {}

LEMMA DueLeave ==
  ASSUME NEW c, Good(c), SortedLists(c), NEW u, u = UnblockAll(c, Due(c)), NEW r,
         \A t \in Delayed(c) : /\ c.xTickCount <= c.xItemValue[t]
                              /\ c.xNextTaskUnblockTime <= c.xItemValue[t],
         r = IF c.xTickCount < c.xNextTaskUnblockTime THEN u
             ELSE [u EXCEPT !.xNextTaskUnblockTime = NextUnblockTime(u)]
  PROVE  /\ DueNow(c) \subseteq Delayed(c)
         /\ r.xTickCount = c.xTickCount /\ r.xItemValue = c.xItemValue
         /\ Delayed(r) = Delayed(c) \ DueNow(c) /\ Overflown(r) = Overflown(c)
         /\ Forever(r) = Forever(c) /\ EventsLess(c, r, DueNow(c))
         /\ r.xNextTaskUnblockTime =
              IF c.xTickCount >= c.xNextTaskUnblockTime
                THEN Earliest(Delayed(c) \ DueNow(c), c.xItemValue) ELSE c.xNextTaskUnblockTime
         /\ OnTime(r) /\ SamePended(c, r)
<1> DEFINE due == Members(Due(c))
           value == c.xItemValue
<1>1. /\ c \in KernelState /\ value \in [Tasks -> TickType] /\ Delayed(c) \subseteq Tasks
      /\ c.xTickCount \in Nat /\ c.xNextTaskUnblockTime \in Nat
      /\ \A t \in Tasks : value[t] \in Nat
  BY Fields, StateMembers, TickTypes DEF Good
<1>2. due = {t \in Delayed(c) : value[t] <= c.xTickCount}
  BY <1>1, DueExact
<1>3. due = DueNow(c)
  <2>1. CASE c.xTickCount >= c.xNextTaskUnblockTime
    BY <1>2, <2>1 DEF DueNow
  <2>2. CASE ~(c.xTickCount >= c.xNextTaskUnblockTime)
    <3>1. ASSUME NEW t \in Delayed(c)
          PROVE  ~(value[t] <= c.xTickCount)
      BY <1>1, <2>2
    <3> QED BY <1>2, <2>2, <3>1 DEF DueNow
  <2> QED BY <2>1, <2>2
<1>4. Unblocked(c, u, due)
  <2>1. Due(c) \in TaskLists /\ due \subseteq Delayed(c)
    BY <1>1, DueItems
  <2>2. due \cap Ready(c) = {}
    BY <2>1 DEF Good, StateItems
  <2> QED BY <1>1, <2>1, <2>2, UnblockAllUnblocks
<1>5. /\ u \in KernelState /\ u.xTickCount = c.xTickCount /\ u.xItemValue = value
      /\ u.xNextTaskUnblockTime = c.xNextTaskUnblockTime /\ SortedLists(u)
      /\ SamePended(c, u) /\ EventsLess(c, u, due)
      /\ Delayed(u) = Delayed(c) \ due /\ Overflown(u) = Overflown(c) \ due
      /\ Forever(u) = Forever(c) \ due
  BY <1>4 DEF Unblocked, BlockedLess, SameTime, SameControl, SamePended
<1>6. Overflown(c) \ due = Overflown(c) /\ Forever(c) \ due = Forever(c)
  BY <1>2 DEF Good, StateItems
<1>7. ASSUME NEW t \in Delayed(u)
      PROVE  c.xTickCount < value[t]
  <2>1. value[t] \in Nat /\ ~(value[t] <= c.xTickCount)
    BY <1>1, <1>2, <1>5
  <2> QED BY <1>1, <2>1
<1>8. /\ NextUnblockTime(u) = Earliest(Delayed(u), value) /\ NextUnblockTime(u) \in TickType
      /\ \A t \in Delayed(u) : NextUnblockTime(u) <= value[t]
  <2> DEFINE items == u.pxDelayedTaskList
  <2>1. items \in TaskLists /\ ListSorted(items, value) /\ Members(items) = Delayed(u)
    BY <1>5, Fields DEF SortedLists, Delayed
  <2>2. NextUnblockTime(u) = IF items = <<>> THEN portMAX_DELAY ELSE value[Head(items)]
    BY <1>5 DEF NextUnblockTime
  <2> HIDE DEF items
  <2> QED BY <1>1, <1>5, <2>1, <2>2, EarliestIsHead, NextUnblockTimeType
<1>9. /\ SameBlocked(u, r) /\ SameEvents(u, r) /\ SamePended(u, r)
      /\ r.xTickCount = c.xTickCount /\ r.xItemValue = value
      /\ r.xNextTaskUnblockTime = IF c.xTickCount >= c.xNextTaskUnblockTime
                                  THEN NextUnblockTime(u) ELSE c.xNextTaskUnblockTime
  <2>1. CASE c.xTickCount < c.xNextTaskUnblockTime
    <3>1. r = u
      BY <2>1
    <3> QED BY <1>1, <1>5, <2>1, <3>1 DEF SameBlocked, SameEvents, SamePended
  <2>2. CASE ~(c.xTickCount < c.xNextTaskUnblockTime)
    <3> DEFINE next == NextUnblockTime(u)
    <3>1. r = [u EXCEPT !.xNextTaskUnblockTime = next] /\ next \in TickType
      BY <1>8, <2>2
    <3> HIDE DEF next
    <3>2. /\ SameBlocked(u, r) /\ SameEvents(u, r) /\ SamePended(u, r)
          /\ r.xTickCount = u.xTickCount /\ r.xItemValue = u.xItemValue
          /\ r.xNextTaskUnblockTime = next
      BY <1>5, <3>1 DEF KernelState, SameBlocked, SameEvents, SamePended
    <3> QED BY <1>1, <1>5, <2>2, <3>2 DEF next
  <2> QED BY <2>1, <2>2
<1>10. /\ Delayed(r) = Delayed(u) /\ Overflown(r) = Overflown(u) /\ Forever(r) = Forever(u)
       /\ EventsLess(c, r, due)
  BY <1>5, <1>9, SameMembers DEF EventsLess
<1>11. SortedLists(r)
  BY <1>5, <1>9 DEF SortedLists, SameBlocked
<1>12. \A t \in Delayed(r) : r.xNextTaskUnblockTime <= value[t]
  BY <1>5, <1>8, <1>9, <1>10
<1>13. OnTime(r)
  BY <1>7, <1>9, <1>10, <1>11, <1>12 DEF OnTime
<1>14. SamePended(c, r)
  BY <1>5, <1>9 DEF SamePended
<1>15. DueNow(c) \subseteq Delayed(c)
  BY <1>2, <1>3
<1> HIDE DEF due, value
<1>16. /\ Delayed(r) = Delayed(c) \ due /\ Overflown(r) = Overflown(c) /\ Forever(r) = Forever(c)
  BY <1>5, <1>6, <1>10
<1>17. r.xNextTaskUnblockTime =
         IF c.xTickCount >= c.xNextTaskUnblockTime
           THEN Earliest(Delayed(c) \ due, value) ELSE c.xNextTaskUnblockTime
  BY <1>5, <1>8, <1>9
<1> QED BY <1>3, <1>9, <1>10, <1>13, <1>14, <1>15, <1>16, <1>17 DEF value

\* The ticks that a delayed task has left, as TicksLeft has it for k.
LeftAt(s, t) ==
  IF t \in Delayed(s) THEN s.xItemValue[t] - s.xTickCount
  ELSE IF t \in Overflown(s) THEN s.xItemValue[t] + portMAX_DELAY + 1 - s.xTickCount
  ELSE 0
LeftOf(s) == [t \in Tasks |-> LeftAt(s, t)]
AllWaiting(s) == UNION {Waiting(s, e) : e \in EventLists}

LEMMA AllWaitingLess ==
  ASSUME NEW s, NEW r, NEW T, \A e \in EventLists : Waiting(r, e) = Waiting(s, e) \ T
  PROVE  AllWaiting(r) = AllWaiting(s) \ T
BY DEF AllWaiting

\* What a tick does to the view that module DelayedTasks has of the kernel.
TimedTick(s, r, now, next, expired) ==
  /\ r.xTickCount = now /\ r.xItemValue = s.xItemValue
  /\ Delayed(r) = TickList(s, now) \ expired
  /\ Overflown(r) = IF now = 0 THEN Delayed(s) ELSE Overflown(s)
  /\ Forever(r) = Forever(s) /\ Pending(r) = Pending(s)
  /\ AllWaiting(r) = AllWaiting(s) \ expired
  /\ r.xNextTaskUnblockTime =
       IF now >= next THEN Earliest(TickList(s, now) \ expired, s.xItemValue) ELSE next
  /\ LeftOf(r) = [t \in Tasks |->
                    IF t \in Delayed(s) \cup Overflown(s) /\ LeftOf(s)[t] > 0
                      THEN LeftOf(s)[t] - 1 ELSE LeftOf(s)[t]]

LEMMA IncrementTickTimes ==
  ASSUME NEW s, Good(s), OnTime(s), Pending(s) = {}, NEW r, r = IncrementTick(s),
         NEW now, now = AddTicks(s.xTickCount, 1), NEW next,
         next = IF now = 0 THEN Earliest(Overflown(s), s.xItemValue) ELSE s.xNextTaskUnblockTime,
         NEW expired,
         expired = IF now >= next THEN {t \in TickList(s, now) : s.xItemValue[t] <= now} ELSE {}
  PROVE  TimedTick(s, r, now, next, expired) /\ OnTime(r) /\ SamePended(s, r)
<1> DEFINE c == Counted(s)
           u == UnblockAll(c, Due(c))
<1>1. r = IF c.xTickCount < c.xNextTaskUnblockTime THEN u
          ELSE [u EXCEPT !.xNextTaskUnblockTime = NextUnblockTime(u)]
  BY DEF IncrementTick
<1>2. Good(c) /\ SameEvents(s, c) /\ SameControl(s, c)
  BY CountedGood
<1> HIDE DEF c
<1>3. /\ now = IF s.xTickCount = portMAX_DELAY THEN 0 ELSE s.xTickCount + 1
      /\ now = 0 => Delayed(s) = {}
      /\ c.xTickCount = now /\ c.xItemValue = s.xItemValue
      /\ Delayed(c) = TickList(s, now) /\ Forever(c) = Forever(s)
      /\ Overflown(c) = IF now = 0 THEN Delayed(s) ELSE Overflown(s)
      /\ c.xNextTaskUnblockTime = next
      /\ SortedLists(c)
      /\ \A t \in Delayed(c) : /\ now <= c.xItemValue[t]
                               /\ c.xNextTaskUnblockTime <= c.xItemValue[t]
  BY CountedTimes DEF c
<1>4. DueNow(c) = expired
  BY <1>3 DEF DueNow
<1>5. /\ expired \subseteq Delayed(c)
      /\ r.xTickCount = c.xTickCount /\ r.xItemValue = c.xItemValue
      /\ Delayed(r) = Delayed(c) \ expired /\ Overflown(r) = Overflown(c)
      /\ Forever(r) = Forever(c) /\ EventsLess(c, r, expired)
      /\ r.xNextTaskUnblockTime =
            IF c.xTickCount >= c.xNextTaskUnblockTime
              THEN Earliest(Delayed(c) \ expired, c.xItemValue) ELSE c.xNextTaskUnblockTime
      /\ OnTime(r) /\ SamePended(c, r)
  <2> HIDE DEF u
  <2>1. \A t \in Delayed(c) : /\ c.xTickCount <= c.xItemValue[t]
                             /\ c.xNextTaskUnblockTime <= c.xItemValue[t]
    BY <1>3
  <2>2. u = UnblockAll(c, Due(c))
    BY DEF u
  <2>3. Good(c) /\ SortedLists(c)
    BY <1>2, <1>3
  <2>4. /\ DueNow(c) \subseteq Delayed(c)
        /\ r.xTickCount = c.xTickCount /\ r.xItemValue = c.xItemValue
        /\ Delayed(r) = Delayed(c) \ DueNow(c) /\ Overflown(r) = Overflown(c)
        /\ Forever(r) = Forever(c) /\ EventsLess(c, r, DueNow(c))
        /\ r.xNextTaskUnblockTime =
             IF c.xTickCount >= c.xNextTaskUnblockTime
               THEN Earliest(Delayed(c) \ DueNow(c), c.xItemValue) ELSE c.xNextTaskUnblockTime
        /\ OnTime(r) /\ SamePended(c, r)
    BY <1>1, <2>1, <2>2, <2>3, DueLeave
  <2> QED BY <1>4, <2>4
<1> HIDE DEF u
<1>6. AllWaiting(r) = AllWaiting(s) \ expired /\ Pending(r) = Pending(s)
  <2>1. \A e \in EventLists : Waiting(r, e) = Waiting(s, e) \ expired
    BY <1>2, <1>5, SameMembers DEF EventsLess
  <2>2. Pending(r) = Pending(s)
    BY <1>2, <1>5, SameMembers DEF EventsLess
  <2> QED BY <2>1, <2>2, AllWaitingLess
<1>7. SamePended(s, r)
  BY <1>2, <1>5 DEF SamePended, SameControl
<1>8. ASSUME NEW t \in Tasks
      PROVE  LeftAt(r, t) = IF t \in Delayed(s) \cup Overflown(s) /\ LeftAt(s, t) > 0
                              THEN LeftAt(s, t) - 1 ELSE LeftAt(s, t)
  <2> DEFINE v == s.xItemValue[t]
             tick == s.xTickCount
  <2>1. /\ v \in Nat /\ tick \in Nat /\ portMAX_DELAY \in Nat /\ tick <= portMAX_DELAY
        /\ r.xItemValue[t] = v /\ r.xTickCount = now
    <3>1. /\ s.xItemValue \in [Tasks -> TickType] /\ tick \in TickType
      BY Fields DEF Good
    <3> QED BY <1>3, <1>5, <3>1, KernelAssumption DEF TickType
  <2>2. t \in Delayed(s) => t \notin Overflown(s) /\ tick < v
    BY DEF Good, StateItems, OnTime
  <2>3. t \in expired <=> t \in TickList(s, now) /\ v <= now
    <3>1. t \in TickList(s, now) => now <= v /\ next <= v
      BY <1>3
    <3>2. next \in Nat /\ now \in Nat
      <4>1. c.xNextTaskUnblockTime \in TickType /\ c.xTickCount \in TickType
        BY <1>2, Fields DEF Good
      <4> QED BY <1>3, <4>1, TickTypes
    <3>3. CASE now >= next
      BY <3>3
    <3>4. CASE ~(now >= next)
      BY <2>1, <3>1, <3>2, <3>4
    <3> QED BY <3>3, <3>4
  <2> HIDE DEF v, tick
  <2>4. CASE now = 0
    <3>1. /\ t \notin Delayed(s) /\ t \notin Overflown(r) /\ tick = portMAX_DELAY
          /\ t \in Delayed(r) <=> t \in Overflown(s) /\ ~(v <= 0)
      BY <1>3, <1>5, <2>1, <2>3, <2>4 DEF TickList, tick
    <3>2. LeftAt(s, t) = IF t \in Overflown(s) THEN v + portMAX_DELAY + 1 - tick ELSE 0
      BY <3>1 DEF LeftAt, v, tick
    <3>3. LeftAt(r, t) = IF t \in Delayed(r) THEN v - 0 ELSE 0
      BY <2>1, <2>4, <3>1 DEF LeftAt
    <3> QED BY <2>1, <3>1, <3>2, <3>3
  <2>5. CASE now # 0
    <3>1. /\ Overflown(r) = Overflown(s) /\ now = tick + 1
          /\ t \in Delayed(r) <=> t \in Delayed(s) /\ ~(v <= now)
      BY <1>3, <1>5, <2>3, <2>5 DEF TickList, tick
    <3>2. LeftAt(s, t) = IF t \in Delayed(s) THEN v - tick ELSE
                         IF t \in Overflown(s) THEN v + portMAX_DELAY + 1 - tick ELSE 0
      BY DEF LeftAt, v, tick
    <3>3. LeftAt(r, t) = IF t \in Delayed(r) THEN v - now ELSE
                         IF t \in Overflown(s) THEN v + portMAX_DELAY + 1 - now ELSE 0
      BY <2>1, <3>1 DEF LeftAt
    <3>4. CASE t \in Delayed(s)
      BY <2>1, <2>2, <3>1, <3>2, <3>3, <3>4 DEF v, tick
    <3>5. CASE t \in Overflown(s)
      BY <2>1, <2>2, <3>1, <3>2, <3>3, <3>5
    <3>6. CASE t \notin Delayed(s) /\ t \notin Overflown(s)
      BY <3>1, <3>2, <3>3, <3>6
    <3> QED BY <3>4, <3>5, <3>6
  <2> QED BY <2>4, <2>5
<1>9. LeftOf(r) = [t \in Tasks |->
                    IF t \in Delayed(s) \cup Overflown(s) /\ LeftOf(s)[t] > 0
                      THEN LeftOf(s)[t] - 1 ELSE LeftOf(s)[t]]
  BY <1>8 DEF LeftOf
<1>10. TimedTick(s, r, now, next, expired)
  BY <1>3, <1>5, <1>6, <1>9 DEF TimedTick
<1> QED BY <1>5, <1>7, <1>10

\* The running task blocks, and what that does to the same view.
TimedBlock(s, r, ticks, forever) ==
  LET t == s.pxCurrentTCB
      wake == AddTicks(s.xTickCount, ticks)
  IN /\ r.xTickCount = s.xTickCount
     /\ IF forever
          THEN /\ Forever(r) = Forever(s) \cup {t} /\ Delayed(r) = Delayed(s)
               /\ Overflown(r) = Overflown(s) /\ r.xItemValue = s.xItemValue
               /\ r.xNextTaskUnblockTime = s.xNextTaskUnblockTime /\ LeftOf(r) = LeftOf(s)
          ELSE /\ r.xItemValue = [s.xItemValue EXCEPT ![t] = wake] /\ Forever(r) = Forever(s)
               /\ LeftOf(r) = [LeftOf(s) EXCEPT ![t] = ticks]
               /\ IF wake < s.xTickCount
                    THEN /\ Overflown(r) = Overflown(s) \cup {t} /\ Delayed(r) = Delayed(s)
                         /\ r.xNextTaskUnblockTime = s.xNextTaskUnblockTime
                    ELSE /\ Delayed(r) = Delayed(s) \cup {t} /\ Overflown(r) = Overflown(s)
                         /\ r.xNextTaskUnblockTime =
                              IF wake < s.xNextTaskUnblockTime THEN wake ELSE s.xNextTaskUnblockTime
     /\ OnTime(r)

\* A list stays in order when the value of a task that is not on it changes.
LEMMA SortedElsewhere ==
  ASSUME NEW items \in TaskLists, NEW value, NEW other,
         \A t \in Members(items) : other[t] = value[t], ListSorted(items, value)
  PROVE  ListSorted(items, other)
BY DEF ListSorted, Members

\* Task t is put into a list of delayed tasks, and its wake time is set.
LEMMA SortedWith ==
  ASSUME NEW items \in TaskLists, NEW value \in [Tasks -> TickType], NEW t \in Tasks \ Members(items),
         NEW wake \in TickType, NEW other, other = [value EXCEPT ![t] = wake],
         ListSorted(items, value)
  PROVE  ListSorted(SortedInsert(items, t, other), other)
<1>1. /\ IsItems(items, Tasks) /\ Members(items) \subseteq Tasks
  BY ListTypes, TaskListMembers
<1>2. other \in [Tasks -> TickType] /\ \A x \in Members(items) : other[x] = value[x]
  BY <1>1
<1>3. ListSorted(items, other)
  BY <1>2, SortedElsewhere
<1>4. \A x \in Tasks : other[x] \in Int
  <2>1. \A n \in TickType : n \in Int
    BY TickTypes
  <2> QED BY <1>2, <2>1
<1>5. \A i \in 1 .. Len(items) : items[i] \in Tasks
  BY <1>1 DEF Members
<1> QED BY <1>1, <1>3, <1>4, <1>5, SortedInsertSorted

LEMMA AddCurrentTaskTimes ==
  ASSUME NEW s \in KernelState, StateItems(s), TopExact(s), OnTime(s), NEW t, t = s.pxCurrentTCB,
         t \in Ready(s) \cap Tasks, NEW ticks \in 1 .. portMAX_DELAY, NEW can \in BOOLEAN, NEW r,
         r = AddCurrentTaskToDelayedList(s, ticks, can)
  PROVE  TimedBlock(s, r, ticks, ticks = portMAX_DELAY /\ can)
<1> DEFINE v == RemoveFromReady(s, t)
           wake == AddTicks(s.xTickCount, ticks)
           value == [v.xItemValue EXCEPT ![t] = wake]
           timed == [v EXCEPT !.xItemValue[t] = wake]
           forever == Append(v.xSuspendedTaskList, t)
           overflow == SortedInsert(timed.pxOverflowDelayedTaskList, t, timed.xItemValue)
           delayed == SortedInsert(timed.pxDelayedTaskList, t, timed.xItemValue)
           next == IF wake < timed.xNextTaskUnblockTime THEN wake ELSE timed.xNextTaskUnblockTime
           u1 == [v EXCEPT !.xSuspendedTaskList = forever]
           u2 == [timed EXCEPT !.pxOverflowDelayedTaskList = overflow]
           u3 == [timed EXCEPT !.pxDelayedTaskList = delayed, !.xNextTaskUnblockTime = next]
<1>1. /\ v \in KernelState /\ SameBlocked(s, v) /\ SameTime(s, v)
  BY RemoveFromReadyRemoves
<1>2. r = IF ticks = portMAX_DELAY /\ can THEN u1 ELSE IF wake < s.xTickCount THEN u2 ELSE u3
  BY DEF AddCurrentTaskToDelayedList
<1>4. /\ s.xTickCount \in Nat /\ ticks \in Nat /\ ticks > 0 /\ ticks \in TickType /\ wake \in TickType
      /\ s.xTickCount <= portMAX_DELAY /\ ticks <= portMAX_DELAY /\ portMAX_DELAY \in Nat
      /\ wake = IF s.xTickCount + ticks > portMAX_DELAY
                  THEN s.xTickCount + ticks - (portMAX_DELAY + 1) ELSE s.xTickCount + ticks
  <2>1. portMAX_DELAY \in Nat \ {0} /\ s.xTickCount \in TickType
    BY KernelAssumption, Fields
  <2>2. ticks \in TickType /\ ticks > 0
    BY <2>1 DEF TickType
  <2>3. s.xTickCount \in Int /\ ticks \in Int
    BY <2>1, <2>2 DEF TickType
  <2> QED BY <2>1, <2>2, <2>3, AddTicksWraps, TickTypes
<1>5. /\ t \in Tasks /\ t \notin Delayed(s) /\ t \notin Overflown(s) /\ t \notin Forever(s)
      /\ Delayed(v) = Delayed(s) /\ Overflown(v) = Overflown(s) /\ Forever(v) = Forever(s)
      /\ v.xItemValue = s.xItemValue /\ v.xTickCount = s.xTickCount
      /\ v.xNextTaskUnblockTime = s.xNextTaskUnblockTime
  BY <1>1, SameMembers DEF StateItems, SameTime
<1> HIDE DEF v, wake
<1>3. /\ timed.pxOverflowDelayedTaskList = v.pxOverflowDelayedTaskList
      /\ timed.pxDelayedTaskList = v.pxDelayedTaskList
      /\ timed.xSuspendedTaskList = v.xSuspendedTaskList
      /\ timed.xNextTaskUnblockTime = v.xNextTaskUnblockTime /\ timed.xItemValue = value
      /\ timed.xTickCount = v.xTickCount
      /\ wake \in TickType => timed \in KernelState
  BY <1>1, <1>5 DEF KernelState
<1> HIDE DEF timed
<1>6. /\ s.xItemValue \in [Tasks -> TickType] /\ value \in [Tasks -> TickType]
      /\ value = [s.xItemValue EXCEPT ![t] = wake]
      /\ s.xNextTaskUnblockTime \in TickType /\ next \in TickType
      /\ v.pxDelayedTaskList \in TaskLists /\ v.pxOverflowDelayedTaskList \in TaskLists
      /\ v.xSuspendedTaskList \in TaskLists
      /\ Delayed(s) \subseteq Tasks /\ Overflown(s) \subseteq Tasks
  BY <1>1, <1>3, <1>4, <1>5, Fields, StateMembers
<1> HIDE DEF value
<1>7. /\ forever \in TaskLists /\ overflow \in TaskLists /\ delayed \in TaskLists
      /\ Members(forever) = Forever(s) \cup {t} /\ Members(overflow) = Overflown(s) \cup {t}
      /\ Members(delayed) = Delayed(s) \cup {t}
  <2>1. /\ Members(v.xSuspendedTaskList) = Forever(s)
        /\ Members(v.pxOverflowDelayedTaskList) = Overflown(s)
        /\ Members(v.pxDelayedTaskList) = Delayed(s)
    BY <1>5 DEF Forever, Overflown, Delayed
  <2> QED BY <1>3, <1>5, <1>6, <2>1, ListTypes, AppendItems, SortedInsertItems
<1>8. /\ ListSorted(v.pxDelayedTaskList, s.xItemValue)
      /\ ListSorted(v.pxOverflowDelayedTaskList, s.xItemValue)
  BY <1>1 DEF OnTime, SortedLists, SameBlocked
<1>9. /\ ListSorted(delayed, value) /\ ListSorted(overflow, value)
      /\ ListSorted(v.pxDelayedTaskList, value) /\ ListSorted(v.pxOverflowDelayedTaskList, value)
  <2>1. t \in Tasks \ Members(v.pxDelayedTaskList) /\ t \in Tasks \ Members(v.pxOverflowDelayedTaskList)
    BY <1>5 DEF Delayed, Overflown
  <2>2. ListSorted(delayed, value) /\ ListSorted(overflow, value)
    <3>1. /\ ListSorted(SortedInsert(v.pxDelayedTaskList, t, value), value)
          /\ ListSorted(SortedInsert(v.pxOverflowDelayedTaskList, t, value), value)
      BY <1>4, <1>6, <1>8, <2>1, SortedWith
    <3> QED BY <1>3, <3>1
  <2>3. \A x \in Tasks : x # t => value[x] = s.xItemValue[x]
    BY <1>6
  <2>4. /\ \A x \in Members(v.pxDelayedTaskList) : value[x] = s.xItemValue[x]
        /\ \A x \in Members(v.pxOverflowDelayedTaskList) : value[x] = s.xItemValue[x]
    BY <1>6, <2>1, <2>3, TaskListMembers
  <2>5. ListSorted(v.pxDelayedTaskList, value)
    BY <1>8, <2>4 DEF ListSorted, Members
  <2>6. ListSorted(v.pxOverflowDelayedTaskList, value)
    BY <1>8, <2>4 DEF ListSorted, Members
  <2> QED BY <2>2, <2>5, <2>6
<1>10. timed \in KernelState
  BY <1>3, <1>4
<1> HIDE DEF forever, overflow, delayed, next
<1>11. CASE ticks = portMAX_DELAY /\ can
  <2>1. r = u1
    BY <1>2, <1>11
  <2>2. /\ r.xSuspendedTaskList = forever /\ r.pxDelayedTaskList = v.pxDelayedTaskList
        /\ r.pxOverflowDelayedTaskList = v.pxOverflowDelayedTaskList
        /\ r.xItemValue = s.xItemValue /\ r.xTickCount = s.xTickCount
        /\ r.xNextTaskUnblockTime = s.xNextTaskUnblockTime
    BY <1>1, <1>5, <2>1 DEF KernelState
  <2>3. Forever(r) = Forever(s) \cup {t} /\ Delayed(r) = Delayed(s) /\ Overflown(r) = Overflown(s)
    BY <1>5, <1>7, <2>2 DEF Forever, Delayed, Overflown
  <2>4. LeftOf(r) = LeftOf(s)
    BY <2>2, <2>3 DEF LeftOf, LeftAt
  <2>5. OnTime(r)
    BY <1>8, <2>2, <2>3 DEF OnTime, SortedLists
  <2> QED BY <1>11, <2>2, <2>3, <2>4, <2>5 DEF TimedBlock
<1>12. CASE ~(ticks = portMAX_DELAY /\ can) /\ wake < s.xTickCount
  <2>1. r = u2
    BY <1>2, <1>12
  <2>2. /\ r.xSuspendedTaskList = v.xSuspendedTaskList /\ r.pxDelayedTaskList = v.pxDelayedTaskList
        /\ r.pxOverflowDelayedTaskList = overflow
        /\ r.xItemValue = value /\ r.xTickCount = s.xTickCount
        /\ r.xNextTaskUnblockTime = s.xNextTaskUnblockTime
    BY <1>3, <1>5, <1>10, <2>1 DEF KernelState
  <2>3. Forever(r) = Forever(s) /\ Delayed(r) = Delayed(s) /\ Overflown(r) = Overflown(s) \cup {t}
    BY <1>5, <1>7, <2>2 DEF Forever, Delayed, Overflown
  <2>4. ASSUME NEW x \in Tasks
        PROVE  LeftAt(r, x) = IF x = t THEN ticks ELSE LeftAt(s, x)
    <3>1. CASE x = t
      <4>1. LeftAt(r, x) = wake + portMAX_DELAY + 1 - s.xTickCount
        BY <1>5, <1>6, <2>2, <2>3, <3>1 DEF LeftAt
      <4> QED BY <1>4, <1>12, <3>1, <4>1
    <3>2. CASE x # t
      BY <1>6, <2>2, <2>3, <3>2 DEF LeftAt
    <3> QED BY <3>1, <3>2
  <2>5. LeftOf(r) = [LeftOf(s) EXCEPT ![t] = ticks]
    BY <2>4 DEF LeftOf
  <2>6. OnTime(r)
    <3>1. \A x \in Delayed(s) : value[x] = s.xItemValue[x]
      BY <1>5, <1>6
    <3> QED BY <1>9, <2>2, <2>3, <3>1 DEF OnTime, SortedLists
  <2> QED BY <1>6, <1>12, <2>2, <2>3, <2>5, <2>6 DEF TimedBlock, wake
<1>13. CASE ~(ticks = portMAX_DELAY /\ can) /\ ~(wake < s.xTickCount)
  <2>1. r = u3
    BY <1>2, <1>13
  <2>2. /\ r.xSuspendedTaskList = v.xSuspendedTaskList /\ r.pxDelayedTaskList = delayed
        /\ r.pxOverflowDelayedTaskList = v.pxOverflowDelayedTaskList
        /\ r.xItemValue = value /\ r.xTickCount = s.xTickCount
        /\ r.xNextTaskUnblockTime = next
    BY <1>3, <1>5, <1>10, <2>1 DEF KernelState
  <2>3. Forever(r) = Forever(s) /\ Delayed(r) = Delayed(s) \cup {t} /\ Overflown(r) = Overflown(s)
    BY <1>5, <1>7, <2>2 DEF Forever, Delayed, Overflown
  <2>7. wake = s.xTickCount + ticks
    BY <1>4, <1>13
  <2>4. ASSUME NEW x \in Tasks
        PROVE  LeftAt(r, x) = IF x = t THEN ticks ELSE LeftAt(s, x)
    <3>1. CASE x = t
      <4>1. LeftAt(r, x) = wake - s.xTickCount
        BY <1>6, <2>2, <2>3, <3>1 DEF LeftAt
      <4> QED BY <1>4, <2>7, <3>1, <4>1
    <3>2. CASE x # t
      BY <1>6, <2>2, <2>3, <3>2 DEF LeftAt
    <3> QED BY <3>1, <3>2
  <2>5. LeftOf(r) = [LeftOf(s) EXCEPT ![t] = ticks]
    BY <2>4 DEF LeftOf
  <2>8. next = IF wake < s.xNextTaskUnblockTime THEN wake ELSE s.xNextTaskUnblockTime
    BY <1>3, <1>5 DEF next
  <2>6. OnTime(r)
    <3>1. ASSUME NEW x \in Delayed(r)
          PROVE  s.xTickCount < value[x] /\ next <= value[x]
      <4>1. wake \in Nat /\ s.xNextTaskUnblockTime \in Nat /\ s.xTickCount < wake
        <5>1. wake \in Nat /\ s.xNextTaskUnblockTime \in Nat
          BY <1>4, <1>6, TickTypes
        <5>2. s.xTickCount < wake
          BY <1>4, <2>7
        <5> QED BY <5>1, <5>2
      <4>2. CASE x = t
        BY <1>6, <2>8, <4>1, <4>2
      <4>3. CASE x # t
        <5>1. x \in Delayed(s) /\ value[x] = s.xItemValue[x] /\ s.xItemValue[x] \in Nat
          BY <1>6, <2>3, <4>3, TickTypes
        <5>2. s.xTickCount < s.xItemValue[x] /\ s.xNextTaskUnblockTime <= s.xItemValue[x]
          BY <5>1 DEF OnTime
        <5> QED BY <2>8, <4>1, <5>1, <5>2
      <4> QED BY <4>2, <4>3
    <3> QED BY <1>9, <2>2, <2>3, <3>1 DEF OnTime, SortedLists
  <2> QED BY <1>6, <1>13, <2>2, <2>3, <2>5, <2>6, <2>8 DEF TimedBlock, wake
<1> QED BY <1>11, <1>12, <1>13

LEMMA SameTimes ==
  ASSUME NEW s, NEW v, SameBlocked(s, v), SameTime(s, v)
  PROVE  /\ LeftOf(v) = LeftOf(s) /\ (OnTime(s) => OnTime(v))
         /\ Delayed(v) = Delayed(s) /\ Overflown(v) = Overflown(s) /\ Forever(v) = Forever(s)
<1>1. Delayed(v) = Delayed(s) /\ Overflown(v) = Overflown(s) /\ Forever(v) = Forever(s)
  BY SameMembers
<1>2. LeftOf(v) = LeftOf(s)
  BY <1>1 DEF LeftOf, LeftAt, SameTime
<1>3. OnTime(s) => OnTime(v)
  BY <1>1, SameSorted DEF OnTime, SameTime
<1> QED BY <1>1, <1>2, <1>3

LEMMA PlaceTimes ==
  ASSUME NEW s, Good(s), OnTime(s), NEW t, t = s.pxCurrentTCB, t \in Ready(s) \cap Tasks,
         NEW e \in EventLists, NEW ticks \in 1 .. portMAX_DELAY, NEW r,
         r = PlaceOnEventList(s, e, ticks)
  PROVE  TimedBlock(s, r, ticks, ticks = portMAX_DELAY) /\ AllWaiting(r) = AllWaiting(s) \cup {t}
<1> DEFINE value == [x \in AllTasks |-> 0 - Priority[x]]
           list == SortedInsert(s.events[e], t, value)
           events == [s.events EXCEPT ![e] = list]
           v == [s EXCEPT !.events = events]
<1>1. r = AddCurrentTaskToDelayedList(v, ticks, TRUE)
  <2>1. [s EXCEPT !.events[e] = list] = v
    OBVIOUS
  <2> QED BY <2>1 DEF PlaceOnEventList
<1>2. s \in KernelState /\ s.events \in [EventLists -> TaskLists] /\ ticks \in Int
  BY Fields, KernelAssumption DEF Good
<1>3. list \in TaskLists
  <2>1. s.events[e] \in TaskLists /\ t \notin Members(s.events[e])
    BY <1>2 DEF Good, EventItems, Waiting
  <2> HIDE DEF value
  <2> QED BY <2>1, ListTypes, SortedInsertItems
<1> HIDE DEF list
<1>4. events \in [EventLists -> TaskLists]
  BY <1>2, <1>3
<1> HIDE DEF events
<1>5. /\ v \in KernelState /\ SameReady(s, v) /\ SameBlocked(s, v) /\ SameTime(s, v)
      /\ v.pxCurrentTCB = t
  BY <1>2, <1>4 DEF KernelState, SameReady, SameBlocked, SameTime
<1> HIDE DEF v
<1>6. StateItems(v) /\ TopExact(v) /\ Ready(v) = Ready(s) /\ OnTime(v) /\ LeftOf(v) = LeftOf(s)
  <2>1. /\ \A p \in Priorities : ReadyAt(v, p) = ReadyAt(s, p)
        /\ Ready(v) = Ready(s) /\ v.uxTopReadyPriority = s.uxTopReadyPriority
        /\ Delayed(v) = Delayed(s) /\ Overflown(v) = Overflown(s) /\ Forever(v) = Forever(s)
    BY <1>5, SameMembers DEF SameReady
  <2>2. StateItems(v)
    BY <2>1 DEF Good, StateItems
  <2>3. TopExact(v)
    BY <2>1 DEF Good, TopExact
  <2> QED BY <1>5, <2>1, <2>2, <2>3, SameTimes
<1>7. TimedBlock(v, r, ticks, ticks = portMAX_DELAY /\ TRUE)
  <2>1. t \in Ready(v) \cap Tasks /\ TRUE \in BOOLEAN
    BY <1>6
  <2> QED BY <1>1, <1>5, <1>6, <2>1, AddCurrentTaskTimes
<1>8. TimedBlock(s, r, ticks, ticks = portMAX_DELAY)
  BY <1>5, <1>6, <1>7, SameTimes DEF TimedBlock, SameTime
<1>9. \A o \in EventLists : Waiting(r, o) = IF o = e THEN Waiting(s, o) \cup {t} ELSE Waiting(s, o)
  BY <1>2, PlaceOnEventListPlaces DEF Placed
<1>10. AllWaiting(r) = AllWaiting(s) \cup {t}
  BY <1>9 DEF AllWaiting
<1> QED BY <1>8, <1>10

-----------------------------------------------------------------------------
(* Module DelayedTasks sees the kernel through these values.               *)

RealTicks(s) ==
  AddTicks(s.xTickCount, IF s.xPendedCounts > 0 THEN s.xPendedCounts ELSE s.xPendedTicks)

KeptTime(s, r) ==
  /\ r.xTickCount = s.xTickCount /\ r.xNextTaskUnblockTime = s.xNextTaskUnblockTime
  /\ r.xItemValue = s.xItemValue /\ LeftOf(r) = LeftOf(s)
KeptLists(s, r) ==
  Delayed(r) = Delayed(s) /\ Overflown(r) = Overflown(s) /\ Forever(r) = Forever(s)
KeptEvents(s, r) == Pending(r) = Pending(s) /\ AllWaiting(r) = AllWaiting(s)

LEMMA Views ==
  /\ Members(k.pxDelayedTaskList) = Delayed(k)
  /\ Members(k.pxOverflowDelayedTaskList) = Overflown(k)
  /\ Members(k.xSuspendedTaskList) = Forever(k) /\ Members(k.xPendingReadyList) = Pending(k)
  /\ UNION {Members(k.events[e]) : e \in EventLists} = AllWaiting(k)
  /\ [t \in Tasks |-> TicksLeft(t)] = LeftOf(k)
  /\ Members(k'.pxDelayedTaskList) = Delayed(k')
  /\ Members(k'.pxOverflowDelayedTaskList) = Overflown(k')
  /\ Members(k'.xSuspendedTaskList) = Forever(k') /\ Members(k'.xPendingReadyList) = Pending(k')
  /\ UNION {Members(k'.events[e]) : e \in EventLists} = AllWaiting(k')
  /\ [t \in Tasks |-> TicksLeft(t)'] = LeftOf(k')
BY DEF Delayed, Overflown, Forever, Pending, AllWaiting, Waiting, LeftOf, LeftAt, TicksLeft

\* Steps that it does not see.
LEMMA ViewStutters ==
  ASSUME KeptTime(k, k'), KeptLists(k, k'), KeptEvents(k, k'), SamePended(k, k'),
         k'.uxSchedulerSuspended = k.uxSchedulerSuspended, k'.pxCurrentTCB = k.pxCurrentTCB
  PROVE  UNCHANGED TimeBase!vars
<1>1. RealTicks(k') = RealTicks(k)
  BY DEF KeptTime, SamePended, RealTicks
<1> QED BY <1>1, Views
           DEF KeptTime, KeptLists, KeptEvents, SamePended, RealTicks, TimeBase!vars,
               TimeBase!timeVars, TimeBase!listVars, TimeBase!schedVars

\* The running task can run: it is on no list of blocked tasks.
Running(s) ==
  s.pxCurrentTCB \in AllTasks /\ s.pxCurrentTCB \notin Delayed(s) \cup Overflown(s) \cup Forever(s)

LEMMA RunningView ==
  ASSUME Running(k)
  PROVE  k.pxCurrentTCB \in TimeBase!Ready
BY Views DEF Running, AllTasks, TimeBase!Ready, TimeBase!Blocked, TimeBase!Timed

LEMMA SuspendsView ==
  ASSUME k.xPendedCounts = 0, Running(k), k.uxSchedulerSuspended = 0,
         KeptTime(k, k'), KeptLists(k, k'), KeptEvents(k, k'), SamePended(k, k'),
         k'.uxSchedulerSuspended = 1, k'.pxCurrentTCB = k.pxCurrentTCB
  PROVE  TimeBase!vTaskSuspendAll
<1>1. RealTicks(k') = RealTicks(k)
  BY DEF KeptTime, SamePended, RealTicks
<1> QED BY <1>1, Views, RunningView
           DEF KeptTime, KeptLists, KeptEvents, SamePended, RealTicks, TimeBase!vTaskSuspendAll,
               TimeBase!timeVars, TimeBase!listVars

LEMMA SwitchView ==
  ASSUME k.xPendedCounts = 0, k.uxSchedulerSuspended = 0,
         k'.pxCurrentTCB \in AllTasks,
         k'.pxCurrentTCB \notin Delayed(k) \cup Overflown(k) \cup Forever(k),
         KeptTime(k, k'), KeptLists(k, k'), KeptEvents(k, k'), SamePended(k, k'),
         k'.uxSchedulerSuspended = 0
  PROVE  TimeBase!vTaskSwitchContext
<1>1. RealTicks(k') = RealTicks(k)
  BY DEF KeptTime, SamePended, RealTicks
<1>2. k'.pxCurrentTCB \in TimeBase!Ready
  BY Views DEF AllTasks, TimeBase!Ready, TimeBase!Blocked, TimeBase!Timed
<1> QED BY <1>1, <1>2, Views
           DEF KeptTime, KeptLists, KeptEvents, SamePended, RealTicks, TimeBase!vTaskSwitchContext,
               TimeBase!timeVars, TimeBase!listVars, TimeBase!schedVars

\* An event for task t.
LEMMA WokenView ==
  ASSUME k.xPendedCounts = 0, NEW t \in Tasks, t \in AllWaiting(k), SameTime(k, k'), SamePended(k, k'),
         AllWaiting(k') = AllWaiting(k) \ {t},
         IF k.uxSchedulerSuspended = 0
           THEN /\ BlockedLess(k, k', {t}) /\ Pending(k') = Pending(k)
                /\ LeftOf(k') = [LeftOf(k) EXCEPT ![t] = 0]
           ELSE /\ KeptLists(k, k') /\ Pending(k') = Pending(k) \cup {t} /\ LeftOf(k') = LeftOf(k),
         k'.uxSchedulerSuspended = k.uxSchedulerSuspended, k'.pxCurrentTCB = k.pxCurrentTCB
  PROVE  TimeBase!xTaskRemoveFromEventList(t)
<1>1. RealTicks(k') = RealTicks(k)
  BY DEF SameTime, SamePended, RealTicks
<1> QED BY <1>1, Views
           DEF SameTime, BlockedLess, KeptLists, SamePended, RealTicks, TimeBase!xTaskRemoveFromEventList,
               TimeBase!PendingAfterEvent, TimeBase!listVars, TimeBase!schedVars

\* The running task blocks.
LEMMA BlockView ==
  ASSUME k.xPendedCounts = 0, Running(k), k.pxCurrentTCB # Idle, k.uxSchedulerSuspended > 0,
         NEW ticks \in 1 .. portMAX_DELAY, NEW onEvent \in BOOLEAN,
         TimedBlock(k, k', ticks, ticks = portMAX_DELAY /\ onEvent),
         Pending(k') = Pending(k), SamePended(k, k'), k.xTickCount \in TickType,
         AllWaiting(k') = IF onEvent THEN AllWaiting(k) \cup {k.pxCurrentTCB} ELSE AllWaiting(k),
         k'.uxSchedulerSuspended = k.uxSchedulerSuspended, k'.pxCurrentTCB = k.pxCurrentTCB
  PROVE  TimeBase!prvAddCurrentTaskToDelayedList(ticks, onEvent)
<1>1. RealTicks(k') = RealTicks(k)
  BY DEF TimedBlock, SamePended, RealTicks
<1>2. TimeBase!AddTicks(k.xTickCount, ticks) = AddTicks(k.xTickCount, ticks)
  <2>1. ticks \in TickType
    BY KernelAssumption DEF TickType
  <2> QED BY <2>1, AddTicksWraps DEF TimeBase!AddTicks
<1> QED BY <1>1, <1>2, Views, RunningView
           DEF TimedBlock, SamePended, RealTicks, TimeBase!prvAddCurrentTaskToDelayedList,
               TimeBase!WakesAfterWrap, TimeBase!timeVars, TimeBase!schedVars

-----------------------------------------------------------------------------
LEMMA OneMoreTick ==
  ASSUME NEW t \in TickType, NEW m \in Nat
  PROVE  /\ AddTicks(AddTicks(t, 1), m) = AddTicks(t, m + 1)
         /\ TimeBase!AddTicks(AddTicks(t, m), 1) = AddTicks(t, m + 1)
<1> DEFINE n == portMAX_DELAY + 1
<1>1. /\ portMAX_DELAY \in Nat /\ n \in Nat \ {0} /\ t \in Nat /\ t <= portMAX_DELAY
      /\ 1 \in TickType
  BY KernelAssumption DEF TickType
<1>2. AddTicks(t, 1) = IF t = portMAX_DELAY THEN 0 ELSE t + 1
  <2>1. AddTicks(t, 1) = IF t + 1 > portMAX_DELAY THEN t + 1 - (portMAX_DELAY + 1) ELSE t + 1
    BY <1>1, AddTicksWraps
  <2> QED BY <1>1, <2>1
<1>3. AddTicks(AddTicks(t, 1), m) = AddTicks(t, m + 1)
  <2>1. \A a, b : AddTicks(a, b) = (a + b) % n
    BY DEF AddTicks
  <2>2. CASE t = portMAX_DELAY
    <3>1. t + (m + 1) = m + n /\ 0 + m = m
      BY <1>1, <2>2
    <3> HIDE DEF n
    <3>2. (m + n) % n = m % n
      BY <1>1, ModWhole
    <3> QED BY <1>2, <2>1, <2>2, <3>1, <3>2
  <2>3. CASE t # portMAX_DELAY
    <3>1. (t + 1) + m = t + (m + 1)
      BY <1>1
    <3> HIDE DEF n
    <3> QED BY <1>2, <2>1, <2>3, <3>1
  <2> QED BY <2>2, <2>3
<1>4. TimeBase!AddTicks(AddTicks(t, m), 1) = AddTicks(t, m + 1)
  <2> DEFINE x == (t + m) % n
  <2>1. /\ AddTicks(t, m) = x /\ AddTicks(t, m + 1) = (t + (m + 1)) % n
    BY DEF AddTicks
  <2>2. t + m \in Nat /\ t + (m + 1) = (t + m) + 1 /\ n - 1 = portMAX_DELAY
    BY <1>1
  <2>3. x \in TickType
    <3>1. t + m \in Int
      BY <1>1
    <3>2. AddTicks(t, m) \in TickType
      BY <1>1, TickTypes
    <3> QED BY <2>1, <3>2
  <2> HIDE DEF n
  <2>4. (t + m + 1) % n = IF x = n - 1 THEN 0 ELSE x + 1
    BY <1>1, <2>2, ModStep
  <2> HIDE DEF x
  <2>5. x \in Nat /\ x <= portMAX_DELAY
    BY <1>1, <2>3 DEF TickType
  <2>6. TimeBase!AddTicks(x, 1) = IF x = portMAX_DELAY THEN 0 ELSE x + 1
    BY <1>1, <2>5 DEF TimeBase!AddTicks
  <2> QED BY <2>1, <2>2, <2>4, <2>6
<1> QED BY <1>3, <1>4

LEMMA EarliestView ==
  \A list : TimeBase!NextUnblockTime(list) = Earliest(list, k.xItemValue)
BY DEF TimeBase!NextUnblockTime, TimeBase!HeadEntry, Earliest

\* The body of a tick.
LEMMA TickedView ==
  ASSUME k.xTickCount \in TickType, NEW now, now = AddTicks(k.xTickCount, 1), NEW next,
         next = IF now = 0 THEN Earliest(Overflown(k), k.xItemValue) ELSE k.xNextTaskUnblockTime,
         NEW expired,
         expired = IF now >= next THEN {t \in TickList(k, now) : k.xItemValue[t] <= now} ELSE {},
         TimedTick(k, k', now, next, expired)
  PROVE  TimeBase!IncrementTick
<1>1. TimeBase!AddTicks(k.xTickCount, 1) = now
  <2>1. 1 \in TickType
    BY KernelAssumption DEF TickType
  <2> QED BY <2>1, AddTicksWraps DEF TimeBase!AddTicks
<1>2. TickList(k, now) = IF now = 0 THEN Overflown(k) ELSE Delayed(k)
  BY DEF TickList
<1>3. now = 0 => TimeBase!NextUnblockTime(Overflown(k)) = next
  BY EarliestView
<1>4. TimeBase!NextUnblockTime(TickList(k, now) \ expired) =
        Earliest(TickList(k, now) \ expired, k.xItemValue)
  BY EarliestView
<1>5. [t \in Tasks |->
         IF t \in TimeBase!Timed /\ [u \in Tasks |-> TicksLeft(u)][t] > 0
           THEN [u \in Tasks |-> TicksLeft(u)][t] - 1 ELSE [u \in Tasks |-> TicksLeft(u)][t]]
       = [t \in Tasks |-> TicksLeft(t)']
  BY Views DEF TimedTick, TimeBase!Timed
<1>6. (IF now >= next THEN TimeBase!DueTasks(TickList(k, now), now) ELSE {}) = expired
  BY DEF TimeBase!DueTasks
<1> QED BY <1>1, <1>2, <1>3, <1>4, <1>5, <1>6, Views
           DEF TimedTick, TimeBase!IncrementTick, TimeBase!OverflowListAfter,
               TimeBase!WaitingAfterTick

\* A tick interrupt.
LEMMA TickView ==
  ASSUME k.xPendedCounts = 0, k'.xPendedCounts = 0, k.xPendedTicks \in Nat, k.xTickCount \in TickType,
         k'.uxSchedulerSuspended = k.uxSchedulerSuspended, k'.pxCurrentTCB = k.pxCurrentTCB,
         IF k.uxSchedulerSuspended = 0
           THEN /\ TimeBase!IncrementTick /\ k'.xPendedTicks = k.xPendedTicks
                /\ k'.xTickCount = AddTicks(k.xTickCount, 1)
           ELSE /\ k.xPendedTicks < MaxPended /\ k'.xPendedTicks = k.xPendedTicks + 1
                /\ KeptTime(k, k') /\ KeptLists(k, k') /\ KeptEvents(k, k')
  PROVE  TimeBase!xTaskIncrementTick
<1>1. RealTicks(k) = AddTicks(k.xTickCount, k.xPendedTicks)
  BY DEF RealTicks
<1>2. RealTicks(k') = AddTicks(k'.xTickCount, k'.xPendedTicks)
  BY DEF RealTicks
<1>3. RealTicks(k') = TimeBase!AddTicks(RealTicks(k), 1)
  <2>1. CASE k.uxSchedulerSuspended = 0
    BY <1>1, <1>2, <2>1, OneMoreTick
  <2>2. CASE k.uxSchedulerSuspended # 0
    BY <1>1, <1>2, <2>2, OneMoreTick DEF KeptTime
  <2> QED BY <2>1, <2>2
<1> QED BY <1>3, Views
        DEF KeptTime, KeptLists, KeptEvents, RealTicks, TimeBase!xTaskIncrementTick,
            TimeBase!timeVars, TimeBase!listVars

\* One of the ticks that were pended.
LEMMA UnwindView ==
  ASSUME k.xPendedCounts > 0, k.xPendedCounts \in Nat, k.xPendedTicks \in Nat, k.xTickCount \in TickType,
         k'.xPendedCounts = k.xPendedCounts - 1,
         k'.xPendedTicks = IF k.xPendedCounts = 1 THEN 0 ELSE k.xPendedTicks,
         k'.uxSchedulerSuspended = k.uxSchedulerSuspended, k'.pxCurrentTCB = k.pxCurrentTCB,
         TimeBase!IncrementTick, k'.xTickCount = AddTicks(k.xTickCount, 1)
  PROVE  TimeBase!UnwindPendedTick
<1> DEFINE m == k.xPendedCounts - 1
<1>1. m \in Nat /\ m + 1 = k.xPendedCounts
  OBVIOUS
<1>2. RealTicks(k) = AddTicks(k.xTickCount, m + 1)
  BY <1>1 DEF RealTicks
<1>3. RealTicks(k') = AddTicks(AddTicks(k.xTickCount, 1), m)
  <2>1. (IF k'.xPendedCounts > 0 THEN k'.xPendedCounts ELSE k'.xPendedTicks) = m
    BY <1>1
  <2> QED BY <2>1 DEF RealTicks
<1> HIDE DEF m
<1>4. RealTicks(k') = RealTicks(k)
  BY <1>1, <1>2, <1>3, OneMoreTick
<1> QED BY <1>4, Views DEF RealTicks, TimeBase!UnwindPendedTick

\* xTaskResumeAll up to the pended ticks.
LEMMA ResumeView ==
  ASSUME k.xPendedCounts = 0, k.uxSchedulerSuspended = 1, k'.uxSchedulerSuspended = 0,
         BlockedLess(k, k', Pending(k)), Pending(k') = {}, AllWaiting(k') = AllWaiting(k),
         k'.xTickCount = k.xTickCount, k'.xItemValue = k.xItemValue, k.xPendedTicks \in Nat,
         k'.xNextTaskUnblockTime = IF Pending(k) = {} THEN k.xNextTaskUnblockTime
                                   ELSE Earliest(Delayed(k'), k.xItemValue),
         LeftOf(k') = [t \in Tasks |-> IF t \in Pending(k) THEN 0 ELSE LeftOf(k)[t]],
         k'.xPendedTicks = k.xPendedTicks, k'.xPendedCounts = k.xPendedTicks,
         k'.pxCurrentTCB = k.pxCurrentTCB
  PROVE  TimeBase!xTaskResumeAll
<1>1. RealTicks(k') = RealTicks(k)
  <2>1. (IF k'.xPendedCounts > 0 THEN k'.xPendedCounts ELSE k'.xPendedTicks) = k.xPendedTicks
    OBVIOUS
  <2>2. (IF k.xPendedCounts > 0 THEN k.xPendedCounts ELSE k.xPendedTicks) = k.xPendedTicks
    OBVIOUS
  <2> QED BY <2>1, <2>2 DEF RealTicks
<1>2. TimeBase!NextUnblockTime(Delayed(k) \ Pending(k)) = Earliest(Delayed(k'), k.xItemValue)
  BY EarliestView DEF BlockedLess
<1>3. [t \in Tasks |-> IF t \in Members(k.xPendingReadyList) THEN 0
                      ELSE [u \in Tasks |-> TicksLeft(u)][t]]
        = [t \in Tasks |-> TicksLeft(t)']
  BY Views
<1> QED BY <1>1, <1>2, <1>3, Views DEF BlockedLess, RealTicks, TimeBase!xTaskResumeAll

-----------------------------------------------------------------------------
(* What the other operations on the kernel's record do to the times.       *)

LEMMA WokenTimes ==
  ASSUME NEW s, Good(s), OnTime(s), NEW h \in Tasks, NEW r, Woken(s, r, h)
  PROVE  /\ OnTime(r)
         /\ LeftOf(r) = IF s.uxSchedulerSuspended = 0 THEN [LeftOf(s) EXCEPT ![h] = 0] ELSE LeftOf(s)
<1>1. SortedLists(r) /\ r.xTickCount = s.xTickCount /\ r.xItemValue = s.xItemValue
      /\ r.xNextTaskUnblockTime = s.xNextTaskUnblockTime
  BY DEF OnTime, Woken, SameTime
<1>2. CASE s.uxSchedulerSuspended = 0
  <2>1. BlockedLess(s, r, {h})
    BY <1>2 DEF Woken
  <2>2. OnTime(r)
    BY <1>1, <2>1 DEF OnTime, BlockedLess
  <2>3. \A t \in Tasks : LeftAt(r, t) = IF t = h THEN 0 ELSE LeftAt(s, t)
    BY <1>1, <2>1 DEF LeftAt, BlockedLess
  <2>4. LeftOf(r) = [LeftOf(s) EXCEPT ![h] = 0]
    BY <2>3 DEF LeftOf
  <2> QED BY <1>2, <2>2, <2>4
<1>3. CASE s.uxSchedulerSuspended # 0
  <2>1. Delayed(r) = Delayed(s) /\ Overflown(r) = Overflown(s)
    BY <1>3 DEF Woken, BlockedLess
  <2>2. OnTime(r)
    BY <1>1, <2>1 DEF OnTime
  <2>3. LeftOf(r) = LeftOf(s)
    BY <1>1, <2>1 DEF LeftOf, LeftAt
  <2> QED BY <1>3, <2>2, <2>3
<1> QED BY <1>2, <1>3

LEMMA MovedTimes ==
  ASSUME NEW s, Good(s), OnTime(s), NEW r, PendingMoved(s, r)
  PROVE  /\ OnTime(r)
         /\ LeftOf(r) = [t \in Tasks |-> IF t \in Pending(s) THEN 0 ELSE LeftOf(s)[t]]
         /\ r.xNextTaskUnblockTime = IF Pending(s) = {} THEN s.xNextTaskUnblockTime
                                     ELSE Earliest(Delayed(r), s.xItemValue)
<1>1. /\ SortedLists(r) /\ r.xTickCount = s.xTickCount /\ r.xItemValue = s.xItemValue
      /\ BlockedLess(s, r, Pending(s)) /\ Good(r)
      /\ r.xNextTaskUnblockTime = IF Pending(s) = {} THEN s.xNextTaskUnblockTime ELSE NextUnblockTime(r)
  BY DEF OnTime, PendingMoved, SameClock
<1>2. /\ Earliest(Delayed(r), r.xItemValue) = NextUnblockTime(r)
      /\ \A t \in Delayed(r) : NextUnblockTime(r) <= r.xItemValue[t]
  <2>1. /\ r.pxDelayedTaskList \in TaskLists /\ r.xItemValue \in [Tasks -> TickType]
        /\ ListSorted(r.pxDelayedTaskList, r.xItemValue)
    BY <1>1, Fields DEF Good, SortedLists
  <2> QED BY <2>1, EarliestIsHead DEF NextUnblockTime, Delayed
<1>3. OnTime(r)
  BY <1>1, <1>2 DEF OnTime, BlockedLess
<1>4. \A t \in Tasks : LeftAt(r, t) = IF t \in Pending(s) THEN 0 ELSE LeftAt(s, t)
  BY <1>1 DEF LeftAt, BlockedLess
<1>5. LeftOf(r) = [t \in Tasks |-> IF t \in Pending(s) THEN 0 ELSE LeftOf(s)[t]]
  BY <1>4 DEF LeftOf
<1> QED BY <1>1, <1>2, <1>3, <1>5

\* The fields that an assignment to one that it does not name leaves alone.
SameRest(s, r) ==
  SameReady(s, r) /\ SameBlocked(s, r) /\ SameEvents(s, r) /\ SameTime(s, r)
  /\ r.pxCurrentTCB = s.pxCurrentTCB

LEMMA SuspendedRest ==
  ASSUME NEW s \in KernelState, NEW n, NEW r, r = [s EXCEPT !.uxSchedulerSuspended = n]
  PROVE  SameRest(s, r) /\ SamePended(s, r) /\ r.uxSchedulerSuspended = n
BY DEF KernelState, SameRest, SameReady, SameBlocked, SameEvents, SameTime, SamePended

LEMMA PendedRest ==
  ASSUME NEW s \in KernelState, NEW counts, NEW ticks, NEW yield, NEW r,
         r = Pended(s, counts, ticks, yield)
  PROVE  /\ SameRest(s, r) /\ r.uxSchedulerSuspended = s.uxSchedulerSuspended
         /\ r.xPendedCounts = counts /\ r.xPendedTicks = ticks
BY DEF Pended, KernelState, SameRest, SameReady, SameBlocked, SameEvents, SameTime

LEMMA RestKept ==
  ASSUME NEW s, NEW r, SameRest(s, r)
  PROVE  /\ KeptTime(s, r) /\ KeptLists(s, r) /\ KeptEvents(s, r)
         /\ (OnTime(s) => OnTime(r)) /\ Ready(r) = Ready(s)
         /\ \A e \in EventLists : Waiting(r, e) = Waiting(s, e)
<1>1. /\ SameReady(s, r) /\ SameBlocked(s, r) /\ SameEvents(s, r) /\ SameTime(s, r)
  BY DEF SameRest
<1>2. AllWaiting(r) = AllWaiting(s)
  BY <1>1 DEF AllWaiting, Waiting, SameEvents
<1> QED BY <1>1, <1>2, SameTimes, SameMembers
        DEF KeptTime, KeptLists, KeptEvents, SameTime

-----------------------------------------------------------------------------
(* The invariant of the refinement: the times, the ticks that are pended   *)
(* and the ticks that the calls wait for.                                  *)

KernelTime(s) ==
  /\ OnTime(s) /\ s.xPendedTicks \in Nat /\ s.xPendedCounts \in Nat
  /\ s.uxSchedulerSuspended = 0 => Pending(s) = {}

Unwinding == k.xPendedCounts > 0 <=> task[k.pxCurrentTCB].pc = "unwind"

\* A call that may block has time left.
InRange(r) ==
  /\ r.ticks \in TickType
  /\ r.pc \in {"suspend", "lock", "check", "test", "place", "delay"} => r.ticks # 0

Timely == KernelTime(k) /\ Unwinding /\ \A t \in AllTasks : InRange(task[t])

Follows == Timely' /\ [TimeBase!Next]_(TimeBase!vars)

LEMMA ActingTime ==
  ASSUME KernelIInv, Timely, NEW t \in AllTasks, NEW pcs, At(t, pcs)
  PROVE  /\ KernelTime(k) /\ InRange(task[t])
         /\ "unwind" \notin pcs => k.xPendedCounts = 0
         /\ t \in Ready(k) => Running(k)
<1>1. t = k.pxCurrentTCB /\ task[t].pc \in pcs /\ Good(k)
  BY Acting
<1>2. "unwind" \notin pcs => k.xPendedCounts = 0
  BY <1>1 DEF Timely, Unwinding, KernelTime
<1>3. t \in Ready(k) => Running(k)
  BY <1>1 DEF Good, StateItems, Running
<1> QED BY <1>2, <1>3 DEF Timely

\* The running task moves on in its call.
LEMMA MovesOn ==
  ASSUME KernelIInv, Timely, NEW t \in AllTasks, t = k.pxCurrentTCB, k'.pxCurrentTCB = t, NEW r,
         task' = [task EXCEPT ![t] = r], InRange(r), KernelTime(k'),
         k'.xPendedCounts > 0 <=> r.pc = "unwind", [TimeBase!Next]_(TimeBase!vars)
  PROVE  Follows
<1>1. task \in [AllTasks -> TaskState]
  BY DEF KernelIInv, Scheduling, Types
<1>2. task'[t] = r /\ \A x \in AllTasks : InRange(task'[x])
  BY <1>1 DEF Timely
<1>3. Unwinding'
  BY <1>2 DEF Unwinding
<1> QED BY <1>2, <1>3 DEF Follows, Timely

\* It does so and nothing else happens to the kernel.
LEMMA MovesAlone ==
  ASSUME KernelIInv, Timely, NEW t \in AllTasks, NEW pcs, At(t, pcs), "unwind" \notin pcs, k' = k, NEW r,
         task' = [task EXCEPT ![t] = r], InRange(r), r.pc # "unwind"
  PROVE  Follows
<1>1. t = k.pxCurrentTCB /\ k.xPendedCounts = 0 /\ KernelTime(k')
  BY ActingTime DEF At
<1>2. UNCHANGED TimeBase!vars
  BY ViewStutters DEF KeptTime, KeptLists, KeptEvents, SamePended
<1>3. k'.pxCurrentTCB = t /\ (k'.xPendedCounts > 0 <=> r.pc = "unwind")
  BY <1>1
<1> QED BY <1>1, <1>2, <1>3, MovesOn

\* An event, or none if no task waits.
LEMMA WakeFollows ==
  ASSUME KernelIInv, Timely, k.xPendedCounts = 0, NEW e \in EventLists, k' = Wake(k, e)
  PROVE  /\ KernelTime(k') /\ k'.pxCurrentTCB = k.pxCurrentTCB /\ k'.xPendedCounts = 0
         /\ [TimeBase!Next]_(TimeBase!vars)
<1>1. Good(k) /\ KernelTime(k)
  BY DEF KernelIInv, Scheduling, Types, Timely
<1>2. CASE k.events[e] = <<>>
  <2>1. k' = k
    BY <1>2 DEF Wake
  <2>2. UNCHANGED TimeBase!vars
    BY <2>1, ViewStutters DEF KeptTime, KeptLists, KeptEvents, SamePended
  <2> QED BY <1>1, <2>1, <2>2
<1>3. CASE k.events[e] # <<>>
  <2>1. PICK h \in Waiting(k, e) : Woken(k, k', h)
    BY <1>1, <1>3, RemoveFromEventListWakes DEF Wake
  <2>2. h \in Tasks /\ h \in AllWaiting(k)
    BY <1>1, StateMembers DEF Good, AllWaiting
  <2>3. /\ OnTime(k')
        /\ LeftOf(k') = IF k.uxSchedulerSuspended = 0 THEN [LeftOf(k) EXCEPT ![h] = 0] ELSE LeftOf(k)
    BY <1>1, <2>1, <2>2, WokenTimes DEF KernelTime
  <2>4. AllWaiting(k') = AllWaiting(k) \ {h}
    <3>1. \A o \in EventLists : Waiting(k', o) = Waiting(k, o) \ {h}
      BY <2>1 DEF Woken
    <3> QED BY <3>1 DEF AllWaiting
  <2>5. /\ SameTime(k, k') /\ SamePended(k, k') /\ k'.pxCurrentTCB = k.pxCurrentTCB
        /\ k'.uxSchedulerSuspended = k.uxSchedulerSuspended
        /\ IF k.uxSchedulerSuspended = 0 THEN Pending(k') = Pending(k) /\ BlockedLess(k, k', {h})
           ELSE Pending(k') = Pending(k) \cup {h} /\ KeptLists(k, k')
    BY <2>1 DEF Woken, BlockedLess, KeptLists
  <2>6. TimeBase!xTaskRemoveFromEventList(h)
    BY <2>2, <2>3, <2>4, <2>5, WokenView
  <2>7. KernelTime(k') /\ k'.xPendedCounts = 0
    BY <1>1, <2>3, <2>5 DEF KernelTime, SamePended
  <2> QED BY <2>2, <2>5, <2>6, <2>7 DEF TimeBase!Next
<1> QED BY <1>2, <1>3

-----------------------------------------------------------------------------
(* Each step is a step of the time base or leaves it alone: the steps that *)
(* change only where the running task is.                                  *)

LEMMA CallTicks ==
  \A t \in AllTasks : \A c \in Calls[t] : c.ticks \in TickType
<1>1. \A t \in AllTasks : Calls[t] \subseteq QueueCalls \cup DelayCalls
  BY CallFacts
<1>2. \A c \in QueueCalls \cup DelayCalls : c.ticks \in TickType
  BY DEF QueueCalls, DelayCalls
<1> QED BY <1>1, <1>2

LEMMA AtAppTime == InRange(AtApp) /\ AtApp.pc = "app"
<1>1. 0 \in TickType
  BY TickTypes
<1> QED BY <1>1 DEF AtApp, InRange

LEMMA ReturnFollows ==
  ASSUME KernelIInv, Timely, NEW t \in AllTasks, NEW pcs, At(t, pcs), "unwind" \notin pcs, k' = k, Return(t)
  PROVE  Follows
<1> DEFINE r == AtApp
<1>1. task' = [task EXCEPT ![t] = r] /\ InRange(r) /\ r.pc # "unwind"
  BY AtAppTime DEF Return
<1> HIDE DEF r
<1> QED BY <1>1, MovesAlone

\* A task that goes on with what it has left.
LEMMA GotoFollows ==
  ASSUME KernelIInv, Timely, NEW t \in AllTasks, NEW pcs, At(t, pcs), "unwind" \notin pcs, k' = k,
         NEW pc \in Pcs \ {"unwind"}, Goto(t, pc),
         task[t].ticks # 0 \/ pc \notin {"suspend", "lock", "check", "test", "place", "delay"}
  PROVE  Follows
<1> DEFINE r == [task[t] EXCEPT !.pc = pc]
<1>1. task' = [task EXCEPT ![t] = r]
  BY DEF Goto
<1>2. task[t] \in TaskState /\ InRange(task[t])
  BY Acting, ActingTime
<1>3. r.pc = pc /\ r.ticks = task[t].ticks
  BY <1>2 DEF TaskState
<1> HIDE DEF r
<1>4. InRange(r) /\ r.pc # "unwind"
  BY <1>2, <1>3 DEF InRange
<1> QED BY <1>1, <1>4, MovesAlone

LEMMA NotReadyFollows ==
  ASSUME KernelIInv, Timely, NEW t \in AllTasks, At(t, {"app", "try"}), NEW c \in Calls[t],
         NotReady(t, c)
  PROVE  Follows
<1> DEFINE ticks == IF task[t].pc = "app" THEN c.ticks ELSE task[t].ticks
           pcs == {"app", "try"}
<1>1. /\ k' = k /\ task[t].pc \in pcs /\ InRange(task[t]) /\ Consistent(task[t])
      /\ At(t, pcs) /\ "unwind" \notin pcs
  BY Acting, ActingTime DEF NotReady
<1>2. ticks \in TickType
  BY <1>1, CallTicks DEF InRange
<1>3. CASE ticks = 0
  <2>1. Return(t)
    BY <1>3 DEF NotReady
  <2> HIDE DEF pcs
  <2> QED BY <1>1, <2>1, ReturnFollows
<1>4. CASE ticks # 0 /\ task[t].xEntryTimeSet
  <2>1. Goto(t, "suspend")
    BY <1>4 DEF NotReady
  <2>2. task[t].ticks # 0
    BY <1>1, <1>4 DEF Consistent
  <2>3. "suspend" \in Pcs \ {"unwind"}
    BY DEF Pcs, RunningPcs
  <2> HIDE DEF pcs
  <2> QED BY <1>1, <2>1, <2>2, <2>3, GotoFollows
<1>5. CASE ticks # 0 /\ ~task[t].xEntryTimeSet
  <2> DEFINE r == [pc |-> "suspend", call |-> c, ticks |-> ticks,
                   xEntryTimeSet |-> TRUE, xOverflowCount |-> k.xNumOfOverflows,
                   xTimeOnEntering |-> k.xTickCount, after |-> "none"]
  <2>1. task' = [task EXCEPT ![t] = r]
    BY <1>5 DEF NotReady
  <2>2. InRange(r) /\ r.pc # "unwind"
    BY <1>2, <1>5 DEF InRange
  <2> HIDE DEF r, pcs
  <2> QED BY <1>1, <2>1, <2>2, MovesAlone
<1> QED BY <1>3, <1>4, <1>5

LEMMA CheckForTimeOutFollows ==
  ASSUME KernelIInv, Timely, NEW t \in AllTasks, xTaskCheckForTimeOut(t)
  PROVE  Follows
<1> DEFINE r1 == [task[t] EXCEPT !.ticks = 0, !.pc = "unlockTx", !.after = "expired"]
           r2 == [task[t] EXCEPT !.pc = "test"]
           r3 == StillToWait(t)
           pcs == {"check"}
<1>1. /\ At(t, pcs) /\ k' = k /\ task[t].pc = "check" /\ task[t] \in TaskState /\ InRange(task[t])
      /\ "unwind" \notin pcs
  BY Acting, ActingTime DEF xTaskCheckForTimeOut
<1>2. PICK r : /\ task' = [task EXCEPT ![t] = r]
               /\ r = r1 \/ r = r2 \/ (r = r3 /\ ~TimedOut(t) /\ task[t].ticks # portMAX_DELAY)
  BY DEF xTaskCheckForTimeOut
<1>3. InRange(r) /\ r.pc # "unwind"
  <2>1. CASE r = r1
    <3>1. r.ticks = 0 /\ r.pc = "unlockTx" /\ 0 \in TickType
      BY <1>1, <2>1, TickTypes DEF TaskState
    <3> QED BY <3>1 DEF InRange
  <2>2. CASE r = r2
    <3>1. r.ticks = task[t].ticks /\ r.pc = "test"
      BY <1>1, <2>2 DEF TaskState
    <3> QED BY <1>1, <3>1 DEF InRange
  <2>3. CASE r = r3 /\ ~TimedOut(t) /\ task[t].ticks # portMAX_DELAY
    <3>1. r.ticks = task[t].ticks - xElapsedTime(t) /\ r.pc = "test"
      BY <1>1, <2>3 DEF StillToWait, TaskState
    <3>2. ~(xElapsedTime(t) >= task[t].ticks)
      BY <2>3 DEF TimedOut
    <3>3. xElapsedTime(t) \in TickType /\ task[t].ticks \in TickType
      <4>1. k.xTickCount \in TickType
        BY SchedulingFacts, Fields DEF KernelIInv
      <4>2. task[t].xTimeOnEntering \in Int /\ k.xTickCount \in Int
        BY <1>1, <4>1 DEF TaskState, TickType
      <4> QED BY <1>1, <4>2, TickTypes DEF xElapsedTime, InRange
    <3>4. r.ticks \in TickType /\ r.ticks # 0
      BY <3>1, <3>2, <3>3, KernelAssumption DEF TickType
    <3> QED BY <3>1, <3>4 DEF InRange
  <2> QED BY <1>2, <2>1, <2>2, <2>3
<1> HIDE DEF pcs
<1> QED BY <1>1, <1>2, <1>3, MovesAlone

LEMMA TestQueueFollows ==
  ASSUME KernelIInv, Timely, NEW t \in AllTasks, TestQueue(t)
  PROVE  Follows
<1> DEFINE r1 == [task[t] EXCEPT !.pc = "place"]
           r2 == [task[t] EXCEPT !.pc = "unlockTx", !.after = "retry"]
           pcs == {"test"}
<1>1. /\ At(t, pcs) /\ k' = k /\ task[t].pc = "test" /\ task[t] \in TaskState /\ InRange(task[t])
      /\ "unwind" \notin pcs
  BY Acting, ActingTime DEF TestQueue
<1>2. PICK r : task' = [task EXCEPT ![t] = r] /\ (r = r1 \/ r = r2)
  BY DEF TestQueue
<1>3. r.ticks = task[t].ticks /\ r.pc \in {"place", "unlockTx"}
  BY <1>1, <1>2 DEF TaskState
<1>4. InRange(r) /\ r.pc # "unwind"
  BY <1>1, <1>3 DEF InRange
<1> HIDE DEF pcs
<1> QED BY <1>1, <1>2, <1>4, MovesAlone

LEMMA LockQueueFollows ==
  ASSUME KernelIInv, Timely, NEW t \in AllTasks, prvLockQueue(t)
  PROVE  Follows
<1>1. /\ At(t, {"lock"}) /\ k' = k /\ Goto(t, "check") /\ task[t].ticks # 0
  BY ActingTime DEF prvLockQueue, At, InRange
<1>2. "check" \in Pcs \ {"unwind"} /\ "unwind" \notin {"lock"}
  BY DEF Pcs, HoldingPcs
<1> QED BY <1>1, <1>2, GotoFollows

LEMMA YieldFollows ==
  ASSUME KernelIInv, Timely, NEW t \in AllTasks, Yield(t)
  PROVE  Follows
<1> DEFINE pc == IF task[t].after = "delayed" THEN "return" ELSE "try"
<1>1. At(t, {"yield"}) /\ k' = k /\ Goto(t, pc)
  BY DEF Yield
<1>2. pc \in Pcs \ {"unwind"} /\ pc \in {"return", "try"} /\ "unwind" \notin {"yield"}
  BY DEF Pcs, RunningPcs
<1> HIDE DEF pc
<1> QED BY <1>1, <1>2, GotoFollows

LEMMA ExpiredFollows ==
  ASSUME KernelIInv, Timely, NEW t \in AllTasks, Expired(t)
  PROVE  Follows
<1>1. At(t, {"expired"}) /\ k' = k /\ (Goto(t, "try") \/ Return(t))
  BY DEF Expired
<1>2. "try" \in Pcs \ {"unwind"} /\ "unwind" \notin {"expired"}
  BY DEF Pcs, RunningPcs
<1> QED BY <1>1, <1>2, GotoFollows, ReturnFollows

LEMMA DelayOverFollows ==
  ASSUME KernelIInv, Timely, NEW t \in AllTasks, DelayOver(t)
  PROVE  Follows
<1>1. At(t, {"return"}) /\ k' = k /\ Return(t) /\ "unwind" \notin {"return"}
  BY DEF DelayOver
<1> QED BY <1>1, ReturnFollows

\* Nothing but the queues or pendSV changes.
LEMMA StaysFollows ==
  ASSUME KernelIInv, Timely, k' = k, task' = task
  PROVE  Follows
<1>1. UNCHANGED TimeBase!vars
  BY ViewStutters DEF KeptTime, KeptLists, KeptEvents, SamePended
<1>2. Timely'
  BY DEF Timely, Unwinding
<1> QED BY <1>1, <1>2 DEF Follows

LEMMA TaskDelayFollows ==
  ASSUME KernelIInv, Timely, NEW t \in AllTasks, vTaskDelay(t)
  PROVE  Follows
<1>1. PICK c \in Calls[t] :
        /\ Calling(t, "delay", c)
        /\ IF c.ticks > 0
             THEN /\ task' = [task EXCEPT ![t] = [AtApp EXCEPT !.pc = "suspend", !.call = c,
                                                             !.ticks = c.ticks]]
                  /\ UNCHANGED pendSV
             ELSE pendSV' = TRUE /\ UNCHANGED task
        /\ UNCHANGED <<k, queue, waited>>
  BY DEF vTaskDelay
<1>2. CASE c.ticks > 0
  <2> DEFINE r == [AtApp EXCEPT !.pc = "suspend", !.call = c, !.ticks = c.ticks]
             pcs == {"app", "try"}
  <2>1. task' = [task EXCEPT ![t] = r] /\ At(t, pcs) /\ k' = k /\ "unwind" \notin pcs
    BY <1>1, <1>2 DEF Calling
  <2>2. r.pc = "suspend" /\ r.ticks = c.ticks
    BY DEF AtApp
  <2> HIDE DEF r, pcs
  <2>3. InRange(r) /\ r.pc # "unwind"
    BY <1>2, <2>2, CallTicks DEF InRange, TickType
  <2> QED BY <2>1, <2>3, MovesAlone
<1>3. CASE ~(c.ticks > 0)
  BY <1>1, <1>3, StaysFollows
<1> QED BY <1>2, <1>3

-----------------------------------------------------------------------------
(* The steps that change the kernel.                                       *)

LEMMA EventsOf ==
  \A q \in Queues : ToSend(q) \in EventLists /\ ToReceive(q) \in EventLists
BY DEF EventLists, ToSend, ToReceive

\* The running task wakes another, and goes on or returns.
LEMMA WakesFollows ==
  ASSUME KernelIInv, Timely, NEW t \in AllTasks, NEW pcs, At(t, pcs), "unwind" \notin pcs,
         NEW e \in EventLists, k' = Wake(k, e), NEW r, task' = [task EXCEPT ![t] = r],
         InRange(r), r.pc # "unwind"
  PROVE  Follows
<1>1. t = k.pxCurrentTCB /\ k.xPendedCounts = 0
  BY ActingTime DEF At
<1>2. /\ KernelTime(k') /\ k'.pxCurrentTCB = k.pxCurrentTCB /\ k'.xPendedCounts = 0
      /\ [TimeBase!Next]_(TimeBase!vars)
  BY <1>1, WakeFollows
<1>3. k'.xPendedCounts > 0 <=> r.pc = "unwind"
  BY <1>2
<1> QED BY <1>1, <1>2, <1>3, MovesOn

LEMMA GenericSendFollows ==
  ASSUME KernelIInv, Timely, NEW t \in AllTasks, xQueueGenericSend(t)
  PROVE  Follows
<1>1. PICK c \in Calls[t] :
        /\ Calling(t, "send", c)
        /\ IF queue[c.queue].uxMessagesWaiting < uxLength[c.queue]
             THEN /\ queue' = [queue EXCEPT ![c.queue].uxMessagesWaiting = @ + 1]
                  /\ k' = Wake(k, ToReceive(c.queue))
                  /\ pendSV' = HigherWoken(k, ToReceive(c.queue))
                  /\ Return(t)
             ELSE NotReady(t, c)
  BY DEF xQueueGenericSend
<1>2. At(t, {"app", "try"}) /\ "unwind" \notin {"app", "try"}
  BY <1>1 DEF Calling
<1>3. CASE NotReady(t, c)
  BY <1>2, <1>3, NotReadyFollows
<1>4. CASE k' = Wake(k, ToReceive(c.queue)) /\ Return(t)
  <2> DEFINE r == AtApp
  <2>1. ToReceive(c.queue) \in EventLists
    BY <1>1, CallFacts, EventsOf DEF Calling
  <2>2. task' = [task EXCEPT ![t] = r] /\ InRange(r) /\ r.pc # "unwind"
    BY <1>4, AtAppTime DEF Return
  <2> HIDE DEF r
  <2> QED BY <1>2, <1>4, <2>1, <2>2, WakesFollows
<1> QED BY <1>1, <1>3, <1>4

LEMMA ReceiveFollows ==
  ASSUME KernelIInv, Timely, NEW t \in AllTasks, xQueueReceive(t)
  PROVE  Follows
<1>1. PICK c \in Calls[t] :
        /\ Calling(t, "receive", c)
        /\ IF queue[c.queue].uxMessagesWaiting > 0
             THEN /\ queue' = [queue EXCEPT ![c.queue].uxMessagesWaiting = @ - 1]
                  /\ k' = Wake(k, ToSend(c.queue))
                  /\ pendSV' = HigherWoken(k, ToSend(c.queue))
                  /\ Return(t)
             ELSE NotReady(t, c)
  BY DEF xQueueReceive
<1>2. At(t, {"app", "try"}) /\ "unwind" \notin {"app", "try"}
  BY <1>1 DEF Calling
<1>3. CASE NotReady(t, c)
  BY <1>2, <1>3, NotReadyFollows
<1>4. CASE k' = Wake(k, ToSend(c.queue)) /\ Return(t)
  <2> DEFINE r == AtApp
  <2>1. ToSend(c.queue) \in EventLists
    BY <1>1, CallFacts, EventsOf DEF Calling
  <2>2. task' = [task EXCEPT ![t] = r] /\ InRange(r) /\ r.pc # "unwind"
    BY <1>4, AtAppTime DEF Return
  <2> HIDE DEF r
  <2> QED BY <1>2, <1>4, <2>1, <2>2, WakesFollows
<1> QED BY <1>1, <1>3, <1>4

\* A turn of the loops of prvUnlockQueue.
LEMMA UnlockFollows ==
  ASSUME KernelIInv, Timely, NEW t \in AllTasks, At(t, {"unlockTx", "wakeTx", "unlockRx", "wakeRx"}),
         NEW pc \in {"wakeTx", "unlockRx", "wakeRx", "resume"}, Goto(t, pc),
         NEW e \in EventLists, k' = k \/ k' = Wake(k, e)
  PROVE  Follows
<1> DEFINE r == [task[t] EXCEPT !.pc = pc]
           pcs == {"unlockTx", "wakeTx", "unlockRx", "wakeRx"}
<1>1. /\ At(t, pcs) /\ "unwind" \notin pcs /\ task[t] \in TaskState /\ InRange(task[t])
  BY Acting, ActingTime
<1>2. task' = [task EXCEPT ![t] = r]
  BY DEF Goto
<1>3. r.pc = pc /\ r.ticks = task[t].ticks
  BY <1>1 DEF TaskState
<1> HIDE DEF r, pcs
<1>4. InRange(r) /\ r.pc # "unwind"
  BY <1>1, <1>3 DEF InRange
<1> QED BY <1>1, <1>2, <1>4, MovesAlone, WakesFollows

LEMMA UnlockQueueTxFollows ==
  ASSUME KernelIInv, Timely, NEW t \in AllTasks, prvUnlockQueueTx(t)
  PROVE  Follows
<1>1. At(t, {"unlockTx", "wakeTx"})
  BY DEF prvUnlockQueueTx
<1>2. task[t].call.queue \in Queues
  BY <1>1, Acting, CallFacts DEF Consistent, LockedPcs
<1>3. ToReceive(task[t].call.queue) \in EventLists
  BY <1>2, EventsOf
<1>4. PICK pc \in {"wakeTx", "unlockRx"} :
        Goto(t, pc) /\ (k' = k \/ k' = Wake(k, ToReceive(task[t].call.queue)))
  BY DEF prvUnlockQueueTx
<1>5. At(t, {"unlockTx", "wakeTx", "unlockRx", "wakeRx"})
  BY <1>1 DEF At
<1> QED BY <1>3, <1>4, <1>5, UnlockFollows

LEMMA UnlockQueueRxFollows ==
  ASSUME KernelIInv, Timely, NEW t \in AllTasks, prvUnlockQueueRx(t)
  PROVE  Follows
<1>1. At(t, {"unlockRx", "wakeRx"})
  BY DEF prvUnlockQueueRx
<1>2. task[t].call.queue \in Queues
  BY <1>1, Acting, CallFacts DEF Consistent, LockedPcs
<1>3. ToSend(task[t].call.queue) \in EventLists
  BY <1>2, EventsOf
<1>4. PICK pc \in {"wakeRx", "resume"} :
        Goto(t, pc) /\ (k' = k \/ k' = Wake(k, ToSend(task[t].call.queue)))
  BY DEF prvUnlockQueueRx
<1>5. At(t, {"unlockTx", "wakeTx", "unlockRx", "wakeRx"})
  BY <1>1 DEF At
<1> QED BY <1>3, <1>4, <1>5, UnlockFollows

LEMMA SuspendAllFollows ==
  ASSUME KernelIInv, Timely, NEW t \in AllTasks, vTaskSuspendAll(t)
  PROVE  Follows
<1> DEFINE pc == IF task[t].call.op = "delay" THEN "delay" ELSE "lock"
           r == [task[t] EXCEPT !.pc = pc]
<1>1. /\ At(t, {"suspend"}) /\ task' = [task EXCEPT ![t] = r]
      /\ k' = [k EXCEPT !.uxSchedulerSuspended = k.uxSchedulerSuspended + 1]
  BY DEF vTaskSuspendAll, Goto
<1>2. /\ t = k.pxCurrentTCB /\ task[t].pc = "suspend" /\ t \in Ready(k) /\ task[t] \in TaskState
      /\ k.uxSchedulerSuspended = 0 /\ k \in KernelState
  BY <1>1, Acting DEF Away, EndingPcs, HoldingPcs, Good
<1>3. KernelTime(k) /\ InRange(task[t]) /\ k.xPendedCounts = 0 /\ Running(k)
  BY <1>1, <1>2, ActingTime
<1>4. SameRest(k, k') /\ SamePended(k, k') /\ k'.uxSchedulerSuspended = 1
  BY <1>1, <1>2, SuspendedRest
<1>5. /\ KeptTime(k, k') /\ KeptLists(k, k') /\ KeptEvents(k, k') /\ OnTime(k')
      /\ k'.pxCurrentTCB = k.pxCurrentTCB
  BY <1>3, <1>4, RestKept DEF SameRest, KernelTime
<1>6. TimeBase!vTaskSuspendAll
  BY <1>2, <1>3, <1>4, <1>5, SuspendsView
<1>7. KernelTime(k') /\ k'.xPendedCounts = 0
  BY <1>3, <1>4, <1>5 DEF KernelTime, SamePended
<1>8. InRange(r) /\ r.pc # "unwind"
  <2>1. r.pc = pc /\ r.ticks = task[t].ticks /\ pc # "unwind"
    BY <1>2 DEF TaskState
  <2> HIDE DEF r
  <2> QED BY <1>2, <1>3, <2>1 DEF InRange
<1>9. k'.xPendedCounts > 0 <=> r.pc = "unwind"
  BY <1>7, <1>8
<1> HIDE DEF r
<1>10. [TimeBase!Next]_(TimeBase!vars)
  BY <1>6 DEF TimeBase!Next
<1> QED BY <1>1, <1>2, <1>5, <1>7, <1>8, <1>9, <1>10, MovesOn

LEMMA DelayCurrentTaskFollows ==
  ASSUME KernelIInv, Timely, NEW t \in AllTasks, DelayCurrentTask(t)
  PROVE  Follows
<1> DEFINE r == [task[t] EXCEPT !.pc = "resume", !.after = "delayed"]
           ticks == task[t].ticks
<1>1. /\ At(t, {"delay"}) /\ task' = [task EXCEPT ![t] = r]
      /\ k' = AddCurrentTaskToDelayedList(k, ticks, FALSE)
  BY DEF DelayCurrentTask
<1>2. /\ t = k.pxCurrentTCB /\ task[t].pc = "delay" /\ t \in Ready(k) /\ t \in Tasks
      /\ task[t] \in TaskState /\ k.uxSchedulerSuspended = 1
      /\ Good(k) /\ k \in KernelState /\ StateItems(k) /\ TopExact(k)
  BY <1>1, Acting DEF Away, EndingPcs, HoldingPcs, Good
<1>3. KernelTime(k) /\ InRange(task[t]) /\ k.xPendedCounts = 0 /\ Running(k) /\ t # Idle
  BY <1>1, <1>2, ActingTime, Basics
<1>4. ticks \in 1 .. portMAX_DELAY /\ ticks \in Int
  BY <1>2, <1>3, KernelAssumption DEF InRange, TickType
<1>5. r.pc = "resume" /\ r.ticks = ticks
  BY <1>2 DEF TaskState
<1> HIDE DEF r, ticks
<1>6. CurrentLeaves(k, k')
  BY <1>1, <1>2, <1>4, AddCurrentTaskLeaves
<1>7. /\ Pending(k') = Pending(k) /\ AllWaiting(k') = AllWaiting(k) /\ SamePended(k, k')
      /\ k'.uxSchedulerSuspended = 1 /\ k'.pxCurrentTCB = t
  BY <1>2, <1>6, SameMembers DEF CurrentLeaves, SameControl, SamePended, AllWaiting
<1>8. TimedBlock(k, k', ticks, ticks = portMAX_DELAY /\ FALSE)
  <2>1. FALSE \in BOOLEAN /\ OnTime(k) /\ t \in Ready(k) \cap Tasks
    BY <1>2, <1>3 DEF KernelTime
  <2> QED BY <1>1, <1>2, <1>4, <2>1, AddCurrentTaskTimes
<1>9. TimeBase!prvAddCurrentTaskToDelayedList(ticks, FALSE)
  <2>1. FALSE \in BOOLEAN /\ k.xTickCount \in TickType
    BY <1>2, Fields
  <2>2. /\ k.pxCurrentTCB # Idle /\ k.uxSchedulerSuspended > 0
        /\ k'.uxSchedulerSuspended = k.uxSchedulerSuspended /\ k'.pxCurrentTCB = k.pxCurrentTCB
        /\ AllWaiting(k') = IF FALSE THEN AllWaiting(k) \cup {k.pxCurrentTCB} ELSE AllWaiting(k)
    BY <1>2, <1>3, <1>7
  <2> QED BY <1>3, <1>4, <1>7, <1>8, <2>1, <2>2, BlockView, Zenon
<1>10. KernelTime(k') /\ k'.xPendedCounts = 0
  BY <1>3, <1>7, <1>8 DEF KernelTime, SamePended, TimedBlock
<1>11. InRange(r) /\ r.pc # "unwind" /\ (k'.xPendedCounts > 0 <=> r.pc = "unwind")
  BY <1>3, <1>5, <1>10 DEF InRange, ticks
<1>12. [TimeBase!Next]_(TimeBase!vars)
  <2>1. FALSE \in BOOLEAN
    OBVIOUS
  <2> QED BY <1>4, <1>9, <2>1 DEF TimeBase!Next
<1> QED BY <1>1, <1>2, <1>7, <1>10, <1>11, <1>12, MovesOn

LEMMA PlaceFollows ==
  ASSUME KernelIInv, Timely, NEW t \in AllTasks, vTaskPlaceOnEventList(t)
  PROVE  Follows
<1> DEFINE r == [task[t] EXCEPT !.pc = "unlockTx", !.after = "blocked"]
           ticks == task[t].ticks
           c == task[t].call
           e == EventOf(c.op, c.queue)
<1>1. /\ At(t, {"place"}) /\ task' = [task EXCEPT ![t] = r]
      /\ k' = PlaceOnEventList(k, e, ticks)
  BY DEF vTaskPlaceOnEventList, EventOf
<1>2. /\ t = k.pxCurrentTCB /\ task[t].pc = "place" /\ t \in Ready(k) /\ t \in Tasks
      /\ task[t] \in TaskState /\ Consistent(task[t]) /\ k.uxSchedulerSuspended = 1
      /\ Good(k) /\ k \in KernelState
  BY <1>1, Acting DEF Away, EndingPcs, HoldingPcs, Good
<1>3. KernelTime(k) /\ InRange(task[t]) /\ k.xPendedCounts = 0 /\ Running(k) /\ t # Idle
  BY <1>1, <1>2, ActingTime, Basics
<1>4. ticks \in 1 .. portMAX_DELAY /\ ticks \in Int
  BY <1>2, <1>3, KernelAssumption DEF InRange, TickType
<1>5. r.pc = "unlockTx" /\ r.ticks = ticks
  BY <1>2 DEF TaskState
<1>6. e \in EventLists
  <2>1. c \in QueueCalls
    BY <1>2 DEF Consistent, LockedPcs
  <2> QED BY <2>1, CallFacts, EventsOf DEF EventOf
<1> HIDE DEF r, ticks, e
<1>7. Placed(k, k', e) /\ t \in Ready(k) \cap Tasks
  BY <1>1, <1>2, <1>4, <1>6, PlaceOnEventListPlaces
<1>8. /\ Pending(k') = Pending(k) /\ SamePended(k, k')
      /\ k'.uxSchedulerSuspended = 1 /\ k'.pxCurrentTCB = t
  BY <1>2, <1>7 DEF Placed, SameControl, SamePended
<1>9. TimedBlock(k, k', ticks, ticks = portMAX_DELAY) /\ AllWaiting(k') = AllWaiting(k) \cup {t}
  <2>1. OnTime(k)
    BY <1>3 DEF KernelTime
  <2> QED BY <1>1, <1>2, <1>4, <1>6, <1>7, <2>1, PlaceTimes
<1>10. TimedBlock(k, k', ticks, ticks = portMAX_DELAY /\ TRUE)
  BY <1>9 DEF TimedBlock
<1>11. TimeBase!prvAddCurrentTaskToDelayedList(ticks, TRUE)
  <2>1. TRUE \in BOOLEAN /\ k.xTickCount \in TickType
    BY <1>2, Fields
  <2>2. /\ k.pxCurrentTCB # Idle /\ k.uxSchedulerSuspended > 0
        /\ k'.uxSchedulerSuspended = k.uxSchedulerSuspended /\ k'.pxCurrentTCB = k.pxCurrentTCB
        /\ AllWaiting(k') = IF TRUE THEN AllWaiting(k) \cup {k.pxCurrentTCB} ELSE AllWaiting(k)
    BY <1>2, <1>3, <1>8, <1>9
  <2> QED BY <1>3, <1>4, <1>8, <1>10, <2>1, <2>2, BlockView, Zenon
<1>12. KernelTime(k') /\ k'.xPendedCounts = 0
  BY <1>3, <1>8, <1>9 DEF KernelTime, SamePended, TimedBlock
<1>13. InRange(r) /\ r.pc # "unwind" /\ (k'.xPendedCounts > 0 <=> r.pc = "unwind")
  BY <1>3, <1>5, <1>12 DEF InRange, ticks
<1>14. [TimeBase!Next]_(TimeBase!vars)
  <2>1. TRUE \in BOOLEAN
    OBVIOUS
  <2> QED BY <1>4, <1>11, <2>1 DEF TimeBase!Next
<1> QED BY <1>1, <1>2, <1>8, <1>12, <1>13, <1>14, MovesOn

\* The end of xTaskResumeAll.
LEMMA ResumedTime ==
  ASSUME NEW t, NEW s, task[t] \in TaskState, Consistent(task[t]), InRange(task[t]),
         task[t].pc \in {"resume", "unwind"}, Resumed(t, s)
  PROVE  \E r : task' = [task EXCEPT ![t] = r] /\ InRange(r) /\ r.pc # "unwind"
<1>1. task[t].after \in {"blocked", "retry", "expired", "delayed"}
  BY DEF Consistent
<1>2. PICK pc \in {"try", "yield", "expired", "return"} : Goto(t, pc)
  BY <1>1 DEF Resumed
<1> DEFINE r == [task[t] EXCEPT !.pc = pc]
<1>3. task' = [task EXCEPT ![t] = r] /\ r.pc = pc /\ r.ticks = task[t].ticks
  BY <1>2 DEF Goto, TaskState
<1> HIDE DEF r
<1>4. InRange(r) /\ r.pc # "unwind"
  BY <1>2, <1>3 DEF InRange
<1> QED BY <1>3, <1>4

LEMMA ResumeAllFollows ==
  ASSUME KernelIInv, Timely, NEW t \in AllTasks, xTaskResumeAll(t)
  PROVE  Follows
<1> DEFINE before == k.uxSchedulerSuspended - 1
           s0 == [k EXCEPT !.uxSchedulerSuspended = before]
           s == MovePendingReady(s0)
           ticks == s.xPendedTicks
           yield == s.xYieldPending
           r1 == [task[t] EXCEPT !.pc = "unwind"]
<1>1. /\ At(t, {"resume"}) /\ k' = [s EXCEPT !.xPendedCounts = ticks]
      /\ IF ticks > 0 THEN Goto(t, "unwind") ELSE Resumed(t, s)
  BY DEF xTaskResumeAll
<1>2. /\ t = k.pxCurrentTCB /\ task[t].pc = "resume" /\ k.uxSchedulerSuspended = 1
      /\ task[t] \in TaskState /\ Consistent(task[t]) /\ Good(k) /\ k \in KernelState
      /\ KernelTime(k) /\ InRange(task[t]) /\ k.xPendedCounts = 0
  BY <1>1, Acting, ActingTime DEF HoldingPcs, Good
<1>3. /\ Good(s0) /\ SameRest(k, s0) /\ SamePended(k, s0) /\ s0.uxSchedulerSuspended = 0
  <2>1. before = 0 /\ before \in Int
    BY <1>2
  <2> HIDE DEF before
  <2> QED BY <1>2, <2>1, SuspendFields, SuspendedRest
<1> HIDE DEF s0
<1>4. /\ KeptTime(k, s0) /\ KeptLists(k, s0) /\ KeptEvents(k, s0) /\ OnTime(s0)
      /\ s0.pxCurrentTCB = t
      /\ \A e \in EventLists : Waiting(s0, e) = Waiting(k, e)
  BY <1>2, <1>3, RestKept DEF KernelTime, SameRest
<1>5. PendingMoved(s0, s)
  BY <1>3, MovePendingReadyMoves
<1> HIDE DEF s
<1>6. /\ Good(s) /\ s \in KernelState /\ OnTime(s)
      /\ LeftOf(s) = [x \in Tasks |-> IF x \in Pending(s0) THEN 0 ELSE LeftOf(s0)[x]]
      /\ s.xNextTaskUnblockTime = IF Pending(s0) = {} THEN s0.xNextTaskUnblockTime
                                  ELSE Earliest(Delayed(s), s0.xItemValue)
  BY <1>3, <1>4, <1>5, MovedTimes DEF PendingMoved, Good
<1>7. /\ BlockedLess(s0, s, Pending(s0)) /\ Pending(s) = {} /\ SamePended(s0, s)
      /\ \A e \in EventLists : Waiting(s, e) = Waiting(s0, e)
      /\ s.xItemValue = s0.xItemValue /\ s.xTickCount = s0.xTickCount
      /\ s.pxCurrentTCB = t /\ s.uxSchedulerSuspended = 0
  BY <1>3, <1>4, <1>5 DEF PendingMoved, SameClock
<1>8. /\ BlockedLess(k, s, Pending(k)) /\ AllWaiting(s) = AllWaiting(k) /\ ticks = k.xPendedTicks
      /\ s.xTickCount = k.xTickCount /\ s.xItemValue = k.xItemValue
      /\ s.xNextTaskUnblockTime = IF Pending(k) = {} THEN k.xNextTaskUnblockTime
                                  ELSE Earliest(Delayed(s), k.xItemValue)
      /\ LeftOf(s) = [x \in Tasks |-> IF x \in Pending(k) THEN 0 ELSE LeftOf(k)[x]]
  <2>1. BlockedLess(k, s, Pending(k))
    BY <1>4, <1>7 DEF BlockedLess, KeptLists, KeptEvents
  <2>2. AllWaiting(s) = AllWaiting(k)
    BY <1>4, <1>7 DEF AllWaiting
  <2>3. ticks = k.xPendedTicks /\ s.xTickCount = k.xTickCount /\ s.xItemValue = k.xItemValue
    BY <1>3, <1>4, <1>7 DEF SamePended, KeptTime
  <2> QED BY <1>4, <1>6, <2>1, <2>2, <2>3 DEF KeptTime, KeptEvents
<1>9. /\ SameRest(s, k') /\ k'.uxSchedulerSuspended = 0 /\ k'.xPendedCounts = k.xPendedTicks
      /\ k'.xPendedTicks = k.xPendedTicks
  <2>1. k' = Pended(s, ticks, ticks, yield)
    BY <1>1, <1>6 DEF Pended, KernelState
  <2> HIDE DEF ticks, yield
  <2> QED BY <1>6, <1>7, <1>8, <2>1, PendedRest
<1>10. /\ KeptTime(s, k') /\ KeptLists(s, k') /\ KeptEvents(s, k') /\ OnTime(k')
       /\ k'.pxCurrentTCB = t
  BY <1>6, <1>7, <1>9, RestKept DEF SameRest
<1>11. /\ BlockedLess(k, k', Pending(k)) /\ Pending(k') = {} /\ AllWaiting(k') = AllWaiting(k)
       /\ k'.xTickCount = k.xTickCount /\ k'.xItemValue = k.xItemValue
       /\ k'.xNextTaskUnblockTime = IF Pending(k) = {} THEN k.xNextTaskUnblockTime
                                   ELSE Earliest(Delayed(k'), k.xItemValue)
       /\ LeftOf(k') = [x \in Tasks |-> IF x \in Pending(k) THEN 0 ELSE LeftOf(k)[x]]
  BY <1>7, <1>8, <1>10 DEF KeptTime, KeptLists, KeptEvents, BlockedLess
<1>12. k.xPendedTicks \in Nat
  BY <1>2 DEF KernelTime
<1>13. TimeBase!xTaskResumeAll
  BY <1>2, <1>9, <1>10, <1>11, <1>12, ResumeView
<1>14. KernelTime(k') /\ [TimeBase!Next]_(TimeBase!vars)
  BY <1>9, <1>10, <1>11, <1>12, <1>13 DEF KernelTime, TimeBase!Next
<1>15. PICK r : task' = [task EXCEPT ![t] = r] /\ InRange(r) /\ (ticks > 0 <=> r.pc = "unwind")
  <2>1. CASE ticks > 0
    <3>1. task' = [task EXCEPT ![t] = r1]
      BY <1>1, <2>1 DEF Goto
    <3>2. r1.pc = "unwind" /\ r1.ticks = task[t].ticks
      BY <1>2 DEF TaskState
    <3> HIDE DEF r1, ticks
    <3>3. InRange(r1)
      BY <1>2, <3>2 DEF InRange
    <3> QED BY <2>1, <3>1, <3>2, <3>3
  <2>2. CASE ~(ticks > 0)
    <3>1. Resumed(t, s)
      BY <1>1, <2>2
    <3> HIDE DEF ticks
    <3> QED BY <1>2, <2>2, <3>1, ResumedTime
  <2> QED BY <2>1, <2>2
<1>16. k'.xPendedCounts > 0 <=> r.pc = "unwind"
  BY <1>8, <1>9, <1>15
<1> QED BY <1>2, <1>10, <1>14, <1>15, <1>16, MovesOn

\* A tick, whatever becomes of the ticks that are pended.
LEMMA TickedTimes ==
  ASSUME Good(k), KernelTime(k), k.uxSchedulerSuspended = 0, NEW i, i = IncrementTick(k), SameRest(i, k')
  PROVE  /\ TimeBase!IncrementTick /\ k'.xTickCount = AddTicks(k.xTickCount, 1)
         /\ OnTime(k') /\ Pending(k') = {} /\ k'.pxCurrentTCB = k.pxCurrentTCB
         /\ SamePended(k, i) /\ i.uxSchedulerSuspended = 0
<1> DEFINE now == AddTicks(k.xTickCount, 1)
           next == IF now = 0 THEN Earliest(Overflown(k), k.xItemValue) ELSE k.xNextTaskUnblockTime
           expired == IF now >= next THEN {t \in TickList(k, now) : k.xItemValue[t] <= now} ELSE {}
<1>1. OnTime(k) /\ Pending(k) = {} /\ k.xTickCount \in TickType
  BY Fields DEF KernelTime, Good
<1>2. TimedTick(k, i, now, next, expired) /\ OnTime(i) /\ SamePended(k, i)
  BY <1>1, IncrementTickTimes
<1>3. i.pxCurrentTCB = k.pxCurrentTCB /\ i.uxSchedulerSuspended = 0
  BY IncrementTickTicks DEF Ticked, SameControl
<1>4. KeptTime(i, k') /\ KeptLists(i, k') /\ KeptEvents(i, k') /\ OnTime(k') /\ k'.pxCurrentTCB = i.pxCurrentTCB
  BY <1>2, RestKept DEF SameRest
<1>5. PICK n, x, z : n = now /\ x = next /\ z = expired
  OBVIOUS
<1>6. /\ n = AddTicks(k.xTickCount, 1)
      /\ x = IF n = 0 THEN Earliest(Overflown(k), k.xItemValue) ELSE k.xNextTaskUnblockTime
      /\ z = IF n >= x THEN {t \in TickList(k, n) : k.xItemValue[t] <= n} ELSE {}
      /\ TimedTick(k, i, n, x, z)
  BY <1>2, <1>5
<1> HIDE DEF now, next, expired
<1>7. TimedTick(k, k', n, x, z)
  BY <1>4, <1>6 DEF TimedTick, KeptTime, KeptLists, KeptEvents
<1>8. TimeBase!IncrementTick
  BY <1>1, <1>6, <1>7, TickedView
<1>9. k'.xTickCount = n /\ Pending(k') = {}
  BY <1>1, <1>7 DEF TimedTick
<1> QED BY <1>2, <1>3, <1>4, <1>6, <1>8, <1>9

LEMMA UnwindFollows ==
  ASSUME KernelIInv, Timely, NEW t \in AllTasks, UnwindPendedTick(t)
  PROVE  Follows
<1> DEFINE i == IncrementTick(k)
           yield == SwitchRequired(k)
           s == [i EXCEPT !.xYieldPending = yield]
           counts == k.xPendedCounts - 1
           ticks == IF k.xPendedCounts = 1 THEN 0 ELSE k.xPendedTicks
<1>1. /\ At(t, {"unwind"}) /\ k' = [s EXCEPT !.xPendedCounts = @ - 1,
                                            !.xPendedTicks = IF k.xPendedCounts = 1 THEN 0 ELSE @]
      /\ IF k.xPendedCounts = 1 THEN Resumed(t, s) ELSE UNCHANGED task
  BY DEF UnwindPendedTick
<1>2. /\ t = k.pxCurrentTCB /\ task[t].pc = "unwind" /\ k.uxSchedulerSuspended = 0
      /\ task[t] \in TaskState /\ Consistent(task[t]) /\ Good(k)
      /\ KernelTime(k) /\ InRange(task[t]) /\ task \in [AllTasks -> TaskState]
  BY <1>1, Acting, ActingTime DEF HoldingPcs
<1>3. k.xPendedCounts > 0 /\ k.xPendedCounts \in Nat /\ k.xPendedTicks \in Nat
  BY <1>2 DEF Timely, Unwinding, KernelTime
<1>4. i \in KernelState /\ i.xPendedCounts = k.xPendedCounts /\ i.xPendedTicks = k.xPendedTicks
  BY <1>2, IncrementTickTicks DEF Ticked, SameControl, Good
<1> HIDE DEF i, yield
<1>5. k' = Pended(i, counts, ticks, yield)
  BY <1>1, <1>4 DEF Pended, KernelState
<1>6. counts \in Nat /\ ticks \in Nat /\ counts = k.xPendedCounts - 1
      /\ ticks = IF k.xPendedCounts = 1 THEN 0 ELSE k.xPendedTicks
  BY <1>3
<1> HIDE DEF counts, ticks
<1>7. /\ SameRest(i, k') /\ k'.uxSchedulerSuspended = i.uxSchedulerSuspended
      /\ k'.xPendedCounts = counts /\ k'.xPendedTicks = ticks
  BY <1>4, <1>5, PendedRest
<1>8. /\ TimeBase!IncrementTick /\ k'.xTickCount = AddTicks(k.xTickCount, 1)
      /\ OnTime(k') /\ Pending(k') = {} /\ k'.pxCurrentTCB = k.pxCurrentTCB
      /\ i.uxSchedulerSuspended = 0
  BY <1>2, <1>7, TickedTimes DEF i
<1>9. TimeBase!UnwindPendedTick
  <2>1. k.xTickCount \in TickType
    BY <1>2, Fields DEF Good
  <2> QED BY <1>2, <1>3, <1>6, <1>7, <1>8, <2>1, UnwindView
<1>10. KernelTime(k') /\ [TimeBase!Next]_(TimeBase!vars)
  BY <1>6, <1>7, <1>8, <1>9 DEF KernelTime, TimeBase!Next
<1> HIDE DEF s
<1>11. PICK r : task' = [task EXCEPT ![t] = r] /\ InRange(r) /\ (k.xPendedCounts # 1 <=> r.pc = "unwind")
  <2>1. CASE k.xPendedCounts = 1
    BY <1>1, <1>2, <2>1, ResumedTime
  <2>2. CASE k.xPendedCounts # 1
    <3>1. task' = [task EXCEPT ![t] = task[t]]
      BY <1>1, <1>2, <2>2
    <3> QED BY <1>2, <2>2, <3>1
  <2> QED BY <2>1, <2>2
<1>12. k'.xPendedCounts > 0 <=> r.pc = "unwind"
  BY <1>3, <1>6, <1>7, <1>11
<1>13. k'.pxCurrentTCB = t
  BY <1>2, <1>8
<1> QED BY <1>2, <1>10, <1>11, <1>12, <1>13, MovesOn

LEMMA TickFollows ==
  ASSUME KernelIInv, Timely, xPortSysTickHandler
  PROVE  Follows
<1>1. /\ ~Masked /\ task' = task /\ Good(k) /\ k \in KernelState /\ KernelTime(k)
  BY DEF xPortSysTickHandler, KernelIInv, Scheduling, Types, Good, Timely
<1>2. k.xPendedCounts = 0 /\ k.xPendedTicks \in Nat /\ k.xTickCount \in TickType
  BY <1>1, Fields DEF Masked, Timely, Unwinding, KernelTime
<1>3. CASE k.uxSchedulerSuspended = 0
  <2> DEFINE i == IncrementTick(k)
  <2>1. k' = i
    BY <1>3 DEF xPortSysTickHandler
  <2>2. SameRest(i, k')
    BY <2>1 DEF SameRest, SameReady, SameBlocked, SameEvents, SameTime
  <2>3. /\ TimeBase!IncrementTick /\ k'.xTickCount = AddTicks(k.xTickCount, 1)
        /\ OnTime(k') /\ Pending(k') = {} /\ k'.pxCurrentTCB = k.pxCurrentTCB
        /\ SamePended(k, i) /\ i.uxSchedulerSuspended = 0
    BY <1>1, <1>3, <2>2, TickedTimes
  <2> HIDE DEF i
  <2>4. k'.xPendedCounts = 0 /\ k'.xPendedTicks = k.xPendedTicks /\ k'.uxSchedulerSuspended = 0
    BY <1>2, <2>1, <2>3 DEF SamePended
  <2>5. TimeBase!xTaskIncrementTick
    BY <1>2, <1>3, <2>3, <2>4, TickView
  <2>6. KernelTime(k') /\ Unwinding'
    BY <1>1, <1>2, <2>3, <2>4 DEF KernelTime, Timely, Unwinding
  <2> QED BY <1>1, <2>5, <2>6 DEF Follows, Timely, TimeBase!Next
<1>4. CASE k.uxSchedulerSuspended # 0
  <2> DEFINE ticks == k.xPendedTicks + 1
             counts == k.xPendedCounts
             yield == k.xYieldPending
  <2>1. k.xPendedTicks < MaxPended /\ k' = [k EXCEPT !.xPendedTicks = ticks]
    BY <1>4 DEF xPortSysTickHandler
  <2>2. k' = Pended(k, counts, ticks, yield)
    BY <1>1, <2>1 DEF Pended, KernelState
  <2>3. ticks \in Nat /\ ticks = k.xPendedTicks + 1 /\ counts = 0
    BY <1>2
  <2> HIDE DEF ticks, counts, yield
  <2>4. /\ SameRest(k, k') /\ k'.uxSchedulerSuspended = k.uxSchedulerSuspended
        /\ k'.xPendedCounts = 0 /\ k'.xPendedTicks = k.xPendedTicks + 1
    BY <1>1, <2>2, <2>3, PendedRest
  <2>5. /\ KeptTime(k, k') /\ KeptLists(k, k') /\ KeptEvents(k, k') /\ OnTime(k')
        /\ k'.pxCurrentTCB = k.pxCurrentTCB
    BY <1>1, <2>4, RestKept DEF SameRest, KernelTime
  <2>6. TimeBase!xTaskIncrementTick
    BY <1>2, <1>4, <2>1, <2>4, <2>5, TickView
  <2>7. KernelTime(k') /\ Unwinding'
    BY <1>1, <1>2, <1>4, <2>3, <2>4, <2>5 DEF KernelTime, Timely, Unwinding
  <2> QED BY <1>1, <2>6, <2>7 DEF Follows, Timely, TimeBase!Next
<1> QED BY <1>3, <1>4

LEMMA PendSVFollows ==
  ASSUME KernelIInv, Timely, xPortPendSVHandler
  PROVE  Follows
<1>1. /\ ~Masked /\ task' = task /\ Good(k) /\ k \in KernelState /\ KernelTime(k) /\ Control
      /\ k' = SwitchContext(k)
  BY DEF xPortPendSVHandler, KernelIInv, Scheduling, Types, Good, Timely
<1>2. k.xPendedCounts = 0 /\ task[k.pxCurrentTCB].pc # "unwind"
  BY <1>1 DEF Masked, Timely, Unwinding, KernelTime
<1>3. Switched(k, k')
  BY <1>1, SwitchContextSwitches
<1>4. /\ SameBlocked(k, k') /\ SameTime(k, k') /\ SamePended(k, k') /\ Pending(k') = Pending(k)
      /\ \A e \in EventLists : Waiting(k', e) = Waiting(k, e)
      /\ k'.uxSchedulerSuspended = k.uxSchedulerSuspended
  BY <1>3 DEF Switched
<1>5. KeptTime(k, k') /\ KeptLists(k, k') /\ KeptEvents(k, k') /\ OnTime(k')
  BY <1>1, <1>4, SameTimes DEF KeptTime, KeptLists, KeptEvents, AllWaiting, SameTime, KernelTime
<1>6. KernelTime(k') /\ k'.xPendedCounts = 0
  BY <1>1, <1>2, <1>4, <1>5 DEF KernelTime, SamePended
<1>7. CASE k.uxSchedulerSuspended = 0
  <2>1. k'.pxCurrentTCB \in Ready(k)
    BY <1>3, <1>7 DEF Switched
  <2>2. k'.pxCurrentTCB \in AllTasks /\ k'.pxCurrentTCB \notin Delayed(k) \cup Overflown(k) \cup Forever(k)
    BY <1>1, <2>1 DEF Good, StateItems
  <2>3. TimeBase!vTaskSwitchContext
    BY <1>2, <1>4, <1>5, <1>7, <2>2, SwitchView
  <2>4. task[k'.pxCurrentTCB].pc # "unwind"
    BY <1>1, <1>2, <2>2 DEF Control, RunningPcs
  <2>5. Unwinding'
    BY <1>1, <1>6, <2>4 DEF Unwinding
  <2> QED BY <1>1, <1>6, <2>3, <2>5 DEF Follows, Timely, TimeBase!Next
<1>8. CASE k.uxSchedulerSuspended # 0
  <2>1. k.uxSchedulerSuspended > 0
    BY <1>1, <1>8 DEF Control
  <2>2. k'.pxCurrentTCB = k.pxCurrentTCB
    BY <1>3, <2>1 DEF Switched
  <2>3. UNCHANGED TimeBase!vars
    BY <1>4, <1>5, <2>2, ViewStutters
  <2>4. Unwinding'
    BY <1>1, <1>2, <1>6, <2>2 DEF Unwinding
  <2> QED BY <1>1, <1>6, <2>3, <2>4 DEF Follows, Timely
<1> QED BY <1>7, <1>8

LEMMA EventFromISRFollows ==
  ASSUME KernelIInv, Timely, ~Masked, task' = task, NEW e \in EventLists, k' = k \/ k' = Wake(k, e)
  PROVE  Follows
<1>1. k.xPendedCounts = 0
  BY DEF Masked, Timely, Unwinding, KernelTime
<1>2. CASE k' = k
  BY <1>2, StaysFollows
<1>3. CASE k' = Wake(k, e)
  <2>1. /\ KernelTime(k') /\ k'.pxCurrentTCB = k.pxCurrentTCB /\ k'.xPendedCounts = 0
        /\ [TimeBase!Next]_(TimeBase!vars)
    BY <1>1, <1>3, WakeFollows
  <2>2. Unwinding'
    BY <1>1, <2>1 DEF Timely, Unwinding
  <2> QED BY <2>1, <2>2 DEF Follows, Timely
<1> QED BY <1>2, <1>3

LEMMA SendFromISRFollows ==
  ASSUME KernelIInv, Timely, NEW q \in IsrSends, xQueueGenericSendFromISR(q)
  PROVE  Follows
<1>1. ToReceive(q) \in EventLists
  BY KernelAssumption, EventsOf
<1> QED BY <1>1, EventFromISRFollows DEF xQueueGenericSendFromISR, EventFromISR

LEMMA ReceiveFromISRFollows ==
  ASSUME KernelIInv, Timely, NEW q \in IsrReceives, xQueueReceiveFromISR(q)
  PROVE  Follows
<1>1. ToSend(q) \in EventLists
  BY KernelAssumption, EventsOf
<1> QED BY <1>1, EventFromISRFollows DEF xQueueReceiveFromISR, EventFromISR

LEMMA StepFollows ==
  ASSUME KernelIInv, Timely, [Next]_vars
  PROVE  Follows
<1>1. ASSUME NEW t \in AllTasks, TaskStep(t)
      PROVE  Follows
  <2>1. CASE xQueueGenericSend(t) \/ xQueueReceive(t) \/ vTaskDelay(t)
    BY <2>1, GenericSendFollows, ReceiveFollows, TaskDelayFollows
  <2>2. CASE vTaskSuspendAll(t) \/ DelayCurrentTask(t) \/ prvLockQueue(t)
    BY <2>2, SuspendAllFollows, DelayCurrentTaskFollows, LockQueueFollows
  <2>3. CASE xTaskCheckForTimeOut(t) \/ TestQueue(t) \/ vTaskPlaceOnEventList(t)
    BY <2>3, CheckForTimeOutFollows, TestQueueFollows, PlaceFollows
  <2>4. CASE prvUnlockQueueTx(t) \/ prvUnlockQueueRx(t)
    BY <2>4, UnlockQueueTxFollows, UnlockQueueRxFollows
  <2>5. CASE xTaskResumeAll(t) \/ UnwindPendedTick(t)
    BY <2>5, ResumeAllFollows, UnwindFollows
  <2>6. CASE Yield(t) \/ Expired(t) \/ DelayOver(t)
    BY <2>6, YieldFollows, ExpiredFollows, DelayOverFollows
  <2> QED BY <1>1, <2>1, <2>2, <2>3, <2>4, <2>5, <2>6 DEF TaskStep
<1>2. CASE xPortSysTickHandler \/ xPortPendSVHandler
  BY <1>2, TickFollows, PendSVFollows
<1>3. CASE \E q \in IsrSends : xQueueGenericSendFromISR(q)
  BY <1>3, SendFromISRFollows
<1>4. CASE \E q \in IsrReceives : xQueueReceiveFromISR(q)
  BY <1>4, ReceiveFromISRFollows
<1>5. CASE UNCHANGED vars
  BY <1>5, StaysFollows DEF vars
<1> QED BY <1>1, <1>2, <1>3, <1>4, <1>5 DEF Next

LEMMA TimeBaseInit ==
  ASSUME Init
  PROVE  Timely /\ TimeBase!Init
<1> DEFINE cur == Last(Created[Max(Priorities)])
           lists == [p \in Priorities |-> [items |-> Created[p], index |-> 0]]
           events == [e \in EventLists |-> <<>>]
           times == [t \in Tasks |-> 0]
           none == <<>>
<1>1. cur \in AllTasks /\ \A e \in EventLists : events[e] = none
  BY GreatestPriority, CreatedItems
<1>2. none \in TaskLists /\ Members(none) = {} /\ 0 \in TickType
  BY ListTypes, EmptyItems, TickTypes
<1>3. \A value : ListSorted(none, value)
  BY EmptySeq DEF ListSorted
<1> HIDE DEF cur, lists, events, none
<1>4. k = [pxCurrentTCB |-> cur, pxReadyTasksLists |-> lists, uxTopReadyPriority |-> Priorities,
           pxDelayedTaskList |-> none, pxOverflowDelayedTaskList |-> none,
           xSuspendedTaskList |-> none, xPendingReadyList |-> none,
           events |-> events, xItemValue |-> times, xTickCount |-> 0, xNumOfOverflows |-> 0,
           xNextTaskUnblockTime |-> portMAX_DELAY,
           uxSchedulerSuspended |-> 0, xPendedTicks |-> 0, xPendedCounts |-> 0,
           xYieldPending |-> FALSE]
  BY DEF Init, cur, lists, events, none
<1>5. /\ k.pxCurrentTCB = cur /\ k.uxSchedulerSuspended = 0 /\ k.xPendedTicks = 0 /\ k.xPendedCounts = 0
      /\ k.pxDelayedTaskList = none /\ k.pxOverflowDelayedTaskList = none
      /\ k.xSuspendedTaskList = none /\ k.xPendingReadyList = none /\ k.events = events
      /\ k.xItemValue = times /\ k.xTickCount = 0 /\ k.xNextTaskUnblockTime = portMAX_DELAY
  BY <1>4
<1>6. /\ Delayed(k) = {} /\ Overflown(k) = {} /\ Forever(k) = {} /\ Pending(k) = {} /\ AllWaiting(k) = {}
      /\ LeftOf(k) = [t \in Tasks |-> 0]
  <2>1. Delayed(k) = {} /\ Overflown(k) = {} /\ Forever(k) = {} /\ Pending(k) = {} /\ AllWaiting(k) = {}
    BY <1>1, <1>2, <1>5 DEF Delayed, Overflown, Forever, Pending, AllWaiting, Waiting
  <2> QED BY <2>1 DEF LeftOf, LeftAt
<1>7. KernelTime(k)
  BY <1>3, <1>5, <1>6 DEF KernelTime, OnTime, SortedLists
<1>8. task = [t \in AllTasks |-> AtApp]
  BY DEF Init
<1>9. Timely
  BY <1>1, <1>5, <1>7, <1>8, AtAppTime DEF Timely, Unwinding
<1>10. RealTicks(k) = 0
  <2>1. 0 \in TickType /\ 0 <= portMAX_DELAY /\ portMAX_DELAY \in Nat
    BY <1>2, KernelAssumption
  <2>2. AddTicks(0, 0) = IF 0 + 0 > portMAX_DELAY THEN 0 + 0 - (portMAX_DELAY + 1) ELSE 0 + 0
    BY <2>1, AddTicksWraps
  <2> QED BY <1>5, <2>1, <2>2 DEF RealTicks
<1>11. TimeBase!Init
  BY <1>1, <1>5, <1>6, <1>10, Views DEF TimeBase!Init, AllTasks, RealTicks
<1> QED BY <1>9, <1>11

\* The scheduler, the queues and the interrupts implement the time base: every step of
\* theirs is a step of module DelayedTasks, or none, so what is proved of the delays
\* there holds of the kernel.
THEOREM KernelImplementsTimeBase == Spec => ImplementsTimeBase
<1>1. Init => Timely /\ TimeBase!Init
  BY TimeBaseInit
<1>2. KernelIInv /\ Timely /\ [Next]_vars => Timely' /\ [TimeBase!Next]_(TimeBase!vars)
  BY StepFollows DEF Follows
<1> QED BY <1>1, <1>2, KernelInvariant, PTL DEF Spec, ImplementsTimeBase, TimeBase!Spec

-----------------------------------------------------------------------------
(* The time that the calls wait.  A call that has found its queue unready  *)
(* can tell from the two values it stored how many ticks were counted      *)
(* since: the count has wrapped once at most.                              *)

\* What is still to be counted of the ticks that were held back.
Owed(s) == IF s.xPendedCounts > 0 THEN s.xPendedCounts ELSE s.xPendedTicks

\* The tick count and the overflows tell that d ticks were counted since call r last
\* stored them, and not more than one range of the count.
Tells(s, r, d) ==
  \/ s.xTickCount = r.xTimeOnEntering + d /\ s.xNumOfOverflows = r.xOverflowCount
  \/ /\ s.xTickCount = r.xTimeOnEntering + d - (portMAX_DELAY + 1)
     /\ s.xNumOfOverflows # r.xOverflowCount

\* A call that has found its queue unready is timed.  What it has left is what it was
\* given, less the ticks it has waited, w, but for those since it stored the time.
Timed(s, r, w) ==
  IF r.after = "expired" THEN r.ticks = 0 /\ w >= r.call.ticks
  ELSE /\ r.ticks <= r.call.ticks /\ r.xTimeOnEntering \in TickType
       /\ w + r.ticks - r.call.ticks >= 0
       /\ Tells(s, r, w + r.ticks - r.call.ticks)
       /\ r.pc \in {"test", "place"} => r.ticks = r.call.ticks - w

Clocked(s, r, w) ==
  /\ ~r.xEntryTimeSet => w = 0
  /\ r.after = "expired" => r.xEntryTimeSet
  /\ r.pc # "app" /\ r.call.op # "delay" => r.xEntryTimeSet
  /\ r.xEntryTimeSet => r.pc # "app"
  /\ r.xEntryTimeSet /\ r.call.ticks # portMAX_DELAY => Timed(s, r, w)

Punctual ==
  /\ waited \in [Tasks -> Nat]
  /\ \A t \in Tasks : /\ waited[t] + Owed(k) <= portMAX_DELAY + 1
                      /\ Clocked(k, task[t], waited[t])

-----------------------------------------------------------------------------
(* The time of a call.                                                     *)

LEMMA SubTicksWraps ==
  ASSUME NEW a \in TickType, NEW b \in TickType
  PROVE  /\ SubTicks(a, b) = IF a >= b THEN a - b ELSE a - b + (portMAX_DELAY + 1)
         /\ a \in Nat /\ b \in Nat /\ a <= portMAX_DELAY /\ b <= portMAX_DELAY
<1>1. portMAX_DELAY \in Nat \ {0} /\ a \in Nat /\ b \in Nat /\ a <= portMAX_DELAY /\ b <= portMAX_DELAY
  BY KernelAssumption DEF TickType
<1> DEFINE n == portMAX_DELAY + 1
           less == a - b
<1>2. n \in Nat \ {0} /\ less \in Int /\ less < n /\ 0 - n < less
  BY <1>1
<1>3. less >= 0 <=> a >= b
  BY <1>1
<1> HIDE DEF n, less
<1>4. ASSUME less >= 0
      PROVE  less % n = less
  BY <1>2, <1>4
<1>5. ASSUME less < 0
      PROVE  less % n = less + n
  BY <1>2, <1>5
<1>6. less % n = IF less >= 0 THEN less ELSE less + n
  BY <1>2, <1>4, <1>5
<1> QED BY <1>1, <1>3, <1>6 DEF SubTicks, n, less

LEMMA NextOverflow ==
  ASSUME NEW n \in Nat
  PROVE  (n + 1) % OverflowRange # n /\ (n + 1) % OverflowRange \in Nat
<1>1. PICK R \in Nat \ {0} : R = OverflowRange /\ R > 1
  BY KernelAssumption
<1> DEFINE next == (n + 1) % R
<1>2. next \in Nat /\ next < R
  BY <1>1
<1>3. CASE n >= R
  <2> HIDE DEF next
  <2>1. next # n
    BY <1>1, <1>2, <1>3
  <2> QED BY <1>1, <1>2, <2>1 DEF next
<1>4. CASE n < R
  <2>1. n % R = n
    BY <1>1, <1>4
  <2>2. next = IF n % R = R - 1 THEN 0 ELSE (n % R) + 1
    BY <1>1, ModStep
  <2> HIDE DEF next
  <2>3. next # n
    BY <1>1, <2>1, <2>2
  <2> QED BY <1>1, <1>2, <2>3 DEF next
<1> QED BY <1>1, <1>3, <1>4

\* A tick, counted for a call that has not just been told its time.
LEMMA ClockedTicks ==
  ASSUME NEW s, NEW u, s.xTickCount \in TickType, s.xNumOfOverflows \in Nat,
         u.xTickCount = AddTicks(s.xTickCount, 1),
         u.xNumOfOverflows = IF u.xTickCount = 0 THEN (s.xNumOfOverflows + 1) % OverflowRange
                             ELSE s.xNumOfOverflows,
         NEW r \in TaskState, r.ticks \in TickType, r.pc \notin {"test", "place"}, NEW w \in Nat,
         Clocked(s, r, w), NEW v,
         v = IF r.xEntryTimeSet /\ r.call.ticks # portMAX_DELAY THEN w + 1 ELSE w,
         w + 1 <= portMAX_DELAY + 1
  PROVE  Clocked(u, r, v)
<1>1. CASE ~(r.xEntryTimeSet /\ r.call.ticks # portMAX_DELAY)
  BY <1>1 DEF Clocked
<1>2. CASE r.xEntryTimeSet /\ r.call.ticks # portMAX_DELAY
  <2>1. v = w + 1 /\ Timed(s, r, w)
    BY <1>2 DEF Clocked
  <2>2. r.call.ticks \in Int /\ r.ticks \in Int
    BY CallFacts DEF TaskState, NoCall, Call
  <2>3. CASE r.after = "expired"
    BY <1>2, <2>1, <2>2, <2>3 DEF Clocked, Timed
  <2>4. CASE r.after # "expired"
    <3> DEFINE d == w + r.ticks - r.call.ticks
               e == r.xTimeOnEntering
               n == portMAX_DELAY + 1
               now == s.xTickCount
               next == u.xTickCount
    <3>9. portMAX_DELAY \in Nat
      BY KernelAssumption
    <3>1. /\ d \in Nat /\ d <= w /\ v + r.ticks - r.call.ticks = d + 1 /\ w + 1 <= n
          /\ e \in Nat /\ e < n /\ n \in Nat
      <4>1. /\ r.ticks <= r.call.ticks /\ r.xTimeOnEntering \in TickType
            /\ w + r.ticks - r.call.ticks >= 0
        BY <2>1, <2>4 DEF Timed
      <4>2. e \in Nat /\ e < n /\ n \in Nat
        BY <3>9, <4>1 DEF TickType
      <4>3. v + r.ticks - r.call.ticks = d + 1 /\ d \in Nat /\ d <= w
        BY <2>1, <2>2, <4>1
      <4> HIDE DEF d
      <4> QED BY <4>2, <4>3
    <3>2. Tells(s, r, d)
      BY <2>1, <2>4 DEF Timed
    <3>3. /\ now \in Nat /\ now < n /\ 1 \in TickType
      BY KernelAssumption DEF TickType
    <3>4. next = IF now = n - 1 THEN 0 ELSE now + 1
      <4>1. AddTicks(now, 1) = IF now + 1 > portMAX_DELAY THEN now + 1 - (portMAX_DELAY + 1) ELSE now + 1
        BY <3>3, AddTicksWraps
      <4> HIDE DEF now
      <4> QED BY <3>3, <3>9, <4>1 DEF now
    <3>5. \/ now = e + d /\ s.xNumOfOverflows = r.xOverflowCount
          \/ now = e + d - n /\ s.xNumOfOverflows # r.xOverflowCount
      BY <3>2 DEF Tells
    <3>6. \/ next = e + (d + 1) /\ u.xNumOfOverflows = r.xOverflowCount
          \/ next = e + (d + 1) - n /\ u.xNumOfOverflows # r.xOverflowCount
      <4> HIDE DEF d, e, n, now
      <4>1. CASE now # n - 1
        <5>1. next = now + 1 /\ next # 0 /\ u.xNumOfOverflows = s.xNumOfOverflows
          BY <3>3, <3>4, <4>1
        <5> HIDE DEF next
        <5> QED BY <3>1, <3>3, <3>5, <5>1
      <4>2. CASE now = n - 1
        <5>1. next = 0 /\ u.xNumOfOverflows = (s.xNumOfOverflows + 1) % OverflowRange
          BY <3>3, <3>4, <4>2
        <5>2. u.xNumOfOverflows # s.xNumOfOverflows
          BY <5>1, NextOverflow
        <5> HIDE DEF next
        <5>3. now = e + d /\ s.xNumOfOverflows = r.xOverflowCount
          BY <3>1, <3>3, <3>5, <4>2
        <5> QED BY <3>1, <3>3, <4>2, <5>1, <5>2, <5>3
      <4> QED BY <4>1, <4>2
    <3>7. Tells(u, r, v + r.ticks - r.call.ticks)
      <4> HIDE DEF d
      <4> QED BY <3>1, <3>6 DEF Tells
    <3>8. Timed(u, r, v)
      <4>1. v + r.ticks - r.call.ticks >= 0
        <5> HIDE DEF d
        <5> QED BY <3>1
      <4>2. r.ticks <= r.call.ticks /\ r.xTimeOnEntering \in TickType
        BY <2>1, <2>4 DEF Timed
      <4> QED BY <2>4, <3>7, <4>1, <4>2 DEF Timed
    <3> QED BY <1>2, <2>1, <3>8 DEF Clocked
  <2> QED BY <2>3, <2>4
<1> QED BY <1>1, <1>2

\* A call that goes on as it was, or gives up a place after an event.
LEMMA ClockedOn ==
  ASSUME NEW s, NEW u, SameClock(s, u), NEW x, NEW r, NEW w, Clocked(s, x, w),
         r.call = x.call, r.ticks = x.ticks, r.xEntryTimeSet = x.xEntryTimeSet,
         r.xOverflowCount = x.xOverflowCount, r.xTimeOnEntering = x.xTimeOnEntering,
         r.pc # "app", x.pc # "app", r.pc \in {"test", "place"} => x.pc \in {"test", "place"},
         r.after = x.after \/ (r.after # "expired" /\ x.ticks # 0)
  PROVE  Clocked(u, r, w)
<1>1. ASSUME r.xEntryTimeSet, r.call.ticks # portMAX_DELAY
      PROVE  Timed(u, r, w)
  <2>1. Timed(s, x, w)
    BY <1>1 DEF Clocked
  <2> QED BY <2>1 DEF Timed, Tells, SameClock
<1> QED BY <1>1 DEF Clocked

LEMMA ClockedSame ==
  ASSUME NEW s, NEW u, SameClock(s, u), NEW r, NEW w, Clocked(s, r, w)
  PROVE  Clocked(u, r, w)
BY DEF Clocked, Timed, Tells, SameClock

LEMMA ClockedAtApp ==
  ASSUME NEW s
  PROVE  Clocked(s, AtApp, 0) /\ AtApp.pc = "app"
BY DEF Clocked, AtApp

-----------------------------------------------------------------------------
(* What a step does to the times of the calls.                             *)

LEMMA PunctualTypes ==
  ASSUME KernelIInv, Punctual
  PROVE  /\ k.xTickCount \in TickType /\ k.xNumOfOverflows \in Nat
         /\ Owed(k) \in Int /\ waited \in [Tasks -> Nat] /\ portMAX_DELAY \in Nat
         /\ task \in [AllTasks -> TaskState] /\ Tasks \subseteq AllTasks
<1>1. k \in KernelState
  BY SchedulingFacts DEF KernelIInv
<1> QED BY <1>1, Fields, KernelAssumption
        DEF Owed, Punctual, KernelIInv, Scheduling, Types, AllTasks

SameOwed(s, r) == SameClock(s, r) /\ Owed(r) = Owed(s)

LEMMA SamesOwed ==
  ASSUME NEW s, NEW r
  PROVE  /\ SameTime(s, r) /\ SamePended(s, r) => SameOwed(s, r)
         /\ SameClock(s, r) /\ SamePended(s, r) => SameOwed(s, r)
         /\ s = r => SameOwed(s, r)
BY DEF SameTime, SamePended, SameOwed, SameClock, Owed

\* Nothing happens to the calls.
LEMMA PunctualStays ==
  ASSUME Punctual, task' = task, waited' = waited, SameOwed(k, k')
  PROVE  Punctual'
<1>1. \A t \in Tasks : Clocked(k', task[t], waited[t])
  BY ClockedSame DEF Punctual, SameOwed
<1> QED BY <1>1 DEF Punctual, SameOwed

\* The running task comes to r, and has then waited w ticks.
LEMMA PunctualOwn ==
  ASSUME KernelIInv, Punctual, NEW t \in Tasks, NEW r, task' = [task EXCEPT ![t] = r],
         NEW w \in Nat, w <= waited[t], waited' = [waited EXCEPT ![t] = w],
         SameOwed(k, k'), Clocked(k', r, w)
  PROVE  Punctual'
<1>1. /\ Owed(k) \in Int /\ waited \in [Tasks -> Nat] /\ portMAX_DELAY \in Nat
      /\ task \in [AllTasks -> TaskState] /\ t \in AllTasks /\ Tasks \subseteq AllTasks
  BY PunctualTypes
<1>2. waited' \in [Tasks -> Nat]
  BY <1>1
<1>3. ASSUME NEW x \in Tasks
      PROVE  waited'[x] + Owed(k') <= portMAX_DELAY + 1 /\ Clocked(k', task'[x], waited'[x])
  <2>1. /\ waited[x] + Owed(k) <= portMAX_DELAY + 1 /\ Clocked(k, task[x], waited[x])
        /\ Owed(k') = Owed(k) /\ SameClock(k, k') /\ waited[x] \in Nat /\ x \in AllTasks
    BY <1>1 DEF Punctual, SameOwed
  <2>2. CASE x = t
    <3>1. waited'[x] = w /\ task'[x] = r
      BY <1>1, <2>2
    <3>2. waited'[x] + Owed(k') <= portMAX_DELAY + 1
      BY <1>1, <2>1, <2>2, <3>1
    <3> QED BY <3>1, <3>2
  <2>3. CASE x # t
    <3>1. waited'[x] = waited[x] /\ task'[x] = task[x]
      BY <1>1, <2>1, <2>3
    <3>2. Clocked(k', task[x], waited[x])
      BY <2>1, ClockedSame
    <3> QED BY <2>1, <3>1, <3>2
  <2> QED BY <2>2, <2>3
<1> QED BY <1>2, <1>3 DEF Punctual

LEMMA ReturnPunctual ==
  ASSUME KernelIInv, Punctual, NEW t \in Tasks, Return(t), SameOwed(k, k')
  PROVE  Punctual'
<1> DEFINE r == AtApp
<1>1. task' = [task EXCEPT ![t] = r] /\ waited' = [waited EXCEPT ![t] = 0]
  BY Basics DEF Return
<1>2. Clocked(k', r, 0)
  BY ClockedAtApp
<1>3. 0 \in Nat /\ 0 <= waited[t]
  BY PunctualTypes
<1> HIDE DEF r
<1> QED BY <1>1, <1>2, <1>3, PunctualOwn

\* The running task goes on in its call.
LEMMA MovesPunctually ==
  ASSUME KernelIInv, Punctual, NEW t \in Tasks, waited' = waited, SameOwed(k, k'), NEW r,
         task' = [task EXCEPT ![t] = r],
         r.call = task[t].call, r.ticks = task[t].ticks, r.xEntryTimeSet = task[t].xEntryTimeSet,
         r.xOverflowCount = task[t].xOverflowCount, r.xTimeOnEntering = task[t].xTimeOnEntering,
         r.pc # "app", task[t].pc # "app", r.pc \in {"test", "place"} => task[t].pc \in {"test", "place"},
         r.after = task[t].after \/ (r.after # "expired" /\ task[t].ticks # 0)
  PROVE  Punctual'
<1>1. waited \in [Tasks -> Nat] /\ Clocked(k, task[t], waited[t]) /\ SameClock(k, k')
  BY DEF Punctual, SameOwed
<1>2. PICK w \in Nat : w = waited[t]
  BY <1>1
<1>3. waited' = [waited EXCEPT ![t] = w] /\ w <= waited[t]
  BY <1>1, <1>2
<1>4. Clocked(k', r, w)
  BY <1>1, <1>2, ClockedOn
<1> QED BY <1>3, <1>4, PunctualOwn

LEMMA GotoPunctual ==
  ASSUME KernelIInv, Punctual, NEW t \in Tasks, waited' = waited, SameOwed(k, k'), NEW pc,
         Goto(t, pc), pc \notin {"app", "test", "place"}, task[t].pc # "app"
  PROVE  Punctual'
<1> DEFINE r == [task[t] EXCEPT !.pc = pc]
<1>1. task' = [task EXCEPT ![t] = r] /\ task[t] \in TaskState
  BY PunctualTypes DEF Goto
<1>2. /\ r.call = task[t].call /\ r.ticks = task[t].ticks /\ r.xEntryTimeSet = task[t].xEntryTimeSet
      /\ r.xOverflowCount = task[t].xOverflowCount /\ r.xTimeOnEntering = task[t].xTimeOnEntering
      /\ r.pc = pc /\ r.after = task[t].after
  BY <1>1 DEF TaskState
<1> HIDE DEF r
<1> QED BY <1>1, <1>2, MovesPunctually

\* It goes on, and what follows the end of its call is settled anew.
LEMMA GoesOnPunctually ==
  ASSUME KernelIInv, Timely, Punctual, NEW t \in Tasks, waited' = waited, SameOwed(k, k'),
         NEW pc, NEW after, task' = [task EXCEPT ![t] = GoesOn(task[t], pc, after)],
         pc # "app", pc \notin {"test", "place"}, after # "expired",
         task[t].pc \in {"delay", "test", "place"}
  PROVE  Punctual'
<1> DEFINE r == GoesOn(task[t], pc, after)
<1>1. task' = [task EXCEPT ![t] = r] /\ task[t] \in TaskState /\ t \in AllTasks
  BY PunctualTypes
<1>2. /\ r.call = task[t].call /\ r.ticks = task[t].ticks /\ r.xEntryTimeSet = task[t].xEntryTimeSet
      /\ r.xOverflowCount = task[t].xOverflowCount /\ r.xTimeOnEntering = task[t].xTimeOnEntering
      /\ r.pc = pc /\ r.after = after
  BY <1>1 DEF TaskState, GoesOn
<1>3. task[t].ticks # 0 /\ task[t].pc # "app"
  BY <1>1 DEF Timely, InRange
<1> HIDE DEF r
<1> QED BY <1>1, <1>2, <1>3, MovesPunctually

LEMMA NotReadyPunctual ==
  ASSUME KernelIInv, Timely, Punctual, NEW t \in Tasks, At(t, {"app", "try"}), NEW c \in QueueCalls,
         task[t].pc # "app" => c = task[t].call, NotReady(t, c)
  PROVE  Punctual'
<1> DEFINE ticks == IF task[t].pc = "app" THEN c.ticks ELSE task[t].ticks
<1>1. /\ k' = k /\ task[t].pc \in {"app", "try"} /\ Consistent(task[t]) /\ t \in AllTasks
      /\ task[t] \in TaskState /\ Clocked(k, task[t], waited[t]) /\ waited \in [Tasks -> Nat]
  BY Acting, Basics DEF NotReady, Punctual
<1>2. SameOwed(k, k')
  BY <1>1, SamesOwed
<1>3. CASE ticks = 0
  <2>1. Return(t)
    BY <1>3 DEF NotReady
  <2> QED BY <1>2, <2>1, ReturnPunctual
<1>4. CASE ticks # 0 /\ task[t].xEntryTimeSet
  <2>1. Goto(t, "suspend") /\ waited' = waited
    BY <1>4 DEF NotReady
  <2>2. task[t].pc # "app"
    BY <1>4, <1>1 DEF Consistent
  <2> QED BY <1>2, <2>1, <2>2, GotoPunctual
<1>5. CASE ticks # 0 /\ ~task[t].xEntryTimeSet
  <2> DEFINE r == [pc |-> "suspend", call |-> c, ticks |-> ticks,
                   xEntryTimeSet |-> TRUE, xOverflowCount |-> k.xNumOfOverflows,
                   xTimeOnEntering |-> k.xTickCount, after |-> "none"]
  <2>1. task' = [task EXCEPT ![t] = r] /\ waited' = waited
    BY <1>5 DEF NotReady
  <2>2. waited[t] = 0 /\ task[t].pc = "app"
    <3>1. task[t].pc # "app" => task[t].call.op # "delay"
      BY <1>1, CallFacts DEF Consistent
    <3> QED BY <1>1, <1>5, <3>1 DEF Clocked
  <2>3. ticks = c.ticks /\ c.ticks \in Int /\ c.op # "delay"
    BY <2>2, CallFacts
  <2>4. k.xTickCount \in TickType /\ k.xTickCount \in Int
    BY PunctualTypes DEF TickType
  <2>5. Clocked(k, r, 0)
    <3>1. Tells(k, r, 0)
      BY <2>4 DEF Tells
    <3>2. Timed(k, r, 0)
      BY <2>3, <2>4, <3>1 DEF Timed
    <3> QED BY <2>3, <3>2 DEF Clocked
  <2> HIDE DEF r
  <2>6. 0 \in Nat /\ 0 <= waited[t] /\ waited' = [waited EXCEPT ![t] = 0]
    BY <1>1, <2>1, <2>2
  <2>7. Clocked(k', r, 0)
    BY <1>1, <2>5
  <2> QED BY <1>2, <2>1, <2>6, <2>7, PunctualOwn
<1> QED BY <1>3, <1>4, <1>5

\* The time that has passed is what the stored values tell.
LEMMA ElapsedTime ==
  ASSUME NEW t, NEW d \in Nat, d <= portMAX_DELAY + 1, k.xTickCount \in TickType,
         task[t].xTimeOnEntering \in TickType, task[t].ticks \in 1 .. portMAX_DELAY - 1,
         Tells(k, task[t], d)
  PROVE  /\ TimedOut(t) <=> d >= task[t].ticks
         /\ ~TimedOut(t) => xElapsedTime(t) = d
<1> DEFINE now == k.xTickCount
           e == task[t].xTimeOnEntering
           n == portMAX_DELAY + 1
           left == task[t].ticks
           spent == xElapsedTime(t)
           wrapped == k.xNumOfOverflows # task[t].xOverflowCount
<1>1. /\ spent = IF now >= e THEN now - e ELSE now - e + n
      /\ now \in Nat /\ e \in Nat /\ now < n /\ e < n
  <2>1. /\ SubTicks(now, e) = IF now >= e THEN now - e ELSE now - e + (portMAX_DELAY + 1)
        /\ now \in Nat /\ e \in Nat /\ now <= portMAX_DELAY /\ e <= portMAX_DELAY
    BY SubTicksWraps
  <2>2. portMAX_DELAY \in Nat
    BY KernelAssumption
  <2> QED BY <2>1, <2>2 DEF xElapsedTime
<1>2. n \in Nat /\ left \in Nat /\ left + 1 < n /\ d <= n /\ left # portMAX_DELAY
  BY KernelAssumption
<1>3. (now = e + d /\ ~wrapped) \/ (now = e + d - n /\ wrapped)
  BY DEF Tells
<1>4. TimedOut(t) <=> (wrapped /\ now >= e) \/ spent >= left
  BY <1>2 DEF TimedOut
<1> HIDE DEF now, e, n, left, spent, wrapped
<1>5. CASE now = e + d /\ ~wrapped
  <2>1. spent = d
    BY <1>1, <1>5
  <2> QED BY <1>4, <1>5, <2>1 DEF spent, left
<1>6. CASE now = e + d - n /\ wrapped
  <2>1. CASE now >= e
    <3>1. d >= left
      BY <1>1, <1>2, <1>6, <2>1
    <3> QED BY <1>4, <1>6, <2>1, <3>1 DEF left
  <2>2. CASE ~(now >= e)
    <3>1. spent = d
      BY <1>1, <1>2, <1>6, <2>2
    <3> QED BY <1>4, <2>2, <3>1 DEF spent, left
  <2> QED BY <2>1, <2>2
<1> QED BY <1>3, <1>5, <1>6

-----------------------------------------------------------------------------
(* Each step keeps the times of the calls.                                 *)

LEMMA WakeOwed ==
  ASSUME KernelIInv, NEW e \in EventLists, k' = k \/ k' = Wake(k, e)
  PROVE  SameOwed(k, k')
<1>1. Good(k)
  BY DEF KernelIInv, Scheduling, Types
<1>2. CASE k' = k
  BY <1>2, SamesOwed
<1>3. CASE k' = Wake(k, e) /\ k.events[e] # <<>>
  <2>1. k' = RemoveFromEventList(k, e)
    BY <1>3 DEF Wake
  <2>2. \E h \in Waiting(k, e) : Woken(k, RemoveFromEventList(k, e), h)
    BY <1>1, <1>3, RemoveFromEventListWakes
  <2>3. SameTime(k, k') /\ SamePended(k, k')
    BY <2>1, <2>2 DEF Woken
  <2> QED BY <2>3, SamesOwed
<1>4. CASE k' = Wake(k, e) /\ k.events[e] = <<>>
  BY <1>4, SamesOwed DEF Wake
<1> QED BY <1>2, <1>3, <1>4

LEMMA ActingInCall ==
  ASSUME KernelIInv, NEW t \in AllTasks, NEW pcs, At(t, pcs), "app" \notin pcs
  PROVE  t \in Tasks /\ task[t].pc # "app" /\ task[t].pc \in pcs
BY Acting

LEMMA MakesCall ==
  ASSUME KernelIInv, NEW t \in AllTasks, NEW op \in {"send", "receive", "delay"}, NEW c \in Calls[t],
         Calling(t, op, c)
  PROVE  /\ t \in Tasks /\ At(t, {"app", "try"}) /\ (task[t].pc # "app" => c = task[t].call)
         /\ c.ticks \in Int
         /\ op # "delay" => c \in QueueCalls
         /\ op = "delay" => c \in DelayCalls /\ task[t].pc = "app" /\ ~task[t].xEntryTimeSet
<1>1. t # Idle /\ c \in QueueCalls \cup DelayCalls
  BY CallFacts
<1>2. /\ t \in Tasks /\ At(t, {"app", "try"}) /\ (task[t].pc # "app" => c = task[t].call) /\ c.op = op
  BY <1>1 DEF Calling, AllTasks
<1>3. c.ticks \in Int /\ (op # "delay" => c \in QueueCalls) /\ (op = "delay" => c \in DelayCalls)
  BY <1>1, <1>2, CallFacts
<1>4. Consistent(task[t]) /\ task[t].pc \in {"app", "try"}
  BY <1>2, Acting
<1>5. op = "delay" => task[t].pc = "app"
  BY <1>2, <1>4, CallFacts DEF Consistent
<1> QED BY <1>2, <1>3, <1>4, <1>5 DEF Consistent

LEMMA GenericSendPunctual ==
  ASSUME KernelIInv, Timely, Punctual, NEW t \in AllTasks, xQueueGenericSend(t)
  PROVE  Punctual'
<1>1. PICK c \in Calls[t] :
        /\ Calling(t, "send", c)
        /\ IF queue[c.queue].uxMessagesWaiting < uxLength[c.queue]
             THEN /\ queue' = [queue EXCEPT ![c.queue].uxMessagesWaiting = @ + 1]
                  /\ k' = Wake(k, ToReceive(c.queue))
                  /\ pendSV' = HigherWoken(k, ToReceive(c.queue))
                  /\ Return(t)
             ELSE NotReady(t, c)
  BY DEF xQueueGenericSend
<1>2. t \in Tasks /\ At(t, {"app", "try"}) /\ c \in QueueCalls /\ (task[t].pc # "app" => c = task[t].call)
  BY <1>1, MakesCall
<1>3. CASE NotReady(t, c)
  BY <1>2, <1>3, NotReadyPunctual
<1>4. CASE k' = Wake(k, ToReceive(c.queue)) /\ Return(t)
  <2>1. ToReceive(c.queue) \in EventLists
    BY <1>2, CallFacts, EventsOf
  <2>2. SameOwed(k, k')
    BY <1>4, <2>1, WakeOwed
  <2> QED BY <1>2, <1>4, <2>2, ReturnPunctual
<1> QED BY <1>1, <1>3, <1>4

LEMMA ReceivePunctual ==
  ASSUME KernelIInv, Timely, Punctual, NEW t \in AllTasks, xQueueReceive(t)
  PROVE  Punctual'
<1>1. PICK c \in Calls[t] :
        /\ Calling(t, "receive", c)
        /\ IF queue[c.queue].uxMessagesWaiting > 0
             THEN /\ queue' = [queue EXCEPT ![c.queue].uxMessagesWaiting = @ - 1]
                  /\ k' = Wake(k, ToSend(c.queue))
                  /\ pendSV' = HigherWoken(k, ToSend(c.queue))
                  /\ Return(t)
             ELSE NotReady(t, c)
  BY DEF xQueueReceive
<1>2. t \in Tasks /\ At(t, {"app", "try"}) /\ c \in QueueCalls /\ (task[t].pc # "app" => c = task[t].call)
  BY <1>1, MakesCall
<1>3. CASE NotReady(t, c)
  BY <1>2, <1>3, NotReadyPunctual
<1>4. CASE k' = Wake(k, ToSend(c.queue)) /\ Return(t)
  <2>1. ToSend(c.queue) \in EventLists
    BY <1>2, CallFacts, EventsOf
  <2>2. SameOwed(k, k')
    BY <1>4, <2>1, WakeOwed
  <2> QED BY <1>2, <1>4, <2>2, ReturnPunctual
<1> QED BY <1>1, <1>3, <1>4

LEMMA TaskDelayPunctual ==
  ASSUME KernelIInv, Timely, Punctual, NEW t \in AllTasks, vTaskDelay(t)
  PROVE  Punctual'
<1>1. PICK c \in Calls[t] :
        /\ Calling(t, "delay", c)
        /\ IF c.ticks > 0
             THEN task' = [task EXCEPT ![t] = [AtApp EXCEPT !.pc = "suspend", !.call = c,
                                                            !.ticks = c.ticks]]
             ELSE task' = task
        /\ k' = k /\ waited' = waited
  BY DEF vTaskDelay
<1>2. SameOwed(k, k')
  BY <1>1, SamesOwed
<1>3. /\ t \in Tasks /\ c \in DelayCalls /\ ~task[t].xEntryTimeSet
  BY <1>1, MakesCall
<1>4. CASE task' = task
  BY <1>1, <1>2, <1>4, PunctualStays
<1>5. CASE task' # task
  <2> DEFINE r == [AtApp EXCEPT !.pc = "suspend", !.call = c, !.ticks = c.ticks]
  <2>1. task' = [task EXCEPT ![t] = r]
    BY <1>1, <1>5
  <2>2. waited[t] = 0 /\ waited \in [Tasks -> Nat]
    BY <1>3 DEF Punctual, Clocked
  <2>3. 0 \in Nat /\ 0 <= waited[t] /\ waited' = [waited EXCEPT ![t] = 0]
    BY <1>1, <1>3, <2>2
  <2>4. r.pc = "suspend" /\ r.call.op = "delay" /\ ~r.xEntryTimeSet /\ r.after = "none"
    BY <1>3, CallFacts DEF AtApp
  <2> HIDE DEF r
  <2>5. Clocked(k', r, 0)
    BY <2>4 DEF Clocked
  <2> QED BY <1>2, <1>3, <2>1, <2>3, <2>5, PunctualOwn
<1> QED BY <1>4, <1>5

LEMMA SuspendAllPunctual ==
  ASSUME KernelIInv, Timely, Punctual, NEW t \in AllTasks, vTaskSuspendAll(t)
  PROVE  Punctual'
<1> DEFINE pc == IF task[t].call.op = "delay" THEN "delay" ELSE "lock"
<1>1. /\ At(t, {"suspend"}) /\ Goto(t, pc) /\ waited' = waited
      /\ k' = [k EXCEPT !.uxSchedulerSuspended = k.uxSchedulerSuspended + 1]
  BY DEF vTaskSuspendAll
<1>2. k \in KernelState
  BY <1>1, Acting DEF Good
<1>3. SameTime(k, k') /\ SamePended(k, k')
  BY <1>1, <1>2, SuspendedRest DEF SameRest
<1>4. SameOwed(k, k') /\ pc \notin {"app", "test", "place"}
  BY <1>3, SamesOwed
<1>5. t \in Tasks /\ task[t].pc # "app"
  BY <1>1, ActingInCall
<1> HIDE DEF pc
<1> QED BY <1>1, <1>4, <1>5, GotoPunctual

LEMMA DelayCurrentTaskPunctual ==
  ASSUME KernelIInv, Timely, Punctual, NEW t \in AllTasks, DelayCurrentTask(t)
  PROVE  Punctual'
<1> DEFINE r == [task[t] EXCEPT !.pc = "resume", !.after = "delayed"]
<1>1. /\ At(t, {"delay"}) /\ task' = [task EXCEPT ![t] = r] /\ waited' = waited
      /\ k' = AddCurrentTaskToDelayedList(k, task[t].ticks, FALSE)
  BY DEF DelayCurrentTask
<1>2. r = GoesOn(task[t], "resume", "delayed")
  BY DEF GoesOn
<1> HIDE DEF r
<1>3. /\ t = k.pxCurrentTCB /\ task[t].pc = "delay" /\ t \in Tasks /\ t \in Ready(k)
      /\ task[t] \in TaskState /\ Good(k)
  BY <1>1, Acting DEF Away, EndingPcs
<1>4. CurrentLeaves(k, k')
  <2>1. k.pxCurrentTCB \in Ready(k) \cap Tasks /\ task[t].ticks \in Int
    BY <1>3 DEF TaskState
  <2> QED BY <1>1, <1>3, <2>1, AddCurrentTaskLeaves DEF Good
<1>5. SameClock(k, k') /\ SamePended(k, k')
  BY <1>4 DEF CurrentLeaves, SameControl, SamePended
<1>6. SameOwed(k, k')
  BY <1>5, SamesOwed
<1>7. /\ task' = [task EXCEPT ![t] = GoesOn(task[t], "resume", "delayed")] /\ "resume" # "app"
      /\ "resume" \notin {"test", "place"} /\ "delayed" # "expired"
      /\ task[t].pc \in {"delay", "test", "place"}
  BY <1>1, <1>2, <1>3
<1> QED BY <1>1, <1>3, <1>6, <1>7, GoesOnPunctually

LEMMA LockQueuePunctual ==
  ASSUME KernelIInv, Timely, Punctual, NEW t \in AllTasks, prvLockQueue(t)
  PROVE  Punctual'
<1>1. At(t, {"lock"}) /\ Goto(t, "check") /\ k' = k /\ waited' = waited
  BY DEF prvLockQueue
<1>2. t \in Tasks /\ task[t].pc # "app"
  BY <1>1, ActingInCall
<1>3. SameOwed(k, k') /\ "check" \notin {"app", "test", "place"}
  BY <1>1, SamesOwed
<1> QED BY <1>1, <1>2, <1>3, GotoPunctual

LEMMA TestQueuePunctual ==
  ASSUME KernelIInv, Timely, Punctual, NEW t \in AllTasks, TestQueue(t)
  PROVE  Punctual'
<1>1. At(t, {"test"}) /\ k' = k /\ waited' = waited
  BY DEF TestQueue
<1>2. t \in Tasks /\ task[t].pc = "test" /\ task[t] \in TaskState
  BY <1>1, Acting
<1>3. SameOwed(k, k')
  BY <1>1, SamesOwed
<1>4. CASE QueueUnready(task[t].call)
  <2> DEFINE r == [task[t] EXCEPT !.pc = "place"]
  <2>1. task' = [task EXCEPT ![t] = r]
    BY <1>4 DEF TestQueue
  <2>2. /\ r.call = task[t].call /\ r.ticks = task[t].ticks /\ r.xEntryTimeSet = task[t].xEntryTimeSet
        /\ r.xOverflowCount = task[t].xOverflowCount /\ r.xTimeOnEntering = task[t].xTimeOnEntering
        /\ r.pc = "place" /\ r.after = task[t].after
    BY <1>2 DEF TaskState
  <2> HIDE DEF r
  <2> QED BY <1>1, <1>2, <1>3, <2>1, <2>2, MovesPunctually
<1>5. CASE ~QueueUnready(task[t].call)
  <2> DEFINE r == [task[t] EXCEPT !.pc = "unlockTx", !.after = "retry"]
  <2>1. task' = [task EXCEPT ![t] = r]
    BY <1>5 DEF TestQueue
  <2>2. r = GoesOn(task[t], "unlockTx", "retry")
    BY DEF GoesOn
  <2> HIDE DEF r
  <2> QED BY <1>1, <1>2, <1>3, <2>1, <2>2, GoesOnPunctually
<1> QED BY <1>4, <1>5

LEMMA PlacePunctual ==
  ASSUME KernelIInv, Timely, Punctual, NEW t \in AllTasks, vTaskPlaceOnEventList(t)
  PROVE  Punctual'
<1> DEFINE r == [task[t] EXCEPT !.pc = "unlockTx", !.after = "blocked"]
           ticks == task[t].ticks
           c == task[t].call
           e == EventOf(c.op, c.queue)
<1>1. /\ At(t, {"place"}) /\ task' = [task EXCEPT ![t] = r] /\ waited' = waited
      /\ k' = PlaceOnEventList(k, e, ticks)
  BY DEF vTaskPlaceOnEventList, EventOf
<1>2. /\ t = k.pxCurrentTCB /\ task[t].pc = "place" /\ t \in Ready(k) /\ t \in Tasks
      /\ task[t] \in TaskState /\ Consistent(task[t]) /\ Good(k)
  BY <1>1, Acting DEF Away, EndingPcs
<1>3. r = GoesOn(task[t], "unlockTx", "blocked") /\ ticks \in Int
  BY <1>2 DEF GoesOn, TaskState
<1>4. e \in EventLists
  <2>1. c \in QueueCalls
    BY <1>2 DEF Consistent, LockedPcs
  <2> QED BY <2>1, CallFacts, EventsOf DEF EventOf
<1> HIDE DEF r, ticks, e
<1>5. Placed(k, k', e)
  BY <1>1, <1>2, <1>3, <1>4, PlaceOnEventListPlaces
<1>6. SameClock(k, k') /\ SamePended(k, k')
  BY <1>5 DEF Placed, SameControl, SamePended
<1>7. SameOwed(k, k')
  BY <1>6, SamesOwed
<1>8. /\ task' = [task EXCEPT ![t] = GoesOn(task[t], "unlockTx", "blocked")] /\ "unlockTx" # "app"
      /\ "unlockTx" \notin {"test", "place"} /\ "blocked" # "expired"
      /\ task[t].pc \in {"delay", "test", "place"}
  BY <1>1, <1>2, <1>3
<1> QED BY <1>1, <1>2, <1>7, <1>8, GoesOnPunctually

LEMMA UnlockPunctual ==
  ASSUME KernelIInv, Timely, Punctual, NEW t \in AllTasks,
         At(t, {"unlockTx", "wakeTx", "unlockRx", "wakeRx"}), waited' = waited,
         NEW pc \in {"wakeTx", "unlockRx", "wakeRx", "resume"}, Goto(t, pc),
         NEW e \in EventLists, k' = k \/ k' = Wake(k, e)
  PROVE  Punctual'
<1>1. t \in Tasks /\ task[t].pc # "app"
  BY ActingInCall
<1>2. SameOwed(k, k') /\ pc \notin {"app", "test", "place"}
  BY WakeOwed
<1> QED BY <1>1, <1>2, GotoPunctual

LEMMA UnlockQueueTxPunctual ==
  ASSUME KernelIInv, Timely, Punctual, NEW t \in AllTasks, prvUnlockQueueTx(t)
  PROVE  Punctual'
<1>1. At(t, {"unlockTx", "wakeTx"}) /\ waited' = waited
  BY DEF prvUnlockQueueTx
<1>2. task[t].call.queue \in Queues
  BY <1>1, Acting, CallFacts DEF Consistent, LockedPcs
<1>3. ToReceive(task[t].call.queue) \in EventLists
  BY <1>2, EventsOf
<1>4. PICK pc \in {"wakeTx", "unlockRx"} :
        Goto(t, pc) /\ (k' = k \/ k' = Wake(k, ToReceive(task[t].call.queue)))
  BY DEF prvUnlockQueueTx
<1>5. At(t, {"unlockTx", "wakeTx", "unlockRx", "wakeRx"})
  BY <1>1 DEF At
<1> QED BY <1>1, <1>3, <1>4, <1>5, UnlockPunctual

LEMMA UnlockQueueRxPunctual ==
  ASSUME KernelIInv, Timely, Punctual, NEW t \in AllTasks, prvUnlockQueueRx(t)
  PROVE  Punctual'
<1>1. At(t, {"unlockRx", "wakeRx"}) /\ waited' = waited
  BY DEF prvUnlockQueueRx
<1>2. task[t].call.queue \in Queues
  BY <1>1, Acting, CallFacts DEF Consistent, LockedPcs
<1>3. ToSend(task[t].call.queue) \in EventLists
  BY <1>2, EventsOf
<1>4. PICK pc \in {"wakeRx", "resume"} :
        Goto(t, pc) /\ (k' = k \/ k' = Wake(k, ToSend(task[t].call.queue)))
  BY DEF prvUnlockQueueRx
<1>5. At(t, {"unlockTx", "wakeTx", "unlockRx", "wakeRx"})
  BY <1>1 DEF At
<1> QED BY <1>1, <1>3, <1>4, <1>5, UnlockPunctual

LEMMA YieldPunctual ==
  ASSUME KernelIInv, Timely, Punctual, NEW t \in AllTasks, Yield(t)
  PROVE  Punctual'
<1>1. /\ At(t, {"yield"}) /\ k' = k /\ waited' = waited
      /\ Goto(t, IF task[t].after = "delayed" THEN "return" ELSE "try")
  BY DEF Yield
<1>2. PICK pc \in {"return", "try"} : Goto(t, pc)
  BY <1>1
<1>3. t \in Tasks /\ task[t].pc # "app"
  BY <1>1, ActingInCall
<1>4. SameOwed(k, k') /\ pc \notin {"app", "test", "place"}
  BY <1>1, SamesOwed
<1> QED BY <1>1, <1>2, <1>3, <1>4, GotoPunctual

LEMMA ExpiredPunctual ==
  ASSUME KernelIInv, Timely, Punctual, NEW t \in AllTasks, Expired(t)
  PROVE  Punctual'
<1>1. /\ At(t, {"expired"}) /\ k' = k
      /\ (Goto(t, "try") /\ waited' = waited) \/ Return(t)
  BY DEF Expired
<1>2. t \in Tasks /\ task[t].pc # "app"
  BY <1>1, ActingInCall
<1>3. SameOwed(k, k') /\ "try" \notin {"app", "test", "place"}
  BY <1>1, SamesOwed
<1> QED BY <1>1, <1>2, <1>3, GotoPunctual, ReturnPunctual

LEMMA DelayOverPunctual ==
  ASSUME KernelIInv, Timely, Punctual, NEW t \in AllTasks, DelayOver(t)
  PROVE  Punctual'
<1>1. At(t, {"return"}) /\ k' = k /\ Return(t)
  BY DEF DelayOver
<1>2. t \in Tasks
  BY <1>1, ActingInCall
<1>3. SameOwed(k, k')
  BY <1>1, SamesOwed
<1> QED BY <1>1, <1>2, <1>3, ReturnPunctual

LEMMA PendSVPunctual ==
  ASSUME KernelIInv, Punctual, xPortPendSVHandler
  PROVE  Punctual'
<1>1. Good(k) /\ k' = SwitchContext(k) /\ task' = task /\ waited' = waited
  BY DEF KernelIInv, Scheduling, Types, xPortPendSVHandler
<1>2. SameTime(k, k') /\ SamePended(k, k')
  BY <1>1, SwitchContextSwitches DEF Switched
<1>3. SameOwed(k, k')
  BY <1>2, SamesOwed
<1> QED BY <1>1, <1>3, PunctualStays

LEMMA EventFromISRPunctual ==
  ASSUME KernelIInv, Punctual, NEW q, NEW lock, NEW e \in EventLists, EventFromISR(q, lock, e)
  PROVE  Punctual'
<1>1. (k' = k \/ k' = Wake(k, e)) /\ task' = task /\ waited' = waited
  BY DEF EventFromISR
<1>2. SameOwed(k, k')
  BY <1>1, WakeOwed
<1> QED BY <1>1, <1>2, PunctualStays

LEMMA SendFromISRPunctual ==
  ASSUME KernelIInv, Punctual, NEW q \in IsrSends, xQueueGenericSendFromISR(q)
  PROVE  Punctual'
<1>1. ToReceive(q) \in EventLists
  BY KernelAssumption, EventsOf
<1> QED BY <1>1, EventFromISRPunctual DEF xQueueGenericSendFromISR

LEMMA ReceiveFromISRPunctual ==
  ASSUME KernelIInv, Punctual, NEW q \in IsrReceives, xQueueReceiveFromISR(q)
  PROVE  Punctual'
<1>1. ToSend(q) \in EventLists
  BY KernelAssumption, EventsOf
<1> QED BY <1>1, EventFromISRPunctual DEF xQueueReceiveFromISR

\* The call takes up the time again: what is left is what it asked for, less what it
\* has waited, and if nothing is left it has waited as long.
LEMMA CheckForTimeOutPunctual ==
  ASSUME KernelIInv, Timely, Punctual, NEW t \in AllTasks, xTaskCheckForTimeOut(t)
  PROVE  Punctual'
<1> DEFINE x == task[t]
           c == x.call
           given == c.ticks
           left == x.ticks
           spent == xElapsedTime(t)
           late == [x EXCEPT !.ticks = 0, !.pc = "unlockTx", !.after = "expired"]
           unlimited == [x EXCEPT !.pc = "test"]
           still == [x EXCEPT !.ticks = left - spent, !.pc = "test",
                              !.xOverflowCount = k.xNumOfOverflows, !.xTimeOnEntering = k.xTickCount]
           r == IF TimedOut(t) THEN late ELSE IF left = portMAX_DELAY THEN unlimited ELSE still
<1>1. /\ At(t, {"check"}) /\ k' = k /\ waited' = waited
      /\ task' = [task EXCEPT ![t] = r]
  BY DEF xTaskCheckForTimeOut, StillToWait
<1>2. /\ t \in Tasks /\ x.pc = "check" /\ x \in TaskState /\ c \in QueueCalls
  BY <1>1, Acting DEF Consistent, LockedPcs
<1>3. /\ k.xTickCount \in TickType /\ k.xTickCount \in Int /\ portMAX_DELAY \in Nat
      /\ left \in TickType /\ left # 0 /\ given \in TickType
      /\ waited \in [Tasks -> Nat] /\ Clocked(k, x, waited[t]) /\ waited[t] <= portMAX_DELAY + 1
  <2>1. k.xTickCount \in TickType /\ waited \in [Tasks -> Nat] /\ portMAX_DELAY \in Nat /\ Owed(k) \in Int
    BY PunctualTypes
  <2>2. left \in TickType /\ left # 0
    BY <1>2 DEF Timely, InRange
  <2>3. given \in TickType
    BY <1>2 DEF QueueCalls
  <2>4. Owed(k) >= 0
    BY DEF Timely, KernelTime, Owed
  <2>5. waited[t] + Owed(k) <= portMAX_DELAY + 1 /\ Clocked(k, x, waited[t])
    BY <1>2 DEF Punctual
  <2>6. waited[t] <= portMAX_DELAY + 1
    BY <1>2, <2>1, <2>4, <2>5
  <2> QED BY <2>1, <2>2, <2>3, <2>5, <2>6 DEF TickType
<1>4. PICK w \in Nat : w = waited[t]
  BY <1>2, <1>3
<1>5. x.xEntryTimeSet /\ c.op # "delay"
  BY <1>2, <1>3, CallFacts DEF Clocked
<1>6. SameOwed(k, k') /\ w <= waited[t] /\ waited' = [waited EXCEPT ![t] = w]
  BY <1>1, <1>2, <1>3, <1>4, SamesOwed
<1>7. /\ late.call = c /\ late.xEntryTimeSet /\ late.pc = "unlockTx" /\ late.after = "expired"
      /\ late.ticks = 0
      /\ unlimited.call = c /\ unlimited.xEntryTimeSet /\ unlimited.pc = "test"
      /\ unlimited.after = x.after
      /\ still.call = c /\ still.xEntryTimeSet /\ still.pc = "test" /\ still.after = x.after
      /\ still.ticks = left - spent /\ still.xOverflowCount = k.xNumOfOverflows
      /\ still.xTimeOnEntering = k.xTickCount
  BY <1>2, <1>5 DEF TaskState
<1>8. r.call = c /\ r.xEntryTimeSet /\ r.pc # "app"
  <2> HIDE DEF late, unlimited, still, left
  <2> QED BY <1>7
<1>9. ASSUME given # portMAX_DELAY
      PROVE  Timed(k, r, w)
  <2>1. Timed(k, x, w)
    BY <1>3, <1>4, <1>5, <1>9 DEF Clocked
  <2>2. x.after # "expired"
    BY <1>3, <2>1 DEF Timed
  <2> DEFINE d == w + left - given
  <2>3. left <= given /\ d >= 0 /\ Tells(k, x, d) /\ x.xTimeOnEntering \in TickType
    BY <2>1, <2>2 DEF Timed
  <2>4. given \in Nat /\ left \in Nat /\ given < portMAX_DELAY /\ left # 0 /\ spent \in Int
    <3>1. spent \in TickType
      <4>1. x.xTimeOnEntering \in Int
        BY <2>3 DEF TickType
      <4> QED BY <1>3, <4>1, TickTypes DEF xElapsedTime
    <3> HIDE DEF spent, left, given
    <3> QED BY <1>3, <1>9, <3>1 DEF TickType
  <2> HIDE DEF left, given, spent
  <2>5. d \in Nat /\ d <= portMAX_DELAY + 1 /\ left \in 1 .. portMAX_DELAY - 1 /\ left # portMAX_DELAY
    BY <1>3, <1>4, <2>3, <2>4
  <2> HIDE DEF d
  <2>6. /\ TimedOut(t) <=> d >= left
        /\ ~TimedOut(t) => spent = d
    BY <1>3, <2>3, <2>5, ElapsedTime DEF left, spent
  <2> HIDE DEF late, unlimited, still, x, c
  <2>7. CASE TimedOut(t)
    <3>1. d >= left
      BY <2>6, <2>7
    <3>2. w >= given
      BY <2>4, <3>1 DEF d
    <3>3. r = late
      BY <2>7
    <3> HIDE DEF r
    <3> QED BY <1>7, <3>2, <3>3 DEF Timed, given
  <2>8. CASE ~TimedOut(t)
    <3>1. r = still
      BY <2>5, <2>8
    <3> HIDE DEF r
    <3>2. still.ticks = given - w /\ w + still.ticks - given = 0 /\ still.ticks <= given
      <4>1. still.ticks = left - d
        BY <1>7, <2>6, <2>8
      <4> QED BY <2>4, <4>1 DEF d
    <3>3. Tells(k, still, 0)
      BY <1>3, <1>7 DEF Tells
    <3>4. Tells(k, still, w + still.ticks - given)
      BY <3>2, <3>3
    <3>5. still.call.ticks = given /\ still.after # "expired"
      BY <1>7, <2>2 DEF given
    <3>6. Timed(k, still, w)
      BY <1>3, <1>7, <3>2, <3>4, <3>5 DEF Timed
    <3> QED BY <3>1, <3>6
  <2> QED BY <2>7, <2>8
<1>10. Clocked(k, r, w)
  <2> HIDE DEF r
  <2> QED BY <1>8, <1>9 DEF Clocked
<1>11. Clocked(k', r, w)
  BY <1>1, <1>10
<1> HIDE DEF r
<1> QED BY <1>1, <1>2, <1>6, <1>11, PunctualOwn

\* The end of xTaskResumeAll.
LEMMA ResumedPunctual ==
  ASSUME NEW t, NEW s, task[t] \in TaskState, Consistent(task[t]), task[t].pc \in {"resume", "unwind"},
         Resumed(t, s)
  PROVE  \E pc \in {"try", "yield", "expired", "return"} : Goto(t, pc)
<1>1. task[t].after \in {"blocked", "retry", "expired", "delayed"}
  BY DEF Consistent
<1> QED BY <1>1 DEF Resumed

LEMMA ResumeAllPunctual ==
  ASSUME KernelIInv, Timely, Punctual, NEW t \in AllTasks, xTaskResumeAll(t)
  PROVE  Punctual'
<1> DEFINE before == k.uxSchedulerSuspended - 1
           s0 == [k EXCEPT !.uxSchedulerSuspended = before]
           s == MovePendingReady(s0)
           ticks == s.xPendedTicks
<1>1. /\ At(t, {"resume"}) /\ k' = [s EXCEPT !.xPendedCounts = ticks] /\ waited' = waited
      /\ IF ticks > 0 THEN Goto(t, "unwind") ELSE Resumed(t, s)
  BY DEF xTaskResumeAll
<1>2. /\ task[t].pc = "resume" /\ task[t] \in TaskState /\ Consistent(task[t]) /\ t \in Tasks
      /\ Good(k) /\ k \in KernelState /\ k.uxSchedulerSuspended \in Int
      /\ k.xPendedCounts = 0 /\ k.xPendedTicks \in Nat
  BY <1>1, Acting, ActingTime, Fields DEF Good, KernelTime
<1>3. Good(s0) /\ SameRest(k, s0) /\ SamePended(k, s0)
  <2>1. before \in Int
    BY <1>2
  <2> HIDE DEF before
  <2> QED BY <1>2, <2>1, SuspendFields, SuspendedRest
<1> HIDE DEF s0
<1>4. PendingMoved(s0, s)
  BY <1>3, MovePendingReadyMoves
<1> HIDE DEF s
<1>5. SameClock(k, s) /\ SamePended(k, s) /\ s \in KernelState
  BY <1>3, <1>4 DEF PendingMoved, SameClock, SameRest, SameTime, SamePended, Good
<1>6. /\ k'.xTickCount = s.xTickCount /\ k'.xNumOfOverflows = s.xNumOfOverflows
      /\ k'.xPendedTicks = s.xPendedTicks /\ k'.xPendedCounts = s.xPendedTicks
  BY <1>1, <1>5 DEF KernelState
<1>7. SameOwed(k, k')
  <2>1. SameClock(k, k')
    BY <1>5, <1>6 DEF SameClock
  <2>2. k'.xPendedTicks = k.xPendedTicks /\ k'.xPendedCounts = k.xPendedTicks
    BY <1>5, <1>6 DEF SamePended
  <2>3. Owed(k') = k.xPendedTicks /\ Owed(k) = k.xPendedTicks
    BY <1>2, <2>2 DEF Owed
  <2> QED BY <2>1, <2>3 DEF SameOwed
<1>8. PICK pc \in {"try", "yield", "expired", "return", "unwind"} : Goto(t, pc)
  BY <1>1, <1>2, ResumedPunctual
<1>9. pc \notin {"app", "test", "place"} /\ task[t].pc # "app"
  BY <1>2
<1> QED BY <1>1, <1>2, <1>7, <1>8, <1>9, GotoPunctual

\* A tick counts an overflow exactly when the count wraps.
Ticks(s, r) ==
  /\ r.xTickCount = AddTicks(s.xTickCount, 1)
  /\ r.xNumOfOverflows = IF r.xTickCount = 0 THEN (s.xNumOfOverflows + 1) % OverflowRange
                         ELSE s.xNumOfOverflows

LEMMA CountedTicks ==
  ASSUME NEW s \in KernelState, NEW c, c = Counted(s)
  PROVE  Ticks(s, c)
<1> DEFINE now == AddTicks(s.xTickCount, 1)
           overflows == (s.xNumOfOverflows + 1) % OverflowRange
           r == [s EXCEPT !.xTickCount = now]
           u == [r EXCEPT !.pxDelayedTaskList = r.pxOverflowDelayedTaskList,
                          !.pxOverflowDelayedTaskList = r.pxDelayedTaskList,
                          !.xNumOfOverflows = overflows]
           v == [u EXCEPT !.xNextTaskUnblockTime = NextUnblockTime(u)]
<1>1. now \in TickType
  <2>1. s.xTickCount \in Int
    BY Fields DEF TickType
  <2> QED BY <2>1, TickTypes
<1>2. overflows \in Nat
  <2>1. s.xNumOfOverflows \in Nat /\ OverflowRange \in Nat /\ OverflowRange > 1
    BY Fields, KernelAssumption
  <2> QED BY <2>1
<1>3. c = IF r.xTickCount = 0 THEN SwitchDelayedLists(r) ELSE r
  BY DEF Counted
<1> HIDE DEF now
<1>4. r \in KernelState /\ r.xTickCount = now /\ r.xNumOfOverflows = s.xNumOfOverflows
  BY <1>1 DEF KernelState
<1>5. SwitchDelayedLists(r) = v
  BY <1>4 DEF SwitchDelayedLists
<1> HIDE DEF r, overflows
<1>6. u \in KernelState /\ u.xTickCount = now /\ u.xNumOfOverflows = overflows
  BY <1>2, <1>4 DEF KernelState
<1> HIDE DEF u
<1>7. v.xTickCount = now /\ v.xNumOfOverflows = overflows
  BY <1>6 DEF KernelState
<1> HIDE DEF v
<1> QED BY <1>3, <1>4, <1>5, <1>7 DEF Ticks, now, overflows

LEMMA IncrementTickCounts ==
  ASSUME NEW s, Good(s)
  PROVE  Ticks(s, IncrementTick(s))
<1> DEFINE c == Counted(s)
           list == Due(c)
           r == UnblockAll(c, list)
           u == [r EXCEPT !.xNextTaskUnblockTime = NextUnblockTime(r)]
<1>1. Good(c) /\ c \in KernelState
  BY CountedGood DEF Good
<1>2. Ticks(s, c)
  BY CountedTicks DEF Good
<1>3. IncrementTick(s) = IF c.xTickCount < c.xNextTaskUnblockTime THEN r ELSE u
  BY DEF IncrementTick
<1> HIDE DEF c
<1>4. list \in TaskLists /\ Members(list) \subseteq Delayed(c)
  BY <1>1, DueItems
<1>5. Members(list) \cap Ready(c) = {}
  BY <1>1, <1>4 DEF Good, StateItems
<1> HIDE DEF list
<1>6. Unblocked(c, r, Members(list))
  BY <1>1, <1>4, <1>5, UnblockAllUnblocks
<1> HIDE DEF r
<1>7. r \in KernelState /\ r.xTickCount = c.xTickCount /\ r.xNumOfOverflows = c.xNumOfOverflows
  BY <1>6 DEF Unblocked, SameTime
<1>8. u.xTickCount = r.xTickCount /\ u.xNumOfOverflows = r.xNumOfOverflows
  BY <1>7 DEF KernelState
<1> HIDE DEF u
<1> QED BY <1>2, <1>3, <1>7, <1>8 DEF Ticks

\* The calls whose time runs have waited for one tick more.
LEMMA TickedPunctual ==
  ASSUME KernelIInv, Timely, Punctual, k.uxSchedulerSuspended = 0, Ticks(k, k'), TickWaited,
         NEW owed \in Nat, \A t \in Tasks : waited[t] + owed <= portMAX_DELAY
  PROVE  /\ waited' \in [Tasks -> Nat]
         /\ \A t \in Tasks : /\ waited'[t] + owed <= portMAX_DELAY + 1
                             /\ Clocked(k', task[t], waited'[t])
<1>1. /\ k.xTickCount \in TickType /\ k.xNumOfOverflows \in Nat /\ portMAX_DELAY \in Nat
      /\ waited \in [Tasks -> Nat] /\ task \in [AllTasks -> TaskState] /\ Tasks \subseteq AllTasks
  BY PunctualTypes
<1>2. waited' = [t \in Tasks |-> IF task[t].xEntryTimeSet /\ task[t].call.ticks # portMAX_DELAY
                                   THEN waited[t] + 1 ELSE waited[t]]
  BY DEF TickWaited
<1>3. waited' \in [Tasks -> Nat]
  BY <1>1, <1>2
<1>4. Control
  BY DEF KernelIInv, Scheduling
<1>5. ASSUME NEW t \in Tasks
      PROVE  waited'[t] + owed <= portMAX_DELAY + 1 /\ Clocked(k', task[t], waited'[t])
  <2> DEFINE r == task[t]
             w == waited[t]
             v == waited'[t]
  <2>1. v = IF r.xEntryTimeSet /\ r.call.ticks # portMAX_DELAY THEN w + 1 ELSE w
    BY <1>2
  <2>2. w \in Nat /\ w + 1 + owed <= portMAX_DELAY + 1 /\ w + 1 <= portMAX_DELAY + 1
    BY <1>1
  <2>3. r \in TaskState /\ r.ticks \in TickType /\ Clocked(k, r, w)
    BY <1>1 DEF Timely, InRange, Punctual
  <2>4. r.pc \notin {"test", "place"}
    BY <1>1, <1>4 DEF Control, HoldingPcs, RunningPcs
  <2> HIDE DEF r, w, v
  <2>5. Clocked(k', r, v)
    BY <1>1, <2>1, <2>2, <2>3, <2>4, ClockedTicks DEF Ticks
  <2>6. v + owed <= portMAX_DELAY + 1
    BY <1>1, <2>1, <2>2
  <2> QED BY <2>5, <2>6 DEF r, v
<1> QED BY <1>3, <1>5

LEMMA SysTickPunctual ==
  ASSUME KernelIInv, Timely, Punctual, xPortSysTickHandler
  PROVE  Punctual'
<1>1. /\ ~Masked /\ task' = task /\ Good(k) /\ k \in KernelState
      /\ \A t \in Tasks : waited[t] + k.xPendedTicks <= portMAX_DELAY
  BY DEF xPortSysTickHandler, KernelIInv, Scheduling, Types, Good
<1>2. k.xPendedCounts = 0 /\ k.xPendedTicks \in Nat /\ waited \in [Tasks -> Nat] /\ portMAX_DELAY \in Nat
  BY <1>1, PunctualTypes DEF Masked, Timely, Unwinding, KernelTime
<1>3. CASE k.uxSchedulerSuspended = 0
  <2> DEFINE i == IncrementTick(k)
  <2>1. k' = i /\ TickWaited
    BY <1>3 DEF xPortSysTickHandler
  <2>2. Ticks(k, k') /\ k'.xPendedCounts = 0 /\ k'.xPendedTicks = k.xPendedTicks
    BY <1>1, <1>2, <2>1, IncrementTickCounts, IncrementTickTicks DEF Ticked, SameControl
  <2>3. Owed(k') = k.xPendedTicks
    BY <2>2 DEF Owed
  <2>4. /\ waited' \in [Tasks -> Nat]
        /\ \A t \in Tasks : /\ waited'[t] + k.xPendedTicks <= portMAX_DELAY + 1
                            /\ Clocked(k', task[t], waited'[t])
    BY <1>1, <1>2, <1>3, <2>1, <2>2, TickedPunctual
  <2> HIDE DEF i
  <2> QED BY <1>1, <2>3, <2>4 DEF Punctual
<1>4. CASE k.uxSchedulerSuspended # 0
  <2> DEFINE ticks == k.xPendedTicks + 1
             counts == k.xPendedCounts
             yield == k.xYieldPending
  <2>1. k' = [k EXCEPT !.xPendedTicks = ticks] /\ waited' = waited
    BY <1>4 DEF xPortSysTickHandler
  <2>2. k' = Pended(k, counts, ticks, yield)
    BY <1>1, <2>1 DEF Pended, KernelState
  <2> HIDE DEF ticks, counts, yield
  <2>3. SameRest(k, k') /\ k'.xPendedCounts = counts /\ k'.xPendedTicks = ticks
    BY <1>1, <2>2, PendedRest
  <2>4. SameClock(k, k')
    BY <2>3 DEF SameRest, SameTime, SameClock
  <2>5. Owed(k') = k.xPendedTicks + 1
    BY <1>2, <2>3 DEF Owed, counts, ticks
  <2>6. ASSUME NEW t \in Tasks
        PROVE  waited'[t] + Owed(k') <= portMAX_DELAY + 1 /\ Clocked(k', task'[t], waited'[t])
    <3>1. Clocked(k, task[t], waited[t])
      BY DEF Punctual
    <3>2. Clocked(k', task[t], waited[t])
      BY <2>4, <3>1, ClockedSame
    <3>3. waited[t] + (k.xPendedTicks + 1) <= portMAX_DELAY + 1
      BY <1>1, <1>2
    <3> QED BY <1>1, <2>1, <2>5, <3>2, <3>3
  <2> QED BY <1>2, <2>1, <2>6 DEF Punctual
<1> QED BY <1>3, <1>4

LEMMA UnwindPunctual ==
  ASSUME KernelIInv, Timely, Punctual, NEW t \in AllTasks, UnwindPendedTick(t)
  PROVE  Punctual'
<1> DEFINE i == IncrementTick(k)
           yield == SwitchRequired(k)
           s == [i EXCEPT !.xYieldPending = yield]
           counts == k.xPendedCounts - 1
           ticks == IF k.xPendedCounts = 1 THEN 0 ELSE k.xPendedTicks
<1>1. /\ At(t, {"unwind"}) /\ k' = [s EXCEPT !.xPendedCounts = @ - 1,
                                            !.xPendedTicks = IF k.xPendedCounts = 1 THEN 0 ELSE @]
      /\ IF k.xPendedCounts = 1 THEN Resumed(t, s) ELSE UNCHANGED task
      /\ TickWaited
  BY DEF UnwindPendedTick
<1>2. /\ task[t].pc = "unwind" /\ k.uxSchedulerSuspended = 0 /\ t \in Tasks
      /\ task[t] \in TaskState /\ Consistent(task[t]) /\ Good(k)
      /\ KernelTime(k) /\ task \in [AllTasks -> TaskState] /\ t = k.pxCurrentTCB
  BY <1>1, Acting, ActingTime DEF HoldingPcs
<1>3. k.xPendedCounts > 0 /\ k.xPendedCounts \in Nat
  BY <1>2 DEF Timely, Unwinding, KernelTime
<1>4. /\ i \in KernelState /\ i.xPendedCounts = k.xPendedCounts /\ i.xPendedTicks = k.xPendedTicks
      /\ Ticks(k, i)
  BY <1>2, IncrementTickTicks, IncrementTickCounts DEF Ticked, SameControl, Good
<1> HIDE DEF i, yield
<1>5. k' = Pended(i, counts, ticks, yield)
  BY <1>1, <1>4 DEF Pended, KernelState
<1>6. counts \in Nat /\ counts = k.xPendedCounts - 1 /\ (counts = 0 => ticks = 0)
  BY <1>3
<1> HIDE DEF counts, ticks
<1>7. SameRest(i, k') /\ k'.xPendedCounts = counts /\ k'.xPendedTicks = ticks
  BY <1>4, <1>5, PendedRest
<1>8. Ticks(k, k')
  BY <1>4, <1>7 DEF Ticks, SameRest, SameTime
<1>9. Owed(k') = counts
  <2>1. Owed(k') = IF counts > 0 THEN counts ELSE ticks
    BY <1>7 DEF Owed
  <2>2. counts > 0 \/ (counts = 0 /\ ~(counts > 0))
    BY <1>3 DEF counts
  <2> QED BY <1>6, <2>1, <2>2
<1>10. ASSUME NEW x \in Tasks
       PROVE  waited[x] + counts <= portMAX_DELAY
  <2>1. waited[x] + k.xPendedCounts <= portMAX_DELAY + 1
    BY <1>3 DEF Punctual, Owed
  <2>2. waited[x] \in Nat /\ portMAX_DELAY \in Nat
    BY PunctualTypes
  <2> QED BY <1>3, <1>6, <2>1, <2>2
<1>11. /\ waited' \in [Tasks -> Nat]
       /\ \A x \in Tasks : /\ waited'[x] + counts <= portMAX_DELAY + 1
                           /\ Clocked(k', task[x], waited'[x])
  BY <1>1, <1>2, <1>6, <1>8, <1>10, TickedPunctual
<1>12. CASE k.xPendedCounts # 1
  <2>1. task' = task
    BY <1>1, <1>12
  <2> QED BY <1>9, <1>11, <2>1 DEF Punctual
<1>13. CASE k.xPendedCounts = 1
  <2> HIDE DEF s
  <2>1. PICK pc \in {"try", "yield", "expired", "return"} : Goto(t, pc)
    BY <1>1, <1>2, <1>13, ResumedPunctual
  <2> DEFINE r == [task[t] EXCEPT !.pc = pc]
  <2>2. task' = [task EXCEPT ![t] = r]
    BY <2>1 DEF Goto
  <2>3. /\ r.call = task[t].call /\ r.ticks = task[t].ticks /\ r.xEntryTimeSet = task[t].xEntryTimeSet
        /\ r.xOverflowCount = task[t].xOverflowCount /\ r.xTimeOnEntering = task[t].xTimeOnEntering
        /\ r.pc = pc /\ r.after = task[t].after
    BY <1>2 DEF TaskState
  <2> HIDE DEF r
  <2>4. ASSUME NEW x \in Tasks
        PROVE  waited'[x] + Owed(k') <= portMAX_DELAY + 1 /\ Clocked(k', task'[x], waited'[x])
    <3>1. x \in AllTasks /\ waited'[x] + Owed(k') <= portMAX_DELAY + 1
      BY <1>9, <1>11, Basics
    <3>2. CASE x # t
      <4>1. task'[x] = task[x]
        BY <1>2, <2>2, <3>1, <3>2
      <4> QED BY <1>11, <3>1, <4>1
    <3>3. CASE x = t
      <4>1. task'[x] = r
        BY <1>2, <2>2, <3>1, <3>3
      <4>2. PICK u, w : u = k' /\ w = waited'[t]
        OBVIOUS
      <4>3. Clocked(u, task[t], w) /\ SameClock(u, u)
        BY <1>2, <1>11, <4>2 DEF SameClock
      <4>4. r.pc # "app" /\ task[t].pc # "app" /\ r.pc \notin {"test", "place"}
        BY <1>2, <2>1, <2>3
      <4>5. Clocked(u, r, w)
        BY <2>3, <4>3, <4>4, ClockedOn
      <4> QED BY <3>1, <3>3, <4>1, <4>2, <4>5
    <3> QED BY <3>2, <3>3
  <2> QED BY <1>11, <2>4 DEF Punctual
<1> QED BY <1>12, <1>13

LEMMA StepPunctual ==
  ASSUME KernelIInv, Timely, Punctual, [Next]_vars
  PROVE  Punctual'
<1>1. ASSUME NEW t \in AllTasks, TaskStep(t)
      PROVE  Punctual'
  <2>1. CASE xQueueGenericSend(t) \/ xQueueReceive(t) \/ vTaskDelay(t)
    BY <2>1, GenericSendPunctual, ReceivePunctual, TaskDelayPunctual
  <2>2. CASE vTaskSuspendAll(t) \/ DelayCurrentTask(t) \/ prvLockQueue(t)
    BY <2>2, SuspendAllPunctual, DelayCurrentTaskPunctual, LockQueuePunctual
  <2>3. CASE xTaskCheckForTimeOut(t) \/ TestQueue(t) \/ vTaskPlaceOnEventList(t)
    BY <2>3, CheckForTimeOutPunctual, TestQueuePunctual, PlacePunctual
  <2>4. CASE prvUnlockQueueTx(t) \/ prvUnlockQueueRx(t)
    BY <2>4, UnlockQueueTxPunctual, UnlockQueueRxPunctual
  <2>5. CASE xTaskResumeAll(t) \/ UnwindPendedTick(t)
    BY <2>5, ResumeAllPunctual, UnwindPunctual
  <2>6. CASE Yield(t) \/ Expired(t) \/ DelayOver(t)
    BY <2>6, YieldPunctual, ExpiredPunctual, DelayOverPunctual
  <2> QED BY <1>1, <2>1, <2>2, <2>3, <2>4, <2>5, <2>6 DEF TaskStep
<1>2. CASE xPortSysTickHandler \/ xPortPendSVHandler
  BY <1>2, SysTickPunctual, PendSVPunctual
<1>3. CASE \E q \in IsrSends : xQueueGenericSendFromISR(q)
  BY <1>3, SendFromISRPunctual
<1>4. CASE \E q \in IsrReceives : xQueueReceiveFromISR(q)
  BY <1>4, ReceiveFromISRPunctual
<1>5. CASE UNCHANGED vars
  <2>1. SameOwed(k, k')
    BY <1>5, SamesOwed DEF vars
  <2> QED BY <1>5, <2>1, PunctualStays DEF vars
<1> QED BY <1>1, <1>2, <1>3, <1>4, <1>5 DEF Next

LEMMA InitPunctual ==
  ASSUME Init
  PROVE  Punctual
<1>1. /\ k.xPendedTicks = 0 /\ k.xPendedCounts = 0 /\ task = [t \in AllTasks |-> AtApp]
      /\ waited = [t \in Tasks |-> 0]
  BY DEF Init
<1>2. Owed(k) = 0 /\ portMAX_DELAY \in Nat
  BY <1>1, KernelAssumption DEF Owed
<1>3. ASSUME NEW t \in Tasks
      PROVE  waited[t] + Owed(k) <= portMAX_DELAY + 1 /\ Clocked(k, task[t], waited[t])
  <2>1. waited[t] = 0 /\ task[t] = AtApp
    BY <1>1, Basics
  <2> QED BY <1>2, <2>1, ClockedAtApp
<1> QED BY <1>1, <1>3 DEF Punctual

\* A call that blocks does so for exactly the time it has left, and it gives up only
\* when it has waited for the time it was given.
THEOREM BlockTimesAreExact == Spec => []BlockTimeExact
<1>1. Init => Timely /\ Punctual
  BY TimeBaseInit, InitPunctual
<1>2. KernelIInv /\ Timely /\ Punctual /\ [Next]_vars => Timely' /\ Punctual'
  BY StepFollows, StepPunctual DEF Follows
<1>3. KernelIInv /\ Timely /\ Punctual => BlockTimeExact
  <2> SUFFICES ASSUME KernelIInv, Timely, Punctual, NEW t \in Tasks,
                      task[t].call.op \in {"send", "receive"}, task[t].call.ticks # portMAX_DELAY
               PROVE  /\ task[t].pc \in {"test", "place"} =>
                           task[t].ticks = task[t].call.ticks - waited[t]
                      /\ task[t].after = "expired" => waited[t] >= task[t].call.ticks
    BY DEF BlockTimeExact
  <2>1. Clocked(k, task[t], waited[t]) /\ InRange(task[t])
    BY PunctualTypes DEF Punctual, Timely
  <2>2. ASSUME task[t].after = "expired"
        PROVE  waited[t] >= task[t].call.ticks
    BY <2>1, <2>2 DEF Clocked, Timed
  <2>3. ASSUME task[t].pc \in {"test", "place"}
        PROVE  task[t].ticks = task[t].call.ticks - waited[t]
    <3>1. Timed(k, task[t], waited[t]) /\ task[t].ticks # 0
      BY <2>1, <2>3 DEF Clocked, InRange
    <3> QED BY <2>3, <3>1 DEF Timed
  <2> QED BY <2>2, <2>3
<1> QED BY <1>1, <1>2, <1>3, KernelInvariant, PTL DEF Spec

-----------------------------------------------------------------------------
(* The numbers of messages and the counts of the locks.                    *)

Bounded(r, q) ==
  /\ r.uxMessagesWaiting \in 0 .. uxLength[q]
  /\ r.cRxLock \in -1 .. MaxLock /\ r.cTxLock \in -1 .. MaxLock
QueuesBounded == \A q \in Queues : Bounded(queue[q], q)

LEMMA OneQueueBounded ==
  ASSUME queue \in [Queues -> QueueState], QueuesBounded, NEW q \in Queues, NEW r, Bounded(r, q),
         queue' = [queue EXCEPT ![q] = r]
  PROVE  QueuesBounded'
BY DEF QueuesBounded

LEMMA MessagesBounded ==
  ASSUME queue \in [Queues -> QueueState], QueuesBounded, NEW q \in Queues, NEW n \in 0 .. uxLength[q],
         queue' = [queue EXCEPT ![q].uxMessagesWaiting = n]
  PROVE  QueuesBounded'
<1> DEFINE r == [queue[q] EXCEPT !.uxMessagesWaiting = n]
<1>1. queue' = [queue EXCEPT ![q] = r]
  OBVIOUS
<1>2. Bounded(queue[q], q) /\ queue[q] \in QueueState
  BY DEF QueuesBounded
<1>3. r.uxMessagesWaiting = n /\ r.cRxLock = queue[q].cRxLock /\ r.cTxLock = queue[q].cTxLock
  BY <1>2 DEF QueueState
<1> HIDE DEF r
<1>4. Bounded(r, q)
  BY <1>2, <1>3 DEF Bounded
<1> QED BY <1>1, <1>4, OneQueueBounded

\* What is counted, of a queue that is locked, goes no further than the bound.
LEMMA LockTypes ==
  /\ MaxLock \in Nat /\ queueUNLOCKED \in -1 .. MaxLock
  /\ \A n \in -1 .. MaxLock : /\ Lock(n) \in -1 .. MaxLock
                              /\ n < MaxLock => CountWhileLocked(n) \in -1 .. MaxLock
                              /\ n > queueLOCKED_UNMODIFIED => n - 1 \in -1 .. MaxLock
BY KernelAssumption DEF Lock, CountWhileLocked, queueUNLOCKED, queueLOCKED_UNMODIFIED

LEMMA CapacityType ==
  /\ \A q \in Queues : uxLength[q] \in Nat
  /\ \A q \in Queues, n \in Int :
       n \in 0 .. uxLength[q] => /\ n < uxLength[q] => n + 1 \in 0 .. uxLength[q]
                                 /\ n > 0 => n - 1 \in 0 .. uxLength[q]
<1>1. \A q \in Queues : uxLength[q] \in Nat
  BY KernelAssumption
<1> QED BY <1>1

LEMMA SendBounded ==
  ASSUME KernelIInv, QueuesBounded, NEW t \in AllTasks,
         xQueueGenericSend(t) \/ xQueueReceive(t)
  PROVE  QueuesBounded'
<1>1. queue \in [Queues -> QueueState]
  BY DEF KernelIInv, Scheduling, Types
<1>2. CASE queue' = queue
  BY <1>2 DEF QueuesBounded
<1>3. CASE xQueueGenericSend(t) /\ queue' # queue
  <2>1. PICK c \in Calls[t] :
          /\ Calling(t, "send", c)
          /\ queue[c.queue].uxMessagesWaiting < uxLength[c.queue]
          /\ queue' = [queue EXCEPT ![c.queue].uxMessagesWaiting = @ + 1]
    BY <1>3 DEF xQueueGenericSend, NotReady
  <2>2. c \in QueueCalls
    BY <2>1, MakesCall
  <2>3. PICK q \in Queues : q = c.queue
    BY <2>2, CallFacts
  <2> DEFINE n == queue[q].uxMessagesWaiting + 1
  <2>4. n \in 0 .. uxLength[q] /\ queue' = [queue EXCEPT ![q].uxMessagesWaiting = n]
    <3>1. Bounded(queue[q], q) /\ queue[q] \in QueueState
      BY <1>1 DEF QueuesBounded
    <3>2. queue[q].uxMessagesWaiting \in Int
      BY <3>1 DEF QueueState
    <3> QED BY <2>1, <2>3, <3>1, <3>2, CapacityType DEF Bounded
  <2> HIDE DEF n
  <2> QED BY <1>1, <2>4, MessagesBounded
<1>4. CASE xQueueReceive(t) /\ queue' # queue
  <2>1. PICK c \in Calls[t] :
          /\ Calling(t, "receive", c)
          /\ queue[c.queue].uxMessagesWaiting > 0
          /\ queue' = [queue EXCEPT ![c.queue].uxMessagesWaiting = @ - 1]
    BY <1>4 DEF xQueueReceive, NotReady
  <2>2. c \in QueueCalls
    BY <2>1, MakesCall
  <2>3. PICK q \in Queues : q = c.queue
    BY <2>2, CallFacts
  <2> DEFINE n == queue[q].uxMessagesWaiting - 1
  <2>4. n \in 0 .. uxLength[q] /\ queue' = [queue EXCEPT ![q].uxMessagesWaiting = n]
    <3>1. Bounded(queue[q], q) /\ queue[q] \in QueueState
      BY <1>1 DEF QueuesBounded
    <3>2. queue[q].uxMessagesWaiting \in Int
      BY <3>1 DEF QueueState
    <3> QED BY <2>1, <2>3, <3>1, <3>2, CapacityType DEF Bounded
  <2> HIDE DEF n
  <2> QED BY <1>1, <2>4, MessagesBounded
<1> QED BY <1>2, <1>3, <1>4

LEMMA LocksBounded ==
  ASSUME KernelIInv, QueuesBounded, NEW t \in AllTasks,
         prvLockQueue(t) \/ prvUnlockQueueTx(t) \/ prvUnlockQueueRx(t)
  PROVE  QueuesBounded'
<1> DEFINE q == task[t].call.queue
           x == queue[q]
<1>1. PICK pcs \in {{"lock"}, {"unlockTx", "wakeTx"}, {"unlockRx", "wakeRx"}} : At(t, pcs)
  BY DEF prvLockQueue, prvUnlockQueueTx, prvUnlockQueueRx
<1>2. q \in Queues
  BY <1>1, Acting, CallFacts DEF Consistent, LockedPcs
<1>3. queue \in [Queues -> QueueState] /\ x \in QueueState /\ Bounded(x, q)
  BY <1>2 DEF KernelIInv, Scheduling, Types, QueuesBounded
<1>4. PICK rx, tx \in -1 .. MaxLock :
        queue' = [queue EXCEPT ![q] = [x EXCEPT !.cRxLock = rx, !.cTxLock = tx]]
  <2>1. x.cRxLock \in -1 .. MaxLock /\ x.cTxLock \in -1 .. MaxLock
    BY <1>3 DEF Bounded
  <2>2. CASE prvLockQueue(t)
    <3>1. queue' = [queue EXCEPT ![q] = [x EXCEPT !.cRxLock = Lock(x.cRxLock), !.cTxLock = Lock(x.cTxLock)]]
      BY <1>2, <1>3, <2>2 DEF prvLockQueue, QueueState
    <3> QED BY <2>1, <3>1, LockTypes
  <2>3. CASE prvUnlockQueueTx(t)
    <3>1. PICK n \in -1 .. MaxLock : queue' = [queue EXCEPT ![q].cTxLock = n]
      BY <2>1, <2>3, LockTypes DEF prvUnlockQueueTx
    <3>2. [x EXCEPT !.cTxLock = n] = [x EXCEPT !.cRxLock = x.cRxLock, !.cTxLock = n]
      BY <1>3 DEF QueueState
    <3> QED BY <2>1, <3>1, <3>2
  <2>4. CASE prvUnlockQueueRx(t)
    <3>1. PICK n \in -1 .. MaxLock : queue' = [queue EXCEPT ![q].cRxLock = n]
      BY <2>1, <2>4, LockTypes DEF prvUnlockQueueRx
    <3>2. [x EXCEPT !.cRxLock = n] = [x EXCEPT !.cRxLock = n, !.cTxLock = x.cTxLock]
      BY <1>3 DEF QueueState
    <3> QED BY <2>1, <3>1, <3>2
  <2> QED BY <2>2, <2>3, <2>4
<1> DEFINE r == [x EXCEPT !.cRxLock = rx, !.cTxLock = tx]
<1>5. r.uxMessagesWaiting = x.uxMessagesWaiting /\ r.cRxLock = rx /\ r.cTxLock = tx
  BY <1>3 DEF QueueState
<1>6. queue' = [queue EXCEPT ![q] = r]
  BY <1>4
<1> HIDE DEF r, q, x
<1>7. Bounded(r, q)
  BY <1>3, <1>5 DEF Bounded
<1> QED BY <1>2, <1>3, <1>6, <1>7, OneQueueBounded

\* An interrupt uses a queue.
LEMMA IsrBounded ==
  ASSUME KernelIInv, QueuesBounded, NEW q \in Queues, NEW lock \in {"cRxLock", "cTxLock"},
         NEW n \in 0 .. uxLength[q], NEW e, EventFromISR(q, lock, e), NEW r,
         queue' = [queue EXCEPT ![q] = r], r.uxMessagesWaiting = n,
         r.cRxLock = IF lock = "cRxLock" THEN CountWhileLocked(queue[q].cRxLock) ELSE queue[q].cRxLock,
         r.cTxLock = IF lock = "cTxLock" THEN CountWhileLocked(queue[q].cTxLock) ELSE queue[q].cTxLock
  PROVE  QueuesBounded'
<1>1. queue \in [Queues -> QueueState] /\ Bounded(queue[q], q) /\ queue[q][lock] < MaxLock
  BY DEF KernelIInv, Scheduling, Types, QueuesBounded, EventFromISR
<1>2. /\ queue[q].cRxLock \in -1 .. MaxLock /\ queue[q].cTxLock \in -1 .. MaxLock
      /\ lock = "cRxLock" => queue[q].cRxLock < MaxLock
      /\ lock = "cTxLock" => queue[q].cTxLock < MaxLock
  BY <1>1 DEF Bounded
<1>3. r.cRxLock \in -1 .. MaxLock /\ r.cTxLock \in -1 .. MaxLock
  BY <1>2, LockTypes
<1>4. Bounded(r, q)
  BY <1>3 DEF Bounded
<1> QED BY <1>1, <1>4, OneQueueBounded

LEMMA SendFromISRBounded ==
  ASSUME KernelIInv, QueuesBounded, NEW q \in IsrSends, xQueueGenericSendFromISR(q)
  PROVE  QueuesBounded'
<1> DEFINE x == queue[q]
           n == x.uxMessagesWaiting + 1
           r == [x EXCEPT !.uxMessagesWaiting = n, !.cTxLock = CountWhileLocked(x.cTxLock)]
<1>1. /\ queue \in [Queues -> QueueState] /\ q \in Queues /\ x \in QueueState /\ Bounded(x, q)
  BY KernelAssumption DEF KernelIInv, Scheduling, Types, QueuesBounded
<1>2. /\ x.uxMessagesWaiting < uxLength[q] /\ EventFromISR(q, "cTxLock", ToReceive(q))
      /\ queue' = [queue EXCEPT ![q] = r]
  BY <1>1 DEF xQueueGenericSendFromISR, QueueState
<1>3. n \in 0 .. uxLength[q]
  BY <1>1, <1>2, CapacityType DEF Bounded, QueueState
<1>4. r.uxMessagesWaiting = n /\ r.cRxLock = x.cRxLock /\ r.cTxLock = CountWhileLocked(x.cTxLock)
  BY <1>1 DEF QueueState
<1> HIDE DEF n, r
<1> QED BY <1>1, <1>2, <1>3, <1>4, IsrBounded

LEMMA ReceiveFromISRBounded ==
  ASSUME KernelIInv, QueuesBounded, NEW q \in IsrReceives, xQueueReceiveFromISR(q)
  PROVE  QueuesBounded'
<1> DEFINE x == queue[q]
           n == x.uxMessagesWaiting - 1
           r == [x EXCEPT !.uxMessagesWaiting = n, !.cRxLock = CountWhileLocked(x.cRxLock)]
<1>1. /\ queue \in [Queues -> QueueState] /\ q \in Queues /\ x \in QueueState /\ Bounded(x, q)
  BY KernelAssumption DEF KernelIInv, Scheduling, Types, QueuesBounded
<1>2. /\ x.uxMessagesWaiting > 0 /\ EventFromISR(q, "cRxLock", ToSend(q))
      /\ queue' = [queue EXCEPT ![q] = r]
  BY <1>1 DEF xQueueReceiveFromISR, QueueState
<1>3. n \in 0 .. uxLength[q]
  BY <1>1, <1>2, CapacityType DEF Bounded, QueueState
<1>4. r.uxMessagesWaiting = n /\ r.cTxLock = x.cTxLock /\ r.cRxLock = CountWhileLocked(x.cRxLock)
  BY <1>1 DEF QueueState
<1> HIDE DEF n, r
<1> QED BY <1>1, <1>2, <1>3, <1>4, IsrBounded

LEMMA StepBounded ==
  ASSUME KernelIInv, QueuesBounded, [Next]_vars
  PROVE  QueuesBounded'
<1>1. CASE queue' = queue
  BY <1>1 DEF QueuesBounded
<1>2. ASSUME NEW t \in AllTasks, TaskStep(t), queue' # queue
      PROVE  QueuesBounded'
  <2>1. \/ xQueueGenericSend(t) \/ xQueueReceive(t) \/ prvLockQueue(t)
        \/ prvUnlockQueueTx(t) \/ prvUnlockQueueRx(t)
    BY <1>2 DEF TaskStep, vTaskDelay, vTaskSuspendAll, DelayCurrentTask, xTaskCheckForTimeOut, TestQueue,
                vTaskPlaceOnEventList, xTaskResumeAll, UnwindPendedTick, Yield, Expired, DelayOver
  <2> QED BY <2>1, SendBounded, LocksBounded
<1>3. CASE xPortSysTickHandler \/ xPortPendSVHandler \/ UNCHANGED vars
  BY <1>1, <1>3 DEF xPortSysTickHandler, xPortPendSVHandler, vars
<1>4. CASE \E q \in IsrSends : xQueueGenericSendFromISR(q)
  BY <1>4, SendFromISRBounded
<1>5. CASE \E q \in IsrReceives : xQueueReceiveFromISR(q)
  BY <1>5, ReceiveFromISRBounded
<1> QED BY <1>1, <1>2, <1>3, <1>4, <1>5 DEF Next

\* The queues never hold more than their capacity, the scheduler is not suspended twice,
\* and no call with a time limit has waited for more than the range of the tick count.
THEOREM TypeCorrect == Spec => []TypeOK
<1>1. Init => Timely /\ Punctual /\ QueuesBounded
  <2>1. ASSUME Init
        PROVE  QueuesBounded
    <3> SUFFICES ASSUME NEW q \in Queues
                 PROVE  Bounded(queue[q], q)
      BY DEF QueuesBounded
    <3>1. queue[q] = [uxMessagesWaiting |-> 0, cRxLock |-> queueUNLOCKED, cTxLock |-> queueUNLOCKED]
      BY <2>1 DEF Init
    <3>2. uxLength[q] \in Nat /\ queueUNLOCKED \in -1 .. MaxLock
      BY CapacityType, LockTypes
    <3> QED BY <3>1, <3>2 DEF Bounded
  <2> QED BY <2>1, TimeBaseInit, InitPunctual
<1>2. KernelIInv /\ Timely /\ Punctual /\ QueuesBounded /\ [Next]_vars
        => Timely' /\ Punctual' /\ QueuesBounded'
  BY StepFollows, StepPunctual, StepBounded DEF Follows
<1>3. KernelIInv /\ Timely /\ Punctual /\ QueuesBounded => TypeOK
  <2> SUFFICES ASSUME KernelIInv, Timely, Punctual, QueuesBounded
               PROVE  TypeOK
    OBVIOUS
  <2>1. /\ k.pxCurrentTCB \in AllTasks /\ k.uxTopReadyPriority \subseteq Priorities
        /\ k.xTickCount \in TickType /\ k.xNextTaskUnblockTime \in TickType
        /\ k.xItemValue \in [Tasks -> TickType] /\ k.xYieldPending \in BOOLEAN
    <3>1. k \in KernelState
      BY SchedulingFacts DEF KernelIInv
    <3> QED BY <3>1, Fields
  <2>2. k.uxSchedulerSuspended \in {0, 1} /\ pendSV \in BOOLEAN
    BY DEF KernelIInv, Scheduling, Control, Types
  <2>3. waited \in [Tasks -> 0 .. portMAX_DELAY + 1]
    <3>1. waited \in [Tasks -> Nat] /\ Owed(k) \in Int /\ portMAX_DELAY \in Nat
      BY PunctualTypes
    <3>2. Owed(k) >= 0
      BY DEF Timely, KernelTime, Owed
    <3>3. ASSUME NEW t \in Tasks
          PROVE  waited[t] \in 0 .. portMAX_DELAY + 1
      <4>1. waited[t] + Owed(k) <= portMAX_DELAY + 1
        BY DEF Punctual
      <4> QED BY <3>1, <3>2, <4>1
    <3> QED BY <3>1, <3>3
  <2> QED BY <2>1, <2>2, <2>3 DEF TypeOK, QueuesBounded, Bounded
<1> QED BY <1>1, <1>2, <1>3, KernelInvariant, PTL DEF Spec
=============================================================================
