------------------------- MODULE DelayedTasks_proof -------------------------
(***************************************************************************)
(* Theorems about the time base of the kernel, for any set of tasks, any   *)
(* width of TickType_t and any number of nested suspensions and pended     *)
(* ticks.                                                                  *)
(***************************************************************************)
EXTENDS DelayedTasks, KernelLists_proof

-----------------------------------------------------------------------------
\* The head of a nonempty list is a member with the least wake time.
LEMMA HeadEntryIsLeast ==
  ASSUME xItemValue \in [Tasks -> TickType],
         NEW list \in SUBSET Tasks, list # {}
  PROVE  /\ HeadEntry(list) \in list
         /\ \A u \in list : xItemValue[HeadEntry(list)] <= xItemValue[u]
<1> DEFINE values == {xItemValue[t] : t \in list}
<1>1. values \in SUBSET Nat /\ values # {}
  BY MaxDelayAssumption DEF TickType
<1>2. PICK least \in values : \A v \in values : least <= v
  BY <1>1, LeastNatural
<1>3. \E t \in list : \A u \in list : xItemValue[t] <= xItemValue[u]
  BY <1>2
<1> QED
  BY <1>3 DEF HeadEntry

\* What prvResetNextTaskUnblockTime computes: a tick no later than the wake
\* time of any task on the list.
LEMMA NextUnblockTimeIsBound ==
  ASSUME xItemValue \in [Tasks -> TickType],
         NEW list \in SUBSET Tasks
  PROVE  /\ NextUnblockTime(list) \in TickType
         /\ \A u \in list : NextUnblockTime(list) <= xItemValue[u]
<1>1. CASE list = {}
  BY <1>1, MaxDelayAssumption DEF NextUnblockTime, TickType
<1>2. CASE list # {}
  BY <1>2, HeadEntryIsLeast DEF NextUnblockTime
<1> QED
  BY <1>1, <1>2

\* TickType_t is closed under its addition, and one of the two cases of the
\* addition applies.
LEMMA AddTicksType ==
  ASSUME NEW a \in TickType, NEW b \in TickType
  PROVE  /\ AddTicks(a, b) \in TickType
         /\ \/ a + b <= portMAX_DELAY /\ AddTicks(a, b) = a + b
            \/ a + b > portMAX_DELAY /\ AddTicks(a, b) = a + b - (portMAX_DELAY + 1)
BY MaxDelayAssumption DEF AddTicks, TickType

-----------------------------------------------------------------------------
\* The pended ticks are unwound after the scheduler has been resumed.
UnwindsResumed == xPendedCounts > 0 => uxSchedulerSuspended = 0

\* The inductive invariant: the safety invariants, and where ticks unwind.
IInv ==
  /\ TypeOK
  /\ WakeTimes
  /\ UnblockTimeIsEarly
  /\ OneStateList
  /\ NoLostTask
  /\ EventItems
  /\ UnwindsResumed

THEOREM InitIInv == Init => IInv
BY MaxDelayAssumption
   DEF Init, IInv, TypeOK, WakeTimes, UnblockTimeIsEarly, OneStateList, NoLostTask,
       EventItems, UnwindsResumed, Blocked, Timed, TickType

\* When the count is about to wrap no task is left on the current list.
LEMMA DelayedEmptyAtMax ==
  ASSUME TypeOK, WakeTimes
  PROVE  DelayedListEmptyAtWrap
<1> SUFFICES ASSUME xTickCount = portMAX_DELAY,
                    NEW t \in pxDelayedTaskList
             PROVE  FALSE
  BY DEF DelayedListEmptyAtWrap
<1>1. xItemValue[t] \in TickType /\ left[t] \in TickType
  BY DEF TypeOK
<1>2. left[t] > 0 /\ xItemValue[t] = xTickCount + left[t]
  BY DEF WakeTimes
<1> QED
  BY <1>1, <1>2, MaxDelayAssumption DEF TickType

-----------------------------------------------------------------------------
(* One tick.  The names of the definition's LET are repeated so that the    *)
(* steps can speak of them.                                                 *)

now == AddTicks(xTickCount, 1)
wraps == now = 0
currentList == IF wraps THEN pxOverflowDelayedTaskList ELSE pxDelayedTaskList
nextUnblock == IF wraps THEN NextUnblockTime(currentList) ELSE xNextTaskUnblockTime
expired ==
  IF now >= nextUnblock THEN DueTasks(currentList, now) ELSE {}

\* The tasks of the list that is current after the tick have left - 1 ticks to
\* go, and the walk removes those for which this is none.
LEMMA TickExpires ==
  ASSUME IInv
  PROVE  /\ now \in TickType
         /\ wraps => xTickCount = portMAX_DELAY
         /\ ~wraps => now = xTickCount + 1
         /\ currentList \in SUBSET Tasks
         /\ nextUnblock \in TickType
         /\ \A t \in currentList : /\ left[t] > 0
                                   /\ xItemValue[t] = now + left[t] - 1
                                   /\ t \in expired <=> left[t] = 1
         /\ wraps => pxDelayedTaskList = {}
         /\ ~wraps => \A t \in pxOverflowDelayedTaskList : left[t] > 1
         /\ expired \subseteq currentList
<1>1. 1 \in TickType /\ xTickCount \in TickType
  BY MaxDelayAssumption DEF IInv, TypeOK, TickType
<1>2. /\ now \in TickType
      /\ \/ xTickCount + 1 <= portMAX_DELAY /\ now = xTickCount + 1
         \/ xTickCount + 1 > portMAX_DELAY /\ now = xTickCount + 1 - (portMAX_DELAY + 1)
  BY <1>1, AddTicksType DEF now
<1>3. wraps => xTickCount = portMAX_DELAY
  BY <1>1, <1>2, MaxDelayAssumption DEF wraps, TickType
<1>4. ~wraps => now = xTickCount + 1
  BY <1>1, <1>2, MaxDelayAssumption DEF wraps, TickType
<1>5. currentList \in SUBSET Tasks
  BY DEF currentList, IInv, TypeOK
<1>6. wraps => pxDelayedTaskList = {}
  BY <1>3, DelayedEmptyAtMax DEF IInv, DelayedListEmptyAtWrap
<1>7. \A t \in currentList : xItemValue[t] \in TickType /\ left[t] \in TickType
  BY <1>5 DEF IInv, TypeOK
<1>8. ASSUME NEW t \in currentList
      PROVE  left[t] > 0 /\ xItemValue[t] = now + left[t] - 1
  <2>1. CASE wraps
    <3>1. left[t] > 0 /\ xItemValue[t] + portMAX_DELAY + 1 = xTickCount + left[t]
      BY <2>1 DEF currentList, IInv, WakeTimes
    <3>2. xTickCount = portMAX_DELAY /\ now = 0
      BY <2>1, <1>3 DEF wraps
    <3> QED
      BY <3>1, <3>2, <1>7, MaxDelayAssumption DEF TickType
  <2>2. CASE ~wraps
    <3>1. left[t] > 0 /\ xItemValue[t] = xTickCount + left[t]
      BY <2>2 DEF currentList, IInv, WakeTimes
    <3> QED
      BY <3>1, <2>2, <1>1, <1>4, <1>7, MaxDelayAssumption DEF TickType
  <2> QED
    BY <2>1, <2>2
<1>9. nextUnblock \in TickType /\ \A t \in currentList : nextUnblock <= xItemValue[t]
  <2>1. CASE wraps
    BY <2>1, <1>5, NextUnblockTimeIsBound DEF nextUnblock, IInv, TypeOK
  <2>2. CASE ~wraps
    BY <2>2 DEF nextUnblock, currentList, IInv, TypeOK, UnblockTimeIsEarly
  <2> QED
    BY <2>1, <2>2
<1>10. ASSUME NEW t \in currentList
       PROVE  t \in expired <=> left[t] = 1
  <2>1. /\ xItemValue[t] \in TickType /\ left[t] \in TickType
        /\ left[t] > 0 /\ xItemValue[t] = now + left[t] - 1
        /\ nextUnblock \in TickType /\ nextUnblock <= xItemValue[t]
    BY <1>7, <1>8, <1>9
  <2>2. xItemValue[t] <= now <=> left[t] = 1
    BY <2>1, <1>2, MaxDelayAssumption DEF TickType
  <2>3. xItemValue[t] <= now => now >= nextUnblock
    BY <2>1, <1>2, MaxDelayAssumption DEF TickType
  <2> QED
    BY <2>2, <2>3 DEF expired, DueTasks
<1>11. ASSUME ~wraps, NEW t \in pxOverflowDelayedTaskList
       PROVE  left[t] > 1
  <2>1. left[t] > 0 /\ xItemValue[t] + portMAX_DELAY + 1 = xTickCount + left[t]
    BY DEF IInv, WakeTimes
  <2>2. xItemValue[t] \in TickType /\ left[t] \in TickType
    BY DEF IInv, TypeOK
  <2>3. xTickCount + 1 <= portMAX_DELAY
    BY <1>1, <1>2, <1>11, MaxDelayAssumption DEF wraps, TickType
  <2> QED
    BY <2>1, <2>2, <2>3, <1>1, MaxDelayAssumption DEF TickType
<1>12. expired \subseteq currentList
  BY DEF expired, DueTasks
<1> QED
  BY <1>2, <1>3, <1>4, <1>5, <1>6, <1>8, <1>9, <1>10, <1>11, <1>12

\* IncrementTick in terms of these names.
LEMMA IncrementTickEffect ==
  ASSUME IncrementTick
  PROVE  /\ xTickCount' = now
         /\ pxDelayedTaskList' = currentList \ expired
         /\ pxOverflowDelayedTaskList' =
              IF wraps THEN pxDelayedTaskList ELSE pxOverflowDelayedTaskList
         /\ xNextTaskUnblockTime' =
              IF now >= nextUnblock THEN NextUnblockTime(currentList \ expired)
                                    ELSE nextUnblock
         /\ waiting' = waiting \ expired
         /\ left' = [t \in Tasks |->
                       IF t \in Timed /\ left[t] > 0 THEN left[t] - 1 ELSE left[t]]
         /\ xItemValue' = xItemValue
         /\ xSuspendedTaskList' = xSuspendedTaskList
         /\ xPendingReadyList' = xPendingReadyList
BY DEF IncrementTick, now, wraps, currentList, nextUnblock, expired,
       OverflowListAfter, WaitingAfterTick

\* A tick processed while the scheduler is running preserves the invariant.
LEMMA IncrementTickIInv ==
  ASSUME IInv, IncrementTick, uxSchedulerSuspended = 0,
         uxSchedulerSuspended' = 0, xPendedCounts' \in Nat, xPendedTicks' \in Nat,
         pxCurrentTCB' = pxCurrentTCB, realTicks' \in TickType
  PROVE  IInv'
<1> USE IncrementTickEffect, TickExpires
<1>1. /\ pxDelayedTaskList \subseteq Tasks
      /\ pxOverflowDelayedTaskList \subseteq Tasks
      /\ \A t \in Tasks : left[t] \in TickType /\ xItemValue[t] \in TickType
      /\ \A t \in Timed : left[t] > 0
  BY DEF IInv, TypeOK, WakeTimes, Timed
<1>2. \A t \in Tasks : left'[t] \in TickType
  <2> TAKE t \in Tasks
  <2>1. CASE t \in Timed
    <3>1. left'[t] = left[t] - 1 /\ left[t] > 0 /\ left[t] \in TickType
      BY <2>1, <1>1
    <3> QED
      BY <3>1, MaxDelayAssumption DEF TickType
  <2>2. CASE t \notin Timed
    BY <2>2, <1>1
  <2> QED
    BY <2>1, <2>2
<1>3. xNextTaskUnblockTime' \in TickType
  BY <1>1, NextUnblockTimeIsBound DEF IInv, TypeOK
<1>4. TypeOK'
  <2>1. left' \in [Tasks -> TickType]
    BY <1>2
  <2>2. /\ pxDelayedTaskList' \subseteq Tasks
        /\ pxOverflowDelayedTaskList' \subseteq Tasks
    BY <1>1
  <2> QED
    BY <1>3, <2>1, <2>2 DEF IInv, TypeOK, TickType
<1>5. WakeTimes'
  <2>1. ASSUME NEW t \in pxDelayedTaskList'
        PROVE  left'[t] > 0 /\ xItemValue'[t] = xTickCount' + left'[t]
    <3>1. t \in currentList /\ t \notin expired /\ t \in Tasks
      BY <2>1
    <3>2. left[t] > 0 /\ xItemValue[t] = now + left[t] - 1 /\ left[t] # 1
      BY <3>1
    <3>3. left'[t] = left[t] - 1 /\ left[t] \in TickType /\ now \in TickType
      BY <3>1, <3>2, <1>1 DEF currentList, Timed
    <3>4. xItemValue'[t] = xItemValue[t] /\ xTickCount' = now
      OBVIOUS
    <3> HIDE IncrementTickEffect, TickExpires
    <3> QED
      BY <3>2, <3>3, <3>4, MaxDelayAssumption DEF TickType
  <2>2. ASSUME NEW t \in pxOverflowDelayedTaskList'
        PROVE  left'[t] > 0 /\ xItemValue'[t] + portMAX_DELAY + 1 = xTickCount' + left'[t]
    <3>1. ~wraps /\ t \in pxOverflowDelayedTaskList /\ t \in Tasks
      BY <2>2, <1>1
    <3>2. left[t] > 1 /\ xItemValue[t] + portMAX_DELAY + 1 = xTickCount + left[t]
      BY <3>1 DEF IInv, WakeTimes
    <3>3. /\ left'[t] = left[t] - 1 /\ left[t] \in TickType /\ xTickCount \in TickType
          /\ xItemValue[t] \in TickType
      <4>1. t \in Timed
        BY <3>1 DEF Timed
      <4>2. left[t] \in TickType /\ left[t] > 0
        BY <4>1, <3>1, <1>1
      <4> QED
        BY <4>1, <4>2, <3>1, <1>1 DEF IInv, TypeOK
    <3>4. xItemValue'[t] = xItemValue[t] /\ xTickCount' = xTickCount + 1
      BY <3>1
    <3> HIDE IncrementTickEffect, TickExpires
    <3> QED
      BY <3>2, <3>3, <3>4, MaxDelayAssumption DEF TickType
  <2> QED
    BY <2>1, <2>2 DEF WakeTimes
<1>6. UnblockTimeIsEarly'
  <2> SUFFICES ASSUME NEW t \in pxDelayedTaskList'
               PROVE  xNextTaskUnblockTime' <= xItemValue'[t]
    BY DEF UnblockTimeIsEarly
  <2>1. t \in currentList \ expired /\ t \in Tasks /\ xItemValue'[t] = xItemValue[t]
    OBVIOUS
  <2>2. CASE now >= nextUnblock
    <3>1. currentList \ expired \in SUBSET Tasks
      OBVIOUS
    <3>2. NextUnblockTime(currentList \ expired) <= xItemValue[t]
      BY <2>1, <3>1, NextUnblockTimeIsBound DEF IInv, TypeOK
    <3> QED
      BY <2>1, <2>2, <3>2
  <2>3. CASE ~(now >= nextUnblock)
    <3>1. xNextTaskUnblockTime' = nextUnblock
      BY <2>3
    <3>2. nextUnblock <= xItemValue[t]
      <4>1. CASE wraps
        BY <4>1, <2>1, NextUnblockTimeIsBound DEF IInv, TypeOK, nextUnblock
      <4>2. CASE ~wraps
        BY <4>2, <2>1 DEF IInv, UnblockTimeIsEarly, nextUnblock, currentList
      <4> QED
        BY <4>1, <4>2
    <3> QED
      BY <2>1, <3>1, <3>2
  <2> QED
    BY <2>2, <2>3
<1>7. OneStateList'
  <2>1. CASE wraps
    BY <2>1 DEF IInv, OneStateList, currentList
  <2>2. CASE ~wraps
    BY <2>2 DEF IInv, OneStateList, currentList
  <2> QED
    BY <2>1, <2>2
<1>8. xPendingReadyList = {}
  BY DEF IInv, NoLostTask
<1>9. expired \cap xSuspendedTaskList = {}
  BY DEF IInv, OneStateList, currentList
<1>10. NoLostTask'
  BY <1>8, <1>9 DEF IInv, NoLostTask
<1>11. EventItems'
  <2>1. waiting' \subseteq Blocked'
    <3> SUFFICES ASSUME NEW t \in waiting', t \notin xSuspendedTaskList
                 PROVE  t \in pxDelayedTaskList' \cup pxOverflowDelayedTaskList'
      BY DEF Blocked, Timed
    <3>1. t \notin expired /\ t \in pxDelayedTaskList \cup pxOverflowDelayedTaskList
      BY DEF IInv, EventItems, Blocked, Timed
    <3>2. CASE wraps
      BY <3>1, <3>2 DEF currentList
    <3>3. CASE ~wraps
      BY <3>1, <3>3 DEF currentList
    <3> QED
      BY <3>2, <3>3
  <2> QED
    BY <1>8, <2>1 DEF EventItems
<1>12. UnwindsResumed'
  BY DEF UnwindsResumed
<1> QED
  BY <1>4, <1>5, <1>6, <1>7, <1>10, <1>11, <1>12 DEF IInv

-----------------------------------------------------------------------------
\* A task that blocks is put on the list on which its wake time can be found.
LEMMA BlockIInv ==
  ASSUME IInv, NEW xTicksToWait \in 1 .. portMAX_DELAY, NEW onEvent \in BOOLEAN,
         prvAddCurrentTaskToDelayedList(xTicksToWait, onEvent)
  PROVE  IInv'
<1> DEFINE xTimeToWake == AddTicks(xTickCount, xTicksToWait)
<1>1. /\ xPendedCounts = 0 /\ uxSchedulerSuspended > 0
      /\ pxCurrentTCB \in Tasks /\ pxCurrentTCB \notin Blocked
      /\ waiting' = IF onEvent THEN waiting \cup {pxCurrentTCB} ELSE waiting
      /\ UNCHANGED <<xTickCount, xPendingReadyList, schedVars, pxCurrentTCB, realTicks>>
  BY DEF prvAddCurrentTaskToDelayedList, Ready, timeVars
<1>2. xTicksToWait \in TickType /\ xTickCount \in TickType
  BY MaxDelayAssumption DEF IInv, TypeOK, TickType
<1>3. /\ xTimeToWake \in TickType
      /\ \/ xTickCount + xTicksToWait <= portMAX_DELAY /\ xTimeToWake = xTickCount + xTicksToWait
         \/ /\ xTickCount + xTicksToWait > portMAX_DELAY
            /\ xTimeToWake = xTickCount + xTicksToWait - (portMAX_DELAY + 1)
  BY <1>2, AddTicksType
<1> HIDE DEF xTimeToWake
<1>4. pxCurrentTCB \notin waiting \cup xPendingReadyList
  BY <1>1 DEF IInv, EventItems
<1>5. CASE xTicksToWait = portMAX_DELAY /\ onEvent
  <2>1. /\ xSuspendedTaskList' = xSuspendedTaskList \cup {pxCurrentTCB}
        /\ waiting' = waiting \cup {pxCurrentTCB}
        /\ UNCHANGED <<timeVars, pxDelayedTaskList, pxOverflowDelayedTaskList>>
    BY <1>5 DEF prvAddCurrentTaskToDelayedList
  <2> QED
    BY <2>1, <1>1, <1>4
       DEF IInv, TypeOK, WakeTimes, UnblockTimeIsEarly, OneStateList, NoLostTask,
           EventItems, UnwindsResumed, Blocked, Timed, timeVars, schedVars
<1>6. CASE ~(xTicksToWait = portMAX_DELAY /\ onEvent)
  <2>1. /\ xItemValue' = [xItemValue EXCEPT ![pxCurrentTCB] = xTimeToWake]
        /\ left' = [left EXCEPT ![pxCurrentTCB] = xTicksToWait]
        /\ UNCHANGED <<xTickCount, xSuspendedTaskList>>
    BY <1>6 DEF prvAddCurrentTaskToDelayedList, xTimeToWake
  <2>2. xItemValue' \in [Tasks -> TickType] /\ left' \in [Tasks -> TickType]
    BY <2>1, <1>2, <1>3 DEF IInv, TypeOK
  <2>3. /\ xItemValue'[pxCurrentTCB] = xTimeToWake /\ left'[pxCurrentTCB] = xTicksToWait
        /\ \A t \in Tasks \ {pxCurrentTCB} :
             xItemValue'[t] = xItemValue[t] /\ left'[t] = left[t]
    BY <2>1, <1>1 DEF IInv, TypeOK
  <2>4. xTicksToWait \in Nat /\ xTicksToWait > 0 /\ xTicksToWait <= portMAX_DELAY
    BY MaxDelayAssumption
  <2>5. CASE xTimeToWake < xTickCount
    <3>1. /\ pxOverflowDelayedTaskList' = pxOverflowDelayedTaskList \cup {pxCurrentTCB}
          /\ UNCHANGED <<pxDelayedTaskList, xNextTaskUnblockTime>>
      BY <1>6, <2>5 DEF prvAddCurrentTaskToDelayedList, WakesAfterWrap, xTimeToWake
    <3>2. xTimeToWake + portMAX_DELAY + 1 = xTickCount + xTicksToWait
      BY <1>2, <1>3, <2>4, <2>5, MaxDelayAssumption DEF TickType
    <3>3. WakeTimes'
      BY <1>1, <2>1, <2>3, <2>4, <3>1, <3>2 DEF IInv, TypeOK, WakeTimes, Blocked, Timed
    <3>4. UnblockTimeIsEarly'
      BY <1>1, <2>3, <3>1 DEF IInv, TypeOK, UnblockTimeIsEarly, Blocked, Timed
    <3> QED
      BY <1>1, <1>4, <2>1, <2>2, <3>1, <3>3, <3>4
         DEF IInv, TypeOK, OneStateList, NoLostTask, EventItems, UnwindsResumed,
             Blocked, Timed, schedVars
  <2>6. CASE ~(xTimeToWake < xTickCount)
    <3>1. /\ pxDelayedTaskList' = pxDelayedTaskList \cup {pxCurrentTCB}
          /\ xNextTaskUnblockTime' = IF xTimeToWake < xNextTaskUnblockTime
                                       THEN xTimeToWake ELSE xNextTaskUnblockTime
          /\ UNCHANGED pxOverflowDelayedTaskList
      BY <1>6, <2>6 DEF prvAddCurrentTaskToDelayedList, WakesAfterWrap, xTimeToWake
    <3>2. xTimeToWake = xTickCount + xTicksToWait
      BY <1>2, <1>3, <2>4, <2>6, MaxDelayAssumption DEF TickType
    <3>3. WakeTimes'
      BY <1>1, <2>1, <2>3, <2>4, <3>1, <3>2 DEF IInv, TypeOK, WakeTimes, Blocked, Timed
    <3>4. xNextTaskUnblockTime \in TickType /\ xNextTaskUnblockTime' \in TickType
      BY <1>3, <3>1 DEF IInv, TypeOK
    <3>5. UnblockTimeIsEarly'
      <4> SUFFICES ASSUME NEW t \in pxDelayedTaskList'
                   PROVE  xNextTaskUnblockTime' <= xItemValue'[t]
        BY DEF UnblockTimeIsEarly
      <4>1. CASE t = pxCurrentTCB
        BY <4>1, <1>3, <2>3, <3>1, <3>4, MaxDelayAssumption DEF TickType
      <4>2. CASE t # pxCurrentTCB
        <5>1. t \in pxDelayedTaskList /\ t \in Tasks /\ xItemValue[t] \in TickType
          BY <4>2, <3>1 DEF IInv, TypeOK
        <5>2. xNextTaskUnblockTime <= xItemValue[t] /\ xItemValue'[t] = xItemValue[t]
          BY <5>1, <4>2, <2>3 DEF IInv, UnblockTimeIsEarly
        <5> QED
          BY <5>1, <5>2, <1>3, <3>1, <3>4, MaxDelayAssumption DEF TickType
      <4> QED
        BY <4>1, <4>2
    <3> QED
      BY <1>1, <1>4, <2>1, <2>2, <3>1, <3>3, <3>4, <3>5
         DEF IInv, TypeOK, OneStateList, NoLostTask, EventItems, UnwindsResumed,
             Blocked, Timed, schedVars
  <2> QED
    BY <2>5, <2>6
<1> QED
  BY <1>5, <1>6

\* An event readies its task, or leaves it pending.
LEMMA EventIInv ==
  ASSUME IInv, NEW t \in Tasks, xTaskRemoveFromEventList(t)
  PROVE  IInv'
<1>1. /\ t \in waiting /\ waiting' = waiting \ {t}
      /\ UNCHANGED <<xTickCount, xNextTaskUnblockTime, xItemValue, schedVars,
                     pxCurrentTCB, realTicks>>
  BY DEF xTaskRemoveFromEventList
<1>2. CASE uxSchedulerSuspended = 0
  <2>1. /\ pxDelayedTaskList' = pxDelayedTaskList \ {t}
        /\ pxOverflowDelayedTaskList' = pxOverflowDelayedTaskList \ {t}
        /\ xSuspendedTaskList' = xSuspendedTaskList \ {t}
        /\ left' = [left EXCEPT ![t] = 0]
        /\ UNCHANGED xPendingReadyList
    BY <1>2 DEF xTaskRemoveFromEventList
  <2>2. left' \in [Tasks -> TickType]
    BY <2>1, MaxDelayAssumption DEF IInv, TypeOK, TickType
  <2>3. WakeTimes'
    BY <1>1, <2>1 DEF IInv, TypeOK, WakeTimes
  <2>4. xPendingReadyList = {}
    BY <1>2 DEF IInv, NoLostTask
  <2> QED
    BY <1>1, <2>1, <2>2, <2>3, <2>4
       DEF IInv, TypeOK, UnblockTimeIsEarly, OneStateList, NoLostTask, EventItems,
           UnwindsResumed, Blocked, Timed, schedVars
<1>3. CASE uxSchedulerSuspended # 0
  <2>1. /\ xPendingReadyList' = xPendingReadyList \cup {t}
        /\ UNCHANGED <<listVars, left>>
    BY <1>3 DEF xTaskRemoveFromEventList, PendingAfterEvent
  <2>2. uxSchedulerSuspended > 0
    BY <1>3 DEF IInv, TypeOK
  <2> QED
    BY <1>1, <2>1, <2>2
       DEF IInv, TypeOK, WakeTimes, UnblockTimeIsEarly, OneStateList, NoLostTask,
           EventItems, UnwindsResumed, Blocked, Timed, schedVars, listVars
<1> QED
  BY <1>2, <1>3

\* Resuming the scheduler readies the pending tasks and no other task.
LEMMA ResumeIInv ==
  ASSUME IInv, xTaskResumeAll
  PROVE  IInv'
<1>1. /\ xPendedCounts = 0 /\ uxSchedulerSuspended > 0
      /\ uxSchedulerSuspended' = uxSchedulerSuspended - 1
      /\ UNCHANGED <<xTickCount, xItemValue, waiting, xPendedTicks, pxCurrentTCB, realTicks>>
  BY DEF xTaskResumeAll
<1>2. uxSchedulerSuspended' \in Nat
  BY <1>1 DEF IInv, TypeOK
<1>3. CASE uxSchedulerSuspended = 1
  <2>1. /\ pxDelayedTaskList' = pxDelayedTaskList \ xPendingReadyList
        /\ pxOverflowDelayedTaskList' = pxOverflowDelayedTaskList \ xPendingReadyList
        /\ xSuspendedTaskList' = xSuspendedTaskList \ xPendingReadyList
        /\ xNextTaskUnblockTime' =
             IF xPendingReadyList # {}
               THEN NextUnblockTime(pxDelayedTaskList \ xPendingReadyList)
               ELSE xNextTaskUnblockTime
        /\ left' = [t \in Tasks |-> IF t \in xPendingReadyList THEN 0 ELSE left[t]]
        /\ xPendingReadyList' = {}
        /\ xPendedCounts' = xPendedTicks
    BY <1>3 DEF xTaskResumeAll
  <2>2. left' \in [Tasks -> TickType]
    BY <2>1, MaxDelayAssumption DEF IInv, TypeOK, TickType
  <2>3. pxDelayedTaskList \ xPendingReadyList \in SUBSET Tasks
    BY DEF IInv, TypeOK
  <2>4. /\ NextUnblockTime(pxDelayedTaskList \ xPendingReadyList) \in TickType
        /\ \A t \in pxDelayedTaskList \ xPendingReadyList :
             NextUnblockTime(pxDelayedTaskList \ xPendingReadyList) <= xItemValue[t]
    BY <2>3, NextUnblockTimeIsBound DEF IInv, TypeOK
  <2>5. TypeOK'
    BY <1>1, <1>2, <2>1, <2>2, <2>4 DEF IInv, TypeOK
  <2>6. WakeTimes'
    BY <1>1, <2>1 DEF IInv, TypeOK, WakeTimes
  <2>7. UnblockTimeIsEarly'
    BY <1>1, <2>1, <2>4 DEF IInv, UnblockTimeIsEarly
  <2>8. OneStateList' /\ NoLostTask' /\ EventItems'
    BY <1>1, <2>1 DEF IInv, OneStateList, NoLostTask, EventItems, Blocked, Timed
  <2>9. UnwindsResumed'
    BY <1>1, <1>3 DEF UnwindsResumed
  <2> QED
    BY <2>5, <2>6, <2>7, <2>8, <2>9 DEF IInv
<1>4. CASE uxSchedulerSuspended # 1
  <2>1. UNCHANGED <<listVars, xNextTaskUnblockTime, left, xPendingReadyList, xPendedCounts>>
    BY <1>4 DEF xTaskResumeAll
  <2>2. uxSchedulerSuspended' > 0
    BY <1>1, <1>4 DEF IInv, TypeOK
  <2> QED
    BY <1>1, <1>2, <2>1, <2>2
       DEF IInv, TypeOK, WakeTimes, UnblockTimeIsEarly, OneStateList, NoLostTask,
           EventItems, UnwindsResumed, Blocked, Timed, listVars
<1> QED
  BY <1>3, <1>4

\* A tick interrupt, whether processed or pended, preserves the invariant.
LEMMA TickInterruptIInv ==
  ASSUME IInv, xTaskIncrementTick
  PROVE  IInv'
<1>1. /\ xPendedCounts = 0
      /\ realTicks' = AddTicks(realTicks, 1)
      /\ UNCHANGED <<uxSchedulerSuspended, xPendedCounts, pxCurrentTCB>>
  BY DEF xTaskIncrementTick
<1>2. realTicks' \in TickType
  <2>1. realTicks \in TickType /\ 1 \in TickType
    BY MaxDelayAssumption DEF IInv, TypeOK, TickType
  <2> QED
    BY <1>1, <2>1, AddTicksType
<1>3. CASE uxSchedulerSuspended = 0
  <2>1. IncrementTick /\ UNCHANGED xPendedTicks
    BY <1>3 DEF xTaskIncrementTick
  <2>2. xPendedCounts' \in Nat /\ xPendedTicks' \in Nat
    BY <1>1, <2>1 DEF IInv, TypeOK
  <2> QED
    BY <1>1, <1>2, <1>3, <2>1, <2>2, IncrementTickIInv
<1>4. CASE uxSchedulerSuspended # 0
  <2>1. /\ xPendedTicks' = xPendedTicks + 1
        /\ UNCHANGED <<timeVars, listVars, xPendingReadyList, waiting>>
    BY <1>4 DEF xTaskIncrementTick
  <2> QED
    BY <1>1, <1>2, <2>1
       DEF IInv, TypeOK, WakeTimes, UnblockTimeIsEarly, OneStateList, NoLostTask,
           EventItems, UnwindsResumed, Blocked, Timed, timeVars, listVars
<1> QED
  BY <1>3, <1>4

LEMMA UnwindIInv ==
  ASSUME IInv, UnwindPendedTick
  PROVE  IInv'
<1>1. /\ xPendedCounts > 0 /\ IncrementTick
      /\ xPendedCounts' = xPendedCounts - 1
      /\ xPendedTicks' = IF xPendedCounts = 1 THEN 0 ELSE xPendedTicks
      /\ UNCHANGED <<uxSchedulerSuspended, pxCurrentTCB, realTicks>>
  BY DEF UnwindPendedTick
<1>2. /\ xPendedCounts' \in Nat /\ xPendedTicks' \in Nat /\ realTicks' \in TickType
      /\ uxSchedulerSuspended = 0
  BY <1>1 DEF IInv, TypeOK, UnwindsResumed
<1> QED
  BY <1>1, <1>2, IncrementTickIInv

\* Every step preserves the inductive invariant.
THEOREM NextIInv == IInv /\ [Next]_vars => IInv'
<1> SUFFICES ASSUME IInv, [Next]_vars
             PROVE  IInv'
  OBVIOUS
<1>1. CASE vTaskSuspendAll
  <2>1. /\ xPendedCounts = 0 /\ uxSchedulerSuspended' = uxSchedulerSuspended + 1
        /\ UNCHANGED <<timeVars, listVars, xPendingReadyList, waiting, xPendedTicks,
                       xPendedCounts, pxCurrentTCB, realTicks>>
    BY <1>1 DEF vTaskSuspendAll
  <2> QED
    BY <2>1
       DEF IInv, TypeOK, WakeTimes, UnblockTimeIsEarly, OneStateList, NoLostTask,
           EventItems, UnwindsResumed, Blocked, Timed, timeVars, listVars
<1>2. ASSUME NEW xTicksToWait \in 1 .. portMAX_DELAY, NEW onEvent \in BOOLEAN,
             prvAddCurrentTaskToDelayedList(xTicksToWait, onEvent)
      PROVE  IInv'
  BY <1>2, BlockIInv
<1>3. CASE xTaskIncrementTick
  BY <1>3, TickInterruptIInv
<1>4. ASSUME NEW t \in Tasks, xTaskRemoveFromEventList(t)
      PROVE  IInv'
  BY <1>4, EventIInv
<1>5. CASE xTaskResumeAll
  BY <1>5, ResumeIInv
<1>6. CASE UnwindPendedTick
  BY <1>6, UnwindIInv
<1>7. CASE vTaskSwitchContext
  <2>1. /\ pxCurrentTCB' \in Ready
        /\ UNCHANGED <<timeVars, listVars, xPendingReadyList, waiting, schedVars, realTicks>>
    BY <1>7 DEF vTaskSwitchContext
  <2> QED
    BY <2>1
       DEF IInv, TypeOK, WakeTimes, UnblockTimeIsEarly, OneStateList, NoLostTask,
           EventItems, UnwindsResumed, Blocked, Timed, Ready, timeVars, listVars, schedVars
<1>8. CASE UNCHANGED vars
  BY <1>8
     DEF IInv, TypeOK, WakeTimes, UnblockTimeIsEarly, OneStateList, NoLostTask,
         EventItems, UnwindsResumed, Blocked, Timed, vars, timeVars, listVars, schedVars
<1> QED
  BY <1>1, <1>2, <1>3, <1>4, <1>5, <1>6, <1>7, <1>8 DEF Next

-----------------------------------------------------------------------------
\* The variables always have their types (tasks.c:340-400).
THEOREM TypeCorrect == Spec => []TypeOK
<1>1. IInv => TypeOK
  BY DEF IInv
<1> QED
  BY <1>1, InitIInv, NextIInv, PTL DEF Spec

\* Whatever the width of the tick count and wherever it wraps, the time stored
\* for a delayed task is the one at which its delay ends, and a due task is no
\* longer listed.
THEOREM WakeTimesCorrect == Spec => []WakeTimes
<1>1. IInv => WakeTimes
  BY DEF IInv
<1> QED
  BY <1>1, InitIInv, NextIInv, PTL DEF Spec

\* The cached time of the next unblocking is never late.
THEOREM UnblockTimeCorrect == Spec => []UnblockTimeIsEarly
<1>1. IInv => UnblockTimeIsEarly
  BY DEF IInv
<1> QED
  BY <1>1, InitIInv, NextIInv, PTL DEF Spec

\* The assertion of taskSWITCH_DELAYED_LISTS, which this build compiles to
\* nothing (configASSERT is not defined), can never fail.
THEOREM SwitchAssertionHolds == Spec => []DelayedListEmptyAtWrap
<1>1. IInv => DelayedListEmptyAtWrap
  BY DelayedEmptyAtMax DEF IInv
<1> QED
  BY <1>1, InitIInv, NextIInv, PTL DEF Spec

\* No task is forgotten on the suspended list or the pending ready list.
THEOREM NoTaskIsLost == Spec => []NoLostTask
<1>1. IInv => NoLostTask
  BY DEF IInv
<1> QED
  BY <1>1, InitIInv, NextIInv, PTL DEF Spec

\* No task is on two of the lists that say what state it is in, and one that waits
\* for an event or was readied by one meanwhile is still blocked.
THEOREM EachTaskOnItsLists == Spec => []ListMembership
<1>1. IInv => ListMembership
  BY DEF IInv, ListMembership
<1> QED
  BY <1>1, InitIInv, NextIInv, PTL DEF Spec

-----------------------------------------------------------------------------
\* What one processed tick does to the tasks that are blocked.
LEMMA TickReadiesDue ==
  ASSUME IInv, IncrementTick, NEW t \in Blocked
  PROVE  t \in Ready' <=> t \notin xSuspendedTaskList /\ left[t] = 1
<1> USE IncrementTickEffect, TickExpires
<1>1. t \in Tasks
  BY DEF IInv, TypeOK, Blocked, Timed
<1>2. t \in Ready' <=> t \notin Blocked'
  BY <1>1 DEF Ready
<1>3. CASE t \in xSuspendedTaskList
  BY <1>2, <1>3 DEF Blocked, Timed
<1>4. CASE t \in pxDelayedTaskList
  <2>1. ~wraps /\ t \in currentList /\ t \notin pxOverflowDelayedTaskList
        /\ t \notin xSuspendedTaskList
    BY <1>4 DEF currentList, IInv, OneStateList
  <2>2. t \in Blocked' <=> t \notin expired
    BY <2>1 DEF Blocked, Timed
  <2> QED
    BY <1>2, <2>1, <2>2
<1>5. CASE t \in pxOverflowDelayedTaskList
  <2>1. t \notin xSuspendedTaskList /\ t \notin pxDelayedTaskList
    BY <1>5 DEF IInv, OneStateList
  <2>2. CASE wraps
    <3>1. t \in currentList
      BY <1>5, <2>2 DEF currentList
    <3>2. t \in Blocked' <=> t \notin expired
      BY <2>1, <2>2, <3>1 DEF Blocked, Timed
    <3> QED
      BY <1>2, <2>1, <3>1, <3>2
  <2>3. CASE ~wraps
    <3>1. left[t] > 1
      BY <1>5, <2>3
    <3>2. left[t] \in TickType
      BY <1>1 DEF IInv, TypeOK
    <3>3. t \in Blocked'
      BY <1>5, <2>3 DEF Blocked, Timed
    <3>4. left[t] # 1
      BY ONLY <3>1, <3>2, MaxDelayAssumption DEF TickType
    <3> QED
      BY <1>2, <3>3, <3>4
  <2> QED
    BY <2>2, <2>3
<1> QED
  BY <1>3, <1>4, <1>5 DEF Blocked, Timed

\* No tick is early or late: each readies exactly the tasks whose delay ends
\* with it, wherever the count wraps (tasks.c:2757-2824).
THEOREM TicksAreExact == Spec => TickReadiesExactlyTheDue
<1>1. ASSUME IInv, [Next]_vars, xTickCount' # xTickCount, NEW t \in Blocked
      PROVE  t \in Ready' <=> t \notin xSuspendedTaskList /\ left[t] = 1
  <2>1. CASE IncrementTick
    BY <1>1, <2>1, TickReadiesDue
  <2>2. CASE ~IncrementTick
    <3>1. CASE vTaskSuspendAll
      BY <3>1, <1>1 DEF vTaskSuspendAll, timeVars
    <3>2. CASE \E xTicksToWait \in 1 .. portMAX_DELAY, onEvent \in BOOLEAN :
                 prvAddCurrentTaskToDelayedList(xTicksToWait, onEvent)
      BY <3>2, <1>1 DEF prvAddCurrentTaskToDelayedList, timeVars
    <3>3. CASE xTaskIncrementTick
      BY <3>3, <1>1, <2>2 DEF xTaskIncrementTick, timeVars
    <3>4. CASE \E u \in Tasks : xTaskRemoveFromEventList(u)
      BY <3>4, <1>1 DEF xTaskRemoveFromEventList
    <3>5. CASE xTaskResumeAll
      BY <3>5, <1>1 DEF xTaskResumeAll
    <3>6. CASE UnwindPendedTick
      BY <3>6, <2>2 DEF UnwindPendedTick
    <3>7. CASE vTaskSwitchContext
      BY <3>7, <1>1 DEF vTaskSwitchContext, timeVars
    <3>8. CASE UNCHANGED vars
      BY <3>8, <1>1 DEF vars, timeVars
    <3> QED
      BY <1>1, <3>1, <3>2, <3>3, <3>4, <3>5, <3>6, <3>7, <3>8 DEF Next
  <2> QED
    BY <2>1, <2>2
<1>2. IInv /\ [Next]_vars =>
        [xTickCount' # xTickCount =>
           \A t \in Blocked :
             t \in Ready' <=> t \notin xSuspendedTaskList /\ left[t] = 1]_vars
  BY <1>1
<1> QED
  BY <1>2, InitIInv, NextIInv, PTL DEF Spec, TickReadiesExactlyTheDue

-----------------------------------------------------------------------------
\* The ticks that have occurred and are not counted yet.
uncounted == IF xPendedCounts > 0 THEN xPendedCounts ELSE xPendedTicks

\* A tick interrupt adds one to both sides.
LEMMA OneMoreTick ==
  ASSUME TypeOK, TickCountDoesNotSlip, NEW m \in Nat, m = xTickCount + uncounted
  PROVE  AddTicks(realTicks, 1) = (m + 1) % (portMAX_DELAY + 1)
<1>1. realTicks = m % (portMAX_DELAY + 1)
  BY DEF TickCountDoesNotSlip, uncounted
<1>2. (m + 1) % (portMAX_DELAY + 1) =
        IF realTicks = portMAX_DELAY THEN 0 ELSE realTicks + 1
  <2> DEFINE n == portMAX_DELAY + 1
  <2>1. n \in Nat \ {0} /\ n - 1 = portMAX_DELAY
    BY MaxDelayAssumption
  <2>2. realTicks = m % n
    BY <1>1
  <2> HIDE DEF n
  <2>3. (m + 1) % n = IF m % n = n - 1 THEN 0 ELSE (m % n) + 1
    BY ONLY <2>1, m \in Nat, ModStep
  <2>4. (m + 1) % n = IF realTicks = portMAX_DELAY THEN 0 ELSE realTicks + 1
    BY ONLY <2>1, <2>2, <2>3
  <2> QED
    BY <2>4 DEF n
<1> QED
  BY <1>2, MaxDelayAssumption DEF AddTicks, TypeOK, TickType

\* Counting a tick moves it from one side of the sum to the other.
LEMMA CountedTick ==
  ASSUME NEW t \in TickType, NEW m \in Nat
  PROVE  (AddTicks(t, 1) + m) % (portMAX_DELAY + 1) = (t + m + 1) % (portMAX_DELAY + 1)
<1>1. CASE t < portMAX_DELAY
  BY <1>1, MaxDelayAssumption DEF AddTicks, TickType
<1>2. CASE t = portMAX_DELAY
  <2>1. AddTicks(t, 1) = 0
    BY <1>2, MaxDelayAssumption DEF AddTicks
  <2> DEFINE n == portMAX_DELAY + 1
  <2>2. n \in Nat \ {0} /\ m + n \in Nat
    BY MaxDelayAssumption
  <2> HIDE DEF n
  <2>3. (m + n) % n = m % n
    BY <2>2, ModWhole
  <2>4. t + m + 1 = m + n /\ 0 + m = m
    BY <1>2, MaxDelayAssumption DEF n
  <2> QED
    BY <2>1, <2>3, <2>4 DEF n
<1> QED
  BY <1>1, <1>2, MaxDelayAssumption DEF TickType

\* tasks.c:2276-2278: holding ticks back while the scheduler is suspended and
\* unwinding them afterwards loses none and counts none twice.
THEOREM NoTickIsLost == Spec => []TickCountDoesNotSlip
<1> DEFINE range == portMAX_DELAY + 1
<1>1. Init => TickCountDoesNotSlip
  <2>1. 0 % range = 0
    BY MaxDelayAssumption, SMT
  <2> QED
    BY <2>1 DEF Init, TickCountDoesNotSlip
<1>2. ASSUME IInv, TickCountDoesNotSlip, [Next]_vars
      PROVE  TickCountDoesNotSlip'
  <2>1. /\ xTickCount \in TickType /\ xTickCount \in Nat /\ 1 \in TickType
        /\ xPendedTicks \in Nat /\ xPendedCounts \in Nat /\ uncounted \in Nat
        /\ realTicks = (xTickCount + uncounted) % range
    BY <1>2, MaxDelayAssumption DEF IInv, TypeOK, TickType, TickCountDoesNotSlip, uncounted
  <2>2. CASE UNCHANGED <<xTickCount, xPendedTicks, xPendedCounts, realTicks>>
    BY <1>2, <2>2 DEF TickCountDoesNotSlip
  <2>3. CASE xTaskIncrementTick
    <3>1. /\ xPendedCounts = 0 /\ xPendedCounts' = 0
          /\ realTicks' = AddTicks(realTicks, 1) /\ uncounted = xPendedTicks
      BY <2>3 DEF xTaskIncrementTick, uncounted
    <3>2. realTicks' = (xTickCount + xPendedTicks + 1) % range
      BY <1>2, <2>1, <3>1, OneMoreTick DEF IInv
    <3>3. CASE uxSchedulerSuspended = 0
      <4>1. xTickCount' = AddTicks(xTickCount, 1) /\ xPendedTicks' = xPendedTicks
        BY <2>3, <3>3 DEF xTaskIncrementTick, IncrementTick
      <4>2. (AddTicks(xTickCount, 1) + xPendedTicks) % range =
              (xTickCount + xPendedTicks + 1) % range
        BY <2>1, CountedTick
      <4> QED
        BY <3>1, <3>2, <4>1, <4>2 DEF TickCountDoesNotSlip
    <3>4. CASE uxSchedulerSuspended # 0
      <4>1. xTickCount' = xTickCount /\ xPendedTicks' = xPendedTicks + 1
        BY <2>3, <3>4 DEF xTaskIncrementTick, timeVars
      <4>2. xTickCount + (xPendedTicks + 1) = xTickCount + xPendedTicks + 1
        BY <2>1
      <4> QED
        BY <3>1, <3>2, <4>1, <4>2 DEF TickCountDoesNotSlip
    <3> QED
      BY <3>3, <3>4
  <2>4. CASE UnwindPendedTick
    <3>1. /\ xPendedCounts > 0 /\ xPendedCounts' = xPendedCounts - 1
          /\ xPendedTicks' = IF xPendedCounts = 1 THEN 0 ELSE xPendedTicks
          /\ realTicks' = realTicks /\ xTickCount' = AddTicks(xTickCount, 1)
      BY <2>4 DEF UnwindPendedTick, IncrementTick
    <3>2. realTicks = (xTickCount + xPendedCounts) % range
      BY <2>1, <3>1 DEF uncounted
    <3>3. xPendedCounts - 1 \in Nat
      BY <2>1, <3>1
    <3>4. (AddTicks(xTickCount, 1) + (xPendedCounts - 1)) % range =
            (xTickCount + (xPendedCounts - 1) + 1) % range
      BY <2>1, <3>3, CountedTick
    <3>5. xTickCount + (xPendedCounts - 1) + 1 = xTickCount + xPendedCounts
      BY <2>1
    <3>6. (IF xPendedCounts' > 0 THEN xPendedCounts' ELSE xPendedTicks') = xPendedCounts - 1
      BY <2>1, <3>1
    <3> QED
      BY <3>1, <3>2, <3>4, <3>5, <3>6 DEF TickCountDoesNotSlip
  <2>5. CASE xTaskResumeAll
    <3>1. /\ xPendedCounts = 0 /\ UNCHANGED <<xTickCount, xPendedTicks, realTicks>>
          /\ xPendedCounts' = 0 \/ xPendedCounts' = xPendedTicks
      BY <2>5 DEF xTaskResumeAll
    <3>2. (IF xPendedCounts' > 0 THEN xPendedCounts' ELSE xPendedTicks') = xPendedTicks
      BY <2>1, <3>1
    <3> QED
      BY <2>1, <3>1, <3>2 DEF TickCountDoesNotSlip, uncounted
  <2>6. CASE vTaskSuspendAll
    BY <2>2, <2>6 DEF vTaskSuspendAll, timeVars
  <2>7. CASE \E xTicksToWait \in 1 .. portMAX_DELAY, onEvent \in BOOLEAN :
               prvAddCurrentTaskToDelayedList(xTicksToWait, onEvent)
    BY <2>2, <2>7 DEF prvAddCurrentTaskToDelayedList, schedVars, timeVars
  <2>8. CASE \E u \in Tasks : xTaskRemoveFromEventList(u)
    BY <2>2, <2>8 DEF xTaskRemoveFromEventList, schedVars
  <2>9. CASE vTaskSwitchContext
    BY <2>2, <2>9 DEF vTaskSwitchContext, schedVars, timeVars
  <2>10. CASE UNCHANGED vars
    BY <2>2, <2>10 DEF vars, schedVars, timeVars
  <2> QED
    BY <1>2, <2>3, <2>4, <2>5, <2>6, <2>7, <2>8, <2>9, <2>10 DEF Next
<1> QED
  BY <1>1, <1>2, InitIInv, NextIInv, PTL DEF Spec
=============================================================================
