------------------------------- MODULE Timers -------------------------------
(***************************************************************************)
(* Software timers (FreeRTOS/Source/timers.c): the timer task, its two     *)
(* lists of active timers, and the queue of commands tasks send to it.     *)
(*                                                                         *)
(* Only the timer task touches the lists, so that a step of it lasts from  *)
(* one look at the tick count to the next; ticks and commands come between *)
(* steps.  The callbacks are counted, not modelled.  The tick count counts *)
(* modulo portMAX_DELAY + 1; due, left, age and uptime are history, kept   *)
(* in ticks that do not wrap.                                              *)
(***************************************************************************)
EXTENDS KernelLists, FiniteSetsExt

CONSTANTS
  Timers,
  Autoreload,      \* the timers that are created with uxAutoReload
  Periods,         \* the periods timers are created with or changed to
  portMAX_DELAY,   \* and tmrMAX_TIME_BEFORE_OVERFLOW
  configTIMER_QUEUE_LENGTH,
  MaxAge           \* bound: ticks from the reading of a command's time to its sending

TickType == 0 .. portMAX_DELAY

ASSUME TimerAssumption ==
  /\ Autoreload \subseteq Timers
  /\ portMAX_DELAY \in Nat \ {0} /\ Periods \subseteq 1 .. portMAX_DELAY /\ Periods # {}
  /\ configTIMER_QUEUE_LENGTH \in Nat \ {0}
  /\ MaxAge \in 0 .. portMAX_DELAY

VARIABLES
  xTickCount,
  lists,       \* the timers and their lists, a record with the names of timers.c;
               \* absent: the timers not created yet, or deleted
  xTimerQueue,
  daemon,      \* [pc, sleep: the ticks it waits for]
  due,         \* history: [timer -> expiries whose callback was not called yet]
  left,        \* history: [timer -> ticks to the next expiry, 0 if there is none]
  late,        \* history: ticks since the timer task looked at the time
  uptime       \* history: ticks since the start, as far as MaxAge

timerVars == <<xTickCount, lists, xTimerQueue, daemon, due, left, late, uptime>>

Forever == -1

AddTicks(x, y) == (x + y) % (portMAX_DELAY + 1)
SubTicks(x, y) == (x - y) % (portMAX_DELAY + 1)

TimerInit ==
  /\ xTickCount = 0
  /\ lists = [pxCurrentTimerList |-> <<>>, pxOverflowTimerList |-> <<>>,
              xItemValue |-> [t \in Timers |-> 0], xLastTime |-> 0,
              active |-> {}, absent |-> Timers,
              xTimerPeriodInTicks |-> [t \in Timers |-> CHOOSE p \in Periods : TRUE],
              called |-> [t \in Timers |-> 0]]
  /\ xTimerQueue = <<>>
  /\ daemon = [pc |-> "timers", sleep |-> 0]
  /\ due = [t \in Timers |-> 0] /\ left = [t \in Timers |-> 0]
  /\ late = 0 /\ uptime = 0

-----------------------------------------------------------------------------
(* Operations of the timer task on the lists.  Each definition whose name  *)
(* ends in Faulty is a variant of the one that follows it, with a          *)
(* plausible mistake; the specification uses none.                         *)

\* prvInsertTimerInActiveList: is the timer due by now?  Times before the wrap
\* of the tick count are told from those after it by the command's time.
IsDueFaulty(s, t, xNextExpiryTime, xTimeNow, xCommandTime) ==
  /\ xNextExpiryTime <= xTimeNow
  /\ SubTicks(xTimeNow, xCommandTime) >= s.xTimerPeriodInTicks[t]
IsDue(s, t, xNextExpiryTime, xTimeNow, xCommandTime) ==
  IF xNextExpiryTime <= xTimeNow
    THEN SubTicks(xTimeNow, xCommandTime) >= s.xTimerPeriodInTicks[t]
    ELSE xTimeNow < xCommandTime /\ xNextExpiryTime >= xCommandTime

\* The rest of it, when the timer is not due.
Insert(s, t, xNextExpiryTime, xTimeNow) ==
  LET r == [s EXCEPT !.xItemValue[t] = xNextExpiryTime]
  IN IF xNextExpiryTime <= xTimeNow
       THEN [r EXCEPT !.pxOverflowTimerList = SortedInsert(@, t, r.xItemValue)]
       ELSE [r EXCEPT !.pxCurrentTimerList = SortedInsert(@, t, r.xItemValue)]

\* pxCallbackFunction
Callback(s, t, times) == [s EXCEPT !.called[t] = @ + times]

\* prvReloadTimer: the loop ends at the first expiry that is to come, after a
\* callback for each that was missed.
Reload(s, t, xExpiredTime, xTimeNow) ==
  LET period == s.xTimerPeriodInTicks[t]
      Expiry(i) == AddTicks(xExpiredTime, i * period)
      missed == Min({i \in 0 .. portMAX_DELAY : ~IsDue(s, t, Expiry(i + 1), xTimeNow, Expiry(i))})
  IN Insert(Callback(s, t, missed), t, Expiry(missed + 1), xTimeNow)

\* What follows an expiry: the next one, or the end of a one-shot timer.
AfterExpiryFaulty(s, t, xExpiredTime, xTimeNow) ==
  IF t \in Autoreload THEN Callback(Reload(s, t, xExpiredTime, xTimeNow), t, 1)
  ELSE Callback(s, t, 1)
AfterExpiry(s, t, xExpiredTime, xTimeNow) ==
  IF t \in Autoreload THEN Callback(Reload(s, t, xExpiredTime, xTimeNow), t, 1)
  ELSE Callback([s EXCEPT !.active = @ \ {t}], t, 1)

\* uxListRemove; nothing reads the value of an item on no list.
RemoveFromActive(s, t) ==
  [s EXCEPT !.pxCurrentTimerList = Without(@, t), !.pxOverflowTimerList = Without(@, t),
            !.xItemValue[t] = 0]

\* prvProcessExpiredTimer
ProcessExpired(s, xTimeNow) ==
  LET t == Head(s.pxCurrentTimerList)
  IN AfterExpiry(RemoveFromActive(s, t), t, s.xItemValue[t], xTimeNow)

\* prvSwitchTimerLists: what is left on the list of the range that has ended was
\* due before its end.
SwitchTimerLists(s) ==
  LET r == FoldLeft(LAMBDA q, t : ProcessExpired(q, portMAX_DELAY), s, s.pxCurrentTimerList)
  IN [r EXCEPT !.pxCurrentTimerList = r.pxOverflowTimerList,
               !.pxOverflowTimerList = r.pxCurrentTimerList]

\* prvSampleTimeNow
ListsWereSwitched(s) == xTickCount < s.xLastTime
SampleTimeNow(s) ==
  [(IF ListsWereSwitched(s) THEN SwitchTimerLists(s) ELSE s)
     EXCEPT !.xLastTime = xTickCount]

\* A timer may be due when the command to start it is received.
Start(s, t, xCommandTime) ==
  LET r == [s EXCEPT !.active = @ \cup {t}]
      xNextExpiryTime == AddTicks(xCommandTime, s.xTimerPeriodInTicks[t])
  IN IF IsDue(r, t, xNextExpiryTime, xTickCount, xCommandTime)
       THEN AfterExpiry(r, t, xNextExpiryTime, xTickCount)
       ELSE Insert(r, t, xNextExpiryTime, xTickCount)

\* prvProcessReceivedCommands: one message.
Process(s, m) ==
  LET t == m.pxTimer
      r == SampleTimeNow(RemoveFromActive(s, t))
      changed == [r EXCEPT !.active = @ \cup {t}, !.xTimerPeriodInTicks[t] = m.xMessageValue]
      stopped == [r EXCEPT !.active = @ \ {t}]
  IN CASE m.xMessageID = "START"  -> Start(r, t, m.xMessageValue)
       [] m.xMessageID = "STOP"   -> stopped
       [] m.xMessageID = "CHANGE_PERIOD" ->
            Insert(changed, t, AddTicks(xTickCount, m.xMessageValue), xTickCount)
       [] m.xMessageID = "DELETE" -> [stopped EXCEPT !.absent = @ \cup {t}]

-----------------------------------------------------------------------------
(* The timer task.  Its step calls the callbacks lists counts.             *)

Called(s) ==
  /\ lists' = [s EXCEPT !.called = [t \in Timers |-> 0]]
  /\ due' = [t \in Timers |-> due[t] - s.called[t]]

\* One turn of the loop as far as the commands: prvGetNextExpireTime, then
\* prvProcessTimerOrBlockTask.  To block, the task tells by the overflow list
\* whether to wait for ever; a message that is there already keeps it awake.  A
\* wait of no ticks ends at the next tick.
prvProcessTimerOrBlockTask ==
  /\ daemon.pc = "timers"
  /\ LET list == lists.pxCurrentTimerList
         xNextExpireTime == IF list = <<>> THEN 0 ELSE lists.xItemValue[Head(list)]
         s == SampleTimeNow(lists)
         expired == list # <<>> /\ xNextExpireTime <= xTickCount
         forever == list = <<>> /\ s.pxOverflowTimerList = <<>>
         ticks == Max({SubTicks(xNextExpireTime, xTickCount), 1})
     IN /\ IF ~ListsWereSwitched(lists) /\ expired THEN Called(ProcessExpired(s, xTickCount))
           ELSE Called(s)
        /\ daemon' = IF ListsWereSwitched(lists) \/ expired \/ xTimerQueue # <<>>
                       THEN [daemon EXCEPT !.pc = "commands"]
                       ELSE [pc |-> "blocked", sleep |-> IF forever THEN Forever ELSE ticks]
  /\ late' = 0
  /\ UNCHANGED <<xTickCount, xTimerQueue, left, uptime>>

\* The expiries since the time a timer was started: how many are past, and how
\* long it is to the next.
Since(t, ticks, period) ==
  IF t \in Autoreload THEN <<ticks \div period, period - (ticks % period)>>
  ELSE IF ticks >= period THEN <<1, 0>> ELSE <<0, period - ticks>>

prvProcessReceivedCommands ==
  /\ daemon.pc = "commands"
  /\ IF xTimerQueue = <<>>
       THEN /\ daemon' = [daemon EXCEPT !.pc = "timers"]
            /\ UNCHANGED <<lists, xTimerQueue, due, left, late>>
       ELSE LET m == Head(xTimerQueue)
                t == m.pxTimer
                s == Process(lists, m)
                expiries == CASE m.xMessageID = "START" ->
                                   Since(t, m.age, lists.xTimerPeriodInTicks[t])
                              [] m.xMessageID = "CHANGE_PERIOD" -> <<0, m.xMessageValue>>
                              [] OTHER -> <<0, 0>>
            IN /\ xTimerQueue' = Tail(xTimerQueue)
               /\ lists' = [s EXCEPT !.called = [u \in Timers |-> 0]]
               /\ due' = [u \in Timers |-> (IF u = t THEN expiries[1] ELSE due[u]) - s.called[u]]
               /\ left' = [left EXCEPT ![t] = expiries[2]]
               /\ late' = 0
               /\ UNCHANGED daemon
  /\ UNCHANGED <<xTickCount, uptime>>

-----------------------------------------------------------------------------
(* The tick, and the tasks that use timers.                                *)

\* xTaskIncrementTick: the timer task wakes when its wait is over.  It is assumed
\* to look at the time, and at a command, within one range of the tick count.
Tick ==
  /\ late < portMAX_DELAY \/ daemon.pc = "blocked"
  /\ \A i \in 1 .. Len(xTimerQueue) : xTimerQueue[i].age < portMAX_DELAY
  /\ xTickCount' = AddTicks(xTickCount, 1)
  /\ left' = [t \in Timers |->
       IF left[t] = 1 /\ t \in Autoreload THEN lists.xTimerPeriodInTicks[t]
       ELSE Max({left[t] - 1, 0})]
  /\ due' = [t \in Timers |-> IF left[t] = 1 THEN due[t] + 1 ELSE due[t]]
  /\ xTimerQueue' = [i \in 1 .. Len(xTimerQueue) |-> [xTimerQueue[i] EXCEPT !.age = @ + 1]]
  /\ daemon' = IF daemon.pc # "blocked" \/ daemon.sleep = Forever THEN daemon
               ELSE [daemon EXCEPT !.sleep = @ - 1,
                                   !.pc = IF daemon.sleep = 1 THEN "commands" ELSE @]
  /\ late' = IF daemon.sleep = Forever THEN 0 ELSE late + 1
  /\ uptime' = IF uptime < MaxAge THEN uptime + 1 ELSE uptime
  /\ UNCHANGED lists

\* xTimerGenericCommand: the time was read some ticks ago, or by an interrupt.  A
\* command to a full queue is refused.  No timer is used once it is to be deleted.
xTimerGenericCommand(t, id, xOptionalValue, age) ==
  /\ t \notin lists.absent
  /\ \A i \in 1 .. Len(xTimerQueue) :
       xTimerQueue[i].pxTimer = t => xTimerQueue[i].xMessageID # "DELETE"
  /\ Len(xTimerQueue) < configTIMER_QUEUE_LENGTH
  /\ xTimerQueue' = Append(xTimerQueue, [xMessageID |-> id, pxTimer |-> t,
                                         xMessageValue |-> xOptionalValue, age |-> age])
  /\ daemon' = IF daemon.pc = "blocked" THEN [daemon EXCEPT !.pc = "commands", !.sleep = 0]
             ELSE daemon
  /\ UNCHANGED <<xTickCount, lists, due, left, late, uptime>>

xTimerStart(t) ==
  \E age \in 0 .. uptime : xTimerGenericCommand(t, "START", SubTicks(xTickCount, age), age)
xTimerStop(t) == xTimerGenericCommand(t, "STOP", 0, 0)
xTimerChangePeriod(t) == \E p \in Periods : xTimerGenericCommand(t, "CHANGE_PERIOD", p, 0)
xTimerDelete(t) == xTimerGenericCommand(t, "DELETE", 0, 0)

\* xTimerCreate: a new timer, perhaps in the memory of one that was deleted.
xTimerCreate(t) ==
  /\ t \in lists.absent
  /\ \E p \in Periods :
       lists' = [lists EXCEPT !.absent = @ \ {t}, !.xTimerPeriodInTicks[t] = p]
  /\ UNCHANGED <<xTickCount, xTimerQueue, daemon, due, left, late, uptime>>

TimerNext ==
  \/ Tick
  \/ prvProcessTimerOrBlockTask \/ prvProcessReceivedCommands
  \/ \E t \in Timers : xTimerStart(t) \/ xTimerStop(t) \/ xTimerChangePeriod(t)
                         \/ xTimerDelete(t) \/ xTimerCreate(t)

TimerSpec == TimerInit /\ [][TimerNext]_timerVars

-----------------------------------------------------------------------------
TimerTypeOK ==
  /\ xTickCount \in TickType
  /\ lists.active \subseteq Timers /\ Autoreload \subseteq Timers
  /\ lists.xItemValue \in [Timers -> TickType]
  /\ daemon.pc \in {"timers", "commands", "blocked"}
  /\ daemon.sleep \in -1 .. portMAX_DELAY
  /\ left \in [Timers -> TickType]

\* A callback is called once for every expiry, never before it, and the timer
\* task sleeps through none: across wraps of the tick count, for commands that
\* come late, and for a timer task that runs late.
CallbacksExact ==
  \A t \in Timers : due[t] >= 0 /\ (daemon.pc = "blocked" => due[t] = 0)

\* A timer says it is active just when it is on one of the lists, once: else a
\* callback would come from a timer that is stopped, or never from an active one.
ActiveIsListed ==
  LET listed == lists.pxCurrentTimerList \o lists.pxOverflowTimerList
  IN IsInjective(listed) /\ Members(listed) = lists.active
=============================================================================
