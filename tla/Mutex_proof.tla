----------------------------- MODULE Mutex_proof -----------------------------
(***************************************************************************)
(* Mutexes with priority inheritance, for any tasks, mutexes, priorities   *)
(* and calls: whatever is lent and taken back, the scheduler finds every   *)
(* task that is ready, and no task keeps a priority it inherited after it  *)
(* has given its last mutex.                                               *)
(***************************************************************************)
EXTENDS Mutex, KernelLists_proof, FiniteSetTheorems, TLAPS

\* The scheduler's record when the given task runs.
KType(task) ==
  [pxCurrentTCB : {task},
   ready : [Priorities -> SUBSET AllTasks], uxTopReadyPriority : SUBSET Priorities,
   uxPriority : [AllTasks -> Priorities], eventPriority : [AllTasks -> Priorities],
   uxMutexesHeld : [Tasks -> Nat]]

Found(s) ==
  /\ \A p \in Priorities : s.ready[p] # {} => p \in s.uxTopReadyPriority
  /\ \A p \in Priorities : \A t \in s.ready[p] : s.uxPriority[t] = p
  /\ Idle \in s.ready[0]

LEMMA PrioritiesAreNumbers ==
  /\ Priorities \subseteq 0 .. 31 /\ Priorities \subseteq Nat /\ 0 \in Priorities
  /\ \A t \in AllTasks : uxBasePriority[t] \in Priorities
  /\ Tasks \subseteq AllTasks /\ Idle \in AllTasks /\ Idle \notin Tasks
BY IdleAssumption, MutexAssumption DEF Priorities, AllTasks

LEMMA MaxOfPriorities ==
  ASSUME NEW S \in SUBSET Priorities, S # {}
  PROVE  Max(S) \in S /\ \A p \in S : Max(S) >= p
<1>1. S \in SUBSET (0 .. 31)
  BY PrioritiesAreNumbers
<1>2. \E x \in S : \A p \in S : x >= p
  BY <1>1, GreatestNatural
<1> QED BY <1>2 DEF Max

-----------------------------------------------------------------------------
(* The ready lists.                                                        *)

LEMMA AddToReadyFound ==
  ASSUME NEW c, NEW s \in KType(c), NEW t \in Tasks, Found(s)
  PROVE  /\ AddToReady(s, t) \in KType(c) /\ Found(AddToReady(s, t))
         /\ AddToReady(s, t).uxPriority = s.uxPriority
         /\ AddToReady(s, t).eventPriority = s.eventPriority
         /\ AddToReady(s, t).uxMutexesHeld = s.uxMutexesHeld
<1>0. t \in AllTasks /\ t # Idle /\ 0 \in Priorities
  BY PrioritiesAreNumbers
<1> USE <1>0
<1> DEFINE p == s.uxPriority[t]
           r == AddToReady(s, t)
<1>1. p \in Priorities
  BY DEF KType
<1>2. r = [s EXCEPT !.ready = [s.ready EXCEPT ![p] = s.ready[p] \cup {t}],
                    !.uxTopReadyPriority = s.uxTopReadyPriority \cup {p}]
  BY DEF AddToReady
<1>3. /\ r.ready = [s.ready EXCEPT ![p] = s.ready[p] \cup {t}]
      /\ r.uxTopReadyPriority = s.uxTopReadyPriority \cup {p}
      /\ r.uxPriority = s.uxPriority /\ r.eventPriority = s.eventPriority
      /\ r.uxMutexesHeld = s.uxMutexesHeld
  BY <1>2 DEF KType
<1>4. r \in KType(c)
  <2> DEFINE ready == [s.ready EXCEPT ![p] = s.ready[p] \cup {t}]
             top == s.uxTopReadyPriority \cup {p}
  <2>1. ready \in [Priorities -> SUBSET AllTasks] /\ top \in SUBSET Priorities
    BY <1>1 DEF KType
  <2> HIDE DEF ready, top
  <2>2. [s EXCEPT !.ready = ready, !.uxTopReadyPriority = top] \in KType(c)
    BY <2>1 DEF KType
  <2> QED BY <1>2, <2>2 DEF ready, top
<1> HIDE DEF r
<1>5. \A q \in Priorities : r.ready[q] = IF q = p THEN s.ready[p] \cup {t} ELSE s.ready[q]
  BY <1>1, <1>3 DEF KType
<1>6. Found(r)
  BY <1>1, <1>3, <1>5 DEF Found
<1> QED BY <1>3, <1>4, <1>6 DEF r

RemovedFrom(s, t, bit, r, c) ==
  LET p == s.uxPriority[t]
  IN /\ r \in KType(c) /\ r.uxPriority = s.uxPriority
     /\ r.eventPriority = s.eventPriority /\ r.uxMutexesHeld = s.uxMutexesHeld
     /\ \A q \in Priorities : r.ready[q] = IF q = p THEN s.ready[p] \ {t} ELSE s.ready[q]
     /\ r.uxTopReadyPriority = IF s.ready[p] \ {t} = {} THEN s.uxTopReadyPriority \ {bit}
                                                      ELSE s.uxTopReadyPriority

LEMMA RemoveFromReadyFields ==
  ASSUME NEW c, NEW s \in KType(c), NEW t \in Tasks, NEW bit
  PROVE  RemovedFrom(s, t, bit, RemoveFromReady(s, t, bit), c)
<1>0. t \in AllTasks /\ t # Idle /\ 0 \in Priorities
  BY PrioritiesAreNumbers
<1> USE <1>0
<1> DEFINE p == s.uxPriority[t]
           r == RemoveFromReady(s, t, bit)
           top == IF s.ready[p] \ {t} = {} THEN s.uxTopReadyPriority \ {bit}
                                          ELSE s.uxTopReadyPriority
<1>1. p \in Priorities /\ top \in SUBSET Priorities
  BY DEF KType
<1>2. r = [s EXCEPT !.ready = [s.ready EXCEPT ![p] = s.ready[p] \ {t}],
                    !.uxTopReadyPriority = top]
  BY DEF RemoveFromReady
<1> HIDE DEF top
<1>3. /\ r.ready = [s.ready EXCEPT ![p] = s.ready[p] \ {t}] /\ r.uxTopReadyPriority = top
      /\ r.uxPriority = s.uxPriority /\ r.eventPriority = s.eventPriority
      /\ r.uxMutexesHeld = s.uxMutexesHeld
  BY <1>2 DEF KType
<1>4. r \in KType(c)
  <2> DEFINE ready == [s.ready EXCEPT ![p] = s.ready[p] \ {t}]
  <2>1. ready \in [Priorities -> SUBSET AllTasks]
    BY <1>1 DEF KType
  <2> HIDE DEF ready
  <2>2. [s EXCEPT !.ready = ready, !.uxTopReadyPriority = top] \in KType(c)
    BY <1>1, <2>1 DEF KType
  <2> QED BY <1>2, <2>2 DEF ready
<1> HIDE DEF r
<1>5. \A q \in Priorities : r.ready[q] = IF q = p THEN s.ready[p] \ {t} ELSE s.ready[q]
  BY <1>1, <1>3 DEF KType
<1> QED BY <1>3, <1>4, <1>5 DEF r, top, RemovedFrom

\* With the bit of its own list, as the code does where a task blocks.
LEMMA RemoveFromReadyFound ==
  ASSUME NEW c, NEW s \in KType(c), NEW t \in Tasks, Found(s)
  PROVE  Found(RemoveFromReady(s, t, s.uxPriority[t]))
<1>0. t \in AllTasks /\ t # Idle /\ 0 \in Priorities
  BY PrioritiesAreNumbers
<1> USE <1>0
<1> DEFINE p == s.uxPriority[t]
           r == RemoveFromReady(s, t, p)
<1>1. /\ r.uxPriority = s.uxPriority
      /\ \A q \in Priorities : r.ready[q] = IF q = p THEN s.ready[p] \ {t} ELSE s.ready[q]
      /\ r.uxTopReadyPriority = IF s.ready[p] \ {t} = {} THEN s.uxTopReadyPriority \ {p}
                                                       ELSE s.uxTopReadyPriority
  <2>1. RemovedFrom(s, t, p, r, c)
    BY RemoveFromReadyFields
  <2> HIDE DEF r
  <2> QED BY <2>1 DEF RemovedFrom
<1> HIDE DEF r, p
<1>2. Found(r)
  BY <1>1 DEF Found
<1> QED BY <1>2 DEF r, p

\* Whether the bit that is reset is that of the list the task leaves or, as when
\* a time-out takes a priority back, that of the list it comes to.
LEMMA WithPriorityFound ==
  ASSUME NEW c, NEW s \in KType(c), NEW t \in Tasks, NEW p \in Priorities,
         NEW bit \in {s.uxPriority[t], p}, Found(s)
  PROVE  LET r == WithPriority(s, t, p, bit)
         IN /\ r \in KType(c) /\ Found(r)
            /\ r.uxPriority = [s.uxPriority EXCEPT ![t] = p]
            /\ r.eventPriority = s.eventPriority /\ r.uxMutexesHeld = s.uxMutexesHeld
<1>0. t \in AllTasks /\ t # Idle /\ 0 \in Priorities
  BY PrioritiesAreNumbers
<1> USE <1>0
<1> DEFINE old == s.uxPriority[t]
           gone == RemoveFromReady(s, t, bit)
           removed == [gone EXCEPT !.uxPriority[t] = p]
<1>1. old \in Priorities
  BY DEF KType
<1>2. CASE ~IsReady(s, t)
  <2> DEFINE r == [s EXCEPT !.uxPriority[t] = p]
  <2>1. WithPriority(s, t, p, bit) = r
    BY <1>2 DEF WithPriority
  <2>2. /\ r.ready = s.ready /\ r.uxTopReadyPriority = s.uxTopReadyPriority
        /\ r.uxPriority = [s.uxPriority EXCEPT ![t] = p]
        /\ r.eventPriority = s.eventPriority /\ r.uxMutexesHeld = s.uxMutexesHeld
    BY DEF KType
  <2>3. r \in KType(c)
    BY DEF KType
  <2> HIDE DEF r
  <2>4. \A q \in Priorities : t \notin s.ready[q]
    BY <1>2 DEF Found, IsReady
  <2>5. Found(r)
    BY <2>2, <2>4 DEF Found, KType
  <2> QED BY <2>1, <2>2, <2>3, <2>5
<1>3. CASE IsReady(s, t)
  <2> DEFINE r == AddToReady(removed, t)
  <2>1. WithPriority(s, t, p, bit) = r
    BY <1>3 DEF WithPriority
  <2>2. /\ gone \in KType(c) /\ gone.uxPriority = s.uxPriority
        /\ gone.eventPriority = s.eventPriority /\ gone.uxMutexesHeld = s.uxMutexesHeld
        /\ \A q \in Priorities : gone.ready[q] = IF q = old THEN s.ready[old] \ {t} ELSE s.ready[q]
        /\ gone.uxTopReadyPriority = IF s.ready[old] \ {t} = {} THEN s.uxTopReadyPriority \ {bit}
                                                              ELSE s.uxTopReadyPriority
    <3>1. RemovedFrom(s, t, bit, gone, c)
      BY RemoveFromReadyFields
    <3> HIDE DEF gone
    <3> QED BY <3>1 DEF RemovedFrom
  <2> HIDE DEF gone
  <2>3. /\ removed \in KType(c) /\ removed.uxPriority = [s.uxPriority EXCEPT ![t] = p]
        /\ removed.eventPriority = s.eventPriority /\ removed.uxMutexesHeld = s.uxMutexesHeld
        /\ removed.ready = gone.ready /\ removed.uxTopReadyPriority = gone.uxTopReadyPriority
    BY <2>2 DEF KType
  <2> HIDE DEF removed
  <2>4. removed.uxPriority[t] = p
    BY <2>3 DEF KType
  <2>5. r = [removed EXCEPT !.ready = [removed.ready EXCEPT ![p] = removed.ready[p] \cup {t}],
                            !.uxTopReadyPriority = removed.uxTopReadyPriority \cup {p}]
    BY <2>4 DEF AddToReady
  <2>6. /\ r.ready = [removed.ready EXCEPT ![p] = removed.ready[p] \cup {t}]
        /\ r.uxTopReadyPriority = removed.uxTopReadyPriority \cup {p}
        /\ r.uxPriority = removed.uxPriority /\ r.eventPriority = removed.eventPriority
        /\ r.uxMutexesHeld = removed.uxMutexesHeld
    BY <2>3, <2>5 DEF KType
  <2>7. r \in KType(c)
    <3> DEFINE ready == [removed.ready EXCEPT ![p] = removed.ready[p] \cup {t}]
               top == removed.uxTopReadyPriority \cup {p}
    <3>1. ready \in [Priorities -> SUBSET AllTasks] /\ top \in SUBSET Priorities
      BY <2>3 DEF KType
    <3> HIDE DEF ready, top
    <3>2. [removed EXCEPT !.ready = ready, !.uxTopReadyPriority = top] \in KType(c)
      BY <2>3, <3>1 DEF KType
    <3> QED BY <2>5, <3>2 DEF ready, top
  <2> HIDE DEF r
  <2>8. \A q \in Priorities : r.ready[q] = IF q = p THEN gone.ready[p] \cup {t} ELSE gone.ready[q]
    BY <2>2, <2>3, <2>6 DEF KType
  <2>9. \A q \in Priorities : t \notin gone.ready[q] /\ gone.ready[q] \subseteq s.ready[q]
    BY <2>2 DEF Found
  <2>10. \A q \in Priorities : q # p /\ gone.ready[q] # {} => q \in gone.uxTopReadyPriority
    <3> SUFFICES ASSUME NEW q \in Priorities, q # p, gone.ready[q] # {}
                 PROVE  q \in gone.uxTopReadyPriority
      OBVIOUS
    <3>1. s.ready[q] # {} /\ q \in s.uxTopReadyPriority
      BY <2>9 DEF Found
    <3>2. CASE q = old
      BY <1>1, <2>2, <3>1, <3>2
    <3>3. CASE q # old
      BY <2>2, <3>1, <3>3
    <3> QED BY <3>2, <3>3
  <2>11. \A q \in Priorities : r.ready[q] # {} => q \in r.uxTopReadyPriority
    BY <2>3, <2>6, <2>8, <2>10
  <2>12. \A q \in Priorities : \A u \in r.ready[q] : r.uxPriority[u] = q
    <3> SUFFICES ASSUME NEW q \in Priorities, NEW u \in r.ready[q]
                 PROVE  r.uxPriority[u] = q
      OBVIOUS
    <3>1. CASE u = t
      BY <2>3, <2>4, <2>6, <2>8, <2>9, <3>1
    <3>2. CASE u # t
      <4>1. u \in s.ready[q] /\ u \in AllTasks
        BY <2>8, <2>9, <3>2 DEF KType
      <4> QED BY <2>3, <2>6, <3>2, <4>1 DEF Found, KType
    <3> QED BY <3>1, <3>2
  <2>13. Idle \in r.ready[0]
    BY <2>2, <2>8 DEF Found
  <2>14. Found(r)
    BY <2>11, <2>12, <2>13 DEF Found
  <2> QED BY <2>1, <2>3, <2>6, <2>7, <2>14
<1> QED BY <1>2, <1>3

-----------------------------------------------------------------------------
(* What is lent and what is taken back.                                    *)

\* Only task t changes its priority.
Keeps(s, r, t) == \A u \in AllTasks : u # t => r.uxPriority[u] = s.uxPriority[u]

Changed(s, t, p, bit) == [WithPriority(s, t, p, bit) EXCEPT !.eventPriority[t] = p]

\* From s to r only task t changes its priority, to p.
Changes(c, s, r, t, p) ==
  /\ r \in KType(c) /\ Found(r) /\ Keeps(s, r, t) /\ r.uxPriority[t] = p
  /\ r.uxMutexesHeld = s.uxMutexesHeld

LEMMA ChangedFound ==
  ASSUME NEW c, NEW s \in KType(c), NEW t \in Tasks, NEW p \in Priorities,
         NEW bit \in {s.uxPriority[t], p}, Found(s)
  PROVE  Changes(c, s, Changed(s, t, p, bit), t, p)
<1>0. t \in AllTasks /\ t # Idle /\ 0 \in Priorities
  BY PrioritiesAreNumbers
<1> USE <1>0
<1> DEFINE w == WithPriority(s, t, p, bit)
           r == [w EXCEPT !.eventPriority[t] = p]
<1>1. /\ w \in KType(c) /\ Found(w) /\ w.uxPriority = [s.uxPriority EXCEPT ![t] = p]
      /\ w.uxMutexesHeld = s.uxMutexesHeld
  BY WithPriorityFound
<1> HIDE DEF w
<1>2. /\ r.ready = w.ready /\ r.uxTopReadyPriority = w.uxTopReadyPriority
      /\ r.uxPriority = w.uxPriority /\ r.uxMutexesHeld = w.uxMutexesHeld /\ r \in KType(c)
  BY <1>1 DEF KType
<1>3. r.uxPriority[t] = p /\ Keeps(s, r, t)
  BY <1>1, <1>2 DEF KType, Keeps
<1> HIDE DEF r
<1>4. Found(r)
  BY <1>1, <1>2 DEF Found
<1> QED BY <1>1, <1>2, <1>3, <1>4 DEF r, w, Changed, Changes

LEMMA PriorityInheritFound ==
  ASSUME NEW c \in AllTasks, NEW s \in KType(c), NEW holder \in Tasks, Found(s)
  PROVE  LET r == PriorityInherit(s, holder)
         IN /\ r \in KType(c) /\ Found(r) /\ Keeps(s, r, holder)
            /\ r.uxMutexesHeld = s.uxMutexesHeld
<1>0. holder \in AllTasks /\ holder # Idle /\ 0 \in Priorities
  BY PrioritiesAreNumbers
<1> USE <1>0
<1> DEFINE p == s.uxPriority[s.pxCurrentTCB]
           old == s.uxPriority[holder]
           r == Changed(s, holder, p, old)
<1>1. p \in Priorities
  BY DEF KType
<1>2. r \in KType(c) /\ Found(r) /\ Keeps(s, r, holder) /\ r.uxMutexesHeld = s.uxMutexesHeld
  <2> HIDE DEF p
  <2> QED BY <1>1, ChangedFound DEF Changes
<1>3. PriorityInherit(s, holder) = IF old >= p THEN s ELSE r
  BY DEF PriorityInherit, Changed
<1> HIDE DEF r, p, old
<1>4. Keeps(s, s, holder)
  BY DEF Keeps
<1>5. CASE old >= p
  BY <1>3, <1>4, <1>5
<1>6. CASE ~(old >= p)
  BY <1>2, <1>3, <1>6
<1> QED BY <1>5, <1>6

LEMMA PriorityDisinheritFound ==
  ASSUME NEW c, NEW s \in KType(c), NEW t \in Tasks, Found(s), s.uxMutexesHeld[t] # 0
  PROVE  LET r == PriorityDisinherit(s, t)
         IN /\ r \in KType(c) /\ Found(r) /\ Keeps(s, r, t)
            /\ r.uxMutexesHeld = [s.uxMutexesHeld EXCEPT ![t] = s.uxMutexesHeld[t] - 1]
            /\ r.uxMutexesHeld[t] = 0 => r.uxPriority[t] = uxBasePriority[t]
<1>0. t \in AllTasks /\ t # Idle /\ 0 \in Priorities
  BY PrioritiesAreNumbers
<1> USE <1>0
<1> DEFINE base == uxBasePriority[t]
           held == [s.uxMutexesHeld EXCEPT ![t] = s.uxMutexesHeld[t] - 1]
           g == [s EXCEPT !.uxMutexesHeld = held]
           r == Changed(g, t, base, s.uxPriority[t])
<1>1. base \in Priorities /\ t \in AllTasks
  BY PrioritiesAreNumbers
<1>2. held \in [Tasks -> Nat] /\ held[t] = s.uxMutexesHeld[t] - 1
  BY DEF KType
<1> HIDE DEF held, base
<1>3. /\ g.ready = s.ready /\ g.uxTopReadyPriority = s.uxTopReadyPriority
      /\ g.uxPriority = s.uxPriority /\ g.uxMutexesHeld = held /\ g \in KType(c)
  BY <1>2 DEF KType
<1>4. PriorityDisinherit(s, t) = IF s.uxPriority[t] = base \/ held[t] # 0 THEN g ELSE r
  BY <1>3 DEF PriorityDisinherit, base, held, Changed
<1> HIDE DEF g
<1>5. Found(g)
  BY <1>3 DEF Found
<1>6. r \in KType(c) /\ Found(r) /\ Keeps(g, r, t) /\ r.uxPriority[t] = base /\ r.uxMutexesHeld = held
  <2>1. Changes(c, g, r, t, base)
    BY <1>1, <1>3, <1>5, ChangedFound
  <2> QED BY <1>3, <2>1 DEF Changes
<1> HIDE DEF r
<1>7. Keeps(s, g, t) /\ Keeps(s, r, t)
  BY <1>3, <1>6 DEF Keeps
<1>8. CASE s.uxPriority[t] = base \/ held[t] # 0
  BY <1>3, <1>4, <1>5, <1>7, <1>8 DEF base, held
<1>9. CASE ~(s.uxPriority[t] = base \/ held[t] # 0)
  BY <1>4, <1>6, <1>7, <1>9 DEF base, held
<1> QED BY <1>8, <1>9

LEMMA MaxOfTwo ==
  ASSUME NEW a \in Nat, NEW b \in Nat
  PROVE  Max({a, b}) \in {a, b} /\ Max({a, b}) >= a /\ Max({a, b}) >= b
<1>1. \E x \in {a, b} : \A y \in {a, b} : x >= y
  OBVIOUS
<1>2. Max({a, b}) \in {a, b} /\ \A y \in {a, b} : Max({a, b}) >= y
  BY <1>1 DEF Max
<1> QED BY <1>2

LEMMA DisinheritAfterTimeoutFound ==
  ASSUME NEW c, NEW s \in KType(c), NEW holder \in Tasks, NEW waiting \in Priorities, Found(s)
  PROVE  LET r == DisinheritAfterTimeout(s, holder, waiting)
         IN /\ r \in KType(c) /\ Found(r) /\ Keeps(s, r, holder)
            /\ r.uxMutexesHeld = s.uxMutexesHeld
<1>0. holder \in AllTasks /\ holder # Idle /\ 0 \in Priorities
  BY PrioritiesAreNumbers
<1> USE <1>0
<1> DEFINE p == Max({uxBasePriority[holder], waiting})
           r == Changed(s, holder, p, p)
<1>1. p \in Priorities
  <2>1. uxBasePriority[holder] \in Nat /\ waiting \in Nat /\ uxBasePriority[holder] \in Priorities
    BY PrioritiesAreNumbers
  <2> QED BY <2>1, MaxOfTwo
<1>2. r \in KType(c) /\ Found(r) /\ Keeps(s, r, holder) /\ r.uxMutexesHeld = s.uxMutexesHeld
  <2> HIDE DEF p
  <2> QED BY <1>1, ChangedFound DEF Changes
<1>3. DisinheritAfterTimeout(s, holder, waiting) =
        IF s.uxPriority[holder] = p \/ s.uxMutexesHeld[holder] # 1 THEN s ELSE r
  BY DEF DisinheritAfterTimeout, Changed
<1> HIDE DEF p, r
<1>4. Keeps(s, s, holder)
  BY DEF Keeps
<1>5. CASE s.uxPriority[holder] = p \/ s.uxMutexesHeld[holder] # 1
  BY <1>3, <1>4, <1>5
<1>6. CASE ~(s.uxPriority[holder] = p \/ s.uxMutexesHeld[holder] # 1)
  BY <1>2, <1>3, <1>6
<1> QED BY <1>5, <1>6

-----------------------------------------------------------------------------
(* The inductive invariant.                                                *)

SchedulerOK == k \in KType(k.pxCurrentTCB) /\ k.pxCurrentTCB \in AllTasks

MutexesOK ==
  mutex \in [Mutexes -> [xMutexHolder : Tasks \cup {NoTask}, uxRecursiveCallCount : Nat,
                         xTasksWaitingToReceive : Seq(Tasks)]]

TakerType ==
  [pc : {"app", "suspend", "blocked", "try", "test", "disinherit", "delayed"},
   call : [mutex : Mutexes \cup {"none"}, block : {"no", "timed", "forever"}],
   inherited : BOOLEAN, time : {"left", "over", "zero"}]

TakersOK ==
  /\ taker \in [Tasks -> TakerType]
  /\ \A t \in Tasks : taker[t].pc \notin {"app", "delayed"} => taker[t].call.mutex \in Mutexes

\* The tasks on the list of a mutex are those that block on it, each once.
WaitersExact ==
  \A m \in Mutexes :
    /\ IsItems(mutex[m].xTasksWaitingToReceive, Tasks)
    /\ Members(mutex[m].xTasksWaitingToReceive) =
         {t \in Tasks : taker[t].pc = "blocked" /\ taker[t].call.mutex = m}

MutexIInv ==
  /\ SchedulerOK /\ MutexesOK /\ TakersOK
  /\ Found(k) /\ InheritanceEnds /\ WaitersExact

LEMMA MutexInitInv == MutexInit => MutexIInv
<1> SUFFICES ASSUME MutexInit
             PROVE  MutexIInv
  OBVIOUS
<1> USE DEF MutexInit
<1>1. SchedulerOK
  <2>1. \E t \in AllTasks : uxBasePriority[t] = Max(Priorities)
    <3>1. Priorities # {} /\ Priorities \in SUBSET Priorities
      BY PrioritiesAreNumbers
    <3>2. Max(Priorities) \in Priorities
      BY <3>1, MaxOfPriorities
    <3> QED BY <3>2 DEF Priorities
  <2>2. k.pxCurrentTCB \in AllTasks
    BY <2>1
  <2>3. k.ready \in [Priorities -> SUBSET AllTasks]
    OBVIOUS
  <2>4. uxBasePriority \in [AllTasks -> Priorities]
    BY MutexAssumption DEF Priorities
  <2> QED BY <2>2, <2>3, <2>4 DEF SchedulerOK, KType
<1>2. MutexesOK
  BY DEF MutexesOK
<1>3. TakersOK
  BY DEF TakersOK, TakerType, NotTaking, TakeCall
<1>4. Found(k)
  BY PrioritiesAreNumbers, MutexAssumption DEF Found
<1>5. InheritanceEnds
  <2>1. ASSUME NEW t \in Tasks
        PROVE  {m \in Mutexes : Holder(m) = t} = {}
    BY MutexAssumption DEF Holder, AllTasks
  <2> QED BY <2>1, FS_EmptySet, PrioritiesAreNumbers DEF InheritanceEnds
<1>6. WaitersExact
  BY EmptyItems DEF WaitersExact, NotTaking
<1> QED BY <1>1, <1>2, <1>3, <1>4, <1>5, <1>6 DEF MutexIInv

-----------------------------------------------------------------------------
(* What most steps leave alone.                                            *)

LEMMA WaitersStay ==
  ASSUME WaitersExact,
         \A m \in Mutexes : mutex'[m].xTasksWaitingToReceive = mutex[m].xTasksWaitingToReceive,
         \A u \in Tasks : /\ taker'[u].pc = "blocked" <=> taker[u].pc = "blocked"
                          /\ taker[u].pc = "blocked" => taker'[u].call = taker[u].call
  PROVE  WaitersExact'
BY DEF WaitersExact

\* A priority changes only in the hands of a holder.
LEMMA HoldersStay ==
  ASSUME InheritanceEnds,
         \A m \in Mutexes : Holder(m)' = Holder(m),
         k'.uxMutexesHeld = k.uxMutexesHeld,
         \A u \in Tasks : k.uxMutexesHeld[u] = 0 => k'.uxPriority[u] = k.uxPriority[u]
  PROVE  InheritanceEnds'
<1>1. \A t \in Tasks : {m \in Mutexes : Holder(m)' = t} = {m \in Mutexes : Holder(m) = t}
  OBVIOUS
<1> QED BY <1>1 DEF InheritanceEnds

\* A holder holds a mutex, and the count of what a task holds is never short.
LEMMA HolderCounts ==
  ASSUME InheritanceEnds, NEW m \in Mutexes, NEW t \in Tasks, Holder(m) = t
  PROVE  k.uxMutexesHeld[t] # 0
<1>1. IsFiniteSet({n \in Mutexes : Holder(n) = t})
  BY MutexAssumption, FS_Subset
<1>2. {n \in Mutexes : Holder(n) = t} # {}
  OBVIOUS
<1>3. Cardinality({n \in Mutexes : Holder(n) = t}) # 0
  BY <1>1, <1>2, FS_EmptySet
<1> QED BY <1>3 DEF InheritanceEnds

LEMMA MutexTaken ==
  ASSUME InheritanceEnds, MutexesOK, k.uxMutexesHeld \in [Tasks -> Nat],
         NEW m \in Mutexes, NEW t \in Tasks, Holder(m) = NoTask,
         Holder(m)' = t, \A n \in Mutexes : n # m => Holder(n)' = Holder(n),
         k'.uxMutexesHeld = [k.uxMutexesHeld EXCEPT ![t] = k.uxMutexesHeld[t] + 1],
         k'.uxPriority = k.uxPriority
  PROVE  InheritanceEnds'
<1> DEFINE Of(u) == {n \in Mutexes : Holder(n) = u}
           OfNext(u) == {n \in Mutexes : Holder(n)' = u}
<1>1. \A u \in Tasks : u # NoTask
  BY MutexAssumption DEF AllTasks
<1>2. IsFiniteSet(Of(t))
  BY MutexAssumption, FS_Subset
<1>3. OfNext(t) = Of(t) \cup {m} /\ m \notin Of(t)
  BY <1>1
<1>4. Cardinality(OfNext(t)) = Cardinality(Of(t)) + 1
  <2> HIDE DEF Of, OfNext
  <2> QED BY <1>2, <1>3, FS_AddElement
<1>5. ASSUME NEW u \in Tasks, u # t
      PROVE  OfNext(u) = Of(u)
  BY <1>1, <1>5
<1>6. \A u \in Tasks : k.uxMutexesHeld[u] = Cardinality(Of(u))
  BY DEF InheritanceEnds
<1>7. ASSUME NEW u \in Tasks
      PROVE  /\ k'.uxMutexesHeld[u] = Cardinality(OfNext(u))
             /\ k'.uxMutexesHeld[u] = 0 => k'.uxPriority[u] = uxBasePriority[u]
  <2> HIDE DEF Of, OfNext
  <2>1. CASE u = t
    BY <1>4, <1>6, <2>1
  <2>2. CASE u # t
    BY <1>5, <1>6, <2>2 DEF InheritanceEnds
  <2> QED BY <2>1, <2>2
<1> QED BY <1>7 DEF InheritanceEnds

LEMMA MutexGiven ==
  ASSUME InheritanceEnds, k.uxMutexesHeld \in [Tasks -> Nat],
         NEW m \in Mutexes, NEW t \in Tasks, Holder(m) = t,
         Holder(m)' = NoTask, \A n \in Mutexes : n # m => Holder(n)' = Holder(n),
         k'.uxMutexesHeld = [k.uxMutexesHeld EXCEPT ![t] = k.uxMutexesHeld[t] - 1],
         \A u \in Tasks : u # t => k'.uxPriority[u] = k.uxPriority[u],
         k'.uxMutexesHeld[t] = 0 => k'.uxPriority[t] = uxBasePriority[t]
  PROVE  InheritanceEnds'
<1> DEFINE Of(u) == {n \in Mutexes : Holder(n) = u}
           OfNext(u) == {n \in Mutexes : Holder(n)' = u}
<1>1. \A u \in Tasks : u # NoTask
  BY MutexAssumption DEF AllTasks
<1>2. IsFiniteSet(Of(t))
  BY MutexAssumption, FS_Subset
<1>3. OfNext(t) = Of(t) \ {m} /\ m \in Of(t)
  BY <1>1
<1>4. Cardinality(OfNext(t)) = Cardinality(Of(t)) - 1
  <2> HIDE DEF Of, OfNext
  <2> QED BY <1>2, <1>3, FS_RemoveElement
<1>5. ASSUME NEW u \in Tasks, u # t
      PROVE  OfNext(u) = Of(u)
  BY <1>1, <1>5
<1>6. \A u \in Tasks : k.uxMutexesHeld[u] = Cardinality(Of(u))
  BY DEF InheritanceEnds
<1>7. ASSUME NEW u \in Tasks
      PROVE  /\ k'.uxMutexesHeld[u] = Cardinality(OfNext(u))
             /\ k'.uxMutexesHeld[u] = 0 => k'.uxPriority[u] = uxBasePriority[u]
  <2> HIDE DEF Of, OfNext
  <2>1. CASE u = t
    BY <1>4, <1>6, <2>1
  <2>2. CASE u # t
    BY <1>5, <1>6, <2>2 DEF InheritanceEnds
  <2> QED BY <2>1, <2>2
<1> QED BY <1>7 DEF InheritanceEnds

-----------------------------------------------------------------------------
(* The steps.                                                              *)

LEMMA SwitchToHighestInv == MutexIInv /\ SwitchToHighest => MutexIInv'
<1> SUFFICES ASSUME MutexIInv, SwitchToHighest
             PROVE  MutexIInv'
  OBVIOUS
<1> USE DEF MutexIInv
<1>1. PICK t \in k.ready[Max(k.uxTopReadyPriority)] : k' = [k EXCEPT !.pxCurrentTCB = t]
  BY DEF SwitchToHighest
<1>2. UNCHANGED <<mutex, taker>>
  BY DEF SwitchToHighest
<1>3. Max(k.uxTopReadyPriority) \in Priorities
  <2>1. k.uxTopReadyPriority \in SUBSET Priorities
    BY DEF SchedulerOK, KType
  <2>2. 0 \in k.uxTopReadyPriority
    BY PrioritiesAreNumbers DEF Found
  <2> QED BY <2>1, <2>2, MaxOfPriorities
<1>4. t \in AllTasks
  BY <1>3 DEF SchedulerOK, KType
<1>5. SchedulerOK' /\ Found(k)' /\ k'.uxMutexesHeld = k.uxMutexesHeld /\ k'.uxPriority = k.uxPriority
  BY <1>1, <1>4 DEF SchedulerOK, KType, Found
<1>6. InheritanceEnds'
  BY <1>2, <1>5, HoldersStay DEF Holder
<1> QED BY <1>2, <1>5, <1>6 DEF MutexesOK, TakersOK, WaitersExact

\* A step that neither the scheduler nor the mutexes see, of a task that does not
\* block before it or after.
LEMMA TakerMoves ==
  ASSUME MutexIInv, UNCHANGED <<k, mutex>>, TakersOK', NEW t \in Tasks,
         taker[t].pc # "blocked", taker'[t].pc # "blocked",
         \A u \in Tasks : u # t => taker'[u] = taker[u]
  PROVE  MutexIInv'
<1>1. WaitersExact'
  BY WaitersStay DEF MutexIInv
<1> QED BY <1>1 DEF MutexIInv, SchedulerOK, MutexesOK, Found, InheritanceEnds, Holder

LEMMA TakeReturnsOK ==
  ASSUME TakersOK, NEW t \in Tasks, TakeReturns(t)
  PROVE  /\ TakersOK' /\ taker'[t].pc = "app"
         /\ \A u \in Tasks : u # t => taker'[u] = taker[u]
BY DEF TakersOK, TakerType, TakeReturns, NotTaking, TakeCall

LEMMA TakerChanges ==
  ASSUME TakersOK, NEW t \in Tasks, NEW x \in TakerType,
         x.pc \notin {"app", "delayed"} => x.call.mutex \in Mutexes,
         taker' = [taker EXCEPT ![t] = x]
  PROVE  TakersOK' /\ taker'[t] = x /\ \A u \in Tasks : u # t => taker'[u] = taker[u]
BY DEF TakersOK

LEMMA SemaphoreTakeInv ==
  ASSUME MutexIInv, NEW t \in Tasks, xQueueSemaphoreTake(t)
  PROVE  MutexIInv'
<1> USE DEF MutexIInv
<1>1. PICK c \in IF taker[t].pc = "app" THEN TakeCalls[t] ELSE {taker[t].call} :
        Holder(c.mutex) # t /\ SemaphoreTake(t, c)
  BY DEF xQueueSemaphoreTake
<1>2. taker[t].pc \in {"app", "try"}
  BY DEF xQueueSemaphoreTake, HighestRuns
<1>3. c \in [mutex : Mutexes \cup {"none"}, block : {"no", "timed", "forever"}] /\ c.mutex \in Mutexes
  <2>1. CASE taker[t].pc = "app"
    <3>1. c \in TakeCalls[t] /\ TakeCalls[t] \subseteq [mutex : Mutexes, block : {"no", "timed", "forever"}]
      BY <2>1, MutexAssumption
    <3> QED BY <3>1
  <2>2. CASE taker[t].pc = "try"
    BY <2>2 DEF TakersOK, TakerType
  <2> QED BY <1>2, <2>1, <2>2
<1>4. CASE Holder(c.mutex) = NoTask
  <2> DEFINE m == c.mutex
             count == IF c.mutex \in RecursiveMutexes THEN 1 ELSE 0
  <2>1. mutex' = [mutex EXCEPT ![m].xMutexHolder = t, ![m].uxRecursiveCallCount = count]
    BY <1>1, <1>4 DEF SemaphoreTake
  <2>2. k' = [k EXCEPT !.uxMutexesHeld = [k.uxMutexesHeld EXCEPT ![t] = k.uxMutexesHeld[t] + 1]]
    BY <1>1, <1>4 DEF SemaphoreTake
  <2>3. TakeReturns(t)
    BY <1>1, <1>4 DEF SemaphoreTake
  <2>4. count \in Nat /\ m \in Mutexes
    BY <1>3
  <2> HIDE DEF count
  <2>5. /\ MutexesOK' /\ mutex'[m].xMutexHolder = t
        /\ \A n \in Mutexes : n # m => mutex'[n] = mutex[n]
        /\ \A n \in Mutexes : mutex'[n].xTasksWaitingToReceive = mutex[n].xTasksWaitingToReceive
    BY <2>1, <2>4 DEF MutexesOK
  <2>6. k.uxMutexesHeld \in [Tasks -> Nat]
    BY DEF SchedulerOK, KType
  <2>7. [k.uxMutexesHeld EXCEPT ![t] = k.uxMutexesHeld[t] + 1] \in [Tasks -> Nat]
    BY <2>6
  <2>8. /\ SchedulerOK' /\ Found(k)' /\ k'.uxPriority = k.uxPriority
        /\ k'.uxMutexesHeld = [k.uxMutexesHeld EXCEPT ![t] = k.uxMutexesHeld[t] + 1]
    BY <2>2, <2>7 DEF SchedulerOK, KType, Found
  <2>9. InheritanceEnds'
    BY <1>4, <2>4, <2>5, <2>6, <2>8, MutexTaken DEF Holder
  <2>10. /\ TakersOK' /\ taker'[t].pc = "app"
         /\ \A u \in Tasks : u # t => taker'[u] = taker[u]
    BY <2>3, TakeReturnsOK
  <2>11. WaitersExact'
    BY <1>2, <2>5, <2>10, WaitersStay
  <2> QED BY <2>5, <2>8, <2>9, <2>10, <2>11
<1>5. CASE Holder(c.mutex) # NoTask
  <2>1. UNCHANGED <<k, mutex>>
    BY <1>1, <1>5 DEF SemaphoreTake
  <2>2. CASE c.block = "no" \/ taker[t].time = "zero"
    <3>1. TakeReturns(t)
      BY <1>1, <1>5, <2>2 DEF SemaphoreTake
    <3> QED BY <1>2, <2>1, <3>1, TakeReturnsOK, TakerMoves
  <2>3. CASE ~(c.block = "no" \/ taker[t].time = "zero")
    <3>1. taker' = [taker EXCEPT ![t] = [taker[t] EXCEPT !.pc = "suspend", !.call = c]]
      BY <1>1, <1>5, <2>3 DEF SemaphoreTake
    <3> DEFINE x == [taker[t] EXCEPT !.pc = "suspend", !.call = c]
    <3>2. x \in TakerType /\ x.pc = "suspend" /\ x.call = c
      BY <1>3 DEF TakersOK, TakerType
    <3> HIDE DEF x
    <3>3. TakersOK' /\ taker'[t] = x /\ \A u \in Tasks : u # t => taker'[u] = taker[u]
      BY <1>3, <3>1, <3>2, TakerChanges DEF x
    <3> QED BY <1>2, <2>1, <3>2, <3>3, TakerMoves
  <2> QED BY <2>2, <2>3
<1> QED BY <1>4, <1>5

LEMMA TakeRecursiveInv ==
  ASSUME MutexIInv, NEW t \in Tasks, xQueueTakeMutexRecursive(t)
  PROVE  MutexIInv'
<1> USE DEF MutexIInv
<1>1. UNCHANGED <<k, taker>>
  BY DEF xQueueTakeMutexRecursive
<1>2. PICK c \in TakeCalls[t] :
        /\ c.mutex \in RecursiveMutexes
        /\ mutex' = [mutex EXCEPT ![c.mutex].uxRecursiveCallCount = @ + 1]
  BY DEF xQueueTakeMutexRecursive
<1>3. c.mutex \in Mutexes
  BY <1>2, MutexAssumption
<1>4. /\ MutexesOK'
      /\ \A n \in Mutexes : mutex'[n].xTasksWaitingToReceive = mutex[n].xTasksWaitingToReceive
      /\ \A n \in Mutexes : mutex'[n].xMutexHolder = mutex[n].xMutexHolder
  BY <1>2, <1>3 DEF MutexesOK
<1>5. WaitersExact'
  BY <1>1, <1>4, WaitersStay
<1>6. InheritanceEnds'
  BY <1>1, <1>4, HoldersStay DEF Holder
<1> QED BY <1>1, <1>4, <1>5, <1>6 DEF SchedulerOK, TakersOK, Found

\* The task that waits for a mutex is in the one list, and in no other.
LEMMA WaitersChange ==
  ASSUME WaitersExact, NEW m \in Mutexes, NEW t \in Tasks,
         \A n \in Mutexes : n # m =>
           mutex'[n].xTasksWaitingToReceive = mutex[n].xTasksWaitingToReceive,
         IsItems(mutex'[m].xTasksWaitingToReceive, Tasks),
         \A u \in Tasks : u # t => taker'[u] = taker[u],
         \/ /\ taker[t].pc # "blocked" /\ taker'[t].pc = "blocked" /\ taker'[t].call.mutex = m
            /\ Members(mutex'[m].xTasksWaitingToReceive) =
                 Members(mutex[m].xTasksWaitingToReceive) \cup {t}
         \/ /\ taker[t].pc = "blocked" /\ taker[t].call.mutex = m /\ taker'[t].pc # "blocked"
            /\ Members(mutex'[m].xTasksWaitingToReceive) =
                 Members(mutex[m].xTasksWaitingToReceive) \ {t}
  PROVE  WaitersExact'
<1> DEFINE Blocked(n) == {u \in Tasks : taker[u].pc = "blocked" /\ taker[u].call.mutex = n}
           BlockedNext(n) == {u \in Tasks : taker'[u].pc = "blocked" /\ taker'[u].call.mutex = n}
<1>1. \A n \in Mutexes : /\ IsItems(mutex[n].xTasksWaitingToReceive, Tasks)
                         /\ Members(mutex[n].xTasksWaitingToReceive) = Blocked(n)
  BY DEF WaitersExact
<1>2. \A n \in Mutexes : n # m => BlockedNext(n) = Blocked(n)
  OBVIOUS
<1>3. BlockedNext(m) = Members(mutex'[m].xTasksWaitingToReceive)
  <2>1. CASE taker[t].pc # "blocked"
    BY <1>1, <2>1
  <2>2. CASE taker[t].pc = "blocked"
    BY <1>1, <2>2
  <2> QED BY <2>1, <2>2
<1>4. ASSUME NEW n \in Mutexes
      PROVE  /\ IsItems(mutex'[n].xTasksWaitingToReceive, Tasks)
             /\ Members(mutex'[n].xTasksWaitingToReceive) = BlockedNext(n)
  BY <1>1, <1>2, <1>3
<1> QED BY <1>4 DEF WaitersExact

LEMMA BlockInv ==
  ASSUME MutexIInv, NEW t \in Tasks, Block(t)
  PROVE  MutexIInv'
<1> USE DEF MutexIInv
<1> DEFINE m == taker[t].call.mutex
           s == PriorityInherit(k, Holder(m))
<1>1. taker[t].pc = "suspend" /\ t = k.pxCurrentTCB
  BY DEF Block, HighestRuns
<1>2. m \in Mutexes /\ taker[t] \in TakerType
  BY <1>1 DEF TakersOK
<1>3. ASSUME UNCHANGED <<k, mutex>>, NEW x \in {[taker[t] EXCEPT !.pc = "test", !.time = "zero"],
                                                  [taker[t] EXCEPT !.pc = "try"]},
             taker' = [taker EXCEPT ![t] = x]
      PROVE  MutexIInv'
  <2>1. x \in TakerType /\ x.pc # "blocked" /\ x.call.mutex = m
    BY <1>2 DEF TakerType
  <2>2. TakersOK' /\ taker'[t] = x /\ \A u \in Tasks : u # t => taker'[u] = taker[u]
    BY <1>2, <1>3, <2>1, TakerChanges
  <2> QED BY <1>1, <1>3, <2>1, <2>2, TakerMoves
<1>4. ASSUME Holder(m) # NoTask, k' = RemoveFromReady(s, t, s.uxPriority[t]),
             taker' = [taker EXCEPT ![t] = [taker[t] EXCEPT !.pc = "blocked",
                                                            !.inherited = Inherits(k, Holder(m))]],
             mutex' = [mutex EXCEPT ![m].xTasksWaitingToReceive =
                         SortedInsert(@, t, [u \in AllTasks |-> 0 - s.eventPriority[u]])]
      PROVE  MutexIInv'
  <2> DEFINE c == k.pxCurrentTCB
             holder == Holder(m)
             r == RemoveFromReady(s, t, s.uxPriority[t])
             list == mutex[m].xTasksWaitingToReceive
             new == SortedInsert(list, t, [u \in AllTasks |-> 0 - s.eventPriority[u]])
  <2>1. holder \in Tasks /\ c \in AllTasks /\ k \in KType(c)
    BY <1>2, <1>4 DEF MutexesOK, SchedulerOK, Holder
  <2>2. s \in KType(c) /\ Found(s) /\ Keeps(k, s, holder) /\ s.uxMutexesHeld = k.uxMutexesHeld
    <3> HIDE DEF c, holder
    <3> QED BY <2>1, PriorityInheritFound DEF holder
  <2> HIDE DEF s
  <2>3. r \in KType(c) /\ Found(r) /\ r.uxPriority = s.uxPriority /\ r.uxMutexesHeld = s.uxMutexesHeld
    <3>1. RemovedFrom(s, t, s.uxPriority[t], r, c)
      BY <2>2, RemoveFromReadyFields
    <3>2. Found(r)
      BY <2>2, RemoveFromReadyFound
    <3> QED BY <3>1, <3>2 DEF RemovedFrom
  <2>4. k' = r
    BY <1>4
  <2> HIDE DEF r
  <2>5. SchedulerOK' /\ Found(k)'
    <3>1. r.pxCurrentTCB = c
      BY <2>3 DEF KType
    <3> QED BY <2>1, <2>3, <2>4, <3>1 DEF SchedulerOK
  <2>6. IsItems(list, Tasks) /\ t \notin Members(list)
    BY <1>1, <1>2 DEF WaitersExact
  <2>7. IsItems(new, Tasks) /\ Members(new) = Members(list) \cup {t}
    <3> HIDE DEF list
    <3> QED BY <2>6, SortedInsertItems
  <2>8. mutex' = [mutex EXCEPT ![m] = [mutex[m] EXCEPT !.xTasksWaitingToReceive = new]]
    BY <1>4
  <2> HIDE DEF new
  <2>9. /\ MutexesOK' /\ mutex'[m].xTasksWaitingToReceive = new
        /\ \A n \in Mutexes : n # m => mutex'[n] = mutex[n]
        /\ \A n \in Mutexes : mutex'[n].xMutexHolder = mutex[n].xMutexHolder
    BY <1>2, <2>7, <2>8 DEF MutexesOK, IsItems
  <2> DEFINE x == [taker[t] EXCEPT !.pc = "blocked", !.inherited = Inherits(k, Holder(m))]
  <2>10. x \in TakerType /\ x.pc = "blocked" /\ x.call.mutex = m
    <3>1. Inherits(k, Holder(m)) \in BOOLEAN
      BY DEF Inherits
    <3> QED BY <1>2, <3>1 DEF TakerType
  <2>11. taker' = [taker EXCEPT ![t] = x]
    BY <1>4
  <2> HIDE DEF x
  <2>12. TakersOK' /\ taker'[t] = x /\ \A u \in Tasks : u # t => taker'[u] = taker[u]
    BY <1>2, <2>10, <2>11, TakerChanges
  <2>13. WaitersExact'
    <3>1. Members(mutex'[m].xTasksWaitingToReceive) = Members(mutex[m].xTasksWaitingToReceive) \cup {t}
      BY <2>7, <2>9
    <3> HIDE DEF m
    <3> QED BY <1>1, <1>2, <2>7, <2>9, <2>10, <2>12, <3>1, WaitersChange
  <2>14. InheritanceEnds'
    <3>1. k.uxMutexesHeld[holder] # 0
      <4> HIDE DEF m
      <4> QED BY <1>2, <2>1, HolderCounts DEF holder
    <3>2. \A u \in Tasks : k.uxMutexesHeld[u] = 0 => k'.uxPriority[u] = k.uxPriority[u]
      BY <2>2, <2>3, <2>4, <3>1, PrioritiesAreNumbers DEF Keeps
    <3> QED BY <2>2, <2>3, <2>4, <2>9, <3>2, HoldersStay DEF Holder
  <2> QED BY <2>5, <2>9, <2>12, <2>13, <2>14
<1> QED BY <1>3, <1>4 DEF Block

LEMMA TestAfterTimeoutInv ==
  ASSUME MutexIInv, NEW t \in Tasks, TestAfterTimeout(t)
  PROVE  MutexIInv'
<1> USE DEF MutexIInv
<1>1. taker[t].pc = "test" /\ UNCHANGED <<k, mutex>>
  BY DEF TestAfterTimeout, HighestRuns
<1>2. taker[t].call.mutex \in Mutexes /\ taker[t] \in TakerType
  BY <1>1 DEF TakersOK
<1>3. ASSUME NEW p \in {"try", "disinherit"}, taker' = [taker EXCEPT ![t] = [taker[t] EXCEPT !.pc = p]]
      PROVE  MutexIInv'
  <2> DEFINE x == [taker[t] EXCEPT !.pc = p]
  <2>1. x \in TakerType /\ x.pc # "blocked" /\ x.call.mutex \in Mutexes
    BY <1>2 DEF TakerType
  <2> HIDE DEF x
  <2>2. TakersOK' /\ taker'[t] = x /\ \A u \in Tasks : u # t => taker'[u] = taker[u]
    BY <1>3, <2>1, TakerChanges DEF x
  <2> QED BY <1>1, <2>1, <2>2, TakerMoves
<1>4. ASSUME TakeReturns(t)
      PROVE  MutexIInv'
  BY <1>1, <1>4, TakeReturnsOK, TakerMoves
<1> QED BY <1>3, <1>4 DEF TestAfterTimeout

LEMMA HighestWaitingIsAPriority ==
  ASSUME SchedulerOK, NEW list, IsItems(list, Tasks)
  PROVE  HighestWaiting(list) \in Priorities
<1>1. CASE list = <<>>
  BY <1>1, PrioritiesAreNumbers DEF HighestWaiting
<1>2. CASE list # <<>>
  <2>1. Head(list) \in AllTasks
    BY <1>2, TailItems, PrioritiesAreNumbers
  <2> QED BY <1>2, <2>1 DEF HighestWaiting, SchedulerOK, KType
<1> QED BY <1>1, <1>2

LEMMA TimeoutInv ==
  ASSUME MutexIInv, NEW t \in Tasks, vTaskPriorityDisinheritAfterTimeout(t)
  PROVE  MutexIInv'
<1> USE DEF MutexIInv
<1> DEFINE m == taker[t].call.mutex
           c == k.pxCurrentTCB
           holder == Holder(m)
           waiting == HighestWaiting(mutex[m].xTasksWaitingToReceive)
           r == DisinheritAfterTimeout(k, holder, waiting)
<1>1. taker[t].pc = "disinherit" /\ UNCHANGED mutex /\ TakeReturns(t)
  BY DEF vTaskPriorityDisinheritAfterTimeout, HighestRuns
<1>2. m \in Mutexes
  BY <1>1 DEF TakersOK
<1>3. TakersOK' /\ taker'[t].pc = "app" /\ \A u \in Tasks : u # t => taker'[u] = taker[u]
  BY <1>1, TakeReturnsOK
<1>4. CASE holder = NoTask
  <2>1. k' = k
    BY <1>4 DEF vTaskPriorityDisinheritAfterTimeout
  <2> QED BY <1>1, <1>3, <2>1, TakerMoves
<1>5. CASE holder # NoTask
  <2>1. k' = r
    BY <1>5 DEF vTaskPriorityDisinheritAfterTimeout
  <2>2. holder \in Tasks /\ k \in KType(c)
    BY <1>2, <1>5 DEF MutexesOK, SchedulerOK, Holder
  <2>3. waiting \in Priorities
    BY <1>2, HighestWaitingIsAPriority DEF WaitersExact
  <2>4. k.uxMutexesHeld[holder] # 0
    <3> HIDE DEF m
    <3> QED BY <1>2, <2>2, HolderCounts DEF holder
  <2> HIDE DEF c, holder, waiting
  <2>5. r \in KType(c) /\ Found(r) /\ Keeps(k, r, holder) /\ r.uxMutexesHeld = k.uxMutexesHeld
    BY <2>2, <2>3, DisinheritAfterTimeoutFound
  <2> HIDE DEF r
  <2>6. r.pxCurrentTCB = c
    BY <2>5 DEF KType
  <2>7. SchedulerOK' /\ Found(k)'
    BY <2>1, <2>5, <2>6 DEF SchedulerOK, c
  <2>8. \A u \in Tasks : k.uxMutexesHeld[u] = 0 => k'.uxPriority[u] = k.uxPriority[u]
    BY <2>1, <2>4, <2>5, PrioritiesAreNumbers DEF Keeps
  <2>9. InheritanceEnds'
    BY <1>1, <2>1, <2>5, <2>8, HoldersStay DEF Holder
  <2>10. WaitersExact'
    BY <1>1, <1>3, WaitersStay
  <2> QED BY <1>1, <1>3, <2>7, <2>9, <2>10 DEF MutexesOK
<1> QED BY <1>4, <1>5

LEMMA GiveInv ==
  ASSUME MutexIInv, NEW t \in Tasks, xQueueGive(t)
  PROVE  MutexIInv'
<1> USE DEF MutexIInv
<1>1. PICK m \in Mutexes :
        /\ Holder(m) = t
        /\ LET list == mutex[m].xTasksWaitingToReceive
               s == PriorityDisinherit(k, t)
           IN IF mutex[m].uxRecursiveCallCount > 1
                THEN /\ mutex' = [mutex EXCEPT ![m].uxRecursiveCallCount = @ - 1]
                     /\ UNCHANGED <<k, taker>>
                ELSE /\ mutex' = [mutex EXCEPT ![m] =
                           [xMutexHolder |-> NoTask, uxRecursiveCallCount |-> 0,
                            xTasksWaitingToReceive |-> IF list = <<>> THEN list ELSE Tail(list)]]
                     /\ k' = IF list = <<>> THEN s ELSE AddToReady(s, Head(list))
                     /\ taker' = IF list = <<>> THEN taker
                                ELSE [taker EXCEPT ![Head(list)].pc = "try"]
  BY DEF xQueueGive
<1> DEFINE c == k.pxCurrentTCB
           list == mutex[m].xTasksWaitingToReceive
           s == PriorityDisinherit(k, t)
<1>2. CASE mutex[m].uxRecursiveCallCount > 1
  <2>1. mutex' = [mutex EXCEPT ![m].uxRecursiveCallCount = @ - 1] /\ UNCHANGED <<k, taker>>
    BY <1>1, <1>2
  <2>2. mutex[m].uxRecursiveCallCount - 1 \in Nat
    BY <1>2 DEF MutexesOK
  <2>3. /\ MutexesOK'
        /\ \A n \in Mutexes : mutex'[n].xTasksWaitingToReceive = mutex[n].xTasksWaitingToReceive
        /\ \A n \in Mutexes : mutex'[n].xMutexHolder = mutex[n].xMutexHolder
    BY <2>1, <2>2 DEF MutexesOK
  <2>4. WaitersExact'
    BY <2>1, <2>3, WaitersStay
  <2>5. InheritanceEnds'
    BY <2>1, <2>3, HoldersStay DEF Holder
  <2> QED BY <2>1, <2>3, <2>4, <2>5 DEF SchedulerOK, TakersOK, Found
<1>3. CASE ~(mutex[m].uxRecursiveCallCount > 1)
  <2> DEFINE rest == IF list = <<>> THEN list ELSE Tail(list)
             given == [xMutexHolder |-> NoTask, uxRecursiveCallCount |-> 0,
                       xTasksWaitingToReceive |-> rest]
  <2>1. /\ mutex' = [mutex EXCEPT ![m] = given]
        /\ k' = IF list = <<>> THEN s ELSE AddToReady(s, Head(list))
        /\ taker' = IF list = <<>> THEN taker ELSE [taker EXCEPT ![Head(list)].pc = "try"]
    BY <1>1, <1>3
  <2>2. /\ IsItems(list, Tasks)
        /\ Members(list) = {u \in Tasks : taker[u].pc = "blocked" /\ taker[u].call.mutex = m}
    BY DEF WaitersExact
  <2>3. k \in KType(c) /\ c \in AllTasks /\ k.uxMutexesHeld[t] # 0
    BY <1>1, HolderCounts DEF SchedulerOK
  <2>4. /\ s \in KType(c) /\ Found(s) /\ Keeps(k, s, t)
        /\ s.uxMutexesHeld = [k.uxMutexesHeld EXCEPT ![t] = k.uxMutexesHeld[t] - 1]
        /\ s.uxMutexesHeld[t] = 0 => s.uxPriority[t] = uxBasePriority[t]
    <3> HIDE DEF c
    <3> QED BY <2>3, PriorityDisinheritFound
  <2> HIDE DEF s, list, c
  <2>5. /\ k' \in KType(c) /\ Found(k') /\ k'.uxPriority = s.uxPriority
        /\ k'.uxMutexesHeld = s.uxMutexesHeld
        /\ list # <<>> => Head(list) \in Tasks
    <3>1. CASE list = <<>>
      BY <2>1, <2>4, <3>1
    <3>2. CASE list # <<>>
      <4>1. Head(list) \in Tasks
        BY <2>2, <3>2, TailItems
      <4>2. k' = AddToReady(s, Head(list))
        BY <2>1, <3>2
      <4> QED BY <2>4, <4>1, <4>2, AddToReadyFound
    <3> QED BY <3>1, <3>2
  <2>6. SchedulerOK' /\ Found(k)'
    <3>1. k'.pxCurrentTCB = c
      BY <2>5 DEF KType
    <3> QED BY <2>3, <2>5, <3>1 DEF SchedulerOK
  <2>7. IsItems(rest, Tasks)
    BY <2>2, TailItems
  <2>8. given \in [xMutexHolder : Tasks \cup {NoTask}, uxRecursiveCallCount : Nat,
                   xTasksWaitingToReceive : Seq(Tasks)]
    <3>1. rest \in Seq(Tasks)
      BY <2>7 DEF IsItems
    <3> HIDE DEF rest
    <3> QED BY <3>1
  <2>9. given.xMutexHolder = NoTask /\ given.xTasksWaitingToReceive = rest
    OBVIOUS
  <2> HIDE DEF given
  <2>10. MutexesOK' /\ mutex'[m] = given /\ \A n \in Mutexes : n # m => mutex'[n] = mutex[n]
    BY <2>1, <2>8 DEF MutexesOK
  <2>11. InheritanceEnds'
    <3>1. k.uxMutexesHeld \in [Tasks -> Nat]
      BY <2>3 DEF KType
    <3>2. Holder(m)' = NoTask /\ \A n \in Mutexes : n # m => Holder(n)' = Holder(n)
      BY <2>9, <2>10 DEF Holder
    <3>3. \A u \in Tasks : u # t => k'.uxPriority[u] = k.uxPriority[u]
      BY <2>4, <2>5, PrioritiesAreNumbers DEF Keeps
    <3>4. /\ k'.uxMutexesHeld = [k.uxMutexesHeld EXCEPT ![t] = k.uxMutexesHeld[t] - 1]
          /\ k'.uxMutexesHeld[t] = 0 => k'.uxPriority[t] = uxBasePriority[t]
      BY <2>4, <2>5
    <3>5. Holder(m) = t
      BY <1>1
    <3> QED BY <3>1, <3>2, <3>3, <3>4, <3>5, MutexGiven
  <2>12. TakersOK' /\ WaitersExact'
    <3>1. CASE list = <<>>
      <4>1. taker' = taker /\ rest = list
        BY <2>1, <3>1
      <4>2. \A n \in Mutexes : mutex'[n].xTasksWaitingToReceive = mutex[n].xTasksWaitingToReceive
        BY <2>9, <2>10, <4>1 DEF list
      <4> QED BY <4>1, <4>2, WaitersStay DEF TakersOK
    <3>2. CASE list # <<>>
      <4> DEFINE h == Head(list)
                 x == [taker[h] EXCEPT !.pc = "try"]
      <4>1. h \in Tasks /\ h \in Members(list) /\ Members(rest) = Members(list) \ {h}
        BY <2>2, <3>2, TailItems
      <4>2. taker[h].pc = "blocked" /\ taker[h].call.mutex = m /\ taker[h] \in TakerType
        BY <2>2, <4>1 DEF TakersOK
      <4>3. x \in TakerType /\ x.pc = "try" /\ x.call.mutex = m
        BY <4>2 DEF TakerType
      <4>4. taker' = [taker EXCEPT ![h] = x]
        BY <2>1, <3>2
      <4> HIDE DEF x, h
      <4>5. TakersOK' /\ taker'[h] = x /\ \A u \in Tasks : u # h => taker'[u] = taker[u]
        BY <4>1, <4>3, <4>4, TakerChanges
      <4>6. /\ mutex'[m].xTasksWaitingToReceive = rest
            /\ \A n \in Mutexes : n # m =>
                 mutex'[n].xTasksWaitingToReceive = mutex[n].xTasksWaitingToReceive
        BY <2>9, <2>10
      <4>7. Members(mutex'[m].xTasksWaitingToReceive) = Members(mutex[m].xTasksWaitingToReceive) \ {h}
        BY <4>1, <4>6 DEF list
      <4> HIDE DEF rest
      <4>8. WaitersExact'
        BY <2>7, <4>1, <4>2, <4>3, <4>5, <4>6, <4>7, WaitersChange
      <4> QED BY <4>5, <4>8
    <3> QED BY <3>1, <3>2
  <2> QED BY <2>6, <2>10, <2>11, <2>12
<1> QED BY <1>2, <1>3

LEMMA DelayInv ==
  ASSUME MutexIInv, NEW t \in Tasks, Delay(t)
  PROVE  MutexIInv'
<1> USE DEF MutexIInv
<1> DEFINE c == k.pxCurrentTCB
           r == RemoveFromReady(k, t, k.uxPriority[t])
           x == [taker[t] EXCEPT !.pc = "delayed"]
<1>1. taker[t].pc = "app" /\ UNCHANGED mutex /\ k' = r /\ taker' = [taker EXCEPT ![t] = x]
  BY DEF Delay, HighestRuns
<1>2. k \in KType(c) /\ c \in AllTasks
  BY DEF SchedulerOK
<1>3. r \in KType(c) /\ Found(r) /\ r.uxPriority = k.uxPriority /\ r.uxMutexesHeld = k.uxMutexesHeld
  <2>1. RemovedFrom(k, t, k.uxPriority[t], r, c)
    BY <1>2, RemoveFromReadyFields
  <2>2. Found(r)
    BY <1>2, RemoveFromReadyFound
  <2> QED BY <2>1, <2>2 DEF RemovedFrom
<1> HIDE DEF r
<1>4. r.pxCurrentTCB = c
  BY <1>3 DEF KType
<1>5. SchedulerOK' /\ Found(k)'
  BY <1>1, <1>2, <1>3, <1>4 DEF SchedulerOK
<1>6. x \in TakerType /\ x.pc = "delayed"
  BY DEF TakersOK, TakerType
<1> HIDE DEF x
<1>7. TakersOK' /\ taker'[t] = x /\ \A u \in Tasks : u # t => taker'[u] = taker[u]
  BY <1>1, <1>6, TakerChanges
<1>8. WaitersExact'
  BY <1>1, <1>6, <1>7, WaitersStay
<1>9. InheritanceEnds'
  BY <1>1, <1>3, HoldersStay DEF Holder
<1> QED BY <1>1, <1>5, <1>7, <1>8, <1>9 DEF MutexesOK

LEMMA WakeUpInv ==
  ASSUME MutexIInv, NEW t \in Tasks, WakeUp(t)
  PROVE  MutexIInv'
<1> USE DEF MutexIInv
<1> DEFINE c == k.pxCurrentTCB
           r == AddToReady(k, t)
<1>1. k' = r
  BY DEF WakeUp
<1>2. k \in KType(c) /\ c \in AllTasks
  BY DEF SchedulerOK
<1>3. r \in KType(c) /\ Found(r) /\ r.uxPriority = k.uxPriority /\ r.uxMutexesHeld = k.uxMutexesHeld
  BY <1>2, AddToReadyFound
<1> HIDE DEF r
<1>4. r.pxCurrentTCB = c
  BY <1>3 DEF KType
<1>5. SchedulerOK' /\ Found(k)'
  BY <1>1, <1>2, <1>3, <1>4 DEF SchedulerOK
<1>6. CASE taker[t].pc = "delayed" /\ TakeReturns(t) /\ UNCHANGED mutex
  <2>1. TakersOK' /\ taker'[t].pc = "app" /\ \A u \in Tasks : u # t => taker'[u] = taker[u]
    BY <1>6, TakeReturnsOK
  <2>2. WaitersExact'
    BY <1>6, <2>1, WaitersStay
  <2>3. InheritanceEnds'
    BY <1>1, <1>3, <1>6, HoldersStay DEF Holder
  <2> QED BY <1>5, <1>6, <2>1, <2>2, <2>3 DEF MutexesOK
<1> DEFINE m == taker[t].call.mutex
           x == [taker[t] EXCEPT !.pc = "try", !.time = "over"]
<1>7. CASE /\ taker[t].pc = "blocked" /\ taker' = [taker EXCEPT ![t] = x]
           /\ mutex' = [mutex EXCEPT ![m].xTasksWaitingToReceive = Without(@, t)]
  <2> DEFINE list == mutex[m].xTasksWaitingToReceive
             rest == Without(list, t)
  <2>1. m \in Mutexes /\ taker[t] \in TakerType
    BY <1>7 DEF TakersOK
  <2>2. x \in TakerType /\ x.pc = "try" /\ x.call.mutex = m
    BY <2>1 DEF TakerType
  <2> HIDE DEF x
  <2>3. TakersOK' /\ taker'[t] = x /\ \A u \in Tasks : u # t => taker'[u] = taker[u]
    BY <1>7, <2>1, <2>2, TakerChanges
  <2>4. IsItems(list, Tasks)
    BY <2>1 DEF WaitersExact
  <2>5. IsItems(rest, Tasks) /\ Members(rest) = Members(list) \ {t}
    <3> HIDE DEF list
    <3> QED BY <2>4, WithoutItems
  <2>6. mutex' = [mutex EXCEPT ![m] = [mutex[m] EXCEPT !.xTasksWaitingToReceive = rest]]
    BY <1>7
  <2> HIDE DEF rest
  <2>7. /\ MutexesOK' /\ mutex'[m].xTasksWaitingToReceive = rest
        /\ \A n \in Mutexes : n # m => mutex'[n] = mutex[n]
        /\ \A n \in Mutexes : mutex'[n].xMutexHolder = mutex[n].xMutexHolder
    BY <2>1, <2>5, <2>6 DEF MutexesOK, IsItems
  <2>8. WaitersExact'
    <3>1. Members(mutex'[m].xTasksWaitingToReceive) = Members(mutex[m].xTasksWaitingToReceive) \ {t}
      BY <2>5, <2>7
    <3>2. taker[t].call.mutex = m /\ taker[t].pc = "blocked"
      BY <1>7
    <3> HIDE DEF m
    <3> QED BY <2>1, <2>2, <2>3, <2>5, <2>7, <3>1, <3>2, WaitersChange
  <2>9. InheritanceEnds'
    BY <1>1, <1>3, <2>7, HoldersStay DEF Holder
  <2> QED BY <1>5, <2>3, <2>7, <2>8, <2>9
<1> QED BY <1>6, <1>7 DEF WakeUp

LEMMA MutexNextInv == MutexIInv /\ [MutexNext]_mutexVars => MutexIInv'
<1>1. ASSUME MutexIInv, UNCHANGED mutexVars
      PROVE  MutexIInv'
  BY <1>1 DEF mutexVars, MutexIInv, SchedulerOK, MutexesOK, TakersOK, Found, InheritanceEnds,
              WaitersExact, Holder
<1>2. ASSUME MutexIInv, NEW t \in Tasks,
             \/ xQueueSemaphoreTake(t) \/ xQueueTakeMutexRecursive(t) \/ Block(t)
             \/ TestAfterTimeout(t) \/ vTaskPriorityDisinheritAfterTimeout(t)
             \/ xQueueGive(t) \/ Delay(t) \/ WakeUp(t)
      PROVE  MutexIInv'
  BY <1>2, SemaphoreTakeInv, TakeRecursiveInv, BlockInv, TestAfterTimeoutInv, TimeoutInv,
     GiveInv, DelayInv, WakeUpInv
<1> QED BY <1>1, <1>2, SwitchToHighestInv DEF MutexNext

(* The inductive invariant: the types; ready lists and bitmap; the counts of   *)
(* mutexes; and the waiting lists, which hold each task that blocks once.      *)
THEOREM MutexInvariant == MutexSpec => []MutexIInv
BY MutexInitInv, MutexNextInv, PTL DEF MutexSpec

(* However priorities are lent, given back and taken back at a time-out, by    *)
(* whatever nesting of takes: a ready task is on the list of its priority and  *)
(* its bit is set, so that the scheduler never overlooks it.  The assertion    *)
(* SelectsFromReady, which the same code breaks, is the other half of it.      *)
THEOREM NoReadyTaskOverlooked == MutexSpec => []ReadyTasksFound
<1>1. MutexIInv => ReadyTasksFound
  BY DEF MutexIInv, Found, ReadyTasksFound
<1> QED BY <1>1, MutexInvariant, PTL

(* What a task inherited it has given back when it has given its last mutex,   *)
(* and uxMutexesHeld counts what it holds, for any nesting and recursion.      *)
THEOREM InheritedPriorityEnds == MutexSpec => []InheritanceEnds
<1>1. MutexIInv => InheritanceEnds
  BY DEF MutexIInv
<1> QED BY <1>1, MutexInvariant, PTL

-----------------------------------------------------------------------------
(* The priority of a holder, where no task waits for a mutex with another one  *)
(* in its hands unless no other has a higher priority.                         *)

WaitersHoldNone ==
  \A t \in Tasks : (\E u \in Tasks : uxBasePriority[u] > uxBasePriority[t]) =>
    \A c, d \in TakeCalls[t] : c.block # "no" => d.mutex = c.mutex

\* An event item stands for its task's priority.
ItemsAgree(s) == \A t \in AllTasks : s.eventPriority[t] = s.uxPriority[t]

\* From s to r at most task t changes its priority, and what is ready stays so.
Lends(s, r, t) ==
  /\ Keeps(s, r, t)
  /\ \A u \in Tasks : IsReady(s, u) => IsReady(r, u)
  /\ ItemsAgree(s) => ItemsAgree(r)

LEMMA AddToReadyReady ==
  ASSUME NEW c, NEW s \in KType(c), NEW t \in Tasks, Found(s)
  PROVE  \A u \in Tasks : IsReady(AddToReady(s, t), u) <=> IsReady(s, u) \/ u = t
<1> DEFINE p == s.uxPriority[t]
           r == AddToReady(s, t)
<1>1. p \in Priorities /\ t \in AllTasks
  BY PrioritiesAreNumbers DEF KType
<1>2. r.ready = [s.ready EXCEPT ![p] = s.ready[p] \cup {t}] /\ r.uxPriority = s.uxPriority
  BY DEF KType, AddToReady
<1> HIDE DEF r
<1>3. \A u \in Tasks : s.uxPriority[u] \in Priorities
  BY PrioritiesAreNumbers DEF KType
<1>4. \A q \in Priorities : r.ready[q] = IF q = p THEN s.ready[p] \cup {t} ELSE s.ready[q]
  BY <1>1, <1>2 DEF KType
<1> QED BY <1>2, <1>3, <1>4 DEF IsReady, r

LEMMA RemoveFromReadyReady ==
  ASSUME NEW c, NEW s \in KType(c), NEW t \in Tasks, NEW bit, Found(s)
  PROVE  \A u \in Tasks : u # t /\ IsReady(s, u) => IsReady(RemoveFromReady(s, t, bit), u)
<1> DEFINE r == RemoveFromReady(s, t, bit)
<1>1. RemovedFrom(s, t, bit, r, c)
  BY RemoveFromReadyFields
<1> HIDE DEF r
<1>2. \A u \in Tasks : s.uxPriority[u] \in Priorities
  BY PrioritiesAreNumbers DEF KType
<1> QED BY <1>1, <1>2 DEF RemovedFrom, IsReady, r

LEMMA WithPriorityReady ==
  ASSUME NEW c, NEW s \in KType(c), NEW t \in Tasks, NEW p \in Priorities,
         NEW bit \in {s.uxPriority[t], p}, Found(s)
  PROVE  \A u \in Tasks : IsReady(s, u) => IsReady(WithPriority(s, t, p, bit), u)
<1> DEFINE gone == RemoveFromReady(s, t, bit)
           removed == [gone EXCEPT !.uxPriority[t] = p]
<1>0. t \in AllTasks /\ Tasks \subseteq AllTasks
  BY PrioritiesAreNumbers
<1>1. CASE ~IsReady(s, t)
  <2> DEFINE r == [s EXCEPT !.uxPriority[t] = p]
  <2>1. WithPriority(s, t, p, bit) = r
    BY <1>1 DEF WithPriority
  <2>2. r.ready = s.ready /\ r.uxPriority = [s.uxPriority EXCEPT ![t] = p]
    BY DEF KType
  <2> HIDE DEF r
  <2> QED BY <1>0, <1>1, <2>1, <2>2 DEF IsReady, KType
<1>2. CASE IsReady(s, t)
  <2> DEFINE r == AddToReady(removed, t)
  <2>1. WithPriority(s, t, p, bit) = r
    BY <1>2 DEF WithPriority
  <2>2. /\ gone \in KType(c) /\ gone.uxPriority = s.uxPriority
        /\ \A u \in Tasks : u # t /\ IsReady(s, u) => IsReady(gone, u)
    <3>1. RemovedFrom(s, t, bit, gone, c)
      BY RemoveFromReadyFields
    <3>2. \A u \in Tasks : u # t /\ IsReady(s, u) => IsReady(gone, u)
      BY RemoveFromReadyReady
    <3> HIDE DEF gone
    <3> QED BY <3>1, <3>2 DEF RemovedFrom
  <2> HIDE DEF gone
  <2>3. removed.uxPriority = [s.uxPriority EXCEPT ![t] = p] /\ removed.ready = gone.ready
    BY <2>2 DEF KType
  <2>4. r.ready = [gone.ready EXCEPT ![p] = gone.ready[p] \cup {t}] /\ r.uxPriority = removed.uxPriority
    BY <1>0, <2>2, <2>3 DEF AddToReady, KType
  <2> HIDE DEF r, removed
  <2>5. \A q \in Priorities : r.ready[q] = IF q = p THEN gone.ready[p] \cup {t} ELSE gone.ready[q]
    BY <2>2, <2>4 DEF KType
  <2>6. r.uxPriority[t] = p /\ \A u \in Tasks : u # t => r.uxPriority[u] = gone.uxPriority[u]
    BY <1>0, <2>2, <2>3, <2>4 DEF KType
  <2>7. \A u \in Tasks : gone.uxPriority[u] \in Priorities
    BY <1>0, <2>2 DEF KType
  <2> QED BY <2>1, <2>2, <2>5, <2>6, <2>7 DEF IsReady
<1> QED BY <1>1, <1>2

LEMMA ChangedLends ==
  ASSUME NEW c, NEW s \in KType(c), NEW t \in Tasks, NEW p \in Priorities,
         NEW bit \in {s.uxPriority[t], p}, Found(s)
  PROVE  Lends(s, Changed(s, t, p, bit), t)
<1> DEFINE w == WithPriority(s, t, p, bit)
           r == [w EXCEPT !.eventPriority[t] = p]
<1>0. t \in AllTasks /\ Tasks \subseteq AllTasks
  BY PrioritiesAreNumbers
<1>1. /\ w \in KType(c) /\ w.uxPriority = [s.uxPriority EXCEPT ![t] = p]
      /\ w.eventPriority = s.eventPriority
      /\ \A u \in Tasks : IsReady(s, u) => IsReady(w, u)
  BY WithPriorityFound, WithPriorityReady
<1> HIDE DEF w
<1>2. /\ r.ready = w.ready /\ r.uxPriority = w.uxPriority
      /\ r.eventPriority = [w.eventPriority EXCEPT ![t] = p]
  BY <1>1 DEF KType
<1> HIDE DEF r
<1>3. Keeps(s, r, t)
  BY <1>0, <1>1, <1>2 DEF KType, Keeps
<1>4. \A u \in Tasks : IsReady(s, u) => IsReady(r, u)
  BY <1>1, <1>2 DEF IsReady
<1>5. ItemsAgree(s) => ItemsAgree(r)
  BY <1>0, <1>1, <1>2 DEF KType, ItemsAgree
<1> QED BY <1>3, <1>4, <1>5 DEF r, w, Changed, Lends

LEMMA LendsNothing ==
  ASSUME NEW s, NEW t
  PROVE  Lends(s, s, t)
BY DEF Lends, Keeps

LEMMA PriorityInheritLends ==
  ASSUME NEW c \in AllTasks, NEW s \in KType(c), NEW holder \in Tasks, Found(s)
  PROVE  LET r == PriorityInherit(s, holder)
         IN /\ Lends(s, r, holder)
            /\ r.uxPriority[holder] >= s.uxPriority[holder]
            /\ r.uxPriority[holder] >= s.uxPriority[c]
<1> DEFINE p == s.uxPriority[s.pxCurrentTCB]
           old == s.uxPriority[holder]
           r == Changed(s, holder, p, old)
<1>1. p \in Priorities /\ p \in Nat /\ old \in Nat /\ p = s.uxPriority[c]
  BY PrioritiesAreNumbers DEF KType
<1>2. PriorityInherit(s, holder) = IF old >= p THEN s ELSE r
  BY DEF PriorityInherit, Changed
<1>3. Lends(s, r, holder) /\ r.uxPriority[holder] = p
  <2> HIDE DEF p
  <2>1. Changes(c, s, r, holder, p)
    BY <1>1, ChangedFound
  <2>2. Lends(s, r, holder)
    BY <1>1, ChangedLends
  <2> QED BY <2>1, <2>2 DEF Changes
<1>4. Lends(s, s, holder)
  BY LendsNothing
<1> HIDE DEF r
<1>5. CASE old >= p
  BY <1>1, <1>2, <1>4, <1>5
<1>6. CASE ~(old >= p)
  BY <1>1, <1>2, <1>3, <1>6
<1> QED BY <1>5, <1>6

LEMMA PriorityDisinheritLends ==
  ASSUME NEW c, NEW s \in KType(c), NEW t \in Tasks, Found(s), s.uxMutexesHeld[t] # 0
  PROVE  LET r == PriorityDisinherit(s, t)
         IN /\ Lends(s, r, t)
            /\ r.uxPriority[t] \in {s.uxPriority[t], uxBasePriority[t]}
            /\ s.uxMutexesHeld[t] # 1 => r.uxPriority[t] = s.uxPriority[t]
<1> DEFINE base == uxBasePriority[t]
           held == [s.uxMutexesHeld EXCEPT ![t] = s.uxMutexesHeld[t] - 1]
           g == [s EXCEPT !.uxMutexesHeld = held]
           r == Changed(g, t, base, s.uxPriority[t])
<1>1. base \in Priorities /\ t \in AllTasks
  BY PrioritiesAreNumbers
<1>2. held \in [Tasks -> Nat] /\ held[t] = s.uxMutexesHeld[t] - 1 /\ s.uxMutexesHeld[t] \in Nat
  BY DEF KType
<1> HIDE DEF held, base
<1>3. /\ g.ready = s.ready /\ g.uxTopReadyPriority = s.uxTopReadyPriority
      /\ g.uxPriority = s.uxPriority /\ g.eventPriority = s.eventPriority
      /\ g.uxMutexesHeld = held /\ g \in KType(c)
  BY <1>2 DEF KType
<1>4. PriorityDisinherit(s, t) = IF s.uxPriority[t] = base \/ held[t] # 0 THEN g ELSE r
  BY <1>3 DEF PriorityDisinherit, base, held, Changed
<1> HIDE DEF g
<1>5. Found(g)
  BY <1>3 DEF Found
<1>6. Lends(g, r, t) /\ r.uxPriority[t] = base
  <2>1. Changes(c, g, r, t, base)
    BY <1>1, <1>3, <1>5, ChangedFound
  <2>2. Lends(g, r, t)
    BY <1>1, <1>3, <1>5, ChangedLends
  <2> QED BY <2>1, <2>2 DEF Changes
<1> HIDE DEF r
<1>7. Lends(s, g, t) /\ Lends(s, r, t)
  BY <1>3, <1>6 DEF Lends, Keeps, IsReady, ItemsAgree
<1>8. CASE s.uxPriority[t] = base \/ held[t] # 0
  BY <1>3, <1>4, <1>7, <1>8
<1>9. CASE ~(s.uxPriority[t] = base \/ held[t] # 0)
  BY <1>2, <1>4, <1>6, <1>7, <1>9 DEF base
<1> QED BY <1>8, <1>9

LEMMA DisinheritAfterTimeoutLends ==
  ASSUME NEW c, NEW s \in KType(c), NEW holder \in Tasks, NEW waiting \in Priorities, Found(s)
  PROVE  LET r == DisinheritAfterTimeout(s, holder, waiting)
         IN /\ Lends(s, r, holder)
            /\ s.uxMutexesHeld[holder] # 1 => r.uxPriority[holder] = s.uxPriority[holder]
            /\ s.uxMutexesHeld[holder] = 1 =>
                 /\ r.uxPriority[holder] >= uxBasePriority[holder]
                 /\ r.uxPriority[holder] >= waiting
<1> DEFINE p == Max({uxBasePriority[holder], waiting})
           r == Changed(s, holder, p, p)
<1>1. p \in Priorities /\ p >= uxBasePriority[holder] /\ p >= waiting
  <2>1. uxBasePriority[holder] \in Nat /\ waiting \in Nat /\ uxBasePriority[holder] \in Priorities
    BY PrioritiesAreNumbers
  <2> QED BY <2>1, MaxOfTwo
<1>2. Lends(s, r, holder) /\ r.uxPriority[holder] = p
  <2> HIDE DEF p
  <2>1. Changes(c, s, r, holder, p)
    BY <1>1, ChangedFound
  <2>2. Lends(s, r, holder)
    BY <1>1, ChangedLends
  <2> QED BY <2>1, <2>2 DEF Changes
<1>3. DisinheritAfterTimeout(s, holder, waiting) =
        IF s.uxPriority[holder] = p \/ s.uxMutexesHeld[holder] # 1 THEN s ELSE r
  BY DEF DisinheritAfterTimeout, Changed
<1> HIDE DEF p, r
<1>4. Lends(s, s, holder)
  BY LendsNothing
<1>5. CASE s.uxPriority[holder] = p \/ s.uxMutexesHeld[holder] # 1
  BY <1>1, <1>3, <1>4, <1>5
<1>6. CASE ~(s.uxPriority[holder] = p \/ s.uxMutexesHeld[holder] # 1)
  BY <1>1, <1>2, <1>3, <1>6
<1> QED BY <1>5, <1>6

AtLeastOwn == \A t \in Tasks : k.uxPriority[t] >= uxBasePriority[t]

\* A task in a call waits for what it may, and does not hold it.
CallsAllowed ==
  \A t \in Tasks : taker[t].pc \notin {"app", "delayed"} =>
    /\ taker[t].call \in TakeCalls[t] /\ taker[t].call.block # "no"
    /\ Holder(taker[t].call.mutex) # t

HeldAllowed ==
  \A m \in Mutexes, t \in Tasks : Holder(m) = t => \E d \in TakeCalls[t] : d.mutex = m

RunsReady == \A t \in Tasks : taker[t].pc \notin {"blocked", "delayed"} => IsReady(k, t)

\* The waiting list of a mutex, by the tasks' own priorities.
OwnFirst == [t \in AllTasks |-> 0 - uxBasePriority[t]]
WaitersSorted == \A m \in Mutexes : ListSorted(mutex[m].xTasksWaitingToReceive, OwnFirst)

\* While a mutex is free that tasks wait for, one of no lower priority than theirs
\* is on its way to take it.
NextHolder ==
  \A m \in Mutexes : Holder(m) = NoTask =>
    \A w \in Members(mutex[m].xTasksWaitingToReceive) :
      \E u \in Tasks : /\ taker[u].pc = "try" /\ taker[u].call.mutex = m
                       /\ uxBasePriority[u] >= uxBasePriority[w]

HolderIInv ==
  /\ ItemsAgree(k) /\ AtLeastOwn /\ CallsAllowed /\ HeldAllowed /\ RunsReady
  /\ WaitersSorted /\ HolderInherits /\ NextHolder

LEMMA HolderInitInv == MutexInit => HolderIInv
<1> SUFFICES ASSUME MutexInit
             PROVE  HolderIInv
  OBVIOUS
<1> USE DEF MutexInit
<1>1. ItemsAgree(k) /\ AtLeastOwn
  <2>1. k.uxPriority = uxBasePriority /\ k.eventPriority = uxBasePriority
    OBVIOUS
  <2>2. \A t \in Tasks : uxBasePriority[t] \in Nat
    BY PrioritiesAreNumbers
  <2> QED BY <2>1, <2>2 DEF ItemsAgree, AtLeastOwn
<1>2. CallsAllowed /\ HeldAllowed
  BY MutexAssumption DEF CallsAllowed, HeldAllowed, NotTaking, Holder, AllTasks
<1>3. RunsReady
  BY PrioritiesAreNumbers DEF RunsReady, IsReady
<1>4. WaitersSorted /\ HolderInherits /\ NextHolder
  <2>1. \A m \in Mutexes : mutex[m].xTasksWaitingToReceive = <<>>
    OBVIOUS
  <2>2. Members(<<>>) = {} /\ Len(<<>>) = 0
    BY EmptyItems
  <2> QED BY <2>1, <2>2 DEF WaitersSorted, ListSorted, HolderInherits, NextHolder
<1> QED BY <1>1, <1>2, <1>3, <1>4 DEF HolderIInv

\* A task in a call runs at its own priority, and its event item says so.
LEMMA OwnPriority ==
  ASSUME WaitersHoldNone, MutexIInv, HolderIInv, NEW t \in Tasks,
         taker[t].pc \notin {"app", "delayed"}
  PROVE  k.uxPriority[t] = uxBasePriority[t] /\ k.eventPriority[t] = uxBasePriority[t]
<1>1. k.uxPriority \in [AllTasks -> Priorities]
  BY DEF MutexIInv, SchedulerOK, KType
<1>2. t \in AllTasks /\ k.uxPriority[t] \in Priorities /\ uxBasePriority[t] \in Priorities
  BY <1>1, PrioritiesAreNumbers
<1>3. CASE \E u \in Tasks : uxBasePriority[u] > uxBasePriority[t]
  <2>1. /\ taker[t].call \in TakeCalls[t] /\ taker[t].call.block # "no"
        /\ Holder(taker[t].call.mutex) # t
    BY DEF HolderIInv, CallsAllowed
  <2>2. \A d \in TakeCalls[t] : d.mutex = taker[t].call.mutex
    BY <1>3, <2>1 DEF WaitersHoldNone
  <2>3. \A m \in Mutexes : Holder(m) # t
    BY <2>1, <2>2 DEF HolderIInv, HeldAllowed
  <2>4. {m \in Mutexes : Holder(m) = t} = {}
    BY <2>3
  <2>5. k.uxMutexesHeld[t] = 0
    BY <2>4, FS_EmptySet DEF MutexIInv, InheritanceEnds
  <2> QED BY <1>2, <2>5 DEF MutexIInv, InheritanceEnds, HolderIInv, ItemsAgree
<1>4. CASE ~ \E u \in Tasks : uxBasePriority[u] > uxBasePriority[t]
  <2>1. PICK u \in AllTasks : uxBasePriority[u] = k.uxPriority[t]
    BY <1>2 DEF Priorities
  <2>2. uxBasePriority[u] <= uxBasePriority[t]
    <3>1. CASE u = Idle
      <4>1. uxBasePriority[u] = 0 /\ uxBasePriority[t] \in Nat
        BY <1>2, <3>1, MutexAssumption, PrioritiesAreNumbers
      <4> QED BY <4>1
    <3>2. CASE u \in Tasks
      <4>1. uxBasePriority[u] \in Nat /\ uxBasePriority[t] \in Nat
        BY PrioritiesAreNumbers
      <4>2. ~(uxBasePriority[u] > uxBasePriority[t])
        BY <1>4, <3>2
      <4> QED BY <4>1, <4>2
    <3> QED BY <3>1, <3>2 DEF AllTasks
  <2>3. k.uxPriority[t] >= uxBasePriority[t]
    BY DEF HolderIInv, AtLeastOwn
  <2>4. k.uxPriority[t] \in Nat /\ uxBasePriority[t] \in Nat
    BY <1>2, PrioritiesAreNumbers
  <2>5. k.uxPriority[t] = uxBasePriority[t]
    BY <2>1, <2>2, <2>3, <2>4
  <2> QED BY <1>2, <2>5 DEF HolderIInv, ItemsAgree
<1> QED BY <1>3, <1>4

\* A task that runs has no lower priority than any that is ready.
LEMMA RunningIsHighest ==
  ASSUME MutexIInv, NEW t \in Tasks, t \in k.ready[Max(k.uxTopReadyPriority)],
         NEW u \in Tasks, IsReady(k, u)
  PROVE  k.uxPriority[t] >= k.uxPriority[u]
<1>1. k.uxTopReadyPriority \in SUBSET Priorities /\ k.uxPriority \in [AllTasks -> Priorities]
  BY DEF MutexIInv, SchedulerOK, KType
<1>2. 0 \in k.uxTopReadyPriority
  BY PrioritiesAreNumbers DEF MutexIInv, Found
<1>3. /\ Max(k.uxTopReadyPriority) \in k.uxTopReadyPriority
      /\ \A p \in k.uxTopReadyPriority : Max(k.uxTopReadyPriority) >= p
  BY <1>1, <1>2, MaxOfPriorities
<1>4. k.uxPriority[t] = Max(k.uxTopReadyPriority)
  BY <1>1, <1>3 DEF MutexIInv, Found
<1>5. k.uxPriority[u] \in Priorities
  BY <1>1, PrioritiesAreNumbers
<1>6. k.uxPriority[u] \in k.uxTopReadyPriority
  BY <1>5 DEF MutexIInv, Found, IsReady
<1> QED BY <1>3, <1>4, <1>6

\* What is left alone with the mutexes: task t alone moves, and none changes its
\* priority.
LEMMA HoldersKept ==
  ASSUME HolderIInv, NEW t \in Tasks,
         \A m \in Mutexes : /\ Holder(m)' = Holder(m)
                            /\ mutex'[m].xTasksWaitingToReceive = mutex[m].xTasksWaitingToReceive,
         \A u \in Tasks : u # t => taker'[u] = taker[u],
         k'.uxPriority = k.uxPriority, k'.eventPriority = k.eventPriority,
         \A u \in Tasks : IsReady(k, u) /\ u # t => IsReady(k', u),
         taker'[t].pc \notin {"blocked", "delayed"} => IsReady(k', t),
         taker'[t].pc \notin {"app", "delayed"} =>
           /\ taker'[t].call \in TakeCalls[t] /\ taker'[t].call.block # "no"
           /\ taker'[t].call.mutex \in Mutexes /\ Holder(taker'[t].call.mutex) # t,
         \A u \in Tasks : taker[u].pc \notin {"app", "delayed"} => taker[u].call.mutex \in Mutexes,
         taker[t].pc = "try" => /\ taker[t].call.mutex \in Mutexes
                                /\ Holder(taker[t].call.mutex) # NoTask
  PROVE  HolderIInv'
<1>1. ItemsAgree(k)' /\ AtLeastOwn'
  BY DEF HolderIInv, ItemsAgree, AtLeastOwn
<1>2. CallsAllowed'
  BY DEF HolderIInv, CallsAllowed
<1>3. HeldAllowed'
  BY DEF HolderIInv, HeldAllowed
<1>4. RunsReady'
  BY DEF HolderIInv, RunsReady
<1>5. WaitersSorted'
  BY DEF HolderIInv, WaitersSorted
<1>6. HolderInherits'
  BY DEF HolderIInv, HolderInherits
<1>7. NextHolder'
  <2> SUFFICES ASSUME NEW m \in Mutexes, Holder(m)' = NoTask,
                      NEW w \in Members(mutex'[m].xTasksWaitingToReceive)
               PROVE  \E u \in Tasks : /\ taker'[u].pc = "try" /\ taker'[u].call.mutex = m
                                       /\ uxBasePriority[u] >= uxBasePriority[w]
    BY DEF NextHolder
  <2>1. PICK u \in Tasks : /\ taker[u].pc = "try" /\ taker[u].call.mutex = m
                           /\ uxBasePriority[u] >= uxBasePriority[w]
    BY DEF HolderIInv, NextHolder
  <2>2. u # t
    BY <2>1
  <2> QED BY <2>1, <2>2
<1> QED BY <1>1, <1>2, <1>3, <1>4, <1>5, <1>6, <1>7 DEF HolderIInv

LEMMA NobodyMoves ==
  ASSUME TakersOK, HolderIInv, taker' = taker,
         \A m \in Mutexes : /\ Holder(m)' = Holder(m)
                            /\ mutex'[m].xTasksWaitingToReceive = mutex[m].xTasksWaitingToReceive,
         k'.uxPriority = k.uxPriority, k'.eventPriority = k.eventPriority, k'.ready = k.ready
  PROVE  HolderIInv'
<1>1. ItemsAgree(k)' /\ AtLeastOwn' /\ RunsReady'
  BY DEF HolderIInv, ItemsAgree, AtLeastOwn, RunsReady, IsReady
<1>2. CallsAllowed'
  <2>1. \A m \in Mutexes : mutex'[m].xMutexHolder = mutex[m].xMutexHolder
    BY DEF Holder
  <2> QED BY <2>1 DEF HolderIInv, CallsAllowed, TakersOK, Holder
<1>3. HeldAllowed'
  BY DEF HolderIInv, HeldAllowed
<1>4. WaitersSorted'
  BY DEF HolderIInv, WaitersSorted
<1>5. HolderInherits' /\ NextHolder'
  BY DEF HolderIInv, HolderInherits, NextHolder
<1> QED BY <1>1, <1>2, <1>3, <1>4, <1>5 DEF HolderIInv

LEMMA SwitchHolders ==
  ASSUME MutexIInv, HolderIInv, SwitchToHighest
  PROVE  HolderIInv'
<1>1. PICK t : k' = [k EXCEPT !.pxCurrentTCB = t]
  BY DEF SwitchToHighest
<1>2. k'.uxPriority = k.uxPriority /\ k'.eventPriority = k.eventPriority /\ k'.ready = k.ready
  BY <1>1 DEF MutexIInv, SchedulerOK, KType
<1> QED BY <1>2, NobodyMoves DEF SwitchToHighest, Holder, MutexIInv

LEMMA RecursiveHolders ==
  ASSUME MutexIInv, HolderIInv, NEW t \in Tasks, xQueueTakeMutexRecursive(t)
  PROVE  HolderIInv'
<1>1. PICK m \in Mutexes :
        UNCHANGED <<k, taker>> /\ mutex' = [mutex EXCEPT ![m].uxRecursiveCallCount = @ + 1]
  BY MutexAssumption DEF xQueueTakeMutexRecursive
<1>2. \A n \in Mutexes :
        /\ mutex'[n].xTasksWaitingToReceive = mutex[n].xTasksWaitingToReceive
        /\ mutex'[n].xMutexHolder = mutex[n].xMutexHolder
  BY <1>1 DEF MutexIInv, MutexesOK
<1> QED BY <1>1, <1>2, NobodyMoves DEF Holder, MutexIInv

\* A task on its way that finds its mutex held, or has found it held and moves on.
LEMMA MovesOn ==
  ASSUME MutexIInv, HolderIInv, NEW t \in Tasks, UNCHANGED <<k, mutex>>,
         taker[t].pc \notin {"blocked", "delayed"},
         NEW x, taker' = [taker EXCEPT ![t] = x], x.pc \notin {"blocked", "delayed"},
         x.pc \notin {"app", "delayed"} =>
           /\ x.call \in TakeCalls[t] /\ x.call.block # "no"
           /\ x.call.mutex \in Mutexes /\ Holder(x.call.mutex) # t,
         taker[t].pc = "try" => Holder(taker[t].call.mutex) # NoTask
  PROVE  HolderIInv'
<1>1. taker'[t] = x /\ \A u \in Tasks : u # t => taker'[u] = taker[u]
  BY DEF MutexIInv, TakersOK
<1>2. \A u \in Tasks : taker[u].pc \notin {"app", "delayed"} => taker[u].call.mutex \in Mutexes
  BY DEF MutexIInv, TakersOK
<1>3. \A u \in Tasks : IsReady(k, u) => IsReady(k', u)
  OBVIOUS
<1>4. IsReady(k', t)
  BY DEF HolderIInv, RunsReady
<1>5. \A m \in Mutexes : /\ Holder(m)' = Holder(m)
                         /\ mutex'[m].xTasksWaitingToReceive = mutex[m].xTasksWaitingToReceive
  BY DEF Holder
<1>6. k'.uxPriority = k.uxPriority /\ k'.eventPriority = k.eventPriority
  OBVIOUS
<1>7. taker[t].pc = "try" => /\ taker[t].call.mutex \in Mutexes
                             /\ Holder(taker[t].call.mutex) # NoTask
  BY <1>2
<1>8. taker'[t].pc \notin {"app", "delayed"} =>
           /\ taker'[t].call \in TakeCalls[t] /\ taker'[t].call.block # "no"
           /\ taker'[t].call.mutex \in Mutexes /\ Holder(taker'[t].call.mutex) # t
  BY <1>1
<1> QED BY <1>1, <1>2, <1>3, <1>4, <1>5, <1>6, <1>7, <1>8, HoldersKept

LEMMA TestHolders ==
  ASSUME MutexIInv, HolderIInv, NEW t \in Tasks, TestAfterTimeout(t)
  PROVE  HolderIInv'
<1>1. taker[t].pc = "test" /\ UNCHANGED <<k, mutex>>
  BY DEF TestAfterTimeout, HighestRuns
<1>2. /\ taker[t].call \in TakeCalls[t] /\ taker[t].call.block # "no"
      /\ Holder(taker[t].call.mutex) # t /\ taker[t].call.mutex \in Mutexes /\ taker[t] \in TakerType
  BY <1>1 DEF HolderIInv, CallsAllowed, MutexIInv, TakersOK
<1>3. ASSUME NEW p \in {"try", "disinherit"}, taker' = [taker EXCEPT ![t] = [taker[t] EXCEPT !.pc = p]]
      PROVE  HolderIInv'
  <2> DEFINE x == [taker[t] EXCEPT !.pc = p]
  <2>1. x.pc = p /\ x.call = taker[t].call
    BY <1>2 DEF TakerType
  <2> HIDE DEF x
  <2>2. taker' = [taker EXCEPT ![t] = x]
    BY <1>3 DEF x
  <2> QED BY <1>1, <1>2, <2>1, <2>2, MovesOn
<1>4. ASSUME taker' = [taker EXCEPT ![t] = NotTaking]
      PROVE  HolderIInv'
  <2>1. NotTaking.pc = "app"
    BY DEF NotTaking
  <2> QED BY <1>1, <1>4, <2>1, MovesOn
<1> QED BY <1>3, <1>4 DEF TestAfterTimeout, TakeReturns

LEMMA DelayHolders ==
  ASSUME MutexIInv, HolderIInv, NEW t \in Tasks, Delay(t)
  PROVE  HolderIInv'
<1> DEFINE c == k.pxCurrentTCB
           r == RemoveFromReady(k, t, k.uxPriority[t])
           x == [taker[t] EXCEPT !.pc = "delayed"]
<1>1. taker[t].pc = "app" /\ UNCHANGED mutex /\ k' = r /\ taker' = [taker EXCEPT ![t] = x]
  BY DEF Delay, HighestRuns
<1>2. k \in KType(c) /\ Found(k) /\ taker[t] \in TakerType
  BY DEF MutexIInv, SchedulerOK, TakersOK
<1>3. RemovedFrom(k, t, k.uxPriority[t], r, c)
  BY <1>2, RemoveFromReadyFields
<1>4. \A u \in Tasks : u # t /\ IsReady(k, u) => IsReady(r, u)
  BY <1>2, RemoveFromReadyReady
<1> HIDE DEF r, c
<1>5. k'.uxPriority = k.uxPriority /\ k'.eventPriority = k.eventPriority
  BY <1>1, <1>3 DEF RemovedFrom
<1>6. x.pc = "delayed"
  BY <1>2 DEF TakerType
<1> HIDE DEF x
<1>7. taker'[t] = x /\ \A u \in Tasks : u # t => taker'[u] = taker[u]
  BY <1>1 DEF MutexIInv, TakersOK
<1>8. \A m \in Mutexes : /\ Holder(m)' = Holder(m)
                         /\ mutex'[m].xTasksWaitingToReceive = mutex[m].xTasksWaitingToReceive
  BY <1>1 DEF Holder
<1>9. \A u \in Tasks : taker[u].pc \notin {"app", "delayed"} => taker[u].call.mutex \in Mutexes
  BY DEF MutexIInv, TakersOK
<1>10. /\ \A u \in Tasks : IsReady(k, u) /\ u # t => IsReady(k', u)
       /\ taker'[t].pc \notin {"blocked", "delayed"} => IsReady(k', t)
       /\ taker'[t].pc \notin {"app", "delayed"} =>
            /\ taker'[t].call \in TakeCalls[t] /\ taker'[t].call.block # "no"
            /\ taker'[t].call.mutex \in Mutexes /\ Holder(taker'[t].call.mutex) # t
       /\ taker[t].pc = "try" => /\ taker[t].call.mutex \in Mutexes
                                 /\ Holder(taker[t].call.mutex) # NoTask
  BY <1>1, <1>4, <1>6, <1>7
<1> QED BY <1>5, <1>7, <1>8, <1>9, <1>10, HoldersKept

\* Whoever takes a free mutex has no lower priority than those who still wait.
LEMMA TakeHolders ==
  ASSUME WaitersHoldNone, MutexIInv, HolderIInv, NEW t \in Tasks, xQueueSemaphoreTake(t)
  PROVE  HolderIInv'
<1>1. PICK c \in IF taker[t].pc = "app" THEN TakeCalls[t] ELSE {taker[t].call} :
        Holder(c.mutex) # t /\ SemaphoreTake(t, c)
  BY DEF xQueueSemaphoreTake
<1>2. taker[t].pc \in {"app", "try"} /\ t \in k.ready[Max(k.uxTopReadyPriority)]
  BY DEF xQueueSemaphoreTake, HighestRuns
<1>3. c \in TakeCalls[t] /\ c.mutex \in Mutexes /\ taker[t] \in TakerType
  <2>1. c \in TakeCalls[t] /\ taker[t] \in TakerType
    BY <1>2 DEF HolderIInv, CallsAllowed, MutexIInv, TakersOK
  <2>2. TakeCalls[t] \subseteq [mutex : Mutexes, block : {"no", "timed", "forever"}]
    BY MutexAssumption
  <2>3. c \in [mutex : Mutexes, block : {"no", "timed", "forever"}]
    BY <2>1, <2>2
  <2> QED BY <2>1, <2>3
<1>4. taker[t].pc = "try" => c = taker[t].call
  OBVIOUS
<1>5. CASE Holder(c.mutex) # NoTask
  <2>1. UNCHANGED <<k, mutex>>
    BY <1>1, <1>5 DEF SemaphoreTake
  <2>2. CASE c.block = "no" \/ taker[t].time = "zero"
    <3>1. taker' = [taker EXCEPT ![t] = NotTaking] /\ NotTaking.pc = "app"
      BY <1>1, <1>5, <2>2 DEF SemaphoreTake, TakeReturns, NotTaking
    <3> QED BY <1>2, <1>4, <1>5, <2>1, <3>1, MovesOn
  <2>3. CASE ~(c.block = "no" \/ taker[t].time = "zero")
    <3> DEFINE x == [taker[t] EXCEPT !.pc = "suspend", !.call = c]
    <3>1. taker' = [taker EXCEPT ![t] = x]
      BY <1>1, <1>5, <2>3 DEF SemaphoreTake
    <3>2. x.pc = "suspend" /\ x.call = c
      BY <1>3 DEF TakerType
    <3> HIDE DEF x
    <3> QED BY <1>1, <1>2, <1>3, <1>4, <1>5, <2>1, <2>3, <3>1, <3>2, MovesOn
  <2> QED BY <2>2, <2>3
<1>6. CASE Holder(c.mutex) = NoTask
  <2> DEFINE m == c.mutex
             count == IF c.mutex \in RecursiveMutexes THEN 1 ELSE 0
  <2>1. /\ mutex' = [mutex EXCEPT ![m].xMutexHolder = t, ![m].uxRecursiveCallCount = count]
        /\ k' = [k EXCEPT !.uxMutexesHeld[t] = @ + 1]
        /\ taker' = [taker EXCEPT ![t] = NotTaking]
    BY <1>1, <1>6 DEF SemaphoreTake, TakeReturns
  <2>2. /\ k'.uxPriority = k.uxPriority /\ k'.eventPriority = k.eventPriority /\ k'.ready = k.ready
    BY <2>1 DEF MutexIInv, SchedulerOK, KType
  <2> HIDE DEF count
  <2>3. /\ Holder(m)' = t /\ \A n \in Mutexes : n # m => Holder(n)' = Holder(n)
        /\ \A n \in Mutexes : mutex'[n].xTasksWaitingToReceive = mutex[n].xTasksWaitingToReceive
    BY <1>3, <2>1 DEF MutexIInv, MutexesOK, Holder
  <2>4. taker'[t].pc = "app" /\ \A u \in Tasks : u # t => taker'[u] = taker[u]
    BY <2>1 DEF MutexIInv, TakersOK, NotTaking
  <2>5. \A u \in Tasks : u # NoTask
    BY MutexAssumption DEF AllTasks
  <2> HIDE DEF m
  <2>6. m \in Mutexes /\ m = c.mutex /\ Holder(m) = NoTask
    BY <1>3, <1>6 DEF m
  <2>7. ItemsAgree(k)' /\ AtLeastOwn' /\ WaitersSorted'
    BY <2>2, <2>3 DEF HolderIInv, ItemsAgree, AtLeastOwn, WaitersSorted
  <2>8. \A u \in Tasks : taker[u].pc \notin {"app", "delayed"} => taker[u].call.mutex \in Mutexes
    BY DEF MutexIInv, TakersOK
  <2>9. CallsAllowed'
    <3> SUFFICES ASSUME NEW u \in Tasks, taker'[u].pc \notin {"app", "delayed"}
                 PROVE  /\ taker'[u].call \in TakeCalls[u] /\ taker'[u].call.block # "no"
                        /\ mutex'[taker'[u].call.mutex].xMutexHolder # u
      BY DEF CallsAllowed, Holder
    <3>1. u # t /\ taker'[u] = taker[u]
      BY <2>4
    <3>2. /\ taker[u].call \in TakeCalls[u] /\ taker[u].call.block # "no"
          /\ Holder(taker[u].call.mutex) # u /\ taker[u].call.mutex \in Mutexes
      BY <2>8, <3>1 DEF HolderIInv, CallsAllowed
    <3>3. \A n \in Mutexes : Holder(n) # u => Holder(n)' # u
      BY <2>3, <3>1
    <3>4. mutex'[taker[u].call.mutex].xMutexHolder # u
      BY <3>2, <3>3 DEF Holder
    <3> QED BY <3>1, <3>2, <3>4
  <2>10. HeldAllowed'
    BY <1>3, <2>3, <2>6 DEF HolderIInv, HeldAllowed
  <2>11. RunsReady'
    <3>1. IsReady(k, t)
      BY <1>2 DEF HolderIInv, RunsReady
    <3> QED BY <2>2, <2>4, <3>1 DEF HolderIInv, RunsReady, IsReady
  <2>12. HolderInherits'
    <3> SUFFICES ASSUME NEW n \in Mutexes, Holder(n)' # NoTask,
                        NEW w \in Members(mutex'[n].xTasksWaitingToReceive)
                 PROVE  k'.uxPriority[Holder(n)'] >= uxBasePriority[w]
      BY DEF HolderInherits
    <3>1. w \in Members(mutex[n].xTasksWaitingToReceive)
      BY <2>3
    <3>2. CASE n # m
      BY <2>2, <2>3, <3>1, <3>2 DEF HolderIInv, HolderInherits
    <3>3. CASE n = m
      <4>1. PICK u \in Tasks : /\ taker[u].pc = "try" /\ taker[u].call.mutex = m
                               /\ uxBasePriority[u] >= uxBasePriority[w]
        BY <2>6, <3>1, <3>3 DEF HolderIInv, NextHolder
      <4>2. IsReady(k, u) /\ k.uxPriority[u] = uxBasePriority[u]
        BY <4>1, OwnPriority DEF HolderIInv, RunsReady
      <4>3. k.uxPriority[t] >= k.uxPriority[u]
        BY <1>2, <4>2, RunningIsHighest
      <4>4. w \in Tasks
        BY <3>1, ItemsMembers DEF MutexIInv, WaitersExact
      <4>5. /\ k.uxPriority[t] \in Nat /\ uxBasePriority[u] \in Nat /\ uxBasePriority[w] \in Nat
        BY <4>4, PrioritiesAreNumbers DEF MutexIInv, SchedulerOK, KType
      <4>6. k.uxPriority[t] >= uxBasePriority[w]
        BY <4>1, <4>2, <4>3, <4>5
      <4> QED BY <2>2, <2>3, <3>3, <4>6
    <3> QED BY <3>2, <3>3
  <2>13. NextHolder'
    <3> SUFFICES ASSUME NEW n \in Mutexes, Holder(n)' = NoTask,
                        NEW w \in Members(mutex'[n].xTasksWaitingToReceive)
                 PROVE  \E u \in Tasks : /\ taker'[u].pc = "try" /\ taker'[u].call.mutex = n
                                         /\ uxBasePriority[u] >= uxBasePriority[w]
      BY DEF NextHolder
    <3>1. n # m /\ Holder(n) = NoTask /\ w \in Members(mutex[n].xTasksWaitingToReceive)
      BY <2>3, <2>5
    <3>2. PICK u \in Tasks : /\ taker[u].pc = "try" /\ taker[u].call.mutex = n
                             /\ uxBasePriority[u] >= uxBasePriority[w]
      BY <3>1 DEF HolderIInv, NextHolder
    <3>3. u # t
      BY <1>4, <2>6, <3>1, <3>2
    <3> QED BY <2>4, <3>2, <3>3
  <2> QED BY <2>7, <2>9, <2>10, <2>11, <2>12, <2>13 DEF HolderIInv
<1> QED BY <1>5, <1>6

\* A priority above 0 in the list is one below 0 in its values.
LEMMA OwnFirstOrders ==
  ASSUME NEW t \in Tasks, NEW u \in Tasks
  PROVE  /\ OwnFirst[t] \in Int /\ uxBasePriority[t] \in Nat
         /\ OwnFirst[t] = 0 - uxBasePriority[t]
         /\ OwnFirst[t] <= OwnFirst[u] => uxBasePriority[t] >= uxBasePriority[u]
<1>1. uxBasePriority[t] \in Nat /\ uxBasePriority[u] \in Nat /\ t \in AllTasks /\ u \in AllTasks
  BY PrioritiesAreNumbers
<1>2. OwnFirst[t] = 0 - uxBasePriority[t] /\ OwnFirst[u] = 0 - uxBasePriority[u]
  BY <1>1 DEF OwnFirst
<1> QED BY <1>1, <1>2

\* The first of those that wait has the highest priority of them.
LEMMA FirstIsHighest ==
  ASSUME MutexIInv, HolderIInv, NEW m \in Mutexes,
         NEW w \in Members(mutex[m].xTasksWaitingToReceive)
  PROVE  LET first == Head(mutex[m].xTasksWaitingToReceive)
         IN /\ mutex[m].xTasksWaitingToReceive # <<>> /\ first \in Tasks
            /\ taker[first].pc = "blocked" /\ uxBasePriority[first] >= uxBasePriority[w]
<1> DEFINE list == mutex[m].xTasksWaitingToReceive
           first == Head(list)
<1>1. /\ IsItems(list, Tasks) /\ ListSorted(list, OwnFirst)
      /\ Members(list) = {t \in Tasks : taker[t].pc = "blocked" /\ taker[t].call.mutex = m}
  BY DEF MutexIInv, WaitersExact, HolderIInv, WaitersSorted
<1>2. w \in Members(list)
  OBVIOUS
<1> HIDE DEF list
<1>3. list # <<>>
  BY <1>2, EmptyItems
<1>4. first \in Tasks /\ first \in Members(list) /\ Members(Tail(list)) = Members(list) \ {first}
  BY <1>1, <1>3, TailItems
<1>5. w \in Tasks /\ taker[first].pc = "blocked"
  BY <1>1, <1>2, <1>4
<1>6. uxBasePriority[first] >= uxBasePriority[w]
  <2>1. CASE w = first
    BY <1>4, <2>1, OwnFirstOrders
  <2>2. CASE w # first
    <3>1. w \in Members(Tail(list))
      BY <1>2, <1>4, <2>2
    <3>2. OwnFirst[first] <= OwnFirst[w]
      BY <1>1, <1>3, <3>1, TailSorted
    <3> QED BY <1>4, <1>5, <3>2, OwnFirstOrders
  <2> QED BY <2>1, <2>2
<1> QED BY <1>3, <1>4, <1>5, <1>6 DEF list

LEMMA BlockHolders ==
  ASSUME WaitersHoldNone, MutexIInv, HolderIInv, NEW t \in Tasks, Block(t)
  PROVE  HolderIInv'
<1> DEFINE m == taker[t].call.mutex
           s == PriorityInherit(k, Holder(m))
<1>1. taker[t].pc = "suspend" /\ t = k.pxCurrentTCB
  BY DEF Block, HighestRuns
<1>2. m \in Mutexes /\ taker[t] \in TakerType
  BY <1>1 DEF MutexIInv, TakersOK
<1>3. /\ taker[t].call \in TakeCalls[t] /\ taker[t].call.block # "no"
      /\ Holder(m) # t
  BY <1>1 DEF HolderIInv, CallsAllowed
<1>4. ASSUME UNCHANGED <<k, mutex>>, NEW x \in {[taker[t] EXCEPT !.pc = "test", !.time = "zero"],
                                                  [taker[t] EXCEPT !.pc = "try"]},
             taker' = [taker EXCEPT ![t] = x]
      PROVE  HolderIInv'
  <2>1. x.pc \in {"test", "try"} /\ x.call = taker[t].call
    BY <1>2 DEF TakerType
  <2> QED BY <1>1, <1>2, <1>3, <1>4, <2>1, MovesOn
<1>5. ASSUME Holder(m) # NoTask, k' = RemoveFromReady(s, t, s.uxPriority[t]),
             taker' = [taker EXCEPT ![t] = [taker[t] EXCEPT !.pc = "blocked",
                                                            !.inherited = Inherits(k, Holder(m))]],
             mutex' = [mutex EXCEPT ![m].xTasksWaitingToReceive =
                         SortedInsert(@, t, [u \in AllTasks |-> 0 - s.eventPriority[u]])]
      PROVE  HolderIInv'
  <2> DEFINE c == k.pxCurrentTCB
             holder == Holder(m)
             r == RemoveFromReady(s, t, s.uxPriority[t])
             list == mutex[m].xTasksWaitingToReceive
             value == [u \in AllTasks |-> 0 - s.eventPriority[u]]
             new == SortedInsert(list, t, value)
  <2>1. holder \in Tasks /\ c \in AllTasks /\ k \in KType(c) /\ Found(k) /\ holder # t
    BY <1>2, <1>3, <1>5 DEF MutexIInv, MutexesOK, SchedulerOK, Holder
  <2>2. /\ s \in KType(c) /\ Found(s) /\ Lends(k, s, holder)
        /\ s.uxPriority[holder] >= k.uxPriority[holder] /\ s.uxPriority[holder] >= k.uxPriority[t]
    <3>1. /\ s \in KType(c) /\ Found(s) /\ Lends(k, s, holder)
          /\ s.uxPriority[holder] >= k.uxPriority[holder] /\ s.uxPriority[holder] >= k.uxPriority[c]
      <4> HIDE DEF c, holder
      <4> QED BY <2>1, PriorityInheritFound, PriorityInheritLends DEF holder
    <3> QED BY <1>1, <3>1
  <2> HIDE DEF s
  <2>3. /\ k' = r /\ r.uxPriority = s.uxPriority /\ r.eventPriority = s.eventPriority
        /\ \A u \in Tasks : u # t /\ IsReady(s, u) => IsReady(r, u)
    <3>1. RemovedFrom(s, t, s.uxPriority[t], r, c)
      BY <2>2, RemoveFromReadyFields
    <3>2. \A u \in Tasks : u # t /\ IsReady(s, u) => IsReady(r, u)
      BY <2>2, RemoveFromReadyReady
    <3> QED BY <1>5, <3>1, <3>2 DEF RemovedFrom
  <2> HIDE DEF r
  <2>4. /\ IsItems(list, Tasks) /\ t \notin Members(list)
        /\ Members(list) = {u \in Tasks : taker[u].pc = "blocked" /\ taker[u].call.mutex = m}
        /\ ListSorted(list, OwnFirst)
    BY <1>1, <1>2 DEF MutexIInv, WaitersExact, HolderIInv, WaitersSorted
  <2>5. ASSUME NEW u \in Members(list) \cup {t}
        PROVE  u \in Tasks /\ value[u] = OwnFirst[u] /\ OwnFirst[u] \in Int
    <3>1. u \in Tasks /\ u \in AllTasks /\ taker[u].pc \notin {"app", "delayed"}
      BY <1>1, <2>4, PrioritiesAreNumbers
    <3>2. u # holder
      <4>1. CASE u = t
        BY <2>1, <4>1
      <4>2. CASE u \in Members(list)
        BY <2>4, <4>2 DEF HolderIInv, CallsAllowed
      <4> QED BY <4>1, <4>2
    <3>3. k.uxPriority[u] = uxBasePriority[u]
      BY <3>1, OwnPriority
    <3>4. s.uxPriority[u] = uxBasePriority[u]
      BY <2>2, <3>1, <3>2, <3>3 DEF Lends, Keeps
    <3>5. s.eventPriority[u] = uxBasePriority[u]
      BY <2>2, <3>1, <3>4 DEF Lends, ItemsAgree, HolderIInv
    <3> QED BY <3>1, <3>5, OwnFirstOrders DEF OwnFirst
  <2> HIDE DEF value, list, holder
  <2>6. ListSorted(new, OwnFirst) /\ Members(new) = Members(list) \cup {t}
    <3>1. Len(list) \in Nat /\ \A i \in 1 .. Len(list) : list[i] \in Members(list)
      BY <2>4, LenProperties DEF IsItems, Members
    <3>2. SortedInsert(list, t, value) = SortedInsert(list, t, OwnFirst)
      <4>1. {i \in 1 .. Len(list) : value[list[i]] > value[t]} =
              {i \in 1 .. Len(list) : OwnFirst[list[i]] > OwnFirst[t]}
        BY <2>5, <3>1
      <4>2. SortedInsert(list, t, value) =
              InsertedAmong(list, t, {i \in 1 .. Len(list) : value[list[i]] > value[t]})
        BY SortedInsertAmong
      <4>3. SortedInsert(list, t, OwnFirst) =
              InsertedAmong(list, t, {i \in 1 .. Len(list) : OwnFirst[list[i]] > OwnFirst[t]})
        BY SortedInsertAmong
      <4> QED BY <4>1, <4>2, <4>3
    <3>3. ListSorted(SortedInsert(list, t, OwnFirst), OwnFirst)
      BY <2>4, <2>5, <3>1, SortedInsertSorted
    <3> QED BY <2>4, <3>2, <3>3, SortedInsertItems
  <2>7. mutex' = [mutex EXCEPT ![m] = [mutex[m] EXCEPT !.xTasksWaitingToReceive = new]]
    BY <1>5 DEF value, list
  <2> HIDE DEF new
  <2>8. /\ mutex'[m].xTasksWaitingToReceive = new
        /\ \A n \in Mutexes : n # m => mutex'[n] = mutex[n]
        /\ \A n \in Mutexes : mutex'[n].xMutexHolder = mutex[n].xMutexHolder
    BY <1>2, <2>7 DEF MutexIInv, MutexesOK
  <2> DEFINE x == [taker[t] EXCEPT !.pc = "blocked", !.inherited = Inherits(k, Holder(m))]
  <2>9. x.pc = "blocked" /\ x.call = taker[t].call
    BY <1>2 DEF TakerType
  <2>10. taker' = [taker EXCEPT ![t] = x]
    BY <1>5
  <2> HIDE DEF x
  <2>11. taker'[t] = x /\ \A u \in Tasks : u # t => taker'[u] = taker[u]
    BY <2>10 DEF MutexIInv, TakersOK
  <2>12. \A u \in Tasks : /\ k'.uxPriority[u] >= k.uxPriority[u]
                          /\ k'.uxPriority[u] \in Nat /\ k.uxPriority[u] \in Nat
    <3> SUFFICES ASSUME NEW u \in Tasks
                 PROVE  /\ s.uxPriority[u] >= k.uxPriority[u]
                        /\ s.uxPriority[u] \in Nat /\ k.uxPriority[u] \in Nat
      BY <2>3
    <3>1. s.uxPriority[u] \in Nat /\ k.uxPriority[u] \in Nat
      BY <2>1, <2>2, PrioritiesAreNumbers DEF KType
    <3>2. CASE u = holder
      BY <2>2, <3>1, <3>2
    <3>3. CASE u # holder
      BY <2>2, <3>1, <3>3, PrioritiesAreNumbers DEF Lends, Keeps
    <3> QED BY <3>2, <3>3
  <2>13. ItemsAgree(k)'
    BY <2>2, <2>3 DEF Lends, ItemsAgree, HolderIInv
  <2>14. AtLeastOwn'
    <3> SUFFICES ASSUME NEW u \in Tasks
                 PROVE  k'.uxPriority[u] >= uxBasePriority[u]
      BY DEF AtLeastOwn
    <3>1. k.uxPriority[u] >= uxBasePriority[u]
      BY DEF HolderIInv, AtLeastOwn
    <3>2. uxBasePriority[u] \in Nat
      BY PrioritiesAreNumbers
    <3> QED BY <2>12, <3>1, <3>2
  <2>15. CallsAllowed'
    <3>1. \A u \in Tasks : taker'[u].call = taker[u].call
      BY <2>9, <2>11
    <3>2. \A u \in Tasks : taker'[u].pc \notin {"app", "delayed"} => taker[u].pc \notin {"app", "delayed"}
      BY <1>1, <2>11
    <3>3. \A u \in Tasks : taker[u].pc \notin {"app", "delayed"} => taker[u].call.mutex \in Mutexes
      BY DEF MutexIInv, TakersOK
    <3> QED BY <2>8, <3>1, <3>2, <3>3 DEF HolderIInv, CallsAllowed, Holder
  <2>16. HeldAllowed'
    BY <2>8 DEF HolderIInv, HeldAllowed, Holder
  <2>17. RunsReady'
    <3> SUFFICES ASSUME NEW u \in Tasks, taker'[u].pc \notin {"blocked", "delayed"}
                 PROVE  IsReady(k', u)
      BY DEF RunsReady
    <3>1. u # t /\ taker'[u] = taker[u]
      BY <2>9, <2>11
    <3>2. IsReady(k, u)
      BY <3>1 DEF HolderIInv, RunsReady
    <3> QED BY <2>2, <2>3, <3>1, <3>2 DEF Lends
  <2>18. WaitersSorted'
    BY <2>6, <2>8 DEF HolderIInv, WaitersSorted
  <2>19. HolderInherits'
    <3> SUFFICES ASSUME NEW n \in Mutexes, Holder(n) # NoTask,
                        NEW w \in Members(mutex'[n].xTasksWaitingToReceive)
                 PROVE  k'.uxPriority[Holder(n)] >= uxBasePriority[w]
      BY <2>8 DEF HolderInherits, Holder
    <3>1. Holder(n) \in Tasks
      BY DEF MutexIInv, MutexesOK, Holder
    <3>2. CASE w \in Members(mutex[n].xTasksWaitingToReceive)
      <4>1. k.uxPriority[Holder(n)] >= uxBasePriority[w]
        BY <3>2 DEF HolderIInv, HolderInherits
      <4>2. w \in Tasks
        BY <3>2, ItemsMembers DEF MutexIInv, WaitersExact
      <4>3. uxBasePriority[w] \in Nat
        BY <4>2, PrioritiesAreNumbers
      <4> QED BY <2>12, <3>1, <4>1, <4>3
    <3>3. CASE w \notin Members(mutex[n].xTasksWaitingToReceive)
      <4>1. n = m /\ w = t
        BY <2>6, <2>8, <3>3 DEF list
      <4>2. k.uxPriority[t] = uxBasePriority[t]
        BY <1>1, OwnPriority
      <4> QED BY <2>2, <2>3, <4>1, <4>2 DEF holder
    <3> QED BY <3>2, <3>3
  <2>20. NextHolder'
    <3> SUFFICES ASSUME NEW n \in Mutexes, Holder(n) = NoTask,
                        NEW w \in Members(mutex'[n].xTasksWaitingToReceive)
                 PROVE  \E u \in Tasks : /\ taker'[u].pc = "try" /\ taker'[u].call.mutex = n
                                         /\ uxBasePriority[u] >= uxBasePriority[w]
      BY <2>8 DEF NextHolder, Holder
    <3>1. n # m /\ mutex'[n] = mutex[n]
      BY <1>5, <2>8
    <3>2. PICK u \in Tasks : /\ taker[u].pc = "try" /\ taker[u].call.mutex = n
                             /\ uxBasePriority[u] >= uxBasePriority[w]
      BY <3>1 DEF HolderIInv, NextHolder
    <3>3. u # t
      BY <1>1, <3>2
    <3> QED BY <2>11, <3>2, <3>3
  <2> QED BY <2>13, <2>14, <2>15, <2>16, <2>17, <2>18, <2>19, <2>20 DEF HolderIInv
<1> QED BY <1>4, <1>5 DEF Block

\* Of a task that holds one mutex the count is 1 for no other.
LEMMA HoldsOne ==
  ASSUME InheritanceEnds, NEW t \in Tasks, k.uxMutexesHeld[t] = 1,
         NEW m \in Mutexes, NEW n \in Mutexes, Holder(m) = t, Holder(n) = t
  PROVE  m = n
<1> DEFINE held == {i \in Mutexes : Holder(i) = t}
<1>1. IsFiniteSet(held) /\ Cardinality(held) = 1
  BY MutexAssumption, FS_Subset DEF InheritanceEnds
<1>2. m \in held /\ n \in held
  OBVIOUS
<1> HIDE DEF held
<1>3. Cardinality(held \ {m}) = 0 /\ IsFiniteSet(held \ {m})
  BY <1>1, <1>2, FS_RemoveElement
<1>4. held \ {m} = {}
  BY <1>3, FS_EmptySet
<1> QED BY <1>2, <1>4

\* A time-out leaves the holder the priority of the first task that still waits.
LEMMA TimeoutHolders ==
  ASSUME WaitersHoldNone, MutexIInv, HolderIInv, NEW t \in Tasks,
         vTaskPriorityDisinheritAfterTimeout(t)
  PROVE  HolderIInv'
<1> DEFINE m == taker[t].call.mutex
           c == k.pxCurrentTCB
           holder == Holder(m)
           list == mutex[m].xTasksWaitingToReceive
           waiting == HighestWaiting(list)
           r == DisinheritAfterTimeout(k, holder, waiting)
<1>1. taker[t].pc = "disinherit" /\ UNCHANGED mutex /\ taker' = [taker EXCEPT ![t] = NotTaking]
  BY DEF vTaskPriorityDisinheritAfterTimeout, HighestRuns, TakeReturns
<1>2. m \in Mutexes
  BY <1>1 DEF MutexIInv, TakersOK
<1>3. taker'[t].pc = "app" /\ \A u \in Tasks : u # t => taker'[u] = taker[u]
  BY <1>1 DEF MutexIInv, TakersOK, NotTaking
<1>4. CASE holder = NoTask
  <2>1. k' = k
    BY <1>4 DEF vTaskPriorityDisinheritAfterTimeout
  <2>2. NotTaking.pc = "app"
    BY DEF NotTaking
  <2> QED BY <1>1, <2>1, <2>2, MovesOn
<1>5. CASE holder # NoTask
  <2>1. k' = r
    BY <1>5 DEF vTaskPriorityDisinheritAfterTimeout
  <2>2. holder \in Tasks /\ k \in KType(c) /\ Found(k)
    BY <1>2, <1>5 DEF MutexIInv, MutexesOK, SchedulerOK, Holder
  <2>3. waiting \in Priorities
    BY <1>2, HighestWaitingIsAPriority DEF MutexIInv, WaitersExact
  <2>4. \A w \in Members(list) : waiting >= uxBasePriority[w]
    <3> SUFFICES ASSUME NEW w \in Members(list)
                 PROVE  waiting >= uxBasePriority[w]
      OBVIOUS
    <3>1. /\ list # <<>> /\ Head(list) \in Tasks
          /\ taker[Head(list)].pc = "blocked" /\ uxBasePriority[Head(list)] >= uxBasePriority[w]
      <4> HIDE DEF m
      <4> QED BY <1>2, FirstIsHighest
    <3>2. k.eventPriority[Head(list)] = uxBasePriority[Head(list)]
      <4> HIDE DEF list
      <4> QED BY <3>1, OwnPriority
    <3> QED BY <3>1, <3>2 DEF HighestWaiting
  <2> HIDE DEF waiting
  <2>5. /\ r \in KType(c) /\ Lends(k, r, holder)
        /\ k.uxMutexesHeld[holder] # 1 => r.uxPriority[holder] = k.uxPriority[holder]
        /\ k.uxMutexesHeld[holder] = 1 =>
             /\ r.uxPriority[holder] >= uxBasePriority[holder]
             /\ r.uxPriority[holder] >= waiting
    <3> HIDE DEF c, holder
    <3> QED BY <2>2, <2>3, DisinheritAfterTimeoutFound, DisinheritAfterTimeoutLends
  <2> HIDE DEF r, c
  <2>6. \A u \in Tasks : u # holder => k'.uxPriority[u] = k.uxPriority[u]
    BY <2>1, <2>5, PrioritiesAreNumbers DEF Lends, Keeps
  <2>7. ItemsAgree(k)'
    BY <2>1, <2>5 DEF Lends, HolderIInv, ItemsAgree
  <2>8. AtLeastOwn'
    <3> SUFFICES ASSUME NEW u \in Tasks
                 PROVE  k'.uxPriority[u] >= uxBasePriority[u]
      BY DEF AtLeastOwn
    <3>1. k.uxPriority[u] >= uxBasePriority[u]
      BY DEF HolderIInv, AtLeastOwn
    <3> QED BY <2>1, <2>5, <2>6, <3>1
  <2>9. \A u \in Tasks : taker'[u].pc \notin {"app", "delayed"} =>
          taker'[u] = taker[u] /\ taker[u].call.mutex \in Mutexes
    BY <1>3 DEF MutexIInv, TakersOK
  <2>10. CallsAllowed' /\ HeldAllowed' /\ WaitersSorted'
    <3>1. CallsAllowed'
      BY <1>1, <2>9 DEF HolderIInv, CallsAllowed, Holder
    <3>2. HeldAllowed'
      BY <1>1 DEF HolderIInv, HeldAllowed, Holder
    <3> QED BY <1>1, <3>1, <3>2 DEF HolderIInv, WaitersSorted
  <2>11. RunsReady'
    <3> SUFFICES ASSUME NEW u \in Tasks, taker'[u].pc \notin {"blocked", "delayed"}
                 PROVE  IsReady(k', u)
      BY DEF RunsReady
    <3>1. IsReady(k, u)
      BY <1>1, <1>3 DEF HolderIInv, RunsReady
    <3> QED BY <2>1, <2>5, <3>1 DEF Lends
  <2>12. HolderInherits'
    <3> SUFFICES ASSUME NEW n \in Mutexes, Holder(n) # NoTask,
                        NEW w \in Members(mutex[n].xTasksWaitingToReceive)
                 PROVE  k'.uxPriority[Holder(n)] >= uxBasePriority[w]
      BY <1>1 DEF HolderInherits, Holder
    <3>1. k.uxPriority[Holder(n)] >= uxBasePriority[w] /\ Holder(n) \in Tasks
      BY DEF HolderIInv, HolderInherits, MutexIInv, MutexesOK, Holder
    <3>2. CASE Holder(n) # holder
      BY <2>6, <3>1, <3>2
    <3>3. CASE Holder(n) = holder /\ k.uxMutexesHeld[holder] # 1
      BY <2>1, <2>5, <3>1, <3>3
    <3>4. CASE Holder(n) = holder /\ k.uxMutexesHeld[holder] = 1
      <4>1. n = m
        <5> HIDE DEF m
        <5> QED BY <1>2, <2>2, <3>4, HoldsOne DEF MutexIInv, holder
      <4>2. waiting >= uxBasePriority[w] /\ r.uxPriority[holder] >= waiting
        BY <2>4, <2>5, <3>4, <4>1
      <4>3. w \in Tasks
        BY ItemsMembers DEF MutexIInv, WaitersExact
      <4>4. waiting \in Nat /\ uxBasePriority[w] \in Nat /\ r.uxPriority[holder] \in Nat
        BY <2>2, <2>3, <2>5, <4>3, PrioritiesAreNumbers DEF KType
      <4> HIDE DEF holder
      <4> QED BY <2>1, <3>4, <4>2, <4>4
    <3> QED BY <3>2, <3>3, <3>4
  <2>13. NextHolder'
    <3> SUFFICES ASSUME NEW n \in Mutexes, Holder(n) = NoTask,
                        NEW w \in Members(mutex[n].xTasksWaitingToReceive)
                 PROVE  \E u \in Tasks : /\ taker'[u].pc = "try" /\ taker'[u].call.mutex = n
                                         /\ uxBasePriority[u] >= uxBasePriority[w]
      BY <1>1 DEF NextHolder, Holder
    <3>1. PICK u \in Tasks : /\ taker[u].pc = "try" /\ taker[u].call.mutex = n
                             /\ uxBasePriority[u] >= uxBasePriority[w]
      BY DEF HolderIInv, NextHolder
    <3>2. u # t
      BY <1>1, <3>1
    <3> QED BY <1>3, <3>1, <3>2
  <2> QED BY <2>7, <2>8, <2>10, <2>11, <2>12, <2>13 DEF HolderIInv
<1> QED BY <1>4, <1>5

\* The first task that waits is on its way to the mutex that is given.
LEMMA GiveHolders ==
  ASSUME WaitersHoldNone, MutexIInv, HolderIInv, NEW t \in Tasks, xQueueGive(t)
  PROVE  HolderIInv'
<1>1. PICK m \in Mutexes :
        /\ Holder(m) = t
        /\ LET list == mutex[m].xTasksWaitingToReceive
               s == PriorityDisinherit(k, t)
           IN IF mutex[m].uxRecursiveCallCount > 1
                THEN /\ mutex' = [mutex EXCEPT ![m].uxRecursiveCallCount = @ - 1]
                     /\ UNCHANGED <<k, taker>>
                ELSE /\ mutex' = [mutex EXCEPT ![m] =
                           [xMutexHolder |-> NoTask, uxRecursiveCallCount |-> 0,
                            xTasksWaitingToReceive |-> IF list = <<>> THEN list ELSE Tail(list)]]
                     /\ k' = IF list = <<>> THEN s ELSE AddToReady(s, Head(list))
                     /\ taker' = IF list = <<>> THEN taker
                                ELSE [taker EXCEPT ![Head(list)].pc = "try"]
  BY DEF xQueueGive
<1>0. taker[t].pc = "app"
  BY DEF xQueueGive, HighestRuns
<1> DEFINE c == k.pxCurrentTCB
           list == mutex[m].xTasksWaitingToReceive
           s == PriorityDisinherit(k, t)
<1>2. CASE mutex[m].uxRecursiveCallCount > 1
  <2>1. mutex' = [mutex EXCEPT ![m].uxRecursiveCallCount = @ - 1] /\ UNCHANGED <<k, taker>>
    BY <1>1, <1>2
  <2>2. \A n \in Mutexes :
          /\ mutex'[n].xTasksWaitingToReceive = mutex[n].xTasksWaitingToReceive
          /\ mutex'[n].xMutexHolder = mutex[n].xMutexHolder
    BY <2>1 DEF MutexIInv, MutexesOK
  <2> QED BY <2>1, <2>2, NobodyMoves DEF Holder, MutexIInv
<1>3. CASE ~(mutex[m].uxRecursiveCallCount > 1)
  <2> DEFINE rest == IF list = <<>> THEN list ELSE Tail(list)
  <2>1. /\ mutex' = [mutex EXCEPT ![m] = [xMutexHolder |-> NoTask, uxRecursiveCallCount |-> 0,
                                         xTasksWaitingToReceive |-> rest]]
        /\ k' = IF list = <<>> THEN s ELSE AddToReady(s, Head(list))
        /\ taker' = IF list = <<>> THEN taker ELSE [taker EXCEPT ![Head(list)].pc = "try"]
    BY <1>1, <1>3
  <2>2. /\ IsItems(list, Tasks) /\ ListSorted(list, OwnFirst)
        /\ Members(list) = {u \in Tasks : taker[u].pc = "blocked" /\ taker[u].call.mutex = m}
    BY DEF MutexIInv, WaitersExact, HolderIInv, WaitersSorted
  <2>3. k \in KType(c) /\ Found(k) /\ k.uxMutexesHeld[t] # 0
    BY <1>1, HolderCounts DEF MutexIInv, SchedulerOK
  <2>4. /\ s \in KType(c) /\ Found(s) /\ Lends(k, s, t)
        /\ s.uxPriority[t] \in {k.uxPriority[t], uxBasePriority[t]}
        /\ k.uxMutexesHeld[t] # 1 => s.uxPriority[t] = k.uxPriority[t]
    <3> HIDE DEF c
    <3>1. s \in KType(c) /\ Found(s)
      BY <2>3, PriorityDisinheritFound
    <3>2. /\ Lends(k, s, t)
          /\ s.uxPriority[t] \in {k.uxPriority[t], uxBasePriority[t]}
          /\ k.uxMutexesHeld[t] # 1 => s.uxPriority[t] = k.uxPriority[t]
      BY <2>3, PriorityDisinheritLends
    <3> HIDE DEF s
    <3> QED BY <3>1, <3>2
  <2>5. /\ mutex'[m].xMutexHolder = NoTask /\ mutex'[m].xTasksWaitingToReceive = rest
        /\ \A n \in Mutexes : n # m => mutex'[n] = mutex[n]
    BY <2>1 DEF MutexIInv, MutexesOK
  <2>6. /\ ListSorted(rest, OwnFirst) /\ Members(rest) \subseteq Members(list)
        /\ list # <<>> => /\ Head(list) \in Tasks /\ Head(list) \in Members(list)
    <3> HIDE DEF list
    <3>1. CASE list = <<>>
      BY <2>2, <3>1
    <3>2. CASE list # <<>>
      BY <2>2, <3>2, TailItems, TailSorted
    <3> QED BY <3>1, <3>2
  <2> HIDE DEF s, c
  <2>7. /\ k'.uxPriority = s.uxPriority /\ k'.eventPriority = s.eventPriority
        /\ \A u \in Tasks : IsReady(s, u) => IsReady(k', u)
        /\ list # <<>> => IsReady(k', Head(list))
    <3>1. CASE list = <<>>
      BY <2>1, <3>1
    <3>2. CASE list # <<>>
      <4> DEFINE h == Head(list)
      <4>1. h \in Tasks /\ k' = AddToReady(s, h)
        BY <2>1, <2>6, <3>2
      <4> HIDE DEF h
      <4>2. /\ AddToReady(s, h).uxPriority = s.uxPriority
            /\ AddToReady(s, h).eventPriority = s.eventPriority
            /\ \A u \in Tasks : IsReady(AddToReady(s, h), u) <=> IsReady(s, u) \/ u = h
        BY <2>4, <4>1, AddToReadyFound, AddToReadyReady
      <4> QED BY <4>1, <4>2 DEF h
    <3> QED BY <3>1, <3>2
  <2> HIDE DEF rest
  <2>8. /\ \A u \in Tasks : u \notin Members(list) => taker'[u] = taker[u]
        /\ \A u \in Tasks : taker'[u].call = taker[u].call
        /\ \A u \in Tasks : taker[u].pc = "try" => taker'[u].pc = "try"
        /\ \A u \in Tasks : taker'[u].pc \notin {"app", "delayed"} => taker[u].pc \notin {"app", "delayed"}
        /\ \A u \in Tasks : taker'[u].pc \notin {"blocked", "delayed"} =>
             \/ taker[u].pc \notin {"blocked", "delayed"}
             \/ list # <<>> /\ u = Head(list)
        /\ list # <<>> => taker'[Head(list)].pc = "try"
    <3>1. CASE list = <<>>
      BY <2>1, <3>1
    <3>2. CASE list # <<>>
      <4> DEFINE h == Head(list)
      <4>1. /\ h \in Tasks /\ h \in Members(list) /\ taker[h].pc = "blocked"
            /\ taker' = [taker EXCEPT ![h].pc = "try"]
        BY <2>1, <2>2, <2>6, <3>2
      <4> HIDE DEF h, list
      <4>2. /\ taker'[h].pc = "try" /\ taker'[h].call = taker[h].call
            /\ \A u \in Tasks : u # h => taker'[u] = taker[u]
        BY <4>1 DEF MutexIInv, TakersOK, TakerType
      <4>3. \A u \in Tasks : taker'[u].call = taker[u].call
        BY <4>2
      <4>4. \A u \in Tasks : u \notin Members(list) => taker'[u] = taker[u]
        BY <4>1, <4>2
      <4>5. \A u \in Tasks : taker[u].pc = "try" => taker'[u].pc = "try"
        BY <4>1, <4>2
      <4>6. \A u \in Tasks : taker'[u].pc \notin {"app", "delayed"} => taker[u].pc \notin {"app", "delayed"}
        <5> SUFFICES ASSUME NEW u \in Tasks, taker'[u].pc \notin {"app", "delayed"}
                     PROVE  taker[u].pc \notin {"app", "delayed"}
          OBVIOUS
        <5>1. CASE u = h
          BY <4>1, <5>1
        <5>2. CASE u # h
          BY <4>2, <5>2
        <5> QED BY <5>1, <5>2
      <4>7. \A u \in Tasks : taker'[u].pc \notin {"blocked", "delayed"} =>
               taker[u].pc \notin {"blocked", "delayed"} \/ u = h
        BY <4>2
      <4> QED BY <3>2, <4>2, <4>3, <4>4, <4>5, <4>6, <4>7 DEF h
    <3> QED BY <3>1, <3>2
  <2>9. \A u \in Tasks : u # NoTask
    BY MutexAssumption DEF AllTasks
  <2>10. \A u \in Tasks : u # t => k'.uxPriority[u] = k.uxPriority[u]
    BY <2>4, <2>7, PrioritiesAreNumbers DEF Lends, Keeps
  <2>11. ItemsAgree(k)'
    BY <2>4, <2>7 DEF Lends, HolderIInv, ItemsAgree
  <2>12. AtLeastOwn'
    <3> SUFFICES ASSUME NEW u \in Tasks
                 PROVE  k'.uxPriority[u] >= uxBasePriority[u]
      BY DEF AtLeastOwn
    <3>1. k.uxPriority[u] >= uxBasePriority[u] /\ uxBasePriority[u] \in Nat
      BY PrioritiesAreNumbers DEF HolderIInv, AtLeastOwn
    <3>2. uxBasePriority[u] >= uxBasePriority[u]
      BY <3>1
    <3>3. CASE u = t
      BY <2>4, <2>7, <3>1, <3>2, <3>3
    <3>4. CASE u # t
      BY <2>10, <3>1, <3>4
    <3> QED BY <3>3, <3>4
  <2>13. CallsAllowed'
    <3> SUFFICES ASSUME NEW u \in Tasks, taker'[u].pc \notin {"app", "delayed"}
                 PROVE  /\ taker'[u].call \in TakeCalls[u] /\ taker'[u].call.block # "no"
                        /\ mutex'[taker'[u].call.mutex].xMutexHolder # u
      BY DEF CallsAllowed, Holder
    <3>1. taker[u].pc \notin {"app", "delayed"} /\ taker'[u].call = taker[u].call
      BY <2>8
    <3>2. /\ taker[u].call \in TakeCalls[u] /\ taker[u].call.block # "no"
          /\ mutex[taker[u].call.mutex].xMutexHolder # u /\ taker[u].call.mutex \in Mutexes
      BY <3>1 DEF HolderIInv, CallsAllowed, Holder, MutexIInv, TakersOK
    <3> QED BY <2>5, <2>9, <3>1, <3>2
  <2>14. HeldAllowed'
    BY <2>5, <2>9 DEF HolderIInv, HeldAllowed, Holder
  <2>15. RunsReady'
    <3> SUFFICES ASSUME NEW u \in Tasks, taker'[u].pc \notin {"blocked", "delayed"}
                 PROVE  IsReady(k', u)
      BY DEF RunsReady
    <3>1. CASE taker[u].pc \notin {"blocked", "delayed"}
      <4>1. IsReady(k, u)
        BY <3>1 DEF HolderIInv, RunsReady
      <4> QED BY <2>4, <2>7, <4>1 DEF Lends
    <3>2. CASE list # <<>> /\ u = Head(list)
      BY <2>7, <3>2
    <3> QED BY <2>8, <3>1, <3>2
  <2>16. WaitersSorted'
    BY <2>5, <2>6 DEF HolderIInv, WaitersSorted
  <2>17. HolderInherits'
    <3> SUFFICES ASSUME NEW n \in Mutexes, mutex'[n].xMutexHolder # NoTask,
                        NEW w \in Members(mutex'[n].xTasksWaitingToReceive)
                 PROVE  k'.uxPriority[mutex'[n].xMutexHolder] >= uxBasePriority[w]
      BY DEF HolderInherits, Holder
    <3>1. n # m /\ mutex'[n] = mutex[n]
      BY <2>5
    <3>2. k.uxPriority[Holder(n)] >= uxBasePriority[w] /\ Holder(n) \in Tasks
      BY <3>1 DEF HolderIInv, HolderInherits, MutexIInv, MutexesOK, Holder
    <3>3. CASE Holder(n) # t
      BY <2>10, <3>1, <3>2, <3>3 DEF Holder
    <3>4. CASE Holder(n) = t
      <4>1. k.uxMutexesHeld[t] # 1
        BY <1>1, <3>1, <3>4, HoldsOne DEF MutexIInv
      <4> QED BY <2>4, <2>7, <3>1, <3>2, <3>4, <4>1 DEF Holder
    <3> QED BY <3>3, <3>4
  <2>18. NextHolder'
    <3> SUFFICES ASSUME NEW n \in Mutexes, mutex'[n].xMutexHolder = NoTask,
                        NEW w \in Members(mutex'[n].xTasksWaitingToReceive)
                 PROVE  \E u \in Tasks : /\ taker'[u].pc = "try" /\ taker'[u].call.mutex = n
                                         /\ uxBasePriority[u] >= uxBasePriority[w]
      BY DEF NextHolder, Holder
    <3>1. CASE n # m
      <4>1. PICK u \in Tasks : /\ taker[u].pc = "try" /\ taker[u].call.mutex = n
                               /\ uxBasePriority[u] >= uxBasePriority[w]
        BY <2>5, <3>1 DEF HolderIInv, NextHolder, Holder
      <4> QED BY <2>8, <4>1
    <3>2. CASE n = m
      <4>1. w \in Members(list)
        BY <2>5, <2>6, <3>2
      <4>2. list # <<>> /\ Head(list) \in Tasks /\ uxBasePriority[Head(list)] >= uxBasePriority[w]
        BY <4>1, FirstIsHighest
      <4>3. taker'[Head(list)].call.mutex = m
        BY <2>2, <2>6, <2>8, <4>2
      <4> QED BY <2>8, <3>2, <4>2, <4>3
    <3> QED BY <3>1, <3>2
  <2> QED BY <2>11, <2>12, <2>13, <2>14, <2>15, <2>16, <2>17, <2>18 DEF HolderIInv
<1> QED BY <1>2, <1>3

LEMMA WakeUpHolders ==
  ASSUME MutexIInv, HolderIInv, NEW t \in Tasks, WakeUp(t)
  PROVE  HolderIInv'
<1>1. k \in KType(k.pxCurrentTCB) /\ Found(k) /\ k' = AddToReady(k, t)
  BY DEF MutexIInv, SchedulerOK, WakeUp
<1>2. /\ k'.uxPriority = k.uxPriority /\ k'.eventPriority = k.eventPriority
      /\ \A u \in Tasks : IsReady(k', u) <=> IsReady(k, u) \/ u = t
  <2>1. /\ AddToReady(k, t).uxPriority = k.uxPriority
        /\ AddToReady(k, t).eventPriority = k.eventPriority
        /\ \A u \in Tasks : IsReady(AddToReady(k, t), u) <=> IsReady(k, u) \/ u = t
    BY <1>1, AddToReadyFound, AddToReadyReady
  <2> QED BY <1>1, <2>1
<1>3. \A u \in Tasks : taker[u].pc \notin {"app", "delayed"} => taker[u].call.mutex \in Mutexes
  BY DEF MutexIInv, TakersOK
<1>4. CASE taker[t].pc = "delayed" /\ taker' = [taker EXCEPT ![t] = NotTaking] /\ UNCHANGED mutex
  <2>1. taker'[t].pc = "app" /\ \A u \in Tasks : u # t => taker'[u] = taker[u]
    BY <1>4 DEF MutexIInv, TakersOK, NotTaking
  <2>2. \A m \in Mutexes : /\ Holder(m)' = Holder(m)
                           /\ mutex'[m].xTasksWaitingToReceive = mutex[m].xTasksWaitingToReceive
    BY <1>4 DEF Holder
  <2>3. /\ \A u \in Tasks : IsReady(k, u) /\ u # t => IsReady(k', u)
        /\ taker'[t].pc \notin {"blocked", "delayed"} => IsReady(k', t)
        /\ taker'[t].pc \notin {"app", "delayed"} =>
             /\ taker'[t].call \in TakeCalls[t] /\ taker'[t].call.block # "no"
             /\ taker'[t].call.mutex \in Mutexes /\ Holder(taker'[t].call.mutex) # t
        /\ taker[t].pc = "try" => /\ taker[t].call.mutex \in Mutexes
                                  /\ Holder(taker[t].call.mutex) # NoTask
    BY <1>2, <1>4, <2>1
  <2> QED BY <1>2, <1>3, <2>1, <2>2, <2>3, HoldersKept
<1> DEFINE m == taker[t].call.mutex
           x == [taker[t] EXCEPT !.pc = "try", !.time = "over"]
           list == mutex[m].xTasksWaitingToReceive
           rest == Without(list, t)
<1>5. CASE /\ taker[t].pc = "blocked" /\ taker' = [taker EXCEPT ![t] = x]
           /\ mutex' = [mutex EXCEPT ![m].xTasksWaitingToReceive = Without(@, t)]
  <2>1. m \in Mutexes /\ taker[t] \in TakerType
    BY <1>5 DEF MutexIInv, TakersOK
  <2>2. x.pc = "try" /\ x.call = taker[t].call
    BY <2>1 DEF TakerType
  <2> HIDE DEF x
  <2>3. taker'[t] = x /\ \A u \in Tasks : u # t => taker'[u] = taker[u]
    BY <1>5 DEF MutexIInv, TakersOK
  <2>4. IsItems(list, Tasks) /\ ListSorted(list, OwnFirst)
    BY <2>1 DEF MutexIInv, WaitersExact, HolderIInv, WaitersSorted
  <2>5. ListSorted(rest, OwnFirst) /\ Members(rest) \subseteq Members(list)
    <3> HIDE DEF list
    <3> QED BY <2>4, WithoutItems, WithoutSorted
  <2>6. mutex' = [mutex EXCEPT ![m] = [mutex[m] EXCEPT !.xTasksWaitingToReceive = rest]]
    BY <1>5
  <2> HIDE DEF rest
  <2>7. /\ mutex'[m].xTasksWaitingToReceive = rest
        /\ \A n \in Mutexes : n # m => mutex'[n] = mutex[n]
        /\ \A n \in Mutexes : mutex'[n].xMutexHolder = mutex[n].xMutexHolder
    BY <2>1, <2>6 DEF MutexIInv, MutexesOK
  <2>8. \A n \in Mutexes :
          Members(mutex'[n].xTasksWaitingToReceive) \subseteq Members(mutex[n].xTasksWaitingToReceive)
    BY <2>5, <2>7
  <2>9. ItemsAgree(k)' /\ AtLeastOwn'
    BY <1>2 DEF HolderIInv, ItemsAgree, AtLeastOwn
  <2>10. CallsAllowed'
    <3>1. \A u \in Tasks : taker'[u].call = taker[u].call
      BY <2>2, <2>3
    <3>2. \A u \in Tasks : taker'[u].pc \notin {"app", "delayed"} => taker[u].pc \notin {"app", "delayed"}
      BY <1>5, <2>3
    <3> QED BY <1>3, <2>7, <3>1, <3>2 DEF HolderIInv, CallsAllowed, Holder
  <2>11. HeldAllowed'
    BY <2>7 DEF HolderIInv, HeldAllowed, Holder
  <2>12. RunsReady'
    BY <1>2, <2>3 DEF HolderIInv, RunsReady
  <2>13. WaitersSorted'
    BY <2>5, <2>7 DEF HolderIInv, WaitersSorted
  <2>14. HolderInherits'
    BY <1>2, <2>7, <2>8 DEF HolderIInv, HolderInherits, Holder
  <2>15. NextHolder'
    <3> SUFFICES ASSUME NEW n \in Mutexes, Holder(n) = NoTask,
                        NEW w \in Members(mutex'[n].xTasksWaitingToReceive)
                 PROVE  \E u \in Tasks : /\ taker'[u].pc = "try" /\ taker'[u].call.mutex = n
                                         /\ uxBasePriority[u] >= uxBasePriority[w]
      BY <2>7 DEF NextHolder, Holder
    <3>1. PICK u \in Tasks : /\ taker[u].pc = "try" /\ taker[u].call.mutex = n
                             /\ uxBasePriority[u] >= uxBasePriority[w]
      BY <2>8 DEF HolderIInv, NextHolder
    <3>2. u # t
      BY <1>5, <3>1
    <3> QED BY <2>3, <3>1, <3>2
  <2> QED BY <2>9, <2>10, <2>11, <2>12, <2>13, <2>14, <2>15 DEF HolderIInv
<1> QED BY <1>4, <1>5 DEF WakeUp, TakeReturns

LEMMA HolderNextInv ==
  ASSUME WaitersHoldNone, MutexIInv, HolderIInv, [MutexNext]_mutexVars
  PROVE  HolderIInv'
<1>1. CASE UNCHANGED mutexVars
  BY <1>1, NobodyMoves DEF mutexVars, Holder, MutexIInv
<1>2. ASSUME NEW t \in Tasks,
             \/ xQueueSemaphoreTake(t) \/ xQueueTakeMutexRecursive(t) \/ Block(t)
             \/ TestAfterTimeout(t) \/ vTaskPriorityDisinheritAfterTimeout(t)
             \/ xQueueGive(t) \/ Delay(t) \/ WakeUp(t)
      PROVE  HolderIInv'
  BY <1>2, TakeHolders, RecursiveHolders, BlockHolders, TestHolders, TimeoutHolders,
     GiveHolders, DelayHolders, WakeUpHolders
<1> QED BY <1>1, <1>2, SwitchHolders DEF MutexNext

(* The point of priority inheritance: whoever waits for a mutex, gives up,     *)
(* or takes it in between, its holder never runs below the own priority of a   *)
(* task that waits for it, where a task that waits holds no mutex or has the   *)
(* highest priority.  That condition is needed: tasks that nest their takes    *)
(* freely can leave a holder below one that waits, because the waiting lists   *)
(* are not sorted again when a task that is on one inherits a priority.        *)
THEOREM HolderRunsHighEnough == WaitersHoldNone => (MutexSpec => []HolderInherits)
<1> SUFFICES ASSUME WaitersHoldNone
             PROVE  MutexSpec => []HolderInherits
  OBVIOUS
<1>1. MutexInit => MutexIInv /\ HolderIInv
  BY MutexInitInv, HolderInitInv
<1>2. (MutexIInv /\ HolderIInv) /\ [MutexNext]_mutexVars => (MutexIInv /\ HolderIInv)'
  BY MutexNextInv, HolderNextInv
<1>3. MutexIInv /\ HolderIInv => HolderInherits
  BY DEF HolderIInv
<1> QED BY <1>1, <1>2, <1>3, PTL DEF MutexSpec
=============================================================================
