----------------------------- MODULE LinkedList -----------------------------
(***************************************************************************)
(* The doubly linked lists of FreeRTOS/Source/list.c, pointer by pointer.  *)
(* The xListEnd of a list is a node with the name of the list.             *)
(***************************************************************************)
EXTENDS KernelLists, FiniteSets

CONSTANTS
  Items,
  Rotating,      \* the lists that are used with vListInsertEnd
  SortedLists,   \* the lists that are used with vListInsert
  portMAX_DELAY,
  NoNode

AllLists == Rotating \cup SortedLists
Nodes == Items \cup AllLists
TickType == 0 .. portMAX_DELAY

ASSUME LinkedListAssumption ==
  /\ Items \cap AllLists = {} /\ Rotating \cap SortedLists = {}
  /\ NoNode \notin Nodes /\ portMAX_DELAY \in Nat
  /\ IsFiniteSet(Items)

VARIABLES
  pxNext, pxPrevious,   \* [node -> node]
  pxContainer,          \* [item -> the list it is on, or NoNode]
  xItemValue,           \* [item -> value]
  pxIndex,              \* [list -> node]
  uxNumberOfItems       \* [list -> number]

linkedVars == <<pxNext, pxPrevious, pxContainer, xItemValue, pxIndex, uxNumberOfItems>>

\* vListInitialise and vListInitialiseItem.  The pointers of an item that is on
\* no list are never read.
LinkedInit ==
  /\ pxNext = [n \in Nodes |-> n]
  /\ pxPrevious = [n \in Nodes |-> n]
  /\ pxContainer = [item \in Items |-> NoNode]
  /\ xItemValue = [item \in Items |-> 0]
  /\ pxIndex = [l \in AllLists |-> l]
  /\ uxNumberOfItems = [l \in AllLists |-> 0]

(* Each definition whose name ends in Faulty is a variant of the one that  *)
(* follows it, with a plausible mistake; the specification uses none.      *)

\* The assignments of both insertions, item between two neighbours.
LinkFaulty(item, previous, next) ==
  /\ pxNext' = [pxNext EXCEPT ![item] = next, ![previous] = item]
  /\ pxPrevious' = [pxPrevious EXCEPT ![item] = previous]
Link(item, previous, next) ==
  /\ pxNext' = [pxNext EXCEPT ![item] = next, ![previous] = item]
  /\ pxPrevious' = [pxPrevious EXCEPT ![item] = previous, ![next] = item]

vListInsertEnd(l, item) ==
  /\ pxContainer[item] = NoNode
  /\ Link(item, pxPrevious[pxIndex[l]], pxIndex[l])
  /\ pxContainer' = [pxContainer EXCEPT ![item] = l]
  /\ uxNumberOfItems' = [uxNumberOfItems EXCEPT ![l] = @ + 1]
  /\ UNCHANGED <<xItemValue, pxIndex>>

\* xListEnd has the greatest value, so that the loop ends there at the latest.
ValueOf(n) == IF n \in AllLists THEN portMAX_DELAY ELSE xItemValue[n]

\* The last node from xListEnd on whose successor is greater than the value.
pxIterator(l, value) ==
  LET walk[n \in Nodes] == IF ValueOf(pxNext[n]) <= value THEN walk[pxNext[n]] ELSE n
  IN IF value = portMAX_DELAY THEN pxPrevious[l] ELSE walk[l]

\* listSET_LIST_ITEM_VALUE and vListInsert.
vListInsert(l, item, value) ==
  /\ pxContainer[item] = NoNode
  /\ Link(item, pxIterator(l, value), pxNext[pxIterator(l, value)])
  /\ xItemValue' = [xItemValue EXCEPT ![item] = value]
  /\ pxContainer' = [pxContainer EXCEPT ![item] = l]
  /\ uxNumberOfItems' = [uxNumberOfItems EXCEPT ![l] = @ + 1]
  /\ UNCHANGED pxIndex

\* pxIndex does not stay behind on an item that leaves the list.
IndexAfterRemoveFaulty(l, item) == IF pxIndex[l] = item THEN pxNext[item] ELSE pxIndex[l]
IndexAfterRemove(l, item) == IF pxIndex[l] = item THEN pxPrevious[item] ELSE pxIndex[l]

uxListRemove(item) ==
  LET l == pxContainer[item] IN
  /\ l # NoNode
  /\ pxPrevious' = [pxPrevious EXCEPT ![pxNext[item]] = pxPrevious[item]]
  /\ pxNext' = [pxNext EXCEPT ![pxPrevious[item]] = pxNext[item]]
  /\ pxIndex' = [pxIndex EXCEPT ![l] = IndexAfterRemove(l, item)]
  /\ pxContainer' = [pxContainer EXCEPT ![item] = NoNode]
  /\ uxNumberOfItems' = [uxNumberOfItems EXCEPT ![l] = @ - 1]
  /\ UNCHANGED xItemValue

\* taskSELECT_HIGHEST_PRIORITY_TASK never does this to an empty list
\* (tasks.c:178, and Kernel!TopReadyPriorityExact).
listGET_OWNER_OF_NEXT_ENTRY(l) ==
  LET next == pxNext[pxIndex[l]] IN
  /\ uxNumberOfItems[l] > 0
  /\ pxIndex' = [pxIndex EXCEPT ![l] = IF next = l THEN pxNext[next] ELSE next]
  /\ UNCHANGED <<pxNext, pxPrevious, pxContainer, xItemValue, uxNumberOfItems>>

LinkedNext ==
  \/ \E l \in Rotating, item \in Items : vListInsertEnd(l, item)
  \/ \E l \in SortedLists, item \in Items, value \in TickType : vListInsert(l, item, value)
  \/ \E item \in Items : uxListRemove(item)
  \/ \E l \in Rotating : listGET_OWNER_OF_NEXT_ENTRY(l)

LinkedSpec == LinkedInit /\ [][LinkedNext]_linkedVars

-----------------------------------------------------------------------------
\* The nodes of a list: its xListEnd and the items it contains.
NodesOf(l) == {l} \cup {item \in Items : pxContainer[item] = l}

\* Each list is a ring in both directions, through its own nodes only: a walk
\* either way never gets lost in another list or on an item that was removed.
\* And it counts its items, by which the time slice and the ready bitmap are
\* decided (tasks.c:2853 and 5327).
Rings ==
  \A l \in AllLists :
    /\ pxIndex[l] \in NodesOf(l)
    /\ uxNumberOfItems[l] = Cardinality(NodesOf(l)) - 1
    /\ \A n \in NodesOf(l) : /\ pxNext[n] \in NodesOf(l) /\ pxPrevious[pxNext[n]] = n
                             /\ pxPrevious[n] \in NodesOf(l) /\ pxNext[pxPrevious[n]] = n

\* The items met from xListEnd on.
ItemsFrom(n) ==
  LET walk[i \in 0 .. Cardinality(Items)] ==
        [m \in Nodes |-> IF pxNext[m] \in AllLists \/ i = 0 THEN <<>>
                         ELSE <<pxNext[m]>> \o walk[i - 1][pxNext[m]]]
  IN walk[Cardinality(Items)][n]

Position(items, n) ==
  IF n \in AllLists THEN 0 ELSE CHOOSE i \in 1 .. Len(items) : items[i] = n

Abstract == INSTANCE Lists WITH
  lists <- [l \in AllLists |->
              [items |-> ItemsFrom(l), index |-> Position(ItemsFrom(l), pxIndex[l])]]

\* The pointers implement the sequences that module Kernel works with.
ImplementsLists == Abstract!ListsSpec
=============================================================================
