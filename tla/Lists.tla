-------------------------------- MODULE Lists --------------------------------
(***************************************************************************)
(* What the lists of list.c promise to the kernel: the operators of        *)
(* KernelLists on sequences.  A rotating list is used as the ready lists   *)
(* are, a sorted list as the delayed and the event lists are.              *)
(***************************************************************************)
EXTENDS KernelLists

CONSTANTS Items, Rotating, SortedLists, portMAX_DELAY

TickType == 0 .. portMAX_DELAY

VARIABLES
  lists,       \* [list -> its items and the position of pxIndex]
  xItemValue   \* [item -> its value]

OnNoList(item) == \A l \in Rotating \cup SortedLists : item \notin Members(lists[l].items)

ListsInit ==
  /\ lists = [l \in Rotating \cup SortedLists |-> EmptyList]
  /\ xItemValue = [item \in Items |-> 0]

PutLast(l, item) ==
  /\ OnNoList(item)
  /\ lists' = [lists EXCEPT ![l] = InsertEnd(@, item)]
  /\ UNCHANGED xItemValue

PutSorted(l, item, value) ==
  /\ OnNoList(item)
  /\ xItemValue' = [xItemValue EXCEPT ![item] = value]
  /\ lists' = [lists EXCEPT ![l].items = SortedInsert(@, item, xItemValue')]

TakeOut(l, item) ==
  /\ item \in Members(lists[l].items)
  /\ lists' = [lists EXCEPT ![l] = ListRemove(@, item)]
  /\ UNCHANGED xItemValue

MoveOn(l) ==
  /\ lists[l].items # <<>>
  /\ lists' = [lists EXCEPT ![l] = NextEntry(@)]
  /\ UNCHANGED xItemValue

ListsNext ==
  \/ \E l \in Rotating : MoveOn(l) \/ \E item \in Items : PutLast(l, item)
  \/ \E l \in SortedLists, item \in Items, value \in TickType : PutSorted(l, item, value)
  \/ \E l \in Rotating \cup SortedLists, item \in Items : TakeOut(l, item)

ListsSpec == ListsInit /\ [][ListsNext]_<<lists, xItemValue>>
=============================================================================
