----------------------------- MODULE KernelLists -----------------------------
(***************************************************************************)
(* What the operations of FreeRTOS/Source/list.c and the macros of list.h  *)
(* compute.  Module LinkedList has the pointers and implements these       *)
(* operators.                                                              *)
(*                                                                         *)
(* A list is the sequence of its items from the one after xListEnd to the  *)
(* one before it, and the position of pxIndex in the sequence: 0 is        *)
(* xListEnd itself.  pxIndex moves only in the ready lists, so for the     *)
(* others the sequence alone will do.                                      *)
(***************************************************************************)
EXTENDS Integers, Sequences, SequencesExt

Members(items) == {items[i] : i \in 1 .. Len(items)}

EmptyList == [items |-> <<>>, index |-> 0]

\* vListInsertEnd and listINSERT_END: before the item pxIndex points to, so
\* that it is the last one that listGET_OWNER_OF_NEXT_ENTRY comes to.
InsertEnd(list, item) ==
  IF list.index = 0
    THEN [list EXCEPT !.items = Append(@, item)]
    ELSE [items |-> InsertAt(list.items, list.index, item),
          index |-> list.index + 1]

PositionOf(items, item) == CHOOSE i \in 1 .. Len(items) : items[i] = item

\* uxListRemove and listREMOVE_ITEM; pxIndex never points to the removed item.
ListRemove(list, item) ==
  LET p == PositionOf(list.items, item)
  IN [items |-> RemoveAt(list.items, p),
      index |-> IF p <= list.index THEN list.index - 1 ELSE list.index]

\* listGET_OWNER_OF_NEXT_ENTRY moves pxIndex on and steps over xListEnd.
NextEntry(list) ==
  [list EXCEPT !.index = IF @ = Len(list.items) THEN 1 ELSE @ + 1]

\* Removal from the sequence alone, if the item is there.
Without(items, item) ==
  IF item \in Members(items) THEN RemoveAt(items, PositionOf(items, item)) ELSE items

\* vListInsert: before the first item whose value is greater.
SortedInsert(items, item, value) ==
  LET greater == {i \in 1 .. Len(items) : value[items[i]] > value[item]}
      p == CHOOSE i \in greater : \A j \in greater : i <= j
  IN IF greater = {} THEN Append(items, item) ELSE InsertAt(items, p, item)
=============================================================================
