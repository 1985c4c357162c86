-------------------------------- MODULE Heap4 --------------------------------
(***************************************************************************)
(* The memory allocator (portable/MemMang/heap_4.c): a list of the free    *)
(* blocks in the order of their addresses, first fit, and neighbours that  *)
(* are merged when a block is freed.                                       *)
(*                                                                         *)
(* An address is a number.  The header of a block is modelled where the    *)
(* code keeps one; what the application writes into its memory is not.     *)
(* Tasks are kept out by vTaskSuspendAll: a step is what is done under it. *)
(***************************************************************************)
EXTENDS Integers, FiniteSets, FiniteSetsExt, Functions

CONSTANTS
  ucHeap,                \* the address of the array
  configTOTAL_HEAP_SIZE,
  portBYTE_ALIGNMENT,
  xHeapStructSize,       \* of a header, a multiple of the alignment
  xBlockAllocatedBit,    \* the top bit of a size_t
  Sizes                  \* what the application may ask for

ASSUME HeapAssumption ==
  /\ portBYTE_ALIGNMENT \in Nat \ {0} /\ ucHeap \in Nat
  /\ xHeapStructSize \in Nat \ {0} /\ xHeapStructSize % portBYTE_ALIGNMENT = 0
  /\ configTOTAL_HEAP_SIZE \in Nat /\ xBlockAllocatedBit \in Nat
  /\ configTOTAL_HEAP_SIZE >= 3 * xHeapStructSize + 2 * portBYTE_ALIGNMENT
  /\ ucHeap + configTOTAL_HEAP_SIZE < xBlockAllocatedBit
  /\ Sizes \subseteq 0 .. 2 * xBlockAllocatedBit - 1

RoundUp(n) == ((n + portBYTE_ALIGNMENT - 1) \div portBYTE_ALIGNMENT) * portBYTE_ALIGNMENT
RoundDown(n) == (n \div portBYTE_ALIGNMENT) * portBYTE_ALIGNMENT

\* xStart is outside of the heap; pxEnd is the last header in it.
xStart == -1
pucAlignedHeap == RoundUp(ucHeap)
pxEnd == RoundDown(ucHeap + configTOTAL_HEAP_SIZE - xHeapStructSize)
NULL == -2

heapMINIMUM_BLOCK_SIZE == 2 * xHeapStructSize

VARIABLES
  xBlockSize,          \* [header -> size], without the allocated bit
  pxNextFreeBlock,     \* [header -> header or NULL]
  allocated,           \* the headers that have the allocated bit
  freeing,             \* those that vPortFree is about to put on the list
  xFreeBytesRemaining,
  xMinimumEverFreeBytesRemaining

heapVars == <<xBlockSize, pxNextFreeBlock, allocated, freeing,
          xFreeBytesRemaining, xMinimumEverFreeBytesRemaining>>

\* prvHeapInit, at the first call of pvPortMalloc.
HeapInit ==
  LET size == pxEnd - pucAlignedHeap IN
  /\ xBlockSize = [h \in {xStart, pucAlignedHeap, pxEnd} |->
                     IF h = pucAlignedHeap THEN size ELSE 0]
  /\ pxNextFreeBlock = [h \in {xStart, pucAlignedHeap, pxEnd} |->
                          CASE h = xStart -> pucAlignedHeap
                            [] h = pxEnd -> NULL
                            [] OTHER -> pxEnd]
  /\ allocated = {} /\ freeing = {}
  /\ xFreeBytesRemaining = size
  /\ xMinimumEverFreeBytesRemaining = size

(* Each definition whose name ends in Faulty is a variant of the one that  *)
(* follows it, with a plausible mistake; the specification uses none.      *)

\* The headers and links as a record, for the functions that change them.
Headers == [size |-> xBlockSize, next |-> pxNextFreeBlock]

\* The headers that a search may be at, to look at the one after it.
HaveNext(next) == {n \in DOMAIN next : next[n] # NULL}

\* The last header on the list before an address.
LastBefore(h, address) ==
  LET walk[n \in HaveNext(h.next)] == IF h.next[n] < address THEN walk[h.next[n]] ELSE n
  IN walk[xStart]

\* A block takes in the one that follows it, whose header is no more.
Absorb(h, block, other) ==
  [size |-> Restrict([h.size EXCEPT ![block] = @ + h.size[other]], DOMAIN h.size \ {other}),
   next |-> Restrict([h.next EXCEPT ![block] = h.next[other]], DOMAIN h.next \ {other})]

\* The block and the one after it on the list: one block, if they touch.
MergeWithNext(h, block, next) ==
  IF block + h.size[block] = next /\ next # pxEnd THEN Absorb(h, block, next)
  ELSE [h EXCEPT !.next[block] = next]

prvInsertBlockIntoFreeList(h, block) ==
  LET before == LastBefore(h, block)
      next == h.next[before]
      taken == [Absorb(h, before, block) EXCEPT !.next[before] = next]
  IN IF before + h.size[before] = block
       THEN MergeWithNext(taken, before, next)
       ELSE [MergeWithNext(h, block, next) EXCEPT !.next[before] = block]

\* The size of the block for a request: with its header, and aligned; 0 for a
\* request that cannot be met.
WantedSize(n) ==
  IF n >= xBlockAllocatedBit \/ n = 0 THEN 0 ELSE RoundUp(n + xHeapStructSize)

\* The first free block that is large enough, or pxEnd; and the one before it.
PreviousFaulty(wanted) ==
  LET walk[n \in HaveNext(pxNextFreeBlock)] ==
        LET block == pxNextFreeBlock[n]
        IN IF xBlockSize[block] <= wanted /\ pxNextFreeBlock[block] # NULL
             THEN walk[block] ELSE n
  IN walk[xStart]
Previous(wanted) ==
  LET walk[n \in HaveNext(pxNextFreeBlock)] ==
        LET block == pxNextFreeBlock[n]
        IN IF xBlockSize[block] < wanted /\ pxNextFreeBlock[block] # NULL
             THEN walk[block] ELSE n
  IN walk[xStart]

SplitsFaulty(remainder) == remainder > 0
Splits(remainder) == remainder > heapMINIMUM_BLOCK_SIZE

\* The headers after block has been taken from the list, and split.
Taken(block, previous, wanted) ==
  LET h == [Headers EXCEPT !.next[previous] = pxNextFreeBlock[block], !.next[block] = NULL]
      rest == block + wanted
      split == [size |-> [x \in DOMAIN h.size \cup {rest} |->
                            CASE x = block -> wanted
                              [] x = rest -> h.size[block] - wanted
                              [] OTHER -> h.size[x]],
                next |-> [x \in DOMAIN h.next \cup {rest} |->
                            IF x = rest THEN NULL ELSE h.next[x]]]
  IN IF Splits(xBlockSize[block] - wanted) THEN prvInsertBlockIntoFreeList(split, rest)
                                           ELSE h

\* The conditions of the code under which there is no memory for a request.
Refused(n) ==
  LET wanted == WantedSize(n) IN
  \/ wanted = 0 \/ wanted > xFreeBytesRemaining
  \/ pxNextFreeBlock[Previous(wanted)] = pxEnd

\* What the block takes from the free bytes: all of it, when it was not split.
BytesTakenFaulty(h, block, wanted) == wanted
BytesTaken(h, block, wanted) == h.size[block]

MinimumAfter(left) ==
  IF left < xMinimumEverFreeBytesRemaining THEN left ELSE xMinimumEverFreeBytesRemaining

pvPortMalloc(n) ==
  LET wanted == WantedSize(n)
      previous == Previous(wanted)
      block == pxNextFreeBlock[previous]
      h == Taken(block, previous, wanted)
      left == xFreeBytesRemaining - BytesTaken(h, block, wanted)
  IN /\ ~ Refused(n)
     /\ xBlockSize' = h.size /\ pxNextFreeBlock' = h.next
     /\ allocated' = allocated \cup {block}
     /\ xFreeBytesRemaining' = left
     /\ xMinimumEverFreeBytesRemaining' = MinimumAfter(left)
     /\ UNCHANGED freeing

\* The call that returns NULL.
MallocFails(n) == Refused(n) /\ UNCHANGED heapVars

\* vPortFree, up to vTaskSuspendAll and from it on.
vPortFree(block) ==
  /\ block \in allocated /\ pxNextFreeBlock[block] = NULL
  /\ allocated' = allocated \ {block}
  /\ freeing' = freeing \cup {block}
  /\ UNCHANGED <<xBlockSize, pxNextFreeBlock, xFreeBytesRemaining,
                 xMinimumEverFreeBytesRemaining>>

ReturnToList(block) ==
  LET h == prvInsertBlockIntoFreeList(Headers, block) IN
  /\ block \in freeing
  /\ freeing' = freeing \ {block}
  /\ xBlockSize' = h.size /\ pxNextFreeBlock' = h.next
  /\ xFreeBytesRemaining' = xFreeBytesRemaining + xBlockSize[block]
  /\ UNCHANGED <<allocated, xMinimumEverFreeBytesRemaining>>

HeapNext ==
  \/ \E n \in Sizes : pvPortMalloc(n) \/ MallocFails(n)
  \/ \E block \in allocated : vPortFree(block)
  \/ \E block \in freeing : ReturnToList(block)

HeapSpec == HeapInit /\ [][HeapNext]_heapVars

-----------------------------------------------------------------------------
Blocks == DOMAIN xBlockSize \ {xStart, pxEnd}
Free == Blocks \ (allocated \cup freeing)

HeapTypeOK ==
  /\ DOMAIN pxNextFreeBlock = DOMAIN xBlockSize
  /\ {xStart, pxEnd} \subseteq DOMAIN xBlockSize
  /\ Blocks \subseteq pucAlignedHeap .. pxEnd - 1
  /\ \A h \in DOMAIN xBlockSize : pxNextFreeBlock[h] \in DOMAIN xBlockSize \cup {NULL}
  /\ allocated \cup freeing \subseteq Blocks /\ allocated \cap freeing = {}
  /\ xMinimumEverFreeBytesRemaining \in 0 .. xFreeBytesRemaining

\* The blocks lie one after the other, from the start of the heap to pxEnd: no
\* two overlap, no byte is lost, and all of them are aligned.
BlocksTile ==
  /\ pucAlignedHeap \in Blocks
  /\ \A b \in Blocks :
       /\ b % portBYTE_ALIGNMENT = 0 /\ xBlockSize[b] > xHeapStructSize
       /\ b + xBlockSize[b] \in Blocks \cup {pxEnd}
       /\ \A o \in Blocks : ~ (b < o /\ o < b + xBlockSize[b])

\* The free list has all the free blocks and no other, in order of address, as
\* prvInsertBlockIntoFreeList needs it to find neighbours.
FreeListOrdered ==
  \A f \in Free \cup {xStart} :
    pxNextFreeBlock[f] = Min({o \in Free \cup {pxEnd} : o > f})

\* The free list is what it is taken for at every call: it is in order, two free
\* blocks never touch, so that memory is as little fragmented as it can be, and
\* the number of free bytes that decides whether to look at the list at all
\* (heap_4.c:173) is the size of the blocks that are on it.
FreeListExact ==
  /\ FreeListOrdered
  /\ \A f \in Free : f + xBlockSize[f] \notin Free
  /\ xFreeBytesRemaining = FoldFunctionOnSet(+, 0, xBlockSize, Free)

\* A request is refused only if no free block has room for it and its header.
RefusedOnlyIfTooLarge ==
  \A n \in Sizes \ {0} :
    Refused(n) => \A f \in Free : xBlockSize[f] - xHeapStructSize < n
=============================================================================
