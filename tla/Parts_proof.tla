----------------------------- MODULE Parts_proof -----------------------------
(***************************************************************************)
(* Theorems about the parts that stand alone.                              *)
(*                                                                         *)
(* A queue delivers what was sent, in order: the ring of module            *)
(* QueueStorage implements the sequence of module Fifo, for any length of  *)
(* the queue and any size of its items.  The pointers move by bytes and    *)
(* are tested against the end of the ring.  The proof counts in places:    *)
(* pcReadFrom is that of some place r, and the i-th message waiting is at  *)
(* place r + i, wrapped.  The invariant is that the pointers are those of  *)
(* places and that they agree with the count of messages.                  *)
(*                                                                         *)
(* The blocks of heap_4 tile the heap, its free list is exact, and memory  *)
(* is refused only when no free block is large enough: for any heap,       *)
(* alignment and requests.  The invariant says it of the structure of the  *)
(* headers, which each step cuts, takes, places or joins.                  *)
(*                                                                         *)
(* The program starts with no interrupt before its first task, if the heap *)
(* holds what it allocates; and its statistics show the time tasks ran.    *)
(* Where main is tells what is masked, made and allocated.                 *)
(*                                                                         *)
(* And itoa writes the digits of its number, if nobody disturbs it: what   *)
(* is still to be divided, what is in the buffer and what has been read    *)
(* are always the digits together, and they fit the buffer.                *)
(***************************************************************************)
EXTENDS QueueStorage, Heap4, Startup, Itoa, KernelLists_proof

-----------------------------------------------------------------------------
(* The storage of a queue.                                                 *)

StorageInv == StorageTypeOK /\ PointersAgree

\* A place counted on from one of n places, twice round at most.
Wrap(place, n) ==
  IF place < n THEN place ELSE IF place < 2 * n THEN place - n ELSE place - 2 * n

LEMMA ModSmall == ASSUME NEW a \in Nat, NEW b \in Nat \ {0}, a < b PROVE a % b = a
OBVIOUS

LEMMA ModOnce ==
  ASSUME NEW a \in Nat, NEW b \in Nat \ {0}, b <= a, a < 2 * b PROVE a % b = a - b
OBVIOUS

LEMMA ModTwice == ASSUME NEW b \in Nat \ {0} PROVE (2 * b) % b = 0
OBVIOUS

LEMMA Monotone ==
  ASSUME NEW a \in Nat, NEW b \in Nat, NEW size \in Nat \ {0}
  PROVE  /\ a < b => a * size < b * size
         /\ a * size = b * size => a = b
<1>1. ASSUME NEW c \in Nat, NEW d \in Nat, c < d PROVE c * size < d * size
  <2>1. d - c \in Nat \ {0} /\ (d - c) * size \in Nat \ {0}
    BY <1>1
  <2>2. d * size = c * size + (d - c) * size
    BY <1>1
  <2>3. c * size \in Nat /\ d * size \in Nat
    OBVIOUS
  <2> QED BY <2>1, <2>2, <2>3
<1>2. a * size \in Nat /\ b * size \in Nat
  OBVIOUS
<1> QED BY <1>1, <1>2

\* Counting in bytes is counting in places.
LEMMA BytesToPlaces ==
  ASSUME NEW n \in Nat \ {0}, NEW size \in Nat \ {0}, NEW r \in 0 .. n - 1, NEW i \in 0 .. n + 1
  PROVE  /\ (r * size + i * size) % (n * size) = Wrap(r + i, n) * size
         /\ Wrap(r + i, n) \in 0 .. n - 1
<1> DEFINE x == r + i
<1>1. x \in 0 .. 2 * n /\ x * size = r * size + i * size /\ x * size \in Nat
  OBVIOUS
<1>2. n * size \in Nat \ {0} /\ (2 * n) * size = 2 * (n * size)
  OBVIOUS
<1>3. CASE x < n
  <2>1. x * size < n * size
    BY <1>1, <1>3, Monotone
  <2>2. (x * size) % (n * size) = x * size
    BY <1>1, <1>2, <2>1, ModSmall
  <2> QED BY <1>1, <1>3, <2>2 DEF Wrap
<1>4. CASE n <= x /\ x < 2 * n
  <2>1. x * size < (2 * n) * size
    BY <1>1, <1>4, Monotone
  <2>2. x - n \in Nat /\ (x - n) * size = x * size - n * size /\ (x - n) * size \in Nat
    BY <1>1, <1>4
  <2> DEFINE bytes == x * size
             ring == n * size
  <2>3. bytes % ring = bytes - ring
    <3>1. bytes \in Nat /\ ring \in Nat \ {0} /\ ring <= bytes /\ bytes < 2 * ring
      BY <1>1, <1>2, <2>1, <2>2
    <3> HIDE DEF bytes, ring
    <3> QED BY <3>1, ModOnce
  <2> QED BY <1>1, <1>4, <2>2, <2>3 DEF Wrap
<1>5. CASE x = 2 * n
  <2>1. (x * size) % (n * size) = 0
    BY <1>2, <1>5, ModTwice
  <2>2. x - 2 * n = 0 /\ (x - 2 * n) * size = 0
    BY <1>5
  <2> QED BY <1>1, <1>5, <2>1, <2>2 DEF Wrap
<1> QED BY <1>1, <1>3, <1>4, <1>5

\* The fields of a queue, counted in places.
CountedInPlaces(n, r, w) ==
  /\ uxMessagesWaiting = n /\ pcReadFrom = r * uxItemSize /\ pcWriteTo = w * uxItemSize
  /\ w = Wrap(r + n + 1, uxLength)
  /\ \A i \in 0 .. uxLength + 1 : Waiting(i) = storage[Wrap(r + i, uxLength) * uxItemSize]

LEMMA InPlaces ==
  ASSUME StorageInv
  PROVE  /\ uxLength \in Nat \ {0} /\ uxItemSize \in Nat \ {0}
         /\ \E n \in 0 .. uxLength : \E r, w \in 0 .. uxLength - 1 : CountedInPlaces(n, r, w)
<1>1. uxLength \in Nat \ {0} /\ uxItemSize \in Nat \ {0} /\ uxMessagesWaiting \in 0 .. uxLength
  BY QueueAssumption DEF StorageInv, StorageTypeOK
<1>2. PICK r \in 0 .. uxLength - 1 : pcReadFrom = r * uxItemSize
  BY DEF StorageInv, StorageTypeOK, Places
<1>3. ASSUME NEW i \in 0 .. uxLength + 1
      PROVE  /\ (pcReadFrom + i * uxItemSize) % pcTail = Wrap(r + i, uxLength) * uxItemSize
             /\ Wrap(r + i, uxLength) \in 0 .. uxLength - 1
  BY <1>1, <1>2, BytesToPlaces DEF pcTail
<1>4. PICK n \in 0 .. uxLength : n = uxMessagesWaiting
  BY <1>1
<1>5. n + 1 \in 0 .. uxLength + 1 /\ r + (n + 1) = r + n + 1
  BY <1>1
<1>6. PICK w \in 0 .. uxLength - 1 : w = Wrap(r + n + 1, uxLength)
  BY <1>3, <1>5
<1>7. pcWriteTo = w * uxItemSize
  BY <1>3, <1>4, <1>5, <1>6 DEF StorageInv, PointersAgree
<1>8. CountedInPlaces(n, r, w)
  BY <1>2, <1>3, <1>4, <1>6, <1>7 DEF CountedInPlaces, Waiting
<1> QED BY <1>1, <1>8

-----------------------------------------------------------------------------
\* The i-th message waiting, if contents is what a module Fifo keeps of the queue.
contents == [i \in 1 .. uxMessagesWaiting |-> Waiting(i)]

ContentsAreWaiting ==
  /\ contents \in Seq(Message) /\ Len(contents) = uxMessagesWaiting
  /\ uxMessagesWaiting \in Nat
  /\ \A i \in 1 .. uxMessagesWaiting : contents[i] = Waiting(i)

LEMMA ContentsTyped == StorageInv => ContentsAreWaiting
<1> SUFFICES ASSUME StorageInv PROVE ContentsAreWaiting
  OBVIOUS
<1>1. PICK n \in 0 .. uxLength, r \in 0 .. uxLength - 1 :
        /\ uxMessagesWaiting = n /\ pcReadFrom = r * uxItemSize
        /\ \A i \in 0 .. uxLength + 1 : Waiting(i) = storage[Wrap(r + i, uxLength) * uxItemSize]
  BY InPlaces DEF CountedInPlaces
<1>2. ASSUME NEW i \in 1 .. n
      PROVE  Waiting(i) \in Message
  <2>1. uxLength \in Nat \ {0} /\ uxItemSize \in Nat \ {0}
    BY InPlaces
  <2>2. i \in 0 .. uxLength + 1 /\ Wrap(r + i, uxLength) \in 0 .. uxLength - 1
    BY <2>1, BytesToPlaces
  <2>3. Wrap(r + i, uxLength) * uxItemSize \in Places
    BY <2>2 DEF Places
  <2> QED BY <1>1, <2>2, <2>3 DEF StorageInv, StorageTypeOK
<1> QED BY <1>1, <1>2 DEF ContentsAreWaiting, contents

LEMMA ContentsTypedNext == StorageInv' => ContentsAreWaiting'
<1> QED BY ContentsTyped, PTL

\* The pointers after a step, and what is waiting then, counted in places from r.
LEMMA AfterStep ==
  ASSUME uxLength \in Lengths, uxLength' = uxLength, NEW r \in 0 .. uxLength - 1,
         pcReadFrom' = r * uxItemSize, NEW count \in 0 .. uxLength,
         uxMessagesWaiting' = count,
         pcWriteTo' = Wrap(r + count + 1, uxLength) * uxItemSize,
         storage' \in [Places -> Message], pvBuffer' \in Message
  PROVE  /\ StorageInv'
         /\ \A i \in 0 .. uxLength + 1 :
              Waiting(i)' = storage'[Wrap(r + i, uxLength) * uxItemSize]
<1>1. uxLength \in Nat \ {0} /\ uxItemSize \in Nat \ {0}
  BY QueueAssumption
<1>2. ASSUME NEW i \in 0 .. uxLength + 1
      PROVE  /\ (pcReadFrom' + i * uxItemSize) % pcTail = Wrap(r + i, uxLength) * uxItemSize
             /\ Wrap(r + i, uxLength) \in 0 .. uxLength - 1
  BY <1>1, BytesToPlaces DEF pcTail
<1>3. pcTail' = pcTail /\ Places' = Places
  BY DEF pcTail, Places
<1>4. count + 1 \in 0 .. uxLength + 1 /\ r + (count + 1) = r + count + 1
  BY <1>1
<1>5. PointersAgree'
  BY <1>2, <1>3, <1>4 DEF PointersAgree
<1>6. pcReadFrom' \in Places /\ pcWriteTo' \in Places
  BY <1>2, <1>4 DEF Places
<1>7. StorageTypeOK'
  BY <1>1, <1>3, <1>6 DEF StorageTypeOK
<1> QED BY <1>2, <1>3, <1>5, <1>7 DEF StorageInv, Waiting

LEMMA StorageInitInv == StorageInit => StorageInv /\ Contents!FifoInit
<1> SUFFICES ASSUME StorageInit PROVE StorageInv /\ Contents!FifoInit
  OBVIOUS
<1>1. uxLength \in Nat \ {0} /\ uxItemSize \in Nat \ {0}
  BY QueueAssumption DEF StorageInit
<1>2. /\ pcTail = uxLength * uxItemSize /\ 0 * uxItemSize = 0
      /\ pcReadFrom = (uxLength - 1) * uxItemSize
      /\ pcWriteTo = 0 /\ uxMessagesWaiting = 0
  BY <1>1 DEF StorageInit, pcHead, pcTail
<1>3. pcReadFrom + (uxMessagesWaiting + 1) * uxItemSize = uxLength * uxItemSize
  BY <1>1, <1>2
<1>4. pcTail \in Nat \ {0} /\ pcTail % pcTail = 0
  BY <1>1, <1>2
<1>5. PointersAgree
  BY <1>2, <1>3, <1>4 DEF PointersAgree
<1>6. StorageTypeOK
  <2>1. pcWriteTo \in Places /\ pcReadFrom \in Places
    BY <1>1, <1>2 DEF Places
  <2> QED BY <1>1, <1>2, <2>1 DEF StorageTypeOK, StorageInit
<1>7. [i \in 1 .. uxMessagesWaiting |-> Waiting(i)] = <<>>
  BY <1>2
<1> QED BY <1>5, <1>6, <1>7 DEF StorageInv, StorageInit, Contents!FifoInit

-----------------------------------------------------------------------------
LEMMA PlaceMoves ==
  ASSUME uxLength \in Nat \ {0}, uxItemSize \in Nat \ {0}, NEW p \in 0 .. uxLength - 1
  PROVE  /\ NextPlace(p * uxItemSize) = (IF p + 1 = uxLength THEN 0 ELSE p + 1) * uxItemSize
         /\ PreviousPlace(p * uxItemSize) = (IF p = 0 THEN uxLength - 1 ELSE p - 1) * uxItemSize
<1>1. /\ p * uxItemSize + uxItemSize = (p + 1) * uxItemSize
      /\ p * uxItemSize - uxItemSize = (p - 1) * uxItemSize
      /\ uxLength * uxItemSize - uxItemSize = (uxLength - 1) * uxItemSize
      /\ 0 * uxItemSize = 0
      /\ (p + 1) * uxItemSize \in Nat /\ uxLength * uxItemSize \in Nat
  OBVIOUS
<1>2. p + 1 < uxLength => (p + 1) * uxItemSize < uxLength * uxItemSize
  BY Monotone
<1>3. NextPlace(p * uxItemSize) = (IF p + 1 = uxLength THEN 0 ELSE p + 1) * uxItemSize
  <2>1. CASE p + 1 = uxLength
    BY <1>1, <2>1 DEF NextPlace, pcHead, pcTail
  <2>2. CASE p + 1 < uxLength
    BY <1>1, <1>2, <2>2 DEF NextPlace, pcHead, pcTail
  <2> QED BY <2>1, <2>2
<1>4. PreviousPlace(p * uxItemSize) = (IF p = 0 THEN uxLength - 1 ELSE p - 1) * uxItemSize
  <2>1. CASE p = 0
    BY <1>1, <2>1 DEF PreviousPlace, pcHead, pcTail
  <2>2. CASE p > 0
    <3>1. p - 1 \in Nat /\ (p - 1) * uxItemSize \in Nat
      BY <2>2
    <3> QED BY <1>1, <2>2, <3>1 DEF PreviousPlace, pcHead, pcTail
  <2> QED BY <2>1, <2>2
<1> QED BY <1>3, <1>4

LEMMA PlaceWritten ==
  ASSUME StorageInv, NEW m \in Message, NEW p \in 0 .. uxLength - 1,
         storage' = [storage EXCEPT ![p * uxItemSize] = m]
  PROVE  /\ storage' \in [Places -> Message]
         /\ \A q \in 0 .. uxLength - 1 :
              storage'[q * uxItemSize] = IF q = p THEN m ELSE storage[q * uxItemSize]
<1>1. uxItemSize \in Nat \ {0} /\ uxLength \in Nat \ {0} /\ storage \in [Places -> Message]
  BY QueueAssumption DEF StorageInv, StorageTypeOK
<1>2. \A q \in 0 .. uxLength - 1 : q * uxItemSize \in Places
  BY DEF Places
<1>3. ASSUME NEW q \in 0 .. uxLength - 1, q # p
      PROVE  q * uxItemSize # p * uxItemSize
  BY <1>1, <1>3, Monotone
<1> QED BY <1>1, <1>2, <1>3

LEMMA SendToBackStep ==
  ASSUME StorageInv, NEW m \in Message, SendToBack(m)
  PROVE  StorageInv' /\ Contents!PutBack(m)
<1>1. uxLength \in Nat \ {0} /\ uxItemSize \in Nat \ {0}
  BY InPlaces
<1>2. PICK n \in 0 .. uxLength : \E r, w \in 0 .. uxLength - 1 : CountedInPlaces(n, r, w)
  BY InPlaces
<1>. PICK r \in 0 .. uxLength - 1, w \in 0 .. uxLength - 1 : CountedInPlaces(n, r, w)
  BY <1>2
<1> USE DEF CountedInPlaces
<1>3. n < uxLength /\ n + 1 \in 0 .. uxLength
  BY <1>1 DEF SendToBack
<1>4. /\ storage' \in [Places -> Message]
      /\ \A q \in 0 .. uxLength - 1 :
           storage'[q * uxItemSize] = IF q = w THEN m ELSE storage[q * uxItemSize]
  BY PlaceWritten DEF SendToBack
<1>5. pcWriteTo' = Wrap(r + (n + 1) + 1, uxLength) * uxItemSize
  <2>1. pcWriteTo' = (IF w + 1 = uxLength THEN 0 ELSE w + 1) * uxItemSize
    BY <1>1, PlaceMoves DEF SendToBack
  <2>2. (IF w + 1 = uxLength THEN 0 ELSE w + 1) = Wrap(r + (n + 1) + 1, uxLength)
    BY <1>1, <1>3 DEF Wrap
  <2> QED BY <2>1, <2>2
<1>6. /\ StorageInv'
      /\ \A i \in 0 .. uxLength + 1 : Waiting(i)' = storage'[Wrap(r + i, uxLength) * uxItemSize]
  <2>1. /\ uxLength \in Lengths /\ uxLength' = uxLength /\ pcReadFrom' = r * uxItemSize
        /\ uxMessagesWaiting' = n + 1 /\ pvBuffer' \in Message
    BY DEF StorageInv, StorageTypeOK, SendToBack
  <2> QED BY <1>3, <1>4, <1>5, <2>1, AfterStep
<1>7. ASSUME NEW i \in 1 .. n
      PROVE  Waiting(i)' = Waiting(i)
  <2>1. Wrap(r + i, uxLength) # w /\ Wrap(r + i, uxLength) \in 0 .. uxLength - 1
    BY <1>1, <1>3 DEF Wrap
  <2> QED BY <1>1, <1>4, <1>6, <2>1
<1>8. Waiting(n + 1)' = m
  <2>1. r + (n + 1) = r + n + 1 /\ n + 1 \in 0 .. uxLength + 1
    BY <1>1
  <2>2. Waiting(n + 1)' = storage'[Wrap(r + n + 1, uxLength) * uxItemSize]
    BY <1>6, <2>1
  <2> QED BY <1>4, <2>2
<1>9. contents' = Append(contents, m) /\ Len(contents) = n
  <2>1. ContentsAreWaiting /\ ContentsAreWaiting' /\ uxMessagesWaiting' = n + 1
    BY <1>6, ContentsTyped, ContentsTypedNext DEF SendToBack
  <2>2. /\ Append(contents, m) \in Seq(Message) /\ Len(Append(contents, m)) = n + 1
        /\ \A i \in 1 .. n : Append(contents, m)[i] = contents[i]
        /\ Append(contents, m)[n + 1] = m
    BY <2>1, AppendProperties DEF ContentsAreWaiting
  <2>3. \A i \in 1 .. n + 1 : contents'[i] = Append(contents, m)[i]
    BY <1>7, <1>8, <2>1, <2>2 DEF ContentsAreWaiting
  <2> QED BY <2>1, <2>2, <2>3, SeqEqual DEF ContentsAreWaiting
<1> QED BY <1>3, <1>6, <1>9 DEF Contents!PutBack, contents, SendToBack

LEMMA SendToFrontStep ==
  ASSUME StorageInv, NEW m \in Message, SendToFront(m)
  PROVE  StorageInv' /\ Contents!PutFront(m)
<1>1. uxLength \in Nat \ {0} /\ uxItemSize \in Nat \ {0}
  BY InPlaces
<1>2. PICK n \in 0 .. uxLength : \E r, w \in 0 .. uxLength - 1 : CountedInPlaces(n, r, w)
  BY InPlaces
<1>. PICK r \in 0 .. uxLength - 1, w \in 0 .. uxLength - 1 : CountedInPlaces(n, r, w)
  BY <1>2
<1> USE DEF CountedInPlaces
<1>. PICK q \in 0 .. uxLength - 1 : q = IF r = 0 THEN uxLength - 1 ELSE r - 1
  <2>1. CASE r = 0
    BY <1>1, <2>1
  <2>2. CASE r # 0
    BY <1>1, <2>2
  <2> QED BY <2>1, <2>2
<1>3. n < uxLength /\ n + 1 \in 0 .. uxLength
  BY <1>1 DEF SendToFront
<1>4. /\ storage' \in [Places -> Message]
      /\ \A p \in 0 .. uxLength - 1 :
           storage'[p * uxItemSize] = IF p = r THEN m ELSE storage[p * uxItemSize]
  <2>1. storage' = [storage EXCEPT ![r * uxItemSize] = m]
    BY DEF SendToFront
  <2> HIDE DEF CountedInPlaces
  <2> QED BY <2>1, PlaceWritten
<1>5. pcReadFrom' = q * uxItemSize
  BY <1>1, PlaceMoves DEF SendToFront
<1>6. /\ StorageInv'
      /\ \A i \in 0 .. uxLength + 1 : Waiting(i)' = storage'[Wrap(q + i, uxLength) * uxItemSize]
  <2>1. /\ uxLength \in Lengths /\ uxLength' = uxLength /\ pcWriteTo' = w * uxItemSize
        /\ uxMessagesWaiting' = n + 1 /\ pvBuffer' \in Message
    BY DEF StorageInv, StorageTypeOK, SendToFront
  <2>2. w = Wrap(q + (n + 1) + 1, uxLength)
    BY <1>1, <1>3 DEF Wrap
  <2> QED BY <1>3, <1>4, <1>5, <2>1, <2>2, AfterStep
<1>7. ASSUME NEW i \in 1 .. n
      PROVE  Waiting(i + 1)' = Waiting(i)
  <2>1. /\ Wrap(r + i, uxLength) # r /\ Wrap(r + i, uxLength) \in 0 .. uxLength - 1
        /\ Wrap(q + (i + 1), uxLength) = Wrap(r + i, uxLength)
    BY <1>1, <1>3 DEF Wrap
  <2>2. i + 1 \in 0 .. uxLength + 1 /\ i \in 0 .. uxLength + 1
    BY <1>1
  <2> QED BY <1>4, <1>6, <2>1, <2>2
<1>8. Waiting(1)' = m
  <2>1. Wrap(q + 1, uxLength) = r /\ 1 \in 0 .. uxLength + 1
    BY <1>1 DEF Wrap
  <2> QED BY <1>4, <1>6, <2>1
<1>9. contents' = <<m>> \o contents /\ Len(contents) = n
  <2>1. ContentsAreWaiting /\ ContentsAreWaiting' /\ uxMessagesWaiting' = n + 1
    BY <1>6, ContentsTyped, ContentsTypedNext DEF SendToFront
  <2>2. <<m>> \in Seq(Message) /\ Len(<<m>>) = 1 /\ <<m>>[1] = m
    OBVIOUS
  <2>3. /\ <<m>> \o contents \in Seq(Message) /\ Len(<<m>> \o contents) = n + 1
        /\ \A i \in 1 .. n + 1 :
             (<<m>> \o contents)[i] = IF i <= 1 THEN m ELSE contents[i - 1]
    BY <2>1, <2>2, ConcatProperties DEF ContentsAreWaiting
  <2>4. ASSUME NEW i \in 1 .. n + 1
        PROVE  contents'[i] = (<<m>> \o contents)[i]
    <3>1. CASE i = 1
      BY <1>8, <2>1, <2>3, <3>1 DEF ContentsAreWaiting
    <3>2. CASE i # 1
      <4>1. i - 1 \in 1 .. n /\ (i - 1) + 1 = i
        BY <3>2
      <4>2. Waiting(i)' = Waiting(i - 1)
        BY <1>7, <4>1
      <4> QED BY <2>1, <2>3, <4>1, <4>2 DEF ContentsAreWaiting
    <3> QED BY <3>1, <3>2
  <2> QED BY <2>1, <2>3, <2>4, SeqEqual DEF ContentsAreWaiting
<1> QED BY <1>3, <1>6, <1>9 DEF Contents!PutFront, contents, SendToFront

LEMMA OverwriteStep ==
  ASSUME StorageInv, NEW m \in Message, Overwrite(m)
  PROVE  StorageInv' /\ Contents!Replace(m)
<1>1. uxLength = 1 /\ uxItemSize \in Nat \ {0}
  BY InPlaces DEF Overwrite
<1>2. PICK n \in 0 .. uxLength : \E r, w \in 0 .. uxLength - 1 : CountedInPlaces(n, r, w)
  BY InPlaces
<1>. PICK r \in 0 .. uxLength - 1, w \in 0 .. uxLength - 1 : CountedInPlaces(n, r, w)
  BY <1>2
<1> USE DEF CountedInPlaces
<1>3. r = 0 /\ w = 0
  BY <1>1
<1>4. /\ storage' \in [Places -> Message]
      /\ \A p \in 0 .. uxLength - 1 :
           storage'[p * uxItemSize] = IF p = r THEN m ELSE storage[p * uxItemSize]
  <2>1. storage' = [storage EXCEPT ![r * uxItemSize] = m]
    BY DEF Overwrite
  <2> HIDE DEF CountedInPlaces
  <2> QED BY <2>1, PlaceWritten
<1>5. pcReadFrom' = r * uxItemSize
  BY <1>1, <1>3, PlaceMoves DEF Overwrite
<1>6. /\ StorageInv'
      /\ \A i \in 0 .. uxLength + 1 : Waiting(i)' = storage'[Wrap(r + i, uxLength) * uxItemSize]
  <2>1. /\ uxLength \in Lengths /\ uxLength' = uxLength /\ pcWriteTo' = w * uxItemSize
        /\ uxMessagesWaiting' = 1 /\ pvBuffer' \in Message
    BY <1>1 DEF StorageInv, StorageTypeOK, Overwrite
  <2>2. w = Wrap(r + 1 + 1, uxLength) /\ 1 \in 0 .. uxLength
    BY <1>1, <1>3 DEF Wrap
  <2> QED BY <1>4, <1>5, <2>1, <2>2, AfterStep
<1>7. Waiting(1)' = m
  <2>1. Wrap(r + 1, uxLength) = r /\ 1 \in 0 .. uxLength + 1
    BY <1>1, <1>3 DEF Wrap
  <2> QED BY <1>4, <1>6, <2>1
<1>8. contents' = <<m>>
  <2>1. ContentsAreWaiting' /\ uxMessagesWaiting' = 1
    BY <1>1, <1>6, ContentsTypedNext DEF Overwrite
  <2>2. <<m>> \in Seq(Message) /\ Len(<<m>>) = 1 /\ <<m>>[1] = m
    OBVIOUS
  <2>3. \A i \in 1 .. 1 : contents'[i] = <<m>>[i]
    BY <1>7, <2>1, <2>2 DEF ContentsAreWaiting
  <2> QED BY <2>1, <2>2, <2>3, SeqEqual DEF ContentsAreWaiting
<1> QED BY <1>1, <1>6, <1>8 DEF Contents!Replace, contents, Overwrite

\* The message that is received, and pcReadFrom behind it.
LEMMA FirstWaiting ==
  ASSUME StorageInv, uxMessagesWaiting > 0
  PROVE  /\ storage[NextPlace(pcReadFrom)] = Waiting(1)
         /\ contents # <<>> /\ Head(contents) = Waiting(1) /\ Waiting(1) \in Message
<1>1. uxLength \in Nat \ {0} /\ uxItemSize \in Nat \ {0}
  BY InPlaces
<1>2. PICK n \in 0 .. uxLength : \E r, w \in 0 .. uxLength - 1 : CountedInPlaces(n, r, w)
  BY InPlaces
<1>. PICK r \in 0 .. uxLength - 1, w \in 0 .. uxLength - 1 : CountedInPlaces(n, r, w)
  BY <1>2
<1> USE DEF CountedInPlaces
<1>3. (IF r + 1 = uxLength THEN 0 ELSE r + 1) = Wrap(r + 1, uxLength) /\ 1 \in 0 .. uxLength + 1
  BY <1>1 DEF Wrap
<1>4. NextPlace(pcReadFrom) = Wrap(r + 1, uxLength) * uxItemSize
  BY <1>1, <1>3, PlaceMoves
<1>5. ContentsAreWaiting /\ n > 0
  BY ContentsTyped
<1>6. contents # <<>> /\ Head(contents) = contents[1] /\ contents[1] = Waiting(1)
      /\ contents[1] \in Message
  BY <1>5 DEF ContentsAreWaiting
<1> QED BY <1>3, <1>4, <1>6

LEMMA ReceiveStep ==
  ASSUME StorageInv, Receive
  PROVE  StorageInv' /\ Contents!Take
<1>1. uxLength \in Nat \ {0} /\ uxItemSize \in Nat \ {0}
  BY InPlaces
<1>2. PICK n \in 0 .. uxLength : \E r, w \in 0 .. uxLength - 1 : CountedInPlaces(n, r, w)
  BY InPlaces
<1>. PICK r \in 0 .. uxLength - 1, w \in 0 .. uxLength - 1 : CountedInPlaces(n, r, w)
  BY <1>2
<1> USE DEF CountedInPlaces
<1>. PICK q \in 0 .. uxLength - 1 : q = IF r + 1 = uxLength THEN 0 ELSE r + 1
  BY <1>1
<1>3. n > 0 /\ n - 1 \in 0 .. uxLength
  BY <1>1 DEF Receive
<1>4. /\ pcReadFrom' = q * uxItemSize /\ pcReadFrom' = NextPlace(pcReadFrom)
      /\ pvBuffer' = storage[pcReadFrom']
      /\ UNCHANGED <<uxLength, storage, pcWriteTo>> /\ uxMessagesWaiting' = n - 1
  BY <1>1, PlaceMoves DEF Receive, CopyDataFromQueue
<1>5. /\ pvBuffer' = Waiting(1) /\ pvBuffer' \in Message
      /\ contents # <<>> /\ Head(contents) = Waiting(1)
  BY <1>3, <1>4, FirstWaiting
<1>6. /\ StorageInv'
      /\ \A i \in 0 .. uxLength + 1 : Waiting(i)' = storage'[Wrap(q + i, uxLength) * uxItemSize]
  <2>1. /\ uxLength \in Lengths /\ uxLength' = uxLength /\ pcWriteTo' = w * uxItemSize
        /\ storage' \in [Places -> Message]
    BY <1>4 DEF StorageInv, StorageTypeOK
  <2>2. w = Wrap(q + (n - 1) + 1, uxLength)
    BY <1>1, <1>3 DEF Wrap
  <2> QED BY <1>3, <1>4, <1>5, <2>1, <2>2, AfterStep
<1>7. ASSUME NEW i \in 1 .. n - 1
      PROVE  Waiting(i)' = Waiting(i + 1)
  <2>1. Wrap(q + i, uxLength) = Wrap(r + (i + 1), uxLength)
    BY <1>1, <1>3 DEF Wrap
  <2>2. i \in 0 .. uxLength + 1 /\ i + 1 \in 0 .. uxLength + 1
    BY <1>1
  <2> QED BY <1>4, <1>6, <2>1, <2>2
<1>8. contents' = Tail(contents)
  <2>1. ContentsAreWaiting /\ ContentsAreWaiting'
    BY <1>6, ContentsTyped, ContentsTypedNext
  <2>2. /\ Tail(contents) \in Seq(Message) /\ Len(Tail(contents)) = n - 1
        /\ \A i \in 1 .. n - 1 : Tail(contents)[i] = contents[i + 1]
    BY <1>5, <2>1, HeadTailProperties DEF ContentsAreWaiting
  <2>3. ASSUME NEW i \in 1 .. n - 1
        PROVE  contents'[i] = Tail(contents)[i]
    BY <1>4, <1>7, <2>1, <2>2 DEF ContentsAreWaiting
  <2> QED BY <1>4, <2>1, <2>2, <2>3, SeqEqual DEF ContentsAreWaiting
<1> QED BY <1>4, <1>5, <1>6, <1>8 DEF Contents!Take, contents

LEMMA PeekStep ==
  ASSUME StorageInv, Peek
  PROVE  StorageInv' /\ Contents!Look
<1>1. /\ pvBuffer' = Waiting(1) /\ pvBuffer' \in Message
      /\ contents # <<>> /\ Head(contents) = Waiting(1)
  BY FirstWaiting DEF Peek
<1>2. /\ UNCHANGED <<uxLength, storage, pcWriteTo, pcReadFrom, uxMessagesWaiting>>
      /\ contents' = contents
  BY DEF Peek, contents, Waiting, pcTail
<1> QED BY <1>1, <1>2 DEF StorageInv, StorageTypeOK, PointersAgree, pcTail, Places, contents,
                         Contents!Look

LEMMA ResetStep ==
  ASSUME StorageInv, xQueueGenericReset
  PROVE  StorageInv' /\ Contents!Clear
<1>1. uxLength \in Nat \ {0} /\ uxItemSize \in Nat \ {0} /\ uxLength - 1 \in 0 .. uxLength - 1
  BY InPlaces
<1>2. 0 * uxItemSize = 0 /\ Wrap((uxLength - 1) + 0 + 1, uxLength) = 0
  BY <1>1 DEF Wrap
<1>3. /\ uxLength \in Lengths /\ uxLength' = uxLength /\ uxMessagesWaiting' = 0
      /\ pcReadFrom' = (uxLength - 1) * uxItemSize /\ pcWriteTo' = 0
      /\ storage' \in [Places -> Message] /\ pvBuffer' \in Message /\ UNCHANGED pvBuffer
  BY DEF StorageInv, StorageTypeOK, xQueueGenericReset, pcHead
<1>4. StorageInv'
  BY <1>1, <1>2, <1>3, AfterStep
<1>5. contents' = <<>>
  BY <1>3 DEF contents
<1> QED BY <1>3, <1>4, <1>5 DEF Contents!Clear, contents

-----------------------------------------------------------------------------
LEMMA StorageStep ==
  StorageInv /\ [StorageNext]_storageVars
    => StorageInv' /\ [Contents!FifoNext]_<<uxLength, contents, pvBuffer>>
<1> SUFFICES ASSUME StorageInv, [StorageNext]_storageVars
             PROVE  StorageInv' /\ [Contents!FifoNext]_<<uxLength, contents, pvBuffer>>
  OBVIOUS
<1>1. ASSUME NEW m \in Message, SendToBack(m) \/ SendToFront(m) \/ Overwrite(m)
      PROVE  StorageInv' /\ Contents!FifoNext
  BY <1>1, SendToBackStep, SendToFrontStep, OverwriteStep DEF Contents!FifoNext
<1>2. CASE Receive \/ Peek \/ xQueueGenericReset
  BY <1>2, ReceiveStep, PeekStep, ResetStep DEF Contents!FifoNext
<1>3. CASE UNCHANGED storageVars
  BY <1>3 DEF storageVars, StorageInv, StorageTypeOK, PointersAgree, pcTail, Places, contents,
              Waiting
<1> QED BY <1>1, <1>2, <1>3 DEF StorageNext

\* The pointers stay within the storage of the queue (prvCopyDataToQueue and
\* prvCopyDataFromQueue, queue.c), and agree with the count of messages.
THEOREM PointersStayInTheRing == StorageSpec => [](StorageTypeOK /\ PointersAgree)
<1>1. StorageInit => StorageInv
  BY StorageInitInv
<1>2. StorageInv /\ [StorageNext]_storageVars => StorageInv'
  BY StorageStep
<1> QED BY <1>1, <1>2, PTL DEF StorageSpec, StorageInv

\* prvCopyDataToQueue, prvCopyDataFromQueue and xQueueGenericReset make of the ring
\* what module Fifo says: each message is received once, and in order.
THEOREM StorageImplementsFifo == StorageSpec => ImplementsFifo
<1>1. StorageInit => StorageInv /\ Contents!FifoInit
  BY StorageInitInv
<1>2. StorageInv /\ [StorageNext]_storageVars
        => StorageInv' /\ [Contents!FifoNext]_<<uxLength, contents, pvBuffer>>
  BY StorageStep
<1> QED BY <1>1, <1>2, PTL DEF StorageSpec, ImplementsFifo, Contents!FifoSpec, contents

-----------------------------------------------------------------------------
(* Multiples.                                                              *)

LEMMA MultipleOf ==
  ASSUME NEW n \in Nat, NEW d \in Nat \ {0}
  PROVE  n % d = 0 <=> \E k \in Nat : n = d * k
<1>1. /\ n % d \in 0 .. d - 1 /\ n \div d \in Nat
      /\ n = d * (n \div d) + (n % d)
  BY SMT
<1>2. ASSUME n % d = 0 PROVE n = d * (n \div d)
  BY <1>1, <1>2
<1>3. ASSUME NEW k \in Nat, n = d * k PROVE n % d = 0
  <2>1. d * k + 0 = d * (n \div d) + (n % d) /\ 0 \in 0 .. d - 1
    BY <1>1, <1>3
  <2> QED BY ONLY <1>1, <2>1, k \in Nat, d \in Nat \ {0}, RemainderUnique
<1> QED BY <1>1, <1>2, <1>3

LEMMA MultipleAdd ==
  ASSUME NEW m \in Nat, NEW n \in Nat, NEW d \in Nat \ {0}, m % d = 0, n % d = 0
  PROVE  (m + n) % d = 0
<1>1. PICK j \in Nat : m = d * j
  BY MultipleOf
<1>2. PICK k \in Nat : n = d * k
  BY MultipleOf
<1>3. m + n = d * (j + k) /\ j + k \in Nat /\ m + n \in Nat
  BY <1>1, <1>2
<1> QED BY <1>3, MultipleOf

LEMMA MultipleSubtract ==
  ASSUME NEW m \in Nat, NEW n \in Nat, NEW d \in Nat \ {0}, m % d = 0, n % d = 0, m >= n
  PROVE  (m - n) % d = 0
<1>1. PICK j \in Nat : m = d * j
  BY MultipleOf
<1>2. PICK k \in Nat : n = d * k
  BY MultipleOf
<1>3. m - n = d * (j - k) /\ m - n \in Nat
  BY <1>1, <1>2
<1>4. j - k \in Nat
  <2> SUFFICES ASSUME ~ (j >= k) PROVE FALSE
    BY <1>1, <1>2
  <2>1. PICK i \in Nat : k = j + 1 + i
    <3>1. k - j - 1 \in Nat /\ k = j + 1 + (k - j - 1)
      BY <1>1, <1>2
    <3> QED BY <3>1
  <2>2. d * k = d * j + d + d * i /\ d * i \in Nat
    BY <2>1
  <2> QED BY <1>1, <1>2, <2>2
<1> QED BY <1>3, <1>4, MultipleOf

LEMMA RoundUpLeast ==
  ASSUME NEW n \in Nat
  PROVE  /\ RoundUp(n) \in Nat /\ RoundUp(n) % portBYTE_ALIGNMENT = 0
         /\ n <= RoundUp(n) /\ RoundUp(n) <= n + portBYTE_ALIGNMENT - 1
         /\ \A m \in Nat : m % portBYTE_ALIGNMENT = 0 /\ m < RoundUp(n) => m < n
<1> DEFINE d == portBYTE_ALIGNMENT
           q == (n + d - 1) \div d
<1>1. d \in Nat \ {0} /\ n + d - 1 \in Nat
  BY HeapAssumption
<1>2. q \in Nat /\ n + d - 1 = d * q + ((n + d - 1) % d) /\ (n + d - 1) % d \in 0 .. d - 1
  BY <1>1, SMT
<1> HIDE DEF q
<1>3. RoundUp(n) = q * d /\ q * d = d * q /\ d * q \in Nat
  BY <1>1, <1>2 DEF RoundUp, q
<1> HIDE DEF d
<1>4. RoundUp(n) % d = 0
  BY <1>1, <1>2, <1>3, MultipleOf
<1>5. n <= RoundUp(n) /\ RoundUp(n) <= n + d - 1
  BY <1>1, <1>2, <1>3
<1>6. ASSUME NEW m \in Nat, m % d = 0, m < RoundUp(n) PROVE m < n
  <2>1. PICK k \in Nat : m = d * k
    BY <1>1, <1>6, MultipleOf
  <2>2. k < q
    <3> SUFFICES ASSUME ~ (k < q) PROVE FALSE
      BY <1>2, <2>1
    <3>1. PICK i \in Nat : k = q + i
      <4>1. k - q \in Nat /\ k = q + (k - q)
        BY <1>2, <2>1
      <4> QED BY <4>1
    <3>2. d * k = d * q + d * i /\ d * i \in Nat
      BY <1>1, <1>2, <3>1
    <3> QED BY <1>3, <1>6, <2>1, <3>2
  <2>3. PICK i \in Nat : q = k + 1 + i
    <3>1. q - k - 1 \in Nat /\ q = k + 1 + (q - k - 1)
      BY <1>2, <2>1, <2>2
    <3> QED BY <3>1
  <2>4. d * q = d * k + d + d * i /\ d * i \in Nat
    BY <1>1, <2>1, <2>3
  <2> QED BY <1>1, <1>3, <1>5, <2>1, <2>4
<1> QED BY <1>3, <1>4, <1>5, <1>6 DEF d

LEMMA RoundDownGreatest ==
  ASSUME NEW n \in Nat
  PROVE  /\ RoundDown(n) \in Nat /\ RoundDown(n) % portBYTE_ALIGNMENT = 0
         /\ RoundDown(n) <= n /\ n <= RoundDown(n) + portBYTE_ALIGNMENT - 1
<1> DEFINE d == portBYTE_ALIGNMENT
           q == n \div d
<1>1. d \in Nat \ {0}
  BY HeapAssumption
<1>2. q \in Nat /\ n = d * q + (n % d) /\ n % d \in 0 .. d - 1
  BY <1>1, SMT
<1> HIDE DEF q
<1>3. RoundDown(n) = q * d /\ q * d = d * q /\ d * q \in Nat
  BY <1>1, <1>2 DEF RoundDown, q
<1> HIDE DEF d
<1>4. RoundDown(n) % d = 0
  BY <1>1, <1>2, <1>3, MultipleOf
<1>5. RoundDown(n) <= n /\ n <= RoundDown(n) + d - 1
  BY <1>1, <1>2, <1>3
<1> QED BY <1>3, <1>4, <1>5 DEF d

\* The place of the heap.
LEMMA HeapPlace ==
  /\ pucAlignedHeap \in Nat /\ pxEnd \in Nat /\ xHeapStructSize \in Nat \ {0}
  /\ pucAlignedHeap % portBYTE_ALIGNMENT = 0 /\ pxEnd % portBYTE_ALIGNMENT = 0
  /\ pxEnd - pucAlignedHeap > xHeapStructSize /\ pxEnd < xBlockAllocatedBit
  /\ portBYTE_ALIGNMENT \in Nat \ {0} /\ xHeapStructSize % portBYTE_ALIGNMENT = 0
  /\ xBlockAllocatedBit \in Int
  /\ xStart = -1 /\ NULL = -2
<1> DEFINE m == ucHeap + configTOTAL_HEAP_SIZE - xHeapStructSize
<1>1. m \in Nat
  BY HeapAssumption
<1>2. /\ RoundDown(m) \in Nat /\ RoundDown(m) % portBYTE_ALIGNMENT = 0
      /\ RoundDown(m) <= m /\ m <= RoundDown(m) + portBYTE_ALIGNMENT - 1
  BY <1>1, RoundDownGreatest
<1>3. /\ RoundUp(ucHeap) \in Nat /\ RoundUp(ucHeap) % portBYTE_ALIGNMENT = 0
      /\ RoundUp(ucHeap) <= ucHeap + portBYTE_ALIGNMENT - 1
  BY HeapAssumption, RoundUpLeast
<1>4. pxEnd = RoundDown(m) /\ pucAlignedHeap = RoundUp(ucHeap)
  BY DEF pxEnd, pucAlignedHeap
<1> QED BY <1>1, <1>2, <1>3, <1>4, HeapAssumption DEF xStart, NULL

-----------------------------------------------------------------------------
(* Headers, blocks and the free list, of any heap.                         *)

HeadersOf(B) == B \cup {xStart, pxEnd}

\* The blocks B lie one after the other, as far as pxEnd.
Tiled(size, B) ==
  /\ pucAlignedHeap \in B /\ B \subseteq pucAlignedHeap .. pxEnd - 1
  /\ \A b \in B :
       /\ b % portBYTE_ALIGNMENT = 0 /\ size[b] \in Nat /\ size[b] > xHeapStructSize
       /\ b + size[b] \in B \cup {pxEnd}
       /\ \A o \in B : ~ (b < o /\ o < b + size[b])

\* The list goes through F, in order.
Ordered(next, F) ==
  \A f \in F \cup {xStart} :
    /\ next[f] \in F \cup {pxEnd} /\ f < next[f]
    /\ \A o \in F : ~ (f < o /\ o < next[f])

\* No two of F touch.
Apart(size, F) == \A f \in F : f + size[f] \notin F

Layout(size, next, B, F) ==
  /\ size \in [HeadersOf(B) -> Nat] /\ next \in [HeadersOf(B) -> Int]
  /\ F \subseteq B /\ Tiled(size, B) /\ Ordered(next, F)
  /\ size[xStart] = 0 /\ size[pxEnd] = 0
  /\ next[pxEnd] = NULL /\ \A b \in B \ F : next[b] = NULL

LEMMA BlocksFinite ==
  ASSUME NEW size, NEW B, Tiled(size, B)
  PROVE  /\ IsFiniteSet(B) /\ B \subseteq Nat
         /\ \A b \in B : b \in Nat /\ b < pxEnd /\ b # xStart /\ b # pxEnd /\ b # NULL /\ xStart < b
         /\ pxEnd # xStart /\ xStart < pxEnd
<1>1. B \subseteq pucAlignedHeap .. pxEnd - 1
  BY DEF Tiled
<1>2. IsFiniteSet(pucAlignedHeap .. pxEnd - 1)
  BY HeapPlace, FS_Interval
<1>3. IsFiniteSet(B)
  BY <1>1, <1>2, FS_Subset
<1> QED BY <1>1, <1>3, HeapPlace

\* Two neighbours become one block.
LEMMA TileJoin ==
  ASSUME NEW size, NEW B, Tiled(size, B), NEW b \in B, NEW c \in B, b + size[b] = c,
         NEW size2, size2[b] = size[b] + size[c],
         \A x \in B \ {b, c} : size2[x] = size[x]
  PROVE  Tiled(size2, B \ {c}) /\ b # c
<1>1. /\ pucAlignedHeap \in B /\ B \subseteq pucAlignedHeap .. pxEnd - 1
      /\ pucAlignedHeap \in Nat /\ pxEnd \in Nat /\ xHeapStructSize \in Nat
      /\ \A x \in B : x \in Nat /\ x >= pucAlignedHeap /\ x < pxEnd
  BY HeapPlace DEF Tiled
<1>2. \A x \in B : /\ x % portBYTE_ALIGNMENT = 0 /\ size[x] \in Nat /\ size[x] > xHeapStructSize
                   /\ x + size[x] \in B \cup {pxEnd}
                   /\ \A o \in B : ~ (x < o /\ o < x + size[x])
  BY DEF Tiled
<1>3. b < c /\ b \in Nat /\ c \in Nat /\ size[b] \in Nat /\ size[c] \in Nat /\ b # c /\ pucAlignedHeap # c
  BY <1>1, <1>2
<1>4. ASSUME NEW x \in B \ {c}
      PROVE  /\ size2[x] \in Nat /\ size2[x] > xHeapStructSize
             /\ x + size2[x] \in (B \ {c}) \cup {pxEnd}
             /\ \A o \in B \ {c} : ~ (x < o /\ o < x + size2[x])
  <2>1. CASE x = b
    <3>1. x + size2[x] = c + size[c]
      BY <1>3, <2>1
    <3>2. \A o \in B \ {c} : ~ (x < o /\ o < c + size[c])
      BY <1>1, <1>2, <1>3, <2>1
    <3>3. c + size[c] \in B \cup {pxEnd} /\ c + size[c] # c
      BY <1>1, <1>2, <1>3
    <3> QED BY <1>1, <1>2, <1>3, <2>1, <3>1, <3>2, <3>3
  <2>2. CASE x # b
    <3>1. size2[x] = size[x]
      BY <2>2
    <3>2. x + size[x] # c
      BY <1>1, <1>2, <1>3, <2>2
    <3> QED BY <1>2, <3>1, <3>2
  <2> QED BY <2>1, <2>2
<1> QED BY <1>1, <1>2, <1>3, <1>4 DEF Tiled

\* A block becomes two neighbours.
LEMMA TileSplit ==
  ASSUME NEW size, NEW B, Tiled(size, B), NEW b \in B, NEW wanted \in Nat,
         wanted % portBYTE_ALIGNMENT = 0, wanted > xHeapStructSize,
         size[b] - wanted > xHeapStructSize,
         NEW size2, size2[b] = wanted, size2[b + wanted] = size[b] - wanted,
         \A x \in B \ {b} : size2[x] = size[x]
  PROVE  Tiled(size2, B \cup {b + wanted}) /\ b + wanted \notin B
<1> DEFINE r == b + wanted
<1>1. /\ pucAlignedHeap \in B /\ B \subseteq pucAlignedHeap .. pxEnd - 1
      /\ pucAlignedHeap \in Nat /\ pxEnd \in Nat /\ xHeapStructSize \in Nat
      /\ \A x \in B : x \in Nat /\ x >= pucAlignedHeap /\ x < pxEnd
  BY HeapPlace DEF Tiled
<1>2. \A x \in B : /\ x % portBYTE_ALIGNMENT = 0 /\ size[x] \in Nat /\ size[x] > xHeapStructSize
                   /\ x + size[x] \in B \cup {pxEnd}
                   /\ \A o \in B : ~ (x < o /\ o < x + size[x])
  BY DEF Tiled
<1>3. r \in Nat /\ b \in Nat /\ size[b] \in Nat /\ b < r /\ r < b + size[b] /\ r \notin B
      /\ r + size2[r] = b + size[b] /\ size2[r] \in Nat /\ size2[r] > xHeapStructSize
  <2>1. b \in Nat /\ size[b] \in Nat
    BY <1>1, <1>2
  <2>2. r \in Nat /\ b < r /\ r < b + size[b]
    BY <1>1, <2>1
  <2>3. r \notin B
    BY <1>2, <2>2
  <2>4. size2[r] = size[b] - wanted
    OBVIOUS
  <2> HIDE DEF r
  <2>5. r = b + wanted
    BY DEF r
  <2> QED BY <1>1, <2>1, <2>2, <2>3, <2>4, <2>5
<1>4. r % portBYTE_ALIGNMENT = 0
  BY <1>2, <1>3, HeapPlace, MultipleAdd
<1>5. r \in pucAlignedHeap .. pxEnd - 1
  <2>1. b + size[b] <= pxEnd
    BY <1>1, <1>2, <1>3
  <2> HIDE DEF r
  <2> QED BY <1>1, <1>3, <2>1
<1> HIDE DEF r
<1>6. ASSUME NEW x \in B \cup {r}
      PROVE  /\ x % portBYTE_ALIGNMENT = 0 /\ size2[x] \in Nat /\ size2[x] > xHeapStructSize
             /\ x + size2[x] \in (B \cup {r}) \cup {pxEnd}
             /\ \A o \in B \cup {r} : ~ (x < o /\ o < x + size2[x])
  <2>1. CASE x = r
    <3>1. \A o \in B : ~ (r < o /\ o < b + size[b])
      BY <1>1, <1>2, <1>3
    <3> QED BY <1>2, <1>3, <1>4, <2>1, <3>1
  <2>2. CASE x = b
    <3>1. x + size2[x] = r
      BY <2>2 DEF r
    <3>2. \A o \in B : ~ (b < o /\ o < r)
      BY <1>1, <1>2, <1>3
    <3>3. \A o \in B \cup {r} : ~ (x < o /\ o < r)
      BY <1>3, <2>2, <3>2
    <3> QED BY <1>2, <2>2, <3>1, <3>3
  <2>3. CASE x \in B /\ x # b
    <3>1. size2[x] = size[x]
      BY <2>3
    <3>2. ~ (x < r /\ r < x + size[x])
      <4> SUFFICES ASSUME x < r, r < x + size[x] PROVE FALSE
        OBVIOUS
      <4>1. x \in Nat /\ size[x] \in Nat
        BY <1>1, <1>2, <2>3
      <4>2. ~ (x < b /\ b < x + size[x]) /\ ~ (b < x /\ x < b + size[b])
        BY <1>2, <2>3
      <4> QED BY <1>3, <2>3, <4>1, <4>2
    <3> QED BY <1>2, <2>3, <3>1, <3>2
  <2> QED BY <2>1, <2>2, <2>3
<1> QED BY <1>1, <1>3, <1>5, <1>6 DEF Tiled, r

\* A block enters the list.
LEMMA ListInsert ==
  ASSUME NEW size, NEW B, Tiled(size, B), NEW F, F \subseteq B, NEW next, Ordered(next, F),
         NEW before \in F \cup {xStart}, NEW block \in B, block \notin F,
         before < block, block < next[before],
         NEW next2, next2[before] = block, next2[block] = next[before],
         \A f \in F \cup {xStart} : f # before => next2[f] = next[f]
  PROVE  Ordered(next2, F \cup {block})
<1>1. /\ xStart \in Int /\ pxEnd \in Int /\ block \in Int
      /\ \A f \in F : f \in Int /\ f < pxEnd /\ xStart < f /\ f # xStart
      /\ block # xStart
  BY BlocksFinite, HeapPlace
<1>2. \A f \in F \cup {xStart} : /\ next[f] \in F \cup {pxEnd} /\ f < next[f]
                                 /\ \A o \in F : ~ (f < o /\ o < next[f])
  BY DEF Ordered
<1>3. ASSUME NEW f \in F \cup {xStart} \cup {block}
      PROVE  /\ next2[f] \in (F \cup {block}) \cup {pxEnd} /\ f < next2[f]
             /\ \A o \in F \cup {block} : ~ (f < o /\ o < next2[f])
  <2>1. CASE f = before
    <3>1. next[before] \in Int /\ before \in Int
      BY <1>1, <1>2
    <3>2. ASSUME NEW o \in F, before < o, o < block PROVE FALSE
      <4>1. o < next[before]
        BY <1>1, <3>1, <3>2
      <4> QED BY <1>2, <3>2, <4>1
    <3> QED BY <1>1, <2>1, <3>2
  <2>2. CASE f = block
    <3>1. \A o \in F : ~ (block < o /\ o < next[before])
      BY <1>1, <1>2
    <3> QED BY <1>1, <1>2, <2>2, <3>1
  <2>3. CASE f # before /\ f # block
    <3>1. f \in F \cup {xStart} /\ next2[f] = next[f]
      BY <2>3
    <3>2. ~ (f < block /\ block < next[f])
      <4> SUFFICES ASSUME f < block, block < next[f] PROVE FALSE
        OBVIOUS
      <4>1. f \in Int /\ before \in Int /\ next[f] \in Int /\ next[before] \in Int
        BY <1>1, <1>2, <3>1
      <4>2. f < before => before \in F
        BY <1>1, <3>1
      <4>3. before < f => f \in F
        BY <1>1, <3>1
      <4>4. ~ (f < before)
        BY <1>2, <3>1, <4>1, <4>2
      <4>5. ~ (before < f)
        BY <1>2, <3>1, <4>1, <4>3
      <4> QED BY <2>3, <4>1, <4>4, <4>5
    <3> QED BY <1>2, <3>1, <3>2
  <2> QED BY <2>1, <2>2, <2>3
<1> QED BY <1>3 DEF Ordered

\* A block leaves the list.
LEMMA ListDelete ==
  ASSUME NEW size, NEW B, Tiled(size, B), NEW F, F \subseteq B, NEW next, Ordered(next, F),
         NEW previous \in F \cup {xStart}, NEW c \in F, c = next[previous],
         NEW next2, next2[previous] = next[c],
         \A f \in (F \cup {xStart}) \ {c} : f # previous => next2[f] = next[f]
  PROVE  Ordered(next2, F \ {c})
<1>1. /\ xStart \in Int /\ pxEnd \in Int
      /\ \A f \in F : f \in Int /\ f < pxEnd /\ xStart < f /\ f # xStart
  BY BlocksFinite, HeapPlace
<1>2. \A f \in F \cup {xStart} : /\ next[f] \in F \cup {pxEnd} /\ f < next[f]
                                 /\ \A o \in F : ~ (f < o /\ o < next[f])
  BY DEF Ordered
<1>3. ASSUME NEW f \in (F \ {c}) \cup {xStart}
      PROVE  /\ next2[f] \in (F \ {c}) \cup {pxEnd} /\ f < next2[f]
             /\ \A o \in F \ {c} : ~ (f < o /\ o < next2[f])
  <2>1. CASE f = previous
    <3>1. \A o \in F \ {c} : ~ (f < o /\ o < next[c])
      BY <1>1, <1>2, <2>1
    <3>2. next[c] # c /\ f < next[c]
      BY <1>1, <1>2, <2>1
    <3> QED BY <1>2, <2>1, <3>1, <3>2
  <2>2. CASE f # previous
    <3>1. f \in F \cup {xStart} /\ next2[f] = next[f]
      BY <1>1, <2>2
    <3>2. next[f] # c
      <4> SUFFICES ASSUME next[f] = c PROVE FALSE
        OBVIOUS
      <4>1. f \in Int /\ previous \in Int /\ (f < previous => previous \in F) /\ (previous < f => f \in F)
        BY <1>1, <3>1
      <4> QED BY <1>2, <2>2, <3>1, <4>1
    <3> QED BY <1>2, <3>1, <3>2
  <2> QED BY <2>1, <2>2
<1> QED BY <1>3 DEF Ordered

-----------------------------------------------------------------------------
(* prvInsertBlockIntoFreeList.                                             *)

\* The search ends at the last of the free blocks below the address.
LEMMA LastBeforeFound ==
  ASSUME NEW size, NEW next, NEW B, NEW F, Layout(size, next, B, F), NEW block \in B \ F
  PROVE  LET before == LastBefore([size |-> size, next |-> next], block)
         IN  /\ before \in F \cup {xStart} /\ before < block
             /\ block < next[before] /\ next[before] \in F \cup {pxEnd}
<1> DEFINE h == [size |-> size, next |-> next]
           N == HaveNext(next)
           goes == {n \in N : next[n] < block}
           w == CHOOSE u : u = [n \in N |-> IF next[n] < block THEN u[next[n]] ELSE n]
           P == {f \in F \cup {xStart} : f < block}
           before == LastBefore(h, block)
<1>1. /\ next \in [HeadersOf(B) -> Int] /\ F \subseteq B /\ Tiled(size, B) /\ Ordered(next, F)
      /\ next[pxEnd] = NULL /\ \A b \in B \ F : next[b] = NULL
  BY DEF Layout
<1>2. /\ pxEnd \in Nat /\ NULL \in Int /\ NULL < xStart /\ xStart \in Int /\ block \in Nat /\ xStart < block
      /\ \A f \in B : f \in Nat /\ f < pxEnd /\ xStart < f
  BY <1>1, BlocksFinite, HeapPlace
<1>3. \A f \in F \cup {xStart} : /\ next[f] \in F \cup {pxEnd} /\ f < next[f]
                                 /\ \A o \in F : ~ (f < o /\ o < next[f])
  BY <1>1 DEF Ordered
<1>4. N = F \cup {xStart}
  <2>1. \A f \in F \cup {xStart} : next[f] # NULL /\ f \in HeadersOf(B)
    BY <1>1, <1>2, <1>3 DEF HeadersOf
  <2>2. \A n \in HeadersOf(B) : n \notin F \cup {xStart} => next[n] = NULL
    BY <1>1 DEF HeadersOf
  <2>3. DOMAIN next = HeadersOf(B)
    BY <1>1
  <2> QED BY <2>1, <2>2, <2>3 DEF HaveNext
<1>5. before = w[xStart]
  BY DEF LastBefore
<1> HIDE DEF before
<1>6. ASSUME NEW n \in goes PROVE next[n] \in P /\ next[n] > n
  <2>1. n \in F \cup {xStart} /\ next[n] < block /\ next[n] \in F \cup {pxEnd} /\ n < next[n]
    BY <1>3, <1>4
  <2>2. next[n] # pxEnd
    BY <1>2, <2>1
  <2>3. F \cup {xStart, pxEnd} \subseteq Int
    BY <1>1, <1>2
  <2> QED BY <2>1, <2>2, <2>3
<1>7. Climbs(P, pxEnd, N, next, goes) /\ xStart \in P
  <2>1. \A n \in N : n \in Int /\ n <= pxEnd
    <3>1. \A n \in F \cup {xStart} : n \in Int /\ n <= pxEnd
      BY <1>1, <1>2
    <3> HIDE DEF N
    <3> QED BY <1>4, <3>1
  <2>2. P \subseteq N /\ xStart \in P
    BY <1>2, <1>4
  <2>3. goes \subseteq N /\ pxEnd \in Int
    BY <1>2
  <2> HIDE DEF N, goes, P
  <2> QED BY <1>6, <2>1, <2>2, <2>3 DEF Climbs
<1>8. IsLoop(w, N, next, goes)
  <2>1. \A u : IsLoop(u, N, next, goes) <=> u = [n \in N |-> IF next[n] < block THEN u[next[n]] ELSE n]
    BY DEF IsLoop
  <2>2. goes \in SUBSET N /\ \A n \in goes : next[n] \in N
    BY <1>4, <1>6
  <2>3. \E u : IsLoop(u, N, next, goes)
    <3> HIDE DEF goes, N
    <3> QED BY <2>2, LoopExists
  <2>4. \E u : u = [n \in N |-> IF next[n] < block THEN u[next[n]] ELSE n]
    BY <2>1, <2>3
  <2>5. w = [n \in N |-> IF next[n] < block THEN w[next[n]] ELSE n]
    <3> HIDE DEF N
    <3> QED BY <2>4, Zenon
  <2> HIDE DEF w
  <2> QED BY <2>1, <2>5
<1>9. w[xStart] \in P \ goes
  <2> HIDE DEF goes, N, P, w
  <2> QED BY ONLY <1>7, <1>8, LoopEnds
<1>10. /\ before \in F \cup {xStart} /\ before < block /\ ~ (next[before] < block)
       /\ next[before] \in F \cup {pxEnd}
  BY <1>3, <1>4, <1>5, <1>9
<1>11. next[before] # block /\ next[before] \in Int
  <2>1. \A n \in F \cup {pxEnd} : n # block /\ n \in Int
    BY <1>1, <1>2
  <2> QED BY ONLY <1>10, <2>1
<1> QED BY <1>2, <1>10, <1>11 DEF before

\* What the insertion makes of the blocks B, of which F were free: the blocks B2, of
\* which F2 are.
Inserted(size, B, F, block, h, B2, F2) ==
  /\ Layout(h.size, h.next, B2, F2) /\ Apart(h.size, F2)
  /\ B2 \subseteq B /\ B2 \ F2 = (B \ F) \ {block}
  /\ \A b \in B2 \ F2 : h.size[b] = size[b]
  /\ SumOver(h.size, F2) = SumOver(size, F) + size[block]

\* The links, when the block has been put between p and d.
Placed(next, B, p, block, d, next1) ==
  /\ next1 \in [HeadersOf(B) -> Int]
  /\ \A x \in HeadersOf(B) :
       next1[x] = IF x = p THEN block ELSE IF x = block THEN d ELSE next[x]

\* The headers, when the block x has taken in y.
Joined(size, next, B, x, y, size2, next2) ==
  /\ size2 \in [HeadersOf(B \ {y}) -> Nat] /\ next2 \in [HeadersOf(B \ {y}) -> Int]
  /\ \A z \in HeadersOf(B \ {y}) :
       /\ size2[z] = IF z = x THEN size[x] + size[y] ELSE size[z]
       /\ next2[z] = IF z = x THEN next[y] ELSE next[z]

\* The two free blocks touch.
Touch(size, F, f, g) == f \in F /\ g \in F /\ f + size[f] = g

\* p is the last one of the list before the block, and d the next one.
Between(next, F, p, block, d) ==
  /\ p \in F \cup {xStart} /\ d = next[p] /\ d \in F \cup {pxEnd}
  /\ p < block /\ block < d

\* A block comes between two free ones that it touches on neither side.
LEMMA PlaceBlock ==
  ASSUME NEW size, NEW next, NEW B, NEW F, Layout(size, next, B, F), Apart(size, F),
         NEW block \in B \ F, NEW p, NEW d, Between(next, F, p, block, d),
         NEW next1, Placed(next, B, p, block, d, next1)
  PROVE  /\ Layout(size, next1, B, F \cup {block})
         /\ \A f, g : Touch(size, F \cup {block}, f, g)
                        => (f = p /\ g = block) \/ (f = block /\ g = d)
         /\ SumOver(size, F \cup {block}) = SumOver(size, F) + size[block]
<1>2. /\ size \in [HeadersOf(B) -> Nat] /\ next \in [HeadersOf(B) -> Int]
      /\ F \subseteq B /\ Tiled(size, B) /\ Ordered(next, F)
      /\ size[xStart] = 0 /\ size[pxEnd] = 0
      /\ next[pxEnd] = NULL /\ \A b \in B \ F : next[b] = NULL
  BY DEF Layout
<1>3. /\ IsFiniteSet(F) /\ pxEnd \in Nat /\ xStart = -1 /\ NULL = -2
      /\ \A b \in B : b \in Nat /\ b < pxEnd /\ b # xStart /\ b # pxEnd
      /\ xStart # pxEnd
  <2>1. IsFiniteSet(F)
    BY <1>2, BlocksFinite, FS_Subset
  <2> QED BY <1>2, <2>1, BlocksFinite, HeapPlace
<1>4. \A x \in B : /\ size[x] \in Nat /\ size[x] > 0
                   /\ x + size[x] \in B \cup {pxEnd}
                   /\ \A o \in B : ~ (x < o /\ o < x + size[x])
  BY <1>2, HeapPlace DEF Tiled
<1>5. \A f \in F \cup {xStart} : /\ next[f] \in F \cup {pxEnd} /\ f < next[f]
                                 /\ \A o \in F : ~ (f < o /\ o < next[f])
  BY <1>2 DEF Ordered
<1>8. /\ p \in F \cup {xStart} /\ p < block /\ block < d /\ d \in F \cup {pxEnd} /\ d = next[p]
      /\ p \in Int /\ block \in Nat /\ d \in Int /\ p # block /\ d # block /\ d # p
      /\ p \in HeadersOf(B) /\ block \in HeadersOf(B) /\ d \in HeadersOf(B) /\ d # xStart /\ block # pxEnd
      /\ block # xStart /\ p # pxEnd
  BY <1>2, <1>3 DEF Between, HeadersOf
\* The free block before it touches it only if that is the last one below.
<1>9. \A f \in F : f + size[f] = block => f = p
  <2> SUFFICES ASSUME NEW f \in F, f + size[f] = block, f # p PROVE FALSE
    OBVIOUS
  <2>1. f \in Nat /\ size[f] \in Nat /\ f < block
    BY <1>2, <1>3, <1>4
  <2>2. f < d
    BY <1>8, <2>1
  <2>3. ~ (p < f)
    BY <1>5, <1>8, <2>2
  <2>4. f < p
    BY <1>8, <2>1, <2>3
  <2>5. p \in B
    BY <1>2, <1>3, <1>8, <2>1, <2>4
  <2> QED BY <1>2, <1>4, <1>8, <2>4, <2>5
\* And the free block after it only if that is the first one above.
<1>10. \A f \in F : block + size[block] = f => f = d
  <2> SUFFICES ASSUME NEW f \in F, block + size[block] = f, f # d PROVE FALSE
    OBVIOUS
  <2>1. f \in Nat /\ size[block] \in Nat /\ block < f
    BY <1>2, <1>3, <1>4
  <2>2. p < f
    BY <1>8, <2>1
  <2>3. ~ (f < d)
    BY <1>5, <1>8, <2>2
  <2>4. d < f
    BY <1>8, <2>1, <2>3
  <2>5. d \in F
    BY <1>2, <1>3, <1>8, <2>1, <2>4
  <2> QED BY <1>2, <1>4, <1>8, <2>4, <2>5
<1>11. \A f \in F : f + size[f] \notin F
  BY DEF Apart
<1>12. SumOver(size, F) \in Int
  BY <1>2, <1>3, <1>4, SumAny
<1> DEFINE F2 == F \cup {block}
<1>13. \A x \in HeadersOf(B) : next1[x] = IF x = p THEN block ELSE IF x = block THEN d ELSE next[x]
  BY DEF Placed
<1>14. \A f \in F \cup {xStart} : f \in HeadersOf(B)
  BY <1>2 DEF HeadersOf
<1>15. Ordered(next1, F2)
  <2>1. next1[p] = block /\ next1[block] = next[p]
    BY <1>8, <1>13
  <2>2. \A f \in F \cup {xStart} : f # p => next1[f] = next[f]
    <3> SUFFICES ASSUME NEW f \in F \cup {xStart}, f # p PROVE next1[f] = next[f]
      OBVIOUS
    <3>1. f # block
      BY <1>8
    <3> QED BY <1>13, <1>14, <3>1
  <2>3. block < next[p]
    BY <1>8
  <2>4. p \in F \cup {xStart} /\ p < block /\ block \in B /\ block \notin F
    BY <1>8
  <2> QED BY ONLY <1>2, <2>1, <2>2, <2>3, <2>4, ListInsert
<1>16. Layout(size, next1, B, F2)
  <2>1. next1 \in [HeadersOf(B) -> Int]
    BY DEF Placed
  <2>2. next1[pxEnd] = NULL
    BY <1>2, <1>8, <1>13 DEF HeadersOf
  <2>3. \A b \in B \ F2 : next1[b] = NULL
    <3> SUFFICES ASSUME NEW b \in B \ F2 PROVE next1[b] = NULL
      OBVIOUS
    <3>1. b # p /\ b # block /\ b \in HeadersOf(B) /\ next[b] = NULL
      BY <1>2, <1>3, <1>8 DEF HeadersOf
    <3> QED BY <1>13, <3>1
  <2>4. F2 \subseteq B
    BY <1>2
  <2> QED BY <1>2, <1>15, <2>1, <2>2, <2>3, <2>4 DEF Layout
<1>17. \A f, g : Touch(size, F2, f, g) => (f = p /\ g = block) \/ (f = block /\ g = d)
  <2> SUFFICES ASSUME NEW f, NEW g, Touch(size, F2, f, g)
               PROVE  (f = p /\ g = block) \/ (f = block /\ g = d)
    OBVIOUS
  <2>1. f \in F2 /\ g \in F2 /\ f + size[f] = g
    BY DEF Touch
  <2>2. CASE f = block
    <3>1. g # block
      BY <1>4, <1>8, <2>1, <2>2
    <3> QED BY <1>10, <2>1, <2>2, <3>1
  <2>3. CASE f \in F
    BY <1>9, <1>11, <2>1, <2>3
  <2> QED BY <2>1, <2>2, <2>3
<1>18. SumOver(size, F2) = SumOver(size, F) + size[block]
  <2>1. IsFiniteSet(F2) /\ \A x \in F2 : size[x] \in Int
    <3>1. IsFiniteSet(F2)
      BY <1>3, FS_AddElement
    <3> QED BY <1>2, <1>4, <3>1
  <2>2. block \in F2 /\ F2 \ {block} = F
    OBVIOUS
  <2>3. SumOver(size, F2) = size[block] + SumOver(size, F2 \ {block})
    BY <2>1, <2>2, SumAny
  <2> QED BY <1>4, <1>12, <2>2, <2>3
<1> QED BY <1>16, <1>17, <1>18

\* Two free blocks that touch become one.
LEMMA JoinBlocks ==
  ASSUME NEW size, NEW next, NEW B, NEW F, Layout(size, next, B, F),
         NEW x, NEW y, Touch(size, F, x, y), y = next[x],
         NEW size2, NEW next2, Joined(size, next, B, x, y, size2, next2)
  PROVE  /\ Layout(size2, next2, B \ {y}, F \ {y})
         /\ \A f, g : Touch(size2, F \ {y}, f, g)
                        => \/ Touch(size, F, f, g) /\ f # x
                           \/ f = x /\ Touch(size, F, y, g)
         /\ SumOver(size2, F \ {y}) = SumOver(size, F)
         /\ x # y
<1>1. /\ size \in [HeadersOf(B) -> Nat] /\ next \in [HeadersOf(B) -> Int]
      /\ F \subseteq B /\ Tiled(size, B) /\ Ordered(next, F)
      /\ size[xStart] = 0 /\ size[pxEnd] = 0
      /\ next[pxEnd] = NULL /\ \A b \in B \ F : next[b] = NULL
  BY DEF Layout
<1>2. /\ IsFiniteSet(F) /\ \A b \in B : b \in Nat /\ b # xStart /\ b # pxEnd
  <2>1. IsFiniteSet(F)
    BY <1>1, BlocksFinite, FS_Subset
  <2> QED BY <1>1, <2>1, BlocksFinite
<1>3. \A b \in B : size[b] \in Nat
  BY <1>1 DEF Tiled
<1>4. x \in F /\ y \in F /\ x \in B /\ y \in B /\ x + size[x] = y
  BY <1>1 DEF Touch
<1>5. /\ size2 \in [HeadersOf(B \ {y}) -> Nat] /\ next2 \in [HeadersOf(B \ {y}) -> Int]
      /\ \A z \in HeadersOf(B \ {y}) :
           /\ size2[z] = IF z = x THEN size[x] + size[y] ELSE size[z]
           /\ next2[z] = IF z = x THEN next[y] ELSE next[z]
  BY DEF Joined
<1>6. x # y
  <2>1. /\ x % portBYTE_ALIGNMENT = 0 /\ size[x] \in Nat /\ size[x] > xHeapStructSize
    BY <1>1, <1>4 DEF Tiled
  <2> QED BY <1>2, <1>4, <2>1, HeapPlace
<1>7. HeadersOf(B \ {y}) = HeadersOf(B) \ {y}
  BY <1>2, <1>4 DEF HeadersOf
<1>8. /\ size2[x] = size[x] + size[y] /\ next2[x] = next[y]
      /\ \A z \in B \ {x, y} : size2[z] = size[z]
      /\ \A z \in HeadersOf(B) \ {x, y} : next2[z] = next[z] /\ size2[z] = size[z]
  BY <1>4, <1>5, <1>6, <1>7 DEF HeadersOf
<1>9. Tiled(size2, B \ {y})
  <2>1. \A z \in B \ {x, y} : size2[z] = size[z]
    BY <1>8
  <2>2. size2[x] = size[x] + size[y]
    BY <1>8
  <2> QED BY ONLY <1>1, <1>4, <2>1, <2>2, TileJoin
<1>10. Ordered(next2, F \ {y})
  <2>1. \A f \in (F \cup {xStart}) \ {y} : f # x => next2[f] = next[f]
    BY <1>1, <1>8 DEF HeadersOf
  <2>2. x \in F \cup {xStart} /\ next2[x] = next[y]
    BY <1>4, <1>8
  <2> QED BY ONLY <1>1, <1>4, y = next[x], <2>1, <2>2, ListDelete
<1>11. Layout(size2, next2, B \ {y}, F \ {y})
  <2>1. xStart \in HeadersOf(B) \ {x, y} /\ pxEnd \in HeadersOf(B) \ {x, y}
    BY <1>2, <1>4 DEF HeadersOf
  <2>2. size2[xStart] = 0 /\ size2[pxEnd] = 0 /\ next2[pxEnd] = NULL
    BY <1>1, <1>8, <2>1
  <2>3. \A b \in (B \ {y}) \ (F \ {y}) : next2[b] = NULL
    BY <1>1, <1>4, <1>8 DEF HeadersOf
  <2>4. F \ {y} \subseteq B \ {y}
    BY <1>1
  <2> QED BY <1>5, <1>9, <1>10, <2>2, <2>3, <2>4 DEF Layout
<1>12. \A f, g : Touch(size2, F \ {y}, f, g)
                   => \/ Touch(size, F, f, g) /\ f # x
                      \/ f = x /\ Touch(size, F, y, g)
  <2> SUFFICES ASSUME NEW f, NEW g, Touch(size2, F \ {y}, f, g)
               PROVE  \/ Touch(size, F, f, g) /\ f # x
                      \/ f = x /\ Touch(size, F, y, g)
    OBVIOUS
  <2>1. f \in F \ {y} /\ g \in F \ {y} /\ f + size2[f] = g /\ f \in B
    BY <1>1 DEF Touch
  <2>2. CASE f = x
    <3>1. x + (size[x] + size[y]) = g /\ x \in Nat /\ size[x] \in Nat /\ size[y] \in Nat
      BY <1>2, <1>3, <1>4, <1>8, <2>1, <2>2
    <3>2. y + size[y] = g
      BY <1>4, <3>1
    <3> QED BY <1>4, <2>1, <2>2, <3>2 DEF Touch
  <2>3. CASE f # x
    <3>1. size2[f] = size[f]
      BY <1>8, <2>1, <2>3
    <3> QED BY <2>1, <2>3, <3>1 DEF Touch
  <2> QED BY <2>2, <2>3
<1>13. SumOver(size2, F \ {y}) = SumOver(size, F)
  <2> DEFINE G == F \ {y}
             E == G \ {x}
  <2>1. IsFiniteSet(G) /\ IsFiniteSet(E) /\ x \in G
    BY <1>2, <1>4, <1>6, FS_RemoveElement
  <2>2. (\A f \in F : size[f] \in Int) /\ \A f \in G : size2[f] \in Int /\ size[f] \in Int
    BY <1>1, <1>3, <1>5, <1>7 DEF HeadersOf
  <2>3. SumOver(size, F) = size[y] + SumOver(size, G) /\ SumOver(size, G) \in Int
    BY <1>2, <1>4, <2>1, <2>2, SumAny
  <2>4. SumOver(size, G) = size[x] + SumOver(size, E)
    BY <2>1, <2>2, SumAny
  <2>5. SumOver(size2, G) = size2[x] + SumOver(size2, E)
    BY <2>1, <2>2, SumAny
  <2>6. SumOver(size2, E) = SumOver(size, E)
    <3>1. \A f \in E : size2[f] = size[f]
      BY <1>1, <1>8
    <3> HIDE DEF E
    <3> QED BY <2>1, <3>1, SumEqual
  <2>7. SumOver(size, E) \in Int
    <3>1. \A f \in E : size[f] \in Int
      BY <2>2
    <3> HIDE DEF E
    <3> QED BY <2>1, <3>1, SumAny
  <2>8. size2[x] = size[x] + size[y] /\ size[x] \in Nat /\ size[y] \in Nat
    BY <1>3, <1>4, <1>8
  <2> QED BY ONLY <2>3, <2>4, <2>5, <2>6, <2>7, <2>8
<1> QED BY <1>6, <1>11, <1>12, <1>13

LEMMA SetNext ==
  ASSUME NEW size, NEW next, NEW n, NEW m
  PROVE  [[size |-> size, next |-> next] EXCEPT !.next[n] = m]
           = [size |-> size, next |-> [next EXCEPT ![n] = m]]
  OBVIOUS

\* prvInsertBlockIntoFreeList, in each of its cases.
LEMMA InsertBlock ==
  ASSUME NEW size, NEW next, NEW B, NEW F, Layout(size, next, B, F), Apart(size, F),
         NEW block \in B \ F
  PROVE  \E B2, F2 : Inserted(size, B, F, block,
           prvInsertBlockIntoFreeList([size |-> size, next |-> next], block), B2, F2)
<1> DEFINE h == [size |-> size, next |-> next]
           D == HeadersOf(B)
           before == LastBefore(h, block)
           c == next[before]
           result == prvInsertBlockIntoFreeList(h, block)
<1>1. /\ before \in F \cup {xStart} /\ before < block /\ block < c /\ c \in F \cup {pxEnd}
  BY LastBeforeFound
<1>2. PICK p : p = before
  OBVIOUS
<1>3. PICK d : d = c
  OBVIOUS
<1>4. Between(next, F, p, block, d)
  BY <1>1, <1>2, <1>3 DEF Between
<1>5. LastBefore(h, block) = p /\ next[p] = d
  BY <1>2, <1>3
<1> HIDE DEF before, c
<1>6. /\ size \in [D -> Nat] /\ next \in [D -> Int]
      /\ DOMAIN size = D /\ DOMAIN next = D /\ h.size = size /\ h.next = next
      /\ F \subseteq B
  BY DEF Layout
<1>7. /\ p \in D /\ block \in D /\ d \in D /\ p # block /\ d # block /\ d # p
      /\ p \in Int /\ block \in Int /\ d \in Int /\ p # pxEnd /\ d # xStart
      /\ p # pxEnd /\ xStart # pxEnd /\ block # xStart /\ block # pxEnd
      /\ (d # pxEnd => d \in F) /\ (p \in F \/ p = xStart)
      /\ \A b \in B : b # xStart /\ b # pxEnd /\ b > xStart
      /\ xStart + size[xStart] = xStart
  <2>1. /\ pxEnd \in Nat /\ xStart = -1 /\ xStart # pxEnd /\ \A b \in B : b \in Nat /\ b # xStart /\ b # pxEnd /\ b > xStart
    BY BlocksFinite, HeapPlace DEF Layout
  <2>2. p \in F \cup {xStart} /\ d \in F \cup {pxEnd} /\ p < block /\ block < d
    BY <1>4 DEF Between
  <2>3. size[xStart] = 0
    BY DEF Layout
  <2> QED BY <1>6, <2>1, <2>2, <2>3 DEF HeadersOf
<1> DEFINE next1 == [next EXCEPT ![block] = d, ![p] = block]
           F1 == F \cup {block}
<1>8. Placed(next, B, p, block, d, next1)
  BY <1>6, <1>7 DEF Placed
<1> HIDE DEF next1
<1>9. /\ Layout(size, next1, B, F1)
      /\ \A f, g : Touch(size, F1, f, g) => (f = p /\ g = block) \/ (f = block /\ g = d)
      /\ SumOver(size, F1) = SumOver(size, F) + size[block]
  <2>1. Layout(size, next, B, F) /\ Apart(size, F) /\ block \in B \ F
    OBVIOUS
  <2> QED BY ONLY <1>4, <1>8, <2>1, PlaceBlock
<1>10. next1[p] = block /\ next1[block] = d /\ \A x \in D \ {p, block} : next1[x] = next[x]
  BY <1>7, <1>8 DEF Placed
<1>11. next1 \in [D -> Int] /\ \A x \in D : size[x] \in Nat
  BY <1>6, <1>8 DEF Placed
<1>12. block \in F1 /\ block \notin F /\ F1 \subseteq B /\ block \in B /\ d # block
  BY <1>6, <1>7
\* Nothing is merged.
<1>13. CASE p + size[p] # block /\ ~ (block + size[block] = d /\ d # pxEnd)
  <2>1. result = [size |-> size, next |-> next1]
    BY <1>5, <1>13 DEF prvInsertBlockIntoFreeList, MergeWithNext, next1
  <2>2. Apart(size, F1)
    <3> SUFFICES ASSUME NEW f, NEW g, Touch(size, F1, f, g) PROVE FALSE
      BY DEF Apart, Touch
    <3>1. (f = p /\ g = block) \/ (f = block /\ g = d)
      BY <1>9
    <3>2. d \in F1 => d # pxEnd
      BY <1>7, <1>12
    <3> QED BY <1>13, <3>1, <3>2 DEF Touch
  <2>3. Inserted(size, B, F, block, result, B, F1)
    <3>1. result.size = size /\ result.next = next1
      BY <2>1
    <3> HIDE DEF result
    <3> QED BY <1>9, <2>2, <3>1 DEF Inserted
  <2> QED BY <2>3
\* The block takes in the one after it.
<1>14. CASE p + size[p] # block /\ block + size[block] = d /\ d # pxEnd
  <2> DEFINE size2 == Restrict([size EXCEPT ![block] = @ + size[d]], D \ {d})
             next2 == [Restrict([next EXCEPT ![block] = next[d]], D \ {d}) EXCEPT ![p] = block]
  <2>1. result = [size |-> size2, next |-> next2]
    BY <1>5, <1>6, <1>14 DEF prvInsertBlockIntoFreeList, MergeWithNext, Absorb
  <2>2. d \in F /\ HeadersOf(B \ {d}) = D \ {d}
    BY <1>6, <1>7, <1>14 DEF HeadersOf
  <2>3. Joined(size, next1, B, block, d, size2, next2)
    <3>1. size2 \in [D \ {d} -> Nat] /\ \A z \in D \ {d} : size2[z] = IF z = block THEN size[block] + size[d] ELSE size[z]
      BY <1>6, <1>7, <1>11 DEF Restrict
    <3>2. next2 \in [D \ {d} -> Int] /\ \A z \in D \ {d} : next2[z] = IF z = p THEN block ELSE IF z = block THEN next[d] ELSE next[z]
      BY <1>6, <1>7 DEF Restrict
    <3> HIDE DEF size2, next2
    <3> QED BY <1>7, <1>10, <2>2, <3>1, <3>2 DEF Joined
  <2> HIDE DEF size2, next2
  <2>4. Touch(size, F1, block, d)
    BY <1>12, <1>14, <2>2 DEF Touch
  <2>5. d = next1[block]
    BY <1>10
  <2>6. /\ Layout(size2, next2, B \ {d}, F1 \ {d})
        /\ \A f, g : Touch(size2, F1 \ {d}, f, g)
                       => \/ Touch(size, F1, f, g) /\ f # block
                          \/ f = block /\ Touch(size, F1, d, g)
        /\ SumOver(size2, F1 \ {d}) = SumOver(size, F1)
    <3> HIDE DEF F1
    <3> QED BY ONLY <1>9, <2>3, <2>4, <2>5, JoinBlocks
  <2>7. Apart(size2, F1 \ {d})
    <3> SUFFICES ASSUME NEW f, NEW g, Touch(size2, F1 \ {d}, f, g) PROVE FALSE
      BY DEF Apart, Touch
    <3>1. \/ Touch(size, F1, f, g) /\ f # block
          \/ Touch(size, F1, d, g)
      BY <2>6
    <3>2. ~ Touch(size, F1, d, g)
      BY <1>7, <1>9
    <3>3. f = p /\ g = block
      BY <1>9, <3>1, <3>2
    <3> QED BY <1>14, <3>1, <3>2, <3>3 DEF Touch
  <2>8. Inserted(size, B, F, block, result, B \ {d}, F1 \ {d})
    <3>1. result.size = size2 /\ result.next = next2
      BY <2>1
    <3>2. (B \ {d}) \ (F1 \ {d}) = (B \ F) \ {block} /\ B \ {d} \subseteq B
      BY <2>2
    <3>3. \A b \in (B \ {d}) \ (F1 \ {d}) : size2[b] = size[b]
      BY <2>2, <2>3 DEF Joined, HeadersOf
    <3> HIDE DEF result
    <3> QED BY <1>9, <2>6, <2>7, <3>1, <3>2, <3>3 DEF Inserted
  <2> QED BY <2>8
\* The block before it takes it in.
<1>15. ASSUME p + size[p] = block
       PROVE  LET size2 == Restrict([size EXCEPT ![p] = @ + size[block]], D \ {block})
                  next2 == [Restrict([next EXCEPT ![p] = next[block]], D \ {block}) EXCEPT ![p] = d]
              IN  /\ result = MergeWithNext([size |-> size2, next |-> next2], p, d)
                  /\ p \in F
                  /\ HeadersOf(B \ {block}) = D \ {block} /\ F1 \ {block} = F
                  /\ Joined(size, next1, B, p, block, size2, next2)
                  /\ Layout(size2, next2, B \ {block}, F)
                  /\ SumOver(size2, F) = SumOver(size, F1)
                  /\ \A f, g : Touch(size2, F, f, g) => f = p /\ g = d
  <2> DEFINE size2 == Restrict([size EXCEPT ![p] = @ + size[block]], D \ {block})
             next2 == [Restrict([next EXCEPT ![p] = next[block]], D \ {block}) EXCEPT ![p] = d]
  <2>1. result = MergeWithNext([size |-> size2, next |-> next2], p, d)
    <3>1. [Absorb(h, p, block) EXCEPT !.next[p] = d] = [size |-> size2, next |-> next2]
      <4>1. Absorb(h, p, block) = [size |-> size2, next |-> Restrict([next EXCEPT ![p] = next[block]], D \ {block})]
        BY <1>6 DEF Absorb
      <4>2. PICK n : n = Restrict([next EXCEPT ![p] = next[block]], D \ {block})
        OBVIOUS
      <4>3. next2 = [n EXCEPT ![p] = d]
        BY <4>2
      <4> HIDE DEF size2, next2, D, h
      <4>4. Absorb(h, p, block) = [size |-> size2, next |-> n]
        BY <4>1, <4>2
      <4>5. [Absorb(h, p, block) EXCEPT !.next[p] = d]
              = [[size |-> size2, next |-> n] EXCEPT !.next[p] = d]
        BY ONLY <4>4, Zenon
      <4>6. [[size |-> size2, next |-> n] EXCEPT !.next[p] = d] = [size |-> size2, next |-> [n EXCEPT ![p] = d]]
        BY ONLY SetNext
      <4> QED BY <4>3, <4>5, <4>6
    <3> QED BY <1>5, <1>6, <1>15, <3>1 DEF prvInsertBlockIntoFreeList
  <2>2. p \in F
    BY <1>7, <1>15
  <2>3. HeadersOf(B \ {block}) = D \ {block} /\ F1 \ {block} = F
    BY <1>7, <1>12 DEF HeadersOf
  <2>4. Joined(size, next1, B, p, block, size2, next2)
    <3>1. size2 \in [D \ {block} -> Nat] /\ \A z \in D \ {block} : size2[z] = IF z = p THEN size[p] + size[block] ELSE size[z]
      BY <1>6, <1>7, <1>11 DEF Restrict
    <3>2. next2 \in [D \ {block} -> Int] /\ \A z \in D \ {block} : next2[z] = IF z = p THEN d ELSE next[z]
      BY <1>6, <1>7 DEF Restrict
    <3> HIDE DEF size2, next2
    <3> QED BY <1>7, <1>10, <2>3, <3>1, <3>2 DEF Joined
  <2> HIDE DEF size2, next2
  <2>5. Touch(size, F1, p, block) /\ block = next1[p]
    BY <1>10, <1>12, <1>15, <2>2 DEF Touch
  <2>6. /\ Layout(size2, next2, B \ {block}, F1 \ {block})
        /\ \A f, g : Touch(size2, F1 \ {block}, f, g)
                       => \/ Touch(size, F1, f, g) /\ f # p
                          \/ f = p /\ Touch(size, F1, block, g)
        /\ SumOver(size2, F1 \ {block}) = SumOver(size, F1)
    <3> HIDE DEF F1
    <3> QED BY ONLY <1>9, <2>4, <2>5, JoinBlocks
  <2>7. \A f, g : Touch(size2, F, f, g) => f = p /\ g = d
    <3> SUFFICES ASSUME NEW f, NEW g, Touch(size2, F, f, g) PROVE f = p /\ g = d
      OBVIOUS
    <3>1. \/ Touch(size, F1, f, g) /\ f # p
          \/ f = p /\ Touch(size, F1, block, g)
      BY <2>3, <2>6
    <3>2. f \in F
      BY DEF Touch
    <3>3. ~ (Touch(size, F1, f, g) /\ f # p)
      BY <1>9, <1>12, <3>2
    <3> QED BY <1>7, <1>9, <3>1, <3>3
  <2> QED BY <2>1, <2>2, <2>3, <2>4, <2>6, <2>7 DEF size2, next2
<1>16. CASE p + size[p] = block
  <2>1. PICK size2, next2 :
          /\ result = MergeWithNext([size |-> size2, next |-> next2], p, d)
          /\ p \in F
          /\ HeadersOf(B \ {block}) = D \ {block} /\ F1 \ {block} = F
          /\ Joined(size, next1, B, p, block, size2, next2)
          /\ Layout(size2, next2, B \ {block}, F)
          /\ SumOver(size2, F) = SumOver(size, F1)
          /\ \A f, g : Touch(size2, F, f, g) => f = p /\ g = d
    <3> HIDE DEF result, D, F1
    <3> QED BY <1>15, <1>16
  <2> DEFINE B1 == B \ {block}
  <2>2. /\ size2 \in [HeadersOf(B1) -> Nat] /\ next2 \in [HeadersOf(B1) -> Int]
        /\ DOMAIN size2 = HeadersOf(B1) /\ DOMAIN next2 = HeadersOf(B1)
        /\ p \in HeadersOf(B1) /\ d \in HeadersOf(B1) /\ next2[p] = d
        /\ \A b \in HeadersOf(B1) : b # p => size2[b] = size[b]
    <3>1. size2 \in [HeadersOf(B1) -> Nat] /\ next2 \in [HeadersOf(B1) -> Int]
      BY <2>1 DEF Joined
    <3>2. p \in HeadersOf(B1) /\ d \in HeadersOf(B1)
      BY <1>7, <2>1
    <3> QED BY <1>10, <2>1, <3>1, <3>2 DEF Joined
  \* And no more.
  <2>3. CASE ~ (p + size2[p] = d /\ d # pxEnd)
    <3>1. result = [size |-> size2, next |-> next2]
      <4>1. [next2 EXCEPT ![p] = d] = next2
        BY <2>2
      <4> HIDE DEF result
      <4> QED BY <2>1, <2>3, <4>1 DEF MergeWithNext
    <3>2. Apart(size2, F)
      <4> SUFFICES ASSUME NEW f, NEW g, Touch(size2, F, f, g) PROVE FALSE
        BY DEF Apart, Touch
      <4>1. f = p /\ g = d /\ g \in F /\ g # pxEnd
        BY <1>6, <1>7, <2>1 DEF Touch
      <4> QED BY <2>3, <4>1 DEF Touch
    <3>3. Inserted(size, B, F, block, result, B1, F)
      <4>1. result.size = size2 /\ result.next = next2
        BY <3>1
      <4>2. B1 \subseteq B /\ B1 \ F = (B \ F) \ {block}
        OBVIOUS
      <4>3. \A b \in B1 \ F : size2[b] = size[b]
        BY <2>1, <2>2 DEF HeadersOf
      <4>4. SumOver(size2, F) = SumOver(size, F) + size[block]
        BY <1>9, <2>1
      <4> HIDE DEF result, B1
      <4> QED BY <2>1, <3>2, <4>1, <4>2, <4>3, <4>4 DEF Inserted, B1
    <3> QED BY <3>3
  \* And this takes in the one after it.
  <2>4. CASE p + size2[p] = d /\ d # pxEnd
    <3> DEFINE size3 == Restrict([size2 EXCEPT ![p] = @ + size2[d]], HeadersOf(B1) \ {d})
               next3 == Restrict([next2 EXCEPT ![p] = next2[d]], HeadersOf(B1) \ {d})
    <3>1. result = [size |-> size3, next |-> next3]
      <4> HIDE DEF result
      <4> QED BY <2>1, <2>2, <2>4 DEF MergeWithNext, Absorb
    <3>2. d \in F /\ HeadersOf(B1 \ {d}) = HeadersOf(B1) \ {d}
      BY <1>6, <1>7, <2>4 DEF HeadersOf
    <3>3. Joined(size2, next2, B1, p, d, size3, next3)
      <4> HIDE DEF B1
      <4>1. /\ size3 \in [HeadersOf(B1) \ {d} -> Nat]
            /\ \A z \in HeadersOf(B1) \ {d} : size3[z] = IF z = p THEN size2[p] + size2[d] ELSE size2[z]
        BY <1>7, <2>2 DEF Restrict
      <4>2. /\ next3 \in [HeadersOf(B1) \ {d} -> Int]
            /\ \A z \in HeadersOf(B1) \ {d} : next3[z] = IF z = p THEN next2[d] ELSE next2[z]
        BY <1>7, <2>2 DEF Restrict
      <4> HIDE DEF size3, next3
      <4> QED BY <3>2, <4>1, <4>2 DEF Joined
    <3> HIDE DEF size3, next3
    <3>4. Touch(size2, F, p, d) /\ d = next2[p] /\ Layout(size2, next2, B1, F)
      BY <2>1, <2>2, <2>4, <3>2 DEF Touch
    <3>5. /\ Layout(size3, next3, B1 \ {d}, F \ {d})
          /\ \A f, g : Touch(size3, F \ {d}, f, g)
                         => \/ Touch(size2, F, f, g) /\ f # p
                            \/ f = p /\ Touch(size2, F, d, g)
          /\ SumOver(size3, F \ {d}) = SumOver(size2, F)
      BY ONLY <3>3, <3>4, JoinBlocks
    <3>6. Apart(size3, F \ {d})
      <4> SUFFICES ASSUME NEW f, NEW g, Touch(size3, F \ {d}, f, g) PROVE FALSE
        BY DEF Apart, Touch
      <4> QED BY <1>7, <2>1, <3>5
    <3>7. Inserted(size, B, F, block, result, B1 \ {d}, F \ {d})
      <4>1. result.size = size3 /\ result.next = next3
        BY <3>1
      <4>2. B1 \ {d} \subseteq B /\ (B1 \ {d}) \ (F \ {d}) = (B \ F) \ {block}
        BY <3>2
      <4>3. \A b \in (B1 \ {d}) \ (F \ {d}) : size3[b] = size[b]
        <5> SUFFICES ASSUME NEW b \in (B1 \ {d}) \ (F \ {d}) PROVE size3[b] = size[b]
          OBVIOUS
        <5>1. b \in HeadersOf(B1 \ {d}) /\ b \in HeadersOf(B1) /\ b # p
          BY <2>1, <3>2 DEF HeadersOf
        <5> QED BY <2>2, <3>3, <5>1 DEF Joined
      <4>4. SumOver(size3, F \ {d}) = SumOver(size, F) + size[block]
        BY <1>9, <2>1, <3>5
      <4> HIDE DEF result, B1
      <4> QED BY <3>5, <3>6, <4>1, <4>2, <4>3, <4>4 DEF Inserted
    <3> QED BY <3>7
  <2> QED BY <2>3, <2>4
<1> QED BY <1>13, <1>14, <1>16

-----------------------------------------------------------------------------
(* The search of pvPortMalloc.                                             *)

\* It passes free blocks that are too small, and ends before one that is not or at the
\* end of the list.
LEMMA PreviousFound ==
  ASSUME Layout(xBlockSize, pxNextFreeBlock, Blocks, Free), NEW wanted \in Int
  PROVE  LET previous == Previous(wanted)
             block == pxNextFreeBlock[previous]
         IN  /\ previous \in Free \cup {xStart} /\ block \in Free \cup {pxEnd}
             /\ \A f \in Free : f <= previous => xBlockSize[f] < wanted
             /\ block # pxEnd => ~ (xBlockSize[block] < wanted)
<1> DEFINE size == xBlockSize
           next == pxNextFreeBlock
           B == Blocks
           F == Free
           N == HaveNext(next)
           goes == {n \in N : size[next[n]] < wanted /\ next[next[n]] # NULL}
           w == CHOOSE u : u = [n \in N |->
                  IF size[next[n]] < wanted /\ next[next[n]] # NULL THEN u[next[n]] ELSE n]
           P == {n \in F \cup {xStart} : \A f \in F : f <= n => size[f] < wanted}
           previous == Previous(wanted)
<1>1. /\ next \in [HeadersOf(B) -> Int] /\ F \subseteq B /\ Tiled(size, B) /\ Ordered(next, F)
      /\ next[pxEnd] = NULL /\ \A b \in B \ F : next[b] = NULL
  BY DEF Layout
<1>2. /\ pxEnd \in Nat /\ NULL \in Int /\ NULL < xStart /\ xStart \in Int /\ xStart < pxEnd
      /\ \A f \in B : f \in Nat /\ f < pxEnd /\ xStart < f
  BY <1>1, BlocksFinite, HeapPlace
<1>3. \A f \in F \cup {xStart} : /\ next[f] \in F \cup {pxEnd} /\ f < next[f]
                                 /\ \A o \in F : ~ (f < o /\ o < next[f])
  BY <1>1 DEF Ordered
<1>4. N = F \cup {xStart}
  <2>1. \A f \in F \cup {xStart} : next[f] # NULL /\ f \in HeadersOf(B)
    BY <1>1, <1>2, <1>3 DEF HeadersOf
  <2>2. \A n \in HeadersOf(B) : n \notin F \cup {xStart} => next[n] = NULL
    BY <1>1 DEF HeadersOf
  <2>3. DOMAIN next = HeadersOf(B)
    BY <1>1
  <2> QED BY <2>1, <2>2, <2>3 DEF HaveNext
<1>5. previous = w[xStart]
  BY DEF Previous
<1> HIDE DEF previous
<1>6. ASSUME NEW n \in P \cap goes PROVE next[n] \in P /\ next[n] > n
  <2>1. n \in F \cup {xStart} /\ size[next[n]] < wanted /\ next[next[n]] # NULL
        /\ next[n] \in F \cup {pxEnd} /\ n < next[n]
    BY <1>3, <1>4
  <2>2. next[n] \in F
    BY <1>1, <2>1
  <2>3. ASSUME NEW f \in F, f <= next[n] PROVE size[f] < wanted
    <3>1. f \in Int /\ n \in Int /\ next[n] \in Int
      BY <1>1, <1>2, <2>1, <2>2
    <3>2. f <= n \/ f = next[n]
      BY <1>3, <2>1, <2>3, <3>1
    <3> QED BY <2>1, <3>2
  <2>4. F \subseteq Int /\ xStart \in Int
    BY <1>1, <1>2
  <2> QED BY <2>1, <2>2, <2>3, <2>4
<1>7. Climbs(P, pxEnd, N, next, goes) /\ xStart \in P
  <2>1. \A n \in N : n \in Int /\ n <= pxEnd
    <3>1. \A n \in F \cup {xStart} : n \in Int /\ n <= pxEnd
      BY <1>1, <1>2
    <3> HIDE DEF N
    <3> QED BY <1>4, <3>1
  <2>2. P \subseteq N /\ xStart \in P
    <3>1. \A f \in F : ~ (f <= xStart)
      BY <1>1, <1>2
    <3> QED BY <1>4, <3>1
  <2>3. goes \subseteq N /\ pxEnd \in Int
    BY <1>2
  <2> HIDE DEF N, goes, P
  <2> QED BY <1>6, <2>1, <2>2, <2>3 DEF Climbs
<1>8. IsLoop(w, N, next, goes)
  <2>1. \A u : IsLoop(u, N, next, goes)
                 <=> u = [n \in N |-> IF size[next[n]] < wanted /\ next[next[n]] # NULL
                                        THEN u[next[n]] ELSE n]
    BY DEF IsLoop
  <2>2. goes \in SUBSET N /\ \A n \in goes : next[n] \in N
    <3> SUFFICES ASSUME NEW n \in goes PROVE next[n] \in N
      OBVIOUS
    <3>1. n \in F \cup {xStart} /\ next[next[n]] # NULL
      BY <1>4
    <3> QED BY <1>1, <1>3, <1>4, <3>1
  <2>3. \E u : IsLoop(u, N, next, goes)
    <3> HIDE DEF goes, N
    <3> QED BY <2>2, LoopExists
  <2>4. \E u : u = [n \in N |-> IF size[next[n]] < wanted /\ next[next[n]] # NULL
                                  THEN u[next[n]] ELSE n]
    BY <2>1, <2>3
  <2>5. w = [n \in N |-> IF size[next[n]] < wanted /\ next[next[n]] # NULL
                           THEN w[next[n]] ELSE n]
    <3> HIDE DEF N
    <3> QED BY <2>4, Zenon
  <2> HIDE DEF w
  <2> QED BY <2>1, <2>5
<1>9. w[xStart] \in P \ goes
  <2> HIDE DEF goes, N, P, w
  <2> QED BY ONLY <1>7, <1>8, LoopEnds
<1>10. /\ previous \in F \cup {xStart} /\ next[previous] \in F \cup {pxEnd}
       /\ \A f \in F : f <= previous => size[f] < wanted
       /\ ~ (size[next[previous]] < wanted /\ next[next[previous]] # NULL)
  BY <1>3, <1>4, <1>5, <1>9
<1>11. next[previous] # pxEnd => next[next[previous]] # NULL
  <2>1. \A f \in F : next[f] # NULL
    <3>1. F \subseteq Int
      BY <1>1, <1>2
    <3> QED BY <1>1, <1>2, <1>3, <3>1
  <2> QED BY <1>10, <2>1
<1> QED BY <1>10, <1>11 DEF previous

-----------------------------------------------------------------------------
(* The inductive invariant.                                                *)

HeapInv ==
  /\ Layout(xBlockSize, pxNextFreeBlock, Blocks, Free)
  /\ Apart(xBlockSize, Free)
  /\ allocated \cup freeing \subseteq Blocks /\ allocated \cap freeing = {}
  /\ xFreeBytesRemaining = SumOver(xBlockSize, Free)

\* Which blocks are free follows from which are not.
LEMMA BlocksOf ==
  ASSUME NEW size, NEW next, NEW B, NEW F, Layout(size, next, B, F), NEW used, B \ F = used
  PROVE  DOMAIN size \ {xStart, pxEnd} = B /\ B \ used = F
<1>1. DOMAIN size = B \cup {xStart, pxEnd} /\ F \subseteq B
  BY DEF Layout, HeadersOf
<1>2. \A b \in B : b # xStart /\ b # pxEnd
  BY BlocksFinite DEF Layout
<1> QED BY <1>1, <1>2

\* The invariant of the state after a step, from its blocks.
LEMMA HeapInvAfter ==
  ASSUME NEW B, NEW F, Layout(xBlockSize', pxNextFreeBlock', B, F), Apart(xBlockSize', F),
         B \ F = allocated' \cup freeing', allocated' \cap freeing' = {},
         xFreeBytesRemaining' = SumOver(xBlockSize', F)
  PROVE  HeapInv'
<1>1. Blocks' = B /\ Free' = F
  <2>1. PICK size, next, used : size = xBlockSize' /\ next = pxNextFreeBlock' /\ used = allocated' \cup freeing'
    OBVIOUS
  <2>2. Layout(size, next, B, F) /\ B \ F = used
    BY <2>1
  <2>3. DOMAIN size \ {xStart, pxEnd} = B /\ B \ used = F
    BY ONLY <2>2, BlocksOf
  <2> QED BY <2>1, <2>3 DEF Blocks, Free
<1>2. F \subseteq B
  BY DEF Layout
<1> QED BY <1>1, <1>2 DEF HeapInv

LEMMA HeapInvInit == HeapInit => HeapInv
<1> SUFFICES ASSUME HeapInit PROVE HeapInv
  OBVIOUS
<1> DEFINE a == pucAlignedHeap
           F == {a}
<1>1. /\ a \in Nat /\ pxEnd \in Nat /\ xStart = -1 /\ NULL = -2 /\ xHeapStructSize \in Nat
      /\ pxEnd - a > xHeapStructSize
      /\ a % portBYTE_ALIGNMENT = 0
  BY HeapPlace
<1> HIDE DEF a
<1>2. /\ xBlockSize = [h \in {xStart, a, pxEnd} |-> IF h = a THEN pxEnd - a ELSE 0]
      /\ pxNextFreeBlock = [h \in {xStart, a, pxEnd} |->
                              CASE h = xStart -> a [] h = pxEnd -> NULL [] OTHER -> pxEnd]
      /\ allocated = {} /\ freeing = {} /\ xFreeBytesRemaining = pxEnd - a
  BY DEF HeapInit, a
<1>3. xStart # a /\ xStart # pxEnd /\ a # pxEnd /\ pxEnd - a \in Nat
  BY <1>1
<1>4. /\ xBlockSize[a] = pxEnd - a /\ xBlockSize[xStart] = 0 /\ xBlockSize[pxEnd] = 0
      /\ pxNextFreeBlock[xStart] = a /\ pxNextFreeBlock[a] = pxEnd /\ pxNextFreeBlock[pxEnd] = NULL
  BY <1>2, <1>3
<1>5. Blocks = {a} /\ Free = {a} /\ HeadersOf({a}) = {xStart, a, pxEnd}
  BY <1>2, <1>3 DEF Blocks, Free, HeadersOf
<1>6. Tiled(xBlockSize, {a})
  <2>1. a \in a .. pxEnd - 1 /\ a + (pxEnd - a) = pxEnd /\ ~ (a < a)
    BY <1>1
  <2>2. \A b \in {a} : /\ b % portBYTE_ALIGNMENT = 0 /\ xBlockSize[b] \in Nat /\ xBlockSize[b] > xHeapStructSize
                       /\ b + xBlockSize[b] \in {a} \cup {pxEnd}
                       /\ \A o \in {a} : ~ (b < o /\ o < b + xBlockSize[b])
    BY <1>1, <1>3, <1>4, <2>1
  <2>3. pucAlignedHeap = a
    BY DEF a
  <2> QED BY <2>1, <2>2, <2>3 DEF Tiled
<1>7. Ordered(pxNextFreeBlock, {a})
  <2> SUFFICES ASSUME NEW f \in {a} \cup {xStart}
               PROVE  /\ pxNextFreeBlock[f] \in {a} \cup {pxEnd} /\ f < pxNextFreeBlock[f]
                      /\ \A o \in {a} : ~ (f < o /\ o < pxNextFreeBlock[f])
    BY DEF Ordered
  <2>1. xStart < a /\ a < pxEnd /\ ~ (a < a)
    BY <1>1
  <2> QED BY <1>4, <2>1
<1>8. Layout(xBlockSize, pxNextFreeBlock, {a}, {a})
  <2>1. xBlockSize \in [{xStart, a, pxEnd} -> Nat]
    BY <1>2, <1>3
  <2>2. pxNextFreeBlock \in [{xStart, a, pxEnd} -> Int]
    <3>1. \A h \in {xStart, a, pxEnd} : pxNextFreeBlock[h] \in Int
      BY <1>1, <1>4
    <3> QED BY <1>2, <3>1
  <2> QED BY <1>4, <1>5, <1>6, <1>7, <2>1, <2>2 DEF Layout
<1>9. Apart(xBlockSize, {a})
  BY <1>1, <1>4 DEF Apart
<1>10. SumOver(xBlockSize, {a}) = pxEnd - a
  <2>1. IsFiniteSet({a}) /\ {a} \ {a} = {}
    BY FS_Singleton
  <2>2. SumOver(xBlockSize, {a}) = xBlockSize[a] + SumOver(xBlockSize, {a} \ {a})
    BY <1>3, <1>4, <2>1, SumAny
  <2> QED BY <1>3, <1>4, <2>1, <2>2, SumEmpty
<1> QED BY <1>2, <1>5, <1>8, <1>9, <1>10 DEF HeapInv

\* The block that follows previous leaves the list.
Unlinked(next, B, previous, block, next1) ==
  /\ next1 \in [HeadersOf(B) -> Int]
  /\ \A x \in HeadersOf(B) :
       next1[x] = IF x = block THEN NULL ELSE IF x = previous THEN next[block] ELSE next[x]

\* pvPortMalloc takes a block off the list, and cuts what it does not need from it.
LEMMA TakeBlock ==
  ASSUME NEW size, NEW next, NEW B, NEW F, Layout(size, next, B, F), Apart(size, F),
         NEW previous \in F \cup {xStart}, NEW block \in F, block = next[previous],
         NEW next1, Unlinked(next, B, previous, block, next1)
  PROVE  /\ Layout(size, next1, B, F \ {block}) /\ Apart(size, F \ {block})
         /\ SumOver(size, F) = size[block] + SumOver(size, F \ {block})
         /\ SumOver(size, F \ {block}) \in Int
<1>1. /\ size \in [HeadersOf(B) -> Nat] /\ next \in [HeadersOf(B) -> Int]
      /\ F \subseteq B /\ Tiled(size, B) /\ Ordered(next, F)
      /\ size[xStart] = 0 /\ size[pxEnd] = 0
      /\ next[pxEnd] = NULL /\ \A b \in B \ F : next[b] = NULL
  BY DEF Layout
<1>2. /\ IsFiniteSet(F) /\ pxEnd # xStart /\ \A b \in B : b \in Nat /\ b # xStart /\ b # pxEnd
      /\ xStart \in Int /\ NULL \in Int
  <2>1. IsFiniteSet(F)
    BY <1>1, BlocksFinite, FS_Subset
  <2> QED BY <1>1, <2>1, BlocksFinite, HeapPlace
<1>3. block # previous
  <2>1. previous < next[previous] /\ previous \in Int
    BY <1>1, <1>2 DEF Ordered
  <2> QED BY <2>1
<1>4. /\ next1 \in [HeadersOf(B) -> Int] /\ next1[previous] = next[block] /\ next1[block] = NULL
      /\ \A x \in HeadersOf(B) \ {previous, block} : next1[x] = next[x]
  <2>1. previous \in HeadersOf(B) /\ block \in HeadersOf(B)
    BY <1>1 DEF HeadersOf
  <2> QED BY <1>3, <2>1 DEF Unlinked
<1>5. Ordered(next1, F \ {block})
  <2>1. \A f \in (F \cup {xStart}) \ {block} : f # previous => next1[f] = next[f]
    BY <1>1, <1>4 DEF HeadersOf
  <2>2. block = next[previous] /\ block \in F /\ previous \in F \cup {xStart}
    OBVIOUS
  <2> QED BY ONLY <1>1, <1>4, <2>1, <2>2, ListDelete
<1>6. Layout(size, next1, B, F \ {block})
  <2>1. next1[pxEnd] = NULL
    BY <1>1, <1>2, <1>4 DEF HeadersOf
  <2>2. \A b \in B \ (F \ {block}) : next1[b] = NULL
    BY <1>1, <1>2, <1>4 DEF HeadersOf
  <2>3. F \ {block} \subseteq B
    BY <1>1
  <2> QED BY <1>1, <1>4, <1>5, <2>1, <2>2, <2>3 DEF Layout
<1>7. Apart(size, F \ {block})
  BY DEF Apart
<1>8. IsFiniteSet(F \ {block}) /\ \A f \in F : size[f] \in Int
  <2>1. \A f \in F : size[f] \in Nat
    BY <1>1 DEF Tiled
  <2> QED BY <1>2, <2>1, FS_RemoveElement
<1>9. SumOver(size, F) = size[block] + SumOver(size, F \ {block})
  BY <1>2, <1>8, SumAny
<1>10. SumOver(size, F \ {block}) \in Int
  <2>1. \A f \in F \ {block} : size[f] \in Int
    BY <1>8
  <2> QED BY <1>8, <2>1, SumAny
<1> QED BY <1>6, <1>7, <1>9, <1>10

\* The headers, when a block that is not on the list has been cut in two.
Cut(size, next, B, block, wanted, size2, next2) ==
  /\ wanted \in Nat /\ wanted % portBYTE_ALIGNMENT = 0 /\ wanted > xHeapStructSize
  /\ size[block] - wanted > xHeapStructSize
  /\ size2 \in [HeadersOf(B \cup {block + wanted}) -> Nat]
  /\ next2 \in [HeadersOf(B \cup {block + wanted}) -> Int]
  /\ size2[block] = wanted /\ size2[block + wanted] = size[block] - wanted
  /\ next2[block + wanted] = NULL
  /\ \A x \in HeadersOf(B) :
       (x # block /\ x # block + wanted => size2[x] = size[x])
       /\ (x # block + wanted => next2[x] = next[x])

LEMMA CutBlock ==
  ASSUME NEW size, NEW next, NEW B, NEW F, Layout(size, next, B, F), Apart(size, F),
         NEW block \in B \ F, NEW wanted, NEW size2, NEW next2,
         Cut(size, next, B, block, wanted, size2, next2)
  PROVE  /\ Layout(size2, next2, B \cup {block + wanted}, F) /\ Apart(size2, F)
         /\ SumOver(size2, F) = SumOver(size, F)
         /\ block + wanted \notin B /\ block + wanted # block
<1> DEFINE r == block + wanted
<1>1. /\ size \in [HeadersOf(B) -> Nat] /\ next \in [HeadersOf(B) -> Int]
      /\ F \subseteq B /\ Tiled(size, B) /\ Ordered(next, F)
      /\ size[xStart] = 0 /\ size[pxEnd] = 0
      /\ next[pxEnd] = NULL /\ \A b \in B \ F : next[b] = NULL
  BY DEF Layout
<1>2. /\ IsFiniteSet(F) /\ \A b \in B : b \in Nat /\ b # xStart /\ b # pxEnd
  <2>1. IsFiniteSet(F)
    BY <1>1, BlocksFinite, FS_Subset
  <2> QED BY <1>1, <2>1, BlocksFinite
<1>3. /\ wanted \in Nat /\ wanted % portBYTE_ALIGNMENT = 0 /\ wanted > xHeapStructSize
      /\ size[block] - wanted > xHeapStructSize
      /\ size2 \in [HeadersOf(B \cup {r}) -> Nat] /\ next2 \in [HeadersOf(B \cup {r}) -> Int]
      /\ size2[block] = wanted /\ size2[r] = size[block] - wanted /\ next2[r] = NULL
      /\ \A x \in HeadersOf(B) :
           (x # block /\ x # r => size2[x] = size[x]) /\ (x # r => next2[x] = next[x])
  BY DEF Cut
<1>4. block + wanted \notin B
  <2>1. block \in Nat /\ size[block] \in Nat /\ block < block + wanted /\ block + wanted < block + size[block]
    <3>1. block \in Nat /\ size[block] \in Nat /\ xHeapStructSize \in Nat
      BY <1>1, <1>2, HeapPlace DEF Tiled
    <3> QED BY <1>3, <3>1
  <2>2. \A o \in B : ~ (block < o /\ o < block + size[block])
    BY <1>1 DEF Tiled
  <2> QED BY <2>1, <2>2
<1>5. Tiled(size2, B \cup {block + wanted})
  <2>1. \A x \in B \ {block} : size2[x] = size[x]
    BY <1>3, <1>4 DEF HeadersOf
  <2>2. /\ block \in B /\ wanted \in Nat /\ wanted % portBYTE_ALIGNMENT = 0 /\ wanted > xHeapStructSize
        /\ size[block] - wanted > xHeapStructSize
        /\ size2[block] = wanted /\ size2[block + wanted] = size[block] - wanted
    BY <1>3
  <2> QED BY ONLY <1>1, <2>1, <2>2, TileSplit
<1> HIDE DEF r
<1>6. r \notin B /\ Tiled(size2, B \cup {r}) /\ block # r
  BY <1>4, <1>5 DEF r
<1>7. /\ r # xStart /\ r # pxEnd
  <2>1. r \in B \cup {r}
    OBVIOUS
  <2> QED BY <1>6, <2>1, BlocksFinite
<1>8. \A f \in F : size2[f] = size[f] /\ next2[f] = next[f]
  BY <1>1, <1>3, <1>6 DEF HeadersOf
<1>9. next2[xStart] = next[xStart] /\ next2[pxEnd] = next[pxEnd] /\ size2[xStart] = 0 /\ size2[pxEnd] = 0
  BY <1>1, <1>2, <1>3, <1>7 DEF HeadersOf
<1>10. Ordered(next2, F)
  BY <1>1, <1>8, <1>9 DEF Ordered
<1>11. \A b \in (B \cup {r}) \ F : next2[b] = NULL
  BY <1>1, <1>3, <1>6 DEF HeadersOf
<1>12. Layout(size2, next2, B \cup {r}, F)
  <2>1. F \subseteq B \cup {r}
    BY <1>1
  <2> QED BY <1>1, <1>3, <1>6, <1>9, <1>10, <1>11, <2>1 DEF Layout
<1>13. Apart(size2, F)
  BY <1>8 DEF Apart
<1>14. SumOver(size2, F) = SumOver(size, F)
  BY <1>2, <1>8, SumEqual
<1> QED BY <1>6, <1>12, <1>13, <1>14 DEF r

LEMMA WantedIs ==
  ASSUME NEW n \in Sizes
  PROVE  /\ WantedSize(n) \in Nat
         /\ WantedSize(n) # 0 =>
              /\ WantedSize(n) % portBYTE_ALIGNMENT = 0 /\ WantedSize(n) > xHeapStructSize
              /\ \A m \in Nat : m % portBYTE_ALIGNMENT = 0 /\ m < WantedSize(n) => m < n + xHeapStructSize
         /\ WantedSize(n) = 0 => n = 0 \/ n >= xBlockAllocatedBit
<1>1. n \in Nat /\ n + xHeapStructSize \in Nat /\ xHeapStructSize \in Nat /\ xBlockAllocatedBit \in Int
  BY HeapAssumption
<1>2. CASE n >= xBlockAllocatedBit \/ n = 0
  BY <1>2 DEF WantedSize
<1>3. CASE ~ (n >= xBlockAllocatedBit \/ n = 0)
  <2>1. WantedSize(n) = RoundUp(n + xHeapStructSize)
    BY <1>3 DEF WantedSize
  <2>2. /\ RoundUp(n + xHeapStructSize) \in Nat /\ RoundUp(n + xHeapStructSize) % portBYTE_ALIGNMENT = 0
        /\ n + xHeapStructSize <= RoundUp(n + xHeapStructSize)
        /\ \A m \in Nat : m % portBYTE_ALIGNMENT = 0 /\ m < RoundUp(n + xHeapStructSize)
                            => m < n + xHeapStructSize
    BY <1>1, RoundUpLeast
  <2> QED BY <1>1, <1>3, <2>1, <2>2
<1> QED BY <1>2, <1>3

LEMMA HeapInvMalloc ==
  ASSUME HeapInv, NEW n \in Sizes, pvPortMalloc(n)
  PROVE  HeapInv'
<1> DEFINE B == Blocks
           F == Free
           size == xBlockSize
           next == pxNextFreeBlock
           F1 == F \ {pxNextFreeBlock[Previous(WantedSize(n))]}
<1>1. /\ Layout(size, next, B, F) /\ Apart(size, F)
      /\ allocated \cup freeing \subseteq B /\ allocated \cap freeing = {}
      /\ xFreeBytesRemaining = SumOver(size, F)
      /\ F = B \ (allocated \cup freeing)
  BY DEF HeapInv, Free
<1>2. PICK wanted, previous, block : wanted = WantedSize(n) /\ previous = Previous(wanted) /\ block = next[previous]
  OBVIOUS
<1>3. /\ wanted # 0 /\ block # pxEnd
      /\ xBlockSize' = Taken(block, previous, wanted).size
      /\ pxNextFreeBlock' = Taken(block, previous, wanted).next
      /\ allocated' = allocated \cup {block} /\ freeing' = freeing
      /\ xFreeBytesRemaining' = xFreeBytesRemaining - Taken(block, previous, wanted).size[block]
  BY <1>2 DEF pvPortMalloc, Refused, BytesTaken
<1>4. /\ wanted \in Nat /\ wanted % portBYTE_ALIGNMENT = 0 /\ wanted > xHeapStructSize
  BY <1>2, <1>3, WantedIs
<1>5. previous \in F \cup {xStart} /\ block \in F /\ ~ (size[block] < wanted)
  BY <1>1, <1>2, <1>3, <1>4, PreviousFound
<1>6. /\ size \in [HeadersOf(B) -> Nat] /\ next \in [HeadersOf(B) -> Int] /\ F \subseteq B
      /\ previous \in HeadersOf(B) /\ block \in HeadersOf(B) /\ size[block] \in Nat
  <2>1. size \in [HeadersOf(B) -> Nat] /\ next \in [HeadersOf(B) -> Int] /\ F \subseteq B
    BY <1>1 DEF Layout
  <2> HIDE DEF B, F, size, next
  <2>2. previous \in HeadersOf(B) /\ block \in HeadersOf(B)
    BY <1>5, <2>1 DEF HeadersOf
  <2> QED BY <2>1, <2>2
<1> DEFINE next1 == [next EXCEPT ![previous] = next[block], ![block] = NULL]
           G == F \ {block}
           h == [Headers EXCEPT !.next[previous] = pxNextFreeBlock[block], !.next[block] = NULL]
<1>7. h = [size |-> size, next |-> next1]
  <2>1. Headers = [size |-> size, next |-> next]
    BY DEF Headers
  <2>2. PICK k : k = [next EXCEPT ![previous] = next[block]]
    OBVIOUS
  <2>3. next1 = [k EXCEPT ![block] = NULL]
    BY <2>2
  <2> HIDE DEF size, next, next1
  <2>4. [Headers EXCEPT !.next[previous] = next[block]] = [size |-> size, next |-> k]
    BY <2>1, <2>2, SetNext
  <2>5. [[size |-> size, next |-> k] EXCEPT !.next[block] = NULL]
          = [size |-> size, next |-> [k EXCEPT ![block] = NULL]]
    BY SetNext
  <2>6. h = [[Headers EXCEPT !.next[previous] = next[block]] EXCEPT !.next[block] = NULL]
    BY DEF next
  <2> HIDE DEF h
  <2>7. h = [[size |-> size, next |-> k] EXCEPT !.next[block] = NULL]
    BY ONLY <2>4, <2>6, Zenon
  <2> QED BY ONLY <2>3, <2>5, <2>7, Zenon
<1>8. /\ Layout(size, next1, B, G) /\ Apart(size, G)
      /\ SumOver(size, F) = size[block] + SumOver(size, G) /\ SumOver(size, G) \in Int
  <2>1. PICK m : m = next1
    OBVIOUS
  <2>2. Unlinked(next, B, previous, block, m)
    <3>1. NULL \in Int
      BY HeapPlace
    <3> HIDE DEF B, F, size, next
    <3> QED BY <1>6, <2>1, <3>1 DEF Unlinked
  <2> HIDE DEF next1, B, F, size, next
  <2> QED BY ONLY <1>1, <1>2, <1>5, <2>1, <2>2, TakeBlock
<1> HIDE DEF next1
\* The whole block.
<1>9. CASE ~ Splits(size[block] - wanted)
  <2>1. Taken(block, previous, wanted) = [size |-> size, next |-> next1]
    BY <1>7, <1>9 DEF Taken
  <2>2. /\ xBlockSize' = size /\ pxNextFreeBlock' = next1
        /\ xFreeBytesRemaining' = SumOver(size, G)
    <3>1. xBlockSize' = size /\ pxNextFreeBlock' = next1 /\ xFreeBytesRemaining' = xFreeBytesRemaining - size[block]
      BY <1>3, <2>1
    <3> HIDE DEF size, F
    <3> QED BY <1>1, <1>6, <1>8, <3>1
  <2>3. B \ G = allocated' \cup freeing' /\ allocated' \cap freeing' = {}
    BY <1>1, <1>3, <1>5, <1>6
  <2> HIDE DEF G, B, size
  <2>4. Layout(xBlockSize', pxNextFreeBlock', B, G) /\ Apart(xBlockSize', G)
    BY <1>8, <2>2
  <2>5. xFreeBytesRemaining' = SumOver(xBlockSize', G)
    BY <2>2
  <2> QED BY ONLY <2>3, <2>4, <2>5, HeapInvAfter
\* A part of it, and the rest goes back to the list.
<1>10. CASE Splits(size[block] - wanted)
  <2> DEFINE rest == block + wanted
             size2 == [x \in HeadersOf(B) \cup {rest} |->
                         CASE x = block -> wanted
                           [] x = rest -> size[block] - wanted
                           [] OTHER -> size[x]]
             next2 == [x \in HeadersOf(B) \cup {rest} |-> IF x = rest THEN NULL ELSE next1[x]]
             split == [size |-> size2, next |-> next2]
             result == prvInsertBlockIntoFreeList(split, rest)
             B1 == B \cup {rest}
  <2>1. Taken(block, previous, wanted) = result
    <3>1. /\ h.size = size /\ h.next = next1 /\ DOMAIN size = HeadersOf(B)
          /\ DOMAIN next1 = HeadersOf(B)
      <4>1. DOMAIN next1 = HeadersOf(B)
        BY <1>6 DEF next1
      <4> QED BY <1>6, <1>7, <4>1
    <3>2. Taken(block, previous, wanted) =
            prvInsertBlockIntoFreeList(
              [size |-> [x \in DOMAIN h.size \cup {rest} |->
                           CASE x = block -> wanted
                             [] x = rest -> h.size[block] - wanted
                             [] OTHER -> h.size[x]],
               next |-> [x \in DOMAIN h.next \cup {rest} |->
                           IF x = rest THEN NULL ELSE h.next[x]]], rest)
      BY <1>10 DEF Taken
    <3> HIDE DEF h, size
    <3> QED BY <3>1, <3>2
  <2>2. size[block] - wanted > xHeapStructSize /\ size[block] - wanted \in Nat
    <3> HIDE DEF size
    <3> QED BY <1>4, <1>6, <1>10, HeapPlace DEF Splits, heapMINIMUM_BLOCK_SIZE
  <2>3. Cut(size, next1, B, block, wanted, size2, next2)
    <3>1. HeadersOf(B1) = HeadersOf(B) \cup {rest}
      BY DEF HeadersOf
    <3>2. rest # block /\ NULL \in Int
      <4>1. block \in Nat
        BY <1>1, <1>5, <1>6, BlocksFinite DEF Layout
      <4> QED BY <1>4, <4>1, HeapPlace
    <3>3. next1 \in [HeadersOf(B) -> Int]
      BY <1>8 DEF Layout
    <3>4. size2 \in [HeadersOf(B) \cup {rest} -> Nat]
      <4> HIDE DEF size, B, rest
      <4>1. \A x \in HeadersOf(B) : size[x] \in Nat
        BY <1>6
      <4>2. \A x \in HeadersOf(B) \cup {rest} : size2[x] \in Nat
        BY <1>4, <2>2, <4>1
      <4> QED BY <4>2
    <3>5. next2 \in [HeadersOf(B) \cup {rest} -> Int]
      <4> HIDE DEF size, B, rest
      <4> QED BY <3>2, <3>3
    <3>6. /\ size2[block] = wanted /\ size2[rest] = size[block] - wanted /\ next2[rest] = NULL
          /\ \A x \in HeadersOf(B) :
               (x # block /\ x # rest => size2[x] = size[x]) /\ (x # rest => next2[x] = next1[x])
      <4> HIDE DEF size, B, rest
      <4> QED BY <1>6, <3>2
    <3> HIDE DEF size2, next2, size, B
    <3> QED BY <1>4, <2>2, <3>1, <3>4, <3>5, <3>6 DEF Cut
  <2> HIDE DEF size2, next2
  <2>4. /\ Layout(size2, next2, B1, G) /\ Apart(size2, G)
        /\ SumOver(size2, G) = SumOver(size, G)
        /\ rest \notin B /\ rest # block
    <3>1. block \in B \ G
      BY <1>5, <1>6
    <3> HIDE DEF size, B, G
    <3>2. /\ Layout(size2, next2, B \cup {block + wanted}, G) /\ Apart(size2, G)
          /\ SumOver(size2, G) = SumOver(size, G)
          /\ block + wanted \notin B /\ block + wanted # block
      BY ONLY <1>8, <2>3, <3>1, CutBlock
    <3> QED BY <3>2
  <2>5. size2[rest] = size[block] - wanted /\ size2[block] = wanted
    BY <2>3 DEF Cut
  <2>6. \E B2, F2 : Inserted(size2, B1, G, rest, result, B2, F2)
    <3>1. rest \in B1 \ G
      BY <1>6, <2>4
    <3>2. PICK r : r = rest
      OBVIOUS
    <3> HIDE DEF B1, G, rest
    <3> QED BY ONLY <2>4, <3>1, InsertBlock
  <2>7. PICK B2, F2 : Inserted(size2, B1, G, rest, result, B2, F2)
    <3> HIDE DEF B1, G, rest, result
    <3> QED BY <2>6
  <2>8. /\ Layout(result.size, result.next, B2, F2) /\ Apart(result.size, F2)
        /\ B2 \ F2 = (B1 \ G) \ {rest}
        /\ \A b \in B2 \ F2 : result.size[b] = size2[b]
        /\ SumOver(result.size, F2) = SumOver(size2, G) + size2[rest]
    <3> HIDE DEF B1, G, rest, result
    <3> QED BY <2>7 DEF Inserted
  <2>9. B2 \ F2 = (allocated \cup freeing) \cup {block} /\ block \in B2 \ F2
    <3>1. (B1 \ G) \ {rest} = (allocated \cup freeing) \cup {block}
      BY <1>1, <1>5, <1>6, <2>4
    <3> HIDE DEF B1, G, rest, result
    <3> QED BY <2>8, <3>1
  <2>10. /\ xBlockSize' = result.size /\ pxNextFreeBlock' = result.next
         /\ xFreeBytesRemaining' = SumOver(result.size, F2)
    <3>1. /\ xBlockSize' = result.size /\ pxNextFreeBlock' = result.next
          /\ xFreeBytesRemaining' = xFreeBytesRemaining - result.size[block]
      BY <1>3, <2>1
    <3> HIDE DEF result, size, F, G, rest
    <3>2. result.size[block] = wanted
      BY <2>5, <2>8, <2>9
    <3>3. /\ xFreeBytesRemaining = size[block] + SumOver(size, G) /\ SumOver(size, G) \in Int
          /\ size[block] \in Int /\ wanted \in Int
      BY <1>1, <1>4, <1>6, <1>8
    <3>4. /\ SumOver(result.size, F2) = SumOver(size, G) + (size[block] - wanted)
          /\ xFreeBytesRemaining' = xFreeBytesRemaining - wanted
      BY <2>4, <2>5, <2>8, <3>1, <3>2
    <3>5. xFreeBytesRemaining' = SumOver(result.size, F2)
      BY ONLY <3>3, <3>4
    <3> QED BY <3>1, <3>5
  <2>11. B2 \ F2 = allocated' \cup freeing' /\ allocated' \cap freeing' = {}
    <3>1. block \notin freeing
      BY <1>1, <1>5
    <3> HIDE DEF B, F
    <3> QED BY <1>1, <1>3, <2>9, <3>1
  <2> HIDE DEF result
  <2>12. Layout(xBlockSize', pxNextFreeBlock', B2, F2) /\ Apart(xBlockSize', F2)
    BY <2>8, <2>10
  <2>13. xFreeBytesRemaining' = SumOver(xBlockSize', F2)
    BY <2>10
  <2> QED BY ONLY <2>11, <2>12, <2>13, HeapInvAfter
<1> QED BY <1>9, <1>10

LEMMA HeapInvFree ==
  ASSUME HeapInv, NEW block \in allocated, vPortFree(block)
  PROVE  HeapInv'
<1>1. /\ xBlockSize' = xBlockSize /\ pxNextFreeBlock' = pxNextFreeBlock
      /\ xFreeBytesRemaining' = xFreeBytesRemaining
      /\ allocated' = allocated \ {block} /\ freeing' = freeing \cup {block}
  BY DEF vPortFree
<1>2. Blocks' = Blocks /\ Free' = Free
  BY <1>1 DEF Blocks, Free
<1> QED BY <1>1, <1>2 DEF HeapInv

LEMMA HeapInvReturn ==
  ASSUME HeapInv, NEW block \in freeing, ReturnToList(block)
  PROVE  HeapInv'
<1> DEFINE result == prvInsertBlockIntoFreeList(Headers, block)
           B == Blocks
           F == Free
<1>1. /\ Layout(xBlockSize, pxNextFreeBlock, B, F) /\ Apart(xBlockSize, F)
      /\ allocated \cup freeing \subseteq B /\ allocated \cap freeing = {}
      /\ xFreeBytesRemaining = SumOver(xBlockSize, F)
      /\ F = B \ (allocated \cup freeing)
  BY DEF HeapInv, Free
<1>2. /\ xBlockSize' = result.size /\ pxNextFreeBlock' = result.next
      /\ allocated' = allocated /\ freeing' = freeing \ {block}
      /\ xFreeBytesRemaining' = xFreeBytesRemaining + xBlockSize[block]
  BY DEF ReturnToList
<1>3. block \in B \ F
  BY <1>1
<1> HIDE DEF B, F
<1>4. \E B2, F2 : Inserted(xBlockSize, B, F, block, result, B2, F2)
  <2>1. Headers = [size |-> xBlockSize, next |-> pxNextFreeBlock]
    BY DEF Headers
  <2> QED BY ONLY <1>1, <1>3, <2>1, InsertBlock
<1> HIDE DEF result
<1>5. PICK B2, F2 : Inserted(xBlockSize, B, F, block, result, B2, F2)
  BY <1>4
<1>6. /\ Layout(result.size, result.next, B2, F2) /\ Apart(result.size, F2)
      /\ B2 \ F2 = (B \ F) \ {block}
      /\ SumOver(result.size, F2) = SumOver(xBlockSize, F) + xBlockSize[block]
  BY <1>5 DEF Inserted
<1>7. Layout(xBlockSize', pxNextFreeBlock', B2, F2) /\ Apart(xBlockSize', F2)
  BY <1>2, <1>6
<1>8. B2 \ F2 = allocated' \cup freeing' /\ allocated' \cap freeing' = {}
  BY <1>1, <1>2, <1>6
<1>9. xFreeBytesRemaining' = SumOver(xBlockSize', F2)
  BY <1>1, <1>2, <1>6
<1> QED BY ONLY <1>7, <1>8, <1>9, HeapInvAfter

\* The blocks tile the heap, and the free list goes through the free ones by address.
THEOREM HeapInvariant == HeapSpec => []HeapInv
<1>1. ASSUME HeapInv, [HeapNext]_heapVars PROVE HeapInv'
  <2>1. CASE UNCHANGED heapVars
    BY <1>1, <2>1 DEF HeapInv, heapVars, Blocks, Free
  <2>2. ASSUME NEW n \in Sizes, pvPortMalloc(n) PROVE HeapInv'
    BY <1>1, <2>2, HeapInvMalloc
  <2>3. ASSUME NEW n \in Sizes, MallocFails(n) PROVE HeapInv'
    BY <1>1, <2>1, <2>3 DEF MallocFails
  <2>4. ASSUME NEW block \in allocated, vPortFree(block) PROVE HeapInv'
    BY <1>1, <2>4, HeapInvFree
  <2>5. ASSUME NEW block \in freeing, ReturnToList(block) PROVE HeapInv'
    BY <1>1, <2>5, HeapInvReturn
  <2> QED BY <1>1, <2>1, <2>2, <2>3, <2>4, <2>5 DEF HeapNext
<1> QED BY <1>1, HeapInvInit, PTL DEF HeapSpec

\* The blocks tile the heap at every moment, whatever is allocated and freed.
THEOREM BlocksTileTheHeap == HeapSpec => []BlocksTile
<1>1. HeapInv => BlocksTile
  <2> SUFFICES ASSUME HeapInv PROVE BlocksTile
    OBVIOUS
  <2>1. Tiled(xBlockSize, Blocks)
    BY DEF HeapInv, Layout
  <2> QED BY <2>1 DEF Tiled, BlocksTile
<1> QED BY <1>1, HeapInvariant, PTL

\* The free list has every free block, in order and with no two that touch, and its
\* bytes are those that are counted.
THEOREM FreeListIsExact == HeapSpec => []FreeListExact
<1>1. HeapInv => FreeListExact
  <2> SUFFICES ASSUME HeapInv PROVE FreeListExact
    OBVIOUS
  <2>1. /\ Ordered(pxNextFreeBlock, Free) /\ Apart(xBlockSize, Free) /\ Tiled(xBlockSize, Blocks)
        /\ xFreeBytesRemaining = SumOver(xBlockSize, Free)
    BY DEF HeapInv, Layout
  <2>2. /\ xStart \in Int /\ pxEnd \in Int
        /\ \A f \in Free : f \in Int /\ f < pxEnd
        /\ xStart < pxEnd
    BY <2>1, BlocksFinite, HeapPlace DEF Free
  <2>3. FreeListOrdered
    <3> SUFFICES ASSUME NEW f \in Free \cup {xStart}
                 PROVE  pxNextFreeBlock[f] = Min({o \in Free \cup {pxEnd} : o > f})
      BY DEF FreeListOrdered
    <3> DEFINE S == {o \in Free \cup {pxEnd} : o > f}
               m == pxNextFreeBlock[f]
    <3>1. m \in Free \cup {pxEnd} /\ f < m /\ \A o \in Free : ~ (f < o /\ o < m)
      BY <2>1 DEF Ordered
    <3>2. S \subseteq Int /\ m \in S /\ f \in Int
      BY <2>2, <3>1
    <3>3. \A o \in S : m <= o
      BY <2>2, <3>1, <3>2
    <3> HIDE DEF S, m
    <3>4. Min(S) \in S /\ \A o \in S : Min(S) <= o
      <4>1. \E x \in S : \A o \in S : x <= o
        BY <3>2, <3>3
      <4> QED BY <4>1 DEF Min
    <3>5. m = Min(S)
      <4>1. PICK k : k = Min(S)
        OBVIOUS
      <4>2. k \in Int /\ m \in Int /\ m <= k /\ k <= m
        BY <3>2, <3>3, <3>4, <4>1
      <4>3. m = k
        BY ONLY <4>2
      <4> QED BY <4>1, <4>3
    <3> QED BY <3>5 DEF S, m
  <2>4. \A f \in Free : f + xBlockSize[f] \notin Free
    BY <2>1 DEF Apart
  <2>5. xFreeBytesRemaining = FoldFunctionOnSet(+, 0, xBlockSize, Free)
    BY <2>1, Zenon DEF SumOver
  <2> QED BY <2>3, <2>4, <2>5, Zenon DEF FreeListExact
<1> QED BY <1>1, HeapInvariant, PTL

\* There is no memory for a request only if no free block has room for it: the count of
\* the free bytes and the search of the list never refuse one that could be met.
THEOREM RefusalMeansTooLarge == HeapSpec => []RefusedOnlyIfTooLarge
<1>1. HeapInv => RefusedOnlyIfTooLarge
  <2> SUFFICES ASSUME HeapInv, NEW n \in Sizes \ {0}, Refused(n), NEW f \in Free
               PROVE  xBlockSize[f] - xHeapStructSize < n
    BY DEF RefusedOnlyIfTooLarge
  <2>1. /\ Layout(xBlockSize, pxNextFreeBlock, Blocks, Free)
        /\ Ordered(pxNextFreeBlock, Free) /\ Tiled(xBlockSize, Blocks) /\ Free \subseteq Blocks
        /\ xFreeBytesRemaining = SumOver(xBlockSize, Free)
    BY DEF HeapInv, Layout
  <2>2. /\ pucAlignedHeap \in Nat /\ pxEnd \in Nat /\ xHeapStructSize \in Nat /\ pxEnd < xBlockAllocatedBit
        /\ portBYTE_ALIGNMENT \in Nat \ {0} /\ pxEnd % portBYTE_ALIGNMENT = 0 /\ xBlockAllocatedBit \in Int
    BY HeapPlace
  <2>3. n \in Nat /\ n # 0
    BY HeapAssumption
  <2>4. /\ f \in Blocks /\ f \in Nat /\ xBlockSize[f] \in Nat
        /\ f % portBYTE_ALIGNMENT = 0 /\ f + xBlockSize[f] \in Blocks \cup {pxEnd}
    BY <2>1, BlocksFinite DEF Tiled
  <2>5. xBlockSize[f] % portBYTE_ALIGNMENT = 0 /\ xBlockSize[f] <= pxEnd
    <3>1. PICK e : e = f + xBlockSize[f]
      OBVIOUS
    <3>2. e \in Nat /\ e % portBYTE_ALIGNMENT = 0 /\ e <= pxEnd
      BY <2>1, <2>2, <2>4, <3>1, BlocksFinite DEF Tiled
    <3>3. e - f = xBlockSize[f] /\ e >= f
      BY <2>4, <3>1, <3>2
    <3>4. (e - f) % portBYTE_ALIGNMENT = 0
      BY <2>2, <2>4, <3>2, <3>3, MultipleSubtract
    <3> QED BY <2>2, <2>4, <3>2, <3>3, <3>4
  <2>6. PICK wanted : wanted = WantedSize(n)
    OBVIOUS
  <2>7. /\ wanted \in Nat
        /\ wanted # 0 => \A m \in Nat : m % portBYTE_ALIGNMENT = 0 /\ m < wanted => m < n + xHeapStructSize
        /\ wanted = 0 => n = 0 \/ n >= xBlockAllocatedBit
    BY <2>6, WantedIs
  <2>8. wanted # 0 => xBlockSize[f] < wanted
    <3> SUFFICES ASSUME wanted # 0 PROVE xBlockSize[f] < wanted
      OBVIOUS
    <3>1. wanted > xFreeBytesRemaining \/ pxNextFreeBlock[Previous(wanted)] = pxEnd
      BY <2>6 DEF Refused
    <3>2. CASE wanted > xFreeBytesRemaining
      <4>1. IsFiniteSet(Free) /\ \A x \in Free : xBlockSize[x] \in Int
        <5>1. IsFiniteSet(Free)
          BY <2>1, BlocksFinite, FS_Subset
        <5> QED BY <2>1, <5>1 DEF Tiled
      <4>2. SumOver(xBlockSize, Free) = xBlockSize[f] + SumOver(xBlockSize, Free \ {f})
        BY <4>1, SumAny
      <4>3. SumOver(xBlockSize, Free \ {f}) \in Nat
        <5> DEFINE E == Free \ {f}
        <5>1. IsFiniteSet(E) /\ Cardinality(E) \in Nat
          BY <4>1, FS_RemoveElement, FS_CardinalityType
        <5>2. \A x \in E : xBlockSize[x] \in 0 .. pxEnd
          <6> SUFFICES ASSUME NEW x \in E PROVE xBlockSize[x] \in 0 .. pxEnd
            OBVIOUS
          <6>1. x \in Nat /\ xBlockSize[x] \in Nat /\ x + xBlockSize[x] \in Blocks \cup {pxEnd}
            BY <2>1, BlocksFinite DEF Tiled
          <6>2. \A b \in Blocks : b \in Nat /\ b < pxEnd
            BY <2>1, BlocksFinite
          <6> QED BY <2>2, <6>1, <6>2
        <5> HIDE DEF E
        <5>3. SumOver(xBlockSize, E) \in 0 .. pxEnd * Cardinality(E)
          BY <2>2, <5>1, <5>2, SumBound
        <5>4. pxEnd * Cardinality(E) \in Nat
          BY <2>2, <5>1
        <5>5. SumOver(xBlockSize, E) \in Nat
          BY <5>3, <5>4
        <5> QED BY <5>5 DEF E
      <4> QED BY <2>1, <2>4, <2>7, <3>2, <4>2, <4>3
    <3>3. CASE pxNextFreeBlock[Previous(wanted)] = pxEnd
      <4>1. PICK p : p = Previous(wanted)
        OBVIOUS
      <4>2. /\ p \in Free \cup {xStart} /\ pxNextFreeBlock[p] = pxEnd
            /\ \A g \in Free : g <= p => xBlockSize[g] < wanted
        BY <2>1, <2>7, <3>3, <4>1, PreviousFound
      <4>3. ~ (p < f /\ f < pxEnd)
        BY <2>1, <4>2 DEF Ordered
      <4>4. f < pxEnd /\ p \in Int
        BY <2>1, <4>2, BlocksFinite, HeapPlace
      <4>5. f <= p
        BY <2>2, <2>4, <4>3, <4>4
      <4> QED BY <4>2, <4>5
    <3> QED BY <3>1, <3>2, <3>3
  <2> QED BY <2>2, <2>3, <2>4, <2>5, <2>7, <2>8
<1> QED BY <1>1, HeapInvariant, PTL

-----------------------------------------------------------------------------
(* The order of the steps of main.                                         *)

\* The names that pc goes through.
Names ==
  {"prvSetupHardware", "vSetupHighFrequencyTimer", "xTempQueue", "xUARTQueue", "xDisplayQueue",
   "GetTemp", "Filter", "Display", "Top", "IDLE",
   "vTaskStartScheduler", "xPortStartScheduler", "prvPortStartFirstTask", "tasks"}

\* The steps one by one.
LEMMA ProgramIs ==
  /\ DOMAIN Program = 1 .. 14 /\ Len(Program) = 14
  /\ Program[1] = "prvSetupHardware" /\ Program[2] = "vSetupHighFrequencyTimer"
  /\ Program[3] = "xTempQueue" /\ Program[4] = "xUARTQueue" /\ Program[5] = "xDisplayQueue"
  /\ Program[6] = "GetTemp" /\ Program[7] = "Filter" /\ Program[8] = "Display"
  /\ Program[9] = "Top" /\ Program[10] = "IDLE" /\ Program[11] = "vTaskStartScheduler"
  /\ Program[12] = "xPortStartScheduler" /\ Program[13] = "prvPortStartFirstTask"
  /\ Program[14] = "tasks"
<1>1. PICK a : a = <<"prvSetupHardware", "vSetupHighFrequencyTimer">>
  OBVIOUS
<1>2. PICK d : d = <<"vTaskStartScheduler", "xPortStartScheduler", "prvPortStartFirstTask", "tasks">>
  OBVIOUS
<1>3. /\ a \in Seq(Names) /\ Len(a) = 2
      /\ a[1] = "prvSetupHardware" /\ a[2] = "vSetupHighFrequencyTimer"
  BY <1>1 DEF Names
<1>4. /\ d \in Seq(Names) /\ Len(d) = 4
      /\ d[1] = "vTaskStartScheduler" /\ d[2] = "xPortStartScheduler"
      /\ d[3] = "prvPortStartFirstTask" /\ d[4] = "tasks"
  BY <1>2 DEF Names
<1>5. /\ Queues \in Seq(Names) /\ Len(Queues) = 3
      /\ Queues[1] = "xTempQueue" /\ Queues[2] = "xUARTQueue" /\ Queues[3] = "xDisplayQueue"
  BY DEF Queues, Names
<1>6. /\ Tasks \in Seq(Names) /\ Len(Tasks) = 5
      /\ Tasks[1] = "GetTemp" /\ Tasks[2] = "Filter" /\ Tasks[3] = "Display"
      /\ Tasks[4] = "Top" /\ Tasks[5] = "IDLE"
  BY DEF Tasks, Names
<1>7. Program = ((a \o Queues) \o Tasks) \o d
  BY <1>1, <1>2 DEF Program
<1>8. PICK b : b = a \o Queues
  OBVIOUS
<1>9. /\ b \in Seq(Names) /\ Len(b) = 5
      /\ b[1] = a[1] /\ b[2] = a[2] /\ b[3] = Queues[1] /\ b[4] = Queues[2] /\ b[5] = Queues[3]
  <2>1. /\ b \in Seq(Names) /\ Len(b) = Len(a) + Len(Queues)
        /\ \A i \in 1 .. Len(a) + Len(Queues) : b[i] = IF i <= Len(a) THEN a[i] ELSE Queues[i - Len(a)]
    BY <1>3, <1>5, <1>8, ConcatProperties
  <2>2. /\ b \in Seq(Names) /\ Len(b) = 5
        /\ \A i \in 1 .. 5 : b[i] = IF i <= 2 THEN a[i] ELSE Queues[i - 2]
    BY <1>3, <1>5, <2>1
  <2> QED BY <2>2
<1>10. PICK c : c = b \o Tasks
  OBVIOUS
<1>11. /\ c \in Seq(Names) /\ Len(c) = 10
       /\ c[1] = b[1] /\ c[2] = b[2] /\ c[3] = b[3] /\ c[4] = b[4] /\ c[5] = b[5]
       /\ c[6] = Tasks[1] /\ c[7] = Tasks[2] /\ c[8] = Tasks[3] /\ c[9] = Tasks[4] /\ c[10] = Tasks[5]
  <2>1. /\ c \in Seq(Names) /\ Len(c) = Len(b) + Len(Tasks)
        /\ \A i \in 1 .. Len(b) + Len(Tasks) : c[i] = IF i <= Len(b) THEN b[i] ELSE Tasks[i - Len(b)]
    BY <1>6, <1>9, <1>10, ConcatProperties
  <2>2. /\ c \in Seq(Names) /\ Len(c) = 10
        /\ \A i \in 1 .. 10 : c[i] = IF i <= 5 THEN b[i] ELSE Tasks[i - 5]
    BY <1>6, <1>9, <2>1
  <2> QED BY <2>2
<1>12. Program = c \o d
  BY <1>7, <1>8, <1>10
<1>13. /\ Program \in Seq(Names) /\ Len(Program) = 14
       /\ \A i \in 1 .. 10 : Program[i] = c[i]
       /\ Program[11] = d[1] /\ Program[12] = d[2] /\ Program[13] = d[3] /\ Program[14] = d[4]
  <2>1. /\ Program \in Seq(Names) /\ Len(Program) = Len(c) + Len(d)
        /\ \A i \in 1 .. Len(c) + Len(d) : Program[i] = IF i <= Len(c) THEN c[i] ELSE d[i - Len(c)]
    BY <1>4, <1>11, <1>12, ConcatProperties
  <2>2. /\ Program \in Seq(Names) /\ Len(Program) = 14
        /\ \A i \in 1 .. 14 : Program[i] = IF i <= 10 THEN c[i] ELSE d[i - 10]
    BY <1>4, <1>11, <2>1
  <2> QED BY <2>2
<1>14. DOMAIN Program = 1 .. 14
  BY <1>13
<1> QED BY <1>3, <1>4, <1>5, <1>6, <1>9, <1>11, <1>13, <1>14

LEMMA TaskSet == ToSet(Tasks) = {"GetTemp", "Filter", "Display", "Top", "IDLE"}
  BY DEF Tasks, ToSet
LEMMA QueueSet == ToSet(Queues) = {"xTempQueue", "xUARTQueue", "xDisplayQueue"}
  BY DEF Queues, ToSet

\* The objects are made in the order of the program.
LEMMA Steps ==
  /\ \A i, j \in 1 .. 14 : Program[i] = Program[j] => i = j
  /\ \A i \in 1 .. 13 : After(Program[i]) = Program[i + 1]
  /\ Objects = {Program[i] : i \in 3 .. 10}
  /\ \A i \in 1 .. 14 : Program[i] # "returned"
  /\ Len(Program) = 14
<1>1. \A i, j \in 1 .. 14 : Program[i] = Program[j] => i = j
  <2> DEFINE names == [i \in 1 .. 14 |-> Program[i]]
  <2> QED BY ProgramIs
<1>2. ASSUME NEW i \in 1 .. 13 PROVE After(Program[i]) = Program[i + 1]
  <2> DEFINE k == CHOOSE k \in 1 .. Len(Program) - 1 : Program[k] = Program[i]
  <2>1. k \in 1 .. 13 /\ Program[k] = Program[i]
    BY ProgramIs
  <2> HIDE DEF k
  <2>2. k = i
    BY <1>1, <2>1
  <2>3. After(Program[i]) = Program[1 + k]
    BY DEF After, k
  <2> QED BY <2>2, <2>3
<1>3. Objects = {Program[i] : i \in 3 .. 10}
  <2>1. Objects = {"xTempQueue", "xUARTQueue", "xDisplayQueue", "GetTemp", "Filter", "Display", "Top", "IDLE"}
    BY TaskSet, QueueSet DEF Objects
  <2> QED BY <2>1, ProgramIs
<1>4. \A i \in 1 .. 14 : Program[i] # "returned"
  BY ProgramIs
<1> QED BY <1>1, <1>2, <1>3, <1>4, ProgramIs

\* The steps that come after one another by name.
LEMMA Follows ==
  /\ After("prvSetupHardware") = "vSetupHighFrequencyTimer"
  /\ After("vSetupHighFrequencyTimer") = "xTempQueue"
  /\ After("vTaskStartScheduler") = "xPortStartScheduler"
  /\ After("xPortStartScheduler") = "prvPortStartFirstTask"
  /\ \A o \in Objects : After(o) \in Objects \cup {"vTaskStartScheduler"}
                        /\ (After(o) = "vTaskStartScheduler" => o = "IDLE")
<1>1. \A o \in Objects : After(o) \in Objects \cup {"vTaskStartScheduler"}
                         /\ (After(o) = "vTaskStartScheduler" => o = "IDLE")
  <2> SUFFICES ASSUME NEW i \in 3 .. 10
               PROVE  /\ After(Program[i]) \in Objects \cup {"vTaskStartScheduler"}
                      /\ After(Program[i]) = "vTaskStartScheduler" => Program[i] = "IDLE"
    BY Steps
  <2>1. After(Program[i]) = Program[i + 1] /\ i \in 1 .. 14 /\ i + 1 \in 1 .. 14
    BY Steps
  <2>2. i # 10 => i + 1 \in 3 .. 10
    OBVIOUS
  <2> QED BY <2>1, <2>2, Steps, ProgramIs
<1>2. \A i \in 1 .. 13 : After(Program[i]) = Program[i + 1]
  BY Steps
<1>3. After(Program[1]) = Program[2] /\ After(Program[2]) = Program[3]
      /\ After(Program[11]) = Program[12] /\ After(Program[12]) = Program[13]
  BY <1>2
<1> QED BY <1>1, <1>3, ProgramIs

-----------------------------------------------------------------------------
(* The run-time clock.                                                     *)

TaskNames == ToSet(Tasks)
Running == {"xPortStartScheduler", "prvPortStartFirstTask", "tasks"}

StartTypeInv ==
  /\ pc \in [step : Names \cup {"returned"}, inside : BOOLEAN]
  /\ pc.inside => pc.step \in Objects
  /\ made \in [objects : SUBSET Objects, pxCurrentTCB : TaskNames \cup {"none"}, heap : Int,
               text : BOOLEAN, table : BOOLEAN]
  /\ pc.step \in Running \cup {"vTaskStartScheduler"} => made.pxCurrentTCB \in TaskNames
  /\ clock \in [ulHighFrequencyTimerTicks : 0 .. ClockRange - 1,
                ulTaskSwitchedInTime : 0 .. ClockRange - 1,
                ulRunTimeCounter : [TaskNames -> Nat], interrupts : Nat]
  /\ history \in [early : BOOLEAN, missing : SUBSET Objects, refused : BOOLEAN,
                  ran : [TaskNames -> Nat]]

\* What the next switch will count for the task that runs.
Uncounted(t) ==
  IF t = made.pxCurrentTCB /\ clock.ulHighFrequencyTimerTicks > clock.ulTaskSwitchedInTime
    THEN clock.ulHighFrequencyTimerTicks - clock.ulTaskSwitchedInTime ELSE 0

TimeCounted ==
  /\ pc.step \notin Running =>
       /\ clock.ulTaskSwitchedInTime = 0
       /\ \A t \in TaskNames : clock.ulRunTimeCounter[t] = 0 /\ history.ran[t] = 0
  /\ pc.step \in Running =>
       /\ \A t \in TaskNames : clock.ulRunTimeCounter[t] + Uncounted(t) <= history.ran[t]
       /\ SumOver(history.ran, TaskNames) < ClockRange =>
            /\ clock.ulHighFrequencyTimerTicks = SumOver(history.ran, TaskNames)
            /\ clock.ulTaskSwitchedInTime <= clock.ulHighFrequencyTimerTicks
            /\ \A t \in TaskNames : clock.ulRunTimeCounter[t] + Uncounted(t) = history.ran[t]

RunInv == StartTypeInv /\ TimeCounted

LEMMA TasksFinite == IsFiniteSet(TaskNames) /\ TaskNames \subseteq Objects /\ "none" \notin TaskNames
<1>1. \A s, x : IsFiniteSet(s) => IsFiniteSet(s \cup {x})
  BY FS_AddElement
<1>2. TaskNames = (((({} \cup {"GetTemp"}) \cup {"Filter"}) \cup {"Display"}) \cup {"Top"}) \cup {"IDLE"}
  BY TaskSet DEF TaskNames
<1>3. IsFiniteSet({})
  BY FS_EmptySet
<1>4. IsFiniteSet(TaskNames)
  BY ONLY <1>1, <1>2, <1>3
<1> QED BY <1>2, <1>4 DEF TaskNames, Objects

LEMMA RunInvInit == StartInit => RunInv
<1> SUFFICES ASSUME StartInit PROVE RunInv
  OBVIOUS
<1>1. /\ pc = [step |-> "prvSetupHardware", inside |-> FALSE]
      /\ made = [objects |-> {}, pxCurrentTCB |-> "none", heap |-> HeapBytes, text |-> FALSE, table |-> FALSE]
      /\ clock = [ulHighFrequencyTimerTicks |-> 0, ulTaskSwitchedInTime |-> 0,
                  ulRunTimeCounter |-> [t \in TaskNames |-> 0], interrupts |-> 0]
      /\ history = [early |-> FALSE, missing |-> {}, refused |-> FALSE, ran |-> [t \in TaskNames |-> 0]]
      /\ HeapBytes \in Nat /\ ClockRange \in Nat \ {0}
  BY ProgramIs, StartupAssumption DEF StartInit, TaskNames
<1>2. pc.step = "prvSetupHardware" /\ pc.step \notin Running /\ pc.inside = FALSE
  BY <1>1 DEF Running
<1>3. StartTypeInv
  BY <1>1, <1>2 DEF StartTypeInv, Names, Running
<1>4. TimeCounted
  BY <1>1, <1>2 DEF TimeCounted
<1> QED BY <1>3, <1>4 DEF RunInv

\* A step that leaves the clock alone, and the task that runs.
LEMMA Unclocked ==
  ASSUME RunInv, StartTypeInv', pc.step \in Running <=> pc'.step \in Running,
         clock' = clock, history'.ran = history.ran,
         pc.step \in Running => made'.pxCurrentTCB = made.pxCurrentTCB
  PROVE  RunInv'
<1>1. CASE pc.step \in Running
  <2>1. \A t : Uncounted(t)' = Uncounted(t)
    BY <1>1 DEF Uncounted
  <2> QED BY <1>1, <2>1 DEF RunInv, TimeCounted
<1>2. CASE pc.step \notin Running
  BY <1>2 DEF RunInv, TimeCounted
<1> QED BY <1>1, <1>2

LEMMA BlockForIs == ASSUME NEW n \in Nat PROVE BlockFor(n) \in Nat
  BY DEF BlockFor

LEMMA NeededIs == \A o \in Objects : Needed(o) \in Nat
<1> SUFFICES ASSUME NEW o \in Objects PROVE Needed(o) \in Nat
  OBVIOUS
<1> DEFINE f == [i \in DOMAIN Bytes[o] |-> BlockFor(Bytes[o][i])]
<1>1. Bytes[o] \in Seq(Nat)
  BY StartupAssumption
<1>2. DOMAIN f = 1 .. Len(Bytes[o]) /\ IsFiniteSet(1 .. Len(Bytes[o])) /\ Len(Bytes[o]) \in Nat
  BY <1>1, FS_Interval
<1>3. \A i \in DOMAIN f : f[i] \in Nat
  BY <1>1, BlockForIs
<1>4. Needed(o) = SumOver(f, DOMAIN f)
  BY DEF Needed, FoldFunction, SumOver
<1> HIDE DEF f
<1> QED BY <1>2, <1>3, <1>4, SumNat

LEMMA StartTypeNext == StartTypeInv /\ [StartNext]_startVars => StartTypeInv'
<1> SUFFICES ASSUME StartTypeInv, [StartNext]_startVars PROVE StartTypeInv'
  OBVIOUS
<1> USE DEF StartTypeInv
<1>0. /\ \A s \in Names : s # "returned"
      /\ Objects \subseteq Names /\ TaskNames \subseteq Objects /\ "none" \notin TaskNames
      /\ \A o \in Objects : o \notin Running /\ o # "vTaskStartScheduler"
      /\ \A o \in Objects : o \notin ToSet(Queues) => o \in TaskNames
      /\ ClockRange \in Nat \ {0} /\ "IDLE" \in TaskNames
  BY StartupAssumption, TaskSet, QueueSet, TasksFinite DEF Names, Objects, TaskNames, Running
<1>1. CASE UNCHANGED startVars
  BY <1>1 DEF startVars
<1>2. CASE prvSetupHardware
  BY <1>0, <1>2, Follows DEF prvSetupHardware, At, Then, Names, Running
<1>3. CASE vSetupHighFrequencyTimer
  BY <1>0, <1>3, Follows, QueueSet DEF vSetupHighFrequencyTimer, At, Then, Names, Running
<1>4. ASSUME NEW o \in Objects, Allocate(o) PROVE StartTypeInv'
  <2>1. CASE Needed(o) <= made.heap
    <3>1. /\ made' = [made EXCEPT !.heap = @ - Needed(o)] /\ pc' = [pc EXCEPT !.inside = TRUE]
          /\ history' = history /\ clock' = clock /\ pc.step = o
      BY <1>4, <2>1 DEF Allocate, At
    <3>2. made.heap - Needed(o) \in Int
      BY NeededIs
    <3>3. made' \in [objects : SUBSET Objects, pxCurrentTCB : TaskNames \cup {"none"}, heap : Int,
                     text : BOOLEAN, table : BOOLEAN]
      BY <3>1, <3>2
    <3>4. pc' \in [step : Names \cup {"returned"}, inside : BOOLEAN] /\ pc'.step = o
      BY <3>1
    <3> QED BY <1>0, <3>1, <3>3, <3>4
  <2>2. CASE ~ (Needed(o) <= made.heap)
    <3>1. /\ pc' = [step |-> IF o = "IDLE" THEN "returned" ELSE After(o), inside |-> FALSE]
          /\ history' = [history EXCEPT !.refused = TRUE]
          /\ made' = made /\ clock' = clock
      BY <1>4, <2>2 DEF Allocate, Then
    <3>2. pc'.step \in Objects \cup {"returned"} /\ pc'.inside = FALSE
      BY <3>1, Follows
    <3>3. pc' \in [step : Names \cup {"returned"}, inside : BOOLEAN] /\ pc'.step \notin Running \cup {"vTaskStartScheduler"}
      <4>1. pc'.step \notin Running \cup {"vTaskStartScheduler"}
        BY <1>0, <3>2 DEF Running
      <4>2. pc'.step \in Names \cup {"returned"}
        BY <1>0, <3>2
      <4> QED BY <3>1, <3>2, <4>1, <4>2
    <3>4. history' \in [early : BOOLEAN, missing : SUBSET Objects, refused : BOOLEAN, ran : [TaskNames -> Nat]]
      BY <3>1
    <3> QED BY <3>1, <3>2, <3>3, <3>4
  <2> QED BY <2>1, <2>2
<1>5. ASSUME NEW o \in Objects, Create(o) PROVE StartTypeInv'
  <2>1. /\ pc.step = o /\ pc' = [step |-> After(o), inside |-> FALSE]
        /\ made' = [made EXCEPT !.objects = @ \cup {o},
                !.pxCurrentTCB = IF o \in ToSet(Queues) \/ (o = "IDLE" /\ @ # "none")
                                   THEN @ ELSE o]
        /\ clock' = clock /\ history' = history
    BY <1>5 DEF Create, Then
  <2>2. pc' \in [step : Names \cup {"returned"}, inside : BOOLEAN] /\ pc'.inside = FALSE
    <3>1. After(o) \in Names
      BY <1>0, Follows DEF Names
    <3> QED BY <2>1, <3>1
  <2>3. made' \in [objects : SUBSET Objects, pxCurrentTCB : TaskNames \cup {"none"}, heap : Int,
                   text : BOOLEAN, table : BOOLEAN]
    BY <1>0, <2>1
  <2>4. pc'.step \in Running \cup {"vTaskStartScheduler"} => made'.pxCurrentTCB \in TaskNames
    <3> SUFFICES ASSUME pc'.step \in Running \cup {"vTaskStartScheduler"}
                 PROVE  made'.pxCurrentTCB \in TaskNames
      OBVIOUS
    <3>1. pc'.step = "vTaskStartScheduler"
      BY <1>0, <2>1, Follows DEF Running
    <3>2. o = "IDLE"
      BY <2>1, <3>1, Follows
    <3>3. "IDLE" \notin ToSet(Queues)
      BY QueueSet
    <3> QED BY <1>0, <2>1, <3>2, <3>3
  <2> QED BY <2>1, <2>2, <2>3, <2>4
<1>6. CASE vTaskStartScheduler
  BY <1>0, <1>6, Follows DEF vTaskStartScheduler, At, Then, Names, Running
<1>7. CASE xPortStartScheduler
  BY <1>0, <1>7, Follows DEF xPortStartScheduler, At, Then, Names, Running
<1>8. CASE prvPortStartFirstTask
  BY <1>0, <1>8, Follows DEF prvPortStartFirstTask, At, Then, Names, Running
<1>9. CASE vUART_ISR
  BY <1>0, <1>9, QueueSet DEF vUART_ISR, Early, Objects
<1>10. CASE xPortSysTickHandler
  BY <1>0, <1>10 DEF xPortSysTickHandler, Early
<1>11. CASE Timer0IntHandler
  <2>1. /\ clock' = [clock EXCEPT !.ulHighFrequencyTimerTicks = (@ + 1) % ClockRange,
                            !.interrupts = @ + 1]
        /\ history' =
             IF pc.step \in Running
               THEN [history EXCEPT !.ran[made.pxCurrentTCB] = @ + 1] ELSE history
        /\ pc' = pc /\ made' = made
    BY <1>11 DEF Timer0IntHandler, Running
  <2>2. (clock.ulHighFrequencyTimerTicks + 1) % ClockRange \in 0 .. ClockRange - 1
    BY <1>0
  <2>3. clock' \in [ulHighFrequencyTimerTicks : 0 .. ClockRange - 1,
                    ulTaskSwitchedInTime : 0 .. ClockRange - 1,
                    ulRunTimeCounter : [TaskNames -> Nat], interrupts : Nat]
    <3>1. PICK ticks, interrupts, counters :
            /\ ticks = (clock.ulHighFrequencyTimerTicks + 1) % ClockRange
            /\ interrupts = clock.interrupts + 1 /\ counters = clock.ulRunTimeCounter
      OBVIOUS
    <3>2. PICK from : from = clock.ulTaskSwitchedInTime
      OBVIOUS
    <3>3. ticks \in 0 .. ClockRange - 1 /\ from \in 0 .. ClockRange - 1
          /\ counters \in [TaskNames -> Nat] /\ interrupts \in Nat
      BY <2>2, <3>1, <3>2
    <3>4. clock' = [clock EXCEPT !.ulHighFrequencyTimerTicks = ticks, !.interrupts = interrupts]
      BY ONLY <2>1, <3>1
    <3>5. clock' = [ulHighFrequencyTimerTicks |-> ticks, ulTaskSwitchedInTime |-> from,
                    ulRunTimeCounter |-> counters, interrupts |-> interrupts]
      BY <3>1, <3>2, <3>4
    <3> QED BY ONLY <3>3, <3>5
  <2>4. history' \in [early : BOOLEAN, missing : SUBSET Objects, refused : BOOLEAN, ran : [TaskNames -> Nat]]
    <3>1. history.ran \in [TaskNames -> Nat]
      OBVIOUS
    <3>2. PICK ran1 : ran1 = [history.ran EXCEPT ![made.pxCurrentTCB] = @ + 1]
      OBVIOUS
    <3>3. pc.step \in Running => ran1 \in [TaskNames -> Nat]
      BY <3>1, <3>2
    <3>4. pc.step \in Running => history' = [history EXCEPT !.ran = ran1]
      BY <2>1, <3>2
    <3>5. pc.step \notin Running => history' = history
      BY <2>1
    <3> QED BY <3>3, <3>4, <3>5
  <2> QED BY <2>1, <2>3, <2>4
<1>12. CASE vTaskSwitchContext
  <2>1. PICK t \in made.objects \cap TaskNames : made' = [made EXCEPT !.pxCurrentTCB = t]
    BY <1>12 DEF vTaskSwitchContext, TaskNames
  <2> DEFINE time == clock.ulHighFrequencyTimerTicks - clock.ulTaskSwitchedInTime
             counter == IF time > 0 THEN (clock.ulRunTimeCounter[made.pxCurrentTCB] + time) % ClockRange
                                    ELSE clock.ulRunTimeCounter[made.pxCurrentTCB]
  <2>2. /\ pc.step = "tasks" /\ pc' = pc /\ history' = history
        /\ clock' = [clock EXCEPT !.ulTaskSwitchedInTime = clock.ulHighFrequencyTimerTicks,
                                  !.ulRunTimeCounter[made.pxCurrentTCB] = counter]
    BY <1>12 DEF vTaskSwitchContext, At
  <2>3. counter \in Nat
    <3>1. made.pxCurrentTCB \in TaskNames
      BY <2>2 DEF Running
    <3>2. clock.ulRunTimeCounter[made.pxCurrentTCB] \in Nat /\ time \in Int
      BY <3>1
    <3>3. time > 0 => clock.ulRunTimeCounter[made.pxCurrentTCB] + time \in Nat
      BY <3>2
    <3> HIDE DEF time
    <3> QED BY <1>0, <3>2, <3>3
  <2>4. clock' \in [ulHighFrequencyTimerTicks : 0 .. ClockRange - 1,
                    ulTaskSwitchedInTime : 0 .. ClockRange - 1,
                    ulRunTimeCounter : [TaskNames -> Nat], interrupts : Nat]
    <3> HIDE DEF counter
    <3>1. PICK counters : counters = [clock.ulRunTimeCounter EXCEPT ![made.pxCurrentTCB] = counter]
      OBVIOUS
    <3>2. counters \in [TaskNames -> Nat]
      BY <2>3, <3>1
    <3>3. PICK ticks : ticks = clock.ulHighFrequencyTimerTicks
      OBVIOUS
    <3>4. clock' = [clock EXCEPT !.ulTaskSwitchedInTime = ticks, !.ulRunTimeCounter = counters]
      BY ONLY <2>2, <3>1, <3>3
    <3>5. clock \in [ulHighFrequencyTimerTicks : 0 .. ClockRange - 1,
                    ulTaskSwitchedInTime : 0 .. ClockRange - 1,
                    ulRunTimeCounter : [TaskNames -> Nat], interrupts : Nat]
          /\ ticks \in 0 .. ClockRange - 1
      BY <3>3
    <3>6. PICK interrupts \in Nat : interrupts = clock.interrupts
      BY <3>5
    <3>7. clock' = [ulHighFrequencyTimerTicks |-> ticks, ulTaskSwitchedInTime |-> ticks,
                    ulRunTimeCounter |-> counters, interrupts |-> interrupts]
      BY ONLY <3>3, <3>4, <3>5, <3>6
    <3> QED BY ONLY <3>2, <3>5, <3>7
  <2>5. made' \in [objects : SUBSET Objects, pxCurrentTCB : TaskNames \cup {"none"}, heap : Int,
                   text : BOOLEAN, table : BOOLEAN]
        /\ made'.pxCurrentTCB \in TaskNames
    BY <2>1
  <2> QED BY <2>2, <2>4, <2>5
<1>13. CASE xTaskTop
  <2>1. /\ pc' = pc /\ clock' = clock
    BY <1>13 DEF xTaskTop
  <2>2. made' \in [objects : SUBSET Objects, pxCurrentTCB : TaskNames \cup {"none"}, heap : Int,
                   text : BOOLEAN, table : BOOLEAN]
        /\ made'.pxCurrentTCB = made.pxCurrentTCB
    <3> DEFINE next == IF made.text THEN "table" ELSE "text"
    <3>1. /\ made.heap + BlockFor(xWantedMemory.table) \in Int
          /\ made.heap - BlockFor(xWantedMemory[next]) \in Int
      <4>1. xWantedMemory.table \in Nat /\ xWantedMemory.text \in Nat
        BY StartupAssumption
      <4> QED BY <4>1, BlockForIs
    <3>2. \/ made' = [made EXCEPT !.table = FALSE, !.heap = @ + BlockFor(xWantedMemory.table)]
          \/ made' = [made EXCEPT !.heap = @ - BlockFor(xWantedMemory[next]), ![next] = TRUE]
          \/ made' = made
      BY <1>13 DEF xTaskTop
    <3>3. CASE made' = [made EXCEPT !.table = FALSE, !.heap = @ + BlockFor(xWantedMemory.table)]
      BY <3>1, <3>3
    <3>4. CASE made' = [made EXCEPT !.heap = @ - BlockFor(xWantedMemory[next]), ![next] = TRUE]
      BY <3>1, <3>4
    <3> QED BY <3>2, <3>3, <3>4
  <2>3. history' \in [early : BOOLEAN, missing : SUBSET Objects, refused : BOOLEAN, ran : [TaskNames -> Nat]]
    <3>1. history' = history \/ \E r \in BOOLEAN : history' = [history EXCEPT !.refused = r]
      <4>1. PICK fits : fits = (BlockFor(xWantedMemory[IF made.text THEN "table" ELSE "text"]) <= made.heap)
        OBVIOUS
      <4>2. history' = history \/ history' = [history EXCEPT !.refused = @ \/ ~ fits]
        BY <1>13, <4>1 DEF xTaskTop
      <4> QED BY <4>2
    <3> QED BY <3>1
  <2> QED BY <2>1, <2>2, <2>3
<1> QED BY <1>1, <1>2, <1>3, <1>4, <1>5, <1>6, <1>7, <1>8, <1>9, <1>10, <1>11, <1>12, <1>13 DEF StartNext

LEMMA TimeCountedNext == RunInv /\ [StartNext]_startVars => RunInv'
<1> SUFFICES ASSUME RunInv, [StartNext]_startVars PROVE RunInv'
  OBVIOUS
<1>0. StartTypeInv /\ StartTypeInv'
  BY StartTypeNext DEF RunInv
<1>01. /\ "vTaskStartScheduler" \notin Running /\ "prvSetupHardware" \notin Running
       /\ "vSetupHighFrequencyTimer" \notin Running /\ "xTempQueue" \notin Running
       /\ "xPortStartScheduler" \in Running /\ "prvPortStartFirstTask" \in Running
       /\ "tasks" \in Running /\ "returned" \notin Running
       /\ \A o \in Objects : o \notin Running
       /\ ClockRange \in Nat \ {0} /\ IsFiniteSet(TaskNames)
  BY StartupAssumption, TaskSet, QueueSet, TasksFinite DEF Objects, Running
<1>1. CASE UNCHANGED startVars
  BY <1>0, <1>1, Unclocked DEF startVars
<1>2. CASE prvSetupHardware
  BY <1>0, <1>01, <1>2, Follows, Unclocked DEF prvSetupHardware, At, Then
<1>3. CASE vSetupHighFrequencyTimer
  BY <1>0, <1>01, <1>3, Follows, Unclocked DEF vSetupHighFrequencyTimer, At, Then
<1>4. ASSUME NEW o \in Objects, Allocate(o) PROVE RunInv'
  <2>1. /\ pc.step = o /\ (pc'.step = o \/ pc'.step = "returned" \/ (o # "IDLE" /\ pc'.step = After(o)))
        /\ clock' = clock /\ history'.ran = history.ran
    <3>1. pc' \in {[pc EXCEPT !.inside = TRUE], [step |-> IF o = "IDLE" THEN "returned" ELSE After(o), inside |-> FALSE]}
          /\ clock' = clock /\ pc.step = o
      BY <1>4 DEF Allocate, Then, At
    <3>2. history' = history \/ history' = [history EXCEPT !.refused = TRUE]
      BY <1>4 DEF Allocate
    <3>3. history'.ran = history.ran
      BY <1>0, <3>2 DEF StartTypeInv
    <3>4. pc = [step |-> o, inside |-> FALSE]
      BY <1>4 DEF Allocate, At
    <3> QED BY <3>1, <3>3, <3>4
  <2>2. pc.step \notin Running /\ pc'.step \notin Running
    BY <1>01, <2>1, Follows
  <2> QED BY <1>0, <2>1, <2>2, Unclocked
<1>5. ASSUME NEW o \in Objects, Create(o) PROVE RunInv'
  <2>1. pc.step = o /\ pc'.step = After(o) /\ clock' = clock /\ history' = history
    BY <1>5 DEF Create, Then
  <2>2. pc.step \notin Running /\ pc'.step \notin Running
    BY <1>01, <2>1, Follows
  <2> QED BY <1>0, <2>1, <2>2, Unclocked
<1>6. CASE vTaskStartScheduler
  <2>1. /\ pc.step = "vTaskStartScheduler" /\ pc'.step = "xPortStartScheduler"
        /\ clock' = [clock EXCEPT !.ulHighFrequencyTimerTicks = 0]
        /\ made' = made /\ history' = history
    BY <1>6, Follows DEF vTaskStartScheduler, At, Then
  <2>2. /\ clock'.ulHighFrequencyTimerTicks = 0 /\ clock'.ulTaskSwitchedInTime = 0
        /\ clock'.ulRunTimeCounter = clock.ulRunTimeCounter
        /\ \A t \in TaskNames : clock.ulRunTimeCounter[t] = 0 /\ history.ran[t] = 0
    BY <1>0, <1>01, <2>1 DEF RunInv, TimeCounted, StartTypeInv
  <2>3. \A t \in TaskNames : clock'.ulRunTimeCounter[t] = 0 /\ history'.ran[t] = 0 /\ Uncounted(t)' = 0
    BY <2>1, <2>2 DEF Uncounted
  <2>4. SumOver(history'.ran, TaskNames) = 0
    <3>1. PICK ran : ran = history'.ran
      OBVIOUS
    <3>2. \A t \in TaskNames : ran[t] \in 0 .. 0
      BY <2>3, <3>1
    <3>3. SumOver(ran, TaskNames) \in 0 .. 0 * Cardinality(TaskNames) /\ Cardinality(TaskNames) \in Nat
      BY <1>01, <3>2, SumBound, FS_CardinalityType
    <3> QED BY <3>1, <3>3
  <2> QED BY <1>0, <1>01, <2>1, <2>2, <2>3, <2>4 DEF RunInv, TimeCounted
<1>7. CASE xPortStartScheduler
  BY <1>0, <1>01, <1>7, Follows, Unclocked DEF xPortStartScheduler, At, Then
<1>8. CASE prvPortStartFirstTask
  BY <1>0, <1>01, <1>8, Unclocked DEF prvPortStartFirstTask, At, Then
<1>9. CASE vUART_ISR
  <2>1. /\ pc' = pc /\ made' = made /\ clock' = clock
        /\ \E m : history' = [Early EXCEPT !.missing = m]
    BY <1>9 DEF vUART_ISR
  <2>2. history'.ran = history.ran
    BY <2>1 DEF Early
  <2> QED BY <1>0, <2>1, <2>2, Unclocked
<1>10. CASE xPortSysTickHandler
  <2>1. /\ pc' = pc /\ made' = made /\ clock' = clock /\ history' = Early
    BY <1>10 DEF xPortSysTickHandler
  <2>2. history'.ran = history.ran
    BY <2>1 DEF Early
  <2> QED BY <1>0, <2>1, <2>2, Unclocked
<1>11. CASE Timer0IntHandler
  <2>1. /\ clock' = [clock EXCEPT !.ulHighFrequencyTimerTicks = (@ + 1) % ClockRange,
                            !.interrupts = @ + 1]
        /\ history' =
             IF pc.step \in Running
               THEN [history EXCEPT !.ran[made.pxCurrentTCB] = @ + 1] ELSE history
        /\ pc' = pc /\ made' = made
    BY <1>11 DEF Timer0IntHandler, Running
  <2>2. /\ clock'.ulHighFrequencyTimerTicks = (clock.ulHighFrequencyTimerTicks + 1) % ClockRange
        /\ clock'.ulTaskSwitchedInTime = clock.ulTaskSwitchedInTime
        /\ clock'.ulRunTimeCounter = clock.ulRunTimeCounter
    BY <1>0, <2>1 DEF StartTypeInv
  <2>3. CASE pc.step \notin Running
    BY <1>0, <2>1, <2>2, <2>3 DEF RunInv, TimeCounted
  <2>4. CASE pc.step \in Running
    <3>0. PICK cur, ticks, from : /\ cur = made.pxCurrentTCB
                                  /\ ticks = clock.ulHighFrequencyTimerTicks
                                  /\ from = clock.ulTaskSwitchedInTime
      OBVIOUS
    <3>1. cur \in TaskNames /\ ticks \in 0 .. ClockRange - 1 /\ from \in 0 .. ClockRange - 1
          /\ clock.ulRunTimeCounter \in [TaskNames -> Nat] /\ history.ran \in [TaskNames -> Nat]
      BY <1>0, <2>4, <3>0 DEF StartTypeInv
    <3>2. history'.ran = [history.ran EXCEPT ![cur] = @ + 1]
      BY <1>0, <2>1, <2>4, <3>0 DEF StartTypeInv
    <3>3. history'.ran[cur] = history.ran[cur] + 1 /\ \A t \in TaskNames : t # cur => history'.ran[t] = history.ran[t]
      BY <3>1, <3>2
    <3>4. (ticks + 1) % ClockRange = IF ticks + 1 < ClockRange THEN ticks + 1 ELSE 0
      BY <1>01, <3>1
    <3>5. /\ \A t \in TaskNames : t # cur => Uncounted(t) = 0 /\ Uncounted(t)' = 0
          /\ Uncounted(cur) = IF ticks > from THEN ticks - from ELSE 0
          /\ Uncounted(cur)' = IF (ticks + 1) % ClockRange > from THEN ((ticks + 1) % ClockRange) - from ELSE 0
      BY <2>1, <2>2, <3>0 DEF Uncounted
    <3>6. \A t \in TaskNames : clock.ulRunTimeCounter[t] + Uncounted(t) <= history.ran[t]
      BY <2>4, <3>0 DEF RunInv, TimeCounted
    <3>7. SumOver(history'.ran, TaskNames) = SumOver(history.ran, TaskNames) + 1
          /\ SumOver(history.ran, TaskNames) \in Int
      <4>1. PICK r, s : r = history.ran /\ s = history'.ran
        OBVIOUS
      <4> DEFINE E == TaskNames \ {cur}
      <4>2. (\A t \in TaskNames : r[t] \in Int /\ s[t] \in Int) /\ \A t \in E : r[t] = s[t]
        BY <3>1, <3>3, <4>1
      <4>3. SumOver(r, TaskNames) = r[cur] + SumOver(r, E)
        <5>1. \A t \in TaskNames : r[t] \in Int
          BY <4>2
        <5>2. \A t \in TaskNames : SumOver(r, TaskNames) = r[t] + SumOver(r, TaskNames \ {t})
          BY ONLY <1>01, <5>1, SumAny
        <5> QED BY <3>1, <5>2
      <4>4. SumOver(s, TaskNames) = s[cur] + SumOver(s, E)
        BY <1>01, <3>1, <4>2, SumAny
      <4>5. SumOver(r, E) = SumOver(s, E) /\ SumOver(r, E) \in Int
        <5>1. IsFiniteSet(E)
          BY <1>01, FS_RemoveElement
        <5>2. \A t \in E : r[t] \in Int
          BY <4>2
        <5> HIDE DEF E
        <5> QED BY <4>2, <5>1, <5>2, SumEqual, SumAny
      <4>6. s[cur] = r[cur] + 1 /\ r[cur] \in Int
        BY <3>1, <3>3, <4>1
      <4>7. SumOver(s, TaskNames) = SumOver(r, TaskNames) + 1 /\ SumOver(r, TaskNames) \in Int
        <5> HIDE DEF E
        <5> QED BY ONLY <4>3, <4>4, <4>5, <4>6
      <4> QED BY <4>1, <4>7
    <3>8. SumOver(history.ran, TaskNames) < ClockRange =>
            /\ ticks = SumOver(history.ran, TaskNames) /\ from <= ticks
            /\ \A t \in TaskNames : clock.ulRunTimeCounter[t] + Uncounted(t) = history.ran[t]
      BY <2>4, <3>0 DEF RunInv, TimeCounted
    <3>9. pc'.step \in Running
      BY <2>1, <2>4
    <3>10. ASSUME NEW t \in TaskNames PROVE clock'.ulRunTimeCounter[t] + Uncounted(t)' <= history'.ran[t]
      <4>1. clock.ulRunTimeCounter[t] \in Nat /\ history.ran[t] \in Nat
        BY <3>1
      <4>2. CASE t # cur
        BY <2>2, <3>3, <3>5, <3>6, <4>2
      <4>3. CASE t = cur
        <5>1. Uncounted(cur)' <= Uncounted(cur) + 1 /\ Uncounted(cur) \in Nat /\ Uncounted(cur)' \in Nat
          BY <1>01, <3>1, <3>4, <3>5
        <5> QED BY <2>2, <3>3, <3>6, <4>1, <4>3, <5>1
      <4> QED BY <4>2, <4>3
    <3>11. ASSUME SumOver(history'.ran, TaskNames) < ClockRange
           PROVE  /\ clock'.ulHighFrequencyTimerTicks = SumOver(history'.ran, TaskNames)
                  /\ clock'.ulTaskSwitchedInTime <= clock'.ulHighFrequencyTimerTicks
                  /\ \A t \in TaskNames : clock'.ulRunTimeCounter[t] + Uncounted(t)' = history'.ran[t]
      <4>1. /\ ticks = SumOver(history.ran, TaskNames) /\ from <= ticks /\ ticks + 1 < ClockRange
            /\ \A t \in TaskNames : clock.ulRunTimeCounter[t] + Uncounted(t) = history.ran[t]
        <5>1. SumOver(history.ran, TaskNames) < ClockRange
          BY <1>01, <3>7, <3>11
        <5> QED BY <3>7, <3>8, <3>11, <5>1
      <4>2. (ticks + 1) % ClockRange = ticks + 1
        BY <3>4, <4>1
      <4>3. ASSUME NEW t \in TaskNames PROVE clock'.ulRunTimeCounter[t] + Uncounted(t)' = history'.ran[t]
        <5>1. clock.ulRunTimeCounter[t] \in Nat /\ history.ran[t] \in Nat
          BY <3>1
        <5>2. CASE t # cur
          BY <2>2, <3>3, <3>5, <4>1, <5>2
        <5>3. CASE t = cur
          <6>1. Uncounted(cur)' = Uncounted(cur) + 1 /\ Uncounted(cur) \in Nat
            BY <1>01, <3>1, <3>5, <4>1, <4>2
          <6> QED BY <2>2, <3>3, <4>1, <5>1, <5>3, <6>1
        <5> QED BY <5>2, <5>3
      <4>4. from <= ticks + 1
        BY <3>1, <4>1
      <4> QED BY <2>2, <3>0, <3>7, <4>1, <4>2, <4>3, <4>4
    <3> QED BY <1>0, <3>9, <3>10, <3>11 DEF RunInv, TimeCounted
  <2> QED BY <2>3, <2>4
<1>12. CASE vTaskSwitchContext
  <2> DEFINE cur == made.pxCurrentTCB
             ticks == clock.ulHighFrequencyTimerTicks
             from == clock.ulTaskSwitchedInTime
             time == ticks - from
  <2>1. /\ pc.step = "tasks" /\ pc' = pc /\ history' = history
        /\ clock' = [clock EXCEPT !.ulTaskSwitchedInTime = ticks,
                       !.ulRunTimeCounter[cur] = IF time > 0 THEN (@ + time) % ClockRange ELSE @]
    BY <1>12 DEF vTaskSwitchContext, At
  <2>2. cur \in TaskNames /\ ticks \in 0 .. ClockRange - 1 /\ from \in 0 .. ClockRange - 1
        /\ clock.ulRunTimeCounter \in [TaskNames -> Nat] /\ history.ran \in [TaskNames -> Nat]
    BY <1>0, <1>01, <2>1 DEF StartTypeInv
  <2>3. /\ clock'.ulHighFrequencyTimerTicks = ticks /\ clock'.ulTaskSwitchedInTime = ticks
        /\ clock'.ulRunTimeCounter[cur] = IF time > 0 THEN (clock.ulRunTimeCounter[cur] + time) % ClockRange
                                                      ELSE clock.ulRunTimeCounter[cur]
        /\ \A t \in TaskNames : t # cur => clock'.ulRunTimeCounter[t] = clock.ulRunTimeCounter[t]
    <3>1. PICK value : value = IF time > 0 THEN (clock.ulRunTimeCounter[cur] + time) % ClockRange
                                           ELSE clock.ulRunTimeCounter[cur]
      OBVIOUS
    <3>2. PICK counters : counters = [clock.ulRunTimeCounter EXCEPT ![cur] = value]
      OBVIOUS
    <3>3. clock' = [clock EXCEPT !.ulTaskSwitchedInTime = ticks, !.ulRunTimeCounter = counters]
      BY <2>1, <3>1, <3>2
    <3>4. counters[cur] = value /\ \A t \in TaskNames : t # cur => counters[t] = clock.ulRunTimeCounter[t]
      BY <2>2, <3>2
    <3>5. clock'.ulHighFrequencyTimerTicks = ticks /\ clock'.ulTaskSwitchedInTime = ticks
          /\ clock'.ulRunTimeCounter = counters
      BY <1>0, <3>3 DEF StartTypeInv
    <3> QED BY <3>1, <3>4, <3>5
  <2>4. \A t \in TaskNames : Uncounted(t)' = 0
    BY <2>2, <2>3 DEF Uncounted
  <2>5. /\ \A t \in TaskNames : t # cur => Uncounted(t) = 0
        /\ Uncounted(cur) = IF time > 0 THEN time ELSE 0
    <3>1. ticks > from <=> time > 0
      BY <2>2
    <3> QED BY <3>1 DEF Uncounted
  <2>6. /\ \A t \in TaskNames : clock.ulRunTimeCounter[t] + Uncounted(t) <= history.ran[t]
        /\ SumOver(history.ran, TaskNames) < ClockRange =>
            /\ ticks = SumOver(history.ran, TaskNames) /\ from <= ticks
            /\ \A t \in TaskNames : clock.ulRunTimeCounter[t] + Uncounted(t) = history.ran[t]
    BY <1>01, <2>1 DEF RunInv, TimeCounted
  <2>7. time \in Int /\ \A t \in TaskNames : clock.ulRunTimeCounter[t] \in Nat /\ history.ran[t] \in Nat
    BY <2>2
  <2>8. \A t \in TaskNames : history.ran[t] <= SumOver(history.ran, TaskNames)
    BY <1>01, <2>7, SumNat
  <2>9. SumOver(history.ran, TaskNames) \in Nat
    BY <1>01, <2>7, SumNat
  <2> HIDE DEF cur, time, ticks, from
  <2>10. \A n \in Nat : n % ClockRange <= n /\ n % ClockRange \in Nat /\ (n < ClockRange => n % ClockRange = n)
    BY <1>01
  <2>11. ASSUME NEW t \in TaskNames PROVE clock'.ulRunTimeCounter[t] + Uncounted(t)' <= history'.ran[t]
    <3>1. CASE t # cur
      BY <2>1, <2>3, <2>4, <2>5, <2>6, <2>7, <3>1
    <3>2. CASE t = cur /\ time > 0
      <4>1. clock.ulRunTimeCounter[cur] + time \in Nat /\ clock.ulRunTimeCounter[cur] + time <= history.ran[cur]
        BY <2>2, <2>5, <2>6, <2>7, <3>2
      <4>2. clock'.ulRunTimeCounter[cur] <= clock.ulRunTimeCounter[cur] + time /\ clock'.ulRunTimeCounter[cur] \in Nat
        BY <2>3, <2>10, <3>2, <4>1
      <4> QED BY <2>1, <2>2, <2>4, <2>7, <3>2, <4>1, <4>2
    <3>3. CASE t = cur /\ ~ (time > 0)
      BY <2>1, <2>2, <2>3, <2>4, <2>5, <2>6, <2>7, <3>3
    <3> QED BY <3>1, <3>2, <3>3
  <2>12. ASSUME SumOver(history'.ran, TaskNames) < ClockRange
         PROVE  /\ clock'.ulHighFrequencyTimerTicks = SumOver(history'.ran, TaskNames)
                /\ clock'.ulTaskSwitchedInTime <= clock'.ulHighFrequencyTimerTicks
                /\ \A t \in TaskNames : clock'.ulRunTimeCounter[t] + Uncounted(t)' = history'.ran[t]
    <3>1. /\ ticks = SumOver(history.ran, TaskNames)
          /\ \A t \in TaskNames : clock.ulRunTimeCounter[t] + Uncounted(t) = history.ran[t]
      BY <2>1, <2>6, <2>12
    <3>2. ASSUME NEW t \in TaskNames PROVE clock'.ulRunTimeCounter[t] + Uncounted(t)' = history'.ran[t]
      <4>1. CASE t # cur
        BY <2>1, <2>3, <2>4, <2>5, <2>7, <3>1, <4>1
      <4>2. CASE t = cur /\ time > 0
        <5>1. clock.ulRunTimeCounter[cur] + time \in Nat /\ clock.ulRunTimeCounter[cur] + time = history.ran[cur]
          BY <2>2, <2>5, <2>7, <3>1, <4>2
        <5>2. history.ran[cur] < ClockRange
          BY <1>01, <2>1, <2>2, <2>7, <2>8, <2>9, <2>12
        <5>3. clock'.ulRunTimeCounter[cur] = history.ran[cur]
          BY <2>3, <2>10, <4>2, <5>1, <5>2
        <5> QED BY <2>1, <2>2, <2>4, <2>7, <4>2, <5>3
      <4>3. CASE t = cur /\ ~ (time > 0)
        BY <2>1, <2>2, <2>3, <2>4, <2>5, <2>7, <3>1, <4>3
      <4> QED BY <4>1, <4>2, <4>3
    <3> QED BY <2>1, <2>2, <2>3, <3>1, <3>2
  <2>13. pc'.step \in Running
    BY <1>01, <2>1
  <2> QED BY <1>0, <2>11, <2>12, <2>13 DEF RunInv, TimeCounted
<1>13. CASE xTaskTop
  <2>1. /\ pc' = pc /\ clock' = clock
    BY <1>13 DEF xTaskTop
  <2>2. made'.pxCurrentTCB = made.pxCurrentTCB
    <3> DEFINE next == IF made.text THEN "table" ELSE "text"
    <3>1. \E x, y : \/ made' = [made EXCEPT !.table = x, !.heap = y]
                    \/ made' = [made EXCEPT !.heap = x, ![next] = y]
                    \/ made' = made
      BY <1>13 DEF xTaskTop
    <3>2. next # "pxCurrentTCB"
      OBVIOUS
    <3> HIDE DEF next
    <3> QED BY <1>0, <3>1, <3>2 DEF StartTypeInv
  <2>3. history'.ran = history.ran
    <3>1. history' = history \/ \E x : history' = [history EXCEPT !.refused = x]
      BY <1>13 DEF xTaskTop
    <3> QED BY <1>0, <3>1 DEF StartTypeInv
  <2> QED BY <1>0, <2>1, <2>2, <2>3, Unclocked
<1> QED BY <1>1, <1>2, <1>3, <1>4, <1>5, <1>6, <1>7, <1>8, <1>9, <1>10, <1>11, <1>12, <1>13 DEF StartNext

\* What is counted for a task is the time it ran, up to the last switch.
THEOREM RunTimeInvariant == StartSpec => []RunInv
<1> QED BY RunInvInit, TimeCountedNext, PTL DEF StartSpec

\* The statistics show the time that each task ran, until the clock wraps, and never more:
\* whatever the range of the clock is, and whenever timer 0 interrupts and tasks switch.
THEOREM StatisticsAreExact == StartSpec => []RunTimeExact
<1>1. RunInv => RunTimeExact
  <2> SUFFICES ASSUME RunInv, NEW t \in ToSet(Tasks)
               PROVE  /\ clock.ulRunTimeCounter[t] <= history.ran[t]
                      /\ At("tasks") /\ FoldFunction(+, 0, history.ran) < ClockRange
                           => clock.ulRunTimeCounter[t]
                                + (IF t = made.pxCurrentTCB /\ At("tasks")
                                     THEN clock.ulHighFrequencyTimerTicks - clock.ulTaskSwitchedInTime
                                     ELSE 0) = history.ran[t]
    BY Zenon DEF RunTimeExact
  <2>1. t \in TaskNames
    BY DEF TaskNames
  <2>2. /\ clock.ulHighFrequencyTimerTicks \in Int /\ clock.ulTaskSwitchedInTime \in Int
        /\ clock.ulRunTimeCounter[t] \in Nat /\ history.ran[t] \in Nat /\ DOMAIN history.ran = TaskNames
    BY <2>1 DEF RunInv, StartTypeInv
  <2>3. Uncounted(t) \in Nat
    BY <2>2 DEF Uncounted
  <2>4. clock.ulRunTimeCounter[t] <= history.ran[t]
    BY <2>1, <2>2, <2>3 DEF RunInv, TimeCounted
  <2>5. FoldFunction(+, 0, history.ran) = SumOver(history.ran, TaskNames)
    BY <2>2, Zenon DEF FoldFunction, SumOver
  <2>6. ASSUME At("tasks"), SumOver(history.ran, TaskNames) < ClockRange
        PROVE  clock.ulRunTimeCounter[t]
                 + (IF t = made.pxCurrentTCB /\ At("tasks")
                      THEN clock.ulHighFrequencyTimerTicks - clock.ulTaskSwitchedInTime
                      ELSE 0) = history.ran[t]
    <3>1. pc.step \in Running
      BY <2>6 DEF At, Running
    <3>2. /\ clock.ulTaskSwitchedInTime <= clock.ulHighFrequencyTimerTicks
          /\ clock.ulRunTimeCounter[t] + Uncounted(t) = history.ran[t]
      BY <2>1, <2>6, <3>1 DEF RunInv, TimeCounted
    <3>3. Uncounted(t) = IF t = made.pxCurrentTCB
                           THEN clock.ulHighFrequencyTimerTicks - clock.ulTaskSwitchedInTime ELSE 0
      BY <2>2, <3>2 DEF Uncounted
    <3> QED BY <2>6, <3>2, <3>3
  <2>7. FoldFunction(+, 0, history.ran) < ClockRange => SumOver(history.ran, TaskNames) < ClockRange
    BY ONLY <2>5, Zenon
  <2> QED BY <2>4, <2>6, <2>7, Zenon
<1> QED BY <1>1, RunTimeInvariant, PTL

-----------------------------------------------------------------------------
(* Before the first task.                                                  *)

\* The sizes of the blocks that the objects take, and what xTaskTop has not taken.
Need == [o \in Objects |-> Needed(o)]
NotTaken ==
  (IF made.text THEN 0 ELSE BlockFor(xWantedMemory.text))
    + (IF made.table THEN 0 ELSE BlockFor(xWantedMemory.table))

MadeBefore(k) == {Program[i] : i \in {i \in 3 .. 10 : i < k}}

\* The objects that have no memory yet.
Pending == Objects \ (made.objects \cup IF pc.inside THEN {pc.step} ELSE {})

Stage(k) ==
  /\ pc.step = Program[k]
  /\ pc.inside => k \in 3 .. 10
  /\ made.objects = MadeBefore(k)
  /\ cpu.BASEPRI = IF k \in 3 .. 13 THEN "masked" ELSE "open"
  /\ k <= 12 => cpu.uxCriticalNesting = NestingAtBoot + IF pc.inside THEN 1 ELSE 0

\* The sizes are given as a constant.
ReadyInv(need) ==
  /\ StartTypeInv
  /\ cpu \in [BASEPRI : {"open", "masked"}, uxCriticalNesting : Int,
              enabled : SUBSET {"INT_UART0", "INT_TIMER0A", "SysTick"}]
  /\ ~ history.early /\ history.missing = {} /\ ~ history.refused
  /\ made.heap >= SumOver(need, Pending) + NotTaken
  /\ \E k \in 1 .. 14 : Stage(k)

LEMMA NestingIs == NestingAtBoot \in Nat /\ NestingAtBoot > 1
  BY DEF NestingAtBoot

LEMMA MadeIs ==
  /\ MadeBefore(1) = {} /\ MadeBefore(2) = {} /\ MadeBefore(3) = {}
  /\ \A k \in 3 .. 10 : MadeBefore(k + 1) = MadeBefore(k) \cup {Program[k]}
                        /\ Program[k] \in Objects \ MadeBefore(k)
  /\ \A k \in 11 .. 14 : MadeBefore(k) = Objects
<1>1. MadeBefore(1) = {} /\ MadeBefore(2) = {} /\ MadeBefore(3) = {}
  BY DEF MadeBefore
<1>2. ASSUME NEW k \in 3 .. 10
      PROVE  MadeBefore(k + 1) = MadeBefore(k) \cup {Program[k]}
             /\ Program[k] \in Objects \ MadeBefore(k)
  <2>1. \A i \in 3 .. 10 : i < k + 1 <=> i < k \/ i = k
    OBVIOUS
  <2>2. MadeBefore(k + 1) = MadeBefore(k) \cup {Program[k]}
    BY <2>1 DEF MadeBefore
  <2>3. Program[k] \in Objects
    BY Steps
  <2>4. Program[k] \notin MadeBefore(k)
    BY Steps DEF MadeBefore
  <2> QED BY <2>2, <2>3, <2>4
<1>3. ASSUME NEW k \in 11 .. 14 PROVE MadeBefore(k) = Objects
  BY Steps DEF MadeBefore
<1> QED BY <1>1, <1>2, <1>3

\* Each object needs memory, and finitely many do.
LEMMA NeedIs ==
  /\ IsFiniteSet(Objects) /\ \A o \in Objects : Need[o] = Needed(o) /\ Need[o] \in Nat
  /\ \A S \in SUBSET Objects :
       /\ SumOver(Need, S) \in Nat
       /\ \A o \in S : SumOver(Need, S) = Needed(o) + SumOver(Need, S \ {o})
                       /\ SumOver(Need, S \ {o}) \in Nat
<1>1. IsFiniteSet(Objects)
  <2>1. IsFiniteSet(3 .. 10)
    <3>1. \A m, n \in Int : IsFiniteSet(m .. n)
      BY FS_Interval
    <3>2. 3 \in Int /\ 10 \in Int
      OBVIOUS
    <3> QED BY ONLY <3>1, <3>2, Zenon
  <2>2. PICK f : f = [i \in 3 .. 10 |-> Program[i]]
    OBVIOUS
  <2>3. f \in Surjection(3 .. 10, Objects)
    BY <2>2, Steps DEF Surjection
  <2> QED BY <2>1, <2>3, FS_Surjection
<1>2. \A o \in Objects : Need[o] = Needed(o) /\ Need[o] \in Nat
  BY NeededIs DEF Need
<1>3. ASSUME NEW S \in SUBSET Objects
      PROVE  /\ SumOver(Need, S) \in Nat
             /\ \A o \in S : SumOver(Need, S) = Needed(o) + SumOver(Need, S \ {o})
                             /\ SumOver(Need, S \ {o}) \in Nat
  <2>1. IsFiniteSet(S) /\ \A o \in S : Need[o] \in Nat /\ Need[o] \in Int
    BY <1>1, <1>2, FS_Subset
  <2>2. SumOver(Need, S) \in Nat
    BY ONLY <2>1, SumNat
  <2>3. \A o \in S : SumOver(Need, S) = Need[o] + SumOver(Need, S \ {o})
    BY ONLY <2>1, SumAny
  <2>4. ASSUME NEW o \in S PROVE SumOver(Need, S \ {o}) \in Nat
    <3>1. PICK R : R = S \ {o}
      OBVIOUS
    <3>2. IsFiniteSet(R) /\ \A x \in R : Need[x] \in Nat
      BY <2>1, <3>1, FS_RemoveElement
    <3>3. SumOver(Need, R) \in Nat
      BY ONLY <3>2, SumNat
    <3> QED BY <3>1, <3>3
  <2> QED BY <1>2, <2>2, <2>3, <2>4
<1> QED BY <1>1, <1>2, <1>3

LEMMA NotTakenIs ==
  /\ xWantedMemory.text \in Nat /\ xWantedMemory.table \in Nat
  /\ BlockFor(xWantedMemory.text) \in Nat /\ BlockFor(xWantedMemory.table) \in Nat
<1>1. xWantedMemory.text \in Nat /\ xWantedMemory.table \in Nat
  BY StartupAssumption
<1> QED BY <1>1, BlockForIs

LEMMA ReadyInit == ASSUME NEW need, need = Need, HeapSuffices, StartInit PROVE ReadyInv(need)
<1>1. /\ pc = [step |-> Program[1], inside |-> FALSE]
      /\ cpu = [BASEPRI |-> "open", uxCriticalNesting |-> NestingAtBoot, enabled |-> {}]
      /\ made = [objects |-> {}, pxCurrentTCB |-> "none", heap |-> HeapBytes, text |-> FALSE, table |-> FALSE]
      /\ history = [early |-> FALSE, missing |-> {}, refused |-> FALSE, ran |-> [t \in ToSet(Tasks) |-> 0]]
  BY DEF StartInit
<1>2. Stage(1)
  BY <1>1, MadeIs, NestingIs DEF Stage
<1>3. StartTypeInv
  BY RunInvInit DEF RunInv
<1>4. made.heap >= SumOver(need, Pending) + NotTaken
  <2>1. Pending = Objects /\ DOMAIN need = Objects
    BY <1>1 DEF Pending, Need
  <2>2. FoldFunction(+, 0, need) = SumOver(need, Objects)
    BY <2>1, Zenon DEF FoldFunction, SumOver
  <2>3. SumOver(need, Objects) + BlockFor(xWantedMemory.text) + BlockFor(xWantedMemory.table) <= HeapBytes
    BY <2>2, Zenon DEF HeapSuffices, Need
  <2>4. NotTaken = BlockFor(xWantedMemory.text) + BlockFor(xWantedMemory.table)
    BY <1>1, NotTakenIs DEF NotTaken
  <2>5. SumOver(need, Objects) \in Nat
    BY NeedIs
  <2>6. HeapBytes \in Nat /\ made.heap = HeapBytes
    BY <1>1, StartupAssumption
  <2> QED BY <2>1, <2>3, <2>4, <2>5, <2>6, NotTakenIs
<1> QED BY <1>1, <1>2, <1>3, <1>4, NestingIs DEF ReadyInv

\* What the step of a stage does to it, and what it needs of the heap.
LEMMA NextStage ==
  ASSUME NEW need, ReadyInv(need), NEW k \in 1 .. 14, Stage(k), StartTypeInv', NEW j \in 1 .. 14, Stage(j)',
         cpu' \in [BASEPRI : {"open", "masked"}, uxCriticalNesting : Int,
                   enabled : SUBSET {"INT_UART0", "INT_TIMER0A", "SysTick"}],
         history'.early = history.early, history'.missing = history.missing,
         history'.refused = history.refused, made' = made, Pending' = Pending
  PROVE  ReadyInv(need)'
<1>1. NotTaken' = NotTaken
  BY DEF NotTaken
<1> QED BY <1>1 DEF ReadyInv

\* An interrupt of the kernel's priorities does not come between.
LEMMA NoneIsEarly ==
  ASSUME StartTypeInv, NEW k \in 1 .. 14, Stage(k), cpu.BASEPRI = "open"
  PROVE  ~ Starting
<1>1. k \notin 3 .. 13
  BY DEF Stage
<1>2. k = 1 \/ k = 2 \/ k = 14
  BY <1>1
<1>3. ~ pc.inside /\ pc.step = Program[k]
  BY <1>2 DEF Stage
<1>4. pc \in [step : Names \cup {"returned"}, inside : BOOLEAN]
  BY DEF StartTypeInv
<1>5. pc = [step |-> Program[k], inside |-> FALSE]
  BY <1>3, <1>4
<1>6. Program[k] = "prvSetupHardware" \/ Program[k] = "vSetupHighFrequencyTimer" \/ Program[k] = "tasks"
  BY <1>2, ProgramIs
<1> QED BY <1>5, <1>6 DEF Starting, At

LEMMA ReadyNext ==
  ASSUME NEW need, need = Need, ReadyInv(need), [StartNext]_startVars
  PROVE  ReadyInv(need)'
<1> DEFINE Cpu == [BASEPRI : {"open", "masked"}, uxCriticalNesting : Int,
                   enabled : SUBSET {"INT_UART0", "INT_TIMER0A", "SysTick"}]
<1>0. StartTypeInv /\ StartTypeInv' /\ cpu \in Cpu
  BY StartTypeNext DEF ReadyInv
<1>00. ~ history.early /\ history.missing = {} /\ ~ history.refused
       /\ made.heap >= SumOver(need, Pending) + NotTaken
  BY DEF ReadyInv
<1>01. PICK k \in 1 .. 14 : Stage(k)
  BY DEF ReadyInv
<1>02. /\ pc.step = Program[k] /\ (pc.inside => k \in 3 .. 10) /\ made.objects = MadeBefore(k)
       /\ cpu.BASEPRI = IF k \in 3 .. 13 THEN "masked" ELSE "open"
       /\ k <= 12 => cpu.uxCriticalNesting = NestingAtBoot + IF pc.inside THEN 1 ELSE 0
  BY <1>01 DEF Stage
<1>03. /\ pc \in [step : Names \cup {"returned"}, inside : BOOLEAN]
       /\ made \in [objects : SUBSET Objects, pxCurrentTCB : TaskNames \cup {"none"}, heap : Int,
                    text : BOOLEAN, table : BOOLEAN]
       /\ history \in [early : BOOLEAN, missing : SUBSET Objects, refused : BOOLEAN, ran : [TaskNames -> Nat]]
  BY <1>0 DEF StartTypeInv
<1>04. need = Need
  OBVIOUS
<1>05. ASSUME NEW i \in 1 .. 14, At(Program[i]) PROVE k = i
  <2>1. Program[k] = Program[i]
    BY <1>02, <1>05 DEF At
  <2> QED BY <1>01, <2>1, Steps
<1>1. CASE UNCHANGED startVars
  <2>1. Stage(k)' /\ Pending' = Pending
    BY <1>01, <1>1 DEF startVars, Stage, Pending
  <2> QED BY <1>0, <1>01, <1>1, <2>1, NextStage DEF startVars
<1>2. CASE prvSetupHardware
  <2>1. /\ k = 1 /\ pc' = [step |-> Program[2], inside |-> FALSE] /\ ~ pc.inside
        /\ cpu' = [cpu EXCEPT !.enabled = @ \cup {"INT_UART0"}]
        /\ made' = made /\ history' = history
    <3>1. k = 1
      <4>1. At("prvSetupHardware")
        BY <1>2 DEF prvSetupHardware
      <4>2. At(Program[1])
        BY <4>1, ProgramIs
      <4> QED BY <1>05, <4>2
    <3>2. pc' = [step |-> Program[2], inside |-> FALSE] /\ ~ pc.inside
      <4>1. pc = [step |-> "prvSetupHardware", inside |-> FALSE]
        BY <1>2 DEF prvSetupHardware, At
      <4>2. pc' = [step |-> After("prvSetupHardware"), inside |-> FALSE]
        BY <1>2 DEF prvSetupHardware, Then
      <4>3. After("prvSetupHardware") = Program[2]
        BY ProgramIs, Follows
      <4> QED BY <4>1, <4>2, <4>3
    <3> QED BY <1>2, <3>1, <3>2 DEF prvSetupHardware
  <2>2. Stage(2)'
    <3>1. made'.objects = MadeBefore(2)
      BY <1>02, <2>1, MadeIs
    <3>2. cpu'.BASEPRI = "open" /\ cpu'.uxCriticalNesting = cpu.uxCriticalNesting
      BY <1>0, <1>02, <2>1
    <3>3. cpu.uxCriticalNesting = NestingAtBoot
      BY <1>02, <2>1, NestingIs
    <3> QED BY <2>1, <3>1, <3>2, <3>3, NestingIs DEF Stage
  <2>3. cpu' \in Cpu
    BY <1>0, <2>1
  <2>4. Pending' = Pending
    BY <2>1 DEF Pending
  <2>5. /\ history'.early = history.early /\ history'.missing = history.missing
        /\ history'.refused = history.refused /\ made' = made /\ 2 \in 1 .. 14
    BY <2>1
  <2> QED BY ONLY ReadyInv(need), <1>0, <1>01, <2>2, <2>3, <2>4, <2>5, NextStage
<1>3. CASE vSetupHighFrequencyTimer
  <2>1. /\ k = 2 /\ pc' = [step |-> Program[3], inside |-> FALSE] /\ ~ pc.inside
        /\ cpu' = [cpu EXCEPT !.BASEPRI = "masked", !.enabled = @ \cup {"INT_TIMER0A"}]
        /\ made' = made /\ history' = history
    <3>1. k = 2
      <4>1. At("vSetupHighFrequencyTimer")
        BY <1>3 DEF vSetupHighFrequencyTimer
      <4>2. At(Program[2])
        BY <4>1, ProgramIs
      <4> QED BY <1>05, <4>2
    <3>2. pc' = [step |-> Program[3], inside |-> FALSE] /\ ~ pc.inside
      <4>1. pc = [step |-> "vSetupHighFrequencyTimer", inside |-> FALSE]
        BY <1>3 DEF vSetupHighFrequencyTimer, At
      <4>2. pc' = [step |-> After("vSetupHighFrequencyTimer"), inside |-> FALSE]
        BY <1>3 DEF vSetupHighFrequencyTimer, Then
      <4>3. After("vSetupHighFrequencyTimer") = Program[3]
        BY ProgramIs, Follows
      <4> QED BY <4>1, <4>2, <4>3
    <3> QED BY <1>3, <3>1, <3>2 DEF vSetupHighFrequencyTimer
  <2>2. Stage(3)'
    <3>1. made'.objects = MadeBefore(3)
      BY <1>02, <2>1, MadeIs
    <3>2. cpu'.BASEPRI = "masked" /\ cpu'.uxCriticalNesting = cpu.uxCriticalNesting
      BY <1>0, <2>1
    <3>3. cpu.uxCriticalNesting = NestingAtBoot
      BY <1>02, <2>1, NestingIs
    <3> QED BY <2>1, <3>1, <3>2, <3>3, NestingIs DEF Stage
  <2>3. cpu' \in Cpu
    BY <1>0, <2>1
  <2>4. Pending' = Pending
    BY <2>1 DEF Pending
  <2>5. /\ history'.early = history.early /\ history'.missing = history.missing
        /\ history'.refused = history.refused /\ made' = made /\ 3 \in 1 .. 14
    BY <2>1
  <2> QED BY ONLY ReadyInv(need), <1>0, <1>01, <2>2, <2>3, <2>4, <2>5, NextStage
<1>4. ASSUME NEW o \in Objects, Allocate(o) PROVE ReadyInv(need)'
  <2>1. /\ At(o) /\ clock' = clock
    BY <1>4 DEF Allocate
  <2>2. k \in 3 .. 10 /\ o = Program[k] /\ ~ pc.inside
    <3>1. PICK i \in 3 .. 10 : o = Program[i]
      BY Steps
    <3>2. k = i
      BY <1>05, <2>1, <3>1
    <3> QED BY <2>1, <3>1, <3>2 DEF At
  <2>3. Pending = Objects \ MadeBefore(k) /\ o \in Pending
    BY <1>02, <2>2, MadeIs DEF Pending
  <2>4. /\ SumOver(need, Pending) = Needed(o) + SumOver(need, Pending \ {o})
        /\ SumOver(need, Pending \ {o}) \in Nat /\ Needed(o) \in Nat
    <3>1. PICK P : P = Pending
      OBVIOUS
    <3>2. P \in SUBSET Objects /\ o \in P
      BY <2>3, <3>1
    <3> QED BY <3>1, <3>2, NeedIs, NeededIs
  <2>5. NotTaken \in Nat /\ NotTaken' = NotTaken
    <3>1. made'.text = made.text /\ made'.table = made.table
      BY <1>03, <1>4 DEF Allocate
    <3> QED BY <3>1, NotTakenIs DEF NotTaken, BlockFor
  <2>6. Needed(o) <= made.heap
    BY <1>00, <1>03, <2>4, <2>5
  <2>7. /\ made' = [made EXCEPT !.heap = @ - Needed(o)]
        /\ cpu' = [cpu EXCEPT !.BASEPRI = "masked", !.uxCriticalNesting = @ + 1]
        /\ pc' = [pc EXCEPT !.inside = TRUE] /\ history' = history
    BY <1>4, <2>6 DEF Allocate
  <2>8. pc' = [step |-> o, inside |-> TRUE]
    BY <2>1, <2>7 DEF At
  <2>9. Stage(k)'
    <3>1. made'.objects = made.objects
      BY <1>03, <2>7
    <3>2. cpu'.BASEPRI = "masked" /\ cpu'.uxCriticalNesting = cpu.uxCriticalNesting + 1
      BY <1>0, <2>7
    <3>3. cpu'.uxCriticalNesting = NestingAtBoot + 1
      BY <1>02, <2>2, <3>2, NestingIs
    <3> QED BY <1>02, <2>2, <2>8, <3>1, <3>2, <3>3 DEF Stage
  <2>10. cpu' \in Cpu
    <3>1. PICK n \in Int : n = cpu.uxCriticalNesting + 1
      BY <1>0
    <3>2. cpu' = [cpu EXCEPT !.BASEPRI = "masked", !.uxCriticalNesting = n]
      BY <2>7, <3>1
    <3> QED BY <1>0, <3>2
  <2>11. Pending' = Pending \ {o}
    <3>1. made'.objects = made.objects
      BY <1>03, <2>7
    <3> QED BY <1>02, <2>2, <2>3, <2>8, <3>1 DEF Pending
  <2>12. made'.heap >= SumOver(need, Pending') + NotTaken'
    <3>1. made'.heap = made.heap - Needed(o)
      BY <1>03, <2>7
    <3>2. made'.heap >= SumOver(need, Pending \ {o}) + NotTaken
      <4>1. made.heap \in Int
        BY <1>03
      <4>2. made.heap >= Needed(o) + SumOver(need, Pending \ {o}) + NotTaken
        BY <1>00, <2>4
      <4> QED BY ONLY <2>4, <2>5, <3>1, <4>1, <4>2
    <3>3. PICK P, Q, h : P = Pending \ {o} /\ Q = need /\ h = NotTaken
      OBVIOUS
    <3>4. P = Pending' /\ Q = need /\ h = NotTaken'
      BY <1>04, <2>5, <2>11, <3>3
    <3> QED BY <3>2, <3>3, <3>4
  <2> QED BY <1>0, <1>00, <1>01, <2>7, <2>9, <2>10, <2>12 DEF ReadyInv
<1>5. ASSUME NEW o \in Objects, Create(o) PROVE ReadyInv(need)'
  <2>1. /\ pc = [step |-> o, inside |-> TRUE] /\ pc' = [step |-> After(o), inside |-> FALSE]
        /\ made' = [made EXCEPT !.objects = @ \cup {o},
                !.pxCurrentTCB = IF o \in ToSet(Queues) \/ (o = "IDLE" /\ @ # "none")
                                   THEN @ ELSE o]
        /\ cpu' = [cpu EXCEPT !.uxCriticalNesting = @ - 1,
                        !.BASEPRI = IF cpu.uxCriticalNesting = 1 THEN "open" ELSE @]
        /\ history' = history
    BY <1>5 DEF Create, Then
  <2>2. k \in 3 .. 10 /\ o = Program[k] /\ k + 1 \in 1 .. 14 /\ After(o) = Program[k + 1]
    <3>1. k \in 3 .. 10 /\ o = Program[k]
      BY <1>02, <2>1
    <3> QED BY <3>1, Steps
  <2>3. cpu.uxCriticalNesting = NestingAtBoot + 1 /\ cpu.BASEPRI = "masked"
    BY <1>02, <2>1, <2>2
  <2>4. cpu'.uxCriticalNesting = NestingAtBoot /\ cpu'.BASEPRI = "masked" /\ cpu' \in Cpu
    <3>1. PICK n \in Int : n = cpu.uxCriticalNesting - 1
      BY <2>3, NestingIs
    <3>2. cpu' = [cpu EXCEPT !.uxCriticalNesting = n, !.BASEPRI = "masked"]
      <4>1. cpu.uxCriticalNesting # 1
        BY <2>3, NestingIs
      <4> QED BY <2>1, <2>3, <3>1, <4>1
    <3>3. n = NestingAtBoot
      BY <2>3, <3>1, NestingIs
    <3> QED BY <1>0, <3>2, <3>3
  <2>5. made'.objects = made.objects \cup {o} /\ made'.heap = made.heap
        /\ made'.text = made.text /\ made'.table = made.table
    BY <1>03, <2>1
  <2>6. made'.objects = MadeBefore(k + 1)
    BY <1>02, <2>2, <2>5, MadeIs
  <2>7. Stage(k + 1)'
    <3>1. k + 1 \in 3 .. 13 /\ k + 1 <= 12
      BY <2>2
    <3> QED BY <2>1, <2>2, <2>4, <2>6, <3>1, NestingIs DEF Stage
  <2>8. Pending' = Pending /\ NotTaken' = NotTaken
    BY <2>1, <2>5 DEF Pending, NotTaken, BlockFor
  <2>9. made'.heap >= SumOver(need, Pending') + NotTaken'
    <3>1. PICK P, Q, h : P = Pending /\ Q = need /\ h = NotTaken
      OBVIOUS
    <3>2. P = Pending' /\ Q = need /\ h = NotTaken'
      BY <1>04, <2>8, <3>1
    <3> QED BY <1>00, <2>5, <3>1, <3>2
  <2> QED BY <1>0, <1>00, <2>1, <2>2, <2>4, <2>7, <2>9 DEF ReadyInv
<1>6. CASE vTaskStartScheduler
  <2>1. /\ k = 11 /\ pc' = [step |-> Program[12], inside |-> FALSE] /\ ~ pc.inside
        /\ cpu' = [cpu EXCEPT !.BASEPRI = "masked"]
        /\ made' = made /\ history' = history
    <3>1. k = 11
      <4>1. At("vTaskStartScheduler")
        BY <1>6 DEF vTaskStartScheduler
      <4>2. At(Program[11])
        BY <4>1, ProgramIs
      <4> QED BY <1>05, <4>2
    <3>2. pc' = [step |-> Program[12], inside |-> FALSE] /\ ~ pc.inside
      <4>1. pc = [step |-> "vTaskStartScheduler", inside |-> FALSE]
        BY <1>6 DEF vTaskStartScheduler, At
      <4>2. pc' = [step |-> After("vTaskStartScheduler"), inside |-> FALSE]
        BY <1>6 DEF vTaskStartScheduler, Then
      <4>3. After("vTaskStartScheduler") = Program[12]
        BY ProgramIs, Follows
      <4> QED BY <4>1, <4>2, <4>3
    <3> QED BY <1>6, <3>1, <3>2 DEF vTaskStartScheduler
  <2>2. Stage(12)'
    <3>1. made'.objects = MadeBefore(12)
      BY <1>02, <2>1, MadeIs
    <3>2. cpu'.BASEPRI = "masked" /\ cpu'.uxCriticalNesting = cpu.uxCriticalNesting
      BY <1>0, <1>02, <2>1
    <3>3. cpu.uxCriticalNesting = NestingAtBoot
      BY <1>02, <2>1, NestingIs
    <3> QED BY <2>1, <3>1, <3>2, <3>3, NestingIs DEF Stage
  <2>3. cpu' \in Cpu
    BY <1>0, <2>1
  <2>4. Pending' = Pending
    BY <1>02, <2>1, MadeIs DEF Pending
  <2>5. /\ history'.early = history.early /\ history'.missing = history.missing
        /\ history'.refused = history.refused /\ made' = made /\ 12 \in 1 .. 14
    BY <2>1
  <2> QED BY ONLY ReadyInv(need), <1>0, <1>01, <2>2, <2>3, <2>4, <2>5, NextStage
<1>7. CASE xPortStartScheduler
  <2>1. /\ k = 12 /\ pc' = [step |-> Program[13], inside |-> FALSE] /\ ~ pc.inside
        /\ cpu' = [cpu EXCEPT !.uxCriticalNesting = 0, !.enabled = @ \cup {"SysTick"}]
        /\ made' = made /\ history' = history
    <3>1. k = 12
      <4>1. At("xPortStartScheduler")
        BY <1>7 DEF xPortStartScheduler
      <4>2. At(Program[12])
        BY <4>1, ProgramIs
      <4> QED BY <1>05, <4>2
    <3>2. pc' = [step |-> Program[13], inside |-> FALSE] /\ ~ pc.inside
      <4>1. pc = [step |-> "xPortStartScheduler", inside |-> FALSE]
        BY <1>7 DEF xPortStartScheduler, At
      <4>2. pc' = [step |-> After("xPortStartScheduler"), inside |-> FALSE]
        BY <1>7 DEF xPortStartScheduler, Then
      <4>3. After("xPortStartScheduler") = Program[13]
        BY ProgramIs, Follows
      <4> QED BY <4>1, <4>2, <4>3
    <3> QED BY <1>7, <3>1, <3>2 DEF xPortStartScheduler
  <2>2. Stage(13)'
    <3>1. made'.objects = MadeBefore(13)
      BY <1>02, <2>1, MadeIs
    <3>2. cpu'.BASEPRI = "masked"
      BY <1>0, <1>02, <2>1
    <3>3. 13 > 12
      BY <1>02, <2>1, NestingIs
    <3> QED BY <2>1, <3>1, <3>2, <3>3, NestingIs DEF Stage
  <2>3. cpu' \in Cpu
    <3>1. PICK e : e = cpu.enabled \cup {"SysTick"}
      OBVIOUS
    <3>2. e \in SUBSET {"INT_UART0", "INT_TIMER0A", "SysTick"}
      BY <1>0, <3>1
    <3>3. cpu' = [cpu EXCEPT !.uxCriticalNesting = 0, !.enabled = e]
      BY <2>1, <3>1
    <3>4. PICK b \in {"open", "masked"} : b = cpu.BASEPRI
      BY <1>0
    <3>5. cpu' = [BASEPRI |-> b, uxCriticalNesting |-> 0, enabled |-> e]
      BY <1>0, <3>3, <3>4
    <3> QED BY ONLY <3>2, <3>4, <3>5
  <2>4. Pending' = Pending
    BY <1>02, <2>1, MadeIs DEF Pending
  <2>5. /\ history'.early = history.early /\ history'.missing = history.missing
        /\ history'.refused = history.refused /\ made' = made /\ 13 \in 1 .. 14
    BY <2>1
  <2> QED BY ONLY ReadyInv(need), <1>0, <1>01, <2>2, <2>3, <2>4, <2>5, NextStage
<1>8. CASE prvPortStartFirstTask
  <2>1. /\ k = 13 /\ pc' = [step |-> Program[14], inside |-> FALSE] /\ ~ pc.inside
        /\ cpu' = [cpu EXCEPT !.BASEPRI = "open"]
        /\ made' = made /\ history' = history
    <3>1. k = 13
      <4>1. At("prvPortStartFirstTask")
        BY <1>8 DEF prvPortStartFirstTask
      <4>2. At(Program[13])
        BY <4>1, ProgramIs
      <4> QED BY <1>05, <4>2
    <3>2. pc' = [step |-> Program[14], inside |-> FALSE] /\ ~ pc.inside
      <4>1. pc = [step |-> "prvPortStartFirstTask", inside |-> FALSE]
        BY <1>8 DEF prvPortStartFirstTask, At
      <4>2. pc' = [step |-> "tasks", inside |-> FALSE]
        BY <1>8 DEF prvPortStartFirstTask, Then
      <4> QED BY <4>1, <4>2, ProgramIs
    <3> QED BY <1>8, <3>1, <3>2 DEF prvPortStartFirstTask
  <2>2. Stage(14)'
    <3>1. made'.objects = MadeBefore(14)
      BY <1>02, <2>1, MadeIs
    <3>2. cpu'.BASEPRI = "open"
      BY <1>0, <1>02, <2>1
    <3>3. 14 > 12
      BY <1>02, <2>1, NestingIs
    <3> QED BY <2>1, <3>1, <3>2, <3>3, NestingIs DEF Stage
  <2>3. cpu' \in Cpu
    BY <1>0, <2>1
  <2>4. Pending' = Pending
    BY <1>02, <2>1, MadeIs DEF Pending
  <2>5. /\ history'.early = history.early /\ history'.missing = history.missing
        /\ history'.refused = history.refused /\ made' = made /\ 14 \in 1 .. 14
    BY <2>1
  <2> QED BY ONLY ReadyInv(need), <1>0, <1>01, <2>2, <2>3, <2>4, <2>5, NextStage
<1>9. CASE vUART_ISR
  <2>1. /\ pc' = pc /\ made' = made /\ cpu' = cpu /\ cpu.BASEPRI = "open"
        /\ history' = [Early EXCEPT !.missing = IF HandlerSends THEN @ \cup ({"xUARTQueue"} \ made.objects) ELSE @]
    BY <1>9 DEF vUART_ISR, Arrives
  <2>2. ~ HandlerSends /\ ~ Starting
    BY <1>0, <1>01, <2>1, NoneIsEarly DEF HandlerSends, Unmasked
  <2>3. history'.early = history.early /\ history'.missing = history.missing /\ history'.refused = history.refused
    BY <1>03, <2>1, <2>2 DEF Early
  <2>4. Stage(k)' /\ Pending' = Pending
    BY <1>01, <2>1 DEF Stage, Pending
  <2> QED BY <1>0, <1>01, <2>1, <2>3, <2>4, NextStage
<1>10. CASE xPortSysTickHandler
  <2>1. /\ pc' = pc /\ made' = made /\ cpu' = cpu /\ cpu.BASEPRI = "open" /\ history' = Early
    BY <1>10 DEF xPortSysTickHandler, Arrives
  <2>2. ~ Starting
    BY <1>0, <1>01, <2>1, NoneIsEarly
  <2>3. history'.early = history.early /\ history'.missing = history.missing /\ history'.refused = history.refused
    BY <1>03, <2>1, <2>2 DEF Early
  <2>4. Stage(k)' /\ Pending' = Pending
    BY <1>01, <2>1 DEF Stage, Pending
  <2> QED BY <1>0, <1>01, <2>1, <2>3, <2>4, NextStage
<1>11. CASE Timer0IntHandler
  <2>1. /\ pc' = pc /\ made' = made /\ cpu' = cpu
        /\ \/ history' = [history EXCEPT !.ran[made.pxCurrentTCB] = @ + 1]
           \/ history' = history
    BY <1>11 DEF Timer0IntHandler
  <2>2. history'.early = history.early /\ history'.missing = history.missing /\ history'.refused = history.refused
    BY <1>03, <2>1
  <2>3. Stage(k)' /\ Pending' = Pending
    BY <1>01, <2>1 DEF Stage, Pending
  <2> QED BY <1>0, <1>01, <2>1, <2>2, <2>3, NextStage
<1>12. CASE vTaskSwitchContext
  <2>1. /\ pc' = pc /\ cpu' = cpu /\ history' = history
        /\ \E t : made' = [made EXCEPT !.pxCurrentTCB = t]
    BY <1>12 DEF vTaskSwitchContext
  <2>2. made'.objects = made.objects /\ made'.heap = made.heap
        /\ made'.text = made.text /\ made'.table = made.table
    BY <1>03, <2>1
  <2>3. Stage(k)' /\ Pending' = Pending /\ NotTaken' = NotTaken
    BY <1>01, <2>1, <2>2 DEF Stage, Pending, NotTaken, BlockFor
  <2>4. made'.heap >= SumOver(need, Pending') + NotTaken'
    <3>1. PICK P, Q, h : P = Pending /\ Q = need /\ h = NotTaken
      OBVIOUS
    <3>2. P = Pending' /\ Q = need /\ h = NotTaken'
      BY <1>04, <2>3, <3>1
    <3> QED BY <1>00, <2>2, <3>1, <3>2
  <2> QED BY <1>0, <1>00, <1>01, <2>1, <2>3, <2>4 DEF ReadyInv
<1>13. CASE xTaskTop
  <2>1. PICK text, table : text = BlockFor(xWantedMemory.text) /\ table = BlockFor(xWantedMemory.table)
    OBVIOUS
  <2>2. text \in Nat /\ table \in Nat /\ made.heap \in Int /\ made.text \in BOOLEAN /\ made.table \in BOOLEAN
    BY <1>03, <2>1, NotTakenIs
  <2>3. k = 14 /\ pc' = pc /\ cpu' = cpu
    BY <1>05, <1>13, ProgramIs DEF xTaskTop
  <2>4. Pending = {} /\ SumOver(need, Pending) = 0 /\ ~ pc.inside
    <3>1. Pending = {} /\ ~ pc.inside
      BY <1>02, <2>3, MadeIs DEF Pending
    <3> QED BY <3>1, SumEmpty
  <2>5. NotTaken = (IF made.text THEN 0 ELSE text) + (IF made.table THEN 0 ELSE table)
        /\ made.heap >= NotTaken
    <3>1. NotTaken = (IF made.text THEN 0 ELSE text) + (IF made.table THEN 0 ELSE table)
      BY <2>1 DEF NotTaken
    <3>2. NotTaken \in Nat
      BY <2>2, <3>1
    <3> QED BY <1>00, <2>4, <3>1, <3>2
  <2>6. /\ made'.objects = made.objects /\ made'.heap >= NotTaken'
        /\ history'.early = history.early /\ history'.missing = history.missing /\ history'.refused = FALSE
    <3>1. CASE made.table
      <4>1. made' = [made EXCEPT !.table = FALSE, !.heap = @ + table] /\ history' = history
        BY <1>13, <2>1, <3>1 DEF xTaskTop
      <4>2. made'.objects = made.objects /\ made'.heap = made.heap + table
            /\ made'.text = made.text /\ made'.table = FALSE
        BY <1>03, <4>1
      <4>3. NotTaken' = (IF made.text THEN 0 ELSE text) + table
        BY <2>1, <4>2 DEF NotTaken, BlockFor
      <4> QED BY <1>00, <2>2, <2>5, <3>1, <4>1, <4>2, <4>3
    <3>2. CASE ~ made.table /\ made.text
      <4>1. BlockFor(xWantedMemory["table"]) = table
        BY <2>1
      <4>2. table <= made.heap
        BY <2>2, <2>5, <3>2
      <4>3. made' = [made EXCEPT !.heap = @ - table, !["table"] = TRUE] /\ history' = [history EXCEPT !.refused = @ \/ FALSE]
        BY <1>13, <3>2, <4>1, <4>2 DEF xTaskTop
      <4>4. made'.objects = made.objects /\ made'.heap = made.heap - table
            /\ made'.text = made.text /\ made'.table = TRUE
        BY <1>03, <4>3
      <4>5. NotTaken' = 0
        BY <3>2, <4>4 DEF NotTaken
      <4>6. history'.early = history.early /\ history'.missing = history.missing /\ history'.refused = FALSE
        BY <1>00, <1>03, <4>3
      <4> QED BY <2>2, <4>2, <4>4, <4>5, <4>6
    <3>3. CASE ~ made.table /\ ~ made.text
      <4>1. BlockFor(xWantedMemory["text"]) = text
        BY <2>1
      <4>2. text <= made.heap /\ made.heap >= text + table
        BY <2>2, <2>5, <3>3
      <4>3. made' = [made EXCEPT !.heap = @ - text, !["text"] = TRUE] /\ history' = [history EXCEPT !.refused = @ \/ FALSE]
        BY <1>13, <3>3, <4>1, <4>2 DEF xTaskTop
      <4>4. made'.objects = made.objects /\ made'.heap = made.heap - text
            /\ made'.text = TRUE /\ made'.table = made.table
        BY <1>03, <4>3
      <4>5. NotTaken' = table
        BY <2>1, <2>2, <3>3, <4>4 DEF NotTaken, BlockFor
      <4>6. history'.early = history.early /\ history'.missing = history.missing /\ history'.refused = FALSE
        BY <1>00, <1>03, <4>3
      <4> QED BY <2>2, <4>2, <4>4, <4>5, <4>6
    <3> QED BY <2>2, <3>1, <3>2, <3>3
  <2>7. Stage(k)' /\ Pending' = {}
    BY <1>01, <2>3, <2>4, <2>6 DEF Stage, Pending
  <2>8. made'.heap >= SumOver(need, Pending') + NotTaken'
    <3>1. PICK Q, P : Q = need /\ P = Pending'
      OBVIOUS
    <3>2. SumOver(Q, P) = 0 /\ Q = need
      BY <1>04, <2>7, <3>1, SumEmpty
    <3>3. NotTaken' \in Int
      BY <2>2, NotTakenIs DEF NotTaken, BlockFor
    <3> QED BY <2>6, <3>1, <3>2, <3>3
  <2> QED BY <1>0, <1>00, <1>01, <2>3, <2>6, <2>7, <2>8 DEF ReadyInv
<1> QED BY <1>1, <1>2, <1>3, <1>4, <1>5, <1>6, <1>7, <1>8, <1>9, <1>10, <1>11, <1>12, <1>13 DEF StartNext

\* If the heap holds what the program allocates, no interrupt of the kernel comes before
\* the first task runs, and then all queues and tasks are there.
THEOREM StartsUninterrupted ==
  ASSUME HeapSuffices
  PROVE  StartSpec => []ReadyBeforeInterrupts
<1>0. PICK need : need = Need
  OBVIOUS
<1>1. StartInit => ReadyInv(need)
  BY <1>0, ReadyInit
<1>2. ReadyInv(need) /\ [StartNext]_startVars => ReadyInv(need)'
  BY <1>0, ReadyNext
<1>3. ReadyInv(need) => ReadyBeforeInterrupts
  <2> SUFFICES ASSUME ReadyInv(need) PROVE ReadyBeforeInterrupts
    OBVIOUS
  <2>1. PICK k \in 1 .. 14 : Stage(k)
    BY DEF ReadyInv
  <2>2. ASSUME At("tasks") PROVE made.objects = Objects
    <3>1. k = 14
      BY <2>1, <2>2, ProgramIs, Steps DEF Stage, At
    <3> QED BY <2>1, <3>1, MadeIs DEF Stage
  <2> QED BY <2>2 DEF ReadyInv, ReadyBeforeInterrupts
<1> QED BY <1>1, <1>2, <1>3, PTL DEF StartSpec

-----------------------------------------------------------------------------
(* The digits of a number.                                                 *)

LEMMA WithoutLastDigit ==
  ASSUME NEW n \in Nat
  PROVE  /\ n \div 10 \in Nat /\ n % 10 \in 0 .. 9 /\ n = 10 * (n \div 10) + (n % 10)
         /\ n # 0 => n \div 10 < n
<1>1. PICK k, m : k = n \div 10 /\ m = n % 10
  OBVIOUS
<1>2. k \in Nat /\ m \in 0 .. 9 /\ n = 10 * k + m
  BY <1>1, Divided
<1>3. n # 0 => k < n
  BY <1>2
<1> QED BY <1>1, <1>2, <1>3

\* The digits of the numbers up to m.
DigitsUpTo(g, m) ==
  g = [n \in 0 .. m |-> IF n = 0 THEN <<>> ELSE Append(g[n \div 10], n % 10)]

LEMMA DigitsAgree ==
  ASSUME NEW g, NEW h, NEW m \in Nat, NEW k \in Nat, DigitsUpTo(g, m), DigitsUpTo(h, k),
         NEW n \in Nat, n <= m, n <= k
  PROVE  g[n] = h[n]
<1> DEFINE T == {j \in Nat : j <= m /\ j <= k /\ g[j] # h[j]}
<1>0. /\ \A j \in 0 .. m : g[j] = IF j = 0 THEN <<>> ELSE Append(g[j \div 10], j % 10)
      /\ \A j \in 0 .. k : h[j] = IF j = 0 THEN <<>> ELSE Append(h[j \div 10], j % 10)
  BY DEF DigitsUpTo
<1> SUFFICES ASSUME T # {} PROVE FALSE
  OBVIOUS
<1>1. PICK j \in T : \A i \in T : j <= i
  <2>1. T \in SUBSET Nat
    OBVIOUS
  <2> HIDE DEF T
  <2> QED BY <2>1, LeastNatural
<1>2. j \in Nat /\ j <= m /\ j <= k /\ g[j] # h[j] /\ j \in 0 .. m /\ j \in 0 .. k
  OBVIOUS
<1>3. j # 0
  BY <1>0, <1>2
<1>4. PICK q : q = j \div 10
  OBVIOUS
<1>5. q \in Nat /\ q < j
  BY <1>2, <1>3, <1>4, WithoutLastDigit
<1>6. q \notin T
  BY <1>1, <1>2, <1>5
<1>7. g[q] = h[q]
  BY <1>2, <1>5, <1>6
<1> HIDE DEF T
<1> QED BY <1>0, <1>2, <1>3, <1>4, <1>7

LEMMA DigitsUpToExist == \A m \in Nat : \E g : DigitsUpTo(g, m)
<1> DEFINE T == {m \in Nat : \E g : DigitsUpTo(g, m)}
<1>1. 0 \in T
  <2> DEFINE g == [n \in 0 .. 0 |-> <<>>]
  <2>1. DigitsUpTo(g, 0)
    <3>1. \A n \in 0 .. 0 : n = 0
      OBVIOUS
    <3> QED BY <3>1 DEF DigitsUpTo
  <2> QED BY <2>1
<1>2. ASSUME NEW m \in Nat, m \in T PROVE m + 1 \in T
  <2>1. PICK g : DigitsUpTo(g, m)
    BY <1>2
  <2>2. \A n \in 0 .. m : g[n] = IF n = 0 THEN <<>> ELSE Append(g[n \div 10], n % 10)
    BY <2>1 DEF DigitsUpTo
  <2> DEFINE h == [n \in 0 .. m + 1 |->
                     IF n = m + 1 THEN Append(g[(m + 1) \div 10], (m + 1) % 10) ELSE g[n]]
  <2>3. \A n \in 0 .. m : h[n] = g[n] /\ n \in 0 .. m + 1
    OBVIOUS
  <2>4. h[m + 1] = Append(g[(m + 1) \div 10], (m + 1) % 10)
    OBVIOUS
  <2>5. DOMAIN h = 0 .. m + 1 /\ h = [n \in 0 .. m + 1 |-> h[n]]
    OBVIOUS
  <2> HIDE DEF h
  <2>6. ASSUME NEW n \in 0 .. m + 1
        PROVE  h[n] = IF n = 0 THEN <<>> ELSE Append(h[n \div 10], n % 10)
    <3>1. CASE n = 0
      <4>1. 0 \in 0 .. m
        OBVIOUS
      <4> QED BY <2>2, <2>3, <3>1, <4>1
    <3>2. CASE n # 0
      <4>1. PICK q : q = n \div 10
        OBVIOUS
      <4>2. q \in 0 .. m
        BY <3>2, <4>1, WithoutLastDigit
      <4>3. h[q] = g[q]
        BY <2>3, <4>2
      <4>4. CASE n = m + 1
        BY <2>4, <3>2, <4>1, <4>3, <4>4
      <4>5. CASE n \in 0 .. m
        BY <2>2, <2>3, <3>2, <4>1, <4>3, <4>5
      <4>6. n = m + 1 \/ n \in 0 .. m
        OBVIOUS
      <4> QED BY <4>4, <4>5, <4>6
    <3> QED BY <3>1, <3>2
  <2>7. DigitsUpTo(h, m + 1)
    BY <2>5, <2>6 DEF DigitsUpTo
  <2> QED BY <2>7
<1>3. Nat \subseteq T
  <2> HIDE DEF T
  <2> QED BY <1>1, <1>2, SetInduction
<1> QED BY <1>3

\* What the recursion of Digits gives.
LEMMA DigitsDef ==
  \A n \in Nat : Digits(n) = IF n = 0 THEN <<>> ELSE Append(Digits(n \div 10), n % 10)
<1> DEFINE IsD(f) == f = [n \in Nat |-> IF n = 0 THEN <<>> ELSE Append(f[n \div 10], n % 10)]
           D == CHOOSE f : IsD(f)
           G(n) == CHOOSE g : DigitsUpTo(g, n)
           F == [n \in Nat |-> G(n)[n]]
<1>1. \A n \in Nat : DigitsUpTo(G(n), n)
  BY DigitsUpToExist
<1>2. ASSUME NEW n \in Nat
      PROVE  F[n] = IF n = 0 THEN <<>> ELSE Append(F[n \div 10], n % 10)
  <2>1. PICK g : g = G(n) /\ DigitsUpTo(g, n) /\ F[n] = g[n]
    BY <1>1
  <2>2. g[n] = IF n = 0 THEN <<>> ELSE Append(g[n \div 10], n % 10)
    <3>1. n \in 0 .. n
      OBVIOUS
    <3> QED BY <2>1, <3>1 DEF DigitsUpTo
  <2>3. CASE n # 0
    <3>1. PICK q : q = n \div 10
      OBVIOUS
    <3>2. q \in Nat /\ q <= n /\ q <= q
      BY <2>3, <3>1, WithoutLastDigit
    <3>3. PICK h : h = G(q) /\ DigitsUpTo(h, q) /\ F[q] = h[q]
      BY <1>1, <3>2
    <3> HIDE DEF F, G
    <3>4. g[q] = h[q]
      BY ONLY <2>1, <3>2, <3>3, DigitsAgree
    <3> QED BY <2>1, <2>2, <2>3, <3>1, <3>3, <3>4
  <2> HIDE DEF F, G
  <2> QED BY <2>1, <2>2, <2>3
<1>3. IsD(F)
  <2>1. F = [n \in Nat |-> F[n]]
    OBVIOUS
  <2> HIDE DEF F
  <2> QED BY <1>2, <2>1
<1>4. IsD(D)
  <2> HIDE DEF F, IsD
  <2> QED BY <1>3
<1>5. \A n : Digits(n) = D[n]
  BY DEF Digits
<1> HIDE DEF D
<1>6. \A n \in Nat : D[n] = IF n = 0 THEN <<>> ELSE Append(D[n \div 10], n % 10)
  BY <1>4
<1> QED BY <1>5, <1>6

LEMMA NoDigits == Digits(0) = <<>>
BY DigitsDef

LEMMA MoreDigits ==
  ASSUME NEW n \in Nat \ {0}
  PROVE  Digits(n) = Append(Digits(n \div 10), n % 10)
BY DigitsDef

LEMMA DigitsType == \A n \in Nat : Digits(n) \in Seq(0 .. 9)
<1> DEFINE T == {n \in Nat : Digits(n) \notin Seq(0 .. 9)}
<1> SUFFICES ASSUME T # {} PROVE FALSE
  OBVIOUS
<1>1. PICK n \in T : \A i \in T : n <= i
  <2>1. T \in SUBSET Nat
    OBVIOUS
  <2> HIDE DEF T
  <2> QED BY <2>1, LeastNatural
<1>2. n \in Nat /\ Digits(n) \notin Seq(0 .. 9)
  OBVIOUS
<1>3. n # 0
  <2>1. <<>> \in Seq(0 .. 9)
    OBVIOUS
  <2> HIDE DEF T
  <2> QED BY <1>2, <2>1, NoDigits
<1>4. PICK q, d : q = n \div 10 /\ d = n % 10
  OBVIOUS
<1>5. q \in Nat /\ q < n /\ d \in 0 .. 9
  BY <1>2, <1>3, <1>4, WithoutLastDigit
<1>6. Digits(q) \in Seq(0 .. 9)
  BY <1>1, <1>2, <1>5
<1>7. Digits(n) = Append(Digits(q), d)
  BY <1>2, <1>3, <1>4, MoreDigits
<1> HIDE DEF T
<1> QED BY <1>2, <1>5, <1>6, <1>7

\* Ten times the bound, one more digit.
LEMMA OneMoreDigit ==
  ASSUME NEW bound \in Nat, NEW k \in Nat, \A n \in Nat : n < bound => Len(Digits(n)) <= k
  PROVE  \A n \in Nat : n < 10 * bound => Len(Digits(n)) <= k + 1
<1> SUFFICES ASSUME NEW n \in Nat, n < 10 * bound PROVE Len(Digits(n)) <= k + 1
  OBVIOUS
<1>1. CASE n = 0
  BY <1>1, NoDigits
<1>2. CASE n # 0
  <2>1. PICK q, d : q = n \div 10 /\ d = n % 10
    OBVIOUS
  <2>2. q \in Nat /\ d \in 0 .. 9 /\ n = 10 * q + d
    BY <2>1, WithoutLastDigit
  <2>3. q < bound
    BY <2>2
  <2>4. Digits(n) = Append(Digits(q), d)
    BY <1>2, <2>1, MoreDigits
  <2>5. Len(Digits(q)) <= k /\ Digits(q) \in Seq(0 .. 9) /\ Len(Digits(q)) \in Nat
    BY <2>2, <2>3, DigitsType
  <2> QED BY <2>2, <2>4, <2>5
<1> QED BY <1>1, <1>2

\* A number of 32 bits fits the buffer.
LEMMA DigitsOfInt == \A n \in 0 .. INT_MAX : Len(Digits(n)) <= 30
<1> DEFINE Fits(bound, k) == \A n \in Nat : n < bound => Len(Digits(n)) <= k
<1>0. ASSUME NEW a \in Nat, NEW k \in Nat, Fits(a, k)
      PROVE  \E b \in Nat : b = 10 * a /\ Fits(b, k + 1)
  <2>1. Fits(10 * a, k + 1)
    BY <1>0, OneMoreDigit
  <2>2. 10 * a \in Nat
    OBVIOUS
  <2> HIDE DEF Fits
  <2> QED BY <2>1, <2>2
<1>1. PICK b0 \in Nat : b0 = 1 /\ Fits(b0, 0)
  <2>1. ASSUME NEW n \in Nat, n < 1 PROVE Len(Digits(n)) <= 0
    <3>1. n = 0
      BY <2>1
    <3> QED BY <3>1, NoDigits
  <2> QED BY <2>1
<1> HIDE DEF Fits
<1>2. PICK b1 \in Nat : b1 = 10 * b0 /\ Fits(b1, 1)
  BY <1>0, <1>1
<1>3. PICK b2 \in Nat : b2 = 10 * b1 /\ Fits(b2, 2)
  BY <1>0, <1>2
<1>4. PICK b3 \in Nat : b3 = 10 * b2 /\ Fits(b3, 3)
  BY <1>0, <1>3
<1>5. PICK b4 \in Nat : b4 = 10 * b3 /\ Fits(b4, 4)
  BY <1>0, <1>4
<1>6. PICK b5 \in Nat : b5 = 10 * b4 /\ Fits(b5, 5)
  BY <1>0, <1>5
<1>7. PICK b6 \in Nat : b6 = 10 * b5 /\ Fits(b6, 6)
  BY <1>0, <1>6
<1>8. PICK b7 \in Nat : b7 = 10 * b6 /\ Fits(b7, 7)
  BY <1>0, <1>7
<1>9. PICK b8 \in Nat : b8 = 10 * b7 /\ Fits(b8, 8)
  BY <1>0, <1>8
<1>10. PICK b9 \in Nat : b9 = 10 * b8 /\ Fits(b9, 9)
  BY <1>0, <1>9
<1>11. PICK b10 \in Nat : b10 = 10 * b9 /\ Fits(b10, 10)
  BY <1>0, <1>10
<1>12. INT_MAX \in Nat /\ INT_MAX < b10
  BY SMT, <1>1, <1>2, <1>3, <1>4, <1>5, <1>6, <1>7, <1>8, <1>9, <1>10, <1>11 DEF INT_MAX
<1> QED
  <2> SUFFICES ASSUME NEW n \in 0 .. INT_MAX PROVE Len(Digits(n)) <= 30
    OBVIOUS
  <2>1. n \in Nat /\ n < b10
    BY <1>12
  <2>2. Len(Digits(n)) <= 10 /\ Len(Digits(n)) \in Nat
    BY <1>11, <2>1, DigitsType DEF Fits
  <2> QED BY <2>2

-----------------------------------------------------------------------------
(* The buffer of itoa.                                                     *)

\* The part of the number that is in the buffer, from place i + 1 on.
WrittenFrom(b, i) == [j \in 1 .. Size - 2 - i |-> b[i + j]]

\* A caller nobody disturbed: what it has still to write, what is in the buffer,
\* and what it has read make up the digits of its number.
Shows(r, b) ==
  /\ r.pc = "write" =>
       /\ r.read = <<>> /\ \A j \in r.i + 1 .. Size - 2 : b[j] \in 0 .. 9
       /\ Digits(r.number) = Digits(r.val) \o WrittenFrom(b, r.i)
  /\ r.pc = "read" =>
       /\ \A j \in r.i .. Size - 2 : b[j] \in 0 .. 9
       /\ Digits(r.number) = r.read \o WrittenFrom(b, r.i - 1)
  /\ r.pc = "shown" => r.read = Digits(r.number)

Calls ==
  [pc : {"idle", "write", "read", "shown"}, number : Nat, val : Nat, i : 0 .. Size - 1,
   read : Seq(0 .. 9), alone : BOOLEAN]

InBuffer(r) ==
  /\ r.pc = "write" => r.i <= Size - 2 /\ Len(Digits(r.number)) <= Size - 2
  /\ r.pc = "read" => r.i >= 1

ItoaInv ==
  /\ buf \in [0 .. Size - 1 -> 0 .. 9 \cup {NUL}] /\ buf[Size - 1] = NUL
  /\ call \in [Callers -> Calls]
  /\ \A c \in Callers : InBuffer(call[c]) /\ (call[c].alone => Shows(call[c], buf))

LEMMA AppendMiddle ==
  ASSUME NEW S, NEW u \in Seq(S), NEW d \in S, NEW w \in Seq(S)
  PROVE  u \o (<<d>> \o w) = Append(u, d) \o w /\ Append(u, d) \in Seq(S)
<1>1. PICK x, y : x = u \o (<<d>> \o w) /\ y = Append(u, d) \o w
  OBVIOUS
<1>2. PICK v : v = <<d>> \o w
  OBVIOUS
<1>3. v \in Seq(S) /\ Len(v) = Len(w) + 1 /\ \A j \in 1 .. Len(v) : v[j] = IF j = 1 THEN d ELSE w[j - 1]
  BY <1>2
<1>4. PICK a : a = Append(u, d)
  OBVIOUS
<1>5. a \in Seq(S) /\ Len(a) = Len(u) + 1 /\ \A j \in 1 .. Len(a) : a[j] = IF j <= Len(u) THEN u[j] ELSE d
  BY <1>4
<1>6. x \in Seq(S) /\ y \in Seq(S) /\ Len(x) = Len(u) + Len(w) + 1 /\ Len(y) = Len(x)
  BY <1>1, <1>2, <1>3, <1>4, <1>5
<1>7. \A j \in 1 .. Len(x) : x[j] = y[j]
  BY <1>1, <1>2, <1>3, <1>4, <1>5, <1>6
<1>8. x = y
  BY <1>6, <1>7
<1> QED BY <1>1, <1>4, <1>5, <1>8

LEMMA WrittenAll == ASSUME NEW b PROVE WrittenFrom(b, Size - 2) = <<>>
<1>1. Size - 2 - (Size - 2) = 0
  BY DEF Size
<1> QED BY <1>1 DEF WrittenFrom

LEMMA WrittenLen ==
  ASSUME NEW b, NEW i \in 0 .. Size - 2, \A j \in i + 1 .. Size - 2 : b[j] \in 0 .. 9
  PROVE  WrittenFrom(b, i) \in Seq(0 .. 9) /\ Len(WrittenFrom(b, i)) = Size - 2 - i
<1>1. PICK n \in Nat : n = Size - 2 - i
  BY DEF Size
<1>2. \A j \in 1 .. n : b[i + j] \in 0 .. 9
  BY <1>1 DEF Size
<1>3. WrittenFrom(b, i) = [j \in 1 .. n |-> b[i + j]]
  BY <1>1 DEF WrittenFrom
<1> QED BY <1>1, <1>2, <1>3

\* One more place in front.
LEMMA WrittenMore ==
  ASSUME NEW b, NEW i \in 1 .. Size - 2, \A j \in i .. Size - 2 : b[j] \in 0 .. 9
  PROVE  WrittenFrom(b, i - 1) = <<b[i]>> \o WrittenFrom(b, i)
<1>1. PICK n \in Nat : n = Size - 2 - i
  BY DEF Size
<1>2. PICK k : k = i - 1
  OBVIOUS
<1>3. k \in 0 .. Size - 2 /\ k + 1 = i /\ Size - 2 - k = n + 1
  BY <1>1, <1>2 DEF Size
<1>4. PICK s : s = WrittenFrom(b, i)
  OBVIOUS
<1>5. PICK t : t = WrittenFrom(b, k)
  OBVIOUS
<1>6. s \in Seq(0 .. 9) /\ Len(s) = n /\ \A j \in 1 .. n : s[j] = b[i + j]
  <2>1. i \in 0 .. Size - 2 /\ \A j \in i + 1 .. Size - 2 : b[j] \in 0 .. 9
    BY DEF Size
  <2> QED BY <1>1, <1>4, <2>1, WrittenLen DEF WrittenFrom
<1>7. t \in Seq(0 .. 9) /\ Len(t) = n + 1 /\ \A j \in 1 .. n + 1 : t[j] = b[k + j]
  <2>1. \A j \in k + 1 .. Size - 2 : b[j] \in 0 .. 9
    BY <1>3
  <2> QED BY <1>3, <1>5, <2>1, WrittenLen DEF WrittenFrom
<1>8. b[i] \in 0 .. 9
  BY DEF Size
<1>9. PICK u : u = <<b[i]>> \o s
  OBVIOUS
<1>10. u \in Seq(0 .. 9) /\ Len(u) = n + 1 /\ u[1] = b[i] /\ \A j \in 2 .. n + 1 : u[j] = s[j - 1]
  BY <1>6, <1>8, <1>9
<1>11. \A j \in 1 .. n + 1 : t[j] = u[j]
  <2> SUFFICES ASSUME NEW j \in 1 .. n + 1 PROVE t[j] = u[j]
    OBVIOUS
  <2>1. CASE j = 1
    BY <1>3, <1>7, <1>10, <2>1
  <2>2. CASE j # 1
    <3>1. j \in 2 .. n + 1 /\ j - 1 \in 1 .. n /\ i + (j - 1) = k + j
      BY <1>3, <2>2
    <3> QED BY <1>6, <1>7, <1>10, <3>1
  <2> QED BY <2>1, <2>2
<1>12. t = u
  BY <1>7, <1>10, <1>11
<1> QED BY <1>2, <1>4, <1>5, <1>9, <1>12

\* What is written depends on no place before it.
LEMMA WrittenSame ==
  ASSUME NEW a, NEW b, NEW i \in 0 .. Size - 2, \A j \in i + 1 .. Size - 2 : a[j] = b[j]
  PROVE  WrittenFrom(a, i) = WrittenFrom(b, i)
<1>1. \A j \in 1 .. Size - 2 - i : a[i + j] = b[i + j]
  BY DEF Size
<1> QED BY <1>1 DEF WrittenFrom

\* A call with another state, and what it keeps.
Update(s, r, phase, val, i, read) ==
  s = [r EXCEPT !.pc = phase, !.val = val, !.i = i, !.read = read]

Updated(s, r, phase, val, i, read) ==
  /\ s \in Calls /\ s.pc = phase /\ s.val = val /\ s.i = i /\ s.read = read
  /\ s.number = r.number /\ s.alone = r.alone

LEMMA CallUpdate ==
  ASSUME NEW r \in Calls, NEW phase \in {"idle", "write", "read", "shown"}, NEW val \in Nat,
         NEW i \in 0 .. Size - 1, NEW read \in Seq(0 .. 9), NEW s,
         Update(s, r, phase, val, i, read)
  PROVE  Updated(s, r, phase, val, i, read)
<1>1. s \in Calls
  BY DEF Calls, Update
<1>2. s.pc = phase /\ s.val = val /\ s.i = i /\ s.read = read /\ s.number = r.number
  BY DEF Calls, Update
<1>3. s.alone = r.alone
  BY DEF Calls, Update
<1> QED BY <1>1, <1>2, <1>3 DEF Updated

LEMMA ShowsOthers ==
  ASSUME NEW r \in Calls, InBuffer(r)
  PROVE  /\ [r EXCEPT !.alone = FALSE] \in Calls
         /\ InBuffer([r EXCEPT !.alone = FALSE]) /\ ~[r EXCEPT !.alone = FALSE].alone
BY DEF Calls, InBuffer

LEMMA ItoaInvInit == ItoaInit => ItoaInv
<1> SUFFICES ASSUME ItoaInit PROVE ItoaInv
  OBVIOUS
<1>1. <<>> \in Seq(0 .. 9)
  OBVIOUS
<1>2. \A c \in Callers :
        call[c] = [pc |-> "idle", number |-> 0, val |-> 0, i |-> 0, read |-> <<>>, alone |-> TRUE]
  BY DEF ItoaInit
<1>3. call \in [Callers -> Calls]
  BY <1>1 DEF ItoaInit, Calls, Size
<1>4. buf \in [0 .. Size - 1 -> 0 .. 9 \cup {NUL}] /\ buf[Size - 1] = NUL
  BY DEF ItoaInit, Size
<1>5. ASSUME NEW c \in Callers PROVE InBuffer(call[c]) /\ Shows(call[c], buf)
  <2>1. call[c].pc = "idle"
    BY <1>2
  <2> QED BY <2>1 DEF InBuffer, Shows
<1> QED BY <1>3, <1>4, <1>5 DEF ItoaInv

LEMMA CallKeeps ==
  ASSUME ItoaInv, NEW c \in Callers, itoa(c)
  PROVE  ItoaInv'
<1>1. PICK number \in Numbers[c] :
        call' = [call EXCEPT ![c] = [pc |-> "write", number |-> number, val |-> number,
                                     i |-> Size - 2, read |-> <<>>, alone |-> TRUE]]
  BY DEF itoa
<1>2. number \in Nat /\ Len(Digits(number)) <= Size - 2 /\ Digits(number) \in Seq(0 .. 9)
  <2>1. number \in 0 .. INT_MAX
    BY ItoaAssumption
  <2> QED BY <2>1, DigitsOfInt, DigitsType DEF Size
<1>3. PICK r : r = [pc |-> "write", number |-> number, val |-> number,
                    i |-> Size - 2, read |-> <<>>, alone |-> TRUE]
  OBVIOUS
<1>4. r \in Calls /\ InBuffer(r)
  <2>1. <<>> \in Seq(0 .. 9) /\ Size - 2 \in 0 .. Size - 1
    BY DEF Size
  <2> QED BY <1>2, <1>3, <2>1 DEF Calls, InBuffer, Size
<1>5. Shows(r, buf)
  <2>1. Digits(number) \o <<>> = Digits(number)
    BY <1>2
  <2>2. \A j \in Size - 2 + 1 .. Size - 2 : buf[j] \in 0 .. 9
    BY DEF Size
  <2> QED BY <1>3, <2>1, <2>2, WrittenAll DEF Shows
<1>6. call' \in [Callers -> Calls] /\ call'[c] = r /\ \A d \in Callers \ {c} : call'[d] = call[d]
  BY <1>1, <1>3, <1>4 DEF ItoaInv
<1>7. buf' = buf
  BY DEF itoa
<1> QED BY <1>4, <1>5, <1>6, <1>7 DEF ItoaInv

LEMMA WriteKeeps ==
  ASSUME ItoaInv, NEW c \in Callers, WriteDigit(c)
  PROVE  ItoaInv'
<1>1. PICK r, i, val, number : /\ r = call[c] /\ i = r.i /\ val = r.val /\ number = r.number
  OBVIOUS
<1>2. /\ r \in Calls /\ r.pc = "write" /\ val \in Nat \ {0} /\ i \in 1 .. Size - 2
      /\ number \in Nat /\ Len(Digits(number)) <= Size - 2 /\ r.read \in Seq(0 .. 9)
      /\ r.alone \in BOOLEAN
  BY <1>1 DEF ItoaInv, WriteDigit, Calls, InBuffer
<1>3. PICK q, digit : q = val \div 10 /\ digit = val % 10
  OBVIOUS
<1>4. q \in Nat /\ digit \in 0 .. 9
  BY <1>2, <1>3, WithoutLastDigit
<1>5. buf' = [buf EXCEPT ![i] = digit]
  BY <1>1, <1>3 DEF WriteDigit
<1>6. /\ buf' \in [0 .. Size - 1 -> 0 .. 9 \cup {NUL}] /\ buf'[Size - 1] = NUL
      /\ buf'[i] = digit /\ \A j \in i + 1 .. Size - 2 : buf'[j] = buf[j]
  <2>1. /\ buf \in [0 .. Size - 1 -> 0 .. 9 \cup {NUL}] /\ buf[Size - 1] = NUL
        /\ i \in 0 .. Size - 1 /\ Size - 1 \in 0 .. Size - 1 /\ i # Size - 1
        /\ digit \in 0 .. 9 \cup {NUL}
    <3>1. buf \in [0 .. Size - 1 -> 0 .. 9 \cup {NUL}] /\ buf[Size - 1] = NUL
      BY DEF ItoaInv
    <3>2. i \in 0 .. Size - 1 /\ Size - 1 \in 0 .. Size - 1 /\ i # Size - 1
      BY <1>2 DEF Size
    <3> QED BY <1>4, <3>1, <3>2
  <2>2. \A j \in 0 .. Size - 1 : buf'[j] = IF j = i THEN digit ELSE buf[j]
    BY <1>5, <2>1
  <2>3. buf' \in [0 .. Size - 1 -> 0 .. 9 \cup {NUL}]
    BY <1>5, <2>1
  <2>4. ASSUME NEW j \in i + 1 .. Size - 2 PROVE buf'[j] = buf[j]
    <3>1. j \in 0 .. Size - 1 /\ j # i
      BY <1>2 DEF Size
    <3> QED BY <2>2, <3>1
  <2> QED BY <2>1, <2>2, <2>3, <2>4
<1>7. PICK s : s = [r EXCEPT !.i = i - 1, !.val = q]
  OBVIOUS
<1>8. call' = [d \in Callers |-> IF d = c THEN s ELSE [call[d] EXCEPT !.alone = FALSE]]
  BY <1>1, <1>3, <1>7 DEF WriteDigit
<1>9. /\ s \in Calls /\ s.pc = "write" /\ s.i = i - 1 /\ s.val = q /\ s.number = number
      /\ s.read = r.read /\ s.alone = r.alone
  <2>1. Update(s, r, "write", q, i - 1, r.read)
    BY <1>2, <1>7 DEF Calls, Update
  <2>2. i - 1 \in 0 .. Size - 1
    BY <1>2 DEF Size
  <2>3. r \in Calls /\ "write" \in {"idle", "write", "read", "shown"} /\ r.read \in Seq(0 .. 9)
    BY <1>2
  <2>4. Updated(s, r, "write", q, i - 1, r.read)
    BY ONLY <1>4, <2>1, <2>2, <2>3, CallUpdate
  <2> QED BY <1>1, <2>4 DEF Updated
<1>10. InBuffer(s)
  BY <1>2, <1>9 DEF InBuffer, Size
<1>11. ASSUME r.alone PROVE Shows(s, buf')
  <2>1. /\ \A j \in i + 1 .. Size - 2 : buf[j] \in 0 .. 9
        /\ Digits(number) = Digits(val) \o WrittenFrom(buf, i) /\ r.read = <<>>
    BY <1>1, <1>2, <1>11 DEF ItoaInv, Shows
  <2>2. \A j \in i .. Size - 2 : buf'[j] \in 0 .. 9
    <3> SUFFICES ASSUME NEW j \in i .. Size - 2 PROVE buf'[j] \in 0 .. 9
      OBVIOUS
    <3>1. j = i \/ j \in i + 1 .. Size - 2
      BY <1>2 DEF Size
    <3> QED BY <1>4, <1>6, <2>1, <3>1
  <2>3. WrittenFrom(buf', i) = WrittenFrom(buf, i)
    <3>1. i \in 0 .. Size - 2
      BY <1>2 DEF Size
    <3>2. PICK a, b : a = buf' /\ b = buf /\ \A j \in i + 1 .. Size - 2 : a[j] = b[j]
      BY <1>6
    <3>3. WrittenFrom(a, i) = WrittenFrom(b, i)
      BY ONLY <3>1, <3>2, WrittenSame
    <3> QED BY <3>2, <3>3
  <2>4. WrittenFrom(buf', i - 1) = <<digit>> \o WrittenFrom(buf', i)
    BY <1>2, <1>6, <2>2, WrittenMore
  <2>5. Digits(val) = Append(Digits(q), digit) /\ Digits(q) \in Seq(0 .. 9)
    BY <1>2, <1>3, <1>4, MoreDigits, DigitsType
  <2>6. PICK w : w = WrittenFrom(buf, i) /\ w \in Seq(0 .. 9)
    <3>1. i \in 0 .. Size - 2
      BY <1>2 DEF Size
    <3> QED BY <2>1, <3>1, WrittenLen
  <2>7. PICK u : u = Digits(q) /\ u \in Seq(0 .. 9)
    BY <2>5
  <2>8. Append(u, digit) \o w = u \o (<<digit>> \o w)
    BY <1>4, <2>6, <2>7
  <2>9. Digits(number) = Digits(q) \o WrittenFrom(buf', i - 1)
    BY <2>1, <2>3, <2>4, <2>5, <2>6, <2>7, <2>8
  <2>10. i - 1 + 1 = i
    BY <1>2
  <2> QED BY <1>9, <2>1, <2>2, <2>9, <2>10 DEF Shows
<1>12. ASSUME NEW d \in Callers \ {c}
       PROVE  call'[d] \in Calls /\ InBuffer(call'[d]) /\ ~call'[d].alone
  <2>1. call[d] \in Calls /\ InBuffer(call[d])
    BY DEF ItoaInv
  <2>2. call'[d] = [call[d] EXCEPT !.alone = FALSE]
    BY <1>8
  <2> QED BY <2>1, <2>2, ShowsOthers
<1>13. call'[c] = s /\ DOMAIN call' = Callers /\ call' = [d \in Callers |-> call'[d]]
  BY <1>8
<1>14. call' \in [Callers -> Calls]
  BY <1>9, <1>12, <1>13
<1>15. ASSUME NEW d \in Callers
       PROVE  InBuffer(call'[d]) /\ (call'[d].alone => Shows(call'[d], buf'))
  BY <1>9, <1>10, <1>11, <1>12, <1>13
<1> QED BY <1>6, <1>14, <1>15 DEF ItoaInv

\* A step of a caller that writes nothing.
LEMMA OneCallerKeeps ==
  ASSUME ItoaInv, NEW c \in Callers, NEW r, r \in Calls, InBuffer(r),
         r.alone => Shows(r, buf), call' = [call EXCEPT ![c] = r], buf' = buf
  PROVE  ItoaInv'
<1>1. call' \in [Callers -> Calls] /\ call'[c] = r /\ \A d \in Callers \ {c} : call'[d] = call[d]
  BY DEF ItoaInv
<1> QED BY <1>1 DEF ItoaInv

LEMMA ReturnKeeps ==
  ASSUME ItoaInv, NEW c \in Callers, ReturnPointer(c)
  PROVE  ItoaInv'
<1>1. PICK r, i : r = call[c] /\ i = r.i
  OBVIOUS
<1>2. /\ r \in Calls /\ r.pc = "write" /\ r.val \in Nat /\ i \in 0 .. Size - 2
      /\ (r.val = 0 \/ i = 0)
      /\ r.number \in Nat /\ Len(Digits(r.number)) <= Size - 2 /\ r.read \in Seq(0 .. 9)
      /\ r.alone => Shows(r, buf)
  <2>1. /\ r \in Calls /\ InBuffer(r) /\ r.pc = "write" /\ (r.val = 0 \/ i = 0)
        /\ r.alone => Shows(r, buf)
    BY <1>1 DEF ItoaInv, ReturnPointer
  <2>2. i <= Size - 2 /\ Len(Digits(r.number)) <= Size - 2
    BY <1>1, <2>1 DEF InBuffer
  <2>3. i \in 0 .. Size - 1 /\ r.val \in Nat /\ r.number \in Nat /\ r.read \in Seq(0 .. 9)
    BY <1>1, <2>1 DEF Calls
  <2>4. i \in 0 .. Size - 2
    BY <2>2, <2>3 DEF Size
  <2> QED BY <2>1, <2>2, <2>3, <2>4
<1>3. PICK s : s = [r EXCEPT !.pc = "read", !.i = i + 1]
  OBVIOUS
<1>4. call' = [call EXCEPT ![c] = s] /\ buf' = buf
  BY <1>1, <1>2, <1>3 DEF ReturnPointer, ItoaInv
<1>5. /\ s \in Calls /\ s.pc = "read" /\ s.i = i + 1 /\ s.number = r.number /\ s.read = r.read
      /\ s.alone = r.alone
  <2>1. Update(s, r, "read", r.val, i + 1, r.read)
    BY <1>2, <1>3 DEF Calls, Update
  <2>2. i + 1 \in 0 .. Size - 1
    BY <1>2 DEF Size
  <2>3. /\ r \in Calls /\ "read" \in {"idle", "write", "read", "shown"}
        /\ r.read \in Seq(0 .. 9) /\ r.val \in Nat
    BY <1>2
  <2>4. Updated(s, r, "read", r.val, i + 1, r.read)
    BY ONLY <2>1, <2>2, <2>3, CallUpdate
  <2> QED BY <2>4 DEF Updated
<1>6. InBuffer(s)
  BY <1>2, <1>5 DEF InBuffer
<1>7. ASSUME r.alone PROVE Shows(s, buf)
  <2>1. PICK whole, rest, w : /\ whole = Digits(r.number) /\ rest = Digits(r.val)
                              /\ w = WrittenFrom(buf, i)
    OBVIOUS
  <2>2. /\ \A j \in i + 1 .. Size - 2 : buf[j] \in 0 .. 9
        /\ whole = rest \o w /\ r.read = <<>>
    BY <1>1, <1>2, <1>7, <2>1 DEF Shows
  <2>3. /\ rest \in Seq(0 .. 9) /\ w \in Seq(0 .. 9) /\ Len(w) = Size - 2 - i
        /\ Len(whole) <= Size - 2
    BY <1>2, <2>1, <2>2, DigitsType, WrittenLen
  <2>4. r.val = 0
    <3>1. SUFFICES ASSUME r.val # 0 PROVE FALSE
      OBVIOUS
    <3>2. PICK q, digit : q = r.val \div 10 /\ digit = r.val % 10
      OBVIOUS
    <3>3. q \in Nat /\ digit \in 0 .. 9 /\ Digits(q) \in Seq(0 .. 9)
      BY <1>2, <3>2, WithoutLastDigit, DigitsType
    <3>4. rest = Append(Digits(q), digit)
      BY <1>2, <2>1, <3>1, <3>2, MoreDigits
    <3>5. Len(rest) >= 1
      BY <3>3, <3>4
    <3>6. Len(whole) = Len(rest) + Len(w) /\ Len(w) = Size - 2
      BY <1>2, <2>2, <2>3, <3>1 DEF Size
    <3>7. PICK n, m : n = Len(rest) /\ m = Size - 2 /\ n \in Nat /\ m \in Nat
      BY <2>3 DEF Size
    <3>8. n + m <= m /\ n >= 1
      BY <2>3, <3>5, <3>6, <3>7
    <3> QED BY <3>7, <3>8
  <2>5. whole = w
    BY <2>1, <2>2, <2>3, <2>4, NoDigits
  <2>6. whole = s.read \o WrittenFrom(buf, s.i - 1)
    <3>1. s.i - 1 = i /\ s.read = <<>>
      BY <1>2, <1>5, <2>2
    <3>2. <<>> \o w = w
      BY <2>3
    <3> QED BY <2>1, <2>5, <3>1, <3>2
  <2>7. \A j \in s.i .. Size - 2 : buf[j] \in 0 .. 9
    BY <1>5, <2>2
  <2> QED BY <1>5, <2>1, <2>6, <2>7 DEF Shows
<1> QED
  BY <1>2, <1>4, <1>5, <1>6, <1>7, OneCallerKeeps

LEMMA ReadKeeps ==
  ASSUME ItoaInv, NEW c \in Callers, ReadDigit(c)
  PROVE  ItoaInv'
<1>1. PICK r, i : r = call[c] /\ i = r.i
  OBVIOUS
<1>2. /\ r \in Calls /\ r.pc = "read" /\ r.val \in Nat /\ i \in 1 .. Size - 1
      /\ r.number \in Nat /\ r.read \in Seq(0 .. 9)
      /\ r.alone => Shows(r, buf)
  <2>1. /\ r \in Calls /\ InBuffer(r) /\ r.pc = "read"
        /\ r.alone => Shows(r, buf)
    BY <1>1 DEF ItoaInv, ReadDigit
  <2>2. i \in 0 .. Size - 1 /\ r.val \in Nat /\ r.number \in Nat /\ r.read \in Seq(0 .. 9)
    BY <1>1, <2>1 DEF Calls
  <2>3. i \in 1 .. Size - 1
    BY <1>1, <2>1, <2>2 DEF InBuffer, Size
  <2> QED BY <2>1, <2>2, <2>3
<1>3. /\ buf' = buf /\ i < Size
      /\ buf \in [0 .. Size - 1 -> 0 .. 9 \cup {NUL}] /\ buf[Size - 1] = NUL
  <2>1. i < Size
    BY <1>2 DEF Size
  <2> QED BY <2>1 DEF ReadDigit, ItoaInv
<1>4. {"read", "shown"} \subseteq {"idle", "write", "read", "shown"}
  OBVIOUS
<1>5. CASE buf[i] # NUL
  <2>1. PICK digit : digit = buf[i]
    OBVIOUS
  <2>2. digit \in 0 .. 9 /\ i \in 1 .. Size - 2
    <3>1. i \in 0 .. Size - 1
      BY <1>2 DEF Size
    <3>2. digit \in 0 .. 9
      BY <1>3, <1>5, <2>1, <3>1
    <3>3. i # Size - 1
      BY <1>3, <1>5
    <3> QED BY <1>2, <3>2, <3>3 DEF Size
  <2>3. PICK s : s = [r EXCEPT !.read = Append(r.read, digit), !.i = i + 1]
    OBVIOUS
  <2>4. call' = [call EXCEPT ![c] = s]
    <3>1. call' = [call EXCEPT ![c].read = Append(@, buf[call[c].i]), ![c].i = @ + 1]
      BY <1>1, <1>3, <1>5 DEF ReadDigit
    <3> QED BY <1>1, <1>2, <2>1, <2>3, <3>1 DEF ItoaInv
  <2>5. /\ s \in Calls /\ s.pc = "read" /\ s.i = i + 1 /\ s.read = Append(r.read, digit)
        /\ s.number = r.number /\ s.alone = r.alone
    <3>1. PICK read \in Seq(0 .. 9) : read = Append(r.read, digit)
      <4>1. <<>> \in Seq(0 .. 9) /\ r.read \in Seq(0 .. 9)
        BY <1>2
      <4>2. Append(r.read, digit) \in Seq(0 .. 9)
        BY ONLY <2>2, <4>1, AppendMiddle
      <4> QED BY <4>2
    <3>2. Update(s, r, "read", r.val, i + 1, read)
      BY <1>2, <2>3, <3>1 DEF Calls, Update
    <3>3. i + 1 \in 0 .. Size - 1 /\ "read" \in {"idle", "write", "read", "shown"}
      BY <2>2 DEF Size
    <3>4. r \in Calls /\ r.val \in Nat
      BY <1>2
    <3>5. Updated(s, r, "read", r.val, i + 1, read)
      BY ONLY <3>1, <3>2, <3>3, <3>4, CallUpdate
    <3> QED BY <3>1, <3>5 DEF Updated
  <2>6. InBuffer(s)
    BY <1>2, <2>5 DEF InBuffer
  <2>7. ASSUME r.alone PROVE Shows(s, buf)
    <3>1. /\ \A j \in i .. Size - 2 : buf[j] \in 0 .. 9
          /\ Digits(r.number) = r.read \o WrittenFrom(buf, i - 1)
      BY <1>1, <1>2, <2>7 DEF Shows
    <3>2. WrittenFrom(buf, i - 1) = <<digit>> \o WrittenFrom(buf, i)
      BY <2>1, <2>2, <3>1, WrittenMore
    <3>3. PICK w : w = WrittenFrom(buf, i) /\ w \in Seq(0 .. 9)
      <4>1. i \in 0 .. Size - 2 /\ \A j \in i + 1 .. Size - 2 : buf[j] \in 0 .. 9
        BY <2>2, <3>1 DEF Size
      <4> QED BY <4>1, WrittenLen
    <3>4. r.read \o (<<digit>> \o w) = Append(r.read, digit) \o w
      <4>1. PICK u : u = r.read /\ u \in Seq(0 .. 9)
        BY <1>2
      <4>2. PICK D : D = 0 .. 9
        OBVIOUS
      <4>3. u \in Seq(D) /\ digit \in D /\ w \in Seq(D)
        BY <2>2, <3>3, <4>1, <4>2
      <4>4. u \o (<<digit>> \o w) = Append(u, digit) \o w
        BY ONLY <4>3, AppendMiddle
      <4> QED BY <4>1, <4>4
    <3>5. Digits(r.number) = Append(r.read, digit) \o WrittenFrom(buf, i)
      BY <3>1, <3>2, <3>3, <3>4
    <3>6. i + 1 - 1 = i /\ \A j \in i + 1 .. Size - 2 : j \in i .. Size - 2
      BY <2>2 DEF Size
    <3>7. Digits(s.number) = s.read \o WrittenFrom(buf, s.i - 1)
      <4>1. s.i - 1 = i
        <5>1. PICK k : k = s.i
          OBVIOUS
        <5>2. k = i + 1 /\ i \in Nat
          BY <2>2, <2>5, <5>1 DEF Size
        <5> QED BY <5>1, <5>2
      <4>2. WrittenFrom(buf, s.i - 1) = WrittenFrom(buf, i)
        BY <4>1
      <4> QED BY <2>5, <3>5, <4>2
    <3>8. \A j \in s.i .. Size - 2 : buf[j] \in 0 .. 9
      BY <2>5, <3>1, <3>6
    <3> QED BY <2>5, <3>7, <3>8 DEF Shows
  <2> QED BY <1>3, <2>4, <2>5, <2>6, <2>7, OneCallerKeeps
<1>6. CASE buf[i] = NUL
  <2>1. PICK s : s = [r EXCEPT !.pc = "shown"]
    OBVIOUS
  <2>2. call' = [call EXCEPT ![c] = s]
    BY <1>1, <1>3, <1>6, <2>1 DEF ReadDigit, ItoaInv
  <2>3. /\ s \in Calls /\ s.pc = "shown" /\ s.read = r.read
        /\ s.number = r.number /\ s.alone = r.alone
    <3>1. Update(s, r, "shown", r.val, i, r.read)
      BY <1>1, <1>2, <2>1 DEF Calls, Update
    <3>2. i \in 0 .. Size - 1 /\ "shown" \in {"idle", "write", "read", "shown"}
      BY <1>2 DEF Size
    <3>3. r \in Calls /\ r.val \in Nat /\ r.read \in Seq(0 .. 9)
      BY <1>2
    <3>4. Updated(s, r, "shown", r.val, i, r.read)
      BY ONLY <3>1, <3>2, <3>3, CallUpdate
    <3> QED BY <3>4 DEF Updated
  <2>4. InBuffer(s)
    BY <2>3 DEF InBuffer
  <2>5. ASSUME r.alone PROVE Shows(s, buf)
    <3>1. /\ \A j \in i .. Size - 2 : buf[j] \in 0 .. 9
          /\ Digits(r.number) = r.read \o WrittenFrom(buf, i - 1)
      BY <1>1, <1>2, <2>5 DEF Shows
    <3>2. i = Size - 1
      <4>1. NUL \notin 0 .. 9
        BY DEF NUL
      <4>2. ~(i \in i .. Size - 2)
        BY <1>6, <3>1, <4>1
      <4> QED BY <1>2, <4>2 DEF Size
    <3>3. WrittenFrom(buf, i - 1) = <<>>
      <4>1. i - 1 = Size - 2
        BY <3>2 DEF Size
      <4> QED BY <4>1, WrittenAll
    <3>4. r.read \o <<>> = r.read
      BY <1>2
    <3> QED BY <2>3, <3>1, <3>3, <3>4 DEF Shows
  <2> QED BY <1>3, <2>2, <2>3, <2>4, <2>5, OneCallerKeeps
<1> QED BY <1>5, <1>6

LEMMA NextNumberKeeps ==
  ASSUME ItoaInv, NEW c \in Callers, NextNumber(c)
  PROVE  ItoaInv'
<1>1. PICK r : r = call[c]
  OBVIOUS
<1>2. r \in Calls /\ buf' = buf
  BY <1>1 DEF ItoaInv, NextNumber
<1>3. PICK s : s = [r EXCEPT !.pc = "idle"]
  OBVIOUS
<1>4. call' = [call EXCEPT ![c] = s]
  BY <1>1, <1>3 DEF NextNumber, ItoaInv
<1>5. s \in Calls /\ s.pc = "idle"
  BY <1>2, <1>3 DEF Calls
<1>6. InBuffer(s) /\ Shows(s, buf)
  BY <1>5 DEF InBuffer, Shows
<1> QED BY <1>2, <1>4, <1>5, <1>6, OneCallerKeeps

\* How far a caller is, whether it is disturbed or not: what it has still to write is the
\* beginning of its number; what it has written or has still to read are digits, of
\* whomever; and what it has read are digits, each of its place.
Begins(r) ==
  /\ Len(Digits(r.val)) + (Size - 2 - r.i) = Len(Digits(r.number))
  /\ \A j \in 1 .. Len(Digits(r.val)) : Digits(r.val)[j] = Digits(r.number)[j]

InPlace(r) ==
  /\ Len(r.read) <= Len(Digits(r.number))
  /\ \A j \in 1 .. Len(r.read) : SomeDigit(Len(Digits(r.number)) - j, r.read[j])

Progress(r, b) ==
  /\ r.pc = "write" =>
       /\ Begins(r) /\ r.read = <<>> /\ \A j \in r.i + 1 .. Size - 2 : b[j] # NUL
  /\ r.pc = "read" =>
       /\ InPlace(r) /\ r.i = Size - 1 - Len(Digits(r.number)) + Len(r.read)
       /\ \A j \in r.i .. Size - 2 : b[j] # NUL
  /\ r.pc = "shown" => InPlace(r) /\ Len(r.read) = Len(Digits(r.number))

PlacesInv ==
  /\ \A p \in 0 .. Size - 2 : buf[p] # NUL => SomeDigit(Size - 2 - p, buf[p])
  /\ \A c \in Callers : call[c].pc = "write" => call[c].number \in Numbers[c]
  /\ \A c \in Callers : Progress(call[c], buf)

\* The facts about a call that its steps need.
LEMMA CallFacts ==
  ASSUME ItoaInv, NEW c \in Callers
  PROVE  /\ call[c] \in Calls /\ call[c].val \in Nat /\ call[c].number \in Nat
         /\ call[c].i \in 0 .. Size - 1 /\ call[c].read \in Seq(0 .. 9)
         /\ Len(call[c].read) \in Nat
         /\ Len(Digits(call[c].number)) \in Nat /\ Len(Digits(call[c].val)) \in Nat
         /\ call[c].pc = "write" => /\ call[c].i \in 0 .. Size - 2
                                    /\ Len(Digits(call[c].number)) <= Size - 2
<1>1. /\ call[c] \in Calls /\ call[c].val \in Nat /\ call[c].number \in Nat
      /\ call[c].i \in 0 .. Size - 1 /\ call[c].read \in Seq(0 .. 9)
  BY DEF ItoaInv, Calls
<1>2. Len(call[c].read) \in Nat
  BY <1>1
<1>3. Len(Digits(call[c].number)) \in Nat /\ Len(Digits(call[c].val)) \in Nat
  <2>1. ASSUME NEW n \in Nat PROVE Len(Digits(n)) \in Nat
    <3>1. Digits(n) \in Seq(0 .. 9)
      BY DigitsType
    <3> QED BY <3>1
  <2> QED BY <1>1, <2>1
<1>4. ASSUME call[c].pc = "write"
      PROVE  call[c].i \in 0 .. Size - 2 /\ Len(Digits(call[c].number)) <= Size - 2
  <2>1. call[c].i <= Size - 2 /\ Len(Digits(call[c].number)) <= Size - 2
    BY <1>4 DEF ItoaInv, InBuffer
  <2> QED BY <1>1, <2>1 DEF Size
<1> QED BY <1>1, <1>2, <1>3, <1>4

\* The next digit that is written.
LEMMA LastOf ==
  ASSUME NEW val \in Nat \ {0}
  PROVE  /\ Len(Digits(val)) = Len(Digits(val \div 10)) + 1
         /\ Len(Digits(val \div 10)) \in Nat
         /\ Digits(val)[Len(Digits(val))] = val % 10
         /\ \A j \in 1 .. Len(Digits(val \div 10)) : Digits(val \div 10)[j] = Digits(val)[j]
<1>1. PICK q, d : q = val \div 10 /\ d = val % 10
  OBVIOUS
<1>2. q \in Nat /\ d \in 0 .. 9
  BY <1>1, WithoutLastDigit
<1>3. PICK u \in Seq(0 .. 9) : u = Digits(q)
  BY <1>2, DigitsType
<1>4. Digits(val) = Append(u, d)
  BY <1>1, <1>3, MoreDigits
<1>5. /\ Len(Append(u, d)) = Len(u) + 1 /\ Len(u) \in Nat
      /\ Append(u, d)[Len(u) + 1] = d
      /\ \A j \in 1 .. Len(u) : u[j] = Append(u, d)[j]
  BY <1>2
<1> QED BY <1>1, <1>3, <1>4, <1>5

LEMMA PlacesInit == ItoaInit => PlacesInv
<1> SUFFICES ASSUME ItoaInit PROVE PlacesInv
  OBVIOUS
<1>1. \A p \in 0 .. Size - 2 : buf[p] = NUL
  BY DEF ItoaInit, Size
<1>2. \A c \in Callers : call[c].pc = "idle"
  BY DEF ItoaInit
<1> QED BY <1>1, <1>2 DEF PlacesInv, Progress

\* A step of a caller that writes nothing leaves the others as they are.
LEMMA OneCallerPlaces ==
  ASSUME ItoaInv, PlacesInv, NEW c \in Callers, NEW r,
         call' = [call EXCEPT ![c] = r], buf' = buf, Progress(r, buf),
         r.pc = "write" => r.number \in Numbers[c]
  PROVE  PlacesInv'
<1>1. call'[c] = r /\ \A d \in Callers \ {c} : call'[d] = call[d]
  BY DEF ItoaInv
<1>2. ASSUME NEW d \in Callers
      PROVE  Progress(call'[d], buf') /\ (call'[d].pc = "write" => call'[d].number \in Numbers[d])
  BY <1>1 DEF PlacesInv
<1>3. \A p \in 0 .. Size - 2 : buf'[p] # NUL => SomeDigit(Size - 2 - p, buf'[p])
  BY DEF PlacesInv
<1> QED BY <1>2, <1>3 DEF PlacesInv

LEMMA CallPlaces ==
  ASSUME ItoaInv, PlacesInv, NEW c \in Callers, itoa(c)
  PROVE  PlacesInv'
<1>1. PICK number \in Numbers[c] :
        call' = [call EXCEPT ![c] = [pc |-> "write", number |-> number, val |-> number,
                                     i |-> Size - 2, read |-> <<>>, alone |-> TRUE]]
  BY DEF itoa
<1>2. PICK r : r = [pc |-> "write", number |-> number, val |-> number,
                    i |-> Size - 2, read |-> <<>>, alone |-> TRUE]
  OBVIOUS
<1>3. /\ r.pc = "write" /\ r.number = number /\ r.val = number /\ r.i = Size - 2
      /\ r.read = <<>>
  BY <1>2
<1>4. Len(Digits(number)) \in Nat
  <2>1. number \in Nat
    BY ItoaAssumption
  <2>2. Digits(number) \in Seq(0 .. 9)
    BY <2>1, DigitsType
  <2> QED BY <2>2
<1>5. Progress(r, buf)
  <2>1. Begins(r)
    BY <1>3, <1>4 DEF Begins, Size
  <2>2. \A j \in r.i + 1 .. Size - 2 : FALSE
    BY <1>3 DEF Size
  <2> QED BY <1>3, <2>1, <2>2 DEF Progress
<1>6. call' = [call EXCEPT ![c] = r] /\ buf' = buf
  BY <1>1, <1>2 DEF itoa
<1> QED BY <1>3, <1>5, <1>6, OneCallerPlaces

LEMMA WritePlaces ==
  ASSUME ItoaInv, PlacesInv, NEW c \in Callers, WriteDigit(c)
  PROVE  PlacesInv'
<1>1. PICK r, i, val, q, digit, L :
        /\ r = call[c] /\ i = r.i /\ val = r.val /\ q = val \div 10 /\ digit = val % 10
        /\ L = Len(Digits(r.number))
  OBVIOUS
<1>2. /\ r \in Calls /\ r.pc = "write" /\ val \in Nat \ {0} /\ i \in 1 .. Size - 2
      /\ L \in Nat /\ L <= Size - 2 /\ r.number \in Numbers[c]
      /\ Begins(r) /\ r.read = <<>> /\ \A j \in i + 1 .. Size - 2 : buf[j] # NUL
  <2>1. r.pc = "write" /\ val # 0 /\ i # 0
    BY <1>1 DEF WriteDigit
  <2>2. /\ r \in Calls /\ val \in Nat /\ L \in Nat /\ i \in 0 .. Size - 2 /\ L <= Size - 2
    BY <1>1, <2>1, CallFacts
  <2>3. r.number \in Numbers[c] /\ Progress(r, buf)
    BY <1>1, <2>1 DEF PlacesInv
  <2>4. i \in 1 .. Size - 2
    BY <2>1, <2>2 DEF Size
  <2> QED BY <1>1, <2>1, <2>2, <2>3, <2>4 DEF Progress
<1>3. q \in Nat /\ digit \in 0 .. 9 /\ digit # NUL
  <2>1. q \in Nat /\ digit \in 0 .. 9
    BY <1>1, <1>2, WithoutLastDigit
  <2> QED BY <2>1 DEF NUL
<1>4. PICK m \in Nat : m = Len(Digits(q))
  BY <1>1, <1>2, LastOf
<1>5. /\ Len(Digits(val)) = m + 1 /\ Digits(val)[m + 1] = digit
      /\ \A j \in 1 .. m : Digits(q)[j] = Digits(val)[j]
  BY <1>1, <1>2, <1>4, LastOf
<1>6. m + 1 + (Size - 2 - i) = L /\ \A j \in 1 .. m + 1 : Digits(val)[j] = Digits(r.number)[j]
  BY <1>1, <1>2, <1>5 DEF Begins
<1>7. SomeDigit(Size - 2 - i, digit)
  <2>1. Digits(r.number)[m + 1] = digit
    <3>1. m + 1 \in 1 .. m + 1
      OBVIOUS
    <3> QED BY <1>5, <1>6, <3>1
  <2>2. L - (Size - 2 - i) = m + 1 /\ Size - 2 - i < L
    BY <1>2, <1>6 DEF Size
  <2> QED BY <1>1, <1>2, <2>1, <2>2 DEF SomeDigit
<1>8. /\ buf'[i] = digit /\ \A j \in 0 .. Size - 1 : j # i => buf'[j] = buf[j]
  <2>1. buf' = [buf EXCEPT ![i] = digit]
    BY <1>1 DEF WriteDigit
  <2>2. buf \in [0 .. Size - 1 -> 0 .. 9 \cup {NUL}]
    BY DEF ItoaInv
  <2>3. i \in 0 .. Size - 1
    BY <1>2 DEF Size
  <2> QED BY <2>1, <2>2, <2>3
<1>9. \A p \in 0 .. Size - 2 : buf'[p] # NUL => SomeDigit(Size - 2 - p, buf'[p])
  <2> SUFFICES ASSUME NEW p \in 0 .. Size - 2, buf'[p] # NUL
               PROVE  SomeDigit(Size - 2 - p, buf'[p])
    OBVIOUS
  <2>1. CASE p = i
    BY <1>7, <1>8, <2>1
  <2>2. CASE p # i
    <3>1. p \in 0 .. Size - 1
      BY DEF Size
    <3>2. buf'[p] = buf[p]
      BY <1>8, <2>2, <3>1
    <3> QED BY <3>2 DEF PlacesInv
  <2> QED BY <2>1, <2>2
<1>10. \A j \in 0 .. Size - 2 : buf[j] # NUL => buf'[j] # NUL
  <2>1. \A j \in 0 .. Size - 2 : j \in 0 .. Size - 1
    BY DEF Size
  <2> QED BY <1>3, <1>8, <2>1
<1>11. call' = [d \in Callers |-> IF d = c THEN [r EXCEPT !.i = i - 1, !.val = q]
                                  ELSE [call[d] EXCEPT !.alone = FALSE]]
  BY <1>1 DEF WriteDigit
<1>12. /\ call'[c].pc = "write" /\ call'[c].i = i - 1 /\ call'[c].val = q
       /\ call'[c].number = r.number /\ call'[c].read = <<>>
  BY <1>2, <1>11 DEF Calls
<1>13. Progress(call'[c], buf')
  <2>1. Begins(call'[c])
    <3>1. m + (Size - 2 - (i - 1)) = L
      BY <1>2, <1>6 DEF Size
    <3>2. ASSUME NEW j \in 1 .. m PROVE Digits(q)[j] = Digits(r.number)[j]
      <4>1. j \in 1 .. m + 1
        OBVIOUS
      <4> QED BY <1>5, <1>6, <4>1
    <3> QED BY <1>1, <1>4, <1>12, <3>1, <3>2 DEF Begins
  <2>2. ASSUME NEW j \in i - 1 + 1 .. Size - 2 PROVE buf'[j] # NUL
    <3>1. j \in 0 .. Size - 2 /\ (j = i \/ j \in i + 1 .. Size - 2)
      BY <1>2 DEF Size
    <3> QED BY <1>2, <1>3, <1>8, <1>10, <3>1
  <2> QED BY <1>12, <2>1, <2>2 DEF Progress
<1>14. ASSUME NEW d \in Callers \ {c}
       PROVE  /\ Progress(call'[d], buf')
              /\ call'[d].pc = "write" => call'[d].number \in Numbers[d]
  <2>1. PICK s, t : s = call[d] /\ t = call'[d]
    OBVIOUS
  <2>2. s \in Calls /\ s.i \in 0 .. Size - 1
    BY <2>1, CallFacts
  <2>3. t = [s EXCEPT !.alone = FALSE]
    BY <1>11, <2>1
  <2>4. t.pc = s.pc /\ t.i = s.i /\ t.val = s.val /\ t.number = s.number /\ t.read = s.read
    BY <2>2, <2>3 DEF Calls
  <2>5. Progress(s, buf) /\ (s.pc = "write" => s.number \in Numbers[d])
    BY <2>1 DEF PlacesInv
  <2>6. \A j \in s.i .. Size - 2 : buf[j] # NUL => buf'[j] # NUL
    BY <1>10, <2>2
  <2>7. \A j \in s.i + 1 .. Size - 2 : buf[j] # NUL => buf'[j] # NUL
    <3>1. \A j \in s.i + 1 .. Size - 2 : j \in 0 .. Size - 2
      BY <2>2
    <3> QED BY <1>10, <3>1
  <2>8. (Begins(s) => Begins(t)) /\ (InPlace(s) => InPlace(t))
    BY <2>4 DEF Begins, InPlace
  <2>9. Progress(t, buf')
    <3>1. t.pc = "write" => Begins(t) /\ t.read = <<>> /\ \A j \in t.i + 1 .. Size - 2 : buf'[j] # NUL
      BY <2>4, <2>5, <2>7, <2>8 DEF Progress
    <3>2. t.pc = "read" => /\ InPlace(t) /\ t.i = Size - 1 - Len(Digits(t.number)) + Len(t.read)
                           /\ \A j \in t.i .. Size - 2 : buf'[j] # NUL
      BY <2>4, <2>5, <2>6, <2>8 DEF Progress
    <3>3. t.pc = "shown" => InPlace(t) /\ Len(t.read) = Len(Digits(t.number))
      BY <2>4, <2>5, <2>8 DEF Progress
    <3> QED BY <3>1, <3>2, <3>3 DEF Progress
  <2> QED BY <2>1, <2>4, <2>5, <2>9
<1>15. call'[c].number \in Numbers[c]
  BY <1>2, <1>12
<1> QED BY <1>9, <1>13, <1>14, <1>15 DEF PlacesInv

LEMMA ReturnPlaces ==
  ASSUME ItoaInv, PlacesInv, NEW c \in Callers, ReturnPointer(c)
  PROVE  PlacesInv'
<1>1. PICK r, i, L, m : /\ r = call[c] /\ i = r.i /\ L = Len(Digits(r.number))
                        /\ m = Len(Digits(r.val))
  OBVIOUS
<1>2. /\ r \in Calls /\ r.pc = "write" /\ (r.val = 0 \/ i = 0) /\ r.val \in Nat
      /\ i \in 0 .. Size - 2 /\ L \in Nat /\ L <= Size - 2 /\ m \in Nat
      /\ Begins(r) /\ r.read = <<>> /\ \A j \in i + 1 .. Size - 2 : buf[j] # NUL
  <2>1. r.pc = "write" /\ (r.val = 0 \/ i = 0)
    BY <1>1 DEF ReturnPointer
  <2>2. /\ r \in Calls /\ r.val \in Nat /\ L \in Nat /\ i \in 0 .. Size - 2 /\ L <= Size - 2
        /\ m \in Nat
    BY <1>1, <2>1, CallFacts
  <2>3. Progress(r, buf)
    BY <1>1 DEF PlacesInv
  <2> QED BY <1>1, <2>1, <2>2, <2>3 DEF Progress
<1>3. m + (Size - 2 - i) = L
  BY <1>1, <1>2 DEF Begins
<1>4. m = 0
  <2>1. CASE i = 0
    BY <1>2, <1>3, <2>1 DEF Size
  <2>2. CASE r.val = 0
    <3>1. Digits(r.val) = <<>>
      BY <2>2, NoDigits
    <3> QED BY <1>1, <3>1
  <2> QED BY <1>2, <2>1, <2>2
<1>5. PICK s : s = [r EXCEPT !.pc = "read", !.i = i + 1]
  OBVIOUS
<1>6. call' = [call EXCEPT ![c] = s] /\ buf' = buf
  BY <1>1, <1>2, <1>5 DEF ReturnPointer, ItoaInv
<1>7. s.pc = "read" /\ s.i = i + 1 /\ s.number = r.number /\ s.read = <<>>
  BY <1>2, <1>5 DEF Calls
<1>8. InPlace(s)
  <2>1. Len(s.read) = 0
    BY <1>7
  <2> QED BY <1>1, <1>2, <1>7, <2>1 DEF InPlace
<1>9. s.i = Size - 1 - Len(Digits(s.number)) + Len(s.read)
  <2>1. i + 1 = Size - 1 - L + 0
    BY <1>2, <1>3, <1>4 DEF Size
  <2>2. Len(<<>>) = 0
    OBVIOUS
  <2> QED BY <1>1, <1>7, <2>1, <2>2
<1>10. Progress(s, buf)
  <2>1. \A j \in s.i .. Size - 2 : buf[j] # NUL
    BY <1>2, <1>7
  <2> QED BY <1>7, <1>8, <1>9, <2>1 DEF Progress
<1> QED BY <1>6, <1>7, <1>10, OneCallerPlaces

LEMMA ReadPlaces ==
  ASSUME ItoaInv, PlacesInv, NEW c \in Callers, ReadDigit(c)
  PROVE  PlacesInv'
<1>1. PICK r, i, L, n : /\ r = call[c] /\ i = r.i /\ L = Len(Digits(r.number))
                        /\ n = Len(r.read)
  OBVIOUS
<1>2. /\ r \in Calls /\ r.pc = "read" /\ i \in 0 .. Size - 1 /\ r.read \in Seq(0 .. 9)
      /\ L \in Nat /\ n \in Nat
      /\ InPlace(r) /\ i = Size - 1 - L + n /\ n <= L
      /\ \A j \in i .. Size - 2 : buf[j] # NUL
  <2>1. r.pc = "read"
    BY <1>1 DEF ReadDigit
  <2>2. /\ r \in Calls /\ i \in 0 .. Size - 1 /\ r.read \in Seq(0 .. 9) /\ L \in Nat /\ n \in Nat
    BY <1>1, CallFacts
  <2>3. Progress(r, buf)
    BY <1>1 DEF PlacesInv
  <2>4. InPlace(r) /\ i = Size - 1 - L + n /\ \A j \in i .. Size - 2 : buf[j] # NUL
    BY <1>1, <2>1, <2>3 DEF Progress
  <2> QED BY <1>1, <2>1, <2>2, <2>4 DEF InPlace
<1>3. buf \in [0 .. Size - 1 -> 0 .. 9 \cup {NUL}] /\ buf[Size - 1] = NUL /\ i < Size
  <2>1. i < Size
    BY <1>2 DEF Size
  <2> QED BY <2>1 DEF ItoaInv
<1>4. CASE buf[i] # NUL
  <2>1. PICK digit : digit = buf[i]
    OBVIOUS
  <2>2. i \in 0 .. Size - 2 /\ digit \in 0 .. 9
    <3>1. i # Size - 1
      BY <1>3, <1>4
    <3>2. digit \in 0 .. 9
      BY <1>2, <1>3, <1>4, <2>1
    <3>3. i \in 0 .. Size - 2
      BY <1>2, <3>1 DEF Size
    <3> QED BY <3>2, <3>3
  <2>3. PICK read : read = Append(r.read, digit)
    OBVIOUS
  <2>4. Len(read) = n + 1 /\ read[n + 1] = digit /\ \A j \in 1 .. n : read[j] = r.read[j]
    BY <1>1, <1>2, <2>2, <2>3
  <2>5. PICK s : s = [r EXCEPT !.read = read, !.i = i + 1]
    OBVIOUS
  <2>6. call' = [call EXCEPT ![c] = s] /\ buf' = buf
    <3>1. call' = [call EXCEPT ![c].read = Append(@, buf[call[c].i]), ![c].i = @ + 1]
      BY <1>1, <1>3, <1>4 DEF ReadDigit
    <3> QED BY <1>1, <1>2, <2>1, <2>3, <2>5, <3>1 DEF ItoaInv, ReadDigit
  <2>7. s.pc = "read" /\ s.i = i + 1 /\ s.number = r.number /\ s.read = read
    BY <1>2, <2>5 DEF Calls
  <2>8. n + 1 <= L /\ Size - 2 - i = L - (n + 1)
    BY <1>2, <2>2 DEF Size
  <2>9. InPlace(s)
    <3>1. SomeDigit(L - (n + 1), digit)
      <4>1. SomeDigit(Size - 2 - i, digit)
        BY <1>4, <2>1, <2>2 DEF PlacesInv
      <4> QED BY <2>8, <4>1
    <3>2. ASSUME NEW j \in 1 .. n + 1 PROVE SomeDigit(L - j, read[j])
      <4>1. CASE j = n + 1
        BY <2>4, <3>1, <4>1
      <4>2. CASE j # n + 1
        <5>1. j \in 1 .. n
          BY <1>2, <4>2
        <5>2. SomeDigit(L - j, r.read[j])
          BY <1>1, <1>2, <5>1 DEF InPlace
        <5> QED BY <2>4, <5>1, <5>2
      <4> QED BY <4>1, <4>2
    <3> QED BY <1>1, <2>4, <2>7, <2>8, <3>2 DEF InPlace
  <2>10. s.i = Size - 1 - Len(Digits(s.number)) + Len(s.read)
    <3>1. i + 1 = Size - 1 - L + (n + 1)
      BY <1>2 DEF Size
    <3> QED BY <1>1, <2>4, <2>7, <3>1
  <2>11. \A j \in s.i .. Size - 2 : buf[j] # NUL
    <3>1. \A j \in i + 1 .. Size - 2 : j \in i .. Size - 2
      BY <1>2
    <3> QED BY <1>2, <2>7, <3>1
  <2>12. Progress(s, buf)
    BY <2>7, <2>9, <2>10, <2>11 DEF Progress
  <2> QED BY <2>6, <2>7, <2>12, OneCallerPlaces
<1>5. CASE buf[i] = NUL
  <2>1. PICK s : s = [r EXCEPT !.pc = "shown"]
    OBVIOUS
  <2>2. call' = [call EXCEPT ![c] = s] /\ buf' = buf
    BY <1>1, <1>3, <1>5, <2>1 DEF ReadDigit, ItoaInv
  <2>3. s.pc = "shown" /\ s.number = r.number /\ s.read = r.read
    BY <1>2, <2>1 DEF Calls
  <2>4. n = L
    <3>1. ~(i \in i .. Size - 2)
      BY <1>2, <1>5
    <3>2. i = Size - 1
      BY <1>2, <3>1 DEF Size
    <3> QED BY <1>2, <3>2 DEF Size
  <2>5. Progress(s, buf)
    BY <1>1, <1>2, <2>3, <2>4 DEF Progress, InPlace
  <2> QED BY <2>2, <2>3, <2>5, OneCallerPlaces
<1> QED BY <1>4, <1>5

LEMMA NextNumberPlaces ==
  ASSUME ItoaInv, PlacesInv, NEW c \in Callers, NextNumber(c)
  PROVE  PlacesInv'
<1>1. PICK s : s = [call[c] EXCEPT !.pc = "idle"]
  OBVIOUS
<1>2. call' = [call EXCEPT ![c] = s] /\ buf' = buf
  BY <1>1 DEF NextNumber, ItoaInv
<1>3. s.pc = "idle"
  BY <1>1, CallFacts DEF Calls
<1>4. Progress(s, buf)
  BY <1>3 DEF Progress
<1> QED BY <1>2, <1>3, <1>4, OneCallerPlaces

\* Whatever numbers an int can hold from 0 on are written, and however many callers
\* disturb each other in the static buffer: each reads as many digits as its number has,
\* each of them the digit of its place in a number that some caller writes, and none
\* goes beyond the buffer; and who is not disturbed reads its own number.
THEOREM NumbersAreShown == ItoaSpec => []NumberIsShown
<1>1. ItoaInit => ItoaInv
  BY ItoaInvInit
<1>2. ItoaInv /\ [ItoaNext]_itoaVars => ItoaInv'
  <2> SUFFICES ASSUME ItoaInv, [ItoaNext]_itoaVars PROVE ItoaInv'
    OBVIOUS
  <2>1. ASSUME NEW c \in Callers, itoa(c) PROVE ItoaInv'
    BY <2>1, CallKeeps
  <2>2. ASSUME NEW c \in Callers, WriteDigit(c) PROVE ItoaInv'
    BY <2>2, WriteKeeps
  <2>3. ASSUME NEW c \in Callers, ReturnPointer(c) PROVE ItoaInv'
    BY <2>3, ReturnKeeps
  <2>4. ASSUME NEW c \in Callers, ReadDigit(c) PROVE ItoaInv'
    BY <2>4, ReadKeeps
  <2>5. ASSUME NEW c \in Callers, NextNumber(c) PROVE ItoaInv'
    BY <2>5, NextNumberKeeps
  <2>6. CASE UNCHANGED itoaVars
    BY <2>6 DEF itoaVars, ItoaInv
  <2> QED BY <2>1, <2>2, <2>3, <2>4, <2>5, <2>6 DEF ItoaNext
<1>3. ItoaInv /\ PlacesInv /\ [ItoaNext]_itoaVars => PlacesInv'
  <2> SUFFICES ASSUME ItoaInv, PlacesInv, [ItoaNext]_itoaVars PROVE PlacesInv'
    OBVIOUS
  <2>1. ASSUME NEW c \in Callers, itoa(c) PROVE PlacesInv'
    BY <2>1, CallPlaces
  <2>2. ASSUME NEW c \in Callers, WriteDigit(c) PROVE PlacesInv'
    BY <2>2, WritePlaces
  <2>3. ASSUME NEW c \in Callers, ReturnPointer(c) PROVE PlacesInv'
    BY <2>3, ReturnPlaces
  <2>4. ASSUME NEW c \in Callers, ReadDigit(c) PROVE PlacesInv'
    BY <2>4, ReadPlaces
  <2>5. ASSUME NEW c \in Callers, NextNumber(c) PROVE PlacesInv'
    BY <2>5, NextNumberPlaces
  <2>6. CASE UNCHANGED itoaVars
    BY <2>6 DEF itoaVars, PlacesInv
  <2> QED BY <2>1, <2>2, <2>3, <2>4, <2>5, <2>6 DEF ItoaNext
<1>4. ItoaInv /\ PlacesInv => NumberIsShown
  <2> SUFFICES ASSUME ItoaInv, PlacesInv, NEW c \in Callers
               PROVE  LET Length == Len(Digits(call[c].number)) IN
                      /\ call[c].pc = "read" => buf[Size - 1] = NUL /\ call[c].i < Size
                      /\ call[c].pc = "shown" =>
                           /\ Len(call[c].read) = Length
                           /\ \A j \in 1 .. Length : SomeDigit(Length - j, call[c].read[j])
                           /\ call[c].alone => call[c].read = Digits(call[c].number)
    BY DEF NumberIsShown
  <2>1. call[c].i < Size /\ buf[Size - 1] = NUL
    <3>1. call[c].i \in 0 .. Size - 1
      BY CallFacts
    <3> QED BY <3>1 DEF Size, ItoaInv
  <2>2. ASSUME call[c].pc = "shown"
        PROVE  InPlace(call[c]) /\ Len(call[c].read) = Len(Digits(call[c].number))
    BY <2>2 DEF PlacesInv, Progress
  <2>3. call[c].pc = "shown" /\ call[c].alone => call[c].read = Digits(call[c].number)
    BY DEF ItoaInv, Shows
  <2> QED BY <2>1, <2>2, <2>3 DEF InPlace
<1> QED BY <1>1, <1>2, <1>3, <1>4, PlacesInit, PTL DEF ItoaSpec
=============================================================================
