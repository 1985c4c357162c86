--------------------------- MODULE LinkedList_proof --------------------------
(***************************************************************************)
(* The linked lists of list.c are rings, and implement the sequences of    *)
(* module KernelLists, on which the scheduler is modelled: for any items   *)
(* and lists, and any length of the lists.                                 *)
(*                                                                         *)
(* The invariant is that there is a sequence of different items for every  *)
(* list, no item in two of them, such that the pointers of the list go     *)
(* along it and back.  The searches and walks are functions that are       *)
(* defined by recursion on the pointers; what they compute is shown along  *)
(* the sequence.                                                           *)
(***************************************************************************)
EXTENDS LinkedList, KernelLists_proof

\* The i-th node of the list l of the items s: its xListEnd is the one before the
\* first and the one after the last.
NodeAt(l, s, i) == IF i \in 1 .. Len(s) THEN s[i] ELSE l

\* The pointers of a list with the items s.
Linked(next, previous, l, s) ==
  \A i \in 0 .. Len(s) :
    /\ next[NodeAt(l, s, i)] = NodeAt(l, s, i + 1)
    /\ previous[NodeAt(l, s, i + 1)] = NodeAt(l, s, i)

LEMMA NodesDiffer ==
  ASSUME NEW l \in AllLists, NEW s, IsItems(s, Items)
  PROVE  /\ Len(s) \in Nat /\ Members(s) \subseteq Items
         /\ \A i \in 1 .. Len(s) : s[i] \in Items /\ s[i] # l
         /\ \A i : NodeAt(l, s, i) \in Nodes /\ NodeAt(l, s, i) \in {l} \cup Members(s)
         /\ \A i, j \in 0 .. Len(s) : NodeAt(l, s, i) = NodeAt(l, s, j) => i = j
         /\ \A i, j \in 1 .. Len(s) + 1 : NodeAt(l, s, i) = NodeAt(l, s, j) => i = j
<1>1. Len(s) \in Nat /\ \A i \in 1 .. Len(s) : s[i] \in Items
  BY LenProperties, ElementOfSeq DEF IsItems
<1>2. \A i \in 1 .. Len(s) : s[i] # l
  BY <1>1, LinkedListAssumption
<1>3. \A i, j \in 1 .. Len(s) : s[i] = s[j] => i = j
  BY DEF IsItems
<1>4. \A i : NodeAt(l, s, i) \in Nodes /\ NodeAt(l, s, i) \in {l} \cup Members(s)
  BY <1>1 DEF NodeAt, Nodes, Members
<1>5. ASSUME NEW i \in Nat, NEW j \in Nat, i \in 1 .. Len(s) \/ j \in 1 .. Len(s),
             NodeAt(l, s, i) = NodeAt(l, s, j)
      PROVE  i = j
  BY <1>1, <1>2, <1>3, <1>5 DEF NodeAt
<1>6. Members(s) \subseteq Items
  BY <1>1 DEF Members
<1>7. \A i, j \in 0 .. Len(s) : NodeAt(l, s, i) = NodeAt(l, s, j) => i = j
  BY <1>1, <1>5
<1>8. \A i, j \in 1 .. Len(s) + 1 : NodeAt(l, s, i) = NodeAt(l, s, j) => i = j
  BY <1>1, <1>5
<1> QED BY <1>1, <1>2, <1>4, <1>6, <1>7, <1>8

\* An item between the p-th node and the one after it.
LEMMA InsertLinked ==
  ASSUME NEW next \in [Nodes -> Nodes], NEW previous \in [Nodes -> Nodes], NEW l \in AllLists,
         NEW s, IsItems(s, Items), Linked(next, previous, l, s),
         NEW item \in Items \ Members(s), NEW p \in 0 .. Len(s),
         NEW t, Len(t) = Len(s) + 1,
         \A i \in 1 .. Len(s) + 1 :
           t[i] = IF i <= p THEN s[i] ELSE IF i = p + 1 THEN item ELSE s[i - 1]
  PROVE  LET a == NodeAt(l, s, p)
             b == NodeAt(l, s, p + 1)
         IN  Linked([next EXCEPT ![item] = b, ![a] = item],
                    [previous EXCEPT ![item] = a, ![b] = item], l, t)
<1> DEFINE a == NodeAt(l, s, p)
           b == NodeAt(l, s, p + 1)
           N(i) == NodeAt(l, s, i)
           next2 == [next EXCEPT ![item] = b, ![a] = item]
           previous2 == [previous EXCEPT ![item] = a, ![b] = item]
<1>1. /\ Len(s) \in Nat /\ p \in Nat
      /\ \A i : N(i) \in Nodes /\ N(i) # item
      /\ \A i, j \in 0 .. Len(s) : N(i) = N(j) => i = j
      /\ \A i, j \in 1 .. Len(s) + 1 : N(i) = N(j) => i = j
  <2>1. item # l
    BY LinkedListAssumption
  <2> QED BY <2>1, NodesDiffer
<1>2. \A i \in 0 .. Len(s) + 2 :
        NodeAt(l, t, i) = IF i <= p THEN N(i) ELSE IF i = p + 1 THEN item ELSE N(i - 1)
  <2> SUFFICES ASSUME NEW i \in 0 .. Len(s) + 2
               PROVE  NodeAt(l, t, i) = IF i <= p THEN N(i) ELSE IF i = p + 1 THEN item ELSE N(i - 1)
    OBVIOUS
  <2>1. CASE i \in 1 .. Len(s) + 1
    <3>1. NodeAt(l, t, i) = t[i]
      BY <2>1 DEF NodeAt
    <3> QED BY <1>1, <2>1, <3>1 DEF NodeAt
  <2>2. CASE i \notin 1 .. Len(s) + 1
    BY <1>1, <2>2 DEF NodeAt
  <2> QED BY <2>1, <2>2
<1>3. /\ \A n \in Nodes : next2[n] = IF n = a THEN item ELSE IF n = item THEN b ELSE next[n]
      /\ \A n \in Nodes : previous2[n] = IF n = b THEN item ELSE IF n = item THEN a ELSE previous[n]
  BY <1>1
<1>4. item \in Nodes /\ a \in Nodes /\ b \in Nodes /\ a # item /\ b # item /\ a = N(p) /\ b = N(p + 1)
  BY <1>1 DEF Nodes
<1>5. \A i \in 0 .. Len(s) : next[N(i)] = N(i + 1) /\ previous[N(i + 1)] = N(i)
  BY DEF Linked
<1> HIDE DEF next2, previous2, a, b, N
<1>6. ASSUME NEW i \in 0 .. Len(s) + 1
      PROVE  /\ next2[NodeAt(l, t, i)] = NodeAt(l, t, i + 1)
             /\ previous2[NodeAt(l, t, i + 1)] = NodeAt(l, t, i)
  <2>1. CASE i < p
    <3>1. NodeAt(l, t, i) = N(i) /\ NodeAt(l, t, i + 1) = N(i + 1)
      BY <1>1, <1>2, <2>1
    <3>2. N(i) # a /\ N(i + 1) # b
      BY <1>1, <1>4, <2>1
    <3> QED BY <1>1, <1>3, <1>5, <2>1, <3>1, <3>2
  <2>2. CASE i = p
    <3>1. NodeAt(l, t, i) = a /\ NodeAt(l, t, i + 1) = item
      BY <1>1, <1>2, <1>4, <2>2
    <3> QED BY <1>3, <1>4, <3>1
  <2>3. CASE i = p + 1
    <3>1. NodeAt(l, t, i) = item /\ NodeAt(l, t, i + 1) = b
      BY <1>1, <1>2, <1>4, <2>3
    <3> QED BY <1>3, <1>4, <3>1
  <2>4. CASE i > p + 1
    <3>1. NodeAt(l, t, i) = N(i - 1) /\ NodeAt(l, t, i + 1) = N(i)
      BY <1>1, <1>2, <2>4
    <3>2. N(i - 1) # a /\ N(i) # b
      BY <1>1, <1>4, <2>4
    <3>3. next[N(i - 1)] = N(i) /\ previous[N(i)] = N(i - 1)
      <4>1. i - 1 \in 0 .. Len(s) /\ (i - 1) + 1 = i
        BY <1>1, <2>4
      <4> QED BY <1>5, <4>1
    <3> QED BY <1>1, <1>3, <3>1, <3>2, <3>3
  <2> QED BY <1>1, <2>1, <2>2, <2>3, <2>4
<1> QED BY <1>6 DEF Linked, next2, previous2, a, b

\* Without the p-th item.
LEMMA RemoveLinked ==
  ASSUME NEW next \in [Nodes -> Nodes], NEW previous \in [Nodes -> Nodes], NEW l \in AllLists,
         NEW s, IsItems(s, Items), Linked(next, previous, l, s), NEW p \in 1 .. Len(s),
         NEW t, Len(t) = Len(s) - 1,
         \A i \in 1 .. Len(s) - 1 : t[i] = IF i < p THEN s[i] ELSE s[i + 1]
  PROVE  LET item == s[p]
         IN  Linked([next EXCEPT ![previous[item]] = next[item]],
                    [previous EXCEPT ![next[item]] = previous[item]], l, t)
<1> DEFINE item == s[p]
           a == previous[item]
           b == next[item]
           N(i) == NodeAt(l, s, i)
           next2 == [next EXCEPT ![a] = b]
           previous2 == [previous EXCEPT ![b] = a]
<1>1. /\ Len(s) \in Nat /\ p \in Nat \ {0}
      /\ \A i : N(i) \in Nodes
      /\ \A i, j \in 0 .. Len(s) : N(i) = N(j) => i = j
      /\ \A i, j \in 1 .. Len(s) + 1 : N(i) = N(j) => i = j
  BY NodesDiffer
<1>2. \A i \in 0 .. Len(s) : NodeAt(l, t, i) = IF i < p THEN N(i) ELSE N(i + 1)
  <2> SUFFICES ASSUME NEW i \in 0 .. Len(s)
               PROVE  NodeAt(l, t, i) = IF i < p THEN N(i) ELSE N(i + 1)
    OBVIOUS
  <2>1. CASE i \in 1 .. Len(s) - 1
    <3>1. NodeAt(l, t, i) = t[i]
      BY <2>1 DEF NodeAt
    <3> QED BY <1>1, <2>1, <3>1 DEF NodeAt
  <2>2. CASE i \notin 1 .. Len(s) - 1
    BY <1>1, <2>2 DEF NodeAt
  <2> QED BY <2>1, <2>2
<1>5. \A i \in 0 .. Len(s) : next[N(i)] = N(i + 1) /\ previous[N(i + 1)] = N(i)
  BY DEF Linked
<1>4. a = N(p - 1) /\ b = N(p + 1)
  <2>1. N(p) = item /\ p - 1 \in 0 .. Len(s) /\ p \in 0 .. Len(s) /\ (p - 1) + 1 = p
    BY <1>1 DEF NodeAt
  <2> HIDE DEF item, N
  <2> QED BY <1>5, <2>1
<1>3. /\ \A n \in Nodes : next2[n] = IF n = a THEN b ELSE next[n]
      /\ \A n \in Nodes : previous2[n] = IF n = b THEN a ELSE previous[n]
  BY <1>1
<1> HIDE DEF next2, previous2, a, b, N
<1>6. ASSUME NEW i \in 0 .. Len(s) - 1
      PROVE  /\ next2[NodeAt(l, t, i)] = NodeAt(l, t, i + 1)
             /\ previous2[NodeAt(l, t, i + 1)] = NodeAt(l, t, i)
  <2>1. CASE i < p - 1
    <3>1. NodeAt(l, t, i) = N(i) /\ NodeAt(l, t, i + 1) = N(i + 1)
      BY <1>1, <1>2, <2>1
    <3>2. N(i) # a /\ N(i + 1) # b
      BY <1>1, <1>4, <2>1
    <3> QED BY <1>1, <1>3, <1>5, <2>1, <3>1, <3>2
  <2>2. CASE i = p - 1
    <3>1. NodeAt(l, t, i) = a /\ NodeAt(l, t, i + 1) = b
      BY <1>1, <1>2, <1>4, <2>2
    <3> QED BY <1>1, <1>3, <1>4, <3>1
  <2>3. CASE i > p - 1
    <3>1. NodeAt(l, t, i) = N(i + 1) /\ NodeAt(l, t, i + 1) = N(i + 2)
      BY <1>1, <1>2, <2>3
    <3>2. N(i + 1) # a /\ N(i + 2) # b
      BY <1>1, <1>4, <2>3
    <3>3. next[N(i + 1)] = N(i + 2) /\ previous[N(i + 2)] = N(i + 1)
      <4>1. i + 1 \in 0 .. Len(s) /\ (i + 1) + 1 = i + 2
        BY <1>1, <2>3
      <4> QED BY <1>5, <4>1
    <3> QED BY <1>1, <1>3, <3>1, <3>2, <3>3
  <2> QED BY <1>1, <2>1, <2>2, <2>3
<1> QED BY <1>6 DEF Linked, next2, previous2, a, b

\* A list none of whose nodes is touched.
LEMMA OtherLinked ==
  ASSUME NEW next, NEW previous, NEW l \in AllLists,
         NEW s, IsItems(s, Items), Linked(next, previous, l, s), NEW next2, NEW previous2,
         \A n \in {l} \cup Members(s) : next2[n] = next[n] /\ previous2[n] = previous[n]
  PROVE  Linked(next2, previous2, l, s)
BY NodesDiffer DEF Linked

\* A list has no more items than there are.
LEMMA ItemsCount ==
  ASSUME NEW s, IsItems(s, Items)
  PROVE  /\ Len(s) \in 0 .. Cardinality(Items)
         /\ IsFiniteSet(Members(s)) /\ Cardinality(Members(s)) = Len(s)
<1> DEFINE f == [i \in 1 .. Len(s) |-> s[i]]
<1>1. Len(s) \in Nat /\ \A i \in 1 .. Len(s) : s[i] \in Items
  BY LenProperties, ElementOfSeq DEF IsItems
<1>2. f \in Bijection(1 .. Len(s), Members(s))
  <2>1. f \in [1 .. Len(s) -> Members(s)]
    BY DEF Members
  <2>2. \A i, j \in 1 .. Len(s) : f[i] = f[j] => i = j
    BY DEF IsItems
  <2>3. \A e \in Members(s) : \E i \in 1 .. Len(s) : f[i] = e
    BY DEF Members
  <2> HIDE DEF f
  <2> QED BY <2>1, <2>2, <2>3 DEF Bijection, Injection, IsInjective, Surjection
<1>3. IsFiniteSet(1 .. Len(s)) /\ Cardinality(1 .. Len(s)) = Len(s)
  BY <1>1, FS_Interval
<1> HIDE DEF f
<1>4. IsFiniteSet(Members(s)) /\ Cardinality(Members(s)) = Len(s)
  <2>1. ExistsBijection(1 .. Len(s), Members(s))
    BY <1>2 DEF ExistsBijection
  <2> QED BY <1>3, <2>1, FS_Bijection
<1>5. Members(s) \subseteq Items
  BY <1>1 DEF Members
<1>6. Cardinality(Members(s)) <= Cardinality(Items) /\ Cardinality(Items) \in Nat
  BY <1>5, LinkedListAssumption, FS_Subset, FS_CardinalityType
<1> QED BY <1>1, <1>4, <1>6

\* What ItemsFrom computes, of any pointers, with at most k steps.
IsWalk(w, next, k) ==
  w = [i \in 0 .. k |->
         [m \in Nodes |-> IF next[m] \in AllLists \/ i = 0 THEN <<>>
                          ELSE <<next[m]>> \o w[i - 1][next[m]]]]
WalkFrom(next, n) ==
  LET walk[i \in 0 .. Cardinality(Items)] ==
        [m \in Nodes |-> IF next[m] \in AllLists \/ i = 0 THEN <<>>
                         ELSE <<next[m]>> \o walk[i - 1][next[m]]]
  IN walk[Cardinality(Items)][n]

LEMMA WalkExists ==
  ASSUME NEW next \in [Nodes -> Nodes]
  PROVE  \A k \in Nat : \E w : IsWalk(w, next, k)
<1> DEFINE T == {k \in Nat : \E w : IsWalk(w, next, k)}
<1>1. 0 \in T
  <2> DEFINE w == [i \in 0 .. 0 |-> [m \in Nodes |-> <<>>]]
  <2>1. IsWalk(w, next, 0)
    BY DEF IsWalk
  <2> HIDE DEF w
  <2> QED BY <2>1
<1>2. ASSUME NEW k \in Nat, k \in T PROVE k + 1 \in T
  <2>1. PICK w : IsWalk(w, next, k)
    BY <1>2
  <2> DEFINE step(i) == [m \in Nodes |-> IF next[m] \in AllLists \/ i = 0 THEN <<>>
                                         ELSE <<next[m]>> \o w[i - 1][next[m]]]
             v == [i \in 0 .. k + 1 |-> step(i)]
  <2>2. \A i \in 0 .. k : v[i] = w[i]
    <3>1. \A i \in 0 .. k : w[i] = step(i)
      BY <2>1 DEF IsWalk
    <3> HIDE DEF step
    <3> QED BY <3>1
  <2>4. v = [i \in 0 .. k + 1 |->
               [m \in Nodes |-> IF next[m] \in AllLists \/ i = 0 THEN <<>>
                                ELSE <<next[m]>> \o v[i - 1][next[m]]]]
    <3> DEFINE again(i) == [m \in Nodes |-> IF next[m] \in AllLists \/ i = 0 THEN <<>>
                                            ELSE <<next[m]>> \o v[i - 1][next[m]]]
    <3>1. ASSUME NEW i \in 0 .. k + 1 PROVE step(i) = again(i)
      <4>1. i # 0 => v[i - 1] = w[i - 1]
        <5>1. i # 0 => i - 1 \in 0 .. k
          OBVIOUS
        <5> HIDE DEF v
        <5> QED BY <2>2, <5>1
      <4> HIDE DEF v
      <4> QED BY <4>1
    <3>2. v = [i \in 0 .. k + 1 |-> again(i)]
      <4> HIDE DEF again, step
      <4> QED BY <3>1
    <3> HIDE DEF v
    <3> QED BY <3>2
  <2>5. \E u : IsWalk(u, next, k + 1)
    <3> HIDE DEF v
    <3> QED BY <2>4 DEF IsWalk
  <2> QED BY <2>5
<1>3. Nat \subseteq T
  <2> HIDE DEF T
  <2> QED BY <1>1, <1>2, SetInduction
<1> QED BY <1>3

\* The walk along the pointers of a list meets its items.
LEMMA WalkMeetsItems ==
  ASSUME NEW next \in [Nodes -> Nodes], NEW previous, NEW l \in AllLists,
         NEW s, IsItems(s, Items), Linked(next, previous, l, s)
  PROVE  WalkFrom(next, l) = s
<1> DEFINE c == Cardinality(Items)
           w == CHOOSE w : IsWalk(w, next, c)
<1>0. c \in Nat /\ Len(s) \in 0 .. c
  BY LinkedListAssumption, FS_CardinalityType, ItemsCount
<1>1. IsWalk(w, next, c)
  BY <1>0, WalkExists
<1>2. WalkFrom(next, l) = w[c][l]
  BY DEF WalkFrom, IsWalk
<1> HIDE DEF w, c
<1>3. \A i \in 0 .. c, m \in Nodes :
        w[i][m] = IF next[m] \in AllLists \/ i = 0 THEN <<>> ELSE <<next[m]>> \o w[i - 1][next[m]]
  <2>1. ASSUME NEW i \in 0 .. c
        PROVE  w[i] = [m \in Nodes |-> IF next[m] \in AllLists \/ i = 0 THEN <<>>
                                       ELSE <<next[m]>> \o w[i - 1][next[m]]]
    BY <1>1, Zenon DEF IsWalk
  <2> QED BY <2>1
<1> DEFINE n == Len(s)
           N(i) == NodeAt(l, s, i)
           Rest(d) == d <= n => \A k \in d .. c : w[k][N(n - d)] = SubSeq(s, n - d + 1, n)
           T == {d \in Nat : Rest(d)}
<1>4. /\ n \in Nat /\ s \in Seq(Items) /\ \A i : N(i) \in Nodes
      /\ \A i \in 1 .. n : N(i) = s[i] /\ N(i) \notin AllLists
      /\ \A i \in 0 .. n : next[N(i)] = N(i + 1)
      /\ N(n + 1) = l /\ N(0) = l
  <2>1. \A i \in 1 .. n : s[i] \notin AllLists
    BY NodesDiffer, LinkedListAssumption
  <2> QED BY <2>1, NodesDiffer DEF NodeAt, Linked, IsItems
<1>5. 0 \in T
  <2>1. next[N(n - 0)] = l /\ n - 0 \in 0 .. n
    BY <1>4
  <2>2. SubSeq(s, n - 0 + 1, n) = <<>>
    BY <1>4, SubSeqEmpty
  <2>3. ASSUME NEW k \in 0 .. c PROVE w[k][N(n - 0)] = <<>>
    BY <1>3, <1>4, <2>1
  <2> QED BY <2>2, <2>3
<1>6. ASSUME NEW d \in Nat, d \in T PROVE d + 1 \in T
  <2>0. ASSUME d + 1 <= n, NEW k \in d + 1 .. c
        PROVE  w[k][N(n - (d + 1))] = SubSeq(s, n - (d + 1) + 1, n)
    <3> DEFINE i == n - (d + 1)
    <3>1. i \in 0 .. n - 1 /\ i \in 0 .. n /\ i + 1 \in 1 .. n /\ n - d = i + 1
          /\ k \in 0 .. c /\ k # 0 /\ k - 1 \in d .. c /\ d <= n
      BY <1>0, <1>4, <2>0
    <3>2. next[N(i)] = s[i + 1] /\ next[N(i)] \notin AllLists /\ N(i) \in Nodes /\ N(i + 1) = s[i + 1]
      <4> HIDE DEF i, N, n
      <4> QED BY <1>4, <3>1
    <3>3. w[k - 1][N(n - d)] = SubSeq(s, n - d + 1, n)
      <4>1. Rest(d)
        BY <1>6
      <4> HIDE DEF N, n
      <4> QED BY <3>1, <4>1
    <3>4. w[k][N(i)] = <<s[i + 1]>> \o w[k - 1][N(i + 1)]
      <4> HIDE DEF i, N, n
      <4> QED BY <1>3, <3>1, <3>2
    <3>5. SubSeq(s, i + 1, n) = <<s[i + 1]>> \o SubSeq(s, (i + 1) + 1, n)
      <4> HIDE DEF i
      <4>1. n \in i + 1 .. Len(s)
        BY <3>1, <1>4
      <4> QED BY <1>4, <3>1, <4>1, SubSeqRecursiveFirst
    <3> HIDE DEF N, n, i
    <3>6. w[k][N(i)] = SubSeq(s, i + 1, n)
      BY <3>1, <3>3, <3>4, <3>5
    <3> QED BY <3>6 DEF i
  <2>1. Rest(d + 1)
    <3> HIDE DEF N, n
    <3> QED BY <2>0
  <2> HIDE DEF Rest
  <2> QED BY <2>1
<1>7. Rest(n)
  <2>1. Nat \subseteq T
    <3> HIDE DEF T
    <3> QED BY <1>5, <1>6, SetInduction
  <2> HIDE DEF Rest
  <2> QED BY <1>4, <2>1
<1>8. w[c][N(n - n)] = SubSeq(s, n - n + 1, n)
  <2>1. n <= n /\ c \in n .. c
    BY <1>0, <1>4
  <2> HIDE DEF N, n
  <2> QED BY <1>7, <2>1
<1>9. n - n = 0 /\ n - n + 1 = 1 /\ SubSeq(s, 1, n) = s
  BY <1>4, SubSeqFull
<1>10. N(0) = l
  BY <1>4
<1> HIDE DEF N, n
<1> QED BY <1>2, <1>8, <1>9, <1>10

-----------------------------------------------------------------------------
(* The invariant.                                                          *)

\* The pointers of the list l go through the items s, which are those that have
\* it as their container.
Holds(next, previous, container, l, s) ==
  /\ IsItems(s, Items) /\ Members(s) = {item \in Items : container[item] = l}
  /\ Linked(next, previous, l, s)

LinkedTypes ==
  /\ pxNext \in [Nodes -> Nodes] /\ pxPrevious \in [Nodes -> Nodes]
  /\ pxContainer \in [Items -> AllLists \cup {NoNode}]
  /\ xItemValue \in [Items -> TickType]
  /\ pxIndex \in [AllLists -> Nodes]
  /\ uxNumberOfItems \in [AllLists -> Nat]

ListsHold == \A l \in AllLists : Holds(pxNext, pxPrevious, pxContainer, l, ItemsFrom(l))

CountsExact == \A l \in AllLists : uxNumberOfItems[l] = Len(ItemsFrom(l))

IndexOnList == /\ \A l \in AllLists : pxIndex[l] \in NodesOf(l)
               /\ \A l \in SortedLists : pxIndex[l] = l

LinkedInv == LinkedTypes /\ ListsHold /\ CountsExact /\ IndexOnList

\* The list that the pointers implement.
ListAt(l) == [items |-> ItemsFrom(l), index |-> Position(ItemsFrom(l), pxIndex[l])]

LEMMA PositionAt ==
  ASSUME NEW l \in AllLists, NEW s, IsItems(s, Items)
  PROVE  /\ \A i \in 0 .. Len(s) : Position(s, NodeAt(l, s, i)) = i
         /\ \A n \in {l} \cup Members(s) :
              \E i \in 0 .. Len(s) : n = NodeAt(l, s, i) /\ Position(s, n) = i
<1>1. Len(s) \in Nat /\ \A i \in 1 .. Len(s) : s[i] \notin AllLists
  BY NodesDiffer, LinkedListAssumption
<1>2. \A i, j \in 1 .. Len(s) : s[i] = s[j] => i = j
  BY DEF IsItems
<1>3. ASSUME NEW i \in 0 .. Len(s) PROVE Position(s, NodeAt(l, s, i)) = i
  <2>1. CASE i = 0
    BY <2>1 DEF Position, NodeAt
  <2>2. CASE i # 0
    <3>1. i \in 1 .. Len(s) /\ NodeAt(l, s, i) = s[i]
      BY <1>1, <2>2 DEF NodeAt
    <3>2. (CHOOSE k \in 1 .. Len(s) : s[k] = s[i]) = i
      BY <1>2, <3>1
    <3> QED BY <1>1, <3>1, <3>2 DEF Position
  <2> QED BY <2>1, <2>2
<1>4. ASSUME NEW n \in {l} \cup Members(s)
      PROVE  \E i \in 0 .. Len(s) : n = NodeAt(l, s, i)
  <2>1. CASE n = l
    <3>1. 0 \in 0 .. Len(s) /\ NodeAt(l, s, 0) = l
      BY <1>1 DEF NodeAt
    <3> QED BY <2>1, <3>1
  <2>2. CASE n \in Members(s)
    <3>1. PICK i \in 1 .. Len(s) : n = s[i]
      BY <2>2 DEF Members
    <3>2. i \in 0 .. Len(s) /\ NodeAt(l, s, i) = n
      BY <1>1, <3>1 DEF NodeAt
    <3> QED BY <3>2
  <2> QED BY <2>1, <2>2
<1> QED BY <1>3, <1>4

LEMMA ItemsFromWalk == \A n : /\ ItemsFrom(n) = WalkFrom(pxNext, n)
                              /\ ItemsFrom(n)' = WalkFrom(pxNext', n)
BY DEF ItemsFrom, WalkFrom

-----------------------------------------------------------------------------
(* The steps.                                                              *)

\* The i-th node of the list l.
At(l, i) == NodeAt(l, ItemsFrom(l), i)

\* What the invariant says of a list.
LEMMA ListFacts ==
  ASSUME LinkedInv, NEW l \in AllLists
  PROVE  /\ IsItems(ItemsFrom(l), Items) /\ Len(ItemsFrom(l)) \in Nat
         /\ Linked(pxNext, pxPrevious, l, ItemsFrom(l))
         /\ \A item \in Items : item \in Members(ItemsFrom(l)) <=> pxContainer[item] = l
         /\ NodesOf(l) = {l} \cup Members(ItemsFrom(l))
         /\ \A i : At(l, i) \in Nodes /\ At(l, i) \in NodesOf(l)
         /\ \A i \in 0 .. Len(ItemsFrom(l)) :
              pxNext[At(l, i)] = At(l, i + 1) /\ pxPrevious[At(l, i + 1)] = At(l, i)
         /\ At(l, 0) = l /\ At(l, Len(ItemsFrom(l)) + 1) = l
         /\ Members(ItemsFrom(l)) \subseteq Items
<1>1. Holds(pxNext, pxPrevious, pxContainer, l, ItemsFrom(l))
  BY DEF LinkedInv, ListsHold
<1>2. /\ IsItems(ItemsFrom(l), Items) /\ Linked(pxNext, pxPrevious, l, ItemsFrom(l))
      /\ Members(ItemsFrom(l)) = {item \in Items : pxContainer[item] = l}
  BY <1>1 DEF Holds
<1>3. Len(ItemsFrom(l)) \in Nat /\ \A i : At(l, i) \in Nodes /\ At(l, i) \in {l} \cup Members(ItemsFrom(l))
  BY <1>2, NodesDiffer DEF At
<1>4. At(l, 0) = l /\ At(l, Len(ItemsFrom(l)) + 1) = l
  BY <1>3 DEF At, NodeAt
<1>5. NodesOf(l) = {l} \cup Members(ItemsFrom(l))
  BY <1>2 DEF NodesOf
<1>6. \A i \in 0 .. Len(ItemsFrom(l)) :
        pxNext[At(l, i)] = At(l, i + 1) /\ pxPrevious[At(l, i + 1)] = At(l, i)
  BY <1>2 DEF Linked, At
<1> QED BY <1>2, <1>3, <1>4, <1>5, <1>6

\* The position of pxIndex.
LEMMA IndexAt ==
  ASSUME LinkedInv, NEW l \in AllLists
  PROVE  /\ ListAt(l).items = ItemsFrom(l)
         /\ ListAt(l).index \in 0 .. Len(ItemsFrom(l))
         /\ pxIndex[l] = At(l, ListAt(l).index)
         /\ l \in SortedLists => ListAt(l).index = 0
<1>1. IsItems(ItemsFrom(l), Items) /\ pxIndex[l] \in {l} \cup Members(ItemsFrom(l))
  BY ListFacts DEF LinkedInv, IndexOnList
<1>2. PICK i \in 0 .. Len(ItemsFrom(l)) :
        pxIndex[l] = NodeAt(l, ItemsFrom(l), i) /\ Position(ItemsFrom(l), pxIndex[l]) = i
  BY <1>1, PositionAt
<1>3. ListAt(l).items = ItemsFrom(l) /\ ListAt(l).index = i
  BY <1>2 DEF ListAt
<1>4. l \in SortedLists => i = 0
  BY <1>2 DEF LinkedInv, IndexOnList, Position, AllLists
<1> QED BY <1>2, <1>3, <1>4 DEF At

\* An item between the p-th node of a list and the one after it.
LEMMA InsertStep ==
  ASSUME LinkedInv, NEW l \in AllLists, NEW item \in Items, pxContainer[item] = NoNode,
         NEW p \in 0 .. Len(ItemsFrom(l)), Link(item, At(l, p), At(l, p + 1)),
         pxContainer' = [pxContainer EXCEPT ![item] = l],
         NEW t, IsItems(t, Items), Members(t) = Members(ItemsFrom(l)) \cup {item},
         Len(t) = Len(ItemsFrom(l)) + 1,
         \A i \in 1 .. Len(ItemsFrom(l)) + 1 :
           t[i] = IF i <= p THEN ItemsFrom(l)[i] ELSE IF i = p + 1 THEN item ELSE ItemsFrom(l)[i - 1]
  PROVE  /\ pxNext' \in [Nodes -> Nodes] /\ pxPrevious' \in [Nodes -> Nodes]
         /\ pxContainer' \in [Items -> AllLists \cup {NoNode}]
         /\ ListsHold' /\ ItemsFrom(l)' = t
         /\ \A m \in AllLists : m # l => ItemsFrom(m)' = ItemsFrom(m)
<1> DEFINE s == ItemsFrom(l)
           a == At(l, p)
           b == At(l, p + 1)
<1>1. /\ pxNext \in [Nodes -> Nodes] /\ pxPrevious \in [Nodes -> Nodes]
      /\ pxContainer \in [Items -> AllLists \cup {NoNode}]
      /\ a \in Nodes /\ b \in Nodes /\ item \in Nodes
      /\ a \in {l} \cup Members(s) /\ b \in {l} \cup Members(s)
      /\ IsItems(s, Items) /\ Linked(pxNext, pxPrevious, l, s)
      /\ item \notin Members(s)
  <2>1. item \notin Members(s)
    BY ListFacts, LinkedListAssumption DEF Nodes
  <2> QED BY <2>1, ListFacts DEF LinkedInv, LinkedTypes, Nodes
<1>2. /\ pxNext' = [pxNext EXCEPT ![item] = b, ![a] = item]
      /\ pxPrevious' = [pxPrevious EXCEPT ![item] = a, ![b] = item]
  BY DEF Link
<1>3. pxNext' \in [Nodes -> Nodes] /\ pxPrevious' \in [Nodes -> Nodes]
      /\ pxContainer' \in [Items -> AllLists \cup {NoNode}]
  BY <1>1, <1>2
<1>4. Linked(pxNext', pxPrevious', l, t)
  <2>1. Linked([pxNext EXCEPT ![item] = NodeAt(l, s, p + 1), ![NodeAt(l, s, p)] = item],
               [pxPrevious EXCEPT ![item] = NodeAt(l, s, p), ![NodeAt(l, s, p + 1)] = item], l, t)
    BY <1>1, InsertLinked
  <2> QED BY <1>2, <2>1 DEF At
<1>5. Holds(pxNext', pxPrevious', pxContainer', l, t)
  <2>1. Members(t) = {x \in Items : pxContainer'[x] = l}
    BY <1>1, ListFacts
  <2> QED BY <1>4, <2>1 DEF Holds
<1>6. ItemsFrom(l)' = t
  BY <1>3, <1>4, WalkMeetsItems, ItemsFromWalk
<1>7. ASSUME NEW m \in AllLists, m # l
      PROVE  ItemsFrom(m)' = ItemsFrom(m) /\ Holds(pxNext', pxPrevious', pxContainer', m, ItemsFrom(m))
  <2> DEFINE r == ItemsFrom(m)
  <2>1. /\ IsItems(r, Items) /\ Linked(pxNext, pxPrevious, m, r)
        /\ \A x \in Items : x \in Members(r) <=> pxContainer[x] = m
        /\ Members(r) \subseteq Items
        /\ \A x \in Items : x \in Members(s) <=> pxContainer[x] = l
        /\ Members(s) \subseteq Items
    BY ListFacts
  <2>2. \A n \in {m} \cup Members(r) : n \in Nodes /\ n # item /\ n # a /\ n # b
    <3>1. NoNode # m /\ m \notin Items /\ l \notin Items
      BY LinkedListAssumption DEF Nodes
    <3> HIDE DEF r, s, a, b
    <3> QED BY <1>1, <1>7, <2>1, <3>1 DEF Nodes
  <2>3. \A n \in {m} \cup Members(r) : pxNext'[n] = pxNext[n] /\ pxPrevious'[n] = pxPrevious[n]
    <3> HIDE DEF a, b, r
    <3> QED BY <1>1, <1>2, <2>2
  <2>4. Linked(pxNext', pxPrevious', m, r)
    BY <2>1, <2>3, OtherLinked
  <2>5. ItemsFrom(m)' = r
    BY <1>3, <2>1, <2>4, WalkMeetsItems, ItemsFromWalk
  <2>6. Members(r) = {x \in Items : pxContainer'[x] = m}
    <3>1. \A x \in Items : pxContainer'[x] = m <=> pxContainer[x] = m
      BY <1>1, <1>7, LinkedListAssumption DEF Nodes
    <3> QED BY <2>1, <3>1
  <2> QED BY <2>1, <2>4, <2>5, <2>6 DEF Holds
<1>8. ListsHold'
  <2>1. ASSUME NEW m \in AllLists
        PROVE  Holds(pxNext', pxPrevious', pxContainer', m, ItemsFrom(m)')
    BY <1>5, <1>6, <1>7
  <2> QED BY <2>1 DEF ListsHold
<1> QED BY <1>3, <1>6, <1>7, <1>8

\* Without the p-th item.
LEMMA RemoveStep ==
  ASSUME LinkedInv, NEW l \in AllLists, NEW p \in 1 .. Len(ItemsFrom(l)), NEW item \in Items,
         item = ItemsFrom(l)[p],
         pxNext' = [pxNext EXCEPT ![pxPrevious[item]] = pxNext[item]],
         pxPrevious' = [pxPrevious EXCEPT ![pxNext[item]] = pxPrevious[item]],
         pxContainer' = [pxContainer EXCEPT ![item] = NoNode],
         NEW t, IsItems(t, Items), Members(t) = Members(ItemsFrom(l)) \ {item},
         Len(t) = Len(ItemsFrom(l)) - 1,
         \A i \in 1 .. Len(ItemsFrom(l)) - 1 :
           t[i] = IF i < p THEN ItemsFrom(l)[i] ELSE ItemsFrom(l)[i + 1]
  PROVE  /\ pxNext' \in [Nodes -> Nodes] /\ pxPrevious' \in [Nodes -> Nodes]
         /\ pxContainer' \in [Items -> AllLists \cup {NoNode}]
         /\ ListsHold' /\ ItemsFrom(l)' = t
         /\ \A m \in AllLists : m # l => ItemsFrom(m)' = ItemsFrom(m)
<1> DEFINE s == ItemsFrom(l)
           a == pxPrevious[item]
           b == pxNext[item]
<1>1. /\ pxNext \in [Nodes -> Nodes] /\ pxPrevious \in [Nodes -> Nodes]
      /\ pxContainer \in [Items -> AllLists \cup {NoNode}]
      /\ item \in Nodes /\ IsItems(s, Items) /\ Linked(pxNext, pxPrevious, l, s)
      /\ Len(s) \in Nat /\ p \in Nat /\ item \in Members(s)
  <2>1. item \in Members(s)
    BY DEF Members
  <2> QED BY <2>1, ListFacts DEF LinkedInv, LinkedTypes, Nodes
<1>2. a = At(l, p - 1) /\ b = At(l, p + 1)
  <2>1. p \in 0 .. Len(s) /\ p - 1 \in 0 .. Len(s) /\ (p - 1) + 1 = p
    BY <1>1
  <2>2. At(l, p) = item
    BY <1>1 DEF At, NodeAt
  <2> HIDE DEF s
  <2> QED BY <2>1, <2>2, ListFacts DEF s
<1>3. a \in {l} \cup Members(s) /\ b \in {l} \cup Members(s) /\ a \in Nodes /\ b \in Nodes
  BY <1>2, ListFacts
<1>4. Linked(pxNext', pxPrevious', l, t)
  BY <1>1, RemoveLinked
<1>5. pxNext' \in [Nodes -> Nodes] /\ pxPrevious' \in [Nodes -> Nodes]
      /\ pxContainer' \in [Items -> AllLists \cup {NoNode}]
  BY <1>1, <1>3
<1>6. Holds(pxNext', pxPrevious', pxContainer', l, t)
  <2>1. Members(t) = {x \in Items : pxContainer'[x] = l}
    <3>1. NoNode # l
      BY LinkedListAssumption DEF Nodes
    <3> HIDE DEF s
    <3> QED BY <1>1, <3>1, ListFacts DEF s
  <2> QED BY <1>4, <2>1 DEF Holds
<1>7. ItemsFrom(l)' = t
  BY <1>5, <1>4, WalkMeetsItems, ItemsFromWalk
<1>8. ASSUME NEW m \in AllLists, m # l
      PROVE  ItemsFrom(m)' = ItemsFrom(m) /\ Holds(pxNext', pxPrevious', pxContainer', m, ItemsFrom(m))
  <2> DEFINE r == ItemsFrom(m)
  <2>1. /\ IsItems(r, Items) /\ Linked(pxNext, pxPrevious, m, r)
        /\ \A x \in Items : x \in Members(r) <=> pxContainer[x] = m
        /\ Members(r) \subseteq Items
        /\ \A x \in Items : x \in Members(s) <=> pxContainer[x] = l
        /\ Members(s) \subseteq Items
    BY ListFacts
  <2>2. \A n \in {m} \cup Members(r) : n \in Nodes /\ n # a /\ n # b
    <3>1. m \notin Items /\ l \notin Items
      BY LinkedListAssumption
    <3> HIDE DEF r, s, a, b
    <3> QED BY <1>3, <1>8, <2>1, <3>1 DEF Nodes
  <2>3. \A n \in {m} \cup Members(r) : pxNext'[n] = pxNext[n] /\ pxPrevious'[n] = pxPrevious[n]
    <3>1. pxNext' = [pxNext EXCEPT ![a] = b] /\ pxPrevious' = [pxPrevious EXCEPT ![b] = a]
      OBVIOUS
    <3> HIDE DEF a, b, r
    <3> QED BY <1>1, <3>1, <2>2
  <2>4. Linked(pxNext', pxPrevious', m, r)
    BY ONLY <2>1, <2>3, m \in AllLists, OtherLinked
  <2>5. ItemsFrom(m)' = r
    BY ONLY <1>5, <2>1, <2>4, m \in AllLists, WalkMeetsItems, ItemsFromWalk
  <2>6. Members(r) = {x \in Items : pxContainer'[x] = m}
    <3>1. \A x \in Items : pxContainer'[x] = m <=> pxContainer[x] = m
      <4>1. NoNode # m /\ pxContainer[item] = l
        BY <1>1, <2>1, LinkedListAssumption DEF Nodes
      <4> QED BY <1>1, <1>8, <4>1
    <3> QED BY <2>1, <3>1
  <2> QED BY <2>1, <2>4, <2>5, <2>6 DEF Holds
<1>9. ListsHold'
  <2>1. ASSUME NEW m \in AllLists
        PROVE  Holds(pxNext', pxPrevious', pxContainer', m, ItemsFrom(m)')
    BY <1>6, <1>7, <1>8
  <2> QED BY <2>1 DEF ListsHold
<1> QED BY <1>5, <1>7, <1>8, <1>9

\* Where vListInsertEnd puts an item: before the one pxIndex is at.
LEMMA EndPlace ==
  ASSUME LinkedInv, NEW l \in AllLists
  PROVE  \E p \in 0 .. Len(ItemsFrom(l)) :
           /\ At(l, p) = pxPrevious[pxIndex[l]] /\ At(l, p + 1) = pxIndex[l]
           /\ p = IF ListAt(l).index = 0 THEN Len(ItemsFrom(l)) ELSE ListAt(l).index - 1
<1> DEFINE j == ListAt(l).index
           n == Len(ItemsFrom(l))
           p == IF j = 0 THEN n ELSE j - 1
<1>1. n \in Nat /\ j \in 0 .. n /\ pxIndex[l] = At(l, j)
  BY ListFacts, IndexAt
<1>2. p \in 0 .. n /\ (j = 0 => p = n) /\ (j # 0 => p + 1 = j)
  BY <1>1
<1>3. pxPrevious[At(l, p + 1)] = At(l, p) /\ At(l, 0) = l /\ At(l, n + 1) = l
  BY <1>2, ListFacts
<1>4. At(l, p + 1) = pxIndex[l]
  <2> HIDE DEF p, j, n
  <2> QED BY <1>1, <1>2, <1>3
<1> QED BY <1>2, <1>3, <1>4

\* Where vListInsert puts it: before the first greater value.
LEMMA SortedPlace ==
  ASSUME LinkedInv, NEW l \in AllLists, NEW value \in TickType,
         NEW p \in 0 .. Len(ItemsFrom(l)),
         \A i \in 1 .. p : xItemValue[ItemsFrom(l)[i]] <= value,
         p = Len(ItemsFrom(l)) \/ xItemValue[ItemsFrom(l)[p + 1]] > value
  PROVE  pxIterator(l, value) = At(l, p) /\ pxNext[pxIterator(l, value)] = At(l, p + 1)
<1> DEFINE s == ItemsFrom(l)
           goes == {n \in Nodes : ValueOf(pxNext[n]) <= value}
           w == CHOOSE u : u = [n \in Nodes |-> IF ValueOf(pxNext[n]) <= value THEN u[pxNext[n]] ELSE n]
           seen == [i \in 0 .. p |-> At(l, i)]
<1>1. /\ Len(s) \in Nat /\ p \in Nat /\ pxNext \in [Nodes -> Nodes]
      /\ \A i \in 0 .. Len(s) : pxNext[At(l, i)] = At(l, i + 1) /\ pxPrevious[At(l, i + 1)] = At(l, i)
      /\ \A i : At(l, i) \in Nodes
      /\ At(l, 0) = l /\ At(l, Len(s) + 1) = l
      /\ \A i \in 1 .. Len(s) : s[i] \in Items /\ At(l, i) = s[i] /\ s[i] \notin AllLists
      /\ xItemValue \in [Items -> TickType]
  <2>1. IsItems(s, Items)
    BY ListFacts
  <2>2. \A i \in 1 .. Len(s) : s[i] \in Items /\ At(l, i) = s[i] /\ s[i] \notin AllLists
    BY <2>1, NodesDiffer, LinkedListAssumption DEF At, NodeAt
  <2> QED BY <2>2, ListFacts DEF LinkedInv, LinkedTypes
<1>2. CASE value = portMAX_DELAY
  <2>1. p = Len(s)
    <3> SUFFICES ASSUME p # Len(s) PROVE FALSE
      OBVIOUS
    <3>1. p + 1 \in 1 .. Len(s)
      BY <1>1
    <3>2. xItemValue[s[p + 1]] \in 0 .. portMAX_DELAY
      BY <1>1, <3>1 DEF TickType
    <3> QED BY <1>2, <3>2, LinkedListAssumption
  <2>2. pxIterator(l, value) = pxPrevious[l]
    BY <1>2 DEF pxIterator
  <2>3. Len(s) \in 0 .. Len(s)
    BY <1>1
  <2> HIDE DEF s
  <2> QED BY <1>1, <2>1, <2>2, <2>3
<1>3. CASE value # portMAX_DELAY
  <2>1. pxIterator(l, value) = w[l]
    BY <1>3 DEF pxIterator
  <2>2. ASSUME NEW v PROVE IsLoop(v, Nodes, pxNext, goes)
          <=> v = [n \in Nodes |-> IF ValueOf(pxNext[n]) <= value THEN v[pxNext[n]] ELSE n]
    BY DEF IsLoop
  <2>3. \E v : IsLoop(v, Nodes, pxNext, goes)
    <3>1. goes \in SUBSET Nodes /\ \A n \in goes : pxNext[n] \in Nodes
      BY <1>1
    <3> HIDE DEF goes
    <3> QED BY <3>1, LoopExists
  <2>4. IsLoop(w, Nodes, pxNext, goes)
    <3>1. \E v : v = [n \in Nodes |-> IF ValueOf(pxNext[n]) <= value THEN v[pxNext[n]] ELSE n]
      BY <2>2, <2>3
    <3>2. w = [n \in Nodes |-> IF ValueOf(pxNext[n]) <= value THEN w[pxNext[n]] ELSE n]
      BY <3>1, Zenon
    <3> HIDE DEF w
    <3> QED BY <2>2, <3>2
  <2>5. \A i \in 0 .. p - 1 : seen[i] \in goes /\ pxNext[seen[i]] = seen[i + 1]
    <3> SUFFICES ASSUME NEW i \in 0 .. p - 1
                 PROVE  seen[i] \in goes /\ pxNext[seen[i]] = seen[i + 1]
      OBVIOUS
    <3>1. i \in 0 .. p /\ i + 1 \in 0 .. p /\ i \in 0 .. Len(s) /\ i + 1 \in 1 .. p /\ i + 1 \in 1 .. Len(s)
      BY <1>1
    <3>2. seen[i] = At(l, i) /\ seen[i + 1] = At(l, i + 1)
      BY <3>1
    <3>3. pxNext[At(l, i)] = At(l, i + 1) /\ At(l, i + 1) = s[i + 1]
      BY <1>1, <3>1
    <3>4. ValueOf(s[i + 1]) = xItemValue[s[i + 1]]
      BY <1>1, <3>1 DEF ValueOf
    <3>5. xItemValue[s[i + 1]] <= value
      BY <3>1
    <3> HIDE DEF seen, s
    <3> QED BY <1>1, <3>2, <3>3, <3>4, <3>5
  <2>6. seen[p] \in Nodes \ goes /\ seen[p] = At(l, p) /\ seen[0] = l
    <3>1. p \in 0 .. p /\ 0 \in 0 .. p /\ p \in 0 .. Len(s)
      BY <1>1
    <3>2. seen[p] = At(l, p) /\ seen[0] = l
      BY <1>1, <3>1
    <3>3. pxNext[At(l, p)] = At(l, p + 1)
      BY <1>1
    <3>4. ~ (ValueOf(At(l, p + 1)) <= value)
      <4>1. CASE p = Len(s)
        <5>1. At(l, p + 1) = l
          BY <1>1, <4>1
        <5> QED BY <1>3, <5>1, LinkedListAssumption DEF ValueOf, TickType
      <4>2. CASE p # Len(s)
        <5>1. p + 1 \in 1 .. Len(s)
          BY <1>1, <4>2
        <5>2. ValueOf(At(l, p + 1)) = xItemValue[s[p + 1]] /\ xItemValue[s[p + 1]] \in TickType
          BY <1>1, <5>1 DEF ValueOf
        <5> QED BY <4>2, <5>2, LinkedListAssumption DEF TickType
      <4> QED BY <4>1, <4>2
    <3> HIDE DEF seen, s
    <3> QED BY <1>1, <3>2, <3>3, <3>4
  <2>7. w[seen[0]] = seen[p]
    <3>1. goes \in SUBSET Nodes
      OBVIOUS
    <3>2. IsPath(seen, p, Nodes, pxNext, goes)
      <4> HIDE DEF goes, seen, s
      <4> QED BY <1>1, <2>5, <2>6, <3>1 DEF IsPath
    <3> HIDE DEF goes, w, seen, s
    <3> QED BY ONLY <2>4, <3>2, LoopAlong
  <2>8. pxIterator(l, value) = At(l, p)
    <3> HIDE DEF w, seen
    <3> QED BY <2>1, <2>6, <2>7
  <2> QED BY <1>1, <2>8
<1> QED BY <1>2, <1>3

-----------------------------------------------------------------------------
(* Each operation preserves the invariant and does to the sequences what   *)
(* module KernelLists says.                                                *)

\* The other lists, of which neither the items nor pxIndex changes.
LEMMA ListsUnchanged ==
  ASSUME LinkedInv, NEW l \in AllLists, ItemsFrom(l)' = ItemsFrom(l), pxIndex'[l] = pxIndex[l]
  PROVE  ListAt(l)' = ListAt(l)
<1>1. ListAt(l)' = [items |-> ItemsFrom(l)', index |-> Position(ItemsFrom(l)', pxIndex'[l])]
  BY DEF ListAt, Position
<1> QED BY <1>1 DEF ListAt

\* After an insertion at the end or in the order.
LEMMA InsertCounts ==
  ASSUME LinkedInv, NEW l \in AllLists, NEW item \in Items, pxContainer[item] = NoNode,
         pxContainer' = [pxContainer EXCEPT ![item] = l], pxIndex' = pxIndex,
         uxNumberOfItems' = [uxNumberOfItems EXCEPT ![l] = @ + 1],
         Len(ItemsFrom(l)') = Len(ItemsFrom(l)) + 1,
         \A m \in AllLists : m # l => ItemsFrom(m)' = ItemsFrom(m)
  PROVE  /\ uxNumberOfItems' \in [AllLists -> Nat] /\ CountsExact' /\ IndexOnList'
<1>1. /\ uxNumberOfItems \in [AllLists -> Nat] /\ pxContainer \in [Items -> AllLists \cup {NoNode}]
      /\ \A m \in AllLists : uxNumberOfItems[m] = Len(ItemsFrom(m))
      /\ \A m \in AllLists : pxIndex[m] \in NodesOf(m)
      /\ \A m \in SortedLists : pxIndex[m] = m
  BY DEF LinkedInv, LinkedTypes, CountsExact, IndexOnList
<1>2. \A m \in AllLists : uxNumberOfItems'[m] = Len(ItemsFrom(m)')
  BY <1>1
<1>3. \A m \in AllLists : NodesOf(m) \subseteq NodesOf(m)'
  <2>1. \A x \in Items : pxContainer[x] # NoNode => pxContainer'[x] = pxContainer[x]
    BY <1>1
  <2>2. \A m \in AllLists : m # NoNode
    BY LinkedListAssumption DEF Nodes
  <2> QED BY <2>1, <2>2 DEF NodesOf
<1>4. \A m \in AllLists : pxIndex'[m] \in NodesOf(m)'
  BY <1>1, <1>3
<1> QED BY <1>1, <1>2, <1>4 DEF CountsExact, IndexOnList

LEMMA InsertEndStep ==
  ASSUME LinkedInv, NEW l \in Rotating, NEW item \in Items, vListInsertEnd(l, item)
  PROVE  /\ LinkedInv'
         /\ ListAt(l)' = InsertEnd(ListAt(l), item)
         /\ \A m \in AllLists : m # l => ListAt(m)' = ListAt(m)
<1> DEFINE s == ItemsFrom(l)
           j == ListAt(l).index
           t == InsertEnd(ListAt(l), item).items
<1>1. /\ l \in AllLists /\ pxContainer[item] = NoNode /\ pxIndex' = pxIndex /\ xItemValue' = xItemValue
      /\ Link(item, pxPrevious[pxIndex[l]], pxIndex[l])
      /\ pxContainer' = [pxContainer EXCEPT ![item] = l]
      /\ uxNumberOfItems' = [uxNumberOfItems EXCEPT ![l] = @ + 1]
  BY DEF vListInsertEnd, AllLists
<1>2. PICK p \in 0 .. Len(s) : /\ At(l, p) = pxPrevious[pxIndex[l]] /\ At(l, p + 1) = pxIndex[l]
                               /\ p = IF j = 0 THEN Len(s) ELSE j - 1
  BY <1>1, EndPlace
<1>3. /\ IsItems(s, Items) /\ s \in Seq(Items) /\ Len(s) \in Nat /\ item \in Items \ Members(s)
      /\ ListAt(l).items = s /\ j \in 0 .. Len(s) /\ pxIndex[l] = At(l, j)
  <2>1. item \notin Members(s)
    BY <1>1, ListFacts, LinkedListAssumption DEF Nodes
  <2>2. IsItems(s, Items)
    BY <1>1, ListFacts
  <2>3. s \in Seq(Items)
    BY <2>2 DEF IsItems
  <2> QED BY <1>1, <2>1, <2>2, <2>3, ListFacts, IndexAt
<1>4. ListAt(l) = [items |-> s, index |-> j]
  BY DEF ListAt
<1>5. /\ IsItems(t, Items) /\ Members(t) = Members(s) \cup {item} /\ Len(t) = Len(s) + 1
      /\ \A i \in 1 .. Len(s) + 1 :
           t[i] = IF i <= p THEN s[i] ELSE IF i = p + 1 THEN item ELSE s[i - 1]
      /\ InsertEnd(ListAt(l), item) = [items |-> t, index |-> IF j = 0 THEN 0 ELSE j + 1]
  <2>1. CASE j = 0
    <3>1. t = Append(s, item) /\ InsertEnd(ListAt(l), item) = [items |-> t, index |-> 0]
      BY <1>4, <2>1 DEF InsertEnd
    <3>2. /\ Len(Append(s, item)) = Len(s) + 1 /\ Append(s, item)[Len(s) + 1] = item
          /\ \A i \in 1 .. Len(s) : Append(s, item)[i] = s[i]
      BY <1>3, AppendProperties
    <3>3. IsItems(Append(s, item), Items) /\ Members(Append(s, item)) = Members(s) \cup {item}
      BY <1>3, AppendItems
    <3> HIDE DEF t, j, s
    <3>4. \A i \in 1 .. Len(s) + 1 :
            t[i] = IF i <= p THEN s[i] ELSE IF i = p + 1 THEN item ELSE s[i - 1]
      BY <1>2, <1>3, <2>1, <3>1, <3>2
    <3> QED BY <2>1, <3>1, <3>2, <3>3, <3>4
  <2>2. CASE j # 0
    <3>1. t = InsertAt(s, j, item) /\ InsertEnd(ListAt(l), item) = [items |-> t, index |-> j + 1]
      BY <1>4, <2>2 DEF InsertEnd
    <3>2. j \in 1 .. Len(s) /\ p = j - 1
      BY <1>2, <1>3, <2>2
    <3> HIDE DEF t, j, s
    <3>3. /\ Len(InsertAt(s, j, item)) = Len(s) + 1
          /\ \A i \in 1 .. Len(s) + 1 :
               InsertAt(s, j, item)[i] = IF i < j THEN s[i] ELSE IF i = j THEN item ELSE s[i - 1]
      BY ONLY <1>3, <3>2, InsertAtElements
    <3>4. IsItems(InsertAt(s, j, item), Items) /\ Members(InsertAt(s, j, item)) = Members(s) \cup {item}
      BY <1>3, <3>2, InsertAtItems
    <3>5. \A i \in 1 .. Len(s) + 1 :
            t[i] = IF i <= p THEN s[i] ELSE IF i = p + 1 THEN item ELSE s[i - 1]
      BY <1>3, <3>1, <3>2, <3>3
    <3> QED BY <2>2, <3>1, <3>3, <3>4, <3>5
  <2> QED BY <2>1, <2>2
<1> HIDE DEF t
<1>6. /\ pxNext' \in [Nodes -> Nodes] /\ pxPrevious' \in [Nodes -> Nodes]
      /\ pxContainer' \in [Items -> AllLists \cup {NoNode}]
      /\ ListsHold' /\ ItemsFrom(l)' = t
      /\ \A m \in AllLists : m # l => ItemsFrom(m)' = ItemsFrom(m)
  <2>1. Link(item, At(l, p), At(l, p + 1))
    BY <1>1, <1>2
  <2> QED BY <1>1, <1>5, <2>1, InsertStep
<1>7. uxNumberOfItems' \in [AllLists -> Nat] /\ CountsExact' /\ IndexOnList'
  BY <1>1, <1>5, <1>6, InsertCounts
<1>8. LinkedInv'
  BY <1>1, <1>6, <1>7 DEF LinkedInv, LinkedTypes
<1>9. ListAt(l)' = InsertEnd(ListAt(l), item)
  <2> DEFINE k == IF j = 0 THEN 0 ELSE j + 1
  <2>1. k \in 0 .. Len(t) /\ pxIndex[l] = NodeAt(l, t, k)
    <3>1. CASE j = 0
      BY <1>3, <1>5, <3>1 DEF At, NodeAt
    <3>2. CASE j # 0
      <4>1. j \in 1 .. Len(s) /\ j + 1 \in 1 .. Len(t) /\ t[j + 1] = s[j]
        <5>1. p = j - 1 /\ j \in 1 .. Len(s)
          BY <1>2, <1>3, <3>2
        <5> HIDE DEF j, s
        <5> QED BY <1>3, <1>5, <5>1
      <4>2. pxIndex[l] = s[j] /\ NodeAt(l, t, j + 1) = t[j + 1]
        BY <1>3, <4>1 DEF At, NodeAt
      <4> HIDE DEF j, s
      <4> QED BY <1>3, <1>5, <3>2, <4>1, <4>2
    <3> QED BY <3>1, <3>2
  <2>2. Position(t, pxIndex[l]) = k
    BY <1>1, <1>5, <2>1, PositionAt
  <2>3. ListAt(l)' = [items |-> t, index |-> Position(t, pxIndex[l])]
    BY <1>1, <1>6 DEF ListAt, Position
  <2> QED BY <1>5, <2>2, <2>3
<1>10. \A m \in AllLists : m # l => ListAt(m)' = ListAt(m)
  BY <1>1, <1>6, ListsUnchanged
<1> QED BY <1>8, <1>9, <1>10

LEMMA InsertSortedStep ==
  ASSUME LinkedInv, NEW l \in SortedLists, NEW item \in Items, NEW value \in TickType,
         vListInsert(l, item, value)
  PROVE  /\ LinkedInv'
         /\ ListAt(l)' = [ListAt(l) EXCEPT !.items = SortedInsert(@, item, xItemValue')]
         /\ \A m \in AllLists : m # l => ListAt(m)' = ListAt(m)
<1> DEFINE s == ItemsFrom(l)
           greater == {i \in 1 .. Len(s) : xItemValue'[s[i]] > xItemValue'[item]}
           t == SortedInsert(s, item, xItemValue')
<1>1. /\ l \in AllLists /\ pxContainer[item] = NoNode /\ pxIndex' = pxIndex
      /\ Link(item, pxIterator(l, value), pxNext[pxIterator(l, value)])
      /\ xItemValue' = [xItemValue EXCEPT ![item] = value]
      /\ pxContainer' = [pxContainer EXCEPT ![item] = l]
      /\ uxNumberOfItems' = [uxNumberOfItems EXCEPT ![l] = @ + 1]
  BY DEF vListInsert, AllLists
<1>2. /\ IsItems(s, Items) /\ s \in Seq(Items) /\ Len(s) \in Nat /\ item \in Items \ Members(s)
      /\ \A i \in 1 .. Len(s) : s[i] \in Items /\ s[i] # item
      /\ xItemValue \in [Items -> TickType] /\ pxIndex[l] = l
      /\ ListAt(l) = [items |-> s, index |-> 0]
  <2>1. item \notin Members(s)
    BY <1>1, ListFacts, LinkedListAssumption DEF Nodes
  <2>2. IsItems(s, Items)
    BY <1>1, ListFacts
  <2>3. s \in Seq(Items) /\ Len(s) \in Nat /\ \A i \in 1 .. Len(s) : s[i] \in Items
    BY <2>2, LenProperties, ElementOfSeq DEF IsItems
  <2>4. pxIndex[l] = l
    BY DEF LinkedInv, IndexOnList
  <2>5. ListAt(l) = [items |-> s, index |-> 0]
    BY <1>1, <2>4 DEF ListAt, Position
  <2> QED BY <2>1, <2>2, <2>3, <2>4, <2>5 DEF LinkedInv, LinkedTypes, Members
<1>3. /\ xItemValue' \in [Items -> TickType] /\ xItemValue'[item] = value
      /\ \A i \in 1 .. Len(s) : xItemValue'[s[i]] = xItemValue[s[i]]
  BY <1>1, <1>2
<1>4. \E p \in 0 .. Len(s) :
        /\ \A i \in 1 .. p : xItemValue[s[i]] <= value
        /\ p = Len(s) \/ xItemValue[s[p + 1]] > value
        /\ t = IF greater = {} THEN Append(s, item) ELSE InsertAt(s, p + 1, item)
        /\ greater = {} => p = Len(s)
        /\ greater # {} => p + 1 \in 1 .. Len(s)
  <2>0. \A i \in 1 .. Len(s) : xItemValue[s[i]] \in TickType /\ value \in TickType /\ TickType \subseteq Nat
    BY <1>2, LinkedListAssumption DEF TickType
  <2>1. CASE greater = {}
    <3>1. t = Append(s, item)
      BY <2>1 DEF SortedInsert
    <3>2. \A i \in 1 .. Len(s) : xItemValue[s[i]] <= value
      BY <1>3, <2>0, <2>1
    <3>3. Len(s) \in 0 .. Len(s)
      BY <1>2
    <3> HIDE DEF s, t, greater
    <3> QED BY <2>1, <3>1, <3>2, <3>3
  <2>2. CASE greater # {}
    <3> DEFINE first == CHOOSE i \in greater : \A j \in greater : i <= j
    <3>1. \E i \in greater : \A j \in greater : i <= j
      <4>1. greater \in SUBSET Nat
        BY <1>2
      <4> HIDE DEF greater
      <4> QED BY <2>2, <4>1, LeastNatural
    <3>2. first \in greater /\ \A j \in greater : first <= j
      BY <3>1
    <3>3. t = InsertAt(s, first, item)
      BY <2>2 DEF SortedInsert
    <3> HIDE DEF first
    <3>4. first \in 1 .. Len(s) /\ first - 1 \in 0 .. Len(s) /\ (first - 1) + 1 = first
      BY <1>2, <3>2
    <3>5. xItemValue[s[first]] > value
      BY <1>3, <3>2
    <3>6. ASSUME NEW i \in 1 .. first - 1 PROVE xItemValue[s[i]] <= value
      <4>1. i \in 1 .. Len(s) /\ ~ (first <= i)
        BY <1>2, <3>4
      <4>2. i \notin greater
        BY <3>2, <4>1
      <4>3. xItemValue'[s[i]] = xItemValue[s[i]]
        BY <1>3, <4>1
      <4>4. ~ (xItemValue[s[i]] > value)
        BY <1>3, <4>1, <4>2, <4>3
      <4> QED BY <2>0, <4>1, <4>4
    <3> HIDE DEF s, t, greater
    <3> QED BY <2>2, <3>3, <3>4, <3>5, <3>6
  <2> QED BY <2>1, <2>2
<1>5. PICK p \in 0 .. Len(s) :
        /\ \A i \in 1 .. p : xItemValue[s[i]] <= value
        /\ p = Len(s) \/ xItemValue[s[p + 1]] > value
        /\ t = IF greater = {} THEN Append(s, item) ELSE InsertAt(s, p + 1, item)
        /\ greater = {} => p = Len(s)
        /\ greater # {} => p + 1 \in 1 .. Len(s)
  BY <1>4
<1>6. Link(item, At(l, p), At(l, p + 1))
  <2>1. pxIterator(l, value) = At(l, p) /\ pxNext[pxIterator(l, value)] = At(l, p + 1)
    BY <1>1, <1>5, SortedPlace
  <2> QED BY <1>1, <2>1
<1>7. /\ IsItems(t, Items) /\ Members(t) = Members(s) \cup {item} /\ Len(t) = Len(s) + 1
      /\ \A i \in 1 .. Len(s) + 1 :
           t[i] = IF i <= p THEN s[i] ELSE IF i = p + 1 THEN item ELSE s[i - 1]
  <2> HIDE DEF s, t, greater
  <2>1. CASE greater = {}
    <3>1. t = Append(s, item) /\ p = Len(s)
      BY <1>5, <2>1
    <3>2. /\ Len(Append(s, item)) = Len(s) + 1 /\ Append(s, item)[Len(s) + 1] = item
          /\ \A i \in 1 .. Len(s) : Append(s, item)[i] = s[i]
      BY <1>2, AppendProperties
    <3>3. IsItems(Append(s, item), Items) /\ Members(Append(s, item)) = Members(s) \cup {item}
      BY <1>2, AppendItems
    <3>4. \A i \in 1 .. Len(s) + 1 :
            t[i] = IF i <= p THEN s[i] ELSE IF i = p + 1 THEN item ELSE s[i - 1]
      BY <1>2, <3>1, <3>2
    <3> QED BY <3>1, <3>2, <3>3, <3>4
  <2>2. CASE greater # {}
    <3>1. t = InsertAt(s, p + 1, item) /\ p + 1 \in 1 .. Len(s)
      BY <1>5, <2>2
    <3>2. /\ Len(InsertAt(s, p + 1, item)) = Len(s) + 1
          /\ \A i \in 1 .. Len(s) + 1 : InsertAt(s, p + 1, item)[i] =
               IF i < p + 1 THEN s[i] ELSE IF i = p + 1 THEN item ELSE s[i - 1]
      BY ONLY <1>2, <3>1, InsertAtElements
    <3>3. IsItems(InsertAt(s, p + 1, item), Items) /\ Members(InsertAt(s, p + 1, item)) = Members(s) \cup {item}
      BY <1>2, <3>1, InsertAtItems
    <3>4. \A i \in 1 .. Len(s) + 1 :
            t[i] = IF i <= p THEN s[i] ELSE IF i = p + 1 THEN item ELSE s[i - 1]
      BY <1>2, <3>1, <3>2
    <3> QED BY <3>1, <3>2, <3>3, <3>4
  <2> QED BY <2>1, <2>2
<1> HIDE DEF t
<1>8. /\ pxNext' \in [Nodes -> Nodes] /\ pxPrevious' \in [Nodes -> Nodes]
      /\ pxContainer' \in [Items -> AllLists \cup {NoNode}]
      /\ ListsHold' /\ ItemsFrom(l)' = t
      /\ \A m \in AllLists : m # l => ItemsFrom(m)' = ItemsFrom(m)
  BY <1>1, <1>6, <1>7, InsertStep
<1>9. uxNumberOfItems' \in [AllLists -> Nat] /\ CountsExact' /\ IndexOnList'
  BY <1>1, <1>7, <1>8, InsertCounts
<1>10. LinkedInv'
  BY <1>1, <1>3, <1>8, <1>9 DEF LinkedInv, LinkedTypes
<1>11. ListAt(l)' = [ListAt(l) EXCEPT !.items = SortedInsert(@, item, xItemValue')]
  <2>1. ListAt(l)' = [items |-> t, index |-> Position(t, l)]
    BY <1>1, <1>2, <1>8 DEF ListAt, Position
  <2>2. Position(t, l) = 0
    BY <1>1 DEF Position
  <2> QED BY <1>2, <2>1, <2>2 DEF t
<1>12. \A m \in AllLists : m # l => ListAt(m)' = ListAt(m)
  BY <1>1, <1>8, ListsUnchanged
<1> QED BY <1>10, <1>11, <1>12

LEMMA ListRemoveStep ==
  ASSUME LinkedInv, NEW item \in Items, uxListRemove(item)
  PROVE  \E l \in AllLists :
           /\ LinkedInv'
           /\ item \in Members(ListAt(l).items)
           /\ ListAt(l)' = ListRemove(ListAt(l), item)
           /\ \A m \in AllLists : m # l => ListAt(m)' = ListAt(m)
<1>1. PICK l \in AllLists :
        /\ l = pxContainer[item] /\ xItemValue' = xItemValue
        /\ pxPrevious' = [pxPrevious EXCEPT ![pxNext[item]] = pxPrevious[item]]
        /\ pxNext' = [pxNext EXCEPT ![pxPrevious[item]] = pxNext[item]]
        /\ pxIndex' = [pxIndex EXCEPT ![l] = IndexAfterRemove(l, item)]
        /\ pxContainer' = [pxContainer EXCEPT ![item] = NoNode]
        /\ uxNumberOfItems' = [uxNumberOfItems EXCEPT ![l] = @ - 1]
  <2>1. pxContainer[item] \in AllLists
    BY DEF uxListRemove, LinkedInv, LinkedTypes
  <2> QED BY <2>1 DEF uxListRemove
<1>2. l \in AllLists
  OBVIOUS
<1> DEFINE s == ItemsFrom(l)
           j == ListAt(l).index
<1>3. /\ IsItems(s, Items) /\ s \in Seq(Items) /\ Len(s) \in Nat /\ item \in Members(s)
      /\ ListAt(l) = [items |-> s, index |-> j] /\ j \in 0 .. Len(s) /\ pxIndex[l] = At(l, j)
      /\ l \in SortedLists => j = 0
  <2>1. item \in Members(s)
    BY <1>1, ListFacts
  <2>2. IsItems(s, Items)
    BY <1>2, ListFacts
  <2>3. s \in Seq(Items)
    BY <2>2 DEF IsItems
  <2>4. ListAt(l) = [items |-> s, index |-> j]
    BY DEF ListAt
  <2> QED BY <1>2, <2>1, <2>2, <2>3, <2>4, ListFacts, IndexAt
<1>4. PICK p \in 1 .. Len(s) : p = PositionOf(s, item) /\ s[p] = item
  BY <1>3, PositionOfMember
<1>0. PICK t : t = RemoveAt(s, p)
  OBVIOUS
<1>5. /\ IsItems(t, Items) /\ Members(t) = Members(s) \ {item} /\ Len(t) = Len(s) - 1
      /\ \A i \in 1 .. Len(s) - 1 : t[i] = IF i < p THEN s[i] ELSE s[i + 1]
  <2> HIDE DEF s
  <2> QED BY <1>0, <1>3, <1>4, RemoveAtElements, RemoveAtItems
<1>6. ListRemove(ListAt(l), item) = [items |-> t, index |-> IF p <= j THEN j - 1 ELSE j]
  BY <1>0, <1>3, <1>4 DEF ListRemove
<1>7. /\ pxNext' \in [Nodes -> Nodes] /\ pxPrevious' \in [Nodes -> Nodes]
      /\ pxContainer' \in [Items -> AllLists \cup {NoNode}]
      /\ ListsHold' /\ ItemsFrom(l)' = t
      /\ \A m \in AllLists : m # l => ItemsFrom(m)' = ItemsFrom(m)
  <2>1. /\ p \in 1 .. Len(ItemsFrom(l)) /\ item = ItemsFrom(l)[p]
        /\ pxNext' = [pxNext EXCEPT ![pxPrevious[item]] = pxNext[item]]
        /\ pxPrevious' = [pxPrevious EXCEPT ![pxNext[item]] = pxPrevious[item]]
        /\ pxContainer' = [pxContainer EXCEPT ![item] = NoNode]
        /\ IsItems(t, Items) /\ Members(t) = Members(ItemsFrom(l)) \ {item}
        /\ Len(t) = Len(ItemsFrom(l)) - 1
        /\ \A i \in 1 .. Len(ItemsFrom(l)) - 1 :
             t[i] = IF i < p THEN ItemsFrom(l)[i] ELSE ItemsFrom(l)[i + 1]
    BY <1>1, <1>4, <1>5
  <2> QED BY ONLY <2>1, LinkedInv, l \in AllLists, item \in Items, RemoveStep
<1> DEFINE k == IF p <= j THEN j - 1 ELSE j
<1>8. /\ pxPrevious[item] = At(l, p - 1) /\ p \in Nat \ {0} /\ j \in Nat
      /\ pxIndex[l] = item <=> p = j
  <2>1. p \in 0 .. Len(s) /\ p - 1 \in 0 .. Len(s) /\ (p - 1) + 1 = p
    BY <1>3, <1>4
  <2>2. At(l, p) = item
    BY <1>4 DEF At, NodeAt
  <2>3. pxPrevious[At(l, p)] = At(l, p - 1)
    <3> HIDE DEF s
    <3> QED BY <1>2, <2>1, ListFacts DEF s
  <2>4. \A a, b \in 0 .. Len(s) : At(l, a) = At(l, b) => a = b
    BY <1>2, <1>3, NodesDiffer DEF At
  <2> HIDE DEF j, s
  <2> QED BY <1>3, <1>4, <2>1, <2>2, <2>3, <2>4
<1>9. k \in 0 .. Len(t) /\ IndexAfterRemove(l, item) = NodeAt(l, t, k)
  <2>1. k \in 0 .. Len(t)
    <3> HIDE DEF j, s
    <3> QED BY <1>3, <1>4, <1>5
  <2>2. CASE p = j
    <3>1. IndexAfterRemove(l, item) = At(l, p - 1) /\ k = p - 1
      BY <1>8, <2>2 DEF IndexAfterRemove
    <3>2. At(l, p - 1) = NodeAt(l, t, p - 1)
      <4> HIDE DEF j
      <4> QED BY <1>3, <1>4, <1>5, <1>8 DEF At, NodeAt
    <3> QED BY <2>1, <3>1, <3>2
  <2>3. CASE p # j
    <3>1. IndexAfterRemove(l, item) = At(l, j)
      BY <1>3, <1>8, <2>3 DEF IndexAfterRemove
    <3>2. CASE p < j
      <4>1. k = j - 1 /\ j \in 1 .. Len(s) /\ j - 1 \in 1 .. Len(s) - 1 /\ ~ (j - 1 < p) /\ (j - 1) + 1 = j
        <5> HIDE DEF s, j
        <5> QED BY <1>3, <1>8, <3>2
      <4>2. At(l, j) = s[j] /\ NodeAt(l, t, j - 1) = t[j - 1]
        <5> HIDE DEF s, j
        <5> QED BY <1>5, <4>1 DEF At, NodeAt, s
      <4>3. t[j - 1] = s[j]
        <5> HIDE DEF s, j
        <5> QED BY <1>5, <4>1
      <4> QED BY <2>1, <3>1, <4>1, <4>2, <4>3
    <3>3. CASE j < p
      <4>1. k = j /\ (j = 0 \/ (j \in 1 .. Len(s) - 1 /\ j \in 1 .. Len(s)))
        <5> HIDE DEF s, j
        <5> QED BY <1>3, <1>4, <1>8, <3>3
      <4>2. At(l, j) = NodeAt(l, t, j)
        <5> HIDE DEF j
        <5> QED BY <1>3, <1>5, <3>3, <4>1 DEF At, NodeAt
      <4> QED BY <2>1, <3>1, <4>1, <4>2
    <3> HIDE DEF j
    <3> QED BY <1>8, <2>3, <3>2, <3>3
  <2> QED BY <2>1, <2>2, <2>3
<1>10. ListAt(l)' = ListRemove(ListAt(l), item)
  <2>1. pxIndex'[l] = IndexAfterRemove(l, item)
    BY <1>1, <1>2 DEF LinkedInv, LinkedTypes
  <2>2. Position(t, NodeAt(l, t, k)) = k
    BY <1>2, <1>5, <1>9, PositionAt
  <2>3. \A n : ListAt(n)' = [items |-> ItemsFrom(n)', index |-> Position(ItemsFrom(n)', pxIndex'[n])]
    BY DEF ListAt, Position
  <2> HIDE DEF k
  <2>4. ListAt(l)' = [items |-> t, index |-> k]
    BY <1>7, <1>9, <2>1, <2>2, <2>3
  <2> QED BY <1>6, <2>4 DEF k
<1>11. ASSUME NEW m \in AllLists, m # l PROVE ListAt(m)' = ListAt(m) /\ pxIndex'[m] = pxIndex[m]
  <2>1. pxIndex'[m] = pxIndex[m]
    BY <1>1, <1>2, <1>11 DEF LinkedInv, LinkedTypes
  <2> QED BY <1>7, <1>11, <2>1, ListsUnchanged
<1>12. CountsExact' /\ uxNumberOfItems' \in [AllLists -> Nat]
  <2>1. /\ uxNumberOfItems \in [AllLists -> Nat]
        /\ \A m \in AllLists : uxNumberOfItems[m] = Len(ItemsFrom(m))
    BY DEF LinkedInv, LinkedTypes, CountsExact
  <2>2. Len(s) - 1 \in Nat
    BY <1>3, <1>4
  <2>3. \A m \in AllLists : uxNumberOfItems'[m] = IF m = l THEN Len(s) - 1 ELSE uxNumberOfItems[m]
    BY <1>1, <1>2, <2>1
  <2>4. \A m \in AllLists : uxNumberOfItems'[m] = Len(ItemsFrom(m)')
    BY <1>5, <1>7, <2>1, <2>3
  <2>5. uxNumberOfItems' \in [AllLists -> Nat]
    BY <1>1, <1>2, <2>1, <2>2
  <2> QED BY <2>4, <2>5 DEF CountsExact
<1>13. /\ pxIndex' \in [AllLists -> Nodes]
       /\ \A m \in AllLists : pxIndex'[m] \in NodesOf(m)'
       /\ \A m \in SortedLists : pxIndex'[m] = m
  <2>1. IndexAfterRemove(l, item) \in {l} \cup Members(t) /\ IndexAfterRemove(l, item) \in Nodes
    BY <1>2, <1>5, <1>9, NodesDiffer
  <2>2. Members(t) = {x \in Items : pxContainer'[x] = l}
    <3>1. Holds(pxNext', pxPrevious', pxContainer', l, ItemsFrom(l)')
      BY <1>2, <1>7 DEF ListsHold
    <3> QED BY <1>7, <3>1 DEF Holds
  <2>3. NodesOf(l)' = {l} \cup Members(t)
    BY <2>2 DEF NodesOf
  <2>4. /\ pxIndex \in [AllLists -> Nodes] /\ pxContainer \in [Items -> AllLists \cup {NoNode}]
        /\ \A m \in AllLists : pxIndex[m] \in NodesOf(m)
        /\ \A m \in SortedLists : pxIndex[m] = m
    BY DEF LinkedInv, LinkedTypes, IndexOnList
  <2>5. \A m \in AllLists : pxIndex'[m] = IF m = l THEN IndexAfterRemove(l, item) ELSE pxIndex[m]
    BY <1>1, <1>2, <2>4
  <2>6. ASSUME NEW m \in AllLists, m # l PROVE NodesOf(m) \subseteq NodesOf(m)'
    BY <1>1, <2>4, <2>6 DEF NodesOf
  <2>7. ASSUME l \in SortedLists PROVE IndexAfterRemove(l, item) = l
    <3>1. j = 0
      BY <1>3, <2>7
    <3>2. k = 0
      <4> HIDE DEF j
      <4> QED BY <1>8, <3>1
    <3>3. 0 \notin 1 .. Len(t)
      OBVIOUS
    <3> QED BY <1>9, <3>2, <3>3 DEF NodeAt
  <2>8. pxIndex' \in [AllLists -> Nodes]
    BY <1>1, <1>2, <2>1, <2>4
  <2> QED BY <2>1, <2>3, <2>4, <2>5, <2>6, <2>7, <2>8 DEF AllLists
<1>14. LinkedInv'
  BY <1>1, <1>7, <1>12, <1>13 DEF LinkedInv, LinkedTypes, IndexOnList
<1>15. ListAt(l).items = s
  BY <1>3
<1> QED BY <1>2, <1>3, <1>10, <1>11, <1>14, <1>15

LEMMA NextEntryStep ==
  ASSUME LinkedInv, NEW l \in Rotating, listGET_OWNER_OF_NEXT_ENTRY(l)
  PROVE  /\ LinkedInv'
         /\ ListAt(l).items # <<>> /\ ListAt(l)' = NextEntry(ListAt(l))
         /\ \A m \in AllLists : m # l => ListAt(m)' = ListAt(m)
<1> DEFINE s == ItemsFrom(l)
           j == ListAt(l).index
           next == pxNext[pxIndex[l]]
           n == IF next = l THEN pxNext[next] ELSE next
           k == IF j = Len(s) THEN 1 ELSE j + 1
<1>1. /\ l \in AllLists /\ l \notin SortedLists /\ uxNumberOfItems[l] > 0
      /\ pxIndex' = [pxIndex EXCEPT ![l] = n]
      /\ UNCHANGED <<pxNext, pxPrevious, pxContainer, xItemValue, uxNumberOfItems>>
  BY LinkedListAssumption DEF listGET_OWNER_OF_NEXT_ENTRY, AllLists
<1>2. /\ IsItems(s, Items) /\ Len(s) \in Nat \ {0} /\ j \in 0 .. Len(s) /\ pxIndex[l] = At(l, j)
      /\ ListAt(l) = [items |-> s, index |-> j] /\ s # <<>>
  <2>1. Len(s) = uxNumberOfItems[l]
    BY <1>1 DEF LinkedInv, CountsExact
  <2>2. ListAt(l) = [items |-> s, index |-> j]
    BY DEF ListAt
  <2>3. IsItems(s, Items) /\ Len(s) \in Nat /\ j \in 0 .. Len(s) /\ pxIndex[l] = At(l, j)
    BY <1>1, ListFacts, IndexAt
  <2> HIDE DEF j
  <2>4. s # <<>>
    BY <1>1, <2>1, <2>3
  <2> QED BY <1>1, <2>1, <2>2, <2>3, <2>4
<1>3. k \in 1 .. Len(s) /\ n = At(l, k) /\ n \in Nodes /\ n \in NodesOf(l)
  <2>1. \A i : At(l, i) \in Nodes /\ At(l, i) \in NodesOf(l)
    BY <1>1, ListFacts
  <2>2. At(l, 0) = l /\ At(l, Len(s) + 1) = l /\ 0 \in 0 .. Len(s)
    BY <1>1, <1>2, ListFacts
  <2>3. \A i \in 0 .. Len(s) : pxNext[At(l, i)] = At(l, i + 1)
    BY <1>1, ListFacts
  <2>4. next = At(l, j + 1)
    <3> HIDE DEF j
    <3> QED BY <1>2, <2>3
  <2>5. CASE j = Len(s)
    <3>1. next = l /\ k = 1
      BY <2>2, <2>4, <2>5
    <3>2. pxNext[l] = At(l, 0 + 1)
      BY <2>2, <2>3
    <3>3. n = At(l, 1)
      BY <3>1, <3>2
    <3> HIDE DEF s
    <3> QED BY <1>2, <2>1, <3>1, <3>3
  <2>6. CASE j # Len(s)
    <3>1. k = j + 1 /\ j + 1 \in 1 .. Len(s)
      <4> HIDE DEF j, s
      <4> QED BY <1>2, <2>6
    <3>2. At(l, j + 1) # l
      BY <1>1, <1>2, <3>1, NodesDiffer DEF At, NodeAt
    <3>3. n = At(l, k)
      BY <2>4, <3>1, <3>2
    <3> HIDE DEF n, k
    <3> QED BY <2>1, <3>1, <3>3
  <2> QED BY <2>5, <2>6
<1>4. ItemsFrom(l)' = s /\ \A m : ItemsFrom(m)' = ItemsFrom(m) /\ NodesOf(m)' = NodesOf(m)
  BY <1>1 DEF ItemsFrom, NodesOf
<1>5. pxIndex' \in [AllLists -> Nodes] /\ \A m \in AllLists : pxIndex'[m] = IF m = l THEN n ELSE pxIndex[m]
  <2> HIDE DEF n
  <2> QED BY <1>1, <1>3 DEF LinkedInv, LinkedTypes
<1> HIDE DEF n
<1>6. LinkedInv'
  <2>1. IndexOnList'
    BY <1>1, <1>3, <1>4, <1>5 DEF LinkedInv, IndexOnList, AllLists
  <2>2. CountsExact' /\ ListsHold'
    BY <1>1, <1>4 DEF LinkedInv, CountsExact, ListsHold
  <2>3. LinkedTypes'
    BY <1>1, <1>5 DEF LinkedInv, LinkedTypes
  <2> QED BY <2>1, <2>2, <2>3 DEF LinkedInv
<1>7. ListAt(l)' = NextEntry(ListAt(l))
  <2>1. ListAt(l)' = [items |-> s, index |-> Position(s, n)]
    BY <1>1, <1>4, <1>5 DEF ListAt, Position
  <2>2. Position(s, n) = k
    <3>1. k \in 0 .. Len(s)
      BY <1>3
    <3> HIDE DEF k
    <3> QED BY <1>1, <1>2, <1>3, <3>1, PositionAt DEF At
  <2>3. NextEntry(ListAt(l)) = [items |-> s, index |-> k]
    BY <1>2 DEF NextEntry
  <2> QED BY <2>1, <2>2, <2>3
<1>8. \A m \in AllLists : m # l => ListAt(m)' = ListAt(m)
  BY <1>4, <1>5, ListsUnchanged
<1> QED BY <1>2, <1>6, <1>7, <1>8

LEMMA InitLinked ==
  ASSUME LinkedInit
  PROVE  LinkedInv /\ \A l \in AllLists : ListAt(l) = EmptyList
<1>1. /\ \A n \in Nodes : pxNext[n] = n /\ pxPrevious[n] = n
      /\ pxNext \in [Nodes -> Nodes] /\ pxPrevious \in [Nodes -> Nodes]
      /\ \A item \in Items : pxContainer[item] = NoNode
      /\ \A l \in AllLists : pxIndex[l] = l /\ uxNumberOfItems[l] = 0
  BY DEF LinkedInit, Nodes
<1>2. LinkedTypes
  BY LinkedListAssumption DEF LinkedInit, LinkedTypes, Nodes, TickType
<1>3. ASSUME NEW l \in AllLists
      PROVE  Holds(pxNext, pxPrevious, pxContainer, l, <<>>) /\ ItemsFrom(l) = <<>>
  <2>1. IsItems(<<>>, Items) /\ Members(<<>>) = {}
    BY EmptyItems
  <2>2. Linked(pxNext, pxPrevious, l, <<>>)
    <3>1. \A i : NodeAt(l, <<>>, i) = l
      BY DEF NodeAt
    <3> QED BY <1>1, <3>1 DEF Linked, Nodes
  <2>3. l # NoNode
    BY LinkedListAssumption DEF Nodes
  <2>4. Holds(pxNext, pxPrevious, pxContainer, l, <<>>)
    BY <1>1, <2>1, <2>2, <2>3 DEF Holds
  <2>5. WalkFrom(pxNext, l) = <<>>
    BY <1>1, <2>1, <2>2, WalkMeetsItems
  <2> QED BY <2>4, <2>5, ItemsFromWalk
<1>4. LinkedInv
  BY <1>1, <1>2, <1>3 DEF LinkedInv, ListsHold, CountsExact, IndexOnList, NodesOf, AllLists
<1>5. \A l \in AllLists : ListAt(l) = EmptyList
  BY <1>1, <1>3 DEF ListAt, EmptyList, Position
<1> QED BY <1>4, <1>5

\* The nodes of every list are those of a sequence of items that no other list has.
THEOREM LinkedInvariant == LinkedSpec => []LinkedInv
<1>1. LinkedInit => LinkedInv
  BY InitLinked
<1>2. LinkedInv /\ [LinkedNext]_linkedVars => LinkedInv'
  <2> SUFFICES ASSUME LinkedInv, [LinkedNext]_linkedVars
               PROVE  LinkedInv'
    OBVIOUS
  <2>1. CASE UNCHANGED linkedVars
    <3>1. \A l : ItemsFrom(l)' = ItemsFrom(l) /\ NodesOf(l)' = NodesOf(l)
      BY <2>1 DEF linkedVars, ItemsFrom, NodesOf
    <3>2. LinkedTypes'
      BY <2>1 DEF linkedVars, LinkedInv, LinkedTypes
    <3>3. ListsHold'
      BY <2>1, <3>1 DEF linkedVars, LinkedInv, ListsHold
    <3>4. CountsExact'
      BY <2>1, <3>1 DEF linkedVars, LinkedInv, CountsExact
    <3>5. IndexOnList'
      BY <2>1, <3>1 DEF linkedVars, LinkedInv, IndexOnList
    <3> QED BY <3>2, <3>3, <3>4, <3>5 DEF LinkedInv
  <2>2. CASE \E l \in Rotating, item \in Items : vListInsertEnd(l, item)
    BY <2>2, InsertEndStep
  <2>3. CASE \E l \in SortedLists, item \in Items, value \in TickType : vListInsert(l, item, value)
    BY <2>3, InsertSortedStep
  <2>4. CASE \E item \in Items : uxListRemove(item)
    BY <2>4, ListRemoveStep
  <2>5. CASE \E l \in Rotating : listGET_OWNER_OF_NEXT_ENTRY(l)
    BY <2>5, NextEntryStep
  <2> QED BY <2>1, <2>2, <2>3, <2>4, <2>5 DEF LinkedNext
<1> QED BY <1>1, <1>2, PTL DEF LinkedSpec

LEMMA RingsFromInvariant == LinkedInv => Rings
<1> SUFFICES ASSUME LinkedInv, NEW l \in AllLists
             PROVE  /\ pxIndex[l] \in NodesOf(l)
                    /\ uxNumberOfItems[l] = Cardinality(NodesOf(l)) - 1
                    /\ \A n \in NodesOf(l) : /\ pxNext[n] \in NodesOf(l) /\ pxPrevious[pxNext[n]] = n
                                             /\ pxPrevious[n] \in NodesOf(l) /\ pxNext[pxPrevious[n]] = n
  BY DEF Rings
<1> DEFINE s == ItemsFrom(l)
<1>1. /\ IsItems(s, Items) /\ Len(s) \in Nat /\ NodesOf(l) = {l} \cup Members(s)
      /\ \A i : At(l, i) \in NodesOf(l)
      /\ \A i \in 0 .. Len(s) : pxNext[At(l, i)] = At(l, i + 1) /\ pxPrevious[At(l, i + 1)] = At(l, i)
      /\ At(l, 0) = l /\ At(l, Len(s) + 1) = l /\ Members(s) \subseteq Items
  BY ListFacts
<1>2. pxIndex[l] \in NodesOf(l) /\ uxNumberOfItems[l] = Len(s)
  BY DEF LinkedInv, IndexOnList, CountsExact
<1>3. Cardinality(NodesOf(l)) = Len(s) + 1
  <2>1. IsFiniteSet(Members(s)) /\ Cardinality(Members(s)) = Len(s)
    BY <1>1, ItemsCount
  <2>2. l \notin Members(s)
    BY <1>1, LinkedListAssumption
  <2>3. Cardinality(Members(s) \cup {l}) = Cardinality(Members(s)) + 1
    BY <2>1, <2>2, FS_AddElement
  <2>4. NodesOf(l) = Members(s) \cup {l}
    BY <1>1
  <2> QED BY <2>1, <2>3, <2>4
<1>4. ASSUME NEW n \in NodesOf(l)
      PROVE  /\ pxNext[n] \in NodesOf(l) /\ pxPrevious[pxNext[n]] = n
             /\ pxPrevious[n] \in NodesOf(l) /\ pxNext[pxPrevious[n]] = n
  <2>1. PICK i \in 0 .. Len(s) : n = At(l, i)
    BY <1>1, PositionAt DEF At
  <2>2. \E k \in 0 .. Len(s) : n = At(l, k + 1)
    <3>1. CASE i = 0
      <4>1. n = At(l, Len(s) + 1) /\ Len(s) \in 0 .. Len(s)
        BY <1>1, <2>1, <3>1
      <4> QED BY <4>1
    <3>2. CASE i # 0
      <4>1. i - 1 \in 0 .. Len(s) /\ (i - 1) + 1 = i
        BY <1>1, <3>2
      <4> HIDE DEF s
      <4> QED BY <2>1, <4>1
    <3> QED BY <3>1, <3>2
  <2>3. PICK k \in 0 .. Len(s) : n = At(l, k + 1)
    BY <2>2
  <2> HIDE DEF s
  <2> QED BY <1>1, <2>1, <2>3
<1>5. Cardinality(NodesOf(l)) - 1 = Len(s)
  BY <1>1, <1>3
<1> QED BY <1>2, <1>4, <1>5

\* The pointers of every list make one ring of its own nodes, in both directions,
\* and uxNumberOfItems is their number: of any items and lists, after any sequence
\* of insertions, removals and moves of pxIndex.
THEOREM ListsAreRings == LinkedSpec => []Rings
BY LinkedInvariant, RingsFromInvariant, PTL

-----------------------------------------------------------------------------
(* The pointers implement the sequences.                                   *)

\* The sequences as module Lists has them.
lists == [l \in AllLists |-> ListAt(l)]

\* One list changes and the others do not.
LEMMA OneList ==
  ASSUME NEW l \in AllLists, NEW new, ListAt(l)' = new,
         \A m \in AllLists : m # l => ListAt(m)' = ListAt(m)
  PROVE  lists' = [lists EXCEPT ![l] = new]
<1>1. lists' = [m \in AllLists |-> ListAt(m)']
  BY DEF lists
<1> QED BY <1>1 DEF lists

\* An item without a container is in no sequence.
LEMMA OnNone ==
  ASSUME LinkedInv, NEW item \in Items, pxContainer[item] = NoNode
  PROVE  \A l \in AllLists : item \notin Members(ListAt(l).items)
BY ListFacts, LinkedListAssumption DEF ListAt, Nodes

\* The operators are those of KernelLists.
LEMMA SameOperators ==
  ASSUME NEW list, NEW item, NEW items, NEW value
  PROVE  /\ Abstract!Members(items) = Members(items)
         /\ Abstract!InsertEnd(list, item) = InsertEnd(list, item)
         /\ Abstract!ListRemove(list, item) = ListRemove(list, item)
         /\ Abstract!SortedInsert(items, item, value) = SortedInsert(items, item, value)
<1>1. Abstract!Members(items) = Members(items)
  BY DEF Abstract!Members, Members
<1>2. \A s, p, e : Abstract!InsertAt(s, p, e) = InsertAt(s, p, e)
  BY DEF Abstract!InsertAt, InsertAt
<1>3. \A s, p : Abstract!RemoveAt(s, p) = RemoveAt(s, p)
  BY DEF Abstract!RemoveAt, RemoveAt
<1>4. Abstract!InsertEnd(list, item) = InsertEnd(list, item)
  BY <1>2 DEF Abstract!InsertEnd, InsertEnd
<1>5. Abstract!ListRemove(list, item) = ListRemove(list, item)
  BY <1>3 DEF Abstract!ListRemove, ListRemove, Abstract!PositionOf, PositionOf
<1>6. Abstract!SortedInsert(items, item, value) = SortedInsert(items, item, value)
  BY <1>2 DEF Abstract!SortedInsert, SortedInsert
<1> QED BY <1>1, <1>4, <1>5, <1>6

LEMMA ListsStep == LinkedInv /\ [LinkedNext]_linkedVars => [Abstract!ListsNext]_<<lists, xItemValue>>
<1> SUFFICES ASSUME LinkedInv, [LinkedNext]_linkedVars
             PROVE  [Abstract!ListsNext]_<<lists, xItemValue>>
  OBVIOUS
<1>1. lists = [l \in AllLists |-> [items |-> ItemsFrom(l), index |-> Position(ItemsFrom(l), pxIndex[l])]]
  BY DEF lists, ListAt
<1>2. \A l \in AllLists : lists[l] = ListAt(l)
  BY DEF lists
<1>3. CASE UNCHANGED linkedVars
  <2>1. \A l : ListAt(l)' = ListAt(l)
    BY <1>3 DEF linkedVars, ListAt, ItemsFrom, Position
  <2>2. UNCHANGED lists
    BY <2>1 DEF lists
  <2> QED BY <1>3, <2>2 DEF linkedVars
<1>4. ASSUME NEW l \in Rotating, NEW item \in Items, vListInsertEnd(l, item)
      PROVE  Abstract!ListsNext
  <2>1. l \in AllLists /\ pxContainer[item] = NoNode /\ xItemValue' = xItemValue
    BY <1>4 DEF vListInsertEnd, AllLists
  <2>2. lists' = [lists EXCEPT ![l] = InsertEnd(lists[l], item)]
    BY <1>2, <1>4, <2>1, InsertEndStep, OneList
  <2>3. Abstract!PutLast(l, item)
    <3>1. \A m \in Rotating \cup SortedLists : item \notin Members(lists[m].items)
      BY <1>2, <2>1, OnNone DEF AllLists
    <3>2. \A m \in Rotating \cup SortedLists : item \notin Abstract!Members(lists[m].items)
      BY <3>1, SameOperators
    <3>3. lists' = [lists EXCEPT ![l] = Abstract!InsertEnd(lists[l], item)]
      BY <2>2, SameOperators
    <3> QED BY <2>1, <3>2, <3>3, Zenon DEF Abstract!PutLast, Abstract!OnNoList, lists, ListAt
  <2> QED BY <2>3 DEF Abstract!ListsNext
<1>5. ASSUME NEW l \in SortedLists, NEW item \in Items, NEW value \in TickType, vListInsert(l, item, value)
      PROVE  Abstract!ListsNext
  <2>1. /\ l \in AllLists /\ pxContainer[item] = NoNode
        /\ xItemValue' = [xItemValue EXCEPT ![item] = value]
    BY <1>5 DEF vListInsert, AllLists
  <2>2. lists' = [lists EXCEPT ![l] =
               [lists[l] EXCEPT !.items = SortedInsert(lists[l].items, item, xItemValue')]]
    <3>1. PICK old : old = ListAt(l)
      OBVIOUS
    <3>2. PICK new : new = [old EXCEPT !.items = SortedInsert(@, item, xItemValue')]
      OBVIOUS
    <3>3. ListAt(l)' = new /\ \A m \in AllLists : m # l => ListAt(m)' = ListAt(m)
      BY <1>5, <3>1, <3>2, InsertSortedStep
    <3>4. lists' = [lists EXCEPT ![l] = new]
      BY <2>1, <3>3, OneList
    <3>5. old = lists[l]
      BY <1>2, <2>1, <3>1
    <3> QED BY <3>2, <3>4, <3>5
  <2>3. Abstract!PutSorted(l, item, value)
    <3>1. \A m \in Rotating \cup SortedLists : item \notin Members(lists[m].items)
      BY <1>2, <2>1, OnNone DEF AllLists
    <3>2. \A m \in Rotating \cup SortedLists : item \notin Abstract!Members(lists[m].items)
      BY <3>1, SameOperators
    <3>3. lists' = [lists EXCEPT ![l].items = Abstract!SortedInsert(@, item, xItemValue')]
      <4>1. \A items : Abstract!SortedInsert(items, item, xItemValue') = SortedInsert(items, item, xItemValue')
        BY SameOperators
      <4> QED BY <2>2, <4>1
    <3> QED BY <2>1, <3>2, <3>3, Zenon DEF Abstract!PutSorted, Abstract!OnNoList, lists, ListAt
  <2> QED BY <1>5, <2>3 DEF Abstract!ListsNext, Abstract!TickType, TickType
<1>6. ASSUME NEW item \in Items, uxListRemove(item)
      PROVE  Abstract!ListsNext
  <2>1. PICK l \in AllLists : /\ item \in Members(ListAt(l).items)
                              /\ ListAt(l)' = ListRemove(ListAt(l), item)
                              /\ \A m \in AllLists : m # l => ListAt(m)' = ListAt(m)
    BY <1>6, ListRemoveStep
  <2>2. lists' = [lists EXCEPT ![l] = ListRemove(lists[l], item)]
    BY <1>2, <2>1, OneList
  <2>3. item \in Members(lists[l].items) /\ xItemValue' = xItemValue
    BY <1>2, <1>6, <2>1 DEF uxListRemove
  <2>4. Abstract!TakeOut(l, item)
    <3>1. item \in Abstract!Members(lists[l].items)
      BY <2>3, SameOperators
    <3>2. lists' = [lists EXCEPT ![l] = Abstract!ListRemove(lists[l], item)]
      BY <2>2, SameOperators
    <3> QED BY <2>3, <3>1, <3>2, Zenon DEF Abstract!TakeOut, lists, ListAt
  <2> QED BY <2>4 DEF Abstract!ListsNext, AllLists
<1>7. ASSUME NEW l \in Rotating, listGET_OWNER_OF_NEXT_ENTRY(l)
      PROVE  Abstract!ListsNext
  <2>1. l \in AllLists /\ xItemValue' = xItemValue
    BY <1>7 DEF listGET_OWNER_OF_NEXT_ENTRY, AllLists
  <2>2. lists' = [lists EXCEPT ![l] = NextEntry(lists[l])]
    BY <1>2, <1>7, <2>1, NextEntryStep, OneList
  <2>3. lists[l].items # <<>>
    BY <1>2, <1>7, <2>1, NextEntryStep
  <2>4. Abstract!MoveOn(l)
    BY <2>1, <2>2, <2>3, Zenon DEF Abstract!MoveOn, lists, ListAt, Abstract!NextEntry, NextEntry
  <2> QED BY <2>4 DEF Abstract!ListsNext
<1> QED BY <1>3, <1>4, <1>5, <1>6, <1>7 DEF LinkedNext

LEMMA ListsStart == LinkedInit => Abstract!ListsInit
<1> SUFFICES ASSUME LinkedInit PROVE Abstract!ListsInit
  OBVIOUS
<1>1. \A l \in AllLists : ListAt(l) = EmptyList
  BY InitLinked
<1>2. lists = [l \in AllLists |-> EmptyList]
  BY <1>1 DEF lists
<1>3. xItemValue = [item \in Items |-> 0]
  BY DEF LinkedInit
<1> QED BY <1>2, <1>3 DEF Abstract!ListsInit, lists, ListAt, AllLists, Abstract!EmptyList, EmptyList

\* The insertions, the removal and the walk of list.c do to the items of a list,
\* and to the place of pxIndex among them, what the operators of KernelLists say,
\* with which modules Kernel and Mutex work.
THEOREM PointersImplementLists == LinkedSpec => ImplementsLists
<1>1. LinkedInit => Abstract!ListsInit
  BY ListsStart
<1>2. LinkedInv /\ [LinkedNext]_linkedVars => [Abstract!ListsNext]_<<lists, xItemValue>>
  BY ListsStep
<1> QED BY <1>1, <1>2, LinkedInvariant, PTL DEF LinkedSpec, ImplementsLists, Abstract!ListsSpec, lists, ListAt
=============================================================================
