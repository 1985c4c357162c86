-------------------------- MODULE KernelLists_proof --------------------------
(***************************************************************************)
(* What the operations on the lists of the kernel do to their members, for *)
(* lists of any length; and what the other proofs need of arithmetic, of   *)
(* sums over finite sets, and of loops that follow pointers.               *)
(***************************************************************************)
EXTENDS KernelLists, SequenceTheorems, FiniteSetTheorems, WellFoundedInduction, Functions,
  TLAPS

\* A sequence of items of S in which none is twice, as the items of a list are.
IsItems(items, S) ==
  items \in Seq(S) /\ \A i, j \in 1 .. Len(items) : items[i] = items[j] => i = j

IsList(list, S) ==
  /\ list = [items |-> list.items, index |-> list.index]
  /\ IsItems(list.items, S) /\ list.index \in 0 .. Len(list.items)

-----------------------------------------------------------------------------
(* Every set of natural numbers that is not empty has a least element: what *)
(* inductions start from.                                                   *)

NatLess == {pair \in Nat \X Nat : pair[1] < pair[2]}

LEMMA NatLessWellFounded == IsWellFoundedOn(NatLess, Nat)
BY Zenon, NatLessThanWellFounded DEF OpToRel, NatLess

LEMMA LeastNatural ==
  ASSUME NEW T \in SUBSET Nat, T # {}
  PROVE  \E n \in T : \A m \in T : n <= m
<1>1. PICK n \in T : \A m \in T : ~(<<m, n>> \in NatLess)
  BY NatLessWellFounded, WFMin
<1>2. ASSUME NEW m \in T
      PROVE  n <= m
  <2>1. <<m, n>> \in Nat \X Nat /\ m \in Nat /\ n \in Nat
    OBVIOUS
  <2>2. ~(m < n)
    BY <1>1, <2>1 DEF NatLess
  <2> QED BY <2>1, <2>2
<1> QED BY <1>2

LEMMA GreatestNatural ==
  ASSUME NEW n \in Nat, NEW T \in SUBSET (0 .. n), T # {}
  PROVE  \E top \in T : \A m \in T : top >= m
<1> DEFINE below == {n - m : m \in T}
<1>1. below \in SUBSET Nat /\ below # {}
  <2>1. \A m \in T : n - m \in Nat
    OBVIOUS
  <2>2. \E m \in T : n - m \in below
    OBVIOUS
  <2> QED BY <2>1, <2>2
<1>2. PICK d \in below : \A m \in below : d <= m
  BY <1>1, LeastNatural
<1>3. PICK top \in T : d = n - top
  BY <1>2
<1>4. ASSUME NEW m \in T
      PROVE  top >= m
  <2>1. n - m \in below
    OBVIOUS
  <2>2. n - top <= n - m
    BY <1>2, <1>3, <2>1
  <2> QED BY <2>2
<1> QED BY <1>4

\* Induction over a set that is given: from 0 and from each number to the next.
LEMMA SetInduction ==
  ASSUME NEW T, 0 \in T, \A n \in Nat : n \in T => n + 1 \in T
  PROVE  Nat \subseteq T
<1> SUFFICES ASSUME Nat \ T # {}
             PROVE  FALSE
  OBVIOUS
<1>1. PICK n \in Nat \ T : \A m \in Nat \ T : n <= m
  BY LeastNatural
<1>2. n - 1 \in Nat /\ (n - 1) + 1 = n
  BY <1>1
<1>3. n - 1 \in T
  BY <1>1, <1>2
<1> QED BY <1>1, <1>2, <1>3

-----------------------------------------------------------------------------
(* Remainders: how the tick count wraps.                                   *)

\* A quotient and a remainder are determined by the number they add up to.
LEMMA RemainderUnique ==
  ASSUME NEW n \in Nat \ {0}, NEW q1 \in Nat, NEW q2 \in Nat,
         NEW r1 \in 0 .. n - 1, NEW r2 \in 0 .. n - 1,
         n * q1 + r1 = n * q2 + r2
  PROVE  r1 = r2
<1>1. ASSUME NEW p \in Nat, NEW q \in Nat, NEW r \in 0 .. n - 1, NEW s \in 0 .. n - 1,
             n * p + r = n * q + s, p > q
      PROVE  FALSE
  <2>1. PICK k \in Nat : p = q + 1 + k
    <3>1. p - q - 1 \in Nat /\ p = q + 1 + (p - q - 1)
      BY <1>1
    <3> QED
      BY <3>1
  <2>2. n * p = n * q + n + n * k
    BY <2>1
  <2>3. n * k \in Nat /\ n * q \in Nat
    OBVIOUS
  <2> QED
    BY <1>1, <2>2, <2>3
<1>2. CASE q1 = q2
  BY <1>2
<1>3. CASE q1 > q2
  BY <1>1, <1>3
<1>4. CASE q2 > q1
  BY <1>1, <1>4
<1> QED
  BY <1>2, <1>3, <1>4

\* A quotient and a remainder.
LEMMA Divided ==
  ASSUME NEW a \in Nat, NEW n \in Nat \ {0}
  PROVE  /\ a % n \in 0 .. n - 1 /\ a \div n \in Nat /\ a % n \in Nat
         /\ a = n * (a \div n) + (a % n) /\ a \div n <= a
BY SMT

\* The remainder of the next number.
LEMMA ModStep ==
  ASSUME NEW a \in Nat, NEW n \in Nat \ {0}
  PROVE  (a + 1) % n = IF a % n = n - 1 THEN 0 ELSE (a % n) + 1
<1>1. ASSUME NEW b \in Nat
      PROVE  /\ b % n \in 0 .. n - 1 /\ b \div n \in Nat
             /\ b = n * (b \div n) + (b % n)
  BY SMT
<1>2. CASE a % n = n - 1
  <2>1. a + 1 = n * ((a \div n) + 1) + 0 /\ (a \div n) + 1 \in Nat
    BY <1>1, <1>2, SMT
  <2>2. 0 \in 0 .. n - 1 /\ a + 1 \in Nat
    OBVIOUS
  <2> QED
    BY ONLY <2>1, <2>2, <1>1, <1>2, RemainderUnique, n \in Nat \ {0}
<1>3. CASE a % n # n - 1
  <2>1. a + 1 = n * (a \div n) + ((a % n) + 1) /\ (a % n) + 1 \in 0 .. n - 1
    BY <1>1, <1>3, SMT
  <2>2. /\ (a + 1) % n \in 0 .. n - 1 /\ (a + 1) \div n \in Nat /\ a \div n \in Nat
        /\ a + 1 = n * ((a + 1) \div n) + ((a + 1) % n)
    BY <1>1
  <2>3. (a + 1) % n = (a % n) + 1
    BY ONLY <2>1, <2>2, RemainderUnique, n \in Nat \ {0}
  <2> QED
    BY <1>3, <2>3
<1> QED
  BY <1>2, <1>3

\* The remainder of a number one turn further on.
LEMMA ModWhole ==
  ASSUME NEW m \in Nat, NEW n \in Nat \ {0}
  PROVE  (m + n) % n = m % n
<1>1. m + n \in Nat
  OBVIOUS
<1>2. /\ m % n \in 0 .. n - 1 /\ m \div n \in Nat /\ m = n * (m \div n) + (m % n)
      /\ (m + n) % n \in 0 .. n - 1 /\ (m + n) \div n \in Nat
      /\ m + n = n * ((m + n) \div n) + ((m + n) % n)
  BY <1>1, SMT
<1>3. m + n = n * ((m \div n) + 1) + (m % n) /\ (m \div n) + 1 \in Nat
  BY <1>2, SMT
<1> QED
  BY ONLY <1>2, <1>3, RemainderUnique, n \in Nat \ {0}

-----------------------------------------------------------------------------
LEMMA RemoveAtElements ==
  ASSUME NEW S, NEW s \in Seq(S), NEW p \in 1 .. Len(s)
  PROVE  /\ RemoveAt(s, p) \in Seq(S) /\ Len(RemoveAt(s, p)) = Len(s) - 1
         /\ \A i \in 1 .. Len(s) - 1 : RemoveAt(s, p)[i] = IF i < p THEN s[i] ELSE s[i + 1]
<1> DEFINE before == SubSeq(s, 1, p - 1)
           after == SubSeq(s, p + 1, Len(s))
<1>1. Len(s) \in Nat /\ p \in Nat /\ \A i \in 1 .. Len(s) : s[i] \in S
  BY LenProperties, ElementOfSeq
<1>2. /\ before \in Seq(S) /\ Len(before) = p - 1
      /\ \A i \in 1 .. p - 1 : before[i] = s[i]
  BY <1>1, SubSeqProperties
<1>3. /\ after \in Seq(S) /\ Len(after) = Len(s) - p
      /\ \A i \in 1 .. Len(s) - p : after[i] = s[p + i]
  <2>1. \A i \in p + 1 .. Len(s) : s[i] \in S
    BY <1>1
  <2>2. /\ after \in Seq(S)
        /\ Len(after) = IF p + 1 <= Len(s) THEN Len(s) - (p + 1) + 1 ELSE 0
        /\ \A i \in 1 .. Len(s) - (p + 1) + 1 : after[i] = s[p + 1 + i - 1]
    BY <1>1, <2>1, SubSeqProperties
  <2> QED BY <1>1, <2>2
<1> HIDE DEF before, after
<1>4. /\ before \o after \in Seq(S) /\ Len(before \o after) = Len(s) - 1
      /\ \A i \in 1 .. Len(s) - 1 :
           (before \o after)[i] = IF i <= p - 1 THEN before[i] ELSE after[i - (p - 1)]
  <2>1. /\ before \o after \in Seq(S) /\ Len(before \o after) = Len(before) + Len(after)
        /\ \A i \in 1 .. Len(before) + Len(after) : (before \o after)[i] =
             IF i <= Len(before) THEN before[i] ELSE after[i - Len(before)]
    BY <1>2, <1>3, ConcatProperties
  <2>2. Len(before) + Len(after) = Len(s) - 1
    BY <1>1, <1>2, <1>3
  <2> QED BY <1>2, <2>1, <2>2
<1>5. ASSUME NEW i \in 1 .. Len(s) - 1
      PROVE  (before \o after)[i] = IF i < p THEN s[i] ELSE s[i + 1]
  <2>1. CASE i < p
    BY <1>1, <1>2, <1>4, <2>1
  <2>2. CASE ~(i < p)
    <3>1. i - (p - 1) \in 1 .. Len(s) - p /\ p + (i - (p - 1)) = i + 1
      BY <1>1, <2>2
    <3> QED BY <1>1, <1>3, <1>4, <2>2, <3>1
  <2> QED BY <2>1, <2>2
<1> QED BY <1>4, <1>5 DEF RemoveAt, before, after

LEMMA InsertAtElements ==
  ASSUME NEW S, NEW s \in Seq(S), NEW p \in 1 .. Len(s), NEW e \in S
  PROVE  /\ InsertAt(s, p, e) \in Seq(S) /\ Len(InsertAt(s, p, e)) = Len(s) + 1
         /\ \A i \in 1 .. Len(s) + 1 :
              InsertAt(s, p, e)[i] = IF i < p THEN s[i] ELSE IF i = p THEN e ELSE s[i - 1]
<1> DEFINE before == SubSeq(s, 1, p - 1)
           after == SubSeq(s, p, Len(s))
<1>1. Len(s) \in Nat /\ p \in Nat /\ \A i \in 1 .. Len(s) : s[i] \in S
  BY LenProperties, ElementOfSeq
<1>2. /\ before \in Seq(S) /\ Len(before) = p - 1
      /\ \A i \in 1 .. p - 1 : before[i] = s[i]
  BY <1>1, SubSeqProperties
<1>3. /\ after \in Seq(S) /\ Len(after) = Len(s) - p + 1
      /\ \A i \in 1 .. Len(s) - p + 1 : after[i] = s[p + i - 1]
  BY <1>1, SubSeqProperties
<1>4. <<e>> \in Seq(S) /\ Len(<<e>>) = 1 /\ <<e>>[1] = e
  OBVIOUS
<1> HIDE DEF before, after
<1>5. /\ before \o <<e>> \in Seq(S) /\ Len(before \o <<e>>) = p
      /\ \A i \in 1 .. p : (before \o <<e>>)[i] = IF i < p THEN s[i] ELSE e
  <2>1. /\ before \o <<e>> \in Seq(S) /\ Len(before \o <<e>>) = p - 1 + 1
        /\ \A i \in 1 .. p - 1 + 1 :
             (before \o <<e>>)[i] = IF i <= p - 1 THEN before[i] ELSE <<e>>[i - (p - 1)]
    BY <1>2, <1>4, ConcatProperties
  <2> QED BY <1>1, <1>2, <1>4, <2>1
<1> DEFINE front == before \o <<e>>
<1>6. front \in Seq(S) /\ Len(front) = p /\ \A i \in 1 .. p : front[i] = IF i < p THEN s[i] ELSE e
  BY <1>5
<1> HIDE DEF front
<1>7. /\ front \o after \in Seq(S) /\ Len(front \o after) = Len(front) + Len(after)
      /\ \A i \in 1 .. Len(front) + Len(after) : (front \o after)[i] =
           IF i <= Len(front) THEN front[i] ELSE after[i - Len(front)]
  BY <1>3, <1>6, ConcatProperties
<1> DEFINE whole == front \o after
<1> HIDE DEF whole
<1>8. Len(front) + Len(after) = Len(s) + 1
  BY <1>1, <1>3, <1>6
<1>9. /\ whole \in Seq(S) /\ Len(whole) = Len(s) + 1
      /\ \A i \in 1 .. Len(s) + 1 : whole[i] = IF i <= p THEN front[i] ELSE after[i - p]
  BY <1>6, <1>7, <1>8 DEF whole
<1>10. ASSUME NEW i \in 1 .. Len(s) + 1
       PROVE  whole[i] = IF i < p THEN s[i] ELSE IF i = p THEN e ELSE s[i - 1]
  <2>1. CASE i <= p
    <3>1. i \in 1 .. p
      BY <1>1, <2>1
    <3>2. front[i] = IF i < p THEN s[i] ELSE e
      BY <1>6, <3>1
    <3> QED BY <1>1, <1>9, <2>1, <3>2
  <2>2. CASE i > p
    <3>1. i - p \in 1 .. Len(s) - p + 1 /\ p + (i - p) - 1 = i - 1
      BY <1>1, <2>2
    <3>2. after[i - p] = s[i - 1]
      BY <1>3, <3>1
    <3> QED BY <1>1, <1>9, <2>2, <3>2
  <2> QED BY <1>1, <2>1, <2>2
<1> QED BY <1>9, <1>10 DEF InsertAt, before, after, front, whole

-----------------------------------------------------------------------------
(* One item removed, one inserted.                                         *)

LEMMA PositionOfMember ==
  ASSUME NEW items, NEW item \in Members(items)
  PROVE  PositionOf(items, item) \in 1 .. Len(items) /\ items[PositionOf(items, item)] = item
BY DEF PositionOf, Members

LEMMA RemoveAtItems ==
  ASSUME NEW S, NEW s, IsItems(s, S), NEW p \in 1 .. Len(s)
  PROVE  IsItems(RemoveAt(s, p), S) /\ Members(RemoveAt(s, p)) = Members(s) \ {s[p]}
<1> DEFINE r == RemoveAt(s, p)
<1>1. s \in Seq(S) /\ Len(s) \in Nat /\ p \in Nat
  BY LenProperties DEF IsItems
<1>2. /\ r \in Seq(S) /\ Len(r) = Len(s) - 1
      /\ \A i \in 1 .. Len(s) - 1 : r[i] = IF i < p THEN s[i] ELSE s[i + 1]
  BY <1>1, RemoveAtElements
<1> HIDE DEF r
<1>3. \A i, j \in 1 .. Len(s) : s[i] = s[j] => i = j
  BY DEF IsItems
<1> DEFINE from(i) == IF i < p THEN i ELSE i + 1
<1>4. \A i \in 1 .. Len(s) - 1 : from(i) \in 1 .. Len(s) /\ from(i) # p /\ r[i] = s[from(i)]
  BY <1>1, <1>2
<1>5. \A i, j \in 1 .. Len(s) - 1 : from(i) = from(j) => i = j
  BY <1>1
<1>6. \A n \in 1 .. Len(s) : n # p => \E i \in 1 .. Len(s) - 1 : from(i) = n
  <2> SUFFICES ASSUME NEW n \in 1 .. Len(s), n # p
               PROVE  \E i \in 1 .. Len(s) - 1 : from(i) = n
    OBVIOUS
  <2>1. CASE n < p
    BY <1>1, <2>1
  <2>2. CASE n > p
    <3>1. n - 1 \in 1 .. Len(s) - 1 /\ from(n - 1) = n
      BY <1>1, <2>2
    <3> QED BY <3>1
  <2> QED BY <1>1, <2>1, <2>2
<1> HIDE DEF from
<1>7. IsItems(r, S)
  BY <1>2, <1>3, <1>4, <1>5 DEF IsItems
<1>8. Members(r) = Members(s) \ {s[p]}
  <2>1. ASSUME NEW i \in 1 .. Len(s) - 1
        PROVE  r[i] \in Members(s) \ {s[p]}
    BY <1>3, <1>4 DEF Members
  <2>2. ASSUME NEW n \in 1 .. Len(s), s[n] # s[p]
        PROVE  s[n] \in Members(r)
    <3>1. PICK i \in 1 .. Len(s) - 1 : from(i) = n
      BY <1>6, <2>2
    <3> QED BY <1>2, <1>4, <3>1 DEF Members
  <2> QED BY <1>2, <2>1, <2>2 DEF Members
<1> QED BY <1>7, <1>8 DEF r

LEMMA InsertAtItems ==
  ASSUME NEW S, NEW s, IsItems(s, S), NEW p \in 1 .. Len(s), NEW e \in S \ Members(s)
  PROVE  IsItems(InsertAt(s, p, e), S) /\ Members(InsertAt(s, p, e)) = Members(s) \cup {e}
<1>1. s \in Seq(S) /\ Len(s) \in Nat /\ p \in Nat /\ e \in S
  BY LenProperties DEF IsItems
<1>0. /\ InsertAt(s, p, e) \in Seq(S) /\ Len(InsertAt(s, p, e)) = Len(s) + 1
      /\ \A i \in 1 .. Len(s) + 1 :
           InsertAt(s, p, e)[i] = IF i < p THEN s[i] ELSE IF i = p THEN e ELSE s[i - 1]
  BY <1>1, InsertAtElements
<1> DEFINE r == InsertAt(s, p, e)
<1>2. /\ r \in Seq(S) /\ Len(r) = Len(s) + 1
      /\ \A i \in 1 .. Len(s) + 1 : r[i] = IF i < p THEN s[i] ELSE IF i = p THEN e ELSE s[i - 1]
  BY <1>0
<1> HIDE DEF r
<1>3. /\ \A i, j \in 1 .. Len(s) : s[i] = s[j] => i = j
      /\ \A i \in 1 .. Len(s) : s[i] # e
  BY DEF IsItems, Members
<1> DEFINE from(i) == IF i < p THEN i ELSE i - 1
<1>4. \A i \in 1 .. Len(s) + 1 : i # p => from(i) \in 1 .. Len(s) /\ r[i] = s[from(i)]
  BY <1>1, <1>2
<1>5. p \in 1 .. Len(s) + 1 /\ r[p] = e
  BY <1>1, <1>2
<1>6. \A i, j \in 1 .. Len(s) + 1 : i # p /\ j # p /\ from(i) = from(j) => i = j
  BY <1>1
<1>7. \A n \in 1 .. Len(s) : \E i \in 1 .. Len(s) + 1 : i # p /\ from(i) = n
  <2> SUFFICES ASSUME NEW n \in 1 .. Len(s)
               PROVE  \E i \in 1 .. Len(s) + 1 : i # p /\ from(i) = n
    OBVIOUS
  <2>1. CASE n < p
    BY <1>1, <2>1
  <2>2. CASE n >= p
    <3>1. n + 1 \in 1 .. Len(s) + 1 /\ n + 1 # p /\ from(n + 1) = n
      BY <1>1, <2>2
    <3> QED BY <3>1
  <2> QED BY <1>1, <2>1, <2>2
<1> HIDE DEF from
<1>8. IsItems(r, S)
  <2> SUFFICES ASSUME NEW i \in 1 .. Len(s) + 1, NEW j \in 1 .. Len(s) + 1, r[i] = r[j]
               PROVE  i = j
    BY <1>2 DEF IsItems
  <2>1. CASE i = p
    BY <1>3, <1>4, <1>5, <2>1
  <2>2. CASE j = p
    BY <1>3, <1>4, <1>5, <2>2
  <2>3. CASE i # p /\ j # p
    BY <1>3, <1>4, <1>6, <2>3
  <2> QED BY <2>1, <2>2, <2>3
<1>9. Members(r) = Members(s) \cup {e}
  <2>1. ASSUME NEW i \in 1 .. Len(s) + 1
        PROVE  r[i] \in Members(s) \cup {e}
    BY <1>4, <1>5 DEF Members
  <2>2. ASSUME NEW n \in 1 .. Len(s)
        PROVE  s[n] \in Members(r)
    <3>1. PICK i \in 1 .. Len(s) + 1 : i # p /\ from(i) = n
      BY <1>7
    <3> QED BY <1>2, <1>4, <3>1 DEF Members
  <2>3. e \in Members(r)
    BY <1>2, <1>5 DEF Members
  <2> QED BY <1>2, <2>1, <2>2, <2>3 DEF Members
<1> QED BY <1>8, <1>9 DEF r

LEMMA AppendItems ==
  ASSUME NEW S, NEW s, IsItems(s, S), NEW e \in S \ Members(s)
  PROVE  IsItems(Append(s, e), S) /\ Members(Append(s, e)) = Members(s) \cup {e}
<1>1. /\ s \in Seq(S) /\ Len(s) \in Nat
      /\ \A i, j \in 1 .. Len(s) : s[i] = s[j] => i = j
      /\ \A i \in 1 .. Len(s) : s[i] # e
  BY LenProperties DEF IsItems, Members
<1>2. /\ Append(s, e) \in Seq(S) /\ Len(Append(s, e)) = Len(s) + 1
      /\ \A i \in 1 .. Len(s) : Append(s, e)[i] = s[i]
      /\ Append(s, e)[Len(s) + 1] = e
  BY <1>1, AppendProperties
<1>3. \A i \in 1 .. Len(s) + 1 : i = Len(s) + 1 \/ i \in 1 .. Len(s)
  BY <1>1
<1> QED BY <1>1, <1>2, <1>3 DEF IsItems, Members

LEMMA TailItems ==
  ASSUME NEW S, NEW s, IsItems(s, S), s # <<>>
  PROVE  /\ Head(s) \in S /\ Head(s) \in Members(s)
         /\ IsItems(Tail(s), S) /\ Members(Tail(s)) = Members(s) \ {Head(s)}
<1>1. /\ s \in Seq(S) /\ Len(s) \in Nat \ {0}
      /\ \A i, j \in 1 .. Len(s) : s[i] = s[j] => i = j
  BY EmptySeq, LenProperties DEF IsItems
<1>2. /\ Head(s) = s[1] /\ Head(s) \in S
      /\ Tail(s) \in Seq(S) /\ Len(Tail(s)) = Len(s) - 1
      /\ \A i \in 1 .. Len(s) - 1 : Tail(s)[i] = s[i + 1]
  BY <1>1, HeadTailProperties, ElementOfSeq
<1>3. \A i \in 1 .. Len(s) : i = 1 \/ (i - 1 \in 1 .. Len(s) - 1 /\ Tail(s)[i - 1] = s[i])
  BY <1>1, <1>2
<1>4. \A i \in 1 .. Len(s) - 1 : i + 1 \in 1 .. Len(s) /\ i + 1 # 1
  BY <1>1
<1>5. IsItems(Tail(s), S)
  BY <1>1, <1>2, <1>4 DEF IsItems
<1>6. Members(Tail(s)) = Members(s) \ {Head(s)}
  <2>1. ASSUME NEW i \in 1 .. Len(s) - 1
        PROVE  Tail(s)[i] \in Members(s) \ {Head(s)}
    <3>1. i + 1 \in 1 .. Len(s) /\ 1 \in 1 .. Len(s) /\ i + 1 # 1
      BY <1>1
    <3> QED BY <1>1, <1>2, <3>1 DEF Members
  <2>2. ASSUME NEW i \in 1 .. Len(s), s[i] # Head(s)
        PROVE  s[i] \in Members(Tail(s))
    BY <1>2, <1>3, <2>2 DEF Members
  <2>3. /\ Members(s) = {s[i] : i \in 1 .. Len(s)}
        /\ Members(Tail(s)) = {Tail(s)[i] : i \in 1 .. Len(s) - 1}
    BY <1>2 DEF Members
  <2>4. ASSUME NEW e \in Members(Tail(s)) PROVE e \in Members(s) \ {Head(s)}
    <3>1. PICK i \in 1 .. Len(s) - 1 : e = Tail(s)[i]
      BY <2>3
    <3> QED BY <2>1, <3>1
  <2>5. ASSUME NEW e \in Members(s) \ {Head(s)} PROVE e \in Members(Tail(s))
    <3>1. PICK i \in 1 .. Len(s) : e = s[i]
      BY <2>3
    <3> QED BY <2>2, <3>1
  <2> QED BY <2>4, <2>5
<1> QED BY <1>1, <1>2, <1>5, <1>6 DEF Members

-----------------------------------------------------------------------------
(* The operations of the lists.                                            *)

LEMMA WithoutItems ==
  ASSUME NEW S, NEW items, IsItems(items, S), NEW item
  PROVE  IsItems(Without(items, item), S) /\ Members(Without(items, item)) = Members(items) \ {item}
BY PositionOfMember, RemoveAtItems DEF Without

LEMMA SortedInsertItems ==
  ASSUME NEW S, NEW items, IsItems(items, S), NEW item \in S \ Members(items), NEW value
  PROVE  /\ IsItems(SortedInsert(items, item, value), S)
         /\ Members(SortedInsert(items, item, value)) = Members(items) \cup {item}
<1> DEFINE greater == {i \in 1 .. Len(items) : value[items[i]] > value[item]}
           p == CHOOSE i \in greater : \A j \in greater : i <= j
<1>1. CASE greater = {}
  BY <1>1, AppendItems DEF SortedInsert
<1>2. CASE greater # {}
  <2>1. greater \in SUBSET Nat
    BY LenProperties DEF IsItems
  <2>2. \E i \in greater : \A j \in greater : i <= j
    BY <1>2, <2>1, LeastNatural
  <2>3. p \in greater
    BY <2>2
  <2>4. p \in 1 .. Len(items)
    BY <2>3
  <2>5. SortedInsert(items, item, value) = InsertAt(items, p, item)
    BY <1>2 DEF SortedInsert
  <2> HIDE DEF p, greater
  <2> QED BY <2>4, <2>5, InsertAtItems
<1> QED BY <1>1, <1>2

LEMMA EmptyItems ==
  ASSUME NEW S
  PROVE  IsItems(<<>>, S) /\ Members(<<>>) = {} /\ IsList(EmptyList, S)
BY DEF IsItems, IsList, Members, EmptyList

LEMMA ItemsMembers ==
  ASSUME NEW S, NEW items, IsItems(items, S)
  PROVE  Members(items) \subseteq S /\ (items = <<>> <=> Members(items) = {})
<1>1. items \in Seq(S) /\ Len(items) \in Nat /\ \A i \in 1 .. Len(items) : items[i] \in S
  BY LenProperties, ElementOfSeq DEF IsItems
<1>2. CASE items = <<>>
  BY <1>2, EmptyItems
<1>3. CASE items # <<>>
  <2>1. 1 \in 1 .. Len(items)
    BY <1>1, <1>3, EmptySeq
  <2>2. items[1] \in Members(items)
    BY <2>1 DEF Members
  <2> QED BY <1>1, <1>3, <2>2 DEF Members
<1> QED BY <1>2, <1>3

LEMMA PrefixItems ==
  ASSUME NEW S, NEW items, IsItems(items, S), NEW n \in 0 .. Len(items)
  PROVE  /\ IsItems(SubSeq(items, 1, n), S) /\ Members(SubSeq(items, 1, n)) \subseteq Members(items)
         /\ Len(SubSeq(items, 1, n)) = n
<1>1. /\ items \in Seq(S) /\ Len(items) \in Nat /\ n \in Nat
      /\ \A i \in 1 .. Len(items) : items[i] \in S
      /\ \A i, j \in 1 .. Len(items) : items[i] = items[j] => i = j
  BY LenProperties, ElementOfSeq DEF IsItems
<1>2. /\ SubSeq(items, 1, n) \in Seq(S) /\ Len(SubSeq(items, 1, n)) = n
      /\ \A i \in 1 .. n : SubSeq(items, 1, n)[i] = items[i]
  <2>1. \A i \in 1 .. n : items[i] \in S
    BY <1>1
  <2> QED BY <1>1, <2>1, SubSeqProperties
<1>3. \A i \in 1 .. n : i \in 1 .. Len(items)
  BY <1>1
<1> QED BY <1>1, <1>2, <1>3 DEF IsItems, Members

LEMMA InsertEndItems ==
  ASSUME NEW S, NEW list, IsList(list, S), NEW item \in S \ Members(list.items)
  PROVE  /\ IsList(InsertEnd(list, item), S)
         /\ Members(InsertEnd(list, item).items) = Members(list.items) \cup {item}
<1>1. /\ IsItems(list.items, S) /\ list.index \in 0 .. Len(list.items)
      /\ list.items \in Seq(S) /\ Len(list.items) \in Nat
      /\ list = [items |-> list.items, index |-> list.index]
  BY LenProperties DEF IsList, IsItems
<1>2. CASE list.index = 0
  <2>1. InsertEnd(list, item) = [items |-> Append(list.items, item), index |-> list.index]
    BY <1>1, <1>2 DEF InsertEnd
  <2>2. Len(Append(list.items, item)) = Len(list.items) + 1
    BY <1>1, AppendProperties
  <2> QED BY <1>1, <1>2, <2>1, <2>2, AppendItems DEF IsList
<1>3. CASE list.index # 0
  <2>1. InsertEnd(list, item) =
          [items |-> InsertAt(list.items, list.index, item), index |-> list.index + 1]
    BY <1>3 DEF InsertEnd
  <2>2. list.index \in 1 .. Len(list.items) /\ item \in S
    BY <1>1, <1>3
  <2>3. Len(InsertAt(list.items, list.index, item)) = Len(list.items) + 1
    BY <1>1, <2>2, InsertAtElements
  <2> QED BY <1>1, <2>1, <2>2, <2>3, InsertAtItems DEF IsList
<1> QED BY <1>2, <1>3

LEMMA ListRemoveItems ==
  ASSUME NEW S, NEW list, IsList(list, S), NEW item \in Members(list.items)
  PROVE  /\ IsList(ListRemove(list, item), S)
         /\ Members(ListRemove(list, item).items) = Members(list.items) \ {item}
<1> DEFINE p == PositionOf(list.items, item)
<1>1. /\ IsItems(list.items, S) /\ list.index \in 0 .. Len(list.items)
      /\ list.items \in Seq(S) /\ Len(list.items) \in Nat
  BY LenProperties DEF IsList, IsItems
<1>2. p \in 1 .. Len(list.items) /\ list.items[p] = item
  BY PositionOfMember
<1>3. ListRemove(list, item) =
        [items |-> RemoveAt(list.items, p),
         index |-> IF p <= list.index THEN list.index - 1 ELSE list.index]
  BY DEF ListRemove
<1> HIDE DEF p
<1>4. Len(RemoveAt(list.items, p)) = Len(list.items) - 1
  BY <1>1, <1>2, RemoveAtElements
<1>5. (IF p <= list.index THEN list.index - 1 ELSE list.index) \in 0 .. Len(list.items) - 1
  BY <1>1, <1>2
<1> QED BY <1>1, <1>2, <1>3, <1>4, <1>5, RemoveAtItems DEF IsList

LEMMA NextEntryItems ==
  ASSUME NEW S, NEW list, IsList(list, S), list.items # <<>>
  PROVE  /\ IsList(NextEntry(list), S) /\ NextEntry(list).items = list.items
         /\ NextEntry(list).index \in 1 .. Len(list.items)
<1>1. /\ list.index \in 0 .. Len(list.items) /\ Len(list.items) \in Nat \ {0}
      /\ list = [items |-> list.items, index |-> list.index]
  BY EmptySeq, LenProperties DEF IsList, IsItems
<1>2. NextEntry(list) =
        [items |-> list.items,
         index |-> IF list.index = Len(list.items) THEN 1 ELSE list.index + 1]
  BY <1>1 DEF NextEntry
<1>3. (IF list.index = Len(list.items) THEN 1 ELSE list.index + 1) \in 1 .. Len(list.items)
  BY <1>1
<1> QED BY <1>2, <1>3 DEF IsList

-----------------------------------------------------------------------------
(* Sorted lists.                                                           *)

ListSorted(items, value) ==
  \A i, j \in 1 .. Len(items) : i < j => value[items[i]] <= value[items[j]]

LEMMA WithoutSorted ==
  ASSUME NEW S, NEW items, IsItems(items, S), NEW item, NEW value, ListSorted(items, value)
  PROVE  ListSorted(Without(items, item), value)
<1>1. items \in Seq(S) /\ Len(items) \in Nat
  BY LenProperties DEF IsItems
<1>2. CASE item \notin Members(items)
  BY <1>2 DEF Without
<1>3. CASE item \in Members(items)
  <2> DEFINE p == PositionOf(items, item)
             r == RemoveAt(items, p)
             from(i) == IF i < p THEN i ELSE i + 1
  <2>1. p \in 1 .. Len(items)
    BY <1>3, PositionOfMember
  <2>2. Without(items, item) = r
    BY <1>3 DEF Without
  <2> HIDE DEF p
  <2>3. /\ Len(r) = Len(items) - 1
        /\ \A i \in 1 .. Len(items) - 1 : r[i] = IF i < p THEN items[i] ELSE items[i + 1]
    BY <1>1, <2>1, RemoveAtElements
  <2> HIDE DEF r
  <2>4. \A i \in 1 .. Len(r) : r[i] = items[from(i)] /\ from(i) \in 1 .. Len(items)
    BY <1>1, <2>1, <2>3
  <2>5. \A i, j \in 1 .. Len(r) : i < j => from(i) < from(j)
    BY <1>1, <2>1, <2>3
  <2> HIDE DEF from
  <2>6. ListSorted(r, value)
    BY <2>4, <2>5 DEF ListSorted
  <2> QED BY <2>2, <2>6
<1> QED BY <1>2, <1>3

LEMMA TailSorted ==
  ASSUME NEW S, NEW items, IsItems(items, S), items # <<>>, NEW value, ListSorted(items, value)
  PROVE  /\ ListSorted(Tail(items), value)
         /\ \A item \in Members(Tail(items)) : value[Head(items)] <= value[item]
<1>1. /\ items \in Seq(S) /\ Len(items) \in Nat \ {0}
  BY EmptySeq, LenProperties DEF IsItems
<1>2. /\ Head(items) = items[1] /\ Len(Tail(items)) = Len(items) - 1
      /\ \A i \in 1 .. Len(items) - 1 : Tail(items)[i] = items[i + 1]
  BY <1>1, HeadTailProperties
<1>3. \A i \in 1 .. Len(items) - 1 : i + 1 \in 1 .. Len(items) /\ 1 < i + 1 /\ 1 \in 1 .. Len(items)
  BY <1>1
<1>4. \A i, j \in 1 .. Len(items) - 1 : i < j => i + 1 < j + 1
  BY <1>1
<1>5. ListSorted(Tail(items), value)
  BY <1>2, <1>3, <1>4 DEF ListSorted
<1>6. \A i \in 1 .. Len(Tail(items)) : value[Head(items)] <= value[Tail(items)[i]]
  BY <1>2, <1>3 DEF ListSorted
<1> QED BY <1>5, <1>6 DEF Members

\* A new item comes behind those of its value.
LEMMA SortedInsertSorted ==
  ASSUME NEW S, NEW items, IsItems(items, S), NEW item \in S, NEW value,
         value[item] \in Int, \A i \in 1 .. Len(items) : value[items[i]] \in Int,
         ListSorted(items, value)
  PROVE  ListSorted(SortedInsert(items, item, value), value)
<1> DEFINE greater == {i \in 1 .. Len(items) : value[items[i]] > value[item]}
           p == CHOOSE i \in greater : \A j \in greater : i <= j
           r == SortedInsert(items, item, value)
<1>1. items \in Seq(S) /\ Len(items) \in Nat
  BY LenProperties DEF IsItems
<1>2. CASE greater = {}
  <2>1. r = Append(items, item)
    BY <1>2 DEF SortedInsert
  <2>2. /\ Len(r) = Len(items) + 1 /\ r[Len(items) + 1] = item
        /\ \A i \in 1 .. Len(items) : r[i] = items[i]
    BY <1>1, <2>1, AppendProperties
  <2>3. \A i \in 1 .. Len(items) : value[items[i]] <= value[item]
    BY <1>2
  <2>4. \A i, j \in 1 .. Len(items) + 1 : i < j =>
          i \in 1 .. Len(items) /\ (j = Len(items) + 1 \/ j \in 1 .. Len(items))
    BY <1>1
  <2> HIDE DEF r, greater
  <2>5. ListSorted(r, value)
    BY <2>2, <2>3, <2>4 DEF ListSorted
  <2> QED BY <2>5 DEF r
<1>3. CASE greater # {}
  <2>1. greater \in SUBSET Nat
    BY <1>1
  <2>2. \E i \in greater : \A j \in greater : i <= j
    BY <1>3, <2>1, LeastNatural
  <2>3. p \in greater /\ \A j \in greater : p <= j
    BY <2>2
  <2>4. p \in 1 .. Len(items) /\ p \in Nat
    BY <2>1, <2>3
  <2>5. r = InsertAt(items, p, item)
    BY <1>3 DEF SortedInsert
  <2>6. \A i \in 1 .. Len(items) : i < p => value[items[i]] <= value[item]
    <3> SUFFICES ASSUME NEW i \in 1 .. Len(items), i < p
                 PROVE  value[items[i]] <= value[item]
      OBVIOUS
    <3>1. i \notin greater
      <4> HIDE DEF greater, p
      <4> QED BY <2>3, <2>4
    <3>2. ~(value[items[i]] > value[item]) /\ value[items[i]] \in Int
      BY <3>1
    <3> QED BY <3>2
  <2>7. \A i \in 1 .. Len(items) : i >= p => value[item] <= value[items[i]]
    <3> SUFFICES ASSUME NEW i \in 1 .. Len(items), i >= p
                 PROVE  value[item] <= value[items[i]]
      OBVIOUS
    <3>1. value[items[p]] > value[item] /\ value[items[p]] \in Int /\ value[items[i]] \in Int
      BY <2>3
    <3>2. i = p \/ p < i
      BY <2>4
    <3>3. value[items[p]] <= value[items[i]]
      BY <2>4, <3>1, <3>2 DEF ListSorted
    <3> QED BY <3>1, <3>3
  <2> HIDE DEF p, greater, r
  <2>8. /\ Len(r) = Len(items) + 1
        /\ \A i \in 1 .. Len(items) + 1 :
             r[i] = IF i < p THEN items[i] ELSE IF i = p THEN item ELSE items[i - 1]
    BY <1>1, <2>4, <2>5, InsertAtElements
  <2>9. ASSUME NEW i \in 1 .. Len(r), NEW j \in 1 .. Len(r), i < j
        PROVE  value[r[i]] <= value[r[j]]
    <3>1. i \in Nat /\ j \in Nat /\ i <= Len(items) /\ 1 <= i /\ j <= Len(items) + 1
      BY <1>1, <2>8, <2>9
    <3>2. CASE j < p
      <4>1. i \in 1 .. Len(items) /\ j \in 1 .. Len(items) /\ i < p
        BY <2>4, <2>9, <3>1, <3>2
      <4> QED BY <2>8, <2>9, <3>2, <4>1 DEF ListSorted
    <3>3. CASE j = p
      <4>1. i \in 1 .. Len(items) /\ i < p /\ r[j] = item /\ r[i] = items[i]
        BY <2>4, <2>8, <2>9, <3>1, <3>3
      <4> QED BY <2>6, <4>1
    <3>4. CASE j > p /\ i < p
      <4>1. /\ i \in 1 .. Len(items) /\ j - 1 \in 1 .. Len(items) /\ i < j - 1
            /\ r[i] = items[i] /\ r[j] = items[j - 1]
        BY <2>4, <2>8, <3>1, <3>4
      <4> QED BY <4>1 DEF ListSorted
    <3>5. CASE j > p /\ i = p
      <4>1. j - 1 \in 1 .. Len(items) /\ j - 1 >= p /\ r[i] = item /\ r[j] = items[j - 1]
        BY <2>4, <2>8, <3>1, <3>5
      <4> QED BY <2>7, <4>1
    <3>6. CASE j > p /\ i > p
      <4>1. /\ i - 1 \in 1 .. Len(items) /\ j - 1 \in 1 .. Len(items) /\ i - 1 < j - 1
            /\ r[i] = items[i - 1] /\ r[j] = items[j - 1]
        BY <2>4, <2>8, <2>9, <3>1, <3>6
      <4> QED BY <4>1 DEF ListSorted
    <3> QED BY <2>4, <3>1, <3>2, <3>3, <3>4, <3>5, <3>6
  <2> QED BY <2>9 DEF ListSorted, r
<1> QED BY <1>2, <1>3

\* What vListInsert makes of a list, given the places of the items with a
\* greater value: the list does not depend on the values otherwise.
InsertedAmong(items, item, greater) ==
  IF greater = {} THEN Append(items, item)
  ELSE InsertAt(items, CHOOSE i \in greater : \A j \in greater : i <= j, item)

\* vListInsert in that form.
LEMMA SortedInsertAmong ==
  ASSUME NEW items, NEW item, NEW value
  PROVE  SortedInsert(items, item, value) =
           InsertedAmong(items, item, {i \in 1 .. Len(items) : value[items[i]] > value[item]})
BY DEF SortedInsert, InsertedAmong

-----------------------------------------------------------------------------
(* Sums.                                                                   *)

\* What FoldFunctionOnSet computes, of the sets in D that are closed downwards.
SumsTo(g, f, D) ==
  g = [s \in D |-> IF s = {} THEN 0
                   ELSE f[CHOOSE x \in s : TRUE] + g[s \ {CHOOSE x \in s : TRUE}]]

\* There is such a function, and only one: so a sum over a set is what it says.
LEMMA SumsExist ==
  ASSUME NEW f, NEW S, IsFiniteSet(S)
  PROVE  \E g : SumsTo(g, f, SUBSET S)
<1> DEFINE Upto(n) == {s \in SUBSET S : Cardinality(s) <= n}
           T == {n \in Nat : \E g : SumsTo(g, f, Upto(n))}
<1>1. \A s \in SUBSET S : IsFiniteSet(s) /\ Cardinality(s) \in Nat /\ Cardinality(s) <= Cardinality(S)
  BY FS_Subset, FS_CardinalityType
<1>2. Cardinality(S) \in Nat
  BY FS_CardinalityType
<1>3. 0 \in T
  <2> DEFINE g == [s \in Upto(0) |-> 0]
  <2>1. \A s \in Upto(0) : s = {}
    BY <1>1, FS_EmptySet
  <2>2. SumsTo(g, f, Upto(0))
    BY <2>1 DEF SumsTo
  <2> QED BY <2>2
<1>4. ASSUME NEW n \in Nat, n \in T PROVE n + 1 \in T
  <2>1. PICK g : SumsTo(g, f, Upto(n))
    BY <1>4
  <2> DEFINE one(s) == CHOOSE x \in s : TRUE
             h == [s \in Upto(n + 1) |-> IF s = {} THEN 0 ELSE f[one(s)] + g[s \ {one(s)}]]
  <2>2. ASSUME NEW s \in Upto(n + 1), s # {}
        PROVE  one(s) \in s /\ s \ {one(s)} \in Upto(n)
    <3>1. one(s) \in s
      BY <2>2
    <3>2. IsFiniteSet(s) /\ Cardinality(s \ {one(s)}) = Cardinality(s) - 1
      BY <1>1, <3>1, FS_RemoveElement
    <3>3. Cardinality(s) \in Nat /\ Cardinality(s) <= n + 1
      BY <1>1
    <3> HIDE DEF one
    <3> QED BY <3>1, <3>2, <3>3
  <2>3. \A s \in Upto(n) : s \in Upto(n + 1) /\ g[s] = h[s]
    <3> SUFFICES ASSUME NEW s \in Upto(n) PROVE s \in Upto(n + 1) /\ g[s] = h[s]
      OBVIOUS
    <3>1. s \in Upto(n + 1)
      BY <1>1
    <3>2. g[s] = IF s = {} THEN 0 ELSE f[one(s)] + g[s \ {one(s)}]
      BY <2>1 DEF SumsTo
    <3>3. h[s] = IF s = {} THEN 0 ELSE f[one(s)] + g[s \ {one(s)}]
      BY <3>1
    <3> QED BY <3>1, <3>2, <3>3
  <2>4. ASSUME NEW s \in Upto(n + 1)
        PROVE  h[s] = IF s = {} THEN 0 ELSE f[one(s)] + h[s \ {one(s)}]
    <3>1. h[s] = IF s = {} THEN 0 ELSE f[one(s)] + g[s \ {one(s)}]
      OBVIOUS
    <3>2. s # {} => g[s \ {one(s)}] = h[s \ {one(s)}]
      BY <2>2, <2>3
    <3> HIDE DEF h, one, Upto
    <3> QED BY <3>1, <3>2
  <2>5. h = [s \in Upto(n + 1) |-> IF s = {} THEN 0 ELSE f[one(s)] + h[s \ {one(s)}]]
    <3>1. h = [s \in Upto(n + 1) |-> h[s]]
      OBVIOUS
    <3> HIDE DEF h, one, Upto
    <3> QED BY <2>4, <3>1
  <2>6. SumsTo(h, f, Upto(n + 1))
    <3> HIDE DEF h
    <3> QED BY <2>5 DEF SumsTo
  <2>7. \E i : SumsTo(i, f, Upto(n + 1))
    <3> HIDE DEF h, Upto
    <3> QED BY <2>6
  <2> HIDE DEF h, Upto
  <2> QED BY <2>7
<1>5. Cardinality(S) \in T
  <2> HIDE DEF T
  <2> QED BY <1>2, <1>3, <1>4, SetInduction
<1>6. Upto(Cardinality(S)) = SUBSET S
  BY <1>1
<1> QED BY <1>5, <1>6

LEMMA SumsUnique ==
  ASSUME NEW f, NEW S, NEW R, NEW g, NEW h,
         IsFiniteSet(S), R \subseteq S, SumsTo(g, f, SUBSET S), SumsTo(h, f, SUBSET R)
  PROVE  g[R] = h[R]
<1> DEFINE T == {n \in Nat : \A s \in SUBSET R : Cardinality(s) <= n => g[s] = h[s]}
<1>1. \A s \in SUBSET R : IsFiniteSet(s) /\ Cardinality(s) \in Nat
  BY FS_Subset, FS_CardinalityType
<1>2. 0 \in T
  <2>1. \A s \in SUBSET R : Cardinality(s) <= 0 => s = {}
    BY <1>1, FS_EmptySet
  <2>2. g[{}] = 0 /\ h[{}] = 0
    BY DEF SumsTo
  <2> QED BY <2>1, <2>2
<1>3. ASSUME NEW n \in Nat, n \in T PROVE n + 1 \in T
  <2>0. g[{}] = h[{}]
    BY DEF SumsTo
  <2> SUFFICES ASSUME NEW s \in SUBSET R, Cardinality(s) <= n + 1
               PROVE  g[s] = h[s]
    OBVIOUS
  <2> SUFFICES ASSUME s # {} PROVE g[s] = h[s]
    BY <2>0
  <2> DEFINE x == CHOOSE x \in s : TRUE
  <2>1. x \in s
    OBVIOUS
  <2>2. IsFiniteSet(s) /\ Cardinality(s \ {x}) = Cardinality(s) - 1
    BY <1>1, <2>1, FS_RemoveElement
  <2>3. Cardinality(s) \in Nat
    BY <1>1
  <2>4. g[s] = f[x] + g[s \ {x}] /\ h[s] = f[x] + h[s \ {x}]
    BY DEF SumsTo
  <2>5. g[s \ {x}] = h[s \ {x}]
    <3> HIDE DEF x
    <3> QED BY <1>3, <2>2, <2>3
  <2> QED BY <2>4, <2>5
<1>4. Nat \subseteq T
  <2> HIDE DEF T
  <2> QED BY <1>2, <1>3, SetInduction
<1> QED BY <1>1, <1>4

\* The sum of f over S; a name of its own, so that the leaves below need no fold.
SumOver(f, S) == FoldFunctionOnSet(+, 0, f, S)

LEMMA SumDef ==
  ASSUME NEW f, NEW S, IsFiniteSet(S)
  PROVE  \E g : SumsTo(g, f, SUBSET S) /\ SumOver(f, S) = g[S]
<1> DEFINE g == CHOOSE g : SumsTo(g, f, SUBSET S)
<1>1. SumsTo(g, f, SUBSET S)
  BY SumsExist
<1>2. SumOver(f, S) = g[S]
  BY DEF SumOver, FoldFunctionOnSet, MapThenFoldSet, SumsTo
<1> HIDE DEF g
<1> QED BY <1>1, <1>2

LEMMA SumEmpty == ASSUME NEW f PROVE SumOver(f, {}) = 0
<1>1. IsFiniteSet({})
  BY FS_EmptySet
<1>2. PICK g : SumsTo(g, f, SUBSET {}) /\ SumOver(f, {}) = g[{}]
  BY <1>1, SumDef
<1> QED BY <1>2 DEF SumsTo

LEMMA SumChosen ==
  ASSUME NEW f, NEW S, IsFiniteSet(S), S # {}
  PROVE  LET x == CHOOSE x \in S : TRUE
         IN  SumOver(f, S) = f[x] + SumOver(f, S \ {x})
<1> DEFINE x == CHOOSE x \in S : TRUE
<1>1. x \in S
  OBVIOUS
<1>2. IsFiniteSet(S \ {x})
  BY <1>1, FS_RemoveElement
<1>3. PICK g : SumsTo(g, f, SUBSET S) /\ SumOver(f, S) = g[S]
  BY SumDef
<1>4. PICK h : SumsTo(h, f, SUBSET (S \ {x})) /\ SumOver(f, S \ {x}) = h[S \ {x}]
  BY <1>2, SumDef
<1>5. g[S \ {x}] = h[S \ {x}]
  <2> DEFINE R == S \ {x}
  <2>1. R \subseteq S
    OBVIOUS
  <2>2. SumsTo(g, f, SUBSET S) /\ SumsTo(h, f, SUBSET R)
    BY <1>3, <1>4
  <2> HIDE DEF R
  <2>3. IsFiniteSet(S)
    OBVIOUS
  <2>4. g[R] = h[R]
    BY ONLY <2>1, <2>2, <2>3, SumsUnique
  <2> QED BY <2>4 DEF R
<1>6. g[S] = f[x] + g[S \ {x}]
  BY <1>3 DEF SumsTo
<1> QED BY <1>1, <1>3, <1>4, <1>5, <1>6

\* Any element may be taken as the first one.
LEMMA SumAny ==
  ASSUME NEW f, NEW S, IsFiniteSet(S), \A x \in S : f[x] \in Int
  PROVE  /\ SumOver(f, S) \in Int
         /\ \A x \in S : SumOver(f, S) = f[x] + SumOver(f, S \ {x})
<1> DEFINE Sound(R) == /\ SumOver(f, R) \in Int
                       /\ \A x \in R : SumOver(f, R) = f[x] + SumOver(f, R \ {x})
           T == {n \in Nat : \A R \in SUBSET S : Cardinality(R) <= n => Sound(R)}
<1>1. \A R \in SUBSET S : IsFiniteSet(R) /\ Cardinality(R) \in Nat
  BY FS_Subset, FS_CardinalityType
<1>2. Sound({})
  BY SumEmpty
<1>3. 0 \in T
  <2>1. \A R \in SUBSET S : Cardinality(R) <= 0 => R = {}
    BY <1>1, FS_EmptySet
  <2> HIDE DEF Sound
  <2> QED BY <1>2, <2>1
<1>4. ASSUME NEW n \in Nat, n \in T PROVE n + 1 \in T
  <2> SUFFICES ASSUME NEW R \in SUBSET S, Cardinality(R) <= n + 1, R # {}
               PROVE  Sound(R)
    <3> HIDE DEF Sound
    <3> QED BY <1>2
  <2>1. \A x \in R : Cardinality(R \ {x}) <= n /\ R \ {x} \in SUBSET S /\ f[x] \in Int
    <3> SUFFICES ASSUME NEW x \in R PROVE Cardinality(R \ {x}) <= n
      OBVIOUS
    <3>1. Cardinality(R \ {x}) = Cardinality(R) - 1 /\ Cardinality(R) \in Nat
      BY <1>1, FS_RemoveElement
    <3> QED BY <3>1
  <2>2. \A x \in R : Sound(R \ {x})
    <3> HIDE DEF Sound
    <3> QED BY <1>4, <2>1
  <2>3. PICK y \in R : SumOver(f, R) = f[y] + SumOver(f, R \ {y})
    BY <1>1, SumChosen
  <2>4. SumOver(f, R) \in Int
    BY <2>1, <2>2, <2>3
  <2>5. ASSUME NEW x \in R, x # y PROVE SumOver(f, R) = f[x] + SumOver(f, R \ {x})
    <3>1. x \in R \ {y} /\ y \in R \ {x}
      BY <2>5
    <3>2. SumOver(f, R \ {y}) = f[x] + SumOver(f, (R \ {y}) \ {x})
      BY <2>2, <3>1
    <3>3. SumOver(f, R \ {x}) = f[y] + SumOver(f, (R \ {x}) \ {y})
      BY <2>2, <3>1
    <3>4. (R \ {x}) \ {y} = (R \ {y}) \ {x}
      OBVIOUS
    <3>5. SumOver(f, (R \ {y}) \ {x}) \in Int
      <4>1. Cardinality((R \ {y}) \ {x}) <= n
        <5>1. IsFiniteSet(R \ {y}) /\ Cardinality(R \ {y}) \in Nat
          BY <1>1
        <5>2. Cardinality((R \ {y}) \ {x}) = Cardinality(R \ {y}) - 1
          BY <3>1, <5>1, FS_RemoveElement
        <5> QED BY <2>1, <5>1, <5>2
      <4>2. (R \ {y}) \ {x} \in SUBSET S
        OBVIOUS
      <4>3. Sound((R \ {y}) \ {x})
        <5> HIDE DEF Sound
        <5> QED BY <1>4, <4>1, <4>2
      <4> QED BY <4>3
    <3>6. f[x] \in Int /\ f[y] \in Int
      BY <2>1
    <3> DEFINE rest == SumOver(f, (R \ {y}) \ {x})
    <3>7. SumOver(f, R \ {y}) = f[x] + rest /\ SumOver(f, R \ {x}) = f[y] + rest
      BY <3>2, <3>3, <3>4
    <3>8. rest \in Int
      BY <3>5
    <3>9. SumOver(f, R) = f[y] + (f[x] + rest)
      BY <2>3, <3>7
    <3> HIDE DEF rest
    <3> QED BY <3>6, <3>7, <3>8, <3>9
  <2> QED BY <2>3, <2>4, <2>5
<1>5. Nat \subseteq T
  <2> HIDE DEF T
  <2> QED BY <1>3, <1>4, SetInduction
<1>6. Sound(S)
  <2>1. Cardinality(S) \in T
    BY <1>1, <1>5
  <2> HIDE DEF Sound
  <2> QED BY <1>1, <2>1
<1> QED BY <1>6

\* The sum depends only on the values.
LEMMA SumEqual ==
  ASSUME NEW f, NEW g, NEW S, IsFiniteSet(S), \A x \in S : f[x] = g[x]
  PROVE  SumOver(f, S) = SumOver(g, S)
<1> DEFINE T == {n \in Nat : \A R \in SUBSET S : Cardinality(R) <= n => SumOver(f, R) = SumOver(g, R)}
<1>1. \A R \in SUBSET S : IsFiniteSet(R) /\ Cardinality(R) \in Nat
  BY FS_Subset, FS_CardinalityType
<1>2. 0 \in T
  <2>1. \A R \in SUBSET S : Cardinality(R) <= 0 => R = {}
    BY <1>1, FS_EmptySet
  <2> QED BY <2>1, SumEmpty
<1>3. ASSUME NEW n \in Nat, n \in T PROVE n + 1 \in T
  <2>0. SumOver(f, {}) = SumOver(g, {})
    BY SumEmpty
  <2> SUFFICES ASSUME NEW R \in SUBSET S, Cardinality(R) <= n + 1
               PROVE  SumOver(f, R) = SumOver(g, R)
    OBVIOUS
  <2> SUFFICES ASSUME R # {} PROVE SumOver(f, R) = SumOver(g, R)
    BY <2>0
  <2> DEFINE y == CHOOSE y \in R : TRUE
  <2>1. y \in R
    OBVIOUS
  <2>2. IsFiniteSet(R) /\ Cardinality(R \ {y}) = Cardinality(R) - 1 /\ Cardinality(R) \in Nat
    BY <1>1, <2>1, FS_RemoveElement
  <2>3. SumOver(f, R) = f[y] + SumOver(f, R \ {y}) /\ SumOver(g, R) = g[y] + SumOver(g, R \ {y})
    BY <2>2, SumChosen
  <2>4. SumOver(f, R \ {y}) = SumOver(g, R \ {y})
    <3> HIDE DEF y
    <3> QED BY <1>3, <2>2
  <2> QED BY <2>1, <2>3, <2>4
<1>4. Nat \subseteq T
  <2> HIDE DEF T
  <2> QED BY <1>2, <1>3, SetInduction
<1> QED BY <1>1, <1>4

\* A sum of numbers that are bounded is bounded.
LEMMA SumBound ==
  ASSUME NEW f, NEW S, NEW b \in Nat, IsFiniteSet(S), \A x \in S : f[x] \in 0 .. b
  PROVE  SumOver(f, S) \in 0 .. b * Cardinality(S)
<1> DEFINE T == {n \in Nat : \A R \in SUBSET S : Cardinality(R) = n => SumOver(f, R) \in 0 .. b * n}
<1>1. \A R \in SUBSET S : IsFiniteSet(R) /\ Cardinality(R) \in Nat
  BY FS_Subset, FS_CardinalityType
<1>2. 0 \in T
  <2>1. \A R \in SUBSET S : Cardinality(R) = 0 => R = {}
    BY <1>1, FS_EmptySet
  <2>2. 0 \in 0 .. b * 0
    OBVIOUS
  <2>3. SumOver(f, {}) \in 0 .. b * 0
    BY <2>2, SumEmpty
  <2> QED BY <2>1, <2>3
<1>3. ASSUME NEW n \in Nat, n \in T PROVE n + 1 \in T
  <2> SUFFICES ASSUME NEW R \in SUBSET S, Cardinality(R) = n + 1
               PROVE  SumOver(f, R) \in 0 .. b * (n + 1)
    OBVIOUS
  <2>1. PICK y \in R : TRUE
    <3>1. R # {}
      BY FS_EmptySet
    <3> QED BY <3>1
  <2>2. IsFiniteSet(R) /\ Cardinality(R \ {y}) = Cardinality(R) - 1
    BY <1>1, <2>1, FS_RemoveElement
  <2>3. SumOver(f, R) = f[y] + SumOver(f, R \ {y})
    BY <2>2, SumAny
  <2>4. SumOver(f, R \ {y}) \in 0 .. b * n
    BY <1>3, <2>2
  <2>5. b * (n + 1) = b * n + b /\ b * n \in Nat
    OBVIOUS
  <2>6. f[y] \in 0 .. b
    OBVIOUS
  <2> QED BY <2>3, <2>4, <2>5, <2>6
<1>4. Nat \subseteq T
  <2> HIDE DEF T
  <2> QED BY <1>2, <1>3, SetInduction
<1> QED BY <1>1, <1>4

\* Of natural numbers the sum is one, and no less than any of them.
LEMMA SumNat ==
  ASSUME NEW f, NEW S, IsFiniteSet(S), \A x \in S : f[x] \in Nat
  PROVE  SumOver(f, S) \in Nat /\ \A x \in S : f[x] <= SumOver(f, S)
<1> DEFINE T == {n \in Nat : \A R \in SUBSET S : Cardinality(R) = n => SumOver(f, R) \in Nat}
<1>1. \A R \in SUBSET S : IsFiniteSet(R) /\ Cardinality(R) \in Nat
  BY FS_Subset, FS_CardinalityType
<1>2. 0 \in T
  <2>1. \A R \in SUBSET S : Cardinality(R) = 0 => R = {}
    BY <1>1, FS_EmptySet
  <2> QED BY <2>1, SumEmpty
<1>3. ASSUME NEW n \in Nat, n \in T PROVE n + 1 \in T
  <2> SUFFICES ASSUME NEW R \in SUBSET S, Cardinality(R) = n + 1 PROVE SumOver(f, R) \in Nat
    OBVIOUS
  <2>1. PICK y \in R : TRUE
    <3>1. R # {}
      BY FS_EmptySet
    <3> QED BY <3>1
  <2>2. IsFiniteSet(R) /\ Cardinality(R \ {y}) = Cardinality(R) - 1
    BY <1>1, <2>1, FS_RemoveElement
  <2>3. SumOver(f, R) = f[y] + SumOver(f, R \ {y})
    BY <2>2, SumAny
  <2>4. SumOver(f, R \ {y}) \in Nat
    BY <1>3, <2>2
  <2> QED BY <2>3, <2>4
<1>4. Nat \subseteq T
  <2> HIDE DEF T
  <2> QED BY <1>2, <1>3, SetInduction
<1>5. \A R \in SUBSET S : SumOver(f, R) \in Nat
  BY <1>1, <1>4
<1>6. ASSUME NEW x \in S PROVE f[x] <= SumOver(f, S)
  <2>1. SumOver(f, S) = f[x] + SumOver(f, S \ {x})
    BY SumAny
  <2>2. SumOver(f, S \ {x}) \in Nat
    BY <1>5
  <2> QED BY <2>1, <2>2
<1> QED BY <1>5, <1>6

\* The same values at places that are one further on.
LEMMA SumShift ==
  ASSUME NEW f, NEW g, NEW n \in Nat,
         \A i \in 0 .. n - 1 : f[i] \in Int /\ f[i] = g[i + 1]
  PROVE  SumOver(f, 0 .. n - 1) = SumOver(g, 1 .. n)
<1> DEFINE T == {k \in Nat : k <= n => SumOver(f, 0 .. k - 1) = SumOver(g, 1 .. k)}
<1>1. 0 \in T
  <2>1. 0 .. 0 - 1 = {} /\ 1 .. 0 = {}
    OBVIOUS
  <2> QED BY <2>1, SumEmpty
<1>2. ASSUME NEW k \in Nat, k \in T PROVE k + 1 \in T
  <2> SUFFICES ASSUME k + 1 <= n
               PROVE  SumOver(f, 0 .. (k + 1) - 1) = SumOver(g, 1 .. k + 1)
    OBVIOUS
  <2> DEFINE F == 0 .. (k + 1) - 1
             G == 1 .. k + 1
  <2>1. IsFiniteSet(F) /\ IsFiniteSet(G) /\ k \in F /\ k + 1 \in G
    BY FS_Interval
  <2>2. F \ {k} = 0 .. k - 1 /\ G \ {k + 1} = 1 .. k
    OBVIOUS
  <2>3. \A x \in F : f[x] \in Int
    OBVIOUS
  <2>4. \A x \in G : g[x] \in Int
    <3> SUFFICES ASSUME NEW x \in G PROVE g[x] \in Int
      OBVIOUS
    <3>1. x - 1 \in 0 .. n - 1 /\ (x - 1) + 1 = x
      OBVIOUS
    <3> QED BY <3>1
  <2> HIDE DEF F, G
  <2>5. SumOver(f, F) = f[k] + SumOver(f, F \ {k})
    <3>1. \A x \in F : SumOver(f, F) = f[x] + SumOver(f, F \ {x})
      BY <2>1, <2>3, SumAny
    <3> QED BY <2>1, <3>1
  <2>6. SumOver(g, G) = g[k + 1] + SumOver(g, G \ {k + 1})
    BY <2>1, <2>4, SumAny
  <2>7. f[k] = g[k + 1] /\ SumOver(f, 0 .. k - 1) = SumOver(g, 1 .. k)
    BY <1>2
  <2> QED BY <2>2, <2>5, <2>6, <2>7 DEF F, G
<1>3. Nat \subseteq T
  <2> HIDE DEF T
  <2> QED BY <1>1, <1>2, SetInduction
<1> QED BY <1>3

-----------------------------------------------------------------------------
(* Loops.  A loop goes from node to node as long as its condition holds;   *)
(* what it computes is a function of the node it starts from.              *)

IsLoop(w, N, next, goes) == w = [n \in N |-> IF n \in goes THEN w[next[n]] ELSE n]

\* The loop goes along this path of k steps.
IsPath(path, k, N, next, goes) ==
  /\ goes \in SUBSET N /\ k \in Nat /\ path[k] \in N \ goes
  /\ \A i \in 0 .. k - 1 : path[i] \in goes /\ next[path[i]] = path[i + 1]

\* From n the loop comes to m: n is in every set that has m and, with the
\* successor of a node, the node.
LoopsTo(N, next, goes, n, m) ==
  \A C \in SUBSET N :
    m \in C /\ (\A x \in goes : next[x] \in C => x \in C) => n \in C

\* There is such a function, for some node is reached or none.
LEMMA LoopExists ==
  ASSUME NEW N, NEW next, NEW goes \in SUBSET N, \A n \in goes : next[n] \in N
  PROVE  \E w : IsLoop(w, N, next, goes)
<1> DEFINE ends(n, m) == m \in N \ goes /\ LoopsTo(N, next, goes, n, m)
           w == [n \in N |-> CHOOSE m : ends(n, m)]
<1>1. ASSUME NEW n \in N \ goes PROVE ends(n, n)
  BY DEF LoopsTo
<1>2. ASSUME NEW n \in N \ goes, NEW m \in N, ends(n, m) PROVE m = n
  <2> SUFFICES ASSUME m # n PROVE FALSE
    OBVIOUS
  <2> DEFINE C == N \ {n}
  <2>1. C \in SUBSET N /\ m \in C /\ \A x \in goes : next[x] \in C => x \in C
    OBVIOUS
  <2>2. n \in C
    <3> HIDE DEF C
    <3> QED BY <1>2, <2>1 DEF LoopsTo
  <2> QED BY <2>2
<1>3. ASSUME NEW n \in goes, NEW m PROVE ends(n, m) <=> ends(next[n], m)
  <2>1. ASSUME ends(next[n], m) PROVE ends(n, m)
    BY <2>1 DEF LoopsTo
  <2>2. ASSUME ends(n, m) PROVE ends(next[n], m)
    <3> SUFFICES ASSUME NEW C \in SUBSET N, m \in C, \A x \in goes : next[x] \in C => x \in C,
                        next[n] \notin C
                 PROVE  FALSE
      BY <2>2 DEF LoopsTo
    <3> DEFINE E == C \ {n}
    <3>1. E \in SUBSET N /\ m \in E
      BY <2>2
    <3>2. \A x \in goes : next[x] \in E => x \in E
      OBVIOUS
    <3>3. n \in E
      <4> HIDE DEF E
      <4> QED BY <2>2, <3>1, <3>2 DEF LoopsTo
    <3> QED BY <3>3
  <2> QED BY <2>1, <2>2
<1>4. ASSUME NEW n \in N \ goes PROVE w[n] = n
  <2>1. \A m : ends(n, m) <=> m = n
    <3> HIDE DEF w
    <3> QED BY <1>1, <1>2
  <2>2. (CHOOSE m : ends(n, m)) = (CHOOSE m : m = n)
    <3> HIDE DEF ends
    <3> QED BY <2>1
  <2> HIDE DEF ends
  <2> QED BY <2>2
<1>5. ASSUME NEW n \in goes PROVE w[n] = w[next[n]]
  <2>1. (CHOOSE m : ends(n, m)) = (CHOOSE m : ends(next[n], m))
    <3> HIDE DEF ends
    <3> QED BY <1>3
  <2>2. n \in N /\ next[n] \in N
    OBVIOUS
  <2>3. w[n] = (CHOOSE m : ends(n, m))
    BY <2>2
  <2>4. w[next[n]] = (CHOOSE m : ends(next[n], m))
    BY <2>2
  <2> HIDE DEF ends, w
  <2> QED BY <2>1, <2>3, <2>4
<1>6. w = [n \in N |-> IF n \in goes THEN w[next[n]] ELSE n]
  <2>1. w = [n \in N |-> w[n]]
    OBVIOUS
  <2> HIDE DEF w
  <2> QED BY <1>4, <1>5, <2>1
<1> HIDE DEF w
<1> QED BY <1>6 DEF IsLoop

\* Along a path on which the condition holds, to its end.
LEMMA LoopAlong ==
  ASSUME NEW N, NEW next, NEW goes, NEW w, IsLoop(w, N, next, goes),
         NEW k, NEW path, IsPath(path, k, N, next, goes)
  PROVE  w[path[0]] = path[k]
<1> DEFINE T == {j \in Nat : j <= k => w[path[k - j]] = path[k]}
<1>0. /\ \A n \in goes : w[n] = w[next[n]]
      /\ \A n \in N \ goes : w[n] = n
      /\ k \in Nat /\ path[k] \in N \ goes
      /\ \A i \in 0 .. k - 1 : path[i] \in goes /\ next[path[i]] = path[i + 1]
  BY DEF IsLoop, IsPath
<1>1. 0 \in T
  <2>1. k - 0 = k
    BY <1>0
  <2> QED BY <1>0, <2>1
<1>2. ASSUME NEW j \in Nat, j \in T PROVE j + 1 \in T
  <2> SUFFICES ASSUME j + 1 <= k PROVE w[path[k - (j + 1)]] = path[k]
    OBVIOUS
  <2> DEFINE i == k - (j + 1)
  <2>1. i \in 0 .. k - 1 /\ i + 1 = k - j
    BY <1>0
  <2>2. path[i] \in goes /\ next[path[i]] = path[k - j]
    <3> HIDE DEF i
    <3> QED BY <1>0, <2>1
  <2>3. w[path[k - j]] = path[k]
    BY <1>0, <1>2
  <2> HIDE DEF i
  <2>4. w[path[i]] = path[k]
    BY <1>0, <2>2, <2>3
  <2> QED BY <2>4 DEF i
<1>3. Nat \subseteq T
  <2> HIDE DEF T
  <2> QED BY <1>1, <1>2, SetInduction
<1> QED BY <1>0, <1>3

\* The loop goes up along numbers that are at most top, and never leaves P.
Climbs(P, top, N, next, goes) ==
  /\ N \in SUBSET Int /\ goes \in SUBSET N /\ P \in SUBSET N
  /\ top \in Int /\ \A n \in N : n <= top
  /\ \A n \in P \cap goes : next[n] \in P /\ next[n] > n

\* Such a loop comes to an end in P.
LEMMA LoopEnds ==
  ASSUME NEW N, NEW next, NEW goes, NEW w, IsLoop(w, N, next, goes),
         NEW top, NEW P, Climbs(P, top, N, next, goes), NEW start \in P
  PROVE  w[start] \in P \ goes
<1> DEFINE Ends(d) == \A n \in P : n >= top - d => w[n] \in P \ goes
           T == {d \in Nat : Ends(d)}
<1>0. /\ \A n \in goes : w[n] = w[next[n]]
      /\ \A n \in N \ goes : w[n] = n
      /\ N \subseteq Int /\ goes \subseteq N /\ P \subseteq N /\ top \in Int /\ \A n \in N : n <= top
      /\ \A n \in P \cap goes : next[n] \in P /\ next[n] > n
  BY DEF IsLoop, Climbs
<1>1. ASSUME NEW n \in P, n >= top PROVE n \notin goes
  <2>1. CASE n \in goes
    <3>1. next[n] \in P /\ next[n] > n /\ next[n] \in N
      BY <1>0, <2>1
    <3>2. next[n] <= top /\ n \in Int /\ next[n] \in Int
      BY <1>0, <3>1
    <3> QED BY <1>0, <1>1, <3>1, <3>2
  <2> QED BY <2>1
<1>2. Ends(0)
  <2> SUFFICES ASSUME NEW n \in P, n >= top - 0 PROVE w[n] \in P \ goes
    OBVIOUS
  <2>1. n >= top /\ n \in N
    BY <1>0
  <2>2. n \notin goes
    BY <1>1, <2>1
  <2> QED BY <1>0, <2>1, <2>2
<1>3. ASSUME NEW d \in Nat, Ends(d) PROVE Ends(d + 1)
  <2> SUFFICES ASSUME NEW n \in P, n >= top - (d + 1) PROVE w[n] \in P \ goes
    OBVIOUS
  <2>1. CASE n \in goes
    <3>1. next[n] \in P /\ next[n] > n /\ next[n] \in Int /\ n \in Int
      BY <1>0, <2>1
    <3>2. next[n] >= top - d
      BY <1>0, <3>1
    <3>3. w[next[n]] \in P \ goes
      BY <1>3, <3>1, <3>2
    <3> QED BY <1>0, <2>1, <3>3
  <2>2. CASE n \notin goes
    BY <1>0, <2>2
  <2> QED BY <2>1, <2>2
<1>4. Nat \subseteq T
  <2>1. 0 \in T
    BY <1>2
  <2>2. ASSUME NEW d \in Nat, d \in T PROVE d + 1 \in T
    <3>1. Ends(d)
      BY <2>2
    <3>2. Ends(d + 1)
      BY <1>3, <3>1
    <3> HIDE DEF Ends
    <3> QED BY <3>2
  <2> HIDE DEF T
  <2> QED BY <2>1, <2>2, SetInduction
<1>5. start \in Int /\ top \in Int /\ start <= top
  BY <1>0
<1>6. top - start \in Nat /\ start >= top - (top - start)
  BY <1>5
<1>7. Ends(top - start)
  <2> HIDE DEF Ends
  <2> QED BY <1>4, <1>6
<1> QED BY <1>6, <1>7
=============================================================================
