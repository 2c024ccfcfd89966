------------------------ MODULE PriorityQueueProofs ------------------------
(***************************************************************************)
(* The heap of PriorityQueue for any items: each of its loops, round by    *)
(* round, keeps the items, their indices and the order of the heap but for *)
(* the place that it has come to; so spokes and hub pop what is due first, *)
(* remove what they were asked to, and see a set of items.                 *)
(***************************************************************************)
EXTENDS PriorityQueue, SumTheorems, TLAPS

\* An array of n items without doubles, which know their places
Sound(q, n) ==
  /\ q = [at |-> q.at, index |-> q.index]
  /\ q.at \in [0 .. n - 1 -> Items]
  /\ q.index \in [Items -> Int]
  /\ \A i \in 0 .. n - 1 : q.index[q.at[i]] = i
  /\ \A x \in Items \ Range(q.at) : q.index[x] \in {-1, 0}

Key(q, i) == PriorityOf[q.at[i]]

Ordered(q, c) == Key(q, Parent(c)) <= Key(q, c)

\* The first n places are in heap order
Heap(q, n) == \A c \in 1 .. n - 1 : Ordered(q, c)

-----------------------------------------------------------------------------
(* Numbers and loops.                                                      *)

LEMMA EveryNatural ==
  ASSUME NEW S, 0 \in S, \A n \in Nat : n \in S => n + 1 \in S
  PROVE  \A n \in Nat : n \in S
  <1> DEFINE others == Nat \ S
  <1> SUFFICES ASSUME others # {} PROVE FALSE
    OBVIOUS
  <1>1. PICK m \in others : \A x \in others : m <= x
    <2>1. others \in SUBSET Nat
      OBVIOUS
    <2> HIDE DEF others
    <2> QED
      BY <2>1, LeastNatural
  <1>2. m # 0 /\ m - 1 \in Nat /\ m - 1 \notin others
    BY <1>1
  <1>3. (m - 1) + 1 \in S
    BY <1>2
  <1> QED
    BY <1>1, <1>3

LEMMA Parents ==
  /\ Parent(0) = 0
  /\ \A i \in Nat \ {0} :
       Parent(i) \in Nat /\ Parent(i) < i /\ (i = 2 * Parent(i) + 1 \/ i = 2 * Parent(i) + 2)
  BY DEF Parent

\* What a loop of heap.up goes through
LEMMA UpRounds ==
  ASSUME NEW q, NEW j \in Nat
  PROVE  \E r : /\ r[0] = [q |-> q, i |-> j]
                /\ \A k \in 0 .. j - 1 : r[k + 1] = UpRound(r[k])
                /\ Up(q, j) = r[j].q
  <1> DEFINE s == [q |-> q, i |-> j]
             F(r, n) == [k \in 0 .. n |-> IF k = 0 THEN s ELSE UpRound(r[k - 1])]
             good == {n \in Nat : \E r : r = F(r, n)}
             after == CHOOSE r : r = F(r, j)
  <1>1. 0 \in good
    <2> DEFINE r == [k \in 0 .. 0 |-> s]
    <2>1. r = F(r, 0)
      OBVIOUS
    <2> QED
      BY <2>1
  <1>2. ASSUME NEW n \in Nat, n \in good PROVE n + 1 \in good
    <2>1. PICK r : r = F(r, n)
      BY <1>2
    <2> DEFINE t == [k \in 0 .. n + 1 |-> IF k = n + 1 THEN UpRound(r[n]) ELSE r[k]]
    <2>2. ASSUME NEW k \in 0 .. n + 1 PROVE t[k] = F(t, n + 1)[k]
      <3>1. CASE k = n + 1
        BY <3>1
      <3>2. CASE k \in 0 .. n
        <4>1. r[k] = IF k = 0 THEN s ELSE UpRound(r[k - 1])
          BY <2>1, <3>2
        <4> QED
          BY <3>2, <4>1
      <3> QED
        BY <3>1, <3>2
    <2>3. t = F(t, n + 1)
      BY <2>2
    <2> HIDE DEF t, F
    <2> QED
      BY <2>3
  <1>3. j \in good
    <2>1. \A n \in Nat : n \in good => n + 1 \in good
      BY <1>2
    <2> HIDE DEF good
    <2> QED
      BY <1>1, <2>1, EveryNatural
  <1>4. after = F(after, j)
    <2> HIDE DEF F
    <2> QED
      BY <1>3
  <1>5. Up(q, j) = after[j].q
    BY DEF Up
  <1>6. \A k \in 0 .. j : after[k] = IF k = 0 THEN s ELSE UpRound(after[k - 1])
    <2> HIDE DEF after
    <2> QED
      BY <1>4
  <1> HIDE DEF after, F
  <1>7. ASSUME NEW k \in 0 .. j - 1 PROVE after[k + 1] = UpRound(after[k])
    <2>1. k + 1 \in 0 .. j /\ k + 1 # 0 /\ (k + 1) - 1 = k
      OBVIOUS
    <2> QED
      BY <1>6, <2>1
  <1> QED
    BY <1>5, <1>6, <1>7
\* The same of heap.down
LEMMA DownRounds ==
  ASSUME NEW q, NEW i \in Nat, NEW n \in Nat
  PROVE  \E r : /\ r[0] = [q |-> q, i |-> i]
                /\ \A k \in 0 .. n - 1 : r[k + 1] = DownRound(r[k], n)
                /\ Down(q, i, n) = r[n].q
  <1> DEFINE s == [q |-> q, i |-> i]
             F(r, m) == [k \in 0 .. m |-> IF k = 0 THEN s ELSE DownRound(r[k - 1], n)]
             good == {m \in Nat : \E r : r = F(r, m)}
             after == CHOOSE r : r = F(r, n)
  <1>1. 0 \in good
    <2> DEFINE r == [k \in 0 .. 0 |-> s]
    <2>1. r = F(r, 0)
      OBVIOUS
    <2> QED
      BY <2>1
  <1>2. ASSUME NEW m \in Nat, m \in good PROVE m + 1 \in good
    <2>1. PICK r : r = F(r, m)
      BY <1>2
    <2> DEFINE t == [k \in 0 .. m + 1 |-> IF k = m + 1 THEN DownRound(r[m], n) ELSE r[k]]
    <2>2. ASSUME NEW k \in 0 .. m + 1 PROVE t[k] = F(t, m + 1)[k]
      <3>1. CASE k = m + 1
        BY <3>1
      <3>2. CASE k \in 0 .. m
        <4>1. r[k] = IF k = 0 THEN s ELSE DownRound(r[k - 1], n)
          BY <2>1, <3>2
        <4> QED
          BY <3>2, <4>1
      <3> QED
        BY <3>1, <3>2
    <2>3. t = F(t, m + 1)
      BY <2>2
    <2> HIDE DEF t, F
    <2> QED
      BY <2>3
  <1>3. n \in good
    <2>1. \A m \in Nat : m \in good => m + 1 \in good
      BY <1>2
    <2> HIDE DEF good
    <2> QED
      BY <1>1, <2>1, EveryNatural
  <1>4. after = F(after, n)
    <2> HIDE DEF F
    <2> QED
      BY <1>3
  <1>5. Down(q, i, n) = after[n].q
    BY DEF Down
  <1>6. \A k \in 0 .. n : after[k] = IF k = 0 THEN s ELSE DownRound(after[k - 1], n)
    <2> HIDE DEF after
    <2> QED
      BY <1>4
  <1> HIDE DEF after, F
  <1>7. ASSUME NEW k \in 0 .. n - 1 PROVE after[k + 1] = DownRound(after[k], n)
    <2>1. k + 1 \in 0 .. n /\ k + 1 # 0 /\ (k + 1) - 1 = k
      OBVIOUS
    <2> QED
      BY <1>6, <2>1
  <1> QED
    BY <1>5, <1>6, <1>7

\* The same of heap.Init
LEMMA FixRounds ==
  ASSUME NEW q, NEW n \in Nat
  PROVE  \E r : /\ r[0] = [q |-> q, i |-> n - 1]
                /\ \A k \in 0 .. n - 1 : r[k + 1] = FixRound(r[k])
                /\ Heapified(q, n - 1) = r[n].q
  <1> DEFINE s == [q |-> q, i |-> n - 1]
             F(r, m) == [k \in 0 .. m |-> IF k = 0 THEN s ELSE FixRound(r[k - 1])]
             good == {m \in Nat : \E r : r = F(r, m)}
             after == CHOOSE r : r = F(r, n)
  <1>1. 0 \in good
    <2> DEFINE r == [k \in 0 .. 0 |-> s]
    <2>1. r = F(r, 0)
      OBVIOUS
    <2> QED
      BY <2>1
  <1>2. ASSUME NEW m \in Nat, m \in good PROVE m + 1 \in good
    <2>1. PICK r : r = F(r, m)
      BY <1>2
    <2> DEFINE t == [k \in 0 .. m + 1 |-> IF k = m + 1 THEN FixRound(r[m]) ELSE r[k]]
    <2>2. ASSUME NEW k \in 0 .. m + 1 PROVE t[k] = F(t, m + 1)[k]
      <3>1. CASE k = m + 1
        BY <3>1
      <3>2. CASE k \in 0 .. m
        <4>1. r[k] = IF k = 0 THEN s ELSE FixRound(r[k - 1])
          BY <2>1, <3>2
        <4> QED
          BY <3>2, <4>1
      <3> QED
        BY <3>1, <3>2
    <2>3. t = F(t, m + 1)
      BY <2>2
    <2> HIDE DEF t, F
    <2> QED
      BY <2>3
  <1>3. n \in good
    <2>1. \A m \in Nat : m \in good => m + 1 \in good
      BY <1>2
    <2> HIDE DEF good
    <2> QED
      BY <1>1, <2>1, EveryNatural
  <1>4. after = F(after, n)
    <2> HIDE DEF F
    <2> QED
      BY <1>3
  <1>5. Heapified(q, n - 1) = after[n].q
    BY DEF Heapified
  <1>6. \A k \in 0 .. n : after[k] = IF k = 0 THEN s ELSE FixRound(after[k - 1])
    <2> HIDE DEF after
    <2> QED
      BY <1>4
  <1> HIDE DEF after, F
  <1>7. ASSUME NEW k \in 0 .. n - 1 PROVE after[k + 1] = FixRound(after[k])
    <2>1. k + 1 \in 0 .. n /\ k + 1 # 0 /\ (k + 1) - 1 = k
      OBVIOUS
    <2> QED
      BY <1>6, <2>1
  <1> QED
    BY <1>5, <1>6, <1>7

-----------------------------------------------------------------------------
(* The three methods that write.                                           *)

\* No item is in the array twice, so it is no longer than there are items
LEMMA Lengths ==
  ASSUME NEW n \in Nat, NEW q, Sound(q, n)
  PROVE  /\ Size(q) = n /\ DOMAIN q.at = 0 .. n - 1
         /\ Cardinality(Items) \in Nat /\ n <= Cardinality(Items)
  <1>1. DOMAIN q.at = 0 .. n - 1
    BY DEF Sound
  <1>2. IsFiniteSet(0 .. n - 1) /\ Cardinality(0 .. n - 1) = n
    BY FS_Interval
  <1>3. q.at \in Injection(0 .. n - 1, Items)
    BY DEF Sound, Injection, IsInjective
  <1>4. n <= Cardinality(Items)
    BY <1>2, <1>3, ItemsAssumption, FS_Injection
  <1> QED
    BY <1>1, <1>2, <1>4, ItemsAssumption, FS_CardinalityType DEF Size

LEMMA Held ==
  ASSUME NEW n \in Nat, NEW q, Sound(q, n)
  PROVE  /\ Range(q.at) = {q.at[i] : i \in 0 .. n - 1}
         /\ \A i \in 0 .. n - 1 : q.at[i] \in Items
         /\ \A i, j \in 0 .. n - 1 : q.at[i] = q.at[j] => i = j
  BY DEF Sound, Range

LEMMA Keys ==
  ASSUME NEW n \in Nat, NEW q, Sound(q, n)
  PROVE  \A i \in 0 .. n - 1 : Key(q, i) \in Nat
  BY ItemsAssumption DEF Sound, Key

\* What a swap does to the array, and that it leaves its items and their indices sound
LEMMA Swapped ==
  ASSUME NEW n \in Nat, NEW q, Sound(q, n), NEW i \in 0 .. n - 1, NEW j \in 0 .. n - 1
  PROVE  LET t == Swap(q, i, j)
         IN  /\ Sound(t, n) /\ Range(t.at) = Range(q.at)
             /\ t.at[i] = q.at[j] /\ t.at[j] = q.at[i]
             /\ \A k \in 0 .. n - 1 : k # i /\ k # j => t.at[k] = q.at[k]
  <1> DEFINE t == Swap(q, i, j)
  <1>1. /\ t.at = [q.at EXCEPT ![i] = q.at[j], ![j] = q.at[i]]
        /\ t.index = [q.index EXCEPT ![q.at[j]] = i, ![q.at[i]] = j]
        /\ t = [at |-> t.at, index |-> t.index]
    BY DEF Swap
  <1>2. /\ q.at \in [0 .. n - 1 -> Items] /\ q.index \in [Items -> Int]
        /\ \A k \in 0 .. n - 1 : q.index[q.at[k]] = k
        /\ \A x \in Items \ Range(q.at) : q.index[x] \in {-1, 0}
    BY DEF Sound
  <1> HIDE DEF t
  <1>3. /\ t.at \in [0 .. n - 1 -> Items] /\ t.index \in [Items -> Int]
        /\ t.at[i] = q.at[j] /\ t.at[j] = q.at[i]
        /\ \A k \in 0 .. n - 1 : k # i /\ k # j => t.at[k] = q.at[k]
        /\ t.index[q.at[j]] = i /\ t.index[q.at[i]] = j
        /\ \A x \in Items : x # q.at[i] /\ x # q.at[j] => t.index[x] = q.index[x]
    <2>1. /\ t.at \in [0 .. n - 1 -> Items]
          /\ t.at[i] = q.at[j] /\ t.at[j] = q.at[i]
          /\ \A k \in 0 .. n - 1 : k # i /\ k # j => t.at[k] = q.at[k]
      <3> DEFINE a == q.at
                 places == 0 .. n - 1
      <3>1. a \in [places -> Items] /\ i \in places /\ j \in places
        BY <1>2
      <3>2. t.at = [a EXCEPT ![i] = a[j], ![j] = a[i]]
        BY <1>1
      <3> HIDE DEF a, places
      <3>3. /\ t.at \in [places -> Items] /\ t.at[i] = a[j] /\ t.at[j] = a[i]
            /\ \A k \in places : k # i /\ k # j => t.at[k] = a[k]
        BY <3>1, <3>2
      <3> QED
        BY <3>3 DEF a, places
    <2>2. q.at[i] \in Items /\ q.at[j] \in Items /\ i \in Int /\ j \in Int
      BY <1>2
    <2>3. q.at[i] = q.at[j] => i = j
      BY <1>2
    <2>4. t.index \in [Items -> Int]
      BY <1>1, <1>2, <2>2
    <2>5. t.index[q.at[i]] = j
      BY <1>1, <1>2, <2>2
    <2>6. t.index[q.at[j]] = i
      BY <1>1, <1>2, <2>2, <2>3
    <2>7. ASSUME NEW x \in Items, x # q.at[i], x # q.at[j] PROVE t.index[x] = q.index[x]
      BY <1>1, <1>2, <2>7
    <2> QED
      BY <2>1, <2>4, <2>5, <2>6, <2>7
  <1>4. Range(t.at) = Range(q.at)
    <2>1. ASSUME NEW k \in 0 .. n - 1 PROVE \E m \in 0 .. n - 1 : t.at[k] = q.at[m]
      BY <1>3
    <2>2. ASSUME NEW k \in 0 .. n - 1 PROVE \E m \in 0 .. n - 1 : q.at[k] = t.at[m]
      BY <1>3
    <2>3. DOMAIN t.at = 0 .. n - 1 /\ DOMAIN q.at = 0 .. n - 1
      BY <1>2, <1>3
    <2>4. Range(t.at) = {t.at[k] : k \in 0 .. n - 1} /\ Range(q.at) = {q.at[k] : k \in 0 .. n - 1}
      BY <2>3 DEF Range
    <2> QED
      BY <2>1, <2>2, <2>4
  <1>5. ASSUME NEW k \in 0 .. n - 1 PROVE t.index[t.at[k]] = k
    <2>1. CASE k = i \/ k = j
      BY <1>3, <2>1
    <2>2. CASE k # i /\ k # j
      <3>1. t.at[k] = q.at[k] /\ q.at[k] # q.at[i] /\ q.at[k] # q.at[j] /\ q.at[k] \in Items
        BY <1>2, <1>3, <2>2
      <3> QED
        BY <1>2, <1>3, <3>1
    <2> QED
      BY <2>1, <2>2
  <1>6. ASSUME NEW x \in Items \ Range(t.at) PROVE t.index[x] \in {-1, 0}
    <2>1. x \notin Range(q.at) /\ q.at[i] \in Range(q.at) /\ q.at[j] \in Range(q.at)
      BY <1>2, <1>4 DEF Range
    <2> QED
      BY <1>2, <1>3, <2>1
  <1> QED
    BY <1>1, <1>3, <1>4, <1>5, <1>6 DEF Sound, t

LEMMA Appended ==
  ASSUME NEW n \in Nat, NEW q, Sound(q, n), NEW x \in Items \ Range(q.at)
  PROVE  LET t == Append(q, x)
         IN  /\ Sound(t, n + 1) /\ Range(t.at) = Range(q.at) \cup {x}
             /\ t.at[n] = x /\ \A k \in 0 .. n - 1 : t.at[k] = q.at[k]
  <1> DEFINE t == Append(q, x)
  <1>1. /\ t.at = [i \in 0 .. n |-> IF i = n THEN x ELSE q.at[i]]
        /\ t.index = [q.index EXCEPT ![x] = n]
        /\ t = [at |-> t.at, index |-> t.index]
    BY Lengths DEF Append
  <1>2. /\ q.at \in [0 .. n - 1 -> Items] /\ q.index \in [Items -> Int]
        /\ \A k \in 0 .. n - 1 : q.index[q.at[k]] = k /\ q.at[k] \in Range(q.at)
        /\ \A y \in Items \ Range(q.at) : q.index[y] \in {-1, 0}
    BY DEF Sound, Range
  <1> HIDE DEF t
  <1>3. /\ t.at \in [0 .. n -> Items] /\ t.index \in [Items -> Int]
        /\ t.at[n] = x /\ \A k \in 0 .. n - 1 : t.at[k] = q.at[k]
        /\ t.index[x] = n /\ \A y \in Items : y # x => t.index[y] = q.index[y]
    BY <1>1, <1>2
  <1>4. Range(t.at) = Range(q.at) \cup {x}
    <2>1. DOMAIN t.at = 0 .. n /\ DOMAIN q.at = 0 .. n - 1
      BY <1>2, <1>3
    <2>2. ASSUME NEW k \in 0 .. n PROVE t.at[k] \in Range(q.at) \cup {x}
      BY <1>2, <1>3
    <2>3. x \in Range(t.at)
      BY <1>3, <2>1 DEF Range
    <2>4. ASSUME NEW k \in 0 .. n - 1 PROVE q.at[k] \in Range(t.at)
      BY <1>3, <2>1 DEF Range
    <2> QED
      BY <2>1, <2>2, <2>3, <2>4 DEF Range
  <1>5. ASSUME NEW k \in 0 .. n PROVE t.index[t.at[k]] = k
    <2>1. CASE k = n
      BY <1>3, <2>1
    <2>2. CASE k \in 0 .. n - 1
      <3>1. t.at[k] = q.at[k] /\ q.at[k] # x /\ q.at[k] \in Items
        BY <1>2, <1>3, <2>2
      <3> QED
        BY <1>2, <1>3, <2>2, <3>1
    <2> QED
      BY <2>1, <2>2
  <1>6. \A y \in Items \ Range(t.at) : t.index[y] \in {-1, 0}
    BY <1>2, <1>3, <1>4
  <1>7. (n + 1) - 1 = n
    OBVIOUS
  <1> QED
    BY <1>1, <1>3, <1>4, <1>5, <1>6, <1>7 DEF Sound, t

LEMMA LastCut ==
  ASSUME NEW n \in Nat, NEW q, Sound(q, n + 1)
  PROVE  LET t == CutLast(q)
         IN  /\ Sound(t, n) /\ Range(t.at) = Range(q.at) \ {q.at[n]}
             /\ \A k \in 0 .. n - 1 : t.at[k] = q.at[k]
  <1> DEFINE t == CutLast(q)
  <1>1. /\ t.at = [k \in 0 .. n - 1 |-> q.at[k]]
        /\ t.index = [q.index EXCEPT ![q.at[n]] = -1]
        /\ t = [at |-> t.at, index |-> t.index]
    <2>0. n + 1 \in Nat
      OBVIOUS
    <2>1. Size(q) = n + 1
      BY <2>0, Lengths
    <2>2. Size(q) - 2 = n - 1 /\ Size(q) - 1 = n
      BY <2>1
    <2> QED
      BY <2>2 DEF CutLast, Restrict
  <1>2. /\ q.at \in [0 .. n -> Items] /\ q.index \in [Items -> Int]
        /\ \A k \in 0 .. n : q.index[q.at[k]] = k /\ q.at[k] \in Range(q.at)
        /\ \A y \in Items \ Range(q.at) : q.index[y] \in {-1, 0}
    BY DEF Sound, Range
  <1> HIDE DEF t
  <1>3. /\ t.at \in [0 .. n - 1 -> Items] /\ t.index \in [Items -> Int]
        /\ \A k \in 0 .. n - 1 : t.at[k] = q.at[k]
        /\ t.index[q.at[n]] = -1 /\ \A y \in Items : y # q.at[n] => t.index[y] = q.index[y]
    BY <1>1, <1>2
  <1>n. ASSUME NEW k \in 0 .. n - 1
        PROVE  t.at[k] = q.at[k] /\ k \in 0 .. n /\ q.at[k] \in Items /\ q.at[k] # q.at[n]
    <2>1. k \in 0 .. n /\ n \in 0 .. n /\ k # n
      OBVIOUS
    <2>2. q.index[q.at[k]] = k /\ q.index[q.at[n]] = n
      BY <1>2, <2>1
    <2> QED
      BY <1>2, <1>3, <2>1, <2>2
  <1>4. Range(t.at) = Range(q.at) \ {q.at[n]}
    <2>1. DOMAIN t.at = 0 .. n - 1 /\ DOMAIN q.at = 0 .. n
      BY <1>2, <1>3
    <2>2. ASSUME NEW k \in 0 .. n - 1 PROVE t.at[k] \in Range(q.at) \ {q.at[n]}
      BY <1>2, <1>n
    <2>3. ASSUME NEW k \in 0 .. n, q.at[k] # q.at[n] PROVE q.at[k] \in Range(t.at)
      <3>1. k \in 0 .. n - 1
        BY <2>3
      <3> QED
        BY <1>3, <2>1, <3>1 DEF Range
    <2> QED
      BY <2>1, <2>2, <2>3 DEF Range
  <1>5. ASSUME NEW k \in 0 .. n - 1 PROVE t.index[t.at[k]] = k
    <2>1. t.at[k] = q.at[k] /\ k \in 0 .. n /\ q.at[k] \in Items /\ q.at[k] # q.at[n]
      BY <1>n
    <2>2. t.index[q.at[k]] = q.index[q.at[k]] /\ q.index[q.at[k]] = k
      BY <1>2, <1>3, <2>1
    <2> QED
      BY <2>1, <2>2
  <1>6. \A y \in Items \ Range(t.at) : t.index[y] \in {-1, 0}
    BY <1>2, <1>3, <1>4
  <1> QED
    BY <1>1, <1>3, <1>4, <1>5, <1>6 DEF Sound, t

LEMMA SwappedKeys ==
  ASSUME NEW n \in Nat, NEW q, Sound(q, n), NEW i \in 0 .. n - 1, NEW j \in 0 .. n - 1
  PROVE  LET t == Swap(q, i, j)
         IN  /\ Key(t, i) = Key(q, j) /\ Key(t, j) = Key(q, i)
             /\ \A k \in 0 .. n - 1 : k # i /\ k # j => Key(t, k) = Key(q, k)
  <1> DEFINE t == Swap(q, i, j)
  <1>1. /\ t.at[i] = q.at[j] /\ t.at[j] = q.at[i]
        /\ \A k \in 0 .. n - 1 : k # i /\ k # j => t.at[k] = q.at[k]
    BY Swapped
  <1> HIDE DEF t
  <1>2. /\ Key(t, i) = Key(q, j) /\ Key(t, j) = Key(q, i)
        /\ \A k \in 0 .. n - 1 : k # i /\ k # j => Key(t, k) = Key(q, k)
    BY <1>1 DEF Key
  <1> QED
    BY <1>2 DEF t

-----------------------------------------------------------------------------
(* The loop of heap.up.                                                    *)

\* Only the item at place j may come before its parent, and not its children
Rising(q, n, j) ==
  /\ \A c \in 1 .. n - 1 : c # j => Ordered(q, c)
  /\ \A c \in 1 .. n - 1 : Parent(c) = j => Key(q, Parent(j)) <= Key(q, c)

\* The same array from place n on, and the same items
Kept(q, t, n, m) ==
  /\ Sound(t, m) /\ Range(t.at) = Range(q.at)
  /\ \A k \in n .. m - 1 : t.at[k] = q.at[k]

LEMMA KeptOnce ==
  ASSUME NEW m \in Nat, NEW n \in 0 .. m, NEW q, NEW t, Kept(q, t, n, m),
         NEW i \in 0 .. n - 1, NEW j \in 0 .. n - 1
  PROVE  Kept(q, Swap(t, i, j), n, m)
  <1>1. /\ i \in 0 .. m - 1 /\ j \in 0 .. m - 1
        /\ \A k \in n .. m - 1 : k \in 0 .. m - 1 /\ k # i /\ k # j
    OBVIOUS
  <1> DEFINE u == Swap(t, i, j)
  <1>2. /\ Sound(u, m) /\ Range(u.at) = Range(t.at)
        /\ \A k \in 0 .. m - 1 : k # i /\ k # j => u.at[k] = t.at[k]
    <2>1. Sound(t, m) /\ i \in 0 .. m - 1 /\ j \in 0 .. m - 1
      BY <1>1 DEF Kept
    <2>2. /\ Sound(Swap(t, i, j), m) /\ Range(Swap(t, i, j).at) = Range(t.at)
          /\ \A k \in 0 .. m - 1 : k # i /\ k # j => Swap(t, i, j).at[k] = t.at[k]
      BY <2>1, Swapped
    <2> QED
      BY <2>2
  <1> HIDE DEF u
  <1>3. Kept(q, u, n, m)
    BY <1>1, <1>2 DEF Kept
  <1> QED
    BY <1>3 DEF u

LEMMA UpOnce ==
  ASSUME NEW m \in Nat, NEW n \in 0 .. m, NEW q, Sound(q, m),
         NEW i \in 1 .. n - 1, Rising(q, n, i), ~Ordered(q, i)
  PROVE  Rising(Swap(q, Parent(i), i), n, Parent(i))
  <1> DEFINE p == Parent(i)
             t == Swap(q, p, i)
  <1>1. p \in 0 .. n - 1 /\ p < i /\ i \in 0 .. n - 1 /\ p \in 0 .. m - 1 /\ i \in 0 .. m - 1
    BY Parents
  <1>2. /\ Key(t, p) = Key(q, i) /\ Key(t, i) = Key(q, p)
        /\ \A k \in 0 .. n - 1 : k # p /\ k # i => Key(t, k) = Key(q, k)
    BY <1>1, SwappedKeys
  <1>3. \A k \in 0 .. n - 1 : Key(q, k) \in Nat
    BY Keys
  <1>4. \A c \in 1 .. n - 1 : Parent(c) \in 0 .. n - 1 /\ Parent(c) < c /\ c \in 0 .. n - 1
    BY Parents
  <1>5. Key(q, i) < Key(q, p)
    BY <1>1, <1>3 DEF Ordered
  <1>6. \A c \in 1 .. n - 1 : c # i => Key(q, Parent(c)) <= Key(q, c)
    BY DEF Rising, Ordered
  <1>7. \A c \in 1 .. n - 1 : Parent(c) = i => Key(q, p) <= Key(q, c)
    BY DEF Rising
  <1> HIDE DEF t
  <1>8. ASSUME NEW c \in 1 .. n - 1, c # p PROVE Key(t, Parent(c)) <= Key(t, c)
    <2>1. CASE c = i
      BY <1>1, <1>2, <1>3, <1>5, <2>1
    <2>2. CASE c # i /\ Parent(c) = i
      BY <1>2, <1>3, <1>4, <1>7, <1>8, <2>2
    <2>3. CASE c # i /\ Parent(c) = p
      <3>1. Key(t, Parent(c)) = Key(q, i) /\ Key(t, c) = Key(q, c) /\ Key(q, p) <= Key(q, c)
        BY <1>2, <1>4, <1>6, <1>8, <2>3
      <3>2. Key(q, i) \in Nat /\ Key(q, p) \in Nat /\ Key(q, c) \in Nat
        BY <1>1, <1>3, <1>4
      <3> QED
        BY <1>5, <3>1, <3>2
    <2>4. CASE c # i /\ Parent(c) # i /\ Parent(c) # p
      BY <1>2, <1>4, <1>6, <1>8, <2>4
    <2> QED
      BY <2>1, <2>2, <2>3, <2>4
  <1>9. ASSUME NEW c \in 1 .. n - 1, Parent(c) = p PROVE Key(t, Parent(p)) <= Key(t, c)
    <2>1. c # p
      BY <1>4, <1>9
    <2>2. Key(q, p) <= Key(t, c) /\ Key(t, c) \in Nat
      BY <1>1, <1>2, <1>3, <1>4, <1>6, <1>9, <2>1
    <2>3. CASE p = 0
      BY <1>1, <1>2, <1>3, <1>5, <2>2, <2>3, Parents
    <2>4. CASE p # 0
      <3>1. p \in 1 .. n - 1 /\ p # i
        BY <1>1, <2>4
      <3>2. Parent(p) # p /\ Parent(p) # i /\ Parent(p) \in 0 .. n - 1
        BY <1>1, <1>4, <3>1
      <3>3. Key(t, Parent(p)) = Key(q, Parent(p)) /\ Key(q, Parent(p)) <= Key(q, p)
        BY <1>2, <1>6, <3>1, <3>2
      <3>4. Key(q, Parent(p)) \in Nat /\ Key(q, p) \in Nat
        BY <1>1, <1>3, <3>2
      <3> QED
        BY <2>2, <3>3, <3>4
    <2> QED
      BY <2>3, <2>4
  <1>10. Rising(t, n, p)
    BY <1>8, <1>9 DEF Rising, Ordered
  <1> QED
    BY <1>10 DEF t

\* After k rounds the item that rises is that much higher, unless it has stopped
UpAfter(q, s, n, m, j, k) ==
  /\ Kept(q, s.q, n, m)
  /\ s.i \in 0 .. n - 1
  /\ Rising(s.q, n, s.i)
  /\ s.i <= j - k \/ Ordered(s.q, s.i)

LEMMA UpStep ==
  ASSUME NEW m \in Nat, NEW n \in 0 .. m, NEW q, NEW s,
         NEW j \in Nat, NEW k \in Nat, UpAfter(q, s, n, m, j, k)
  PROVE  UpAfter(q, UpRound(s), n, m, j, k + 1)
  <1> DEFINE i == s.i
  <1>1. i \in 0 .. n - 1 /\ i \in 0 .. m - 1
    BY DEF UpAfter
  <1>2. Parent(i) \in 0 .. n - 1 /\ (i = 0 => Parent(i) = 0) /\ (i # 0 => Parent(i) < i)
    BY <1>1, Parents
  <1>3. Key(s.q, i) \in Nat /\ Key(s.q, Parent(i)) \in Nat
    BY <1>1, <1>2, Keys DEF UpAfter, Kept
  <1>4. Less(s.q, i, Parent(i)) <=> ~Ordered(s.q, i)
    BY <1>3 DEF Less, Ordered, Key
  <1>5. CASE Ordered(s.q, i)
    <2>1. UpRound(s) = s
      BY <1>4, <1>5 DEF UpRound
    <2> QED
      BY <1>5, <2>1 DEF UpAfter
  <1>6. CASE ~Ordered(s.q, i)
    <2> DEFINE u == Swap(s.q, Parent(i), i)
    <2>1. UpRound(s) = [q |-> u, i |-> Parent(i)]
      BY <1>4, <1>6 DEF UpRound
    <2>2. i # 0
      BY <1>2, <1>3, <1>6 DEF Ordered
    <2>3. Kept(q, u, n, m)
      BY <1>1, <1>2, KeptOnce DEF UpAfter
    <2>4. Rising(u, n, Parent(i))
      <3>1. i \in 1 .. n - 1
        BY <1>1, <2>2
      <3> QED
        BY <1>6, <3>1, UpOnce DEF UpAfter, Kept
    <2>5. i <= j - k
      BY <1>6 DEF UpAfter
    <2>6. Parent(i) <= j - (k + 1)
      BY <1>1, <1>2, <2>2, <2>5
    <2> HIDE DEF u
    <2> QED
      BY <1>2, <2>1, <2>3, <2>4, <2>6 DEF UpAfter
  <1> QED
    BY <1>5, <1>6

LEMMA UpResult ==
  ASSUME NEW m \in Nat, NEW n \in 0 .. m, NEW q, Sound(q, m),
         NEW j \in 0 .. n - 1, Rising(q, n, j)
  PROVE  Kept(q, Up(q, j), n, m) /\ Heap(Up(q, j), n)
  <1>1. PICK r : /\ r[0] = [q |-> q, i |-> j]
                 /\ \A k \in 0 .. j - 1 : r[k + 1] = UpRound(r[k])
                 /\ Up(q, j) = r[j].q
    BY UpRounds
  <1> DEFINE good == {k \in Nat : k <= j => UpAfter(q, r[k], n, m, j, k)}
  <1>2. 0 \in good
    BY <1>1 DEF UpAfter, Kept
  <1>3. ASSUME NEW k \in Nat, k \in good PROVE k + 1 \in good
    <2>1. SUFFICES ASSUME k + 1 <= j PROVE UpAfter(q, r[k + 1], n, m, j, k + 1)
      OBVIOUS
    <2>2. k \in 0 .. j - 1 /\ k <= j
      BY <2>1
    <2>3. UpAfter(q, r[k], n, m, j, k)
      BY <1>3, <2>2
    <2> QED
      BY <1>1, <2>2, <2>3, UpStep
  <1>4. UpAfter(q, r[j], n, m, j, j)
    <2>1. j \in good
      <3> HIDE DEF good
      <3> QED
        BY <1>2, <1>3, EveryNatural
    <2> QED
      BY <2>1
  <1>5. Heap(r[j].q, n)
    <2> DEFINE i == r[j].i
    <2>1. i \in 0 .. n - 1 /\ Rising(r[j].q, n, i) /\ (i <= 0 \/ Ordered(r[j].q, i))
      BY <1>4 DEF UpAfter
    <2> QED
      BY <2>1 DEF Rising, Heap
  <1> QED
    BY <1>1, <1>4, <1>5 DEF UpAfter

-----------------------------------------------------------------------------
(* The loop of heap.down.                                                  *)

\* The item at place i may come before its parent and after its children,
\* which do not come before its parent
Hole(q, n, i) ==
  /\ \A c \in 1 .. n - 1 : c # i /\ Parent(c) # i => Ordered(q, c)
  /\ i # 0 => \A c \in 1 .. n - 1 : Parent(c) = i => Key(q, Parent(i)) <= Key(q, c)

\* It does not come after its children
Settled(q, n, i) == \A c \in 1 .. n - 1 : Parent(c) = i => Ordered(q, c)

\* Of the children of i none comes before the lesser one, if there are any
LEMMA Children ==
  ASSUME NEW m \in Nat, NEW n \in 0 .. m, NEW q, Sound(q, m), NEW i \in Nat
  PROVE  LET j == LesserChild(q, i, n)
         IN  /\ j \in Nat /\ i < j
             /\ j < n => /\ Parent(j) = i
                         /\ \A c \in 1 .. n - 1 : Parent(c) = i => Key(q, j) <= Key(q, c)
             /\ j >= n => \A c \in 1 .. n - 1 : Parent(c) # i
  <1> DEFINE j == LesserChild(q, i, n)
             l == 2 * i + 1
  <1>1. \A c \in 1 .. n - 1 : Parent(c) = i => c = l \/ c = l + 1
    <2>1. ASSUME NEW c \in 1 .. n - 1, Parent(c) = i PROVE c = l \/ c = l + 1
      <3>1. c \in Nat \ {0}
        OBVIOUS
      <3>2. c = 2 * Parent(c) + 1 \/ c = 2 * Parent(c) + 2
        BY <3>1, Parents
      <3> QED
        BY <2>1, <3>2
    <2> QED
      BY <2>1
  <1>2. Parent(l) = i /\ Parent(l + 1) = i
    <2>1. ASSUME NEW c \in Nat \ {0}, c = l \/ c = l + 1 PROVE Parent(c) = i
      <3>1. Parent(c) \in Nat /\ (c = 2 * Parent(c) + 1 \/ c = 2 * Parent(c) + 2)
        BY Parents
      <3> QED
        BY <2>1, <3>1
    <2> QED
      BY <2>1
  <1>3. j = IF l + 1 < n /\ Less(q, l + 1, l) THEN l + 1 ELSE l
    BY DEF LesserChild
  <1>4. l \in Nat /\ i < l /\ l + 1 \in Nat
    OBVIOUS
  <1>5. \A c \in 0 .. n - 1 : Key(q, c) \in Nat
    BY Keys
  <1>6. j \in {l, l + 1}
    BY <1>3
  <1>7. ASSUME j < n PROVE \A c \in 1 .. n - 1 : Parent(c) = i => Key(q, j) <= Key(q, c)
    <2> SUFFICES ASSUME NEW c \in 1 .. n - 1, Parent(c) = i PROVE Key(q, j) <= Key(q, c)
      OBVIOUS
    <2>1. c = l \/ c = l + 1
      BY <1>1
    <2>2. Key(q, c) \in Nat
      BY <1>5
    <2>3. j \in 0 .. n - 1 /\ Key(q, j) \in Nat
      BY <1>4, <1>5, <1>6, <1>7
    <2> HIDE DEF j, l
    <2>4. CASE l + 1 < n /\ Less(q, l + 1, l)
      <3>1. j = l + 1 /\ Key(q, l + 1) < Key(q, l)
        BY <1>3, <2>4 DEF Less, Key
      <3>2. c = l => Key(q, j) < Key(q, c)
        BY <3>1
      <3>3. c = l + 1 => Key(q, j) = Key(q, c)
        BY <3>1
      <3> QED
        BY <2>1, <2>2, <2>3, <3>2, <3>3
    <2>5. CASE l + 1 < n /\ ~Less(q, l + 1, l)
      <3>1. j = l /\ ~(Key(q, l + 1) < Key(q, l))
        BY <1>3, <2>5 DEF Less, Key
      <3>2. c = l + 1 => ~(Key(q, c) < Key(q, j))
        BY <3>1
      <3>3. c = l => Key(q, j) = Key(q, c)
        BY <3>1
      <3> QED
        BY <2>1, <2>2, <2>3, <3>2, <3>3
    <2>6. CASE ~(l + 1 < n)
      <3>1. j = l
        BY <1>3, <2>6
      <3>2. c = l
        BY <1>4, <2>1, <2>6
      <3> QED
        BY <2>2, <3>1, <3>2
    <2> QED
      BY <2>4, <2>5, <2>6
  <1>8. ASSUME j >= n PROVE \A c \in 1 .. n - 1 : Parent(c) # i
    BY <1>1, <1>3, <1>4, <1>8
  <1> QED
    BY <1>2, <1>4, <1>6, <1>7, <1>8

LEMMA DownOnce ==
  ASSUME NEW m \in Nat, NEW n \in 0 .. m, NEW q, Sound(q, m), NEW i \in Nat,
         Hole(q, n, i), NEW j \in 0 .. n - 1, i < j, Parent(j) = i,
         \A c \in 1 .. n - 1 : Parent(c) = i => Key(q, j) <= Key(q, c),
         Key(q, j) < Key(q, i)
  PROVE  Hole(Swap(q, i, j), n, j) /\ Ordered(Swap(q, i, j), j)
  <1> DEFINE t == Swap(q, i, j)
  <1>1. i \in 0 .. n - 1 /\ i \in 0 .. m - 1 /\ j \in 0 .. m - 1 /\ j \in 1 .. n - 1
    OBVIOUS
  <1>2. /\ Key(t, i) = Key(q, j) /\ Key(t, j) = Key(q, i)
        /\ \A k \in 0 .. n - 1 : k # i /\ k # j => Key(t, k) = Key(q, k)
    BY <1>1, SwappedKeys
  <1>3. \A k \in 0 .. n - 1 : Key(q, k) \in Nat
    BY Keys
  <1>4. \A c \in 1 .. n - 1 : Parent(c) \in 0 .. n - 1 /\ Parent(c) < c /\ c \in 0 .. n - 1
    BY Parents
  <1>5. \A c \in 1 .. n - 1 : c # i /\ Parent(c) # i => Key(q, Parent(c)) <= Key(q, c)
    BY DEF Hole, Ordered
  <1>6. i # 0 => \A c \in 1 .. n - 1 : Parent(c) = i => Key(q, Parent(i)) <= Key(q, c)
    BY DEF Hole
  <1> HIDE DEF t
  <1>7. ASSUME NEW c \in 1 .. n - 1, c # j, Parent(c) # j PROVE Key(t, Parent(c)) <= Key(t, c)
    <2>1. CASE c = i
      <3>1. Parent(c) # i /\ Parent(c) # j /\ i # 0 /\ Parent(c) \in 0 .. n - 1
        BY <1>4, <1>7, <2>1
      <3>2. Key(t, Parent(c)) = Key(q, Parent(i)) /\ Key(t, c) = Key(q, j)
        BY <1>2, <2>1, <3>1
      <3>3. Key(q, Parent(i)) <= Key(q, j)
        BY <1>1, <1>6, <3>1
      <3> QED
        BY <3>2, <3>3
    <2>2. CASE c # i /\ Parent(c) = i
      BY <1>2, <1>4, <1>7, <2>2
    <2>3. CASE c # i /\ Parent(c) # i
      BY <1>2, <1>4, <1>5, <1>7, <2>3
    <2> QED
      BY <2>1, <2>2, <2>3
  <1>8. ASSUME NEW c \in 1 .. n - 1, Parent(c) = j PROVE Key(t, Parent(j)) <= Key(t, c)
    <2>1. c # i /\ c # j /\ Parent(c) # i
      BY <1>1, <1>4, <1>8
    <2>2. Key(t, Parent(j)) = Key(q, j) /\ Key(t, c) = Key(q, c)
      BY <1>2, <1>4, <2>1
    <2> QED
      BY <1>5, <1>8, <2>1, <2>2
  <1>9. Key(t, Parent(j)) <= Key(t, j)
    BY <1>1, <1>2, <1>3
  <1>10. Hole(t, n, j) /\ Ordered(t, j)
    BY <1>7, <1>8, <1>9 DEF Hole, Ordered
  <1> QED
    BY <1>10 DEF t

\* After k rounds the item that sinks is that much lower, unless it has stopped;
\* once it has moved it is known not to come before its parent
DownAfter(q, i, s, n, m, k) ==
  /\ Kept(q, s.q, n, m)
  /\ s.i \in Nat
  /\ Hole(s.q, n, s.i)
  /\ (s.q = q /\ s.i = i) \/ Ordered(s.q, s.i)
  /\ s.i >= k \/ Settled(s.q, n, s.i)

LEMMA DownStep ==
  ASSUME NEW m \in Nat, NEW n \in 0 .. m, NEW q, NEW i \in Nat, NEW s,
         NEW k \in Nat, DownAfter(q, i, s, n, m, k)
  PROVE  DownAfter(q, i, DownRound(s, n), n, m, k + 1)
  <1> DEFINE j == LesserChild(s.q, s.i, n)
  <1>1. s.i \in Nat /\ Sound(s.q, m)
    BY DEF DownAfter, Kept
  <1>2. /\ j \in Nat /\ s.i < j
        /\ j < n => /\ Parent(j) = s.i
                    /\ \A c \in 1 .. n - 1 : Parent(c) = s.i => Key(s.q, j) <= Key(s.q, c)
        /\ j >= n => \A c \in 1 .. n - 1 : Parent(c) # s.i
    BY <1>1, Children
  <1>3. \A c \in 0 .. n - 1 : Key(s.q, c) \in Nat
    BY <1>1, Keys
  <1>4. DownRound(s, n) = IF j < n /\ Less(s.q, j, s.i)
                          THEN [q |-> Swap(s.q, s.i, j), i |-> j] ELSE s
    BY DEF DownRound
  <1> HIDE DEF j
  <1>5. CASE j < n /\ Less(s.q, j, s.i)
    <2> DEFINE u == Swap(s.q, s.i, j)
    <2>1. s.i \in 0 .. n - 1 /\ j \in 0 .. n - 1 /\ Key(s.q, j) < Key(s.q, s.i)
      BY <1>1, <1>2, <1>5 DEF Less, Key
    <2>2. Kept(q, u, n, m)
      BY <2>1, KeptOnce DEF DownAfter
    <2>3. Hole(u, n, j) /\ Ordered(u, j)
      BY <1>1, <1>2, <1>5, <2>1, DownOnce DEF DownAfter
    <2>4. ~Settled(s.q, n, s.i)
      <3>1. j \in 1 .. n - 1 /\ Parent(j) = s.i
        BY <1>1, <1>2, <2>1
      <3>2. ~Ordered(s.q, j)
        BY <1>3, <2>1, <3>1 DEF Ordered
      <3> QED
        BY <3>1, <3>2 DEF Settled
    <2>5. s.i >= k
      BY <2>4 DEF DownAfter
    <2>6. j >= k + 1
      BY <1>1, <1>2, <2>5
    <2>7. DownRound(s, n) = [q |-> u, i |-> j]
      BY <1>4, <1>5
    <2> HIDE DEF u
    <2> QED
      BY <1>2, <2>2, <2>3, <2>6, <2>7 DEF DownAfter
  <1>6. CASE ~(j < n /\ Less(s.q, j, s.i))
    <2>1. DownRound(s, n) = s
      BY <1>4, <1>6
    <2>2. Settled(s.q, n, s.i)
      <3> SUFFICES ASSUME NEW c \in 1 .. n - 1, Parent(c) = s.i
                   PROVE  Key(s.q, Parent(c)) <= Key(s.q, c)
        BY DEF Settled, Ordered
      <3>1. j < n
        BY <1>2
      <3>2. ~(Key(s.q, j) < Key(s.q, s.i)) /\ Key(s.q, j) <= Key(s.q, c)
        BY <1>2, <1>6, <3>1 DEF Less, Key
      <3>3. /\ Key(s.q, j) \in Nat /\ Key(s.q, s.i) \in Nat /\ Key(s.q, c) \in Nat
        BY <1>1, <1>2, <1>3, <3>1
      <3> QED
        BY <3>2, <3>3
    <2> QED
      BY <2>1, <2>2 DEF DownAfter
  <1> QED
    BY <1>5, <1>6

\* Either the item has moved and all is in order, or only its parent may be wrong
LEMMA DownResult ==
  ASSUME NEW m \in Nat, NEW n \in 0 .. m, NEW q, Sound(q, m), NEW i \in Nat, Hole(q, n, i)
  PROVE  LET d == Down(q, i, n)
         IN  /\ Kept(q, d, n, m)
             /\ Heap(d, n) \/ (d = q /\ Settled(q, n, i))
             /\ i = 0 => Heap(d, n)
  <1>1. PICK r : /\ r[0] = [q |-> q, i |-> i]
                 /\ \A k \in 0 .. n - 1 : r[k + 1] = DownRound(r[k], n)
                 /\ Down(q, i, n) = r[n].q
    BY DownRounds
  <1> DEFINE good == {k \in Nat : k <= n => DownAfter(q, i, r[k], n, m, k)}
  <1>2. 0 \in good
    BY <1>1 DEF DownAfter, Kept
  <1>3. ASSUME NEW k \in Nat, k \in good PROVE k + 1 \in good
    <2>1. SUFFICES ASSUME k + 1 <= n PROVE DownAfter(q, i, r[k + 1], n, m, k + 1)
      OBVIOUS
    <2>2. k \in 0 .. n - 1 /\ k <= n
      BY <2>1
    <2>3. DownAfter(q, i, r[k], n, m, k)
      BY <1>3, <2>2
    <2> QED
      BY <1>1, <2>2, <2>3, DownStep
  <1>4. DownAfter(q, i, r[n], n, m, n)
    <2>1. n \in good
      <3> HIDE DEF good
      <3> QED
        BY <1>2, <1>3, EveryNatural
    <2> QED
      BY <2>1
  <1> DEFINE d == r[n].q
             e == r[n].i
  <1>5. /\ Kept(q, d, n, m) /\ e \in Nat /\ Hole(d, n, e)
        /\ (d = q /\ e = i) \/ Ordered(d, e)
        /\ e >= n \/ Settled(d, n, e)
    BY <1>4 DEF DownAfter
  <1> HIDE DEF d, e
  <1>6. Settled(d, n, e)
    <2>1. ASSUME e >= n, NEW c \in 1 .. n - 1 PROVE Parent(c) # e
      BY <1>5, <2>1, Parents
    <2> QED
      BY <1>5, <2>1 DEF Settled
  <1>7. Ordered(d, e) \/ e = 0 => Heap(d, n)
    BY <1>5, <1>6 DEF Heap, Hole, Settled
  <1> QED
    BY <1>1, <1>5, <1>6, <1>7 DEF d

\* heap.Init leaves a heap alone
LEMMA DownOfHeap ==
  ASSUME NEW n \in Nat, NEW q, Sound(q, n), Heap(q, n), NEW i \in Nat
  PROVE  Down(q, i, n) = q
  <1>1. PICK r : /\ r[0] = [q |-> q, i |-> i]
                 /\ \A k \in 0 .. n - 1 : r[k + 1] = DownRound(r[k], n)
                 /\ Down(q, i, n) = r[n].q
    BY DownRounds
  <1> DEFINE s == [q |-> q, i |-> i]
             j == LesserChild(q, i, n)
             good == {k \in Nat : k <= n => r[k] = s}
  <1>2. DownRound(s, n) = s
    <2>1. /\ j \in Nat /\ i < j /\ (j < n => Parent(j) = i)
      BY Children
    <2>2. ASSUME j < n PROVE ~Less(q, j, i)
      <3>1. j \in 1 .. n - 1 /\ i \in 0 .. n - 1 /\ j \in 0 .. n - 1 /\ Parent(j) = i
        BY <2>1, <2>2
      <3>2. Key(q, i) <= Key(q, j) /\ Key(q, i) \in Nat /\ Key(q, j) \in Nat
        BY <3>1, Keys DEF Heap, Ordered
      <3> QED
        BY <3>2 DEF Less, Key
    <2> QED
      BY <2>2 DEF DownRound
  <1>3. 0 \in good
    BY <1>1
  <1>4. ASSUME NEW k \in Nat, k \in good PROVE k + 1 \in good
    <2>1. SUFFICES ASSUME k + 1 <= n PROVE r[k + 1] = s
      OBVIOUS
    <2>2. k \in 0 .. n - 1 /\ r[k] = s
      BY <1>4, <2>1
    <2> QED
      BY <1>1, <1>2, <2>2
  <1>5. n \in good
    <2> HIDE DEF good
    <2> QED
      BY <1>3, <1>4, EveryNatural
  <1>6. r[n] = s
    BY <1>5
  <1> QED
    BY <1>1, <1>6

LEMMA FixedHeap ==
  ASSUME NEW n \in Nat, NEW q, Sound(q, n), Heap(q, n), NEW l \in Nat
  PROVE  Heapified(q, l - 1) = q
  <1>1. PICK r : /\ r[0] = [q |-> q, i |-> l - 1]
                 /\ \A k \in 0 .. l - 1 : r[k + 1] = FixRound(r[k])
                 /\ Heapified(q, l - 1) = r[l].q
    BY FixRounds
  <1> DEFINE good == {k \in Nat : k <= l => r[k] = [q |-> q, i |-> (l - 1) - k]}
  <1>2. 0 \in good
    BY <1>1
  <1>3. ASSUME NEW k \in Nat, k \in good PROVE k + 1 \in good
    <2>1. SUFFICES ASSUME k + 1 <= l PROVE r[k + 1] = [q |-> q, i |-> (l - 1) - (k + 1)]
      OBVIOUS
    <2>2. k \in 0 .. l - 1 /\ r[k] = [q |-> q, i |-> (l - 1) - k] /\ (l - 1) - k \in Nat
      BY <1>3, <2>1
    <2>3. Down(q, (l - 1) - k, Size(q)) = q
      BY <2>2, Lengths, DownOfHeap
    <2>4. r[k + 1] = FixRound(r[k])
      BY <1>1, <2>2
    <2>5. FixRound(r[k]) = [q |-> q, i |-> ((l - 1) - k) - 1]
      BY <2>2, <2>3 DEF FixRound
    <2> QED
      BY <2>2, <2>4, <2>5
  <1>4. l \in good
    <2> HIDE DEF good
    <2> QED
      BY <1>2, <1>3, EveryNatural
  <1>5. r[l] = [q |-> q, i |-> (l - 1) - l]
    BY <1>4
  <1> QED
    BY <1>1, <1>5

-----------------------------------------------------------------------------
(* The calls of container/heap.                                            *)

\* The order of the first n places is that of the array they are kept from
LEMMA HeapOfKeys ==
  ASSUME NEW n \in Nat, NEW q, NEW t, \A k \in 0 .. n - 1 : t.at[k] = q.at[k]
  PROVE  \A c \in 1 .. n - 1 : Ordered(t, c) <=> Ordered(q, c)
  <1>1. \A c \in 1 .. n - 1 : Parent(c) \in 0 .. n - 1 /\ c \in 0 .. n - 1
    BY Parents
  <1> QED
    BY <1>1 DEF Ordered, Key

LEMMA PushedSound ==
  ASSUME NEW n \in Nat, NEW q, Sound(q, n), Heap(q, n), NEW x \in Items \ Range(q.at)
  PROVE  LET t == Pushed(q, x)
         IN  Sound(t, n + 1) /\ Heap(t, n + 1) /\ Range(t.at) = Range(q.at) \cup {x}
  <1> DEFINE a == Append(q, x)
  <1>1. /\ Sound(a, n + 1) /\ Range(a.at) = Range(q.at) \cup {x}
        /\ \A k \in 0 .. n - 1 : a.at[k] = q.at[k]
    BY Appended
  <1>2. Pushed(q, x) = Up(a, n)
    BY Lengths DEF Pushed
  <1> HIDE DEF a
  <1>3. \A c \in 1 .. n - 1 : Ordered(a, c)
    BY <1>1, HeapOfKeys DEF Heap
  <1>4. \A c \in 1 .. (n + 1) - 1 : (c # n => c \in 1 .. n - 1) /\ Parent(c) # n
    BY Parents
  <1>5. Rising(a, n + 1, n)
    BY <1>3, <1>4 DEF Rising
  <1>6. n + 1 \in Nat /\ n + 1 \in 0 .. n + 1 /\ n \in 0 .. (n + 1) - 1
    OBVIOUS
  <1>7. Kept(a, Up(a, n), n + 1, n + 1) /\ Heap(Up(a, n), n + 1)
    BY <1>1, <1>5, <1>6, UpResult
  <1> QED
    BY <1>1, <1>2, <1>7 DEF Kept

\* What is left of an array whose last place is cut, after its first n were put in order
LEMMA CutSound ==
  ASSUME NEW n \in Nat, NEW s, NEW t, Kept(s, t, n, n + 1), Heap(t, n)
  PROVE  LET u == CutLast(t)
         IN  Sound(u, n) /\ Heap(u, n) /\ Range(u.at) = Range(s.at) \ {s.at[n]}
  <1> DEFINE u == CutLast(t)
  <1>1. Sound(t, n + 1) /\ Range(t.at) = Range(s.at) /\ t.at[n] = s.at[n]
    BY DEF Kept
  <1>2. /\ Sound(u, n) /\ Range(u.at) = Range(t.at) \ {t.at[n]}
        /\ \A k \in 0 .. n - 1 : u.at[k] = t.at[k]
    BY <1>1, LastCut
  <1> HIDE DEF u
  <1>3. Heap(u, n)
    BY <1>2, HeapOfKeys DEF Heap
  <1> QED
    BY <1>1, <1>2, <1>3 DEF u

\* The last item takes the place of another one
LEMMA HoleMade ==
  ASSUME NEW n \in Nat, NEW q, Sound(q, n + 1), Heap(q, n + 1), NEW i \in 0 .. n - 1
  PROVE  LET s == Swap(q, i, n)
         IN  /\ Kept(s, s, n, n + 1) /\ Hole(s, n, i)
             /\ Range(s.at) = Range(q.at) /\ s.at[n] = q.at[i]
  <1> DEFINE s == Swap(q, i, n)
  <1>1. n + 1 \in Nat /\ i \in 0 .. (n + 1) - 1 /\ n \in 0 .. (n + 1) - 1
    OBVIOUS
  <1>2. /\ Sound(s, n + 1) /\ Range(s.at) = Range(q.at) /\ s.at[n] = q.at[i]
    BY <1>1, Swapped
  <1>3. \A k \in 0 .. n - 1 : k # i => Key(s, k) = Key(q, k)
    BY <1>1, SwappedKeys
  <1>4. \A c \in 1 .. n - 1 : /\ Parent(c) \in 0 .. n - 1 /\ Parent(c) < c /\ c \in 0 .. n - 1
                              /\ c \in 1 .. (n + 1) - 1
    BY Parents
  <1>5. \A c \in 1 .. n - 1 : Key(q, Parent(c)) <= Key(q, c)
    BY <1>4 DEF Heap, Ordered
  <1>6. \A c \in 0 .. n - 1 : Key(q, c) \in Nat
    <2>1. \A c \in 0 .. (n + 1) - 1 : Key(q, c) \in Nat
      BY <1>1, Keys
    <2> QED
      BY <2>1
  <1> HIDE DEF s
  <1>7. ASSUME NEW c \in 1 .. n - 1, c # i, Parent(c) # i PROVE Key(s, Parent(c)) <= Key(s, c)
    BY <1>3, <1>4, <1>5, <1>7
  <1>8. ASSUME i # 0, NEW c \in 1 .. n - 1, Parent(c) = i
        PROVE  Key(s, Parent(i)) <= Key(s, c)
    <2>1. c # i /\ i \in 1 .. n - 1
      BY <1>4, <1>8
    <2>2. Parent(i) # i /\ Parent(i) \in 0 .. n - 1
      BY <1>4, <2>1
    <2>3. Key(s, Parent(i)) = Key(q, Parent(i)) /\ Key(s, c) = Key(q, c)
      BY <1>3, <1>4, <2>1, <2>2
    <2>4. Key(q, Parent(i)) <= Key(q, i) /\ Key(q, i) <= Key(q, c)
      BY <1>5, <1>8, <2>1
    <2>5. Key(q, Parent(i)) \in Nat /\ Key(q, i) \in Nat /\ Key(q, c) \in Nat
      BY <1>4, <1>6, <2>2
    <2> QED
      BY <2>3, <2>4, <2>5
  <1>9. Hole(s, n, i)
    BY <1>7, <1>8 DEF Hole, Ordered
  <1>10. Kept(s, s, n, n + 1)
    BY <1>2 DEF Kept
  <1> QED
    BY <1>2, <1>9, <1>10 DEF s

LEMMA PoppedSound ==
  ASSUME NEW n \in Nat, NEW q, Sound(q, n + 1), Heap(q, n + 1)
  PROVE  LET t == Popped(q)
         IN  Sound(t, n) /\ Heap(t, n) /\ Range(t.at) = Range(q.at) \ {q.at[0]}
  <1> DEFINE s == Swap(q, 0, n)
             d == Down(s, 0, n)
  <1>1. Popped(q) = CutLast(d)
    <2>1. n + 1 \in Nat
      OBVIOUS
    <2>2. Size(q) = n + 1
      BY <2>1, Lengths
    <2>3. Size(q) - 1 = n
      BY <2>2
    <2> QED
      BY <2>3 DEF Popped
  <1>2. n + 1 \in Nat /\ n \in 0 .. n + 1 /\ 0 \in Nat
    OBVIOUS
  <1>3. Kept(s, s, n, n + 1) /\ Hole(s, n, 0) /\ Range(s.at) = Range(q.at) /\ s.at[n] = q.at[0]
    <2>1. CASE n = 0
      <3>1. Sound(s, n + 1) /\ Range(s.at) = Range(q.at) /\ s.at[n] = q.at[0]
        <4>1. 0 \in 0 .. (n + 1) - 1 /\ n \in 0 .. (n + 1) - 1
          OBVIOUS
        <4> QED
          BY <1>2, <4>1, Swapped
      <3> HIDE DEF s
      <3>2. Kept(s, s, n, n + 1)
        BY <3>1 DEF Kept
      <3>3. Hole(s, n, 0)
        BY <2>1 DEF Hole
      <3> QED
        BY <3>1, <3>2, <3>3
    <2>2. CASE n # 0
      <3>1. 0 \in 0 .. n - 1
        BY <2>2
      <3> QED
        BY <3>1, HoleMade
    <2> QED
      BY <2>1, <2>2
  <1> HIDE DEF s
  <1>4. Kept(s, d, n, n + 1) /\ Heap(d, n)
    BY <1>2, <1>3, DownResult DEF Kept
  <1> HIDE DEF d
  <1>5. /\ Sound(CutLast(d), n) /\ Heap(CutLast(d), n)
        /\ Range(CutLast(d).at) = Range(s.at) \ {s.at[n]}
    BY <1>4, CutSound
  <1> QED
    BY <1>1, <1>3, <1>5

LEMMA RemovedSound ==
  ASSUME NEW n \in Nat, NEW q, Sound(q, n + 1), Heap(q, n + 1), NEW i \in 0 .. n
  PROVE  LET t == Removed(q, i)
         IN  Sound(t, n) /\ Heap(t, n) /\ Range(t.at) = Range(q.at) \ {q.at[i]}
  <1> DEFINE s == Swap(q, i, n)
             d == Down(s, i, n)
  <1>1. Removed(q, i) = CutLast(IF i = n THEN q ELSE IF d # s THEN d ELSE Up(s, i))
    <2>1. n + 1 \in Nat
      OBVIOUS
    <2>2. Size(q) = n + 1
      BY <2>1, Lengths
    <2>3. Size(q) - 1 = n
      BY <2>2
    <2> QED
      BY <2>3 DEF Removed
  <1>2. n + 1 \in Nat /\ n \in 0 .. n + 1 /\ i \in Nat
    OBVIOUS
  <1>3. CASE i = n
    <2>1. Kept(q, q, n, n + 1) /\ Heap(q, n)
      BY DEF Kept, Heap
    <2> QED
      BY <1>1, <1>3, <2>1, CutSound
  <1>4. CASE i # n
    <2>1. i \in 0 .. n - 1
      BY <1>4
    <2>2. Kept(s, s, n, n + 1) /\ Hole(s, n, i) /\ Range(s.at) = Range(q.at) /\ s.at[n] = q.at[i]
      BY <2>1, HoleMade
    <2> HIDE DEF s
    <2>3. Sound(s, n + 1)
      BY <2>2 DEF Kept
    <2>4. Kept(s, d, n, n + 1) /\ (Heap(d, n) \/ (d = s /\ Settled(s, n, i)))
      BY <1>2, <2>2, <2>3, DownResult
    <2> HIDE DEF d
    <2>5. CASE d # s
      <3>1. Removed(q, i) = CutLast(d)
        BY <1>1, <1>4, <2>5
      <3> QED
        <4>1. Heap(d, n) /\ Kept(s, d, n, n + 1)
          BY <2>4, <2>5
        <4>2. /\ Sound(CutLast(d), n) /\ Heap(CutLast(d), n)
              /\ Range(CutLast(d).at) = Range(s.at) \ {s.at[n]}
          BY <4>1, CutSound
        <4> QED
          BY <2>2, <3>1, <4>2
    <2>6. CASE d = s
      <3>1. \A c \in 1 .. n - 1 : c # i => Ordered(s, c)
        BY <2>2, <2>4, <2>6 DEF Heap, Hole, Settled
      <3>2. ASSUME NEW c \in 1 .. n - 1, Parent(c) = i PROVE Key(s, Parent(i)) <= Key(s, c)
        <4>1. CASE i = 0
          <5>1. c # i
            BY <4>1
          <5> QED
            BY <3>1, <3>2, <4>1, <5>1, Parents DEF Ordered
        <4>2. CASE i # 0
          BY <2>2, <3>2, <4>2 DEF Hole
        <4> QED
          BY <4>1, <4>2
      <3>3. Rising(s, n, i)
        BY <3>1, <3>2 DEF Rising
      <3>4. Kept(s, Up(s, i), n, n + 1) /\ Heap(Up(s, i), n)
        BY <1>2, <2>1, <2>3, <3>3, UpResult
      <3>5. Removed(q, i) = CutLast(Up(s, i))
        BY <1>1, <1>4, <2>6
      <3> QED
        BY <2>2, <3>4, <3>5, CutSound
    <2> QED
      BY <2>5, <2>6
  <1> QED
    BY <1>3, <1>4

\* The first item of a heap is one of the least
LEMMA FirstIsLeast ==
  ASSUME NEW n \in Nat, NEW q, Sound(q, n), Heap(q, n)
  PROVE  \A c \in 0 .. n - 1 : Key(q, 0) <= Key(q, c)
  <1> DEFINE earlier == {c \in 0 .. n - 1 : Key(q, c) < Key(q, 0)}
  <1>1. \A c \in 0 .. n - 1 : Key(q, c) \in Nat /\ 0 \in 0 .. n - 1
    BY Keys
  <1>2. earlier = {}
    <2> SUFFICES ASSUME earlier # {} PROVE FALSE
      OBVIOUS
    <2>1. PICK c \in earlier : \A d \in earlier : c <= d
      <3>1. earlier \in SUBSET Nat
        OBVIOUS
      <3> HIDE DEF earlier
      <3> QED
        BY <3>1, LeastNatural
    <2>2. c \in 1 .. n - 1 /\ Key(q, c) < Key(q, 0)
      BY <1>1, <2>1
    <2>3. Parent(c) \in 0 .. n - 1 /\ Parent(c) < c /\ Key(q, Parent(c)) <= Key(q, c)
      BY <2>2, Parents DEF Heap, Ordered
    <2>4. Parent(c) \in earlier
      BY <1>1, <2>2, <2>3
    <2> QED
      BY <2>1, <2>3, <2>4
  <1> QED
    BY <1>1, <1>2

-----------------------------------------------------------------------------
(* What spokes and hub do with a queue.                                    *)

Calls == {"none", "push", "pop", "remove"}

QueueInv ==
  /\ \E n \in Nat : Sound(queue, n) /\ Heap(queue, n)
  /\ left \in [call : Calls, item : Items \cup {NoItem}]

LEMMA InitQueue == Init => QueueInv
  <1> SUFFICES ASSUME Init PROVE QueueInv
    OBVIOUS
  <1>1. 0 .. 0 - 1 = {} /\ 1 .. 0 - 1 = {}
    OBVIOUS
  <1>2. queue.at = [i \in {} |-> NoItem] /\ queue.index = [x \in Items |-> 0]
    BY DEF Init
  <1>3. Sound(queue, 0)
    BY <1>1, <1>2 DEF Init, Sound
  <1>4. Heap(queue, 0)
    BY <1>1 DEF Heap
  <1> QED
    BY <1>3, <1>4 DEF Init, QueueInv, Calls

\* Every call keeps the heap, and is a call of the bag or of nothing
LEMMA QueueStep ==
  ASSUME QueueInv, [Next]_vars
  PROVE  QueueInv' /\ [Bag!Next]_(Bag!vars)
  <1>n. PICK n \in Nat : Sound(queue, n) /\ Heap(queue, n)
    BY DEF QueueInv
  <1>s. Size(queue) = n
    BY <1>n, Lengths
  <1>h. /\ Range(queue.at) = {queue.at[i] : i \in 0 .. n - 1}
        /\ \A i \in 0 .. n - 1 : queue.at[i] \in Items
    BY <1>n, Held
  <1>1. CASE \E x \in Items : PushItem(x)
    <2>1. PICK x \in Items : PushItem(x)
      BY <1>1
    <2>2. x \in Items \ Range(queue.at) /\ queue' = Pushed(queue, x)
      BY <2>1 DEF PushItem
    <2>3. /\ Sound(queue', n + 1) /\ Heap(queue', n + 1)
          /\ Range(queue'.at) = Range(queue.at) \cup {x}
      BY <1>n, <2>2, PushedSound
    <2>4. n + 1 \in Nat /\ left' = [call |-> "push", item |-> NoItem]
      BY <2>1 DEF PushItem
    <2>5. QueueInv'
      BY <2>3, <2>4 DEF QueueInv, Calls
    <2>6. Bag!Push(x)
      BY <2>2, <2>3, <2>4 DEF Bag!Push
    <2> QED
      BY <2>5, <2>6 DEF Bag!Next
  <1>2. CASE PopItem
    <2>1. n - 1 \in Nat /\ n = (n - 1) + 1 /\ 0 \in 0 .. n - 1
      BY <1>2, <1>s DEF PopItem
    <2>2. /\ Sound(queue', n - 1) /\ Heap(queue', n - 1)
          /\ Range(queue'.at) = Range(queue.at) \ {queue.at[0]}
      BY <1>n, <1>2, <2>1, PoppedSound DEF PopItem
    <2>3. left' = [call |-> "pop", item |-> queue.at[0]] /\ queue.at[0] \in Items
      BY <1>h, <1>2, <2>1 DEF PopItem
    <2>4. QueueInv'
      BY <2>1, <2>2, <2>3 DEF QueueInv, Calls
    <2>5. \A y \in Range(queue.at) : PriorityOf[queue.at[0]] <= PriorityOf[y]
      <3>1. \A c \in 0 .. n - 1 : Key(queue, 0) <= Key(queue, c)
        BY <1>n, FirstIsLeast
      <3> QED
        BY <1>h, <3>1 DEF Key
    <2>6. queue.at[0] \in Range(queue.at)
      BY <1>h, <2>1
    <2>7. Bag!Pop
      BY <2>2, <2>3, <2>5, <2>6 DEF Bag!Pop, Bag!TakeOut
    <2> QED
      BY <2>4, <2>7 DEF Bag!Next
  <1>3. CASE \E x \in Items : RemoveItem(x)
    <2>1. PICK x \in Items : RemoveItem(x)
      BY <1>3
    <2>2. PICK i \in 0 .. n - 1 : x = queue.at[i]
      BY <1>h, <2>1 DEF RemoveItem
    <2>3. queue.index[x] = i
      BY <1>n, <2>2 DEF Sound
    <2>4. n - 1 \in Nat /\ n = (n - 1) + 1 /\ i \in 0 .. n - 1
      OBVIOUS
    <2>5. queue' = Removed(queue, i) /\ left' = [call |-> "remove", item |-> x]
      BY <2>1, <2>2, <2>3 DEF RemoveItem
    <2>6. /\ Sound(queue', n - 1) /\ Heap(queue', n - 1)
          /\ Range(queue'.at) = Range(queue.at) \ {x}
      BY <1>n, <2>2, <2>4, <2>5, RemovedSound
    <2>7. QueueInv'
      BY <2>4, <2>5, <2>6 DEF QueueInv, Calls
    <2>8. Bag!Remove(x)
      BY <2>1, <2>5, <2>6 DEF Bag!Remove, Bag!TakeOut, RemoveItem
    <2> QED
      BY <2>7, <2>8 DEF Bag!Next
  <1>4. CASE FixItems
    <2>1. n \div 2 \in Nat
      OBVIOUS
    <2>2. queue' = queue /\ left' = left
      BY <1>n, <1>s, <1>4, <2>1, FixedHeap DEF FixItems
    <2> QED
      BY <2>2 DEF QueueInv, Bag!vars
  <1>5. CASE UNCHANGED vars
    BY <1>5 DEF vars, QueueInv, Bag!vars
  <1> QED
    BY <1>1, <1>2, <1>3, <1>4, <1>5 DEF Next

LEMMA Invariance == Spec => []QueueInv
  <1>1. QueueInv /\ [Next]_vars => QueueInv'
    BY QueueStep
  <1> QED
    BY <1>1, InitQueue, PTL DEF Spec

\* The places are numbered without a gap, up to the length that Swap, Push and
\* Pop give the array, and indices are places.
THEOREM QueueTypes == Spec => []TypeOK
  <1>1. QueueInv => TypeOK
    <2> SUFFICES ASSUME NEW n \in Nat, Sound(queue, n),
                        left \in [call : Calls, item : Items \cup {NoItem}]
                 PROVE  TypeOK
      BY DEF QueueInv
    <2>1. /\ Size(queue) = n /\ DOMAIN queue.at = 0 .. n - 1
          /\ Cardinality(Items) \in Nat /\ n <= Cardinality(Items)
      BY Lengths
    <2>2. /\ Range(queue.at) = {queue.at[i] : i \in 0 .. n - 1}
          /\ \A i \in 0 .. n - 1 : queue.at[i] \in Items
      BY Held
    <2>3. ASSUME NEW x \in Items PROVE queue.index[x] \in -1 .. Cardinality(Items) - 1
      <3>1. Cardinality(Items) # 0
        BY ItemsAssumption, FS_EmptySet
      <3>2. CASE x \in Range(queue.at)
        BY <2>1, <2>2, <3>2 DEF Sound
      <3>3. CASE x \notin Range(queue.at)
        BY <2>1, <3>1, <3>3 DEF Sound
      <3> QED
        BY <3>2, <3>3
    <2>4. queue.index \in [Items -> -1 .. Cardinality(Items) - 1]
      BY <2>3 DEF Sound
    <2> QED
      BY <2>1, <2>2, <2>4 DEF TypeOK, Calls
  <1> QED
    BY <1>1, Invariance, PTL

\* Whatever items NextLocked pops and CancelJobLocked removes from the middle, no
\* item comes before its parent, so that AtIdx(0) is due first.
THEOREM QueueIsHeap == Spec => []HeapOrdered
  <1>1. QueueInv => HeapOrdered
    <2> SUFFICES ASSUME NEW n \in Nat, Sound(queue, n), Heap(queue, n),
                        NEW i \in DOMAIN queue.at
                 PROVE  ~Less(queue, i, Parent(i))
      BY DEF QueueInv, HeapOrdered
    <2>1. i \in 0 .. n - 1 /\ Parent(i) \in 0 .. n - 1
      BY Lengths, Parents
    <2>2. Key(queue, Parent(i)) \in Nat /\ Key(queue, i) \in Nat
      BY <2>1, Keys
    <2>3. Key(queue, Parent(i)) <= Key(queue, i)
      <3>1. CASE i = 0
        BY <2>2, <3>1, Parents
      <3>2. CASE i # 0
        BY <2>1, <3>2 DEF Heap, Ordered
      <3> QED
        BY <3>1, <3>2
    <2> QED
      BY <2>2, <2>3 DEF Less, Key
  <1> QED
    BY <1>1, Invariance, PTL

\* Each item knows its place through all the swaps of the sifts, so that
\* CancelJobLocked removes the job it was asked to.
THEOREM IndicesAreExact == Spec => []IndexExact
  <1>1. QueueInv => IndexExact
    <2> SUFFICES ASSUME NEW n \in Nat, Sound(queue, n) PROVE IndexExact
      BY DEF QueueInv
    <2>1. DOMAIN queue.at = 0 .. n - 1
      BY Lengths
    <2> QED
      BY <2>1 DEF Sound, IndexExact
  <1> QED
    BY <1>1, Invariance, PTL

\* The heap.Init of a poll that looks for a spoke (hub.go:250) finds a heap,
\* whatever calls came before, and moves nothing.
THEOREM FixesNothing == Spec => [][FixItems => UNCHANGED vars]_vars
  <1>1. QueueInv /\ FixItems => UNCHANGED vars
    <2> SUFFICES ASSUME QueueInv, FixItems PROVE UNCHANGED vars
      OBVIOUS
    <2>1. PICK n \in Nat : Sound(queue, n) /\ Heap(queue, n)
      BY DEF QueueInv
    <2>2. Size(queue) = n /\ n \div 2 \in Nat
      BY <2>1, Lengths
    <2>3. Heapified(queue, n \div 2 - 1) = queue
      BY <2>1, <2>2, FixedHeap
    <2> QED
      BY <2>2, <2>3 DEF FixItems, vars
  <1> QED
    BY <1>1, Invariance, PTL

\* The queue that spokes and hub sift through is the set of items that they
\* take it for: Push adds one, Next takes one that is due first, Cancel the one
\* that it names.
THEOREM QueueImplementsBag == Spec => ImplementsBag
  <1>1. Init => Bag!Init
    BY DEF Init, Bag!Init, Range
  <1>2. QueueInv /\ [Next]_vars => [Bag!Next]_(Bag!vars)
    BY QueueStep
  <1> QED
    BY <1>1, <1>2, Invariance, PTL DEF Spec, ImplementsBag, Bag!Spec
=============================================================================
