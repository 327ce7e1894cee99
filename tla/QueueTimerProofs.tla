-------------------------- MODULE QueueTimerProofs --------------------------
(***************************************************************************)
(* Proofs about the two containers that are kept in order.                 *)
(*                                                                         *)
(* TlQueue, for any set of items and any priorities: the list stays        *)
(* intact, and it is the queue that AbsQueue describes.                    *)
(*                                                                         *)
(* SoftTimer, for any number of timers, any intervals and any clock: the   *)
(* bubble sort sorts across the wrap of the clock, no timer is given up,   *)
(* and the wakeup is the one of the first timer.                           *)
(***************************************************************************)
EXTENDS TlQueue, SoftTimer, SequenceTheorems, WellFoundedInduction, TLAPS

(* The linked list with head h, tail t, next pointers nx and count c holds *)
(* the items of s.                                                         *)
IsList(s, h, t, nx, c) ==
  /\ c \in Nat /\ s \in [1..c -> Item] /\ nx \in [Item -> Item \cup {NULL}]
  /\ \A i, j \in 1..c : s[i] = s[j] => i = j
  /\ h = IF c = 0 THEN NULL ELSE s[1]
  /\ t = IF c = 0 THEN NULL ELSE s[c]
  /\ \A i \in 1..c : nx[s[i]] = IF i = c THEN NULL ELSE s[i + 1]

List(s) == IsList(s, head, tail, next, curNum)

(* The next pointers with x put behind the k-th item of s, and without the *)
(* k-th item.                                                              *)
PutNext(s, c, nx, k, x) ==
  [y \in Item |-> IF y = x THEN IF k = c THEN NULL ELSE s[k + 1]
                  ELSE IF y = Before(s, k) THEN x ELSE nx[y]]
DropNext(s, nx, k) == [y \in Item |-> IF y = Before(s, k - 1) THEN nx[s[k]] ELSE nx[y]]

Put(s, c, k, x) == [i \in 1..c + 1 |-> IF i <= k THEN s[i] ELSE IF i = k + 1 THEN x ELSE s[i - 1]]
Drop(s, c, k)   == [i \in 1..c - 1 |-> IF i < k THEN s[i] ELSE s[i + 1]]

-----------------------------------------------------------------------------
(* NULL is no item.                                                        *)
LEMMA NullFact == NULL \notin Item
  BY NullAssumption

(* A function on 1..n is a sequence of length n.                           *)
LEMMA SeqOfFun ==
  ASSUME NEW S, NEW n \in Nat, NEW t \in [1..n -> S]
  PROVE  t \in Seq(S) /\ Len(t) = n /\ (t = <<>> <=> n = 0)
  OBVIOUS

(* The place of an item after another one was put into the sequence.       *)
LEMMA PutAt ==
  ASSUME NEW c \in Nat, NEW s \in [1..c -> Item], NEW k \in 0..c, NEW x \in Item
  PROVE  /\ Put(s, c, k, x) \in [1..c + 1 -> Item]
         /\ Put(s, c, k, x)[k + 1] = x /\ k + 1 \in 1..c + 1
         /\ \A i \in 1..k : Put(s, c, k, x)[i] = s[i] /\ i \in 1..c /\ i \in 1..c + 1
         /\ \A i \in k + 1..c : Put(s, c, k, x)[i + 1] = s[i] /\ i \in 1..c /\ i + 1 \in 1..c + 1
         /\ \A i \in 1..c + 1 : \/ i \in 1..k
                                \/ i = k + 1
                                \/ \E j \in k + 1..c : i = j + 1
<1> DEFINE p == Put(s, c, k, x)
<1>1. ASSUME NEW i \in 1..c + 1
      PROVE  /\ p[i] = IF i <= k THEN s[i] ELSE IF i = k + 1 THEN x ELSE s[i - 1]
             /\ p[i] \in Item
  BY DEF Put
<1>2. p \in [1..c + 1 -> Item]
  <2>1. p = [i \in 1..c + 1 |-> p[i]]
    BY DEF Put
  <2> QED
    BY <2>1, <1>1
<1> HIDE DEF p
<1>3. k + 1 \in 1..c + 1 /\ ~(k + 1 <= k)
  OBVIOUS
<1>4. p[k + 1] = x
  BY <1>1, <1>3
<1>5. ASSUME NEW i \in 1..k PROVE p[i] = s[i] /\ i \in 1..c /\ i \in 1..c + 1
  BY <1>1
<1>6. ASSUME NEW i \in k + 1..c PROVE p[i + 1] = s[i] /\ i \in 1..c /\ i + 1 \in 1..c + 1
  <2>1. i + 1 \in 1..c + 1 /\ ~(i + 1 <= k) /\ ~(i + 1 = k + 1) /\ (i + 1) - 1 = i /\ i \in 1..c
    OBVIOUS
  <2> QED
    BY <2>1, <1>1
<1>7. ASSUME NEW i \in 1..c + 1, i \notin 1..k, i # k + 1 PROVE \E j \in k + 1..c : i = j + 1
  <2>1. i - 1 \in k + 1..c /\ i = (i - 1) + 1
    BY <1>7
  <2> QED
    BY <2>1
<1> QED
  BY <1>2, <1>3, <1>4, <1>5, <1>6, <1>7 DEF p

(* The place of an item after another one was taken out.                   *)
LEMMA DropAtPlace ==
  ASSUME NEW c \in Nat, NEW s \in [1..c -> Item], NEW k \in 1..c
  PROVE  /\ Drop(s, c, k) \in [1..c - 1 -> Item] /\ c - 1 \in Nat
         /\ \A i \in 1..k - 1 : Drop(s, c, k)[i] = s[i] /\ i \in 1..c - 1 /\ i \in 1..c
         /\ \A i \in k..c - 1 : Drop(s, c, k)[i] = s[i + 1] /\ i \in 1..c - 1 /\ i + 1 \in 1..c
         /\ \A i \in 1..c - 1 : i \in 1..k - 1 \/ i \in k..c - 1
<1> DEFINE p == Drop(s, c, k)
<1>1. ASSUME NEW i \in 1..c - 1
      PROVE  p[i] = (IF i < k THEN s[i] ELSE s[i + 1]) /\ p[i] \in Item
  BY DEF Drop
<1>2. p \in [1..c - 1 -> Item]
  <2>1. p = [i \in 1..c - 1 |-> p[i]]
    BY DEF Drop
  <2> QED
    BY <2>1, <1>1
<1> HIDE DEF p
<1>3. \A i \in 1..k - 1 : p[i] = s[i] /\ i \in 1..c - 1 /\ i \in 1..c
  BY <1>1
<1>4. \A i \in k..c - 1 : p[i] = s[i + 1] /\ i \in 1..c - 1 /\ i + 1 \in 1..c
  BY <1>1
<1> QED
  BY <1>2, <1>3, <1>4 DEF p

(* A new item is linked in.                                                *)
LEMMA PutList ==
  ASSUME NEW s, NEW h, NEW t, NEW nx, NEW c, IsList(s, h, t, nx, c),
         NEW k \in 0..c, NEW x \in Item, \A i \in 1..c : s[i] # x
  PROVE  IsList(Put(s, c, k, x), IF k = 0 THEN x ELSE h, IF k = c THEN x ELSE t,
                PutNext(s, c, nx, k, x), c + 1)
<1> DEFINE p == Put(s, c, k, x)
           m == PutNext(s, c, nx, k, x)
<1>1. /\ c \in Nat /\ s \in [1..c -> Item] /\ nx \in [Item -> Item \cup {NULL}]
      /\ \A i, j \in 1..c : s[i] = s[j] => i = j
      /\ h = IF c = 0 THEN NULL ELSE s[1]
      /\ t = IF c = 0 THEN NULL ELSE s[c]
      /\ \A i \in 1..c : nx[s[i]] = IF i = c THEN NULL ELSE s[i + 1]
  BY Zenon DEF IsList
<1>2. /\ p \in [1..c + 1 -> Item] /\ p[k + 1] = x
      /\ \A i \in 1..k : p[i] = s[i] /\ i \in 1..c /\ i \in 1..c + 1
      /\ \A i \in k + 1..c : p[i + 1] = s[i] /\ i \in 1..c /\ i + 1 \in 1..c + 1
      /\ \A i \in 1..c + 1 : \/ i \in 1..k
                             \/ i = k + 1
                             \/ \E j \in k + 1..c : i = j + 1
  <2>0. p \in [1..c + 1 -> Item]
    BY <1>1, PutAt, Zenon
  <2>1. p[k + 1] = x
    BY <1>1 DEF Put
  <2>2. \A i \in 1..k : p[i] = s[i] /\ i \in 1..c /\ i \in 1..c + 1
    BY <1>1, PutAt, Zenon
  <2>3. \A i \in k + 1..c : p[i + 1] = s[i] /\ i \in 1..c /\ i + 1 \in 1..c + 1
    BY <1>1, PutAt, Zenon
  <2>4. \A i \in 1..c + 1 : \/ i \in 1..k
                            \/ i = k + 1
                            \/ \E j \in k + 1..c : i = j + 1
    BY <1>1, PutAt, Zenon
  <2> QED
    BY <2>0, <2>1, <2>2, <2>3, <2>4, Zenon
<1> HIDE DEF p
<1>3. ASSUME NEW i \in 1..c + 1, NEW j \in 1..c + 1, p[i] = p[j] PROVE i = j
  <2>0. ASSUME NEW n \in 1..c + 1, n # k + 1
        PROVE  \E a \in 1..c : p[n] = s[a] /\ ((n = a /\ a <= k) \/ (n = a + 1 /\ a > k))
    <3>1. CASE n \in 1..k
      <4>1. n \in 1..c /\ n <= k /\ p[n] = s[n]
        BY <3>1, <1>2
      <4> QED
        BY <4>1, Zenon
    <3>2. CASE \E e \in k + 1..c : n = e + 1
      <4>1. PICK e \in k + 1..c : n = e + 1
        BY <3>2
      <4>2. e \in 1..c /\ e > k /\ p[n] = s[e]
        BY <4>1, <1>1, <1>2
      <4> QED
        BY <4>1, <4>2
    <3> QED
      BY <3>1, <3>2, <2>0, <1>2, Zenon
  <2>1. \A n \in 1..c + 1 : n = k + 1 \/ p[n] # x
    BY <2>0, Zenon
  <2>2. CASE i = k + 1 \/ j = k + 1
    BY <2>1, <2>2, <1>2, <1>3, Zenon
  <2>3. CASE i # k + 1 /\ j # k + 1
    <3>1. PICK a \in 1..c : p[i] = s[a] /\ ((i = a /\ a <= k) \/ (i = a + 1 /\ a > k))
      BY <2>3, <2>0, Zenon
    <3>2. PICK b \in 1..c : p[j] = s[b] /\ ((j = b /\ b <= k) \/ (j = b + 1 /\ b > k))
      BY <2>3, <2>0, Zenon
    <3>3. a = b
      BY <3>1, <3>2, <1>1, <1>3, Zenon
    <3> QED
      BY <3>1, <3>2, <3>3, <1>1
  <2> QED
    BY <2>2, <2>3
<1>4. m \in [Item -> Item \cup {NULL}]
  <2>1. k # c => k + 1 \in 1..c
    BY <1>1
  <2>2. k # c => s[k + 1] \in Item
    BY <2>1, <1>1
  <2> QED
    BY <2>2, <1>1 DEF PutNext
<1>5. /\ m[x] = IF k = c THEN NULL ELSE s[k + 1]
      /\ \A y \in Item : y # x /\ y # Before(s, k) => m[y] = nx[y]
      /\ \A y \in Item : y # x /\ y = Before(s, k) => m[y] = x
  BY DEF PutNext
<1> HIDE DEF m
<1>6. \A i \in 1..c : s[i] \in Item /\ s[i] # x
  BY <1>1
<1>7. \A i \in 1..c : i # k => s[i] # Before(s, k)
  <2> SUFFICES ASSUME NEW i \in 1..c, i # k PROVE s[i] # Before(s, k)
    OBVIOUS
  <2>1. CASE k = 0
    BY <2>1, <1>6, NullFact, Zenon DEF Before
  <2>2. CASE k # 0
    <3>1. k \in 1..c
      BY <2>2, <1>1
    <3> QED
      BY <2>2, <3>1, <1>1, Zenon DEF Before
  <2> QED
    BY <2>1, <2>2
<1>8. ASSUME NEW i \in 1..c + 1 PROVE m[p[i]] = IF i = c + 1 THEN NULL ELSE p[i + 1]
  <2>1. CASE i \in 1..k /\ i # k
    <3>1. i # c /\ i # c + 1 /\ i \in 1..c /\ i + 1 \in 1..k
      BY <2>1, <1>1
    <3>2. m[p[i]] = nx[s[i]]
      BY <2>1, <3>1, <1>2, <1>5, <1>6, <1>7, Zenon
    <3>3. nx[s[i]] = s[i + 1] /\ p[i + 1] = s[i + 1]
      BY <3>1, <1>1, <1>2, Zenon
    <3> QED
      BY <3>1, <3>2, <3>3, Zenon
  <2>2. CASE i = k
    <3>1. k \in 1..k /\ k # 0 /\ k # c + 1 /\ k \in 1..c
      BY <2>2, <1>1
    <3>2. Before(s, k) = s[k]
      BY <3>1, Zenon DEF Before
    <3>3. m[p[k]] = x
      BY <3>1, <3>2, <1>2, <1>5, <1>6, Zenon
    <3> QED
      BY <2>2, <3>1, <3>3, <1>2, Zenon
  <2>3. CASE i = k + 1
    <3>1. CASE k = c
      BY <2>3, <3>1, <1>2, <1>5, Zenon
    <3>2. CASE k # c
      <4>1. k + 1 \in k + 1..c /\ k + 1 # c + 1
        BY <3>2, <1>1
      <4>2. p[(k + 1) + 1] = s[k + 1]
        BY <4>1, <1>2, Zenon
      <4> QED
        BY <2>3, <3>2, <4>1, <4>2, <1>2, <1>5, Zenon
    <3> QED
      BY <3>1, <3>2
  <2>4. CASE \E j \in k + 1..c : i = j + 1
    <3>1. PICK j \in k + 1..c : i = j + 1
      BY <2>4
    <3>2. j \in 1..c /\ j # k /\ (i = c + 1 <=> j = c) /\ (j # c => j + 1 \in k + 1..c)
      BY <3>1, <1>1
    <3>3. p[i] = s[j]
      BY <3>1, <1>2, Zenon
    <3>4. m[s[j]] = nx[s[j]]
      BY <3>2, <1>5, <1>6, <1>7, Zenon
    <3>5. j # c => p[i + 1] = s[j + 1]
      BY <3>1, <3>2, <1>2, Zenon
    <3> QED
      BY <3>2, <3>3, <3>4, <3>5, <1>1, Zenon
  <2> QED
    BY <2>1, <2>2, <2>3, <2>4, <1>2, Zenon
<1>9. c + 1 \in Nat /\ c + 1 # 0
  BY <1>1
<1>10. (IF k = 0 THEN x ELSE h) = p[1]
  <2>1. CASE k = 0
    <3>1. k + 1 = 1
      BY <2>1
    <3> QED
      BY <2>1, <3>1, <1>2, Zenon
  <2>2. CASE k # 0
    <3>1. 1 \in 1..k /\ c # 0
      BY <2>2, <1>1
    <3> QED
      BY <2>2, <3>1, <1>1, <1>2, Zenon
  <2> QED
    BY <2>1, <2>2
<1>11. (IF k = c THEN x ELSE t) = p[c + 1]
  <2>1. CASE k = c
    BY <2>1, <1>2, Zenon
  <2>2. CASE k # c
    <3>1. c \in k + 1..c /\ c # 0
      BY <2>2, <1>1
    <3> QED
      BY <2>2, <3>1, <1>1, <1>2, Zenon
  <2> QED
    BY <2>1, <2>2
<1> QED
  BY <1>2, <1>3, <1>4, <1>8, <1>9, <1>10, <1>11, Zenon DEF IsList, p, m

(* An item is unlinked.                                                    *)
LEMMA DropList ==
  ASSUME NEW s, NEW h, NEW t, NEW nx, NEW c, IsList(s, h, t, nx, c), NEW k \in 1..c
  PROVE  IsList(Drop(s, c, k), IF k = 1 THEN nx[s[k]] ELSE h,
                IF k = c THEN Before(s, k - 1) ELSE t, DropNext(s, nx, k), c - 1)
<1> DEFINE p == Drop(s, c, k)
           m == DropNext(s, nx, k)
<1>1. /\ c \in Nat /\ s \in [1..c -> Item] /\ nx \in [Item -> Item \cup {NULL}]
      /\ \A i, j \in 1..c : s[i] = s[j] => i = j
      /\ h = IF c = 0 THEN NULL ELSE s[1]
      /\ t = IF c = 0 THEN NULL ELSE s[c]
      /\ \A i \in 1..c : nx[s[i]] = IF i = c THEN NULL ELSE s[i + 1]
  BY Zenon DEF IsList
<1>2. /\ p \in [1..c - 1 -> Item] /\ c - 1 \in Nat
      /\ \A i \in 1..k - 1 : p[i] = s[i] /\ i \in 1..c - 1 /\ i \in 1..c
      /\ \A i \in k..c - 1 : p[i] = s[i + 1] /\ i \in 1..c - 1 /\ i + 1 \in 1..c
      /\ \A i \in 1..c - 1 : i \in 1..k - 1 \/ i \in k..c - 1
  BY <1>1, DropAtPlace, Zenon
<1> HIDE DEF p
<1>3. ASSUME NEW i \in 1..c - 1, NEW j \in 1..c - 1, p[i] = p[j] PROVE i = j
  <2>0. ASSUME NEW n \in 1..c - 1
        PROVE  \E a \in 1..c : p[n] = s[a] /\ ((n = a /\ a < k) \/ (a = n + 1 /\ a > k))
    <3>1. CASE n \in 1..k - 1
      <4>1. n \in 1..c /\ n < k /\ p[n] = s[n]
        BY <3>1, <1>2
      <4> QED
        BY <4>1, Zenon
    <3>2. CASE n \in k..c - 1
      <4>1. n + 1 \in 1..c /\ n + 1 > k /\ p[n] = s[n + 1]
        BY <3>2, <1>1, <1>2
      <4> QED
        BY <4>1, Zenon
    <3> QED
      BY <3>1, <3>2, <1>2, Zenon
  <2>1. PICK a \in 1..c : p[i] = s[a] /\ ((i = a /\ a < k) \/ (a = i + 1 /\ a > k))
    BY <2>0, Zenon
  <2>2. PICK b \in 1..c : p[j] = s[b] /\ ((j = b /\ b < k) \/ (b = j + 1 /\ b > k))
    BY <2>0, Zenon
  <2>3. a = b
    BY <2>1, <2>2, <1>1, <1>3, Zenon
  <2> QED
    BY <2>1, <2>2, <2>3, <1>1
<1>4. /\ m \in [Item -> Item \cup {NULL}]
      /\ \A y \in Item : y # Before(s, k - 1) => m[y] = nx[y]
      /\ \A y \in Item : y = Before(s, k - 1) => m[y] = nx[s[k]]
  <2>1. s[k] \in Item
    BY <1>1
  <2>2. nx[s[k]] \in Item \cup {NULL}
    BY <2>1, <1>1
  <2> QED
    BY <2>2, <1>1 DEF DropNext
<1> HIDE DEF m
<1>5. \A i \in 1..c : i # k - 1 => s[i] # Before(s, k - 1)
  <2> SUFFICES ASSUME NEW i \in 1..c, i # k - 1 PROVE s[i] # Before(s, k - 1)
    OBVIOUS
  <2>1. CASE k - 1 = 0
    <3>1. s[i] \in Item
      BY <1>1
    <3> QED
      BY <2>1, <3>1, NullFact, Zenon DEF Before
  <2>2. CASE k - 1 # 0
    <3>1. k - 1 \in 1..c
      BY <2>2, <1>1
    <3> QED
      BY <2>2, <3>1, <1>1, Zenon DEF Before
  <2> QED
    BY <2>1, <2>2
<1>6. nx[s[k]] = IF k = c THEN NULL ELSE s[k + 1]
  BY <1>1, Zenon
<1>7. ASSUME NEW i \in 1..c - 1 PROVE m[p[i]] = IF i = c - 1 THEN NULL ELSE p[i + 1]
  <2>1. CASE i \in 1..k - 1 /\ i # k - 1
    <3>1. i + 1 \in 1..k - 1 /\ i # c - 1 /\ i # c /\ i \in 1..c
      BY <2>1, <1>1
    <3>2. p[i] = s[i] /\ p[i + 1] = s[i + 1] /\ s[i] \in Item
      BY <2>1, <3>1, <1>1, <1>2
    <3>3. m[s[i]] = nx[s[i]]
      BY <2>1, <3>1, <3>2, <1>4, <1>5, Zenon
    <3> QED
      BY <3>1, <3>2, <3>3, <1>1, Zenon
  <2>2. CASE i = k - 1
    <3>1. k - 1 # 0 /\ k - 1 \in 1..k - 1 /\ (i = c - 1 <=> k = c) /\ i + 1 = k
          /\ (k # c => k \in k..c - 1)
      BY <2>2, <1>1
    <3>2. p[i] = s[k - 1] /\ Before(s, k - 1) = s[k - 1] /\ s[k - 1] \in Item
      <4>1. s[k - 1] \in Item
        BY <3>1, <1>1
      <4> QED
        BY <2>2, <3>1, <4>1, <1>2, Zenon DEF Before
    <3>3. m[p[i]] = nx[s[k]]
      BY <3>2, <1>4, Zenon
    <3>4. k # c => p[i + 1] = s[k + 1]
      BY <3>1, <1>2, Zenon
    <3> QED
      BY <3>1, <3>3, <3>4, <1>6, Zenon
  <2>3. CASE i \in k..c - 1
    <3>1. i + 1 \in 1..c /\ i + 1 # k - 1 /\ (i = c - 1 <=> i + 1 = c)
          /\ (i # c - 1 => i + 1 \in k..c - 1)
      BY <2>3, <1>1
    <3>2. p[i] = s[i + 1] /\ s[i + 1] \in Item
      BY <2>3, <3>1, <1>1, <1>2
    <3>3. m[p[i]] = nx[s[i + 1]]
      BY <3>1, <3>2, <1>4, <1>5, Zenon
    <3>4. i # c - 1 => p[i + 1] = s[(i + 1) + 1]
      BY <3>1, <1>2, Zenon
    <3> QED
      BY <3>1, <3>3, <3>4, <1>1, Zenon
  <2> QED
    BY <2>1, <2>2, <2>3, <1>2, Zenon
<1>8. (IF k = 1 THEN nx[s[k]] ELSE h) = IF c - 1 = 0 THEN NULL ELSE p[1]
  <2>1. CASE k = 1
    <3>1. (c - 1 = 0 <=> k = c) /\ k + 1 = 1 + 1 /\ (c - 1 # 0 => 1 \in k..c - 1)
      BY <2>1, <1>1
    <3> QED
      BY <2>1, <3>1, <1>2, <1>6, Zenon
  <2>2. CASE k # 1
    <3>1. 1 \in 1..k - 1 /\ c - 1 # 0 /\ c # 0
      BY <2>2, <1>1
    <3> QED
      BY <2>2, <3>1, <1>1, <1>2, Zenon
  <2> QED
    BY <2>1, <2>2
<1>9. (IF k = c THEN Before(s, k - 1) ELSE t) = IF c - 1 = 0 THEN NULL ELSE p[c - 1]
  <2>1. CASE k = c
    <3>1. k - 1 = c - 1 /\ (c - 1 # 0 => c - 1 \in 1..k - 1)
      BY <2>1, <1>1
    <3> QED
      BY <2>1, <3>1, <1>2, Zenon DEF Before
  <2>2. CASE k # c
    <3>1. c - 1 \in k..c - 1 /\ c - 1 # 0 /\ c # 0 /\ (c - 1) + 1 = c
      BY <2>2, <1>1
    <3> QED
      BY <2>2, <3>1, <1>1, <1>2, Zenon
  <2> QED
    BY <2>1, <2>2
<1> QED
  BY <1>2, <1>3, <1>4, <1>7, <1>8, <1>9, Zenon DEF IsList, p, m

(* The pointers determine the items.                                       *)
LEMMA OneList ==
  ASSUME NEW h, NEW nx, NEW c, NEW t, NEW s, NEW r, NEW u,
         IsList(s, h, t, nx, c), IsList(r, h, u, nx, c)
  PROVE  s = r
<1>1. /\ c \in Nat /\ s \in [1..c -> Item] /\ r \in [1..c -> Item]
      /\ h = (IF c = 0 THEN NULL ELSE s[1]) /\ h = (IF c = 0 THEN NULL ELSE r[1])
      /\ \A i \in 1..c : nx[s[i]] = IF i = c THEN NULL ELSE s[i + 1]
      /\ \A i \in 1..c : nx[r[i]] = IF i = c THEN NULL ELSE r[i + 1]
  BY Zenon DEF IsList
<1> DEFINE T == {i \in 1..c : s[i] # r[i]}
<1>2. SUFFICES ASSUME T # {} PROVE FALSE
  BY <1>1
<1>3. T \in SUBSET Nat
  OBVIOUS
<1>4. PICK z \in T : \A y \in T : ~ (<<y, z>> \in OpToRel(<, Nat))
  BY <1>2, <1>3, NatLessThanWellFounded, WFMin
<1>5. z \in 1..c /\ s[z] # r[z] /\ c # 0
  <2>1. z \in 1..c /\ s[z] # r[z]
    OBVIOUS
  <2> QED
    BY <2>1, <1>1
<1>6. z # 1
  BY <1>1, <1>5, Zenon
<1>7. z - 1 \in 1..c /\ z - 1 # c /\ (z - 1) + 1 = z /\ z - 1 < z
  BY <1>1, <1>5, <1>6
<1>8. z - 1 \notin T
  <2>1. <<z - 1, z>> \in OpToRel(<, Nat)
    BY <1>7, <1>5 DEF OpToRel
  <2> QED
    BY <2>1, <1>4
<1>9. s[z - 1] = r[z - 1]
  BY <1>7, <1>8
<1> QED
  BY <1>1, <1>5, <1>7, <1>9, Zenon

-----------------------------------------------------------------------------
(* Chains, with the pointers as parameters.                                *)
ChainsOf(h, nx, c) ==
  {s \in [1..c -> Item] :
     /\ \A i \in 1..Len(s) : s[i] \in Item
     /\ \A i, j \in 1..Len(s) : s[i] = s[j] => i = j
     /\ h = IF s = <<>> THEN NULL ELSE s[1]
     /\ \A i \in 1..Len(s) : nx[s[i]] = IF i = Len(s) THEN NULL ELSE s[i + 1]}

(* The pointers lead through exactly one sequence of items.                *)
LEMMA OneChain ==
  ASSUME NEW s, NEW h, NEW t, NEW nx, NEW c, IsList(s, h, t, nx, c)
  PROVE  ChainsOf(h, nx, c) = {s}
<1>1. /\ c \in Nat /\ s \in [1..c -> Item] /\ nx \in [Item -> Item \cup {NULL}]
      /\ \A i, j \in 1..c : s[i] = s[j] => i = j
      /\ h = IF c = 0 THEN NULL ELSE s[1]
      /\ \A i \in 1..c : nx[s[i]] = IF i = c THEN NULL ELSE s[i + 1]
  BY Zenon DEF IsList
<1>2. Len(s) = c /\ (s = <<>> <=> c = 0)
  BY <1>1, SeqOfFun
<1>3. s \in ChainsOf(h, nx, c)
  <2>1. \A i \in 1..c : s[i] \in Item
    BY <1>1
  <2> QED
    BY <2>1, <1>1, <1>2, Zenon DEF ChainsOf
<1>4. ASSUME NEW r \in ChainsOf(h, nx, c) PROVE r = s
  <2>1. r \in [1..c -> Item]
    BY DEF ChainsOf
  <2>2. Len(r) = c /\ (r = <<>> <=> c = 0)
    BY <1>1, <2>1, SeqOfFun
  <2>3. /\ \A i, j \in 1..c : r[i] = r[j] => i = j
        /\ h = IF c = 0 THEN NULL ELSE r[1]
        /\ \A i \in 1..c : nx[r[i]] = IF i = c THEN NULL ELSE r[i + 1]
    BY <2>2, Zenon DEF ChainsOf
  <2>4. IsList(r, h, IF c = 0 THEN NULL ELSE r[c], nx, c)
    BY <2>1, <2>3, <1>1, Zenon DEF IsList
  <2> QED
    BY <2>4, OneList, Zenon
<1> QED
  BY <1>3, <1>4, Zenon

(* The same for the list of this state and of the next one.                *)
LEMMA ListNow == ASSUME NEW s, List(s) PROVE Chains = {s} /\ Contents = s
<1>1. Chains = ChainsOf(head, next, curNum)
  BY Zenon DEF Chains, ChainsOf, IsChain
<1>2. Contents = CHOOSE r \in Chains : TRUE
  BY DEF Contents
<1>3. Chains = {s}
  <2>1. IsList(s, head, tail, next, curNum)
    BY DEF List
  <2>2. ChainsOf(head, next, curNum) = {s}
    BY <2>1, OneChain
  <2> QED
    BY <1>1, <2>2
<1>4. Contents = CHOOSE r \in {s} : TRUE
  BY <1>2, <1>3, Zenon
<1> QED
  BY <1>3, <1>4

(* The same, for the next state.                                           *)
LEMMA ListNext ==
  ASSUME NEW s, IsList(s, head', tail', next', curNum')
  PROVE  Chains' = {s} /\ Contents' = s
<1>1. Chains' = ChainsOf(head', next', curNum')
  BY Zenon DEF Chains, ChainsOf, IsChain
<1>2. Contents' = CHOOSE r \in Chains' : TRUE
  BY DEF Contents
<1>3. Chains' = {s}
  <2>1. ChainsOf(head', next', curNum') = {s}
    BY OneChain
  <2> QED
    BY <1>1, <2>1
<1>4. Contents' = CHOOSE r \in {s} : TRUE
  BY <1>2, <1>3, Zenon
<1> QED
  BY <1>3, <1>4

(* What a list says of the variables.                                      *)
LEMMA ListFacts ==
  ASSUME NEW s, List(s)
  PROVE  /\ curNum \in Nat /\ s \in [1..curNum -> Item] /\ s \in Seq(Item) /\ Len(s) = curNum
         /\ (s = <<>> <=> curNum = 0) /\ next \in [Item -> Item \cup {NULL}]
         /\ \A i \in 1..curNum : s[i] \in Item /\ s[i] # NULL
         /\ \A i, j \in 1..curNum : s[i] = s[j] => i = j
         /\ curNum = 0 => head = NULL /\ tail = NULL
         /\ curNum # 0 => /\ head = s[1] /\ tail = s[curNum] /\ head # NULL /\ tail # NULL
                          /\ 1 \in 1..curNum /\ curNum \in 1..curNum
         /\ \A i \in 1..curNum : next[s[i]] = IF i = curNum THEN NULL ELSE s[i + 1]
<1>1. /\ curNum \in Nat /\ s \in [1..curNum -> Item] /\ next \in [Item -> Item \cup {NULL}]
      /\ \A i, j \in 1..curNum : s[i] = s[j] => i = j
      /\ head = (IF curNum = 0 THEN NULL ELSE s[1])
      /\ tail = (IF curNum = 0 THEN NULL ELSE s[curNum])
      /\ \A i \in 1..curNum : next[s[i]] = IF i = curNum THEN NULL ELSE s[i + 1]
  BY Zenon DEF List, IsList
<1>2. s \in Seq(Item) /\ Len(s) = curNum /\ (s = <<>> <=> curNum = 0)
  BY <1>1, SeqOfFun
<1>3. \A i \in 1..curNum : s[i] \in Item
  BY <1>1
<1>4. curNum # 0 => 1 \in 1..curNum /\ curNum \in 1..curNum
  BY <1>1
<1>5. \A i \in 1..curNum : s[i] # NULL
  BY <1>3, NullFact, Zenon
<1>6. curNum = 0 => head = NULL /\ tail = NULL
  BY <1>1, Zenon
<1>7. curNum # 0 => head = s[1] /\ tail = s[curNum] /\ head # NULL /\ tail # NULL
  BY <1>1, <1>4, <1>5, Zenon
<1> QED
  BY <1>1, <1>2, <1>3, <1>4, <1>5, <1>6, <1>7

-----------------------------------------------------------------------------
(* What the calls do to a list s: an item is put behind the first k, or    *)
(* the k-th one is taken out.                                              *)
Fresh(s, x) == x \in Item /\ \A i \in 1..curNum : s[i] # x

PutStep(s, k, x) ==
  /\ head' = (IF k = 0 THEN x ELSE head)
  /\ tail' = (IF k = curNum THEN x ELSE tail)
  /\ next' = PutNext(s, curNum, next, k, x)
  /\ curNum' = curNum + 1
  /\ arrived' = Append(arrived, x)

DropStep(s, k) ==
  /\ head' = (IF k = 1 THEN next[s[k]] ELSE head)
  /\ tail' = (IF k = curNum THEN Before(s, k - 1) ELSE tail)
  /\ next' = DropNext(s, next, k)
  /\ curNum' = curNum - 1
  /\ arrived' = Gone(s[k])

(* Whether an item is queued, in terms of the list.                        *)
LEMMA QueuedIs ==
  ASSUME NEW s, List(s), NEW x
  PROVE  Queued(x) <=> \E i \in 1..curNum : s[i] = x
<1>1. Chains = {s} /\ Len(s) = curNum
  BY ListNow, ListFacts, Zenon
<1> QED
  BY <1>1 DEF Queued

(* queue_enq.                                                              *)
LEMMA EnqIs ==
  ASSUME NEW s, List(s), NEW x, Enq(x)
  PROVE  inserted' = inserted /\ \E k \in 0..curNum : Search(s, k, x) /\ PutStep(s, k, x)
<1>1. Chains = {s} /\ Len(s) = curNum
  BY ListNow, ListFacts, Zenon
<1>2. PICK k \in 0..curNum :
        /\ Search(s, k, x)
        /\ head' = IF k = 0 THEN x ELSE head
        /\ next' = [y \in Item |-> IF y = x THEN After(s, k)
                                   ELSE IF y = Before(s, k) THEN x ELSE next[y]]
        /\ tail' = IF k = Len(s) THEN x ELSE tail
        /\ curNum' = curNum + 1
        /\ arrived' = Append(arrived, x)
        /\ inserted' = inserted
  BY <1>1 DEF Enq
<1>3. next' = PutNext(s, curNum, next, k, x)
  BY <1>1, <1>2 DEF PutNext, After
<1> QED
  BY <1>1, <1>2, <1>3, Zenon DEF PutStep

(* queue_deq of a queue that is not empty.                                 *)
LEMMA DeqIs ==
  ASSUME NEW s, List(s), Deq, curNum # 0
  PROVE  DropStep(s, 1) /\ inserted' = inserted /\ 1 \in 1..curNum
         /\ call' = [op |-> "deq", item |-> s[1], prev |-> NULL, ret |-> "SUCCESS"]
<1>1. head = s[1] /\ head # NULL /\ 1 \in 1..curNum /\ curNum \in Nat
      /\ next \in [Item -> Item \cup {NULL}]
  BY ListFacts, Zenon
<1>2. next[s[1]] = NULL <=> 1 = curNum
  <2>1. next[s[1]] = IF 1 = curNum THEN NULL ELSE s[1 + 1]
    BY <1>1, ListFacts, Zenon
  <2>2. 1 # curNum => 1 + 1 \in 1..curNum
    BY <1>1
  <2>3. 1 # curNum => s[1 + 1] # NULL
    BY <2>2, ListFacts, Zenon
  <2> QED
    BY <2>1, <2>3, Zenon
<1>3. Before(s, 1 - 1) = NULL
  BY DEF Before
<1>4. DropNext(s, next, 1) = next
  <2>1. \A y \in Item : y # Before(s, 1 - 1)
    BY <1>3, NullFact, Zenon
  <2> QED
    BY <2>1, <1>1 DEF DropNext
<1>5. /\ head' = next[head] /\ tail' = TailOnDeq /\ curNum' = curNum - 1
      /\ arrived' = Gone(head) /\ next' = next /\ inserted' = inserted
      /\ call' = [op |-> "deq", item |-> head, prev |-> NULL, ret |-> "SUCCESS"]
  BY <1>1, Zenon DEF Deq, Answer
<1>6. tail' = IF 1 = curNum THEN Before(s, 1 - 1) ELSE tail
  BY <1>1, <1>2, <1>3, <1>5, Zenon DEF TailOnDeq
<1> QED
  BY <1>1, <1>4, <1>5, <1>6, Zenon DEF DropStep

(* queue_insert between two items, or before the first.                    *)
LEMMA InsertIs ==
  ASSUME NEW s, List(s), NEW x \in Item, NEW p \in Item \cup {NULL},
         p # NULL => Queued(p), Insert(x, p), ~(head = NULL \/ p = tail)
  PROVE  /\ inserted' = TRUE
         /\ \E k \in 0..curNum : k # curNum /\ p = Before(s, k) /\ PutStep(s, k, x)
<1>1. /\ next' = Linked(x, p) /\ head' = (IF p = NULL THEN x ELSE head)
      /\ curNum' = curNum + 1 /\ arrived' = Append(arrived, x) /\ inserted' = TRUE
      /\ tail' = tail
  BY Zenon DEF Insert
<1>2. curNum # 0 /\ curNum \in Nat
  BY ListFacts, Zenon
<1>3. head = s[1] /\ tail = s[curNum]
  BY <1>2, ListFacts, Zenon
<1>4. PICK k \in 0..curNum : k # curNum /\ p = Before(s, k) /\ (k = 0 <=> p = NULL)
  <2>1. CASE p = NULL
    <3>1. 0 \in 0..curNum /\ 0 # curNum /\ Before(s, 0) = NULL
      BY <1>2 DEF Before
    <3> QED
      BY <2>1, <3>1, Zenon
  <2>2. CASE p # NULL
    <3>1. PICK i \in 1..curNum : s[i] = p
      BY <2>2, QueuedIs, Zenon
    <3>2. i # curNum
      BY <3>1, <1>3, Zenon
    <3>3. i \in 0..curNum /\ i # 0
      BY <1>2
    <3> QED
      BY <2>2, <3>1, <3>2, <3>3, Zenon DEF Before
  <2> QED
    BY <2>1, <2>2
<1>5. (IF p = NULL THEN head ELSE next[p]) = s[k + 1]
  <2>1. CASE p = NULL
    <3>1. k + 1 = 1
      BY <2>1, <1>4
    <3> QED
      BY <2>1, <3>1, <1>3, Zenon
  <2>2. CASE p # NULL
    <3>1. k \in 1..curNum /\ k # curNum /\ k # 0
      BY <2>2, <1>2, <1>4
    <3>2. p = s[k]
      BY <3>1, <1>4, Zenon DEF Before
    <3>3. next[s[k]] = s[k + 1]
      BY <3>1, ListFacts, Zenon
    <3> QED
      BY <2>2, <3>2, <3>3, Zenon
  <2> QED
    BY <2>1, <2>2
<1>6. Linked(x, p) = PutNext(s, curNum, next, k, x)
  BY <1>4, <1>5 DEF Linked, PutNext
<1> QED
  BY <1>1, <1>4, <1>6, Zenon DEF PutStep

-----------------------------------------------------------------------------
(* Every call is one of four things: an item put where queue_enq's search  *)
(* stops, an item put where the caller said, an item taken out, or         *)
(* nothing.                                                                *)
Ans(op, x, p, ret) == [op |-> op, item |-> x, prev |-> p, ret |-> ret]

EnqStep(s) ==
  /\ inserted' = inserted
  /\ \E x \in Item, k \in 0..curNum :
       /\ Fresh(s, x) /\ Search(s, k, x) /\ PutStep(s, k, x)
       /\ \/ call' = Ans("enq", x, NULL, "SUCCESS")
          \/ call' = Ans("insert", x, Before(s, curNum), "SUCCESS")

InsStep(s) ==
  /\ inserted' = TRUE
  /\ \E x \in Item, k \in 0..curNum :
       /\ Fresh(s, x) /\ k # curNum /\ PutStep(s, k, x)
       /\ call' = Ans("insert", x, Before(s, k), "SUCCESS")

DelStep(s) ==
  /\ inserted' = inserted
  /\ \E k \in 1..curNum :
       /\ DropStep(s, k)
       /\ \/ k = 1 /\ call' = Ans("deq", s[1], NULL, "SUCCESS")
          \/ call' = Ans("remove", s[k], Before(s, k - 1), "SUCCESS")
          \/ call' = Ans("delete", s[k], NULL, "SUCCESS")

SameStep(s) ==
  /\ UNCHANGED <<head, next, tail, curNum, arrived, inserted>>
  /\ \/ curNum = 0 /\ call' = Ans("deq", NULL, NULL, "SUCCESS")
     \/ \E x \in Item :
          Fresh(s, x) /\ call' = Ans("delete", x, NULL, IF curNum = 0 THEN "EMPTY" ELSE "NOT_FOUND")

(* An item that is not queued.                                             *)
LEMMA FreshIs ==
  ASSUME NEW s, List(s), NEW x \in Item, ~Queued(x) PROVE Fresh(s, x)
  BY QueuedIs, Zenon DEF Fresh

(* queue_enq, with its answer.                                             *)
LEMMA EnqCall ==
  ASSUME NEW s, List(s), NEW x \in Item, ~Queued(x), Enq(x), Answer("enq", x, NULL, "SUCCESS")
  PROVE  EnqStep(s)
<1>1. PICK k \in 0..curNum : Search(s, k, x) /\ PutStep(s, k, x)
  BY EnqIs, Zenon
<1>2. inserted' = inserted
  BY EnqIs, Zenon
<1>3. call' = Ans("enq", x, NULL, "SUCCESS")
  BY DEF Answer, Ans
<1> QED
  BY <1>1, <1>2, <1>3, FreshIs, Zenon DEF EnqStep

(* queue_deq, of a queue that may be empty.                                *)
LEMMA DeqCall == ASSUME NEW s, List(s), Deq PROVE DelStep(s) \/ SameStep(s)
<1>1. CASE curNum # 0
  <2>1. DropStep(s, 1) /\ inserted' = inserted /\ 1 \in 1..curNum
        /\ call' = [op |-> "deq", item |-> s[1], prev |-> NULL, ret |-> "SUCCESS"]
    BY <1>1, DeqIs, Zenon
  <2>2. call' = Ans("deq", s[1], NULL, "SUCCESS")
    BY <2>1, Zenon DEF Ans
  <2> QED
    BY <2>1, <2>2, Zenon DEF DelStep
<1>2. CASE curNum = 0
  <2>1. head = NULL
    BY <1>2, ListFacts, Zenon
  <2>2. UNCHANGED <<head, next, tail, curNum, arrived, inserted>>
        /\ call' = [op |-> "deq", item |-> NULL, prev |-> NULL, ret |-> "SUCCESS"]
    BY <2>1 DEF Deq, Answer
  <2>3. call' = Ans("deq", NULL, NULL, "SUCCESS")
    BY <2>2, Zenon DEF Ans
  <2> QED
    BY <1>2, <2>2, <2>3, Zenon DEF SameStep
<1> QED
  BY <1>1, <1>2

(* queue_insert, which enqueues behind the last item.                      *)
LEMMA InsertCall ==
  ASSUME NEW s, List(s), NEW x \in Item, NEW p \in Item \cup {NULL},
         ~Queued(x), p # NULL => Queued(p), Insert(x, p)
  PROVE  EnqStep(s) \/ InsStep(s)
<1>1. call' = Ans("insert", x, p, "SUCCESS")
  BY DEF Insert, Answer, Ans
<1>2. Fresh(s, x)
  BY FreshIs, Zenon
<1>3. CASE head = NULL \/ p = tail
  <2>1. Enq(x)
    BY <1>3, Zenon DEF Insert
  <2>2. PICK k \in 0..curNum : Search(s, k, x) /\ PutStep(s, k, x)
    BY <2>1, EnqIs, Zenon
  <2>3. inserted' = inserted
    BY <2>1, EnqIs, Zenon
  <2>4. p = Before(s, curNum)
    <3>1. CASE curNum = 0
      <4>1. ~Queued(p)
        <5>1. ~\E i \in 1..curNum : s[i] = p
          BY <3>1
        <5> QED
          BY <5>1, QueuedIs, Zenon
      <4> QED
        BY <4>1, <3>1, Zenon DEF Before
    <3>2. CASE curNum # 0
      <4>1. head # NULL /\ tail = s[curNum]
        BY <3>2, ListFacts, Zenon
      <4> QED
        BY <4>1, <3>2, <1>3, Zenon DEF Before
    <3> QED
      BY <3>1, <3>2
  <2>5. call' = Ans("insert", x, Before(s, curNum), "SUCCESS")
    BY <2>4, <1>1, Zenon
  <2> QED
    BY <2>2, <2>3, <2>5, <1>2, Zenon DEF EnqStep
<1>4. CASE ~(head = NULL \/ p = tail)
  <2>1. inserted' = TRUE
    BY <1>4, InsertIs, Zenon
  <2>2. PICK k \in 0..curNum : k # curNum /\ p = Before(s, k) /\ PutStep(s, k, x)
    BY <1>4, InsertIs, Zenon
  <2>3. call' = Ans("insert", x, Before(s, k), "SUCCESS")
    BY <2>2, <1>1, Zenon
  <2> QED
    BY <2>1, <2>2, <2>3, <1>2, Zenon DEF InsStep
<1> QED
  BY <1>3, <1>4

(* queue_remove, given the item before the one to remove.                  *)
LEMMA RemoveCall ==
  ASSUME NEW s, List(s), NEW k \in 1..curNum, Remove(s[k], Before(s, k - 1))
  PROVE  DelStep(s)
<1>1. /\ head' = (IF head = s[k] THEN next[s[k]] ELSE head)
      /\ next' = [y \in Item |-> IF head # s[k] /\ y = Before(s, k - 1) THEN next[s[k]] ELSE next[y]]
      /\ tail' = (IF tail = s[k] THEN Before(s, k - 1) ELSE tail)
      /\ curNum' = curNum - 1 /\ arrived' = Gone(s[k]) /\ inserted' = inserted
      /\ call' = [op |-> "remove", item |-> s[k], prev |-> Before(s, k - 1), ret |-> "SUCCESS"]
  BY DEF Remove, Answer
<1>2. curNum \in Nat
  BY ListFacts, Zenon
<1>3. curNum # 0
  BY <1>2
<1>4. head = s[k] <=> k = 1
  <2>1. head = s[1] /\ 1 \in 1..curNum
    BY <1>3, ListFacts, Zenon
  <2>2. \A i, j \in 1..curNum : s[i] = s[j] => i = j
    BY ListFacts, Zenon
  <2> QED
    BY <2>1, <2>2, Zenon
<1>5. next' = DropNext(s, next, k)
  <2>1. k = 1 => Before(s, k - 1) = NULL
    BY DEF Before
  <2>2. \A y \in Item : head # s[k] /\ y = Before(s, k - 1) <=> y = Before(s, k - 1)
    BY <2>1, <1>4, NullFact, Zenon
  <2> QED
    BY <2>2, <1>1 DEF DropNext
<1>6. tail = s[k] <=> k = curNum
  <2>1. tail = s[curNum] /\ curNum \in 1..curNum
    BY <1>3, ListFacts, Zenon
  <2>2. \A i, j \in 1..curNum : s[i] = s[j] => i = j
    BY ListFacts, Zenon
  <2> QED
    BY <2>1, <2>2, Zenon
<1>7. DropStep(s, k)
  BY <1>1, <1>4, <1>5, <1>6, Zenon DEF DropStep
<1>8. call' = Ans("remove", s[k], Before(s, k - 1), "SUCCESS")
  BY <1>1, Zenon DEF Ans
<1> QED
  BY <1>1, <1>7, <1>8, Zenon DEF DelStep

(* queue_delete, which may not find the item.                              *)
LEMMA DeleteCall ==
  ASSUME NEW s, List(s), NEW x \in Item, DeleteFound(x) \/ DeleteMissed(x)
  PROVE  DelStep(s) \/ SameStep(s)
<1>1. Chains = {s} /\ Len(s) = curNum /\ curNum \in Nat
  BY ListNow, ListFacts, Zenon
<1>2. CASE DeleteFound(x)
  <2>1. PICK k \in 1..curNum :
          /\ s[k] = x
          /\ head' = IF k = 1 THEN next[x] ELSE head
          /\ next' = [y \in Item |-> IF y = Before(s, k - 1) THEN next[x] ELSE next[y]]
          /\ tail' = IF tail = x THEN Before(s, k - 1) ELSE tail
          /\ curNum' = curNum - 1
          /\ arrived' = Gone(x)
          /\ call' = [op |-> "delete", item |-> x, prev |-> NULL, ret |-> "SUCCESS"]
          /\ inserted' = inserted
    BY <1>1, <1>2 DEF DeleteFound, Answer
  <2>2. next' = DropNext(s, next, k)
    BY <2>1 DEF DropNext
  <2>3. tail = s[k] <=> k = curNum
    <3>0. curNum # 0
      BY <1>1
    <3>1. tail = s[curNum] /\ curNum \in 1..curNum
      BY <3>0, ListFacts, Zenon
    <3>2. \A i, j \in 1..curNum : s[i] = s[j] => i = j
      BY ListFacts, Zenon
    <3> QED
      BY <3>1, <3>2, Zenon
  <2>4. DropStep(s, k)
    BY <2>1, <2>2, <2>3, Zenon DEF DropStep
  <2>5. call' = Ans("delete", s[k], NULL, "SUCCESS")
    BY <2>1, Zenon DEF Ans
  <2> QED
    BY <2>1, <2>4, <2>5, Zenon DEF DelStep
<1>3. CASE DeleteMissed(x)
  <2>1. Fresh(s, x)
    BY <1>3, FreshIs, Zenon DEF DeleteMissed
  <2>2. UNCHANGED <<head, next, tail, curNum, arrived, inserted>>
        /\ call' = [op |-> "delete", item |-> x, prev |-> NULL,
                    ret |-> IF head = NULL THEN "EMPTY" ELSE "NOT_FOUND"]
    BY <1>3 DEF DeleteMissed, Answer
  <2>3. head = NULL <=> curNum = 0
    BY ListFacts, Zenon
  <2>4. call' = Ans("delete", x, NULL, IF curNum = 0 THEN "EMPTY" ELSE "NOT_FOUND")
    BY <2>2, <2>3 DEF Ans
  <2> QED
    BY <2>1, <2>2, <2>4, Zenon DEF SameStep
<1> QED
  BY <1>2, <1>3

(* Every call is one of the four.                                          *)
LEMMA StepIs ==
  ASSUME NEW s, List(s), Next
  PROVE  (EnqStep(s) \/ InsStep(s) \/ DelStep(s) \/ SameStep(s)) /\ usePri' = usePri
<1>1. usePri' = usePri
  BY DEF Next
<1>2. Chains = {s} /\ Len(s) = curNum
  BY ListNow, ListFacts, Zenon
<1>3. \/ \E x \in Item : ~Queued(x) /\ Enq(x) /\ Answer("enq", x, NULL, "SUCCESS")
      \/ Deq
      \/ \E x \in Item, p \in Item \cup {NULL} :
           ~Queued(x) /\ (p # NULL => Queued(p)) /\ Insert(x, p)
      \/ \E k \in 1..curNum : Remove(s[k], Before(s, k - 1))
      \/ \E x \in Item : DeleteFound(x) \/ DeleteMissed(x)
  BY <1>2 DEF Next
<1>4. CASE \E x \in Item : ~Queued(x) /\ Enq(x) /\ Answer("enq", x, NULL, "SUCCESS")
  BY <1>1, <1>4, EnqCall, Zenon
<1>5. CASE Deq
  BY <1>1, <1>5, DeqCall, Zenon
<1>6. CASE \E x \in Item, p \in Item \cup {NULL} :
             ~Queued(x) /\ (p # NULL => Queued(p)) /\ Insert(x, p)
  BY <1>1, <1>6, InsertCall, Zenon
<1>7. CASE \E k \in 1..curNum : Remove(s[k], Before(s, k - 1))
  BY <1>1, <1>7, RemoveCall, Zenon
<1>8. CASE \E x \in Item : DeleteFound(x) \/ DeleteMissed(x)
  BY <1>1, <1>8, DeleteCall, Zenon
<1> QED
  BY <1>3, <1>4, <1>5, <1>6, <1>7, <1>8, Zenon

(* The list after each of them.                                            *)
LEMMA PutStepList ==
  ASSUME NEW s, List(s), NEW k \in 0..curNum, NEW x \in Item, Fresh(s, x), PutStep(s, k, x)
  PROVE  IsList(Put(s, curNum, k, x), head', tail', next', curNum')
<1>1. IsList(s, head, tail, next, curNum) /\ \A i \in 1..curNum : s[i] # x
  BY Zenon DEF List, Fresh
<1>2. IsList(Put(s, curNum, k, x), IF k = 0 THEN x ELSE head, IF k = curNum THEN x ELSE tail,
             PutNext(s, curNum, next, k, x), curNum + 1)
  BY <1>1, PutList, Zenon
<1> QED
  BY <1>2, Zenon DEF PutStep

(* The list after an item was taken out.                                   *)
LEMMA DropStepList ==
  ASSUME NEW s, List(s), NEW k \in 1..curNum, DropStep(s, k)
  PROVE  IsList(Drop(s, curNum, k), head', tail', next', curNum')
<1>1. IsList(s, head, tail, next, curNum)
  BY Zenon DEF List
<1>2. IsList(Drop(s, curNum, k), IF k = 1 THEN next[s[k]] ELSE head,
             IF k = curNum THEN Before(s, k - 1) ELSE tail, DropNext(s, next, k), curNum - 1)
  BY <1>1, DropList, Zenon
<1> QED
  BY <1>2, Zenon DEF DropStep

-----------------------------------------------------------------------------
(* The history arr of arrivals has the items of s.                         *)
Arrivals(s, arr, c) ==
  /\ arr \in [1..c -> Item]
  /\ \A m, n \in 1..c : arr[m] = arr[n] => m = n
  /\ \A i \in 1..c : \E n \in 1..c : arr[n] = s[i]
  /\ \A n \in 1..c : \E i \in 1..c : arr[n] = s[i]

(* x, the m-th arrival, is served before y, the n-th.                      *)
Goes(x, y, m, n) ==
  \/ usePri /\ Pri[x] < Pri[y]
  \/ (usePri => Pri[x] = Pri[y]) /\ m < n

Served(s, arr, c) ==
  \A i, j, m, n \in 1..c :
    i < j /\ arr[m] = s[i] /\ arr[n] = s[j] => Goes(s[i], s[j], m, n)

(* Where the items of a sequence are after one was put in or taken out.    *)
WasAt(p, s, c, k, i) ==
  \E a \in 1..c : p[i] = s[a] /\ ((i = a /\ a <= k) \/ (i = a + 1 /\ a > k))

(* An item that was there before.                                          *)
LEMMA PutOld ==
  ASSUME NEW c \in Nat, NEW s \in [1..c -> Item], NEW k \in 0..c, NEW x \in Item,
         NEW i \in 1..c + 1, i # k + 1
  PROVE  WasAt(Put(s, c, k, x), s, c, k, i)
<1> DEFINE p == Put(s, c, k, x)
<1>2. \A n \in 1..k : p[n] = s[n] /\ n \in 1..c /\ n \in 1..c + 1
  BY PutAt, Zenon
<1>3. \A n \in k + 1..c : p[n + 1] = s[n] /\ n \in 1..c /\ n + 1 \in 1..c + 1
  BY PutAt, Zenon
<1>4. \A n \in 1..c + 1 : \/ n \in 1..k
                          \/ n = k + 1
                          \/ \E j \in k + 1..c : n = j + 1
  BY PutAt, Zenon
<1> HIDE DEF p
<1>5. \E a \in 1..c : p[i] = s[a] /\ ((i = a /\ a <= k) \/ (i = a + 1 /\ a > k))
  <2>1. CASE i \in 1..k
    <3>1. i \in 1..c /\ i <= k /\ p[i] = s[i]
      BY <2>1, <1>2
    <3> QED
      BY <3>1, Zenon
  <2>2. CASE \E j \in k + 1..c : i = j + 1
    <3>1. PICK j \in k + 1..c : i = j + 1
      BY <2>2
    <3>2. j \in 1..c /\ j > k /\ p[i] = s[j]
      BY <3>1, <1>3
    <3> QED
      BY <3>1, <3>2, Zenon
  <2> QED
    BY <2>1, <2>2, <1>4, Zenon
<1> QED
  BY <1>5, Zenon DEF p, WasAt

(* No item is lost.                                                        *)
LEMMA PutKeeps ==
  ASSUME NEW c \in Nat, NEW s \in [1..c -> Item], NEW k \in 0..c, NEW x \in Item, NEW a \in 1..c
  PROVE  \E i \in 1..c + 1 : Put(s, c, k, x)[i] = s[a]
<1>1. a \in 1..k \/ a \in k + 1..c
  OBVIOUS
<1>2. \A n \in 1..k : Put(s, c, k, x)[n] = s[n] /\ n \in 1..c /\ n \in 1..c + 1
  BY PutAt, Zenon
<1>3. \A n \in k + 1..c : Put(s, c, k, x)[n + 1] = s[n] /\ n \in 1..c /\ n + 1 \in 1..c + 1
  BY PutAt, Zenon
<1> QED
  BY <1>1, <1>2, <1>3, Zenon

LeftAt(p, s, c, k, i) ==
  \E a \in 1..c : p[i] = s[a] /\ ((i = a /\ a < k) \/ (a = i + 1 /\ a > k))

(* An item that is left.                                                   *)
LEMMA DropOld ==
  ASSUME NEW c \in Nat, NEW s \in [1..c -> Item], NEW k \in 1..c, NEW i \in 1..c - 1
  PROVE  LeftAt(Drop(s, c, k), s, c, k, i)
<1> DEFINE p == Drop(s, c, k)
<1>2. \A n \in 1..k - 1 : p[n] = s[n] /\ n \in 1..c - 1 /\ n \in 1..c
  BY DropAtPlace, Zenon
<1>3. \A n \in k..c - 1 : p[n] = s[n + 1] /\ n \in 1..c - 1 /\ n + 1 \in 1..c
  BY DropAtPlace, Zenon
<1>4. \A n \in 1..c - 1 : n \in 1..k - 1 \/ n \in k..c - 1
  BY DropAtPlace, Zenon
<1> HIDE DEF p
<1>5. \E a \in 1..c : p[i] = s[a] /\ ((i = a /\ a < k) \/ (a = i + 1 /\ a > k))
  <2>1. CASE i \in 1..k - 1
    <3>1. i \in 1..c /\ i < k /\ p[i] = s[i]
      BY <2>1, <1>2
    <3> QED
      BY <3>1, Zenon
  <2>2. CASE i \in k..c - 1
    <3>1. i + 1 \in 1..c /\ i + 1 > k /\ p[i] = s[i + 1]
      BY <2>2, <1>3
    <3> QED
      BY <3>1, Zenon
  <2> QED
    BY <2>1, <2>2, <1>4, Zenon
<1> QED
  BY <1>5, Zenon DEF p, LeftAt

(* Only one item goes.                                                     *)
LEMMA DropKeeps ==
  ASSUME NEW c \in Nat, NEW s \in [1..c -> Item], NEW k \in 1..c, NEW a \in 1..c, a # k
  PROVE  \E i \in 1..c - 1 : Drop(s, c, k)[i] = s[a]
<1>1. a \in 1..k - 1 \/ (a - 1 \in k..c - 1 /\ (a - 1) + 1 = a)
  OBVIOUS
<1>2. \A n \in 1..k - 1 : Drop(s, c, k)[n] = s[n] /\ n \in 1..c - 1 /\ n \in 1..c
  BY DropAtPlace, Zenon
<1>3. \A n \in k..c - 1 : Drop(s, c, k)[n] = s[n + 1] /\ n \in 1..c - 1 /\ n + 1 \in 1..c
  BY DropAtPlace, Zenon
<1> QED
  BY <1>1, <1>2, <1>3, Zenon

(* The history after an arrival.                                           *)
LEMMA AppendIs ==
  ASSUME NEW c \in Nat, NEW arr \in [1..c -> Item], NEW x \in Item
  PROVE  /\ Append(arr, x) \in [1..c + 1 -> Item]
         /\ Append(arr, x)[c + 1] = x /\ c + 1 \in 1..c + 1
         /\ \A n \in 1..c : Append(arr, x)[n] = arr[n] /\ n \in 1..c + 1 /\ n < c + 1
         /\ \A n \in 1..c + 1 : n = c + 1 \/ n \in 1..c
<1>1. arr \in Seq(Item) /\ Len(arr) = c
  BY SeqOfFun
<1>2. /\ Append(arr, x) \in Seq(Item) /\ Len(Append(arr, x)) = c + 1
      /\ \A i \in 1..c : Append(arr, x)[i] = arr[i] /\ Append(arr, x)[c + 1] = x
  BY <1>1, AppendProperties
<1>3. Append(arr, x)[c + 1] = x
  BY <1>1, AppendProperties
<1>4. Append(arr, x) \in [1..c + 1 -> Item]
  BY <1>2, LenProperties
<1>5. \A n \in 1..c + 1 : n = c + 1 \/ n \in 1..c
  OBVIOUS
<1>6. \A n \in 1..c : n \in 1..c + 1 /\ n < c + 1
  OBVIOUS
<1>7. c + 1 \in 1..c + 1
  OBVIOUS
<1> QED
  BY <1>2, <1>3, <1>4, <1>5, <1>6, <1>7, Zenon

(* The history has the new item too.                                       *)
LEMMA PutArrivals ==
  ASSUME NEW c \in Nat, NEW s \in [1..c -> Item], NEW arr, Arrivals(s, arr, c),
         NEW k \in 0..c, NEW x \in Item, \A i \in 1..c : s[i] # x
  PROVE  Arrivals(Put(s, c, k, x), Append(arr, x), c + 1)
<1> DEFINE p == Put(s, c, k, x)
           b == Append(arr, x)
<1>1. /\ arr \in [1..c -> Item]
      /\ \A m, n \in 1..c : arr[m] = arr[n] => m = n
      /\ \A i \in 1..c : \E n \in 1..c : arr[n] = s[i]
      /\ \A n \in 1..c : \E i \in 1..c : arr[n] = s[i]
  BY Zenon DEF Arrivals
<1>2. /\ b \in [1..c + 1 -> Item] /\ b[c + 1] = x /\ c + 1 \in 1..c + 1
      /\ \A n \in 1..c : b[n] = arr[n] /\ n \in 1..c + 1
      /\ \A n \in 1..c + 1 : n = c + 1 \/ n \in 1..c
  <2>1. b \in [1..c + 1 -> Item]
    BY <1>1, AppendIs, Zenon
  <2>2. b[c + 1] = x
    BY <1>1, AppendIs
  <2>3. \A n \in 1..c : b[n] = arr[n]
    BY <1>1, AppendIs
  <2>4. c + 1 \in 1..c + 1 /\ (\A n \in 1..c : n \in 1..c + 1)
        /\ \A n \in 1..c + 1 : n = c + 1 \/ n \in 1..c
    OBVIOUS
  <2> QED
    BY <2>1, <2>2, <2>3, <2>4
<1>3. p[k + 1] = x /\ k + 1 \in 1..c + 1
  BY DEF Put
<1>4. ASSUME NEW i \in 1..c + 1, i # k + 1 PROVE \E a \in 1..c : p[i] = s[a]
  BY <1>4, PutOld, ZenonT(40) DEF WasAt
<1>5. \A a \in 1..c : \E i \in 1..c + 1 : p[i] = s[a]
  BY PutKeeps, Zenon
<1> HIDE DEF p, b
<1>6. ASSUME NEW n \in 1..c PROVE b[n] # x
  <2>1. PICK i \in 1..c : arr[n] = s[i]
    BY <1>1, Zenon
  <2> QED
    BY <2>1, <1>2, Zenon
<1>7. \A m, n \in 1..c + 1 : b[m] = b[n] => m = n
  BY <1>1, <1>2, <1>6, Zenon
<1>8. \A i \in 1..c + 1 : \E n \in 1..c + 1 : b[n] = p[i]
  <2> SUFFICES ASSUME NEW i \in 1..c + 1 PROVE \E n \in 1..c + 1 : b[n] = p[i]
    OBVIOUS
  <2>1. CASE i = k + 1
    BY <2>1, <1>2, <1>3, Zenon
  <2>2. CASE i # k + 1
    <3>1. PICK a \in 1..c : p[i] = s[a]
      BY <2>2, <1>4, Zenon
    <3>2. PICK n \in 1..c : arr[n] = s[a]
      BY <1>1, Zenon
    <3> QED
      BY <3>1, <3>2, <1>2, Zenon
  <2> QED
    BY <2>1, <2>2
<1>9. \A n \in 1..c + 1 : \E i \in 1..c + 1 : b[n] = p[i]
  <2> SUFFICES ASSUME NEW n \in 1..c + 1 PROVE \E i \in 1..c + 1 : b[n] = p[i]
    OBVIOUS
  <2>1. CASE n = c + 1
    BY <2>1, <1>2, <1>3, Zenon
  <2>2. CASE n \in 1..c
    <3>1. PICK a \in 1..c : arr[n] = s[a]
      BY <2>2, <1>1, Zenon
    <3>2. PICK i \in 1..c + 1 : p[i] = s[a]
      BY <1>5, Zenon
    <3> QED
      BY <2>2, <3>1, <3>2, <1>2, Zenon
  <2> QED
    BY <2>1, <2>2, <1>2, Zenon
<1> QED
  BY <1>2, <1>7, <1>8, <1>9, Zenon DEF Arrivals, p, b

(* queue_enq keeps the order: the new item is behind everything that is    *)
(* not of lower priority, and everything behind it is of lower priority.   *)
LEMMA PutServed ==
  ASSUME NEW c \in Nat, NEW s \in [1..c -> Item], NEW arr, Arrivals(s, arr, c),
         Served(s, arr, c), NEW k \in 0..c, NEW x \in Item, \A i \in 1..c : s[i] # x,
         Search(s, k, x)
  PROVE  Served(Put(s, c, k, x), Append(arr, x), c + 1)
<1> DEFINE p == Put(s, c, k, x)
           b == Append(arr, x)
<1>1. /\ arr \in [1..c -> Item]
      /\ \A i \in 1..c : \E n \in 1..c : arr[n] = s[i]
      /\ \A n \in 1..c : \E i \in 1..c : arr[n] = s[i]
  BY Zenon DEF Arrivals
<1>2. \A n \in 1..c + 1 : n = c + 1 \/ n \in 1..c
  OBVIOUS
<1>3. \A n \in 1..c : b[n] = arr[n]
  BY <1>1, AppendIs
<1>4. b[c + 1] = x
  BY <1>1, AppendIs
<1>5. p[k + 1] = x
  BY DEF Put
<1>6. ASSUME NEW i \in 1..c + 1, i # k + 1 PROVE WasAt(p, s, c, k, i)
  BY <1>6, PutOld, Zenon
<1>7. ASSUME NEW a \in 1..c PROVE s[a] \in Item /\ Pri[s[a]] \in Nat
  BY PriAssumption
<1>8. Pri[x] \in Nat
  BY PriAssumption
<1>9. Len(s) = c
  BY SeqOfFun
<1> HIDE DEF p, b
<1>10. ASSUME NEW n \in 1..c PROVE b[n] # x
  <2>1. PICK i \in 1..c : arr[n] = s[i]
    BY <1>1, Zenon
  <2> QED
    BY <2>1, <1>3, Zenon
<1>11. ASSUME NEW n \in 1..c + 1, NEW a \in 1..c, b[n] = s[a] PROVE n \in 1..c /\ arr[n] = s[a]
  <2>1. n # c + 1
    BY <1>11, <1>4, Zenon
  <2> QED
    BY <2>1, <1>2, <1>3, <1>11, Zenon
<1>12. ASSUME NEW i \in 1..c + 1, NEW j \in 1..c + 1, NEW m \in 1..c + 1, NEW n \in 1..c + 1,
              i < j, b[m] = p[i], b[n] = p[j]
       PROVE  Goes(p[i], p[j], m, n)
  <2>1. CASE i = k + 1
    <3>1. j # k + 1
      BY <2>1, <1>12
    <3>2. PICK a \in 1..c : p[j] = s[a] /\ ((j = a /\ a <= k) \/ (j = a + 1 /\ a > k))
      BY <3>1, <1>6, Zenon DEF WasAt
    <3>3. a > k /\ k < c /\ k + 1 \in 1..c /\ (a = k + 1 \/ k + 1 < a) /\ k # c
      BY <2>1, <3>2, <1>12
    <3>4. n \in 1..c /\ arr[n] = s[a]
      BY <3>2, <1>11, <1>12, Zenon
    <3>5. usePri /\ Pri[x] < Pri[s[k + 1]]
      BY <3>3, <1>9, Zenon DEF Search
    <3>6. k + 1 < a => Pri[s[k + 1]] < Pri[s[a]] \/ Pri[s[k + 1]] = Pri[s[a]]
      <4>1. PICK l \in 1..c : arr[l] = s[k + 1]
        BY <3>3, <1>1, Zenon
      <4>2. k + 1 < a => Goes(s[k + 1], s[a], l, n)
        BY <3>3, <3>4, <4>1, Zenon DEF Served
      <4> QED
        BY <4>2, <3>5, Zenon DEF Goes
    <3>7. Pri[x] < Pri[s[a]]
      <4>1. Pri[s[a]] \in Nat /\ Pri[s[k + 1]] \in Nat
        BY <3>3, <1>7, Zenon
      <4> QED
        BY <3>3, <3>5, <3>6, <4>1, <1>8
    <3> QED
      BY <2>1, <3>2, <3>5, <3>7, <1>5, Zenon DEF Goes
  <2>2. CASE j = k + 1
    <3>1. i # k + 1
      BY <2>2, <1>12
    <3>2. PICK a \in 1..c : p[i] = s[a] /\ ((i = a /\ a <= k) \/ (i = a + 1 /\ a > k))
      BY <3>1, <1>6, Zenon DEF WasAt
    <3>3. a \in 1..k
      BY <2>2, <3>2, <1>12
    <3>4. n = c + 1
      BY <2>2, <1>2, <1>5, <1>10, <1>12, Zenon
    <3>5. m \in 1..c
      BY <3>2, <1>11, <1>12, Zenon
    <3>6. m < n
      BY <3>4, <3>5
    <3>7. usePri => Pri[s[a]] < Pri[x] \/ Pri[s[a]] = Pri[x]
      <4>1. usePri => Pri[s[a]] <= Pri[x]
        BY <3>3, Zenon DEF Search
      <4>2. Pri[s[a]] <= Pri[x] => Pri[s[a]] < Pri[x] \/ Pri[s[a]] = Pri[x]
        BY <1>7, <1>8
      <4> QED
        BY <4>1, <4>2, Zenon
    <3> QED
      BY <2>2, <3>2, <3>6, <3>7, <1>5, Zenon DEF Goes
  <2>3. CASE i # k + 1 /\ j # k + 1
    <3>1. PICK a \in 1..c : p[i] = s[a] /\ ((i = a /\ a <= k) \/ (i = a + 1 /\ a > k))
      BY <2>3, <1>6, Zenon DEF WasAt
    <3>2. PICK d \in 1..c : p[j] = s[d] /\ ((j = d /\ d <= k) \/ (j = d + 1 /\ d > k))
      BY <2>3, <1>6, Zenon DEF WasAt
    <3>3. a < d
      BY <3>1, <3>2, <1>12
    <3>4. m \in 1..c /\ arr[m] = s[a] /\ n \in 1..c /\ arr[n] = s[d]
      BY <3>1, <3>2, <1>11, <1>12, Zenon
    <3>5. Goes(s[a], s[d], m, n)
      BY <3>3, <3>4, Zenon DEF Served
    <3> QED
      BY <3>1, <3>2, <3>5, Zenon
  <2> QED
    BY <2>1, <2>2, <2>3
<1> QED
  BY <1>12, Zenon DEF Served, p, b

(* An item that leaves takes its arrival with it.                          *)
LEMMA DropArrivals ==
  ASSUME NEW c \in Nat, NEW s \in [1..c -> Item], NEW arr, Arrivals(s, arr, c),
         \A i, j \in 1..c : s[i] = s[j] => i = j,
         NEW k \in 1..c, NEW z \in 1..c, arr[z] = s[k]
  PROVE  Arrivals(Drop(s, c, k), Drop(arr, c, z), c - 1)
<1> DEFINE p == Drop(s, c, k)
           b == Drop(arr, c, z)
<1>1. /\ arr \in [1..c -> Item]
      /\ \A m, n \in 1..c : arr[m] = arr[n] => m = n
      /\ \A i \in 1..c : \E n \in 1..c : arr[n] = s[i]
      /\ \A n \in 1..c : \E i \in 1..c : arr[n] = s[i]
  BY Zenon DEF Arrivals
<1>2. b \in [1..c - 1 -> Item] /\ p \in [1..c - 1 -> Item]
  BY <1>1, DropAtPlace, Zenon
<1>3. \A i \in 1..c - 1 : LeftAt(p, s, c, k, i) /\ LeftAt(b, arr, c, z, i)
  BY <1>1, DropOld, Zenon
<1>4. \A a \in 1..c : a # k => \E i \in 1..c - 1 : p[i] = s[a]
  BY DropKeeps, Zenon
<1>5. \A a \in 1..c : a # z => \E i \in 1..c - 1 : b[i] = arr[a]
  <2>1. arr \in [1..c -> Item]
    BY <1>1
  <2> QED
    BY <2>1, DropKeeps, Zenon
<1> HIDE DEF p, b
<1>6. ASSUME NEW m \in 1..c - 1, NEW n \in 1..c - 1, b[m] = b[n] PROVE m = n
  <2>1. PICK a \in 1..c : b[m] = arr[a] /\ ((m = a /\ a < z) \/ (a = m + 1 /\ a > z))
    BY <1>3, Zenon DEF LeftAt
  <2>2. PICK d \in 1..c : b[n] = arr[d] /\ ((n = d /\ d < z) \/ (d = n + 1 /\ d > z))
    BY <1>3, Zenon DEF LeftAt
  <2>3. a = d
    BY <2>1, <2>2, <1>1, <1>6, ZenonT(40)
  <2> QED
    BY <2>1, <2>2, <2>3
<1>7. ASSUME NEW i \in 1..c - 1 PROVE \E n \in 1..c - 1 : b[n] = p[i]
  <2>1. PICK a \in 1..c : p[i] = s[a] /\ ((i = a /\ a < k) \/ (a = i + 1 /\ a > k))
    BY <1>3, Zenon DEF LeftAt
  <2>2. a # k
    BY <2>1
  <2>3. PICK e \in 1..c : arr[e] = s[a]
    BY <1>1, Zenon
  <2>4. e # z
    BY <2>2, <2>3, Zenon
  <2>5. PICK n \in 1..c - 1 : b[n] = arr[e]
    BY <2>4, <1>5, Zenon
  <2> QED
    BY <2>1, <2>3, <2>5, Zenon
<1>8. ASSUME NEW n \in 1..c - 1 PROVE \E i \in 1..c - 1 : b[n] = p[i]
  <2>1. PICK a \in 1..c : b[n] = arr[a] /\ ((n = a /\ a < z) \/ (a = n + 1 /\ a > z))
    BY <1>3, Zenon DEF LeftAt
  <2>2. a # z
    BY <2>1
  <2>3. PICK e \in 1..c : arr[a] = s[e]
    BY <1>1, Zenon
  <2>4. e # k
    <3>1. \A m \in 1..c : arr[m] = arr[z] => m = z
      BY <1>1, Zenon
    <3>2. arr[a] # arr[z]
      BY <3>1, <2>2, Zenon
    <3> QED
      BY <3>2, <2>3, Zenon
  <2>5. PICK i \in 1..c - 1 : p[i] = s[e]
    BY <2>4, <1>4, Zenon
  <2> QED
    BY <2>1, <2>3, <2>5, Zenon
<1> QED
  BY <1>2, <1>6, <1>7, <1>8, Zenon DEF Arrivals, p, b

(* The others are served in the same order.                                *)
LEMMA DropServed ==
  ASSUME NEW c \in Nat, NEW s \in [1..c -> Item], NEW arr \in [1..c -> Item], Served(s, arr, c),
         NEW k \in 1..c, NEW z \in 1..c
  PROVE  Served(Drop(s, c, k), Drop(arr, c, z), c - 1)
<1> DEFINE p == Drop(s, c, k)
           b == Drop(arr, c, z)
<1>3. \A i \in 1..c - 1 : LeftAt(p, s, c, k, i) /\ LeftAt(b, arr, c, z, i)
  BY DropOld, Zenon
<1> HIDE DEF p, b
<1>4. ASSUME NEW i \in 1..c - 1, NEW j \in 1..c - 1, NEW m \in 1..c - 1, NEW n \in 1..c - 1,
             i < j, b[m] = p[i], b[n] = p[j]
      PROVE  Goes(p[i], p[j], m, n)
  <2>1. PICK a \in 1..c : p[i] = s[a] /\ ((i = a /\ a < k) \/ (a = i + 1 /\ a > k))
    BY <1>3, Zenon DEF LeftAt
  <2>2. PICK d \in 1..c : p[j] = s[d] /\ ((j = d /\ d < k) \/ (d = j + 1 /\ d > k))
    BY <1>3, Zenon DEF LeftAt
  <2>3. PICK f \in 1..c : b[m] = arr[f] /\ ((m = f /\ f < z) \/ (f = m + 1 /\ f > z))
    BY <1>3, Zenon DEF LeftAt
  <2>4. PICK g \in 1..c : b[n] = arr[g] /\ ((n = g /\ g < z) \/ (g = n + 1 /\ g > z))
    BY <1>3, Zenon DEF LeftAt
  <2>5. a < d /\ (f < g => m < n)
    BY <2>1, <2>2, <2>3, <2>4, <1>4
  <2>6. arr[f] = s[a] /\ arr[g] = s[d]
    BY <2>1, <2>2, <2>3, <2>4, <1>4, Zenon
  <2>7. Goes(s[a], s[d], f, g)
    BY <2>5, <2>6, Zenon DEF Served
  <2>8. Goes(s[a], s[d], m, n)
    BY <2>5, <2>7, Zenon DEF Goes
  <2> QED
    BY <2>1, <2>2, <2>8, Zenon
<1> QED
  BY <1>4, Zenon DEF Served, p, b

-----------------------------------------------------------------------------
(* The inductive invariant.                                                *)
InvAt(s) ==
  /\ List(s)
  /\ Arrivals(s, arrived, curNum)
  /\ ~inserted => Served(s, arrived, curNum)

Inv ==
  /\ usePri \in BOOLEAN /\ inserted \in BOOLEAN
  /\ \E s \in Chains : InvAt(s)

(* It holds of the next state when it holds of the list there.             *)
LEMMA ToNext ==
  ASSUME NEW s, IsList(s, head', tail', next', curNum'), Arrivals(s, arrived', curNum'),
         ~inserted' => Served(s, arrived', curNum'),
         usePri \in BOOLEAN, usePri' = usePri, inserted' \in BOOLEAN
  PROVE  Inv'
<1>1. s \in Chains'
  BY ListNext
<1>2. List(s)'
  BY Zenon DEF List, IsList
<1>3. Arrivals(s, arrived, curNum)'
  BY Zenon DEF Arrivals
<1>4. (~inserted => Served(s, arrived, curNum))'
  <2>1. usePri' <=> usePri
    OBVIOUS
  <2>2. ASSUME NEW x, NEW y, NEW m, NEW n PROVE Goes(x, y, m, n)' <=> Goes(x, y, m, n)
    BY <2>1 DEF Goes
  <2> QED
    BY <2>2, Zenon DEF Served
<1>5. InvAt(s)'
  BY <1>2, <1>3, <1>4, Zenon DEF InvAt
<1> QED
  BY <1>1, <1>5, Zenon DEF Inv

(* queue_init.                                                             *)
LEMMA InvInit == ASSUME Init PROVE Inv
<1>1. /\ head = NULL /\ tail = NULL /\ curNum = 0 /\ usePri \in BOOLEAN
      /\ next \in [Item -> {NULL}] /\ arrived = <<>> /\ inserted = FALSE
  BY DEF Init
<1>2. <<>> \in [1..0 -> Item] /\ next \in [Item -> Item \cup {NULL}]
  BY <1>1
<1>3. List(<<>>)
  <2>1. \A i \in 1..0 : FALSE
    OBVIOUS
  <2> QED
    BY <1>1, <1>2, <2>1 DEF List, IsList
<1>4. Arrivals(<<>>, arrived, curNum) /\ Served(<<>>, arrived, curNum)
  BY <1>1, <1>2 DEF Arrivals, Served
<1>5. InvAt(<<>>)
  BY <1>3, <1>4, Zenon DEF InvAt
<1>6. <<>> \in Chains
  <2>1. PICK r : r = <<>>
    OBVIOUS
  <2> QED
    BY <2>1, <1>3, ListNow, Zenon
<1>7. inserted \in BOOLEAN
  BY <1>1
<1> QED
  BY <1>1, <1>5, <1>6, <1>7, Zenon DEF Inv

(* The history after an item left.                                         *)
LEMMA GoneIs ==
  ASSUME NEW s, List(s), Arrivals(s, arrived, curNum), NEW k \in 1..curNum
  PROVE  \E z \in 1..curNum : arrived[z] = s[k] /\ Gone(s[k]) = Drop(arrived, curNum, z)
<1>1. curNum \in Nat /\ arrived \in [1..curNum -> Item] /\ \E n \in 1..curNum : arrived[n] = s[k]
  BY ListFacts, Zenon DEF Arrivals
<1>2. Len(arrived) = curNum
  BY <1>1, SeqOfFun
<1> DEFINE z == Place(s[k])
<1>3. z \in 1..curNum /\ arrived[z] = s[k]
  BY <1>1, <1>2, Zenon DEF Place
<1>4. Gone(s[k]) = [i \in 1..curNum - 1 |-> arrived[IF i < z THEN i ELSE i + 1]]
  BY <1>2, Zenon DEF Gone
<1> HIDE DEF z
<1>5. Gone(s[k]) = Drop(arrived, curNum, z)
  BY <1>4 DEF Drop
<1> QED
  BY <1>3, <1>5, Zenon

(* Each of the four things keeps the invariant.                            *)
LEMMA PutInv ==
  ASSUME Inv, NEW s, InvAt(s), NEW k \in 0..curNum, NEW x \in Item, Fresh(s, x),
         PutStep(s, k, x), usePri' = usePri, inserted' \in BOOLEAN,
         ~inserted' => ~inserted /\ Search(s, k, x)
  PROVE  Inv'
<1>1. List(s) /\ Arrivals(s, arrived, curNum) /\ (~inserted => Served(s, arrived, curNum))
  BY Zenon DEF InvAt
<1>2. curNum \in Nat /\ s \in [1..curNum -> Item] /\ \A i \in 1..curNum : s[i] # x
  BY <1>1, ListFacts, Zenon DEF Fresh
<1>3. arrived' = Append(arrived, x) /\ curNum' = curNum + 1
  BY Zenon DEF PutStep
<1>4. PICK r : r = Put(s, curNum, k, x)
  OBVIOUS
<1>5. IsList(r, head', tail', next', curNum')
  BY <1>1, <1>4, PutStepList, Zenon
<1>6. Arrivals(r, arrived', curNum')
  BY <1>1, <1>2, <1>3, <1>4, PutArrivals, Zenon
<1>7. ~inserted' => Served(r, arrived', curNum')
  BY <1>1, <1>2, <1>3, <1>4, PutServed, Zenon
<1> QED
  BY <1>5, <1>6, <1>7, ToNext, Zenon DEF Inv

(* An item taken out.                                                      *)
LEMMA DropInv ==
  ASSUME Inv, NEW s, InvAt(s), NEW k \in 1..curNum, DropStep(s, k), usePri' = usePri,
         inserted' = inserted
  PROVE  Inv'
<1>1. List(s) /\ Arrivals(s, arrived, curNum) /\ (~inserted => Served(s, arrived, curNum))
  BY Zenon DEF InvAt
<1>2. curNum \in Nat /\ s \in [1..curNum -> Item]
      /\ \A i, j \in 1..curNum : s[i] = s[j] => i = j
  BY <1>1, ListFacts, Zenon
<1>3. arrived' = Gone(s[k]) /\ curNum' = curNum - 1
  BY Zenon DEF DropStep
<1>4. PICK z \in 1..curNum : arrived[z] = s[k] /\ Gone(s[k]) = Drop(arrived, curNum, z)
  BY <1>1, GoneIs, Zenon
<1>5. PICK r : r = Drop(s, curNum, k)
  OBVIOUS
<1>6. IsList(r, head', tail', next', curNum')
  BY <1>1, <1>5, DropStepList, Zenon
<1>7. Arrivals(r, arrived', curNum')
  <2>1. Arrivals(Drop(s, curNum, k), Drop(arrived, curNum, z), curNum - 1)
    BY <1>1, <1>2, <1>4, DropArrivals, Zenon
  <2> QED
    BY <2>1, <1>3, <1>4, <1>5, Zenon
<1>8. ~inserted' => Served(r, arrived', curNum')
  <2>1. arrived \in [1..curNum -> Item]
    BY <1>1, Zenon DEF Arrivals
  <2>2. ~inserted => Served(Drop(s, curNum, k), Drop(arrived, curNum, z), curNum - 1)
    BY <2>1, <1>1, <1>2, DropServed, Zenon
  <2> QED
    BY <2>2, <1>3, <1>4, <1>5, Zenon
<1> QED
  BY <1>6, <1>7, <1>8, ToNext, Zenon DEF Inv

(* Nothing done.                                                           *)
LEMMA SameInv ==
  ASSUME Inv, UNCHANGED <<head, next, tail, curNum, arrived, inserted, usePri>> PROVE Inv'
<1>1. PICK s \in Chains : InvAt(s)
  BY Zenon DEF Inv
<1>2. List(s) /\ Arrivals(s, arrived, curNum) /\ (~inserted => Served(s, arrived, curNum))
  BY <1>1, Zenon DEF InvAt
<1>3. IsList(s, head', tail', next', curNum')
  BY <1>2 DEF List
<1>4. Arrivals(s, arrived', curNum') /\ (~inserted' => Served(s, arrived', curNum'))
  BY <1>2
<1> QED
  BY <1>3, <1>4, ToNext DEF Inv

(* Every step keeps the invariant.                                         *)
LEMMA InvStep == ASSUME Inv, [Next]_vars PROVE Inv'
<1>1. CASE UNCHANGED vars
  BY <1>1, SameInv DEF vars
<1>2. CASE Next
  <2>1. PICK s \in Chains : InvAt(s)
    BY Zenon DEF Inv
  <2>2. List(s)
    BY <2>1, Zenon DEF InvAt
  <2>3. usePri' = usePri
    BY <1>2, <2>2, StepIs, Zenon
  <2>4. EnqStep(s) \/ InsStep(s) \/ DelStep(s) \/ SameStep(s)
    BY <1>2, <2>2, StepIs, Zenon
  <2>5. CASE EnqStep(s)
    <3>1. PICK x \in Item, k \in 0..curNum :
            Fresh(s, x) /\ Search(s, k, x) /\ PutStep(s, k, x)
      BY <2>5, Zenon DEF EnqStep
    <3>2. inserted' = inserted /\ inserted \in BOOLEAN
      BY <2>5, Zenon DEF EnqStep, Inv
    <3> QED
      BY <2>1, <2>3, <3>1, <3>2, PutInv, Zenon
  <2>6. CASE InsStep(s)
    <3>1. PICK x \in Item, k \in 0..curNum : Fresh(s, x) /\ PutStep(s, k, x)
      BY <2>6, Zenon DEF InsStep
    <3>2. inserted' = TRUE /\ inserted' \in BOOLEAN
      BY <2>6, Zenon DEF InsStep
    <3> QED
      BY <2>1, <2>3, <3>1, <3>2, PutInv, Zenon
  <2>7. CASE DelStep(s)
    BY <2>1, <2>3, <2>7, DropInv, Zenon DEF DelStep
  <2>8. CASE SameStep(s)
    BY <2>3, <2>8, SameInv DEF SameStep
  <2> QED
    BY <2>4, <2>5, <2>6, <2>7, <2>8, Zenon
<1> QED
  BY <1>1, <1>2

(* The inductive invariant holds throughout.                               *)
LEMMA Invariance == Spec => []Inv
<1>1. Init => Inv
  BY InvInit
<1>2. Inv /\ [Next]_vars => Inv'
  BY InvStep
<1> QED
  BY <1>1, <1>2, PTL DEF Spec

-----------------------------------------------------------------------------
(* Through any sequence of calls the list of tl_queue.c stays intact: the  *)
(* next pointers lead from head through curNum different items to tail.    *)
THEOREM ListStaysIntact == Spec => []ListIntact
<1>1. Inv => ListIntact
  <2> SUFFICES ASSUME Inv PROVE ListIntact
    OBVIOUS
  <2>1. PICK s \in Chains : InvAt(s)
    BY Zenon DEF Inv
  <2>2. List(s)
    BY <2>1, Zenon DEF InvAt
  <2>3. curNum \in Nat /\ next \in [Item -> Item \cup {NULL}]
    BY <2>2, ListFacts, Zenon
  <2>4. Len(s) = curNum /\ (s = <<>> <=> curNum = 0)
    BY <2>2, ListFacts, Zenon
  <2>5. tail = IF s = <<>> THEN NULL ELSE s[Len(s)]
    BY <2>2, <2>4, ListFacts, Zenon
  <2>6. head \in Item \cup {NULL} /\ tail \in Item \cup {NULL}
    <3>1. CASE curNum = 0
      <4>1. head = NULL /\ tail = NULL
        BY <2>2, <3>1, ListFacts, Zenon
      <4> QED
        BY <4>1
    <3>2. CASE curNum # 0
      <4>1. head = s[1] /\ tail = s[curNum] /\ 1 \in 1..curNum /\ curNum \in 1..curNum
        BY <2>2, <3>2, ListFacts, Zenon
      <4>2. s[1] \in Item /\ s[curNum] \in Item
        BY <2>2, <4>1, ListFacts, Zenon
      <4> QED
        BY <4>1, <4>2
    <3> QED
      BY <3>1, <3>2
  <2>7. TypeOK
    BY <2>3, <2>6, Zenon DEF TypeOK, Inv
  <2> QED
    BY <2>5, <2>7, Zenon DEF ListIntact
<1> QED
  BY <1>1, Invariance, PTL

(* queue_deq serves the items by priority value, and items of one value in *)
(* the order in which they were enqueued, until queue_insert overrules it. *)
THEOREM ServedByPriority == Spec => []ServedInOrder
<1>1. Inv => ServedInOrder
  <2> SUFFICES ASSUME Inv, ~inserted, NEW s \in Chains,
                      NEW i \in 1..Len(s), NEW j \in 1..Len(s), i < j
               PROVE  \/ usePri /\ Pri[s[i]] < Pri[s[j]]
                      \/ (usePri => Pri[s[i]] = Pri[s[j]]) /\ Place(s[i]) < Place(s[j])
    BY Zenon DEF ServedInOrder
  <2>1. PICK r \in Chains : InvAt(r)
    BY Zenon DEF Inv
  <2>2. List(r) /\ Arrivals(r, arrived, curNum) /\ Served(r, arrived, curNum)
    BY <2>1, Zenon DEF InvAt
  <2>3. r = s
    BY <2>2, ListNow
  <2>4. curNum \in Nat /\ Len(s) = curNum
    BY <2>2, <2>3, ListFacts, Zenon
  <2>5. arrived \in [1..curNum -> Item] /\ \A a \in 1..curNum : \E n \in 1..curNum : arrived[n] = s[a]
    BY <2>2, <2>3, Zenon DEF Arrivals
  <2>6. Len(arrived) = curNum
    BY <2>4, <2>5, SeqOfFun
  <2>7. ASSUME NEW a \in 1..curNum
        PROVE  Place(s[a]) \in 1..curNum /\ arrived[Place(s[a])] = s[a]
    BY <2>5, <2>6, Zenon DEF Place
  <2>8. i \in 1..curNum /\ j \in 1..curNum
    BY <2>4
  <2>9. Goes(s[i], s[j], Place(s[i]), Place(s[j]))
    BY <2>2, <2>3, <2>7, <2>8, Zenon DEF Served
  <2> QED
    BY <2>9, Zenon DEF Goes
<1> QED
  BY <1>1, Invariance, PTL

-----------------------------------------------------------------------------
(* The refinement: the same four things, done to the sequence.             *)
LEMMA SameOps ==
  ASSUME NEW s, List(s)
  PROVE  /\ \A k, x : Abs!PutBehind(s, k, x) = Put(s, curNum, k, x)
         /\ \A k : Abs!DropAt(s, k) = Drop(s, curNum, k)
         /\ \A x \in Item : Fresh(s, x) <=> ~Abs!Queued(x)
         /\ \A k \in 0..curNum : \A x : Search(s, k, x) => Abs!EnqPlace(k, x)
         /\ \A k : Abs!IsAt(Before(s, k), k)
<1>1. Len(s) = curNum /\ Contents = s
  BY ListFacts, ListNow, Zenon
<1>2. ASSUME NEW k, NEW x PROVE Abs!PutBehind(s, k, x) = Put(s, curNum, k, x)
  BY <1>1, Zenon DEF Abs!PutBehind, Put
<1>3. ASSUME NEW k PROVE Abs!DropAt(s, k) = Drop(s, curNum, k)
  BY <1>1, Zenon DEF Abs!DropAt, Drop
<1>4. ASSUME NEW x \in Item PROVE Fresh(s, x) <=> ~Abs!Queued(x)
  BY <1>1, Zenon DEF Fresh, Abs!Queued
<1>5. ASSUME NEW k \in 0..curNum, NEW x, Search(s, k, x) PROVE Abs!EnqPlace(k, x)
  BY <1>1, <1>5, Zenon DEF Search, Abs!EnqPlace
<1>6. ASSUME NEW k PROVE Abs!IsAt(Before(s, k), k)
  BY <1>1, Zenon DEF Before, Abs!IsAt
<1> QED
  BY <1>2, <1>3, <1>4, <1>5, <1>6, Zenon

(* queue_enq, and queue_insert behind the last item.                       *)
LEMMA EnqRefines == ASSUME NEW s, List(s), EnqStep(s), usePri' = usePri PROVE Abs!CodeNext
<1>1. Len(s) = curNum /\ Contents = s /\ curNum \in Nat
  BY ListFacts, ListNow, Zenon
<1>2. PICK x \in Item, k \in 0..curNum :
        /\ Fresh(s, x) /\ Search(s, k, x) /\ PutStep(s, k, x)
        /\ \/ call' = Ans("enq", x, NULL, "SUCCESS")
           \/ call' = Ans("insert", x, Before(s, curNum), "SUCCESS")
  BY Zenon DEF EnqStep
<1>3. PICK r : r = Put(s, curNum, k, x)
  OBVIOUS
<1>4. Contents' = r
  BY <1>2, <1>3, PutStepList, ListNext, Zenon
<1>5. Abs!AnyEnq(x)
  <2>1. Abs!EnqPlace(k, x)
    BY <1>2, SameOps, Zenon
  <2>2. Contents' = Abs!PutBehind(Contents, k, x)
    BY <1>1, <1>3, <1>4, SameOps, Zenon
  <2>3. k \in 0..Len(Contents)
    BY <1>1
  <2> QED
    BY <2>1, <2>2, <2>3, Zenon DEF Abs!AnyEnq
<1>6. ~Abs!Queued(x)
  BY <1>2, SameOps, Zenon
<1>7. CASE call' = Ans("enq", x, NULL, "SUCCESS")
  <2>1. Abs!Enq(x)
    BY <1>5, <1>6, <1>7, Zenon DEF Abs!Enq, Ans
  <2> QED
    BY <2>1, Zenon DEF Abs!Next, Abs!CodeNext
<1>8. CASE call' = Ans("insert", x, Before(s, curNum), "SUCCESS")
  <2>1. Before(s, curNum) \in Item \cup {NULL}
    <3>1. CASE curNum = 0
      BY <3>1 DEF Before
    <3>2. CASE curNum # 0
      <4>1. curNum \in 1..curNum
        BY <1>1, <3>2
      <4>2. s[curNum] \in Item
        BY <4>1, ListFacts, Zenon
      <4> QED
        BY <3>2, <4>2 DEF Before
    <3> QED
      BY <3>1, <3>2
  <2>2. Abs!IsAt(Before(s, curNum), curNum)
    BY SameOps, Zenon
  <2>3. curNum = Len(Contents) /\ curNum \in 0..Len(Contents)
    BY <1>1
  <2>4. CASE usePri /\ curNum # 0
    <3>1. Contents # <<>> /\ Before(s, curNum) = Contents[Len(Contents)]
      BY <1>1, <2>4 DEF Before
    <3>2. Before(s, curNum) \in Item
      <4>1. s[curNum] \in Item
        BY <1>1, <2>4, ListFacts
      <4> QED
        BY <2>4, <4>1 DEF Before
    <3>3. Abs!InsertByPriority(x, Before(s, curNum))
      BY <1>5, <1>6, <1>8, <2>4, <3>1, Zenon DEF Abs!InsertByPriority, Ans
    <3> QED
      BY <3>2, <3>3, Zenon DEF Abs!CodeNext
  <2>5. CASE ~(usePri /\ curNum # 0)
    <3>1. k = curNum
      BY <1>1, <1>2, <2>5 DEF Search
    <3>2. Contents' = Abs!PutBehind(Contents, curNum, x)
      BY <1>1, <1>3, <1>4, <3>1, SameOps, Zenon
    <3>3. Abs!Insert(x, Before(s, curNum))
      BY <1>6, <1>8, <2>2, <2>3, <3>2, Zenon DEF Abs!Insert, Ans
    <3> QED
      BY <2>1, <3>3, Zenon DEF Abs!Next, Abs!CodeNext
  <2> QED
    BY <2>4, <2>5
<1> QED
  BY <1>2, <1>7, <1>8

(* queue_insert.                                                           *)
LEMMA InsRefines == ASSUME NEW s, List(s), InsStep(s), usePri' = usePri PROVE Abs!Next
<1>1. Len(s) = curNum /\ Contents = s /\ curNum \in Nat
  BY ListFacts, ListNow, Zenon
<1>2. PICK x \in Item, k \in 0..curNum :
        /\ Fresh(s, x) /\ k # curNum /\ PutStep(s, k, x)
        /\ call' = Ans("insert", x, Before(s, k), "SUCCESS")
  BY Zenon DEF InsStep
<1>3. PICK r : r = Put(s, curNum, k, x)
  OBVIOUS
<1>4. Contents' = r
  BY <1>2, <1>3, PutStepList, ListNext, Zenon
<1>5. Contents' = Abs!PutBehind(Contents, k, x)
  BY <1>1, <1>3, <1>4, SameOps, Zenon
<1>6. ~Abs!Queued(x) /\ Abs!IsAt(Before(s, k), k)
  BY <1>2, SameOps, Zenon
<1>7. k # Len(Contents) /\ k \in 0..Len(Contents)
  BY <1>1, <1>2
<1>8. Before(s, k) \in Item \cup {NULL}
  <2>1. CASE k = 0
    BY <2>1 DEF Before
  <2>2. CASE k # 0
    <3>1. k \in 1..curNum
      BY <1>1, <2>2
    <3>2. s[k] \in Item
      BY <3>1, ListFacts, Zenon
    <3> QED
      BY <2>2, <3>2 DEF Before
  <2> QED
    BY <2>1, <2>2
<1>9. Abs!Insert(x, Before(s, k))
  BY <1>2, <1>5, <1>6, <1>7, Zenon DEF Abs!Insert, Ans
<1> QED
  BY <1>8, <1>9, Zenon DEF Abs!Next

(* queue_deq, queue_remove and queue_delete.                               *)
LEMMA DelRefines == ASSUME NEW s, List(s), DelStep(s), usePri' = usePri PROVE Abs!Next
<1>1. Len(s) = curNum /\ Contents = s /\ curNum \in Nat /\ (s = <<>> <=> curNum = 0)
  BY ListFacts, ListNow, Zenon
<1>2. PICK k \in 1..curNum :
        /\ DropStep(s, k)
        /\ \/ k = 1 /\ call' = Ans("deq", s[1], NULL, "SUCCESS")
           \/ call' = Ans("remove", s[k], Before(s, k - 1), "SUCCESS")
           \/ call' = Ans("delete", s[k], NULL, "SUCCESS")
  BY Zenon DEF DelStep
<1>3. PICK r : r = Drop(s, curNum, k)
  OBVIOUS
<1>4. Contents' = r
  BY <1>2, <1>3, DropStepList, ListNext, Zenon
<1>5. Contents' = Abs!DropAt(Contents, k)
  BY <1>1, <1>3, <1>4, SameOps, Zenon
<1>6. k \in 1..Len(Contents) /\ s[k] \in Item /\ Contents[k] = s[k]
  BY <1>1, ListFacts, Zenon
<1>7. CASE k = 1 /\ call' = Ans("deq", s[1], NULL, "SUCCESS")
  <2>1. Contents # <<>>
    <3>1. curNum # 0
      BY <1>1
    <3> QED
      BY <3>1, <1>1, Zenon
  <2>2. Abs!Deq
    BY <2>1, <1>1, <1>5, <1>7, Zenon DEF Abs!Deq, Ans
  <2> QED
    BY <2>2, Zenon DEF Abs!Next
<1>8. CASE call' = Ans("remove", s[k], Before(s, k - 1), "SUCCESS")
  <2>1. Before(s, k - 1) \in Item \cup {NULL}
    <3>1. CASE k - 1 = 0
      BY <3>1 DEF Before
    <3>2. CASE k - 1 # 0
      <4>1. k - 1 \in 1..curNum
        BY <1>1, <3>2
      <4>2. s[k - 1] \in Item
        BY <4>1, ListFacts, Zenon
      <4> QED
        BY <3>2, <4>2 DEF Before
    <3> QED
      BY <3>1, <3>2
  <2>2. Abs!IsAt(Before(s, k - 1), k - 1)
    BY SameOps, Zenon
  <2>3. Abs!Remove(s[k], Before(s, k - 1))
    BY <1>5, <1>6, <1>8, <2>2, Zenon DEF Abs!Remove, Ans
  <2> QED
    BY <1>6, <2>1, <2>3, Zenon DEF Abs!Next
<1>9. CASE call' = Ans("delete", s[k], NULL, "SUCCESS")
  <2>1. Abs!Delete(s[k])
    BY <1>5, <1>6, <1>9, Zenon DEF Abs!Delete, Ans
  <2> QED
    BY <1>6, <2>1, Zenon DEF Abs!Next
<1> QED
  BY <1>2, <1>7, <1>8, <1>9

(* queue_deq of an empty queue, and queue_delete of an item that is not there.*)
LEMMA SameRefines == ASSUME NEW s, List(s), SameStep(s), usePri' = usePri PROVE Abs!Next
<1>1. Contents = s /\ (s = <<>> <=> curNum = 0)
  BY ListFacts, ListNow, Zenon
<1>2. IsList(s, head', tail', next', curNum')
  BY DEF SameStep, List
<1>3. Contents' = Contents
  BY <1>1, <1>2, ListNext, Zenon
<1>4. CASE curNum = 0 /\ call' = Ans("deq", NULL, NULL, "SUCCESS")
  <2>1. Abs!Deq
    BY <1>1, <1>3, <1>4, Zenon DEF Abs!Deq, Ans
  <2> QED
    BY <2>1, Zenon DEF Abs!Next
<1>5. CASE \E x \in Item : Fresh(s, x) /\
             call' = Ans("delete", x, NULL, IF curNum = 0 THEN "EMPTY" ELSE "NOT_FOUND")
  <2>1. PICK x \in Item : Fresh(s, x) /\
             call' = Ans("delete", x, NULL, IF curNum = 0 THEN "EMPTY" ELSE "NOT_FOUND")
    BY <1>5, Zenon
  <2>2. ~Abs!Queued(x)
    BY <2>1, SameOps, Zenon
  <2>3. Abs!Delete(x)
    BY <2>1, <2>2, <1>1, <1>3 DEF Abs!Delete, Ans
  <2> QED
    BY <2>3, Zenon DEF Abs!Next
<1> QED
  BY <1>4, <1>5, Zenon DEF SameStep

(* The lists that queue_init leaves are the empty queue.                   *)
LEMMA InitRefines == Init => Abs!Init
<1> SUFFICES ASSUME Init PROVE Abs!Init
  OBVIOUS
<1>1. usePri \in BOOLEAN /\ call = NULL /\ curNum = 0
  BY DEF Init
<1>2. PICK s \in Chains : InvAt(s)
  BY InvInit, Zenon DEF Inv
<1>3. List(s)
  BY <1>2, Zenon DEF InvAt
<1>4. Contents = s /\ (s = <<>> <=> curNum = 0)
  BY <1>3, ListNow, ListFacts, Zenon
<1> QED
  BY <1>1, <1>4 DEF Abs!Init

(* Every call is a step of the queue.                                      *)
LEMMA StepRefines == Inv /\ [Next]_vars => [Abs!CodeNext]_(Abs!absVars)
<1> SUFFICES ASSUME Inv, [Next]_vars PROVE Abs!CodeNext \/ Abs!absVars' = Abs!absVars
  OBVIOUS
<1>1. PICK s \in Chains : InvAt(s)
  BY Zenon DEF Inv
<1>2. List(s)
  BY <1>1, Zenon DEF InvAt
<1>3. CASE Next
  BY <1>2, <1>3, StepIs, EnqRefines, InsRefines, DelRefines, SameRefines, Zenon DEF Abs!CodeNext
<1>4. CASE UNCHANGED vars
  <2>1. UNCHANGED <<head, next, tail, curNum, usePri, call>>
    BY <1>4 DEF vars
  <2>2. IsList(s, head', tail', next', curNum')
    BY <1>2, <2>1 DEF List
  <2>3. Contents' = Contents
    BY <1>2, <2>2, ListNow, ListNext, Zenon
  <2> QED
    BY <2>1, <2>3 DEF Abs!absVars
<1> QED
  BY <1>3, <1>4

(* The linked list of tl_queue.c is the queue of AbsQueue: each call does  *)
(* to the sequence of linked items what tl_queue.h says, with its answer,  *)
(* but for the call that InsertByPriority stands for.                      *)
THEOREM ListImplementsQueue == Spec => IsQueue
<1> QED
  BY InitRefines, StepRefines, Invariance, PTL DEF Spec, IsQueue, Abs!CodeSpec

(* A queue without a priority callback (queue_init with NULL) does what    *)
(* tl_queue.h says in every call.                                          *)
THEOREM PlainQueueIsHeaders == Spec /\ []~usePri => IsHeaderQueue
<1>1. Inv /\ ~usePri /\ [Next]_vars => [Abs!Next]_(Abs!absVars)
  BY StepRefines DEF Abs!CodeNext, Abs!InsertByPriority
<1> QED
  BY <1>1, InitRefines, Invariance, PTL DEF Spec, IsHeaderQueue, Abs!Spec

-----------------------------------------------------------------------------
(* The table of software timers *)
(* How much later than it has to be the timer in place j may be looked at. *)
Slow(j) == (MaxTimer - j) * Cycle

(* How far the tick t is ahead of c; negative when it is behind.           *)
Ahead(t, c) == LET d == (t - c) % W IN IF d < 2 * Quarter THEN d ELSE d - W

-----------------------------------------------------------------------------
(* Remainders of sums and differences of ticks, without division.          *)
LEMMA ModTick ==
  ASSUME NEW w \in Nat, NEW x \in Int, -w <= x, x < 2 * w, w > 0
  PROVE  /\ x % w = IF x < 0 THEN x + w ELSE IF x < w THEN x ELSE x - w
         /\ x % w \in 0 .. w - 1
  OBVIOUS

LEMMA AheadIs ==
  ASSUME Params, NEW t \in Tick, NEW c \in Tick
  PROVE  Ahead(t, c) = IF t - c >= 2 * Quarter THEN t - c - W
                       ELSE IF t - c + W < 2 * Quarter THEN t - c + W ELSE t - c
<1>1. t \in 0..W - 1 /\ c \in 0..W - 1 /\ W \in Nat /\ W > 0 /\ Quarter \in Nat /\ 4 * Quarter <= W
  BY DEF Params, Tick
<1>2. (t - c) % W = IF t - c < 0 THEN t - c + W ELSE t - c
  <2>1. t - c \in Int /\ -W <= t - c /\ t - c < W
    BY <1>1
  <2> QED
    BY <1>1, <2>1, ModTick
<1>3. PICK m : m = (t - c) % W
  OBVIOUS
<1> QED
  BY <1>1, <1>2, <1>3 DEF Ahead

LEMMA SlowIs ==
  ASSUME Params, NEW j \in 1..MaxTimer
  PROVE  /\ Slow(j) \in Nat /\ Slow(j) + Cycle + MaxRun <= Lag
         /\ j + 1 <= MaxTimer => Slow(j) = Slow(j + 1) + Cycle
         /\ Cycle \in Nat /\ Lag \in Nat
<1>1. Cycle \in Nat /\ MaxRun \in Nat /\ MaxTimer \in Nat
  BY DEF Params, Cycle
<1>2. PICK c : c = Cycle
  OBVIOUS
<1>3. \A a, b \in Nat : a * b \in Nat
  OBVIOUS
<1>4. MaxTimer - j \in Nat /\ j - 1 \in Nat
  BY <1>1
<1>5. (MaxTimer - j) * c \in Nat /\ (j - 1) * c \in Nat /\ MaxTimer * c \in Nat
  BY <1>1, <1>2, <1>3, <1>4
<1>6. MaxTimer * c = (MaxTimer - j) * c + (j - 1) * c + c
  BY <1>1, <1>2
<1>7. (MaxTimer - j) * c = (MaxTimer - (j + 1)) * c + c
  BY <1>1, <1>2
<1> QED
  BY <1>1, <1>2, <1>5, <1>6, <1>7 DEF Slow, Lag

(* Moving the clock on by d brings every tick d nearer.                    *)
LEMMA AheadShift ==
  ASSUME Params, NEW t \in Tick, NEW c \in Tick, NEW d \in 0..Quarter,
         Ahead(t, c) \in -Quarter .. Quarter
  PROVE  Ahead(t, Plus(c, d)) = Ahead(t, c) - d /\ Plus(c, d) \in Tick
<1>1. t \in 0..W - 1 /\ c \in 0..W - 1 /\ W \in Nat /\ W > 0 /\ Quarter \in Nat /\ 4 * Quarter <= W
  BY DEF Params, Tick
<1>2. PICK e : e = Plus(c, d)
  OBVIOUS
<1>3. e = (IF c + d < W THEN c + d ELSE c + d - W) /\ e \in 0..W - 1
  <2>1. c + d \in Int /\ 0 <= c + d /\ -W <= c + d /\ c + d < 2 * W
    BY <1>1
  <2> QED
    BY <1>1, <1>2, <2>1, ModTick DEF Plus
<1>4. e \in Tick
  BY <1>3 DEF Tick
<1>5. Ahead(t, e) = IF t - e >= 2 * Quarter THEN t - e - W
                    ELSE IF t - e + W < 2 * Quarter THEN t - e + W ELSE t - e
  BY <1>4, AheadIs
<1>6. PICK a : a = Ahead(t, c)
  OBVIOUS
<1>7. a = IF t - c >= 2 * Quarter THEN t - c - W
          ELSE IF t - c + W < 2 * Quarter THEN t - c + W ELSE t - c
  BY <1>6, AheadIs
<1>8. Ahead(t, e) = a - d
  BY <1>1, <1>3, <1>5, <1>6, <1>7
<1> QED
  BY <1>2, <1>4, <1>6, <1>8

(* A tick that is counted from c is ahead of it by what was added.         *)
LEMMA AheadPlus ==
  ASSUME Params, NEW c \in Tick, NEW d \in 0..Quarter
  PROVE  Ahead(Plus(c, d), c) = d /\ Plus(c, d) \in Tick
<1>1. /\ c \in 0..W - 1 /\ W \in Nat /\ W > 0 /\ Quarter \in Nat /\ 0 < Quarter
      /\ 4 * Quarter <= W
  BY DEF Params, Tick
<1>2. PICK e : e = Plus(c, d)
  OBVIOUS
<1>3. e = (IF c + d < W THEN c + d ELSE c + d - W) /\ e \in 0..W - 1
  <2>1. c + d \in Int /\ 0 <= c + d /\ -W <= c + d /\ c + d < 2 * W
    BY <1>1
  <2> QED
    BY <1>1, <1>2, <2>1, ModTick DEF Plus
<1>4. e \in Tick
  BY <1>3 DEF Tick
<1>5. Ahead(e, c) = IF e - c >= 2 * Quarter THEN e - c - W
                    ELSE IF e - c + W < 2 * Quarter THEN e - c + W ELSE e - c
  BY <1>4, AheadIs
<1> QED
  BY <1>1, <1>2, <1>3, <1>4, <1>5

(* TIME_COMPARE_BIG orders the ticks of a window shorter than its range.   *)
LEMMA AheadBig ==
  ASSUME Params, NEW c \in Tick, NEW t \in Tick, NEW u \in Tick,
         Ahead(t, c) \in -Quarter .. Quarter, Ahead(u, c) \in -Quarter .. Quarter,
         Ahead(t, c) - Ahead(u, c) < Quarter, Ahead(u, c) - Ahead(t, c) < Quarter
  PROVE  Big(t, u) <=> Ahead(u, c) <= Ahead(t, c)
<1>1. /\ t \in 0..W - 1 /\ u \in 0..W - 1 /\ c \in 0..W - 1
      /\ W \in Nat /\ W > 0 /\ Quarter \in Nat /\ 4 * Quarter <= W
  BY DEF Params, Tick
<1>2. PICK a, b : a = Ahead(t, c) /\ b = Ahead(u, c)
  OBVIOUS
<1>3. /\ a = IF t - c >= 2 * Quarter THEN t - c - W
             ELSE IF t - c + W < 2 * Quarter THEN t - c + W ELSE t - c
      /\ b = IF u - c >= 2 * Quarter THEN u - c - W
             ELSE IF u - c + W < 2 * Quarter THEN u - c + W ELSE u - c
  BY <1>2, AheadIs
<1>4. PICK m : m = (t - u) % W
  OBVIOUS
<1>5. m = IF t - u < 0 THEN t - u + W ELSE t - u
  <2>1. t - u \in Int /\ -W <= t - u /\ t - u < W /\ t - u < 2 * W
    BY <1>1
  <2> QED
    BY <1>1, <1>4, <2>1, ModTick
<1>6. a \in -Quarter .. Quarter /\ b \in -Quarter .. Quarter /\ a - b < Quarter /\ b - a < Quarter
  BY <1>2
<1>7. m < Quarter <=> b <= a
  BY <1>1, <1>3, <1>5, <1>6
<1> QED
  BY <1>2, <1>4, <1>7 DEF Big

(* What blt_is_timer_expired computes for a tick in the window.            *)
LEMMA AheadExpired ==
  ASSUME Params, NEW c \in Tick, NEW t \in Tick, Ahead(t, c) \in -Quarter .. Quarter
  PROVE  Expired(t, c) <=> Ahead(t, c) <= Pre /\ Pre - Ahead(t, c) < Post
<1>1. /\ t \in 0..W - 1 /\ c \in 0..W - 1 /\ W \in Nat /\ W > 0
      /\ Quarter \in Nat /\ 4 * Quarter <= W /\ 0 < Quarter
      /\ Pre \in Nat /\ Post \in Nat /\ Pre < Post /\ Post <= Quarter
  BY DEF Params, Tick
<1>2. PICK a : a = Ahead(t, c)
  OBVIOUS
<1>3. a = IF t - c >= 2 * Quarter THEN t - c - W
          ELSE IF t - c + W < 2 * Quarter THEN t - c + W ELSE t - c
  BY <1>2, AheadIs
<1>4. PICK m, x : x = c + Pre - t /\ m = x % W
  OBVIOUS
<1>5. x \in Int /\ -W <= x /\ x < 2 * W
  BY <1>1, <1>4
<1>6. m = IF x < 0 THEN x + W ELSE IF x < W THEN x ELSE x - W
  BY <1>1, <1>4, <1>5, ModTick
<1>7. m < Post <=> a <= Pre /\ Pre - a < Post
  BY <1>1, <1>2, <1>3, <1>4, <1>6
<1> QED
  BY <1>2, <1>4, <1>7 DEF Expired

-----------------------------------------------------------------------------
(* Induction over 0..n, for a set of good numbers.                         *)
LEMMA UpTo ==
  ASSUME NEW n \in Nat, NEW G, 0 \in G, \A j \in 1..n : j - 1 \in G => j \in G
  PROVE  \A j \in 0..n : j \in G
<1> DEFINE B == {j \in 0..n : j \notin G}
<1>1. SUFFICES ASSUME B # {} PROVE FALSE
  OBVIOUS
<1>2. B \in SUBSET Nat
  OBVIOUS
<1>3. PICK z \in B : \A y \in B : ~ (<<y, z>> \in OpToRel(<, Nat))
  BY <1>1, <1>2, NatLessThanWellFounded, WFMin
<1>4. z \in 0..n /\ z \notin G
  OBVIOUS
<1>5. z - 1 \in 0..n /\ z - 1 \in Nat /\ z \in 1..n /\ z - 1 < z
  <2>1. z # 0
    BY <1>4
  <2> QED
    BY <1>4, <2>1
<1>6. z - 1 \notin B
  <2>1. <<z - 1, z>> \in OpToRel(<, Nat)
    BY <1>5, <1>4 DEF OpToRel
  <2> QED
    BY <2>1, <1>3
<1> HIDE DEF B
<1>7. z - 1 \in G
  BY <1>5, <1>6 DEF B
<1> QED
  BY <1>4, <1>5, <1>7

(* n steps on S, and what they make of s, one after the other.             *)
Steps(h, n, S) == h \in [1..n -> [S -> S]]
Chain(p, h, n, S, s) == p \in [0..n -> S] /\ p[0] = s /\ \A j \in 1..n : p[j] = h[j][p[j - 1]]

(* Steps that are functions of their number can be made in a row.          *)
LEMMA Iterate ==
  ASSUME NEW n \in Nat, NEW S, NEW s \in S, NEW h, Steps(h, n, S)
  PROVE  \E p : Chain(p, h, n, S, s)
<1> USE DEF Steps
<1> DEFINE Good(m, p) == p \in [0..m -> S] /\ p[0] = s /\ \A j \in 1..m : p[j] = h[j][p[j - 1]]
           G == {m \in 0..n : \E p : Good(m, p)}
<1>1. 0 \in G
  <2>1. Good(0, [j \in 0..0 |-> s])
    OBVIOUS
  <2>2. 0 \in 0..n
    OBVIOUS
  <2> HIDE DEF Good
  <2> QED
    BY <2>1, <2>2
<1>2. ASSUME NEW m \in 1..n, m - 1 \in G PROVE m \in G
  <2>1. PICK p : Good(m - 1, p)
    BY <1>2
  <2>2. PICK q : q = [j \in 0..m |-> IF j < m THEN p[j] ELSE h[m][p[m - 1]]]
    OBVIOUS
  <2>3. m - 1 \in 0..m - 1 /\ m \in 0..n /\ m \in 0..m /\ 0 < m /\ 0 \in 0..m
    OBVIOUS
  <2>4. p[m - 1] \in S /\ h[m] \in [S -> S]
    BY <2>1, <2>3
  <2>5. h[m][p[m - 1]] \in S
    BY <2>4
  <2>6. \A j \in 0..m : j < m => j \in 0..m - 1 /\ q[j] = p[j]
    BY <2>2
  <2>7. q[m] = h[m][p[m - 1]]
    BY <2>2, <2>3
  <2>8. \A j \in 0..m : (IF j < m THEN p[j] ELSE h[m][p[m - 1]]) \in S
    BY <2>1, <2>5
  <2>9. q \in [0..m -> S]
    BY <2>2, <2>8
  <2>10. q[0] = s
    BY <2>1, <2>3, <2>6
  <2>11. ASSUME NEW j \in 1..m PROVE q[j] = h[j][q[j - 1]]
    <3>1. j \in 0..m /\ j - 1 \in 0..m /\ j - 1 < m /\ (j < m => j \in 1..m - 1) /\ (~(j < m) => j = m)
      OBVIOUS
    <3>2. q[j - 1] = p[j - 1]
      BY <3>1, <2>6
    <3>3. CASE j < m
      <4>1. p[j] = h[j][p[j - 1]] /\ q[j] = p[j]
        BY <3>1, <3>3, <2>1, <2>6
      <4> QED
        BY <4>1, <3>2
    <3>4. CASE j = m
      BY <3>2, <3>4, <2>7
    <3> QED
      BY <3>1, <3>3, <3>4
  <2>12. Good(m, q)
    BY <2>9, <2>10, <2>11
  <2> HIDE DEF Good
  <2> QED
    BY <2>3, <2>12
<1> HIDE DEF G
<1>3. n \in G
  <2>1. \A j \in 0..n : j \in G
    BY <1>1, <1>2, UpTo
  <2> QED
    BY <2>1
<1> QED
  BY <1>3 DEF G, Chain

-----------------------------------------------------------------------------
(* The tables of n timers.                                                 *)
Tab(n) == [1..n -> Event]

(* The timers in j and j + 1 change places, and no other moves.            *)
LEMMA SwapIs ==
  ASSUME NEW n \in Nat, NEW s \in Tab(n), NEW j \in 1..n - 1
  PROVE  /\ Swap(s, j) \in Tab(n)
         /\ \A k \in 1..n : k # j /\ k # j + 1 => Swap(s, j)[k] = s[k]
         /\ IF Big(s[j].t, s[j + 1].t)
            THEN Swap(s, j)[j] = s[j + 1] /\ Swap(s, j)[j + 1] = s[j]
            ELSE Swap(s, j) = s
<1>1. j \in 1..n /\ j + 1 \in 1..n /\ j # j + 1 /\ j \in Int
  OBVIOUS
<1>2. PICK x, y, b : x = s[j] /\ y = s[j + 1] /\ b = Big(s[j].t, s[j + 1].t)
  OBVIOUS
<1>3. x \in Event /\ y \in Event
  BY <1>1, <1>2 DEF Tab
<1>4. PICK u : u = [s EXCEPT ![j] = y, ![j + 1] = x]
  OBVIOUS
<1>5. Swap(s, j) = IF b THEN u ELSE s
  BY <1>2, <1>4 DEF Swap
<1>6. u \in Tab(n) /\ u[j] = y /\ u[j + 1] = x /\ \A k \in 1..n : k # j /\ k # j + 1 => u[k] = s[k]
  BY <1>1, <1>3, <1>4 DEF Tab
<1> QED
  BY <1>2, <1>5, <1>6

(* blt_soft_timer_sort's inner loop: m swaps, one after the other.         *)
LEMMA PassIs ==
  ASSUME NEW n \in Nat, NEW m \in 0..n - 1, NEW s \in Tab(n)
  PROVE  \E p \in [0..m -> Tab(n)] :
           /\ p[0] = s /\ \A j \in 1..m : p[j] = Swap(p[j - 1], j)
           /\ Pass(s, m) = p[m]
<1> DEFINE h == [j \in 1..m |-> [x \in Tab(n) |-> Swap(x, j)]]
           F(p) == [j \in 0..m |-> IF j = 0 THEN s ELSE Swap(p[j - 1], j)]
<1>1. ASSUME NEW j \in 1..m, NEW x \in Tab(n) PROVE Swap(x, j) \in Tab(n)
  <2>1. j \in 1..n - 1
    OBVIOUS
  <2> QED
    BY <2>1, SwapIs
<1>2. h \in [1..m -> [Tab(n) -> Tab(n)]] /\ m \in Nat
  BY <1>1
<1>3. ASSUME NEW j \in 1..m, NEW x \in Tab(n) PROVE h[j][x] = Swap(x, j)
  OBVIOUS
<1> HIDE DEF h
<1>4. PICK p \in [0..m -> Tab(n)] : p[0] = s /\ \A j \in 1..m : p[j] = h[j][p[j - 1]]
  <2>1. Steps(h, m, Tab(n)) /\ m \in Nat
    BY <1>2 DEF Steps
  <2>2. PICK p : Chain(p, h, m, Tab(n), s)
    BY <2>1, Iterate, ZenonT(60)
  <2> QED
    BY <2>2, Zenon DEF Chain
<1>5. ASSUME NEW j \in 1..m PROVE p[j] = Swap(p[j - 1], j)
  <2>1. j - 1 \in 0..m
    OBVIOUS
  <2> QED
    BY <2>1, <1>3, <1>4
<1>6. p = F(p)
  <2>1. \A j \in 0..m : p[j] = IF j = 0 THEN s ELSE Swap(p[j - 1], j)
    <3>1. \A j \in 0..m : j # 0 => j \in 1..m
      OBVIOUS
    <3> QED
      BY <3>1, <1>4, <1>5
  <2> QED
    BY <2>1
<1>7. PICK f : f = CHOOSE g : g = F(g)
  OBVIOUS
<1>8. f = F(f)
  BY <1>6, <1>7
<1>9. Pass(s, m) = f[m]
  BY <1>7 DEF Pass
<1>10. \A j \in 0..m : f[j] = IF j = 0 THEN s ELSE Swap(f[j - 1], j)
  BY <1>8
<1> HIDE DEF F
<1>11. \A j \in 0..m : f[j] = p[j]
  <2> DEFINE G == {j \in 0..m : f[j] = p[j]}
  <2>1. 0 \in G
    BY <1>4, <1>10
  <2>2. ASSUME NEW j \in 1..m, j - 1 \in G PROVE j \in G
    BY <2>2, <1>5, <1>10
  <2> HIDE DEF G
  <2>3. \A j \in 0..m : j \in G
    BY <1>2, <2>1, <2>2, UpTo, Zenon
  <2> QED
    BY <2>3 DEF G
<1>12. m \in 0..m
  OBVIOUS
<1> QED
  BY <1>4, <1>5, <1>9, <1>11, <1>12

(* blt_soft_timer_sort's outer loop, for a table that is not empty.        *)
LEMMA SortIs ==
  ASSUME NEW n \in Nat, n > 0, NEW s \in Tab(n)
  PROVE  \E q \in [0..n - 1 -> Tab(n)] :
           /\ q[0] = s /\ \A k \in 1..n - 1 : q[k] = Pass(q[k - 1], n - k)
           /\ Sort(s) = q[n - 1]
<1>1. PICK m : m = n - 1
  OBVIOUS
<1> DEFINE h == [k \in 1..m |-> [x \in Tab(n) |-> Pass(x, n - k)]]
           F(q) == [k \in 0..m |-> IF k = 0 THEN s ELSE Pass(q[k - 1], n - k)]
<1>2. m \in Nat /\ m \in 0..m /\ Len(s) = n
  BY <1>1 DEF Tab
<1>3. ASSUME NEW k \in 1..m, NEW x \in Tab(n) PROVE Pass(x, n - k) \in Tab(n)
  <2>1. PICK e : e = n - k
    OBVIOUS
  <2>2. e \in 0..n - 1 /\ e \in 0..e
    BY <1>1, <2>1
  <2>3. \E p \in [0..e -> Tab(n)] :
          /\ p[0] = x /\ \A j \in 1..e : p[j] = Swap(p[j - 1], j)
          /\ Pass(x, e) = p[e]
    BY <2>2, PassIs, ZenonT(60)
  <2> QED
    BY <2>1, <2>2, <2>3
<1>4. Steps(h, m, Tab(n))
  BY <1>3 DEF Steps
<1>5. ASSUME NEW k \in 1..m, NEW x \in Tab(n) PROVE h[k][x] = Pass(x, n - k)
  OBVIOUS
<1> HIDE DEF h
<1>6. PICK q : Chain(q, h, m, Tab(n), s)
  BY <1>2, <1>4, Iterate, ZenonT(60)
<1>7. q \in [0..m -> Tab(n)] /\ q[0] = s /\ \A k \in 1..m : q[k] = h[k][q[k - 1]]
  BY <1>6, Zenon DEF Chain
<1>8. ASSUME NEW k \in 1..m PROVE q[k] = Pass(q[k - 1], n - k)
  <2>1. k - 1 \in 0..m
    BY <1>2
  <2> QED
    BY <2>1, <1>5, <1>7
<1>9. q = F(q)
  <2>1. \A k \in 0..m : q[k] = IF k = 0 THEN s ELSE Pass(q[k - 1], n - k)
    <3>1. \A k \in 0..m : k # 0 => k \in 1..m
      OBVIOUS
    <3> QED
      BY <3>1, <1>7, <1>8
  <2> QED
    BY <2>1, <1>7
<1>10. PICK f : f = CHOOSE g : g = F(g)
  OBVIOUS
<1>11. f = F(f)
  BY <1>9, <1>10
<1>12. Sort(s) = f[m]
  BY <1>1, <1>2, <1>10 DEF Sort
<1>13. \A k \in 0..m : f[k] = IF k = 0 THEN s ELSE Pass(f[k - 1], n - k)
  BY <1>11
<1> HIDE DEF F
<1>14. \A k \in 0..m : f[k] = q[k]
  <2> DEFINE G == {k \in 0..m : f[k] = q[k]}
  <2>1. 0 \in G
    BY <1>2, <1>7, <1>13
  <2>2. ASSUME NEW k \in 1..m, k - 1 \in G PROVE k \in G
    BY <2>2, <1>8, <1>13
  <2> HIDE DEF G
  <2>3. \A k \in 0..m : k \in G
    BY <1>2, <2>1, <2>2, UpTo, Zenon
  <2> QED
    BY <2>3 DEF G
<1> QED
  BY <1>1, <1>2, <1>7, <1>8, <1>12, <1>14

-----------------------------------------------------------------------------
(* How far the j-th timer is ahead of the tick c.                          *)
Key(s, j, c) == Ahead(s[j].t, c)

(* No timer is later than its place allows, with a delay of m since, and   *)
(* none is further ahead than an interval.                                 *)
Fits(s, n, c, m) ==
  \A j \in 1..n : /\ -(Slow(j) + m) <= Key(s, j, c)
                  /\ Key(s, j, c) + Lag < Quarter

(* The last k timers are in order and not before any other; the one behind *)
(* the first j is not before them; all are in order.                       *)
Dom(s, n, c, k)  == \A a, b \in 1..n : a < b /\ b > n - k => Key(s, a, c) <= Key(s, b, c)
Top(s, c, j)     == \A a \in 1..j : Key(s, a, c) <= Key(s, j + 1, c)
Ordered(s, n, c) == \A a, b \in 1..n : a < b => Key(s, a, c) <= Key(s, b, c)

(* The parameters of a sort: a table of n timers, seen from the tick c.    *)
Sortable(n, c, m) ==
  /\ Params /\ Roomy /\ n \in Nat /\ n <= MaxTimer /\ c \in Tick
  /\ m \in Nat /\ m <= Cycle + MaxRun

LEMMA KeyType ==
  ASSUME Params, NEW n \in Nat, NEW s \in Tab(n), NEW c \in Tick, NEW j \in 1..n
  PROVE  Key(s, j, c) \in Int /\ s[j].t \in Tick /\ s[j] \in Event
<1>1. s[j] \in Event
  BY DEF Tab
<1>2. s[j].t \in Tick
  BY <1>1 DEF Event
<1>3. PICK t : t = s[j].t
  OBVIOUS
<1>4. Ahead(t, c) = IF t - c >= 2 * Quarter THEN t - c - W
                    ELSE IF t - c + W < 2 * Quarter THEN t - c + W ELSE t - c
  BY <1>2, <1>3, AheadIs
<1>5. t \in Int /\ c \in Int /\ W \in Int /\ Quarter \in Int
  BY <1>2, <1>3 DEF Tick, Params
<1>6. Ahead(t, c) \in Int
  BY <1>4, <1>5
<1> QED
  BY <1>1, <1>2, <1>3, <1>6 DEF Key

(* Timers that fit are in the window that TIME_COMPARE_BIG can order.      *)
LEMMA FitsWindow ==
  ASSUME NEW n, NEW c, NEW m, Sortable(n, c, m), NEW s \in Tab(n), Fits(s, n, c, m), NEW j \in 1..n
  PROVE  /\ Key(s, j, c) \in Int /\ -Lag <= Key(s, j, c) /\ Key(s, j, c) + Lag < Quarter
         /\ Lag \in Nat /\ Lag < Quarter /\ Key(s, j, c) \in -Quarter .. Quarter
<1>1. Params /\ Roomy /\ n \in Nat /\ n <= MaxTimer /\ c \in Tick /\ m \in Nat /\ m <= Cycle + MaxRun
  BY Zenon DEF Sortable
<1>2. j \in 1..MaxTimer
  BY <1>1 DEF Params
<1>3. Slow(j) \in Nat /\ Slow(j) + Cycle + MaxRun <= Lag /\ Cycle \in Nat /\ Lag \in Nat
  BY <1>1, <1>2, SlowIs
<1>4. Key(s, j, c) \in Int
  BY <1>1, KeyType
<1>5. PICK a, b : a = Key(s, j, c) /\ b = Slow(j)
  OBVIOUS
<1>6. -(b + m) <= a /\ a + Lag < Quarter
  BY <1>5 DEF Fits
<1>7. MaxRun \in Nat /\ Quarter \in Nat /\ Post <= Quarter /\ Lag + Pre < Post /\ Pre \in Nat /\ Post \in Nat
  BY <1>1 DEF Params, Roomy
<1>8. -Lag <= a
  BY <1>1, <1>3, <1>4, <1>5, <1>6, <1>7
<1>9. Lag < Quarter
  BY <1>3, <1>7
<1> QED
  BY <1>3, <1>4, <1>5, <1>6, <1>7, <1>8, <1>9

(* A swap puts the earlier of two neighbours first.                        *)
LEMMA SwapKeys ==
  ASSUME NEW n, NEW c, NEW m, Sortable(n, c, m), NEW s \in Tab(n), Fits(s, n, c, m), NEW j \in 1..n - 1
  PROVE  LET u == Swap(s, j)
         IN /\ u \in Tab(n)
            /\ Key(u, j, c) <= Key(u, j + 1, c)
            /\ \A k \in 1..n : k # j /\ k # j + 1 => Key(u, k, c) = Key(s, k, c)
            /\ \/ Key(u, j, c) = Key(s, j, c) /\ Key(u, j + 1, c) = Key(s, j + 1, c)
               \/ Key(u, j, c) = Key(s, j + 1, c) /\ Key(u, j + 1, c) = Key(s, j, c)
<1>1. Params /\ n \in Nat /\ c \in Tick
  BY Zenon DEF Sortable
<1>2. j \in 1..n /\ j + 1 \in 1..n
  BY <1>1
<1>3. PICK u, x, y : u = Swap(s, j) /\ x = s[j].t /\ y = s[j + 1].t
  OBVIOUS
<1>4. /\ u \in Tab(n) /\ \A k \in 1..n : k # j /\ k # j + 1 => u[k] = s[k]
      /\ IF Big(x, y) THEN u[j] = s[j + 1] /\ u[j + 1] = s[j] ELSE u = s
  BY <1>1, <1>3, SwapIs
<1>5. PICK a, b : a = Key(s, j, c) /\ b = Key(s, j + 1, c)
  OBVIOUS
<1>6. /\ a \in Int /\ -Lag <= a /\ a + Lag < Quarter /\ a \in -Quarter .. Quarter
      /\ b \in Int /\ -Lag <= b /\ b + Lag < Quarter /\ b \in -Quarter .. Quarter
      /\ Lag \in Nat
  BY <1>2, <1>5, FitsWindow
<1>7. Quarter \in Nat
  BY <1>1 DEF Params
<1>8. a - b < Quarter /\ b - a < Quarter
  BY <1>6, <1>7
<1>9. x \in Tick /\ y \in Tick
  BY <1>1, <1>2, <1>3, KeyType
<1>10. a = Ahead(x, c) /\ b = Ahead(y, c)
  BY <1>3, <1>5 DEF Key
<1>11. Big(x, y) <=> b <= a
  BY <1>1, <1>6, <1>8, <1>9, <1>10, AheadBig
<1>12. \A k \in 1..n : k # j /\ k # j + 1 => Key(u, k, c) = Key(s, k, c)
  BY <1>4 DEF Key
<1>13. CASE Big(x, y)
  <2>1. Key(u, j, c) = b /\ Key(u, j + 1, c) = a
    BY <1>4, <1>5, <1>13 DEF Key
  <2> QED
    BY <2>1, <1>3, <1>4, <1>5, <1>11, <1>12, <1>13
<1>14. CASE ~Big(x, y)
  <2>1. Key(u, j, c) = a /\ Key(u, j + 1, c) = b
    BY <1>4, <1>5, <1>14
  <2>2. a <= b
    BY <1>6, <1>11, <1>14
  <2> QED
    BY <2>1, <2>2, <1>3, <1>4, <1>5, <1>12
<1> QED
  BY <1>13, <1>14

(* A swap among the first timers keeps what is known of the table, and     *)
(* the latest of the timers looked at so far is the last of them.          *)
LEMMA SwapKeeps ==
  ASSUME NEW n, NEW c, NEW m, Sortable(n, c, m), NEW s \in Tab(n), Fits(s, n, c, m),
         NEW k \in 0..n - 1, Dom(s, n, c, k), NEW j \in 1..n - k - 1, Top(s, c, j - 1)
  PROVE  LET u == Swap(s, j)
         IN u \in Tab(n) /\ Fits(u, n, c, m) /\ Dom(u, n, c, k) /\ Top(u, c, j)
<1>1. /\ Params /\ n \in Nat /\ c \in Tick /\ m \in Nat /\ n <= MaxTimer
  BY Zenon DEF Sortable
<1>2. j \in 1..n - 1 /\ j \in 1..n /\ j + 1 \in 1..n /\ j \in Int /\ j + 1 <= n - k
  BY <1>1
<1>3. PICK u : u = Swap(s, j)
  OBVIOUS
<1>4. /\ u \in Tab(n)
      /\ Key(u, j, c) <= Key(u, j + 1, c)
      /\ \A x \in 1..n : x # j /\ x # j + 1 => Key(u, x, c) = Key(s, x, c)
      /\ \/ Key(u, j, c) = Key(s, j, c) /\ Key(u, j + 1, c) = Key(s, j + 1, c)
         \/ Key(u, j, c) = Key(s, j + 1, c) /\ Key(u, j + 1, c) = Key(s, j, c)
  BY <1>2, <1>3, SwapKeys
<1>5. \A x \in 1..n : Key(u, x, c) \in Int /\ Key(s, x, c) \in Int
  BY <1>1, <1>4, KeyType
<1>6. PICK ku, ks : ku = [x \in 1..n |-> Key(u, x, c)] /\ ks = [x \in 1..n |-> Key(s, x, c)]
  OBVIOUS
<1>7. \A x \in 1..n : ku[x] = Key(u, x, c) /\ ks[x] = Key(s, x, c) /\ ku[x] \in Int /\ ks[x] \in Int
  BY <1>5, <1>6
<1>8. /\ ku[j] <= ku[j + 1]
      /\ \A x \in 1..n : x # j /\ x # j + 1 => ku[x] = ks[x]
      /\ \/ ku[j] = ks[j] /\ ku[j + 1] = ks[j + 1]
         \/ ku[j] = ks[j + 1] /\ ku[j + 1] = ks[j]
  BY <1>2, <1>4, <1>7
<1>9. Fits(u, n, c, m)
  <2>1. Slow(j) = Slow(j + 1) + Cycle /\ Slow(j) \in Nat /\ Slow(j + 1) \in Nat /\ Cycle \in Nat
    <3>1. j \in 1..MaxTimer /\ j + 1 \in 1..MaxTimer
      BY <1>1, <1>2 DEF Params
    <3> QED
      BY <1>1, <3>1, SlowIs
  <2>2. PICK p, q : p = Slow(j) /\ q = Slow(j + 1)
    OBVIOUS
  <2>3. /\ -(p + m) <= ks[j] /\ ks[j] + Lag < Quarter
        /\ -(q + m) <= ks[j + 1] /\ ks[j + 1] + Lag < Quarter
    BY <1>2, <1>7, <2>2 DEF Fits
  <2>4. ku[j] \in Int /\ ku[j + 1] \in Int /\ ks[j] \in Int /\ ks[j + 1] \in Int
    BY <1>2, <1>7
  <2>5. /\ -(p + m) <= ku[j] /\ ku[j] + Lag < Quarter
        /\ -(q + m) <= ku[j + 1] /\ ku[j + 1] + Lag < Quarter
    BY <1>1, <1>8, <2>1, <2>2, <2>3, <2>4
  <2>6. ASSUME NEW x \in 1..n
        PROVE  -(Slow(x) + m) <= Key(u, x, c) /\ Key(u, x, c) + Lag < Quarter
    <3>1. CASE x = j
      BY <1>7, <2>2, <2>5, <3>1
    <3>2. CASE x = j + 1
      BY <1>2, <1>7, <2>2, <2>5, <3>2
    <3>3. CASE x # j /\ x # j + 1
      BY <1>4, <3>3 DEF Fits
    <3> QED
      BY <3>1, <3>2, <3>3
  <2> QED
    BY <2>6 DEF Fits
<1>10. Dom(u, n, c, k)
  <2>1. ASSUME NEW a \in 1..n, NEW b \in 1..n, a < b, b > n - k PROVE ku[a] <= ku[b]
    <3>1. \A x \in 1..n : x < b => ks[x] <= ks[b]
      BY <1>7, <2>1 DEF Dom
    <3>2. b # j /\ b # j + 1 /\ j < b /\ j + 1 < b
      BY <1>1, <1>2, <2>1
    <3>3. ku[b] = ks[b]
      BY <1>8, <3>2
    <3>4. ks[j] <= ks[b] /\ ks[j + 1] <= ks[b] /\ ks[a] <= ks[b]
      BY <1>2, <2>1, <3>1, <3>2
    <3> QED
      BY <1>8, <3>3, <3>4
  <2> QED
    BY <2>1, <1>7 DEF Dom
<1>11. Top(u, c, j)
  <2>1. ASSUME NEW a \in 1..j PROVE ku[a] <= ku[j + 1]
    <3>1. CASE a = j
      BY <1>8, <3>1
    <3>2. CASE a # j
      <4>1. a \in 1..j - 1 /\ a \in 1..n /\ a # j + 1 /\ (j - 1) + 1 = j
        BY <1>1, <1>2, <3>2
      <4>2. ks[a] <= ks[j]
        <5>1. Key(s, a, c) <= Key(s, j, c)
          BY <4>1 DEF Top
        <5> QED
          BY <1>2, <1>7, <4>1, <5>1
      <4>3. ks[j] <= ku[j + 1]
        <5>1. ku[j] \in Int /\ ku[j + 1] \in Int /\ ks[j] \in Int
          BY <1>2, <1>7
        <5> QED
          BY <1>8, <5>1
      <4>4. ku[a] = ks[a] /\ ku[j + 1] \in Int /\ ks[j] \in Int /\ ks[a] \in Int
        BY <1>2, <1>7, <1>8, <3>2, <4>1
      <4> QED
        BY <4>2, <4>3, <4>4
    <3> QED
      BY <3>1, <3>2
  <2>2. \A a \in 1..j : a \in 1..n
    BY <1>1, <1>2
  <2> QED
    BY <1>2, <1>7, <2>1, <2>2 DEF Top
<1> QED
  BY <1>3, <1>4, <1>9, <1>10, <1>11

(* The inner loop brings the latest of the first timers behind the others. *)
LEMMA PassKeeps ==
  ASSUME NEW n, NEW c, NEW m, Sortable(n, c, m), NEW s \in Tab(n), Fits(s, n, c, m),
         NEW k \in 0..n - 2, Dom(s, n, c, k)
  PROVE  LET u == Pass(s, n - (k + 1))
         IN u \in Tab(n) /\ Fits(u, n, c, m) /\ Dom(u, n, c, k + 1)
<1>1. n \in Nat
  BY Zenon DEF Sortable
<1>2. PICK e : e = n - (k + 1)
  OBVIOUS
<1>3. e \in 0..n - 1 /\ e \in Nat /\ e \in 0..e /\ e = n - k - 1 /\ k \in 0..n - 1
  BY <1>1, <1>2
<1>4. PICK p \in [0..e -> Tab(n)] :
        /\ p[0] = s /\ \A j \in 1..e : p[j] = Swap(p[j - 1], j)
        /\ Pass(s, e) = p[e]
  BY <1>1, <1>3, PassIs, ZenonT(60)
<1> DEFINE G == {j \in 0..e : Fits(p[j], n, c, m) /\ Dom(p[j], n, c, k) /\ Top(p[j], c, j)}
<1>5. 0 \in G
  <2>1. 0 \in 0..e /\ Top(s, c, 0)
    BY <1>3 DEF Top
  <2> QED
    BY <1>4, <2>1
<1>6. ASSUME NEW j \in 1..e, j - 1 \in G PROVE j \in G
  <2>1. PICK x : x = p[j - 1]
    OBVIOUS
  <2>2. x \in Tab(n) /\ Fits(x, n, c, m) /\ Dom(x, n, c, k) /\ Top(x, c, j - 1)
    BY <1>4, <1>6, <2>1
  <2>3. j \in 1..n - k - 1 /\ j \in 0..e
    BY <1>3
  <2>4. PICK u : u = Swap(x, j)
    OBVIOUS
  <2>5. Fits(u, n, c, m) /\ Dom(u, n, c, k) /\ Top(u, c, j)
    BY <1>3, <2>2, <2>3, <2>4, SwapKeeps
  <2>6. p[j] = u
    BY <1>4, <2>1, <2>4
  <2> QED
    BY <2>3, <2>5, <2>6
<1> HIDE DEF G
<1>7. e \in G
  <2>1. \A j \in 0..e : j \in G
    BY <1>3, <1>5, <1>6, UpTo, Zenon
  <2> QED
    BY <1>3, <2>1
<1>8. PICK u : u = p[e]
  OBVIOUS
<1>9. u \in Tab(n) /\ Fits(u, n, c, m) /\ Dom(u, n, c, k) /\ Top(u, c, e)
  BY <1>3, <1>4, <1>7, <1>8 DEF G
<1>10. Dom(u, n, c, k + 1)
  <2>1. ASSUME NEW a \in 1..n, NEW b \in 1..n, a < b, b > n - (k + 1)
        PROVE  Key(u, a, c) <= Key(u, b, c)
    <3>1. CASE b > n - k
      BY <1>9, <2>1, <3>1 DEF Dom
    <3>2. CASE ~(b > n - k)
      <4>1. b = e + 1 /\ a \in 1..e
        BY <1>1, <1>3, <2>1, <3>2
      <4> QED
        BY <1>9, <4>1 DEF Top
    <3> QED
      BY <3>1, <3>2
  <2> QED
    BY <2>1 DEF Dom
<1> QED
  BY <1>2, <1>4, <1>8, <1>9, <1>10

(* blt_soft_timer_sort puts the timers in order, across the wrap of the    *)
(* clock, and leaves each one within the limit of its place.               *)
LEMMA SortKeeps ==
  ASSUME NEW n, NEW c, NEW m, Sortable(n, c, m), n > 0, NEW s \in Tab(n), Fits(s, n, c, m)
  PROVE  Sort(s) \in Tab(n) /\ Fits(Sort(s), n, c, m) /\ Ordered(Sort(s), n, c)
<1>1. n \in Nat
  BY Zenon DEF Sortable
<1>2. PICK q \in [0..n - 1 -> Tab(n)] :
        /\ q[0] = s /\ \A k \in 1..n - 1 : q[k] = Pass(q[k - 1], n - k)
        /\ Sort(s) = q[n - 1]
  BY <1>1, SortIs, ZenonT(60)
<1>3. PICK e : e = n - 1
  OBVIOUS
<1>4. e \in Nat /\ e \in 0..e /\ 0 \in 0..e
  BY <1>1, <1>3
<1> DEFINE G == {k \in 0..e : Fits(q[k], n, c, m) /\ Dom(q[k], n, c, k)}
<1>5. 0 \in G
  <2>1. Dom(s, n, c, 0)
    BY <1>1 DEF Dom
  <2> QED
    BY <1>2, <1>4, <2>1
<1>6. ASSUME NEW k \in 1..e, k - 1 \in G PROVE k \in G
  <2>1. PICK x, l : x = q[k - 1] /\ l = k - 1
    OBVIOUS
  <2>2. x \in Tab(n) /\ Fits(x, n, c, m) /\ Dom(x, n, c, l)
    BY <1>2, <1>3, <1>6, <2>1
  <2>3. l \in 0..n - 2 /\ l + 1 = k /\ k \in 0..e
    BY <1>1, <1>3, <2>1
  <2>4. PICK u : u = Pass(x, n - (l + 1))
    OBVIOUS
  <2>5. Fits(u, n, c, m) /\ Dom(u, n, c, l + 1)
    BY <2>2, <2>3, <2>4, PassKeeps
  <2>6. q[k] = u
    BY <1>2, <1>3, <2>1, <2>3, <2>4
  <2> QED
    BY <2>3, <2>5, <2>6
<1> HIDE DEF G
<1>7. e \in G
  <2>1. \A k \in 0..e : k \in G
    BY <1>4, <1>5, <1>6, UpTo, Zenon
  <2> QED
    BY <1>4, <2>1
<1>8. PICK u : u = q[e]
  OBVIOUS
<1>9. u \in Tab(n) /\ Fits(u, n, c, m) /\ Dom(u, n, c, e)
  BY <1>2, <1>3, <1>4, <1>7, <1>8 DEF G
<1>10. Ordered(u, n, c)
  <2>1. \A a, b \in 1..n : a < b => b > n - e
    BY <1>1, <1>3
  <2> QED
    BY <1>9, <2>1 DEF Dom, Ordered
<1> QED
  BY <1>2, <1>3, <1>8, <1>9, <1>10

-----------------------------------------------------------------------------
(* In the loop of blt_soft_timer_process the timers before place r had     *)
(* their turn, and the others wait since the last process at most.         *)
LoopFits(s, n, c, r) ==
  \A j \in 1..n : /\ -(Slow(j) + (IF j < r THEN 0 ELSE Cycle)) <= Key(s, j, c)
                  /\ Key(s, j, c) + Lag < Quarter

(* Between two calls of blt_soft_timer_process                             *)
IdleInv(s, n, c, d) == d <= MaxGap /\ Fits(s, n, c, MaxRun + d) /\ Ordered(s, n, c)

(* In its loop: the order is lost only when the flag says so.              *)
LoopInv(s, n, c, r, ch) ==
  /\ r >= 1 /\ LoopFits(s, n, c, r)
  /\ ~ch => Ordered(s, n, c)
  /\ ch  => r >= 2 /\ n >= 1

TimerInv ==
  /\ TimerTypeOK /\ WakeupNotStale
  /\ pc = "idle" => IdleInv(timer, Len(timer), clock, since)
  /\ pc = "loop" => /\ since <= MaxRun /\ clock = Plus(now, since)
                    /\ LoopInv(timer, Len(timer), now, round, changed)

-----------------------------------------------------------------------------
(* blt_soft_timer_delete_by_index: the timers behind it move up.           *)
LEMMA RemoveIs ==
  ASSUME NEW n \in Nat, NEW s \in Tab(n), NEW k \in 1..n
  PROVE  /\ DeleteByIndex(s, k) \in Tab(n - 1) /\ n - 1 \in Nat
         /\ \A j \in 1..n - 1 : DeleteByIndex(s, k)[j] = IF j < k THEN s[j] ELSE s[j + 1]
<1>1. s \in Seq(Event) /\ Len(s) = n
  BY DEF Tab
<1>2. PICK a, b : a = SubSeq(s, 1, k - 1) /\ b = SubSeq(s, k + 1, n)
  OBVIOUS
<1>3. a \in Seq(Event) /\ Len(a) = k - 1 /\ \A j \in 1..k - 1 : a[j] = s[j]
  BY <1>1, <1>2
<1>4. b \in Seq(Event) /\ Len(b) = n - k /\ \A j \in 1..n - k : b[j] = s[k + j]
  BY <1>1, <1>2
<1>5. DeleteByIndex(s, k) = a \o b
  BY <1>1, <1>2 DEF DeleteByIndex
<1>6. PICK u : u = a \o b
  OBVIOUS
<1>7. u \in Seq(Event) /\ Len(u) = n - 1
  BY <1>3, <1>4, <1>6
<1>8. u \in Tab(n - 1)
  BY <1>7 DEF Tab
<1>9. ASSUME NEW j \in 1..n - 1 PROVE u[j] = IF j < k THEN s[j] ELSE s[j + 1]
  <2>1. CASE j < k
    <3>1. j \in 1..k - 1 /\ j <= Len(a) /\ j \in 1..Len(a) + Len(b)
      BY <1>3, <1>4, <2>1
    <3>2. u[j] = a[j]
      BY <1>3, <1>4, <1>6, <3>1
    <3> QED
      BY <1>3, <2>1, <3>1, <3>2
  <2>2. CASE ~(j < k)
    <3>1. j - Len(a) \in 1..n - k /\ j > Len(a) /\ j \in 1..Len(a) + Len(b) /\ k + (j - Len(a)) = j + 1
      BY <1>3, <1>4, <2>2
    <3>2. u[j] = b[j - Len(a)]
      BY <1>3, <1>4, <1>6, <3>1
    <3> QED
      BY <1>4, <2>2, <3>1, <3>2
  <2> QED
    BY <2>1, <2>2
<1>10. n - 1 \in Nat
  OBVIOUS
<1> QED
  BY <1>5, <1>6, <1>8, <1>9, <1>10

(* A table that lost a timer is still in order.                            *)
LEMMA RemoveOrdered ==
  ASSUME NEW n \in Nat, NEW s \in Tab(n), NEW c, NEW k \in 1..n, Ordered(s, n, c)
  PROVE  Ordered(DeleteByIndex(s, k), n - 1, c)
<1>1. PICK u : u = DeleteByIndex(s, k)
  OBVIOUS
<1>2. \A j \in 1..n - 1 : u[j] = IF j < k THEN s[j] ELSE s[j + 1]
  BY <1>1, RemoveIs
<1>3. ASSUME NEW a \in 1..n - 1, NEW b \in 1..n - 1, a < b PROVE Key(u, a, c) <= Key(u, b, c)
  <2>1. PICK x, y : x = (IF a < k THEN a ELSE a + 1) /\ y = (IF b < k THEN b ELSE b + 1)
    OBVIOUS
  <2>2. x \in 1..n /\ y \in 1..n /\ x < y
    BY <1>3, <2>1
  <2>3. u[a] = s[x] /\ u[b] = s[y]
    BY <1>2, <2>1
  <2>4. Key(s, x, c) <= Key(s, y, c)
    BY <2>2 DEF Ordered
  <2> QED
    BY <2>3, <2>4 DEF Key
<1> QED
  BY <1>1, <1>3 DEF Ordered

(* The limits of the places a timer can come from and go to                *)
LEMMA RemovePlace ==
  ASSUME Params, NEW n \in Nat, n <= MaxTimer, NEW s \in Tab(n), NEW c \in Tick,
         NEW k \in 1..n, NEW j \in 1..n - 1
  PROVE  /\ Key(DeleteByIndex(s, k), j, c) = IF j < k THEN Key(s, j, c) ELSE Key(s, j + 1, c)
         /\ Slow(j) = Slow(j + 1) + Cycle /\ Slow(j) \in Nat /\ Slow(j + 1) \in Nat /\ Cycle \in Nat
         /\ Key(s, j, c) \in Int /\ Key(s, j + 1, c) \in Int
         /\ j \in 1..n /\ j + 1 \in 1..n
<1>1. j \in 1..n /\ j + 1 \in 1..n
  OBVIOUS
<1>2. j \in 1..MaxTimer /\ j + 1 \in 1..MaxTimer
  BY DEF Params
<1>3. Slow(j) = Slow(j + 1) + Cycle /\ Slow(j) \in Nat /\ Slow(j + 1) \in Nat /\ Cycle \in Nat
  BY <1>2, SlowIs
<1>4. Key(s, j, c) \in Int /\ Key(s, j + 1, c) \in Int
  BY <1>1, KeyType
<1>5. DeleteByIndex(s, k)[j] = IF j < k THEN s[j] ELSE s[j + 1]
  BY RemoveIs
<1> QED
  BY <1>1, <1>3, <1>4, <1>5 DEF Key

(* ... and fits.                                                           *)
LEMMA RemoveFits ==
  ASSUME NEW n, NEW c, NEW m, Sortable(n, c, m), NEW s \in Tab(n), NEW k \in 1..n, Fits(s, n, c, m)
  PROVE  Fits(DeleteByIndex(s, k), n - 1, c, m)
<1>1. Params /\ n \in Nat /\ n <= MaxTimer /\ c \in Tick /\ m \in Nat
  BY Zenon DEF Sortable
<1>2. PICK u : u = DeleteByIndex(s, k)
  OBVIOUS
<1>3. ASSUME NEW j \in 1..n - 1
      PROVE  -(Slow(j) + m) <= Key(u, j, c) /\ Key(u, j, c) + Lag < Quarter
  <2>1. PICK x, y, p, q : x = Key(s, j, c) /\ y = Key(s, j + 1, c) /\ p = Slow(j) /\ q = Slow(j + 1)
    OBVIOUS
  <2>2. /\ Key(u, j, c) = IF j < k THEN x ELSE y
        /\ p = q + Cycle /\ p \in Nat /\ q \in Nat /\ Cycle \in Nat /\ x \in Int /\ y \in Int
        /\ j \in 1..n /\ j + 1 \in 1..n
    BY <1>1, <1>2, <2>1, RemovePlace
  <2>3. -(p + m) <= x /\ x + Lag < Quarter /\ -(q + m) <= y /\ y + Lag < Quarter
    BY <2>1, <2>2 DEF Fits
  <2> QED
    BY <1>1, <2>1, <2>2, <2>3
<1> QED
  BY <1>2, <1>3 DEF Fits

(* In the loop the timer that takes the place of a deleted one has its     *)
(* turn only in the next process, but one place further to the front.      *)
LEMMA RemoveLoopFits ==
  ASSUME Params, NEW n \in Nat, n <= MaxTimer, NEW s \in Tab(n), NEW c \in Tick,
         NEW k \in 1..n, LoopFits(s, n, c, k)
  PROVE  LoopFits(DeleteByIndex(s, k), n - 1, c, k + 1)
<1>2. PICK u : u = DeleteByIndex(s, k)
  OBVIOUS
<1>3. ASSUME NEW j \in 1..n - 1
      PROVE  /\ -(Slow(j) + (IF j < k + 1 THEN 0 ELSE Cycle)) <= Key(u, j, c)
             /\ Key(u, j, c) + Lag < Quarter
  <2>1. PICK x, y, p, q : x = Key(s, j, c) /\ y = Key(s, j + 1, c) /\ p = Slow(j) /\ q = Slow(j + 1)
    OBVIOUS
  <2>2. /\ Key(u, j, c) = IF j < k THEN x ELSE y
        /\ p = q + Cycle /\ p \in Nat /\ q \in Nat /\ Cycle \in Nat /\ x \in Int /\ y \in Int
        /\ j \in 1..n /\ j + 1 \in 1..n
    BY <1>2, <2>1, RemovePlace
  <2>3. /\ -(p + (IF j < k THEN 0 ELSE Cycle)) <= x /\ x + Lag < Quarter
        /\ -(q + (IF j + 1 < k THEN 0 ELSE Cycle)) <= y /\ y + Lag < Quarter
    BY <2>1, <2>2 DEF LoopFits
  <2> QED
    BY <2>1, <2>2, <2>3
<1> QED
  BY <1>2, <1>3 DEF LoopFits

(* A timer that is not due, or was just served, may wait one more process. *)
LEMMA TurnFits ==
  ASSUME Params, NEW n \in Nat, n <= MaxTimer, NEW s, NEW u, NEW c \in Tick, NEW k \in 1..n,
         LoopFits(s, n, c, k), \A j \in 1..n : j # k => u[j] = s[j],
         Key(u, k, c) \in Nat, Key(u, k, c) + Lag < Quarter
  PROVE  LoopFits(u, n, c, k + 1)
<1>1. ASSUME NEW j \in 1..n
      PROVE  /\ -(Slow(j) + (IF j < k + 1 THEN 0 ELSE Cycle)) <= Key(u, j, c)
             /\ Key(u, j, c) + Lag < Quarter
  <2>1. CASE j = k
    <3>1. Slow(k) \in Nat
      <4>1. k \in 1..MaxTimer
        BY DEF Params
      <4> QED
        BY <4>1, SlowIs
    <3>2. PICK x, p : x = Key(u, k, c) /\ p = Slow(k)
      OBVIOUS
    <3>3. -(p + 0) <= x /\ k < k + 1
      BY <3>1, <3>2
    <3> QED
      BY <2>1, <3>2, <3>3
  <2>2. CASE j # k
    <3>1. Key(u, j, c) = Key(s, j, c) /\ (j < k + 1 <=> j < k)
      BY <2>2 DEF Key
    <3>2. -(Slow(j) + (IF j < k THEN 0 ELSE Cycle)) <= Key(s, j, c) /\ Key(s, j, c) + Lag < Quarter
      BY DEF LoopFits
    <3> QED
      BY <3>1, <3>2
  <2> QED
    BY <2>1, <2>2
<1> QED
  BY <1>1 DEF LoopFits

(* A new timer at the end of the table                                     *)
LEMMA AppendFits ==
  ASSUME NEW n, NEW c, NEW m, Sortable(n, c, m), n + 1 <= MaxTimer, NEW s \in Tab(n), Fits(s, n, c, m),
         NEW e \in Event, Ahead(e.t, c) \in Nat, Ahead(e.t, c) + Lag < Quarter
  PROVE  Append(s, e) \in Tab(n + 1) /\ Fits(Append(s, e), n + 1, c, m)
<1>1. Params /\ n \in Nat /\ c \in Tick /\ m \in Nat
  BY Zenon DEF Sortable
<1>2. PICK u : u = Append(s, e)
  OBVIOUS
<1>3. s \in Seq(Event) /\ Len(s) = n
  BY <1>1 DEF Tab
<1>4. u \in Seq(Event) /\ Len(u) = n + 1 /\ u[n + 1] = e /\ \A j \in 1..n : u[j] = s[j]
  BY <1>2, <1>3
<1>5. u \in Tab(n + 1)
  BY <1>4 DEF Tab
<1>6. ASSUME NEW j \in 1..n + 1
      PROVE  -(Slow(j) + m) <= Key(u, j, c) /\ Key(u, j, c) + Lag < Quarter
  <2>1. CASE j = n + 1
    <3>1. Slow(j) \in Nat
      <4>1. j \in 1..MaxTimer
        BY <1>1, <2>1 DEF Params
      <4> QED
        BY <1>1, <4>1, SlowIs
    <3>2. PICK x, p : x = Ahead(e.t, c) /\ p = Slow(j)
      OBVIOUS
    <3>3. Key(u, j, c) = x
      BY <1>4, <2>1, <3>2 DEF Key
    <3>4. -(p + m) <= x
      BY <1>1, <3>1, <3>2
    <3> QED
      BY <3>2, <3>3, <3>4
  <2>2. CASE j # n + 1
    <3>1. j \in 1..n
      BY <1>1, <2>2
    <3>2. Key(u, j, c) = Key(s, j, c)
      BY <1>4, <3>1 DEF Key
    <3> QED
      BY <3>1, <3>2 DEF Fits
  <2> QED
    BY <2>1, <2>2
<1> QED
  BY <1>2, <1>5, <1>6 DEF Fits

(* While the clock moves on by d the order stays, and the delay grows.     *)
LEMMA ShiftFits ==
  ASSUME NEW n, NEW c, NEW m, Sortable(n, c, m), NEW s \in Tab(n), Fits(s, n, c, m),
         NEW d \in Nat, d <= Quarter
  PROVE  /\ Plus(c, d) \in Tick
         /\ \A j \in 1..n : Key(s, j, Plus(c, d)) = Key(s, j, c) - d
         /\ Fits(s, n, Plus(c, d), m + d)
         /\ Ordered(s, n, c) => Ordered(s, n, Plus(c, d))
<1>1. Params /\ n \in Nat /\ n <= MaxTimer /\ c \in Tick /\ m \in Nat
  BY Zenon DEF Sortable
<1>2. PICK e : e = Plus(c, d)
  OBVIOUS
<1>3. d \in 0..Quarter /\ Quarter \in Nat
  BY <1>1 DEF Params
<1>4. e \in Tick
  BY <1>1, <1>2, <1>3, AheadPlus
<1>5. ASSUME NEW j \in 1..n PROVE Key(s, j, e) = Key(s, j, c) - d
  <2>1. Key(s, j, c) \in -Quarter .. Quarter
    BY FitsWindow
  <2>2. s[j].t \in Tick
    BY <1>1, KeyType
  <2>3. PICK t : t = s[j].t
    OBVIOUS
  <2>4. Ahead(t, c) \in -Quarter .. Quarter /\ t \in Tick
    BY <2>1, <2>2, <2>3 DEF Key
  <2>5. Ahead(t, e) = Ahead(t, c) - d
    BY <1>1, <1>2, <1>3, <2>4, AheadShift
  <2> QED
    BY <2>3, <2>5 DEF Key
<1>6. Fits(s, n, e, m + d)
  <2>1. ASSUME NEW j \in 1..n
        PROVE  -(Slow(j) + (m + d)) <= Key(s, j, e) /\ Key(s, j, e) + Lag < Quarter
    <3>1. PICK x, y, p : x = Key(s, j, c) /\ y = Key(s, j, e) /\ p = Slow(j)
      OBVIOUS
    <3>2. y = x - d /\ x \in Int
      BY <1>5, <3>1, FitsWindow
    <3>3. -(p + m) <= x /\ x + Lag < Quarter
      BY <3>1 DEF Fits
    <3>4. p \in Nat /\ Lag \in Nat
      <4>1. j \in 1..MaxTimer
        BY <1>1 DEF Params
      <4> QED
        BY <1>1, <3>1, <4>1, SlowIs
    <3>5. -(p + (m + d)) <= y /\ y + Lag < Quarter
      BY <1>1, <1>3, <3>2, <3>3, <3>4
    <3> QED
      BY <3>1, <3>5
  <2> QED
    BY <2>1 DEF Fits
<1>7. ASSUME Ordered(s, n, c) PROVE Ordered(s, n, e)
  <2>1. ASSUME NEW a \in 1..n, NEW b \in 1..n, a < b PROVE Key(s, a, e) <= Key(s, b, e)
    <3>1. Key(s, a, e) = Key(s, a, c) - d /\ Key(s, b, e) = Key(s, b, c) - d
      BY <1>5
    <3>2. Key(s, a, c) <= Key(s, b, c)
      BY <1>7, <2>1 DEF Ordered
    <3>3. Key(s, a, c) \in Int /\ Key(s, b, c) \in Int
      BY FitsWindow
    <3> QED
      BY <3>1, <3>2, <3>3
  <2> QED
    BY <2>1 DEF Ordered
<1> QED
  BY <1>2, <1>4, <1>5, <1>6, <1>7

-----------------------------------------------------------------------------
(* The types of the state, with the table as a function of n places.       *)
LEMMA TableIs ==
  ASSUME Params, NEW s, NEW n
  PROVE  s \in Tab(n) /\ n \in Nat <=> s \in Seq(Event) /\ Len(s) = n
<1>1. ASSUME s \in Tab(n), n \in Nat PROVE s \in Seq(Event) /\ Len(s) = n
  BY <1>1 DEF Tab
<1>2. ASSUME s \in Seq(Event), Len(s) = n PROVE s \in Tab(n) /\ n \in Nat
  BY <1>2 DEF Tab
<1> QED
  BY <1>1, <1>2

LEMMA StateIs ==
  ASSUME Params, TimerInv
  PROVE  /\ timer \in Tab(Len(timer)) /\ Len(timer) \in Nat /\ Len(timer) <= MaxTimer
         /\ wakeup \in Tick \cup {Off} /\ clock \in Tick /\ now \in Tick
         /\ pc \in {"idle", "loop"} /\ round \in 0 .. MaxTimer + 1 /\ changed \in BOOLEAN
         /\ since \in Nat
<1>1. timer \in Seq(Event) /\ Len(timer) = Len(timer)
  BY DEF TimerInv, TimerTypeOK
<1>2. timer \in Tab(Len(timer)) /\ Len(timer) \in Nat
  BY <1>1, TableIs, Zenon
<1> QED
  BY <1>2 DEF TimerInv, TimerTypeOK

(* A table between two calls can be sorted.                                *)
LEMMA IdleSortable ==
  ASSUME Params, Roomy, TimerInv, pc = "idle"
  PROVE  /\ IdleInv(timer, Len(timer), clock, since)
         /\ Sortable(Len(timer), clock, MaxRun + since)
<1>1. IdleInv(timer, Len(timer), clock, since)
  BY DEF TimerInv
<1>2. since <= MaxGap /\ since \in Nat /\ MaxGap \in Nat /\ MaxRun \in Nat
  BY <1>1, StateIs DEF IdleInv, Params
<1>3. MaxRun + since \in Nat /\ MaxRun + since <= Cycle + MaxRun
  BY <1>2 DEF Cycle
<1>4. Len(timer) \in Nat /\ Len(timer) <= MaxTimer /\ clock \in Tick
  BY StateIs
<1> QED
  BY <1>1, <1>3, <1>4 DEF Sortable

(* blt_soft_timer_add                                                      *)
LEMMA AddStep ==
  ASSUME Params, Roomy, TimerInv, NEW f \in Func, NEW d \in Interval, Add(f, d)
  PROVE  TimerInv'
<1>1. /\ pc = "idle" /\ Len(timer) < MaxTimer
      /\ timer' = Sort(Append(timer, [cb |-> f, t |-> Plus(clock, d), interval |-> d]))
      /\ wakeup' = timer'[1].t
      /\ clock' = clock /\ pc' = pc /\ round' = round /\ now' = now
      /\ changed' = changed /\ since' = since
  BY DEF Add
<1>2. PICK e, n : e = [cb |-> f, t |-> Plus(clock, d), interval |-> d] /\ n = Len(timer)
  OBVIOUS
<1>3. /\ timer \in Tab(n) /\ n \in Nat /\ n < MaxTimer /\ clock \in Tick /\ now \in Tick
      /\ round \in 0 .. MaxTimer + 1 /\ changed \in BOOLEAN /\ since \in Nat
  BY <1>1, <1>2, StateIs
<1>4. PICK m : m = MaxRun + since
  OBVIOUS
<1>5. Sortable(n, clock, m) /\ since <= MaxGap /\ Fits(timer, n, clock, m)
  BY <1>1, <1>2, <1>4, IdleSortable DEF IdleInv
<1>6. d \in 0..Quarter /\ d \in Nat /\ d + Lag < Quarter
  BY DEF Params, Roomy
<1>7. Plus(clock, d) \in Tick /\ Ahead(Plus(clock, d), clock) = d
  BY <1>3, <1>6, AheadPlus
<1>8. e \in Event /\ e.t = Plus(clock, d)
  BY <1>2, <1>7 DEF Event
<1>9. n + 1 \in Nat /\ n + 1 <= MaxTimer /\ n + 1 > 0 /\ 1 \in 1..n + 1
  BY <1>3 DEF Params
<1>10. PICK a, k : a = Append(timer, e) /\ k = n + 1
  OBVIOUS
<1>11. a \in Tab(k) /\ Fits(a, k, clock, m)
  BY <1>3, <1>5, <1>6, <1>7, <1>8, <1>9, <1>10, AppendFits
<1>12. Sortable(k, clock, m)
  BY <1>5, <1>9, <1>10 DEF Sortable
<1>13. PICK u : u = Sort(a)
  OBVIOUS
<1>14. u \in Tab(k) /\ Fits(u, k, clock, m) /\ Ordered(u, k, clock)
  BY <1>9, <1>10, <1>11, <1>12, <1>13, SortKeeps
<1>15. timer' = u
  BY <1>1, <1>2, <1>10, <1>13
<1>16. u \in Seq(Event) /\ Len(u) = k
  BY <1>9, <1>10, <1>14, TableIs, Zenon
<1>17. u[1].t \in Tick /\ u # <<>>
  <2>1. u[1] \in Event
    BY <1>9, <1>10, <1>14 DEF Tab
  <2> QED
    BY <1>9, <1>10, <1>16, <2>1 DEF Event
<1>18. TimerTypeOK'
  BY <1>1, <1>3, <1>9, <1>10, <1>15, <1>16, <1>17 DEF TimerTypeOK
<1>19. WakeupNotStale'
  BY <1>1, <1>15, <1>17 DEF WakeupNotStale
<1>20. IdleInv(u, k, clock, since)
  BY <1>4, <1>5, <1>14 DEF IdleInv
<1>21. pc' = "idle" /\ IdleInv(timer, Len(timer), clock, since)'
  BY <1>1, <1>15, <1>16, <1>20 DEF IdleInv, Fits, Ordered
<1> QED
  BY <1>18, <1>19, <1>21 DEF TimerInv

(* A set of numbers has a smallest one.                                    *)
LEMMA SmallestIn ==
  ASSUME NEW S, S \subseteq Nat, S # {}
  PROVE  \E x \in S : \A y \in S : x <= y
<1>1. PICK x \in S : \A y \in S : ~ (<<y, x>> \in OpToRel(<, Nat))
  BY NatLessThanWellFounded, WFMin
<1>2. ASSUME NEW y \in S PROVE x <= y
  <2>1. x \in Nat /\ y \in Nat
    OBVIOUS
  <2>2. ~(y < x)
    BY <1>1, <2>1 DEF OpToRel
  <2> QED
    BY <2>1, <2>2
<1> QED
  BY <1>2

(* A wakeup that is armed is the one of the first timer.                   *)
LEMMA WakeupIs ==
  ASSUME NEW n \in Nat, NEW s \in Tab(n), NEW c, NEW h
  PROVE  /\ Wakeup(s, c, h) \in Tick \cup {Off}
         /\ Wakeup(s, c, h) # Off => s # <<>> /\ Wakeup(s, c, h) = s[1].t
<1>1. CASE s = <<>>
  BY <1>1 DEF Wakeup
<1>2. CASE s # <<>>
  <2>1. n # 0
    BY <1>2 DEF Tab
  <2>2. 1 \in 1..n
    BY <2>1
  <2>3. s[1] \in Event
    BY <2>2 DEF Tab
  <2>4. s[1].t \in Tick
    BY <2>3 DEF Event
  <2> QED
    BY <1>2, <2>4 DEF Wakeup
<1> QED
  BY <1>1, <1>2

(* blt_soft_timer_delete                                                   *)
LEMMA DeleteStep ==
  ASSUME Params, Roomy, TimerInv, NEW f \in Func, Delete(f)
  PROVE  TimerInv'
<1>1. PICK at, k : /\ at = {x \in 1..Len(timer) : timer[x].cb = f}
                   /\ k = CHOOSE x \in at : \A y \in at : x <= y
  OBVIOUS
<1>2. /\ pc = "idle" /\ at # {}
      /\ timer' = DeleteByIndex(timer, k)
      /\ wakeup' = IF timer' = <<>> \/ k = 1 THEN Wakeup(timer', clock, DelHorizon) ELSE wakeup
      /\ clock' = clock /\ pc' = pc /\ round' = round /\ now' = now
      /\ changed' = changed /\ since' = since
  BY <1>1 DEF Delete
<1>3. PICK n : n = Len(timer)
  OBVIOUS
<1>4. /\ timer \in Tab(n) /\ n \in Nat /\ n <= MaxTimer /\ clock \in Tick /\ now \in Tick
      /\ round \in 0 .. MaxTimer + 1 /\ changed \in BOOLEAN /\ since \in Nat
      /\ wakeup \in Tick \cup {Off}
  BY <1>3, StateIs
<1>5. k \in 1..n
  <2>1. \E x \in at : \A y \in at : x <= y
    <3>1. at \subseteq Nat
      BY <1>1
    <3> QED
      BY <1>2, <3>1, SmallestIn, Zenon
  <2>2. k \in at
    BY <1>1, <2>1
  <2> QED
    BY <1>1, <1>3, <2>2
<1>6. PICK m : m = MaxRun + since
  OBVIOUS
<1>7. Sortable(n, clock, m) /\ since <= MaxGap /\ Fits(timer, n, clock, m) /\ Ordered(timer, n, clock)
  BY <1>2, <1>3, <1>6, IdleSortable DEF IdleInv
<1>8. PICK u, l : u = DeleteByIndex(timer, k) /\ l = n - 1
  OBVIOUS
<1>9. u \in Tab(l) /\ l \in Nat /\ \A j \in 1..l : u[j] = IF j < k THEN timer[j] ELSE timer[j + 1]
  BY <1>4, <1>5, <1>8, RemoveIs
<1>10. Fits(u, l, clock, m)
  BY <1>4, <1>5, <1>7, <1>8, RemoveFits
<1>11. Ordered(u, l, clock)
  BY <1>4, <1>5, <1>7, <1>8, RemoveOrdered
<1>12. timer' = u
  BY <1>2, <1>8
<1>13. u \in Seq(Event) /\ Len(u) = l /\ l <= MaxTimer
  <2>1. l <= MaxTimer
    BY <1>4, <1>8 DEF Params
  <2> QED
    BY <1>9, <2>1, TableIs, Zenon
<1>14. /\ wakeup' \in Tick \cup {Off}
       /\ wakeup' # Off => u # <<>> /\ wakeup' = u[1].t
  <2>1. CASE u = <<>> \/ k = 1
    <3>1. wakeup' = Wakeup(u, clock, DelHorizon)
      BY <1>2, <1>12, <2>1
    <3> QED
      BY <1>9, <3>1, WakeupIs
  <2>2. CASE ~(u = <<>> \/ k = 1)
    <3>1. wakeup' = wakeup
      BY <1>2, <1>12, <2>2
    <3>2. 1 \in 1..l /\ 1 < k
      BY <1>5, <1>9, <1>13, <2>2
    <3>3. u[1] = timer[1]
      BY <1>9, <3>2
    <3>4. wakeup # Off => wakeup = timer[1].t
      BY <1>2 DEF TimerInv, WakeupNotStale
    <3> QED
      BY <1>4, <2>2, <3>1, <3>3, <3>4
  <2> QED
    BY <2>1, <2>2
<1>15. TimerTypeOK'
  BY <1>2, <1>4, <1>12, <1>13, <1>14 DEF TimerTypeOK
<1>16. WakeupNotStale'
  BY <1>2, <1>12, <1>14 DEF WakeupNotStale
<1>17. IdleInv(u, l, clock, since)
  BY <1>6, <1>7, <1>10, <1>11 DEF IdleInv
<1>18. pc' = "idle" /\ IdleInv(timer, Len(timer), clock, since)'
  BY <1>2, <1>12, <1>13, <1>17 DEF IdleInv, Fits, Ordered
<1> QED
  BY <1>15, <1>16, <1>18 DEF TimerInv

(* A timer that is ahead, or late by no more than the lag, is not given    *)
(* up; if it is not expired it is not late.                                *)
LEMMA LagExpired ==
  ASSUME Params, Roomy, NEW t \in Tick, NEW c \in Tick, Ahead(t, c) \in Int,
         -Lag <= Ahead(t, c), Ahead(t, c) + Lag < Quarter, Lag \in Nat
  PROVE  /\ (t - c) % W <= Quarter \/ Expired(t, c)
         /\ ~Expired(t, c) => Ahead(t, c) \in Nat
<1>1. PICK a : a = Ahead(t, c)
  OBVIOUS
<1>2. /\ Pre \in Nat /\ Post \in Nat /\ Quarter \in Nat /\ Post <= Quarter /\ Lag + Pre < Post
      /\ W \in Nat /\ 4 * Quarter <= W /\ 0 < Quarter
  BY DEF Params, Roomy
<1>3. a \in -Quarter .. Quarter /\ Pre - a < Post
  BY <1>1, <1>2
<1>4. Expired(t, c) <=> a <= Pre
  BY <1>1, <1>2, <1>3, AheadExpired
<1>5. ASSUME ~Expired(t, c) PROVE a \in Nat
  BY <1>1, <1>2, <1>4, <1>5
<1>6. ASSUME ~Expired(t, c) PROVE (t - c) % W <= Quarter
  <2>1. PICK d : d = (t - c) % W
    OBVIOUS
  <2>2. a = IF d < 2 * Quarter THEN d ELSE d - W
    BY <1>1, <2>1 DEF Ahead
  <2>3. d \in 0..W - 1
    <3>1. t - c \in Int /\ -W <= t - c /\ t - c < 2 * W /\ W > 0
      BY <1>2 DEF Tick
    <3> QED
      BY <1>2, <2>1, <3>1, ModTick
  <2>4. a >= 0 /\ a <= Quarter
    BY <1>3, <1>5, <1>6
  <2> QED
    BY <1>2, <2>1, <2>2, <2>3, <2>4
<1> QED
  BY <1>1, <1>5, <1>6

(* blt_soft_timer_process up to its loop: when the first timer is not due, *)
(* none is late.                                                           *)
LEMMA ProcessStep ==
  ASSUME Params, Roomy, TimerInv, Process
  PROVE  TimerInv'
<1>1. pc = "idle" /\ since' = 0 /\ timer' = timer /\ clock' = clock
  BY DEF Process
<1>2. PICK n, m : n = Len(timer) /\ m = MaxRun + since
  OBVIOUS
<1>3. /\ timer \in Tab(n) /\ n \in Nat /\ n <= MaxTimer /\ clock \in Tick /\ now \in Tick
      /\ round \in 0 .. MaxTimer + 1 /\ changed \in BOOLEAN /\ since \in Nat
      /\ wakeup \in Tick \cup {Off} /\ timer \in Seq(Event)
  BY <1>2, StateIs DEF TimerInv, TimerTypeOK
<1>4. Sortable(n, clock, m) /\ since <= MaxGap /\ Fits(timer, n, clock, m) /\ Ordered(timer, n, clock)
  BY <1>1, <1>2, IdleSortable DEF IdleInv
<1>5. MaxGap \in Nat /\ MaxRun \in Nat /\ MaxTimer \in Nat
  BY DEF Params
<1>6. wakeup # Off => timer # <<>> /\ wakeup = timer[1].t
  BY <1>1 DEF TimerInv, WakeupNotStale
<1>7. \A j \in 1..n : Slow(j) \in Nat /\ Key(timer, j, clock) \in Int /\ -Lag <= Key(timer, j, clock)
                      /\ Key(timer, j, clock) + Lag < Quarter /\ Cycle \in Nat /\ Lag \in Nat
                      /\ timer[j].t \in Tick
  <2>1. ASSUME NEW j \in 1..n PROVE Slow(j) \in Nat /\ Cycle \in Nat /\ Lag \in Nat
    <3>1. j \in 1..MaxTimer
      BY <1>3, <1>5
    <3> QED
      BY <3>1, SlowIs
  <2> QED
    BY <1>3, <1>4, <2>1, FitsWindow, KeyType
<1>8. CASE timer = <<>> /\ wakeup' = Off /\ UNCHANGED <<pc, round, now, changed>>
  <2>1. n = 0
    BY <1>2, <1>8
  <2>2. IdleInv(timer, n, clock, 0)
    BY <1>5, <2>1 DEF IdleInv, Fits, Ordered
  <2>3. pc' = "idle" /\ IdleInv(timer, Len(timer), clock, since)'
    BY <1>1, <1>2, <1>8, <2>2 DEF IdleInv, Fits, Ordered
  <2>4. TimerTypeOK' /\ WakeupNotStale'
    BY <1>1, <1>2, <1>3, <1>8 DEF TimerTypeOK, WakeupNotStale
  <2> QED
    BY <2>3, <2>4 DEF TimerInv
<1>9. CASE timer # <<>> /\ ~Expired(timer[1].t, clock) /\ UNCHANGED <<wakeup, pc, round, now, changed>>
  <2>1. 1 \in 1..n
    BY <1>2, <1>3, <1>9
  <2>2. Key(timer, 1, clock) \in Nat
    <3>1. PICK t : t = timer[1].t
      OBVIOUS
    <3>2. t \in Tick /\ Ahead(t, clock) \in Int /\ -Lag <= Ahead(t, clock)
          /\ Ahead(t, clock) + Lag < Quarter /\ Lag \in Nat
      BY <1>7, <2>1, <3>1 DEF Key
    <3>3. Ahead(t, clock) \in Nat
      BY <1>3, <1>9, <3>1, <3>2, LagExpired
    <3> QED
      BY <3>1, <3>3 DEF Key
  <2>3. ASSUME NEW j \in 1..n
        PROVE  -(Slow(j) + (MaxRun + 0)) <= Key(timer, j, clock) /\ Key(timer, j, clock) + Lag < Quarter
    <3>1. Key(timer, 1, clock) <= Key(timer, j, clock)
      <4>1. CASE j = 1
        BY <1>7, <4>1, <2>2
      <4>2. CASE j # 1
        <5>1. 1 < j
          BY <4>2
        <5> QED
          BY <1>4, <2>1, <5>1 DEF Ordered
      <4> QED
        BY <4>1, <4>2
    <3>2. PICK x, y, p : x = Key(timer, 1, clock) /\ y = Key(timer, j, clock) /\ p = Slow(j)
      OBVIOUS
    <3>3. x \in Nat /\ y \in Int /\ x <= y /\ p \in Nat
      BY <1>7, <2>2, <3>1, <3>2
    <3>4. -(p + (MaxRun + 0)) <= y
      BY <1>5, <3>3
    <3> QED
      BY <1>7, <3>2, <3>4
  <2>4. IdleInv(timer, n, clock, 0)
    BY <1>4, <1>5, <2>3 DEF IdleInv, Fits
  <2>5. pc' = "idle" /\ IdleInv(timer, Len(timer), clock, since)'
    BY <1>1, <1>2, <1>9, <2>4 DEF IdleInv, Fits, Ordered
  <2>6. TimerTypeOK' /\ WakeupNotStale'
    BY <1>1, <1>2, <1>3, <1>6, <1>9 DEF TimerTypeOK, WakeupNotStale
  <2> QED
    BY <2>5, <2>6 DEF TimerInv
<1>10. CASE /\ timer # <<>> /\ pc' = "loop" /\ round' = 1 /\ now' = clock /\ changed' = FALSE
            /\ wakeup' = wakeup
  <2>1. LoopFits(timer, n, clock, 1)
    <3>1. ASSUME NEW j \in 1..n
          PROVE  /\ -(Slow(j) + (IF j < 1 THEN 0 ELSE Cycle)) <= Key(timer, j, clock)
                 /\ Key(timer, j, clock) + Lag < Quarter
      <4>1. PICK x, p : x = Key(timer, j, clock) /\ p = Slow(j)
        OBVIOUS
      <4>2. x \in Int /\ p \in Nat /\ -(p + m) <= x
        BY <1>4, <1>7, <4>1 DEF Fits
      <4>3. m <= Cycle /\ m \in Nat /\ Cycle \in Nat
        BY <1>2, <1>3, <1>4, <1>5 DEF Cycle
      <4>4. -(p + Cycle) <= x /\ ~(j < 1)
        BY <4>2, <4>3
      <4> QED
        BY <1>7, <4>1, <4>4
    <3> QED
      BY <3>1 DEF LoopFits
  <2>2. LoopInv(timer, n, clock, 1, FALSE)
    BY <1>4, <2>1 DEF LoopInv
  <2>3. LoopInv(timer, Len(timer), now, round, changed)'
    BY <1>1, <1>2, <1>10, <2>2 DEF LoopInv, LoopFits, Ordered
  <2>4. clock = Plus(clock, 0)
    BY <1>3 DEF Plus, Tick, Params
  <2>5. since' <= MaxRun /\ (clock = Plus(now, since))'
    BY <1>1, <1>5, <1>10, <2>4 DEF Plus
  <2>6. 1 \in 0 .. MaxTimer + 1 /\ since' \in Nat /\ Len(timer') <= MaxTimer
    BY <1>1, <1>2, <1>3, <1>5
  <2>7. TimerTypeOK'
    BY <1>1, <1>3, <1>10, <2>6 DEF TimerTypeOK
  <2>8. WakeupNotStale'
    BY <1>10 DEF WakeupNotStale
  <2> QED
    BY <1>10, <2>3, <2>5, <2>7, <2>8 DEF TimerInv
<1> QED
  BY <1>8, <1>9, <1>10 DEF Process

(* In the loop the table is one that can be sorted, seen from the tick the *)
(* process began with.                                                     *)
LEMMA LoopSortable ==
  ASSUME Params, Roomy, TimerInv, pc = "loop"
  PROVE  /\ LoopInv(timer, Len(timer), now, round, changed)
         /\ Sortable(Len(timer), now, Cycle) /\ Sortable(Len(timer), now, 0)
         /\ Fits(timer, Len(timer), now, Cycle)
<1>1. LoopInv(timer, Len(timer), now, round, changed)
  BY DEF TimerInv
<1>2. Cycle \in Nat /\ MaxRun \in Nat /\ Cycle <= Cycle + MaxRun /\ 0 <= Cycle + MaxRun
  BY DEF Params, Cycle
<1>3. PICK n : n = Len(timer)
  OBVIOUS
<1>4. n \in Nat /\ n <= MaxTimer /\ now \in Tick /\ timer \in Tab(n) /\ MaxTimer \in Nat
  BY <1>3, StateIs DEF Params
<1>5. Sortable(n, now, Cycle) /\ Sortable(n, now, 0)
  BY <1>2, <1>4 DEF Sortable
<1>6. ASSUME NEW j \in 1..n
      PROVE  -(Slow(j) + Cycle) <= Key(timer, j, now) /\ Key(timer, j, now) + Lag < Quarter
  <2>1. PICK x, p : x = Key(timer, j, now) /\ p = Slow(j)
    OBVIOUS
  <2>2. -(p + (IF j < round THEN 0 ELSE Cycle)) <= x /\ x + Lag < Quarter
    BY <1>1, <1>3, <2>1 DEF LoopInv, LoopFits
  <2>3. p \in Nat /\ x \in Int
    <3>1. j \in 1..MaxTimer
      BY <1>4
    <3> QED
      BY <1>4, <2>1, <3>1, SlowIs, KeyType
  <2>4. -(p + Cycle) <= x
    BY <1>2, <2>2, <2>3
  <2> QED
    BY <2>1, <2>2, <2>4
<1>7. Fits(timer, n, now, Cycle)
  BY <1>6 DEF Fits
<1> QED
  BY <1>1, <1>3, <1>5, <1>7

(* The clock moves on.                                                     *)
LEMMA ClockStep ==
  ASSUME Params, Roomy, TimerInv, ClockTick
  PROVE  TimerInv'
<1>1. /\ since < (IF pc = "idle" THEN MaxGap ELSE MaxRun) /\ since' = since + 1
      /\ clock' = Plus(clock, 1) /\ timer' = timer /\ wakeup' = wakeup /\ pc' = pc
      /\ round' = round /\ now' = now /\ changed' = changed
  BY DEF ClockTick
<1>2. PICK n, e : n = Len(timer) /\ e = Plus(clock, 1)
  OBVIOUS
<1>3. /\ timer \in Tab(n) /\ n \in Nat /\ n <= MaxTimer /\ clock \in Tick /\ now \in Tick
      /\ pc \in {"idle", "loop"} /\ since \in Nat /\ timer \in Seq(Event)
  BY <1>2, StateIs DEF TimerInv, TimerTypeOK
<1>4. /\ MaxGap \in Nat /\ MaxRun \in Nat /\ MaxTimer \in Nat /\ Quarter \in Nat /\ 0 < Quarter
      /\ W \in Nat /\ 4 * Quarter <= W /\ 1 \in Nat /\ 1 <= Quarter
  BY DEF Params
<1>5. e \in Tick
  <2>1. 1 \in 0..Quarter
    BY <1>4
  <2> QED
    BY <1>2, <1>3, <2>1, AheadPlus
<1>6. TimerTypeOK'
  <2>1. since' \in Nat
    BY <1>1, <1>3
  <2> QED
    BY <1>1, <1>2, <1>5, <2>1 DEF TimerInv, TimerTypeOK
<1>7. WakeupNotStale'
  BY <1>1 DEF TimerInv, WakeupNotStale
<1>8. CASE pc = "idle"
  <2>1. PICK m : m = MaxRun + since
    OBVIOUS
  <2>2. Sortable(n, clock, m) /\ Fits(timer, n, clock, m) /\ Ordered(timer, n, clock)
    BY <1>2, <1>8, <2>1, IdleSortable DEF IdleInv
  <2>3. Fits(timer, n, e, m + 1) /\ Ordered(timer, n, e)
    BY <1>2, <1>3, <1>4, <2>2, ShiftFits
  <2>4. m + 1 = MaxRun + (since + 1) /\ since + 1 <= MaxGap
    BY <1>1, <1>3, <1>4, <1>8, <2>1
  <2>5. IdleInv(timer, n, e, since + 1)
    BY <2>3, <2>4 DEF IdleInv
  <2>6. pc' = "idle" /\ IdleInv(timer, Len(timer), clock, since)'
    BY <1>1, <1>2, <1>8, <2>5 DEF IdleInv, Fits, Ordered
  <2> QED
    BY <1>6, <1>7, <2>6 DEF TimerInv
<1>9. CASE pc = "loop"
  <2>1. clock = Plus(now, since) /\ LoopInv(timer, n, now, round, changed)
    BY <1>2, <1>9 DEF TimerInv
  <2>2. since + 1 <= MaxRun /\ since + 1 <= Quarter
    <3>1. since + 1 <= MaxRun
      BY <1>1, <1>3, <1>4, <1>9
    <3>2. MaxRun <= Lag /\ Lag < Quarter
      <4>1. Lag \in Nat /\ MaxRun <= Lag
        <5>1. Cycle \in Nat
          BY <1>4 DEF Cycle
        <5>2. MaxTimer * Cycle \in Nat
          BY <1>4, <5>1
        <5> QED
          BY <1>4, <5>2 DEF Lag
      <4>2. Pre \in Nat /\ Post \in Nat /\ Post <= Quarter /\ Lag + Pre < Post
        BY DEF Params, Roomy
      <4> QED
        BY <1>4, <4>1, <4>2
    <3>3. Lag \in Int
      BY <1>4 DEF Lag, Cycle
    <3> QED
      BY <1>3, <1>4, <3>1, <3>2, <3>3
  <2>3. e = Plus(now, since + 1)
    <3>1. now \in 0..W - 1 /\ since \in Nat /\ since + 1 < W /\ W > 1
      BY <1>3, <1>4, <2>2 DEF Tick
    <3>2. PICK a, b, c : a = now + since /\ b = clock + 1 /\ c = now + (since + 1)
      OBVIOUS
    <3>3. clock = a % W /\ e = b % W /\ Plus(now, since + 1) = c % W
      BY <1>2, <2>1, <3>2 DEF Plus
    <3>4. clock = IF a < W THEN a ELSE a - W
      <4>1. a \in Int /\ 0 <= a /\ -W <= a /\ a < 2 * W
        BY <1>4, <3>1, <3>2
      <4> QED
        BY <1>4, <3>1, <3>3, <4>1, ModTick
    <3>5. e = IF b < W THEN b ELSE b - W
      <4>1. b \in Int /\ 0 <= b /\ -W <= b /\ b < 2 * W
        BY <1>3, <1>4, <3>1, <3>2 DEF Tick
      <4> QED
        BY <1>4, <3>1, <3>3, <4>1, ModTick
    <3>6. c % W = IF c < W THEN c ELSE c - W
      <4>1. c \in Int /\ 0 <= c /\ -W <= c /\ c < 2 * W
        BY <1>4, <3>1, <3>2
      <4> QED
        BY <1>4, <3>1, <4>1, ModTick
    <3>7. e = c % W
      BY <1>4, <3>1, <3>2, <3>4, <3>5, <3>6
    <3> QED
      BY <3>3, <3>7
  <2>4. pc' = "loop" /\ since' <= MaxRun /\ (clock = Plus(now, since))'
    <3>1. (Plus(now, since))' = Plus(now, since + 1)
      BY <1>1 DEF Plus
    <3> QED
      BY <1>1, <1>2, <1>9, <2>2, <2>3, <3>1
  <2>5. LoopInv(timer, Len(timer), now, round, changed)'
    BY <1>1, <1>2, <2>1 DEF LoopInv, LoopFits, Ordered
  <2> QED
    BY <1>6, <1>7, <2>4, <2>5 DEF TimerInv
<1> QED
  BY <1>3, <1>8, <1>9

(* The end of blt_soft_timer_process                                       *)
LEMMA EndStep ==
  ASSUME Params, Roomy, TimerInv, ProcessEnd
  PROVE  TimerInv'
<1>1. /\ pc = "loop" /\ round > Len(timer) /\ pc' = "idle" /\ since' = 0
      /\ timer' = (IF changed THEN Sort(timer) ELSE timer)
      /\ wakeup' = Wakeup(timer', now, Horizon)
      /\ round' = 0 /\ now' = 0 /\ changed' = FALSE /\ clock' = clock
  BY DEF ProcessEnd
<1>2. PICK n, u : n = Len(timer) /\ u = IF changed THEN Sort(timer) ELSE timer
  OBVIOUS
<1>3. /\ timer \in Tab(n) /\ n \in Nat /\ n <= MaxTimer /\ clock \in Tick /\ now \in Tick
      /\ since \in Nat /\ round \in 0 .. MaxTimer + 1 /\ changed \in BOOLEAN
  BY <1>2, StateIs
<1>4. /\ MaxGap \in Nat /\ MaxRun \in Nat /\ MaxTimer \in Nat /\ Quarter \in Nat /\ 0 < Quarter
      /\ W \in Nat /\ 4 * Quarter <= W
  BY DEF Params
<1>5. LoopInv(timer, n, now, round, changed) /\ Sortable(n, now, 0)
  BY <1>1, <1>2, LoopSortable
<1>6. since <= MaxRun /\ clock = Plus(now, since)
  BY <1>1 DEF TimerInv
<1>7. Fits(timer, n, now, 0)
  <2>1. \A j \in 1..n : j < round
    BY <1>1, <1>2, <1>3, <1>4
  <2>2. ASSUME NEW j \in 1..n
        PROVE  -(Slow(j) + 0) <= Key(timer, j, now) /\ Key(timer, j, now) + Lag < Quarter
    BY <1>5, <2>1 DEF LoopInv, LoopFits
  <2> QED
    BY <2>2 DEF Fits
<1>8. u \in Tab(n) /\ Fits(u, n, now, 0) /\ Ordered(u, n, now)
  <2>1. CASE changed
    <3>1. n > 0
      BY <1>3, <1>5, <2>1 DEF LoopInv
    <3> QED
      BY <1>2, <1>3, <1>5, <1>7, <2>1, <3>1, SortKeeps
  <2>2. CASE ~changed
    BY <1>2, <1>3, <1>5, <1>7, <2>2 DEF LoopInv
  <2> QED
    BY <2>1, <2>2
<1>9. Fits(u, n, clock, 0 + since) /\ Ordered(u, n, clock)
  <2>1. since <= Quarter
    <3>1. Lag \in Nat /\ MaxRun <= Lag
      <4>1. Cycle \in Nat
        BY <1>4 DEF Cycle
      <4>2. MaxTimer * Cycle \in Nat
        BY <1>4, <4>1
      <4> QED
        BY <1>4, <4>2 DEF Lag
    <3>2. Pre \in Nat /\ Post \in Nat /\ Post <= Quarter /\ Lag + Pre < Post
      BY DEF Params, Roomy
    <3> QED
      BY <1>3, <1>4, <1>6, <3>1, <3>2
  <2> QED
    BY <1>3, <1>5, <1>6, <1>8, <2>1, ShiftFits
<1>10. Fits(u, n, clock, MaxRun + 0)
  <2>1. ASSUME NEW j \in 1..n
        PROVE  -(Slow(j) + (MaxRun + 0)) <= Key(u, j, clock) /\ Key(u, j, clock) + Lag < Quarter
    <3>1. PICK x, p : x = Key(u, j, clock) /\ p = Slow(j)
      OBVIOUS
    <3>2. -(p + (0 + since)) <= x /\ x + Lag < Quarter
      BY <1>9, <3>1 DEF Fits
    <3>3. p \in Nat /\ x \in Int
      <4>1. j \in 1..MaxTimer
        BY <1>3, <1>4
      <4> QED
        BY <1>3, <1>8, <3>1, <4>1, SlowIs, KeyType
    <3>4. -(p + (MaxRun + 0)) <= x
      BY <1>3, <1>4, <1>6, <3>2, <3>3
    <3> QED
      BY <3>1, <3>2, <3>4
  <2> QED
    BY <2>1 DEF Fits
<1>11. timer' = u
  BY <1>1, <1>2
<1>12. u \in Seq(Event) /\ Len(u) = n
  BY <1>3, <1>8, TableIs, Zenon
<1>13. IdleInv(u, n, clock, 0)
  BY <1>4, <1>9, <1>10 DEF IdleInv
<1>14. IdleInv(timer, Len(timer), clock, since)'
  BY <1>1, <1>11, <1>12, <1>13 DEF IdleInv, Fits, Ordered
<1>15. /\ wakeup' \in Tick \cup {Off}
       /\ wakeup' # Off => u # <<>> /\ wakeup' = u[1].t
  BY <1>1, <1>3, <1>8, <1>11, WakeupIs
<1>16. TimerTypeOK'
  <2>1. 0 \in 0 .. MaxTimer + 1 /\ 0 \in Tick /\ 0 \in Nat
    BY <1>4 DEF Tick
  <2> QED
    BY <1>1, <1>3, <1>11, <1>12, <1>15, <2>1 DEF TimerTypeOK
<1>17. WakeupNotStale'
  BY <1>11, <1>15 DEF WakeupNotStale
<1> QED
  BY <1>1, <1>14, <1>16, <1>17 DEF TimerInv

(* One round of the loop of blt_soft_timer_process                         *)
LEMMA RoundStep ==
  ASSUME Params, Roomy, TimerInv, NEW r \in Interval \cup {-1, 0}, Round(r)
  PROVE  TimerInv'
<1>1. /\ pc = "loop" /\ round <= Len(timer) /\ round' = round + 1
      /\ wakeup' = wakeup /\ clock' = clock /\ pc' = pc /\ now' = now /\ since' = since
  BY DEF Round
<1>2. PICK n, k : n = Len(timer) /\ k = round
  OBVIOUS
<1>3. /\ timer \in Tab(n) /\ n \in Nat /\ n <= MaxTimer /\ clock \in Tick /\ now \in Tick
      /\ since \in Nat /\ k \in 0 .. MaxTimer + 1 /\ changed \in BOOLEAN
      /\ wakeup \in Tick \cup {Off}
  BY <1>2, StateIs
<1>4. MaxTimer \in Nat /\ Quarter \in Nat /\ 0 < Quarter
  BY DEF Params
<1>5. /\ LoopInv(timer, n, now, k, changed) /\ Sortable(n, now, Cycle) /\ Fits(timer, n, now, Cycle)
  BY <1>1, <1>2, LoopSortable
<1>6. k >= 1 /\ LoopFits(timer, n, now, k)
  BY <1>5 DEF LoopInv
<1>7. k \in 1..n /\ k + 1 \in 0 .. MaxTimer + 1 /\ k + 1 >= 2
  BY <1>1, <1>2, <1>3, <1>4, <1>6
<1>8. since <= MaxRun /\ clock = Plus(now, since)
  BY <1>1 DEF TimerInv
<1>9. ASSUME NEW u, NEW l, timer' = u, u \in Tab(l), l \in Nat, l <= MaxTimer, changed' \in BOOLEAN,
             LoopInv(u, l, now, k + 1, changed')
      PROVE  TimerInv'
  <2>1. u \in Seq(Event) /\ Len(u) = l
    BY <1>9, TableIs, Zenon
  <2>2. TimerTypeOK'
    BY <1>1, <1>2, <1>3, <1>7, <1>9, <2>1 DEF TimerTypeOK
  <2>3. WakeupNotStale'
    BY <1>1 DEF WakeupNotStale
  <2>4. LoopInv(timer, Len(timer), now, round, changed)'
    BY <1>1, <1>2, <1>9, <2>1 DEF LoopInv, LoopFits, Ordered
  <2>5. (clock = Plus(now, since))' /\ since' <= MaxRun
    BY <1>1, <1>8 DEF Plus
  <2> QED
    BY <1>1, <2>2, <2>3, <2>4, <2>5 DEF TimerInv
<1>10. CASE ~Expired(timer[k].t, now) /\ timer' = timer /\ changed' = changed
  <2>1. Key(timer, k, now) \in Nat /\ Key(timer, k, now) + Lag < Quarter
    <3>1. /\ Key(timer, k, now) \in Int /\ -Lag <= Key(timer, k, now)
          /\ Key(timer, k, now) + Lag < Quarter /\ Lag \in Nat
      BY <1>3, <1>5, <1>7, FitsWindow
    <3>2. PICK t : t = timer[k].t
      OBVIOUS
    <3>3. t \in Tick
      BY <1>3, <1>7, <3>2, KeyType
    <3>4. Key(timer, k, now) = Ahead(t, now)
      BY <3>2 DEF Key
    <3>5. Ahead(t, now) \in Nat
      BY <1>3, <1>10, <3>1, <3>2, <3>3, <3>4, LagExpired
    <3> QED
      BY <3>1, <3>4, <3>5
  <2>2. LoopFits(timer, n, now, k + 1)
    <3>1. \A j \in 1..n : j # k => timer[j] = timer[j]
      OBVIOUS
    <3> QED
      BY <1>3, <1>6, <1>7, <2>1, <3>1, TurnFits, ZenonT(60)
  <2>3. LoopInv(timer, n, now, k + 1, changed)
    BY <1>3, <1>5, <1>7, <2>2 DEF LoopInv
  <2> QED
    BY <1>3, <1>9, <1>10, <2>3
<1>11. CASE timer' = DeleteByIndex(timer, k) /\ changed' = changed
  <2>1. PICK u, l : u = DeleteByIndex(timer, k) /\ l = n - 1
    OBVIOUS
  <2>2. u \in Tab(l) /\ l \in Nat
    BY <1>3, <1>7, <2>1, RemoveIs
  <2>3. LoopFits(u, l, now, k + 1)
    BY <1>3, <1>6, <1>7, <2>1, RemoveLoopFits
  <2>4. ~changed => Ordered(u, l, now)
    BY <1>3, <1>5, <1>7, <2>1, RemoveOrdered DEF LoopInv
  <2>5. changed => k + 1 >= 2 /\ l >= 1
    <3>1. changed => k >= 2
      BY <1>5 DEF LoopInv
    <3> QED
      BY <1>3, <1>7, <2>1, <3>1
  <2>6. LoopInv(u, l, now, k + 1, changed)
    BY <1>7, <2>3, <2>4, <2>5 DEF LoopInv
  <2>7. l <= MaxTimer
    BY <1>3, <1>4, <2>1
  <2> QED
    BY <1>3, <1>9, <1>11, <2>1, <2>2, <2>6, <2>7
<1>12. CASE /\ r >= 0 /\ changed' = TRUE
            /\ LET d == IF r = 0 THEN timer[k].interval ELSE r
               IN timer' = [timer EXCEPT ![k].interval = d, ![k].t = Plus(now, d)]
  <2>1. PICK d : d = IF r = 0 THEN timer[k].interval ELSE r
    OBVIOUS
  <2>2. d \in Interval
    <3>1. timer[k].interval \in Interval
      <4>1. timer[k] \in Event
        BY <1>3, <1>7 DEF Tab
      <4> QED
        BY <4>1 DEF Event
    <3>2. r # 0 => r \in Interval
      BY <1>12
    <3> QED
      BY <2>1, <3>1, <3>2
  <2>3. PICK w : w = Plus(now, d)
    OBVIOUS
  <2>4. d \in 0..Quarter /\ d \in Nat /\ d + Lag < Quarter
    BY <2>2 DEF Params, Roomy
  <2>5. w \in Tick /\ Ahead(w, now) = d
    BY <1>3, <2>3, <2>4, AheadPlus
  <2>6. PICK u : u = [timer EXCEPT ![k].interval = d, ![k].t = w]
    OBVIOUS
  <2>7. timer' = u
    BY <1>12, <2>1, <2>3, <2>6
  <2>8. u \in Tab(n) /\ u[k].t = w /\ \A j \in 1..n : j # k => u[j] = timer[j]
    <3>1. PICK x : x = timer[k]
      OBVIOUS
    <3>2. x \in Event
      BY <1>3, <1>7, <3>1 DEF Tab
    <3>3. PICK y : y = [x EXCEPT !.interval = d, !.t = w]
      OBVIOUS
    <3>4. y \in Event /\ y.t = w
      BY <2>2, <2>5, <3>2, <3>3 DEF Event
    <3>5. u = [timer EXCEPT ![k] = y]
      BY <1>3, <1>7, <2>6, <3>1, <3>3 DEF Tab
    <3> QED
      BY <1>3, <1>7, <3>4, <3>5 DEF Tab
  <2>9. Key(u, k, now) \in Nat /\ Key(u, k, now) + Lag < Quarter
    BY <2>4, <2>5, <2>8 DEF Key
  <2>10. LoopFits(u, n, now, k + 1)
    BY <1>3, <1>6, <1>7, <2>8, <2>9, TurnFits, ZenonT(60)
  <2>11. LoopInv(u, n, now, k + 1, TRUE)
    BY <1>3, <1>7, <2>10 DEF LoopInv
  <2>12. changed' \in BOOLEAN /\ LoopInv(u, n, now, k + 1, changed')
    BY <1>12, <2>11
  <2> QED
    BY <1>3, <1>9, <2>7, <2>8, <2>12
<1> QED
  BY <1>2, <1>10, <1>11, <1>12 DEF Round

-----------------------------------------------------------------------------
(* Every step keeps the invariant.                                         *)
LEMMA TimersKept ==
  ASSUME Params, Roomy, TimerInv, [TimerNext]_timerVars
  PROVE  TimerInv'
<1>1. CASE TimerNext
  <2>1. ASSUME NEW f \in Func, NEW d \in Interval, Add(f, d) PROVE TimerInv'
    BY <2>1, AddStep
  <2>2. ASSUME NEW f \in Func, Delete(f) PROVE TimerInv'
    BY <2>2, DeleteStep
  <2>3. ASSUME Process PROVE TimerInv'
    BY <2>3, ProcessStep
  <2>4. ASSUME NEW r \in Interval \cup {-1, 0}, Round(r) PROVE TimerInv'
    BY <2>4, RoundStep
  <2>5. ASSUME ProcessEnd PROVE TimerInv'
    BY <2>5, EndStep
  <2>6. ASSUME ClockTick PROVE TimerInv'
    BY <2>6, ClockStep
  <2> QED
    BY <1>1, <2>1, <2>2, <2>3, <2>4, <2>5, <2>6 DEF TimerNext
<1>2. CASE UNCHANGED timerVars
  BY <1>2 DEF timerVars, TimerInv, TimerTypeOK, WakeupNotStale, Plus, IdleInv, LoopInv,
              LoopFits, Fits, Ordered
<1> QED
  BY <1>1, <1>2

(* The empty table                                                         *)
LEMMA TimersStart ==
  ASSUME Params, TimerInit PROVE TimerInv
<1>1. /\ timer = <<>> /\ wakeup = Off /\ clock = 0 /\ since = 0
      /\ pc = "idle" /\ round = 0 /\ now = 0 /\ changed = FALSE
  BY DEF TimerInit
<1>2. W > 0 /\ W \in Nat /\ MaxTimer \in Nat /\ MaxGap \in Nat
  BY DEF Params
<1>3. TimerTypeOK
  <2>1. 0 \in Tick /\ 0 \in 0 .. MaxTimer + 1 /\ 0 \in Nat /\ 0 <= MaxTimer
    BY <1>2 DEF Tick
  <2>2. <<>> \in Seq(Event) /\ Len(<<>>) = 0
    OBVIOUS
  <2> QED
    BY <1>1, <2>1, <2>2 DEF TimerTypeOK
<1>4. WakeupNotStale
  BY <1>1 DEF WakeupNotStale
<1>5. IdleInv(timer, Len(timer), clock, since)
  BY <1>1, <1>2 DEF IdleInv, Fits, Ordered
<1> QED
  BY <1>1, <1>3, <1>4, <1>5 DEF TimerInv

(* The invariant of the table of timers                                    *)
LEMMA TimerAlways ==
  ASSUME Roomy PROVE TimerSpec => []TimerInv
<1> USE ParamsAssumption
<1>1. TimerInit => TimerInv
  BY TimersStart
<1>2. TimerInv /\ [TimerNext]_timerVars => TimerInv'
  BY TimersKept
<1> QED
  BY <1>1, <1>2, PTL DEF TimerSpec

(* The order of the table: between two calls every timer expires no later  *)
(* than the ones behind it, whatever was added, deleted or fired and       *)
(* wherever the clock wraps, so that blt_soft_timer_process may look at    *)
(* the first one only.  Any number of timers, any intervals.               *)
THEOREM TimersSorted ==
  ASSUME Roomy PROVE TimerSpec => []Sorted
<1> USE ParamsAssumption
<1>1. ASSUME TimerInv PROVE Sorted
  <2>1. TimerTypeOK
    BY <1>1 DEF TimerInv
  <2>2. ASSUME pc = "idle", NEW j \in 1..Len(timer), NEW k \in 1..Len(timer), j < k
        PROVE  Big(timer[k].t, timer[j].t)
    <3>1. PICK n, m : n = Len(timer) /\ m = MaxRun + since
      OBVIOUS
    <3>2. Sortable(n, clock, m) /\ Fits(timer, n, clock, m) /\ Ordered(timer, n, clock)
      BY <1>1, <2>2, <3>1, IdleSortable DEF IdleInv
    <3>3. timer \in Tab(n) /\ n \in Nat /\ clock \in Tick /\ j \in 1..n /\ k \in 1..n
      BY <1>1, <3>1, StateIs
    <3>4. PICK a, b, t, u : /\ a = Key(timer, j, clock) /\ b = Key(timer, k, clock)
                            /\ t = timer[j].t /\ u = timer[k].t
      OBVIOUS
    <3>5. /\ a \in Int /\ -Lag <= a /\ a + Lag < Quarter /\ a \in -Quarter .. Quarter
          /\ b \in Int /\ -Lag <= b /\ b + Lag < Quarter /\ b \in -Quarter .. Quarter
          /\ Lag \in Nat
      BY <3>2, <3>3, <3>4, FitsWindow
    <3>6. a <= b
      BY <2>2, <3>2, <3>3, <3>4 DEF Ordered
    <3>7. t \in Tick /\ u \in Tick
      BY <3>3, <3>4, KeyType
    <3>8. a = Ahead(t, clock) /\ b = Ahead(u, clock)
      BY <3>4 DEF Key
    <3>9. b - a < Quarter /\ a - b < Quarter
      BY <3>5 DEF Params
    <3>10. Big(u, t)
      BY <3>3, <3>5, <3>6, <3>7, <3>8, <3>9, AheadBig
    <3> QED
      BY <3>4, <3>10
  <2> QED
    BY <2>1, <2>2 DEF Sorted
<1> QED
  BY <1>1, TimerAlways, PTL

(* No timer is given up: it is in the future or counts as expired, however *)
(* late the loop comes to it and however often a deleted neighbour made    *)
(* the loop pass it over, as long as the margin of blt_is_timer_expired is *)
(* longer than a full table of such delays.                                *)
THEOREM TimersNeverLost ==
  ASSUME Roomy PROVE TimerSpec => []NeverLost
<1> USE ParamsAssumption
<1>1. ASSUME TimerInv PROVE NeverLost
  <2>1. PICK n : n = Len(timer)
    OBVIOUS
  <2>2. timer \in Tab(n) /\ n \in Nat /\ n <= MaxTimer /\ clock \in Tick /\ now \in Tick
        /\ pc \in {"idle", "loop"} /\ since \in Nat
    BY <1>1, <2>1, StateIs
  <2>3. ASSUME NEW k \in 1..n
        PROVE  /\ -Lag <= Key(timer, k, clock) /\ Key(timer, k, clock) + Lag < Quarter
               /\ Key(timer, k, clock) \in Int /\ Lag \in Nat
    <3>1. CASE pc = "idle"
      <4>1. PICK m : m = MaxRun + since
        OBVIOUS
      <4>2. Sortable(n, clock, m) /\ Fits(timer, n, clock, m)
        BY <1>1, <2>1, <3>1, <4>1, IdleSortable DEF IdleInv
      <4> QED
        BY <2>2, <4>2, FitsWindow
    <3>2. CASE pc = "loop"
      <4>1. Sortable(n, now, Cycle) /\ Fits(timer, n, now, Cycle)
        BY <1>1, <2>1, <3>2, LoopSortable
      <4>2. since <= MaxRun /\ clock = Plus(now, since)
        BY <1>1, <3>2 DEF TimerInv
      <4>3. Lag \in Nat /\ Slow(k) \in Nat /\ Slow(k) + Cycle + MaxRun <= Lag /\ Cycle \in Nat
        <5>1. k \in 1..MaxTimer
          BY <2>2 DEF Params
        <5> QED
          BY <5>1, SlowIs
      <4>4. MaxRun \in Nat /\ Quarter \in Nat /\ Lag < Quarter
        BY <4>3 DEF Params, Roomy
      <4>5. since <= Quarter
        BY <2>2, <4>2, <4>3, <4>4
      <4>6. PICK x, y, p : x = Key(timer, k, now) /\ y = Key(timer, k, clock) /\ p = Slow(k)
        OBVIOUS
      <4>7. y = x - since
        BY <2>2, <4>1, <4>2, <4>5, <4>6, ShiftFits
      <4>8. x \in Int /\ -(p + Cycle) <= x /\ x + Lag < Quarter
        BY <2>2, <4>1, <4>6, FitsWindow DEF Fits
      <4>9. -Lag <= y /\ y + Lag < Quarter /\ y \in Int
        BY <2>2, <4>2, <4>3, <4>4, <4>6, <4>7, <4>8
      <4> QED
        BY <4>3, <4>6, <4>9
    <3> QED
      BY <2>2, <3>1, <3>2
  <2>4. ASSUME NEW k \in 1..n
        PROVE  (timer[k].t - clock) % W <= Quarter \/ Expired(timer[k].t, clock)
    <3>1. PICK t : t = timer[k].t
      OBVIOUS
    <3>2. t \in Tick
      BY <2>2, <3>1, KeyType
    <3>3. -Lag <= Ahead(t, clock) /\ Ahead(t, clock) + Lag < Quarter /\ Ahead(t, clock) \in Int /\ Lag \in Nat
      BY <2>3, <3>1 DEF Key
    <3>4. (t - clock) % W <= Quarter \/ Expired(t, clock)
      BY <2>2, <3>2, <3>3, LagExpired
    <3> QED
      BY <3>1, <3>4
  <2> QED
    BY <2>1, <2>4 DEF NeverLost
<1> QED
  BY <1>1, TimerAlways, PTL

(* The wakeup that blc_pm_setAppWakeupLowPower was last given is the one   *)
(* of the first timer, or none.                                            *)
THEOREM TimersWakeup ==
  ASSUME Roomy PROVE TimerSpec => []WakeupNotStale
<1>1. TimerInv => WakeupNotStale
  BY DEF TimerInv
<1> QED
  BY <1>1, TimerAlways, PTL
=============================================================================
