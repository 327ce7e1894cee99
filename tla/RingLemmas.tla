----------------------------- MODULE RingLemmas -----------------------------
(***************************************************************************)
(* The rings of keyboard.c, usbkb.c and tl_audio.c: n slots, a read and a  *)
(* write pointer that run modulo 2 * n and address the slots modulo n.     *)
(* What they hold is a sequence, and the three things the code does to the *)
(* pointers are the three operations of a FIFO that drops its oldest value *)
(* when it is full.                                                        *)
(***************************************************************************)
EXTENDS Integers, Sequences, TLAPS

(* The numbers of slots, the values of a pointer and the slots *)
Size    == Nat \ {0}
Ptr(n)  == 0 .. 2 * n - 1
Slot(n) == 0 .. n - 1
Buf(n, V) == [Slot(n) -> V]

(* What a ring holds, oldest first, and how much *)
Used(n, r, w)      == (w - r) % (2 * n)
RingOf(b, n, r, w) == [i \in 1..Used(n, r, w) |-> b[(r + i - 1) % n]]

(* A pointer one place on *)
Step(n, p) == (p + 1) % (2 * n)

-----------------------------------------------------------------------------
(* The remainders without division, for pointers within their range.       *)
LEMMA ModOne ==
  ASSUME NEW n \in Size, NEW x \in Ptr(n)
  PROVE  /\ x % n = IF x < n THEN x ELSE x - n
         /\ x % n \in Slot(n)
  BY DEF Size, Ptr, Slot

(* Remainders of numbers below three times the divisor.                    *)
LEMMA ModThree ==
  ASSUME NEW n \in Size, NEW x \in 2 * n .. 3 * n - 1
  PROVE  x % n = x - 2 * n
  BY DEF Size

(* The remainder after one more step of a pointer.                         *)
LEMMA ModStep ==
  ASSUME NEW n \in Size, NEW p \in Ptr(n)
  PROVE  /\ Step(n, p) = IF p = 2 * n - 1 THEN 0 ELSE p + 1
         /\ Step(n, p) \in Ptr(n)
  BY DEF Step, Size, Ptr

(* The distance of two pointers that run modulo twice the size.            *)
LEMMA ModUsed ==
  ASSUME NEW n \in Size, NEW r \in Ptr(n), NEW w \in Ptr(n)
  PROVE  /\ Used(n, r, w) = IF w >= r THEN w - r ELSE w - r + 2 * n
         /\ Used(n, r, w) \in Ptr(n)
  BY DEF Used, Size, Ptr

(* One more than a full ring holds is an overrun.  With one slot only it   *)
(* is not: the pointers, modulo 2, are equal again.                        *)
LEMMA UsedPastFull ==
  ASSUME NEW n \in Size, n > 1, NEW r \in Ptr(n), NEW w \in Ptr(n), Used(n, r, w) = n
  PROVE  Used(n, r, Step(n, w)) > n
<1> DEFINE w1 == Step(n, w)
           u1 == Used(n, r, w1)
<1>1. w1 \in Ptr(n) /\ w1 = IF w = 2 * n - 1 THEN 0 ELSE w + 1
  BY ModStep, Zenon
<1>2. u1 = IF w1 >= r THEN w1 - r ELSE w1 - r + 2 * n
  BY <1>1, ModUsed, Zenon
<1>3. n = IF w >= r THEN w - r ELSE w - r + 2 * n
  BY ModUsed, Zenon
<1> HIDE DEF w1, u1
<1>4. n \in Nat \ {0} /\ r \in 0..2 * n - 1 /\ w \in 0..2 * n - 1 /\ w1 \in 0..2 * n - 1
  BY <1>1 DEF Ptr, Size
<1>5. w = r + n \/ r = w + n
  BY <1>3, <1>4
<1> SUFFICES u1 > n
  BY Zenon DEF u1, w1
<1>6. CASE w = 2 * n - 1
  <2>1. w1 = 0 /\ r = n - 1
    BY <1>1, <1>4, <1>5, <1>6
  <2> QED
    BY <2>1, <1>2, <1>4
<1>7. CASE w # 2 * n - 1
  <2>1. w1 = w + 1
    BY <1>1, <1>7
  <2> QED
    BY <2>1, <1>2, <1>4, <1>5
<1> QED
  BY <1>6, <1>7

(* The slot i places behind the read pointer.                              *)
LEMMA ModSlot ==
  ASSUME NEW n \in Size, NEW r \in Ptr(n), NEW i \in 1..n
  PROVE  /\ (r + i - 1) % n = IF r + i - 1 < n THEN r + i - 1
                              ELSE IF r + i - 1 < 2 * n THEN r + i - 1 - n
                              ELSE r + i - 1 - 2 * n
         /\ (r + i - 1) % n \in Slot(n)
<1> DEFINE x == r + i - 1
<1>1. x \in 0..3 * n - 1
  BY DEF Size, Ptr
<1> HIDE DEF x
<1>2. CASE x < 2 * n
  <2>1. x \in Ptr(n)
    BY <1>1, <1>2 DEF Size, Ptr
  <2>2. x % n = (IF x < n THEN x ELSE x - n) /\ x % n \in Slot(n)
    BY <2>1, ModOne
  <2> QED
    BY <2>2, <1>1, <1>2 DEF x, Size, Ptr
<1>3. CASE x >= 2 * n
  <2>1. x \in 2 * n .. 3 * n - 1
    BY <1>1, <1>3 DEF Size
  <2>2. x % n = x - 2 * n
    BY <2>1, ModThree
  <2> QED
    BY <2>2, <1>1, <1>3 DEF x, Size, Ptr, Slot
<1> QED
  BY <1>1, <1>2, <1>3 DEF Size

-----------------------------------------------------------------------------
(* A ring that is not overrun holds a sequence of values.                  *)
LEMMA RingIsSeq ==
  ASSUME NEW n \in Size, NEW V, NEW b \in Buf(n, V),
         NEW r \in Ptr(n), NEW w \in Ptr(n), Used(n, r, w) <= n
  PROVE  /\ RingOf(b, n, r, w) \in Seq(V)
         /\ Len(RingOf(b, n, r, w)) = Used(n, r, w)
         /\ \A i \in 1..Used(n, r, w) : RingOf(b, n, r, w)[i] = b[(r + i - 1) % n]
<1>0. Used(n, r, w) \in Ptr(n)
  BY ModUsed, Zenon
<1>1. Used(n, r, w) \in Nat
  BY <1>0 DEF Ptr, Size
<1>2. \A i \in 1..Used(n, r, w) : b[(r + i - 1) % n] \in V
  <2> TAKE i \in 1..Used(n, r, w)
  <2>1. i \in 1..n
    BY <1>1 DEF Size
  <2>2. (r + i - 1) % n \in Slot(n)
    BY <2>1, ModSlot, Zenon
  <2> QED
    BY <2>2 DEF Buf
<1> QED
  BY <1>1, <1>2 DEF RingOf

(* A ring as a sequence is as long as that distance.                       *)
LEMMA RingLen ==
  ASSUME NEW n \in Size, NEW V, NEW b \in Buf(n, V),
         NEW r \in Ptr(n), NEW w \in Ptr(n), Used(n, r, w) <= n
  PROVE  RingOf(b, n, r, w) \in Seq(V) /\ Len(RingOf(b, n, r, w)) = Used(n, r, w)
  BY RingIsSeq, Zenon

(* The value taken is in the slot of the read pointer.                     *)
LEMMA RingTake ==
  ASSUME NEW n \in Size, NEW V, NEW b \in Buf(n, V),
         NEW r \in Ptr(n), NEW w \in Ptr(n), Used(n, r, w) <= n, r # w
  PROVE  /\ RingOf(b, n, r, w) # <<>>
         /\ Head(RingOf(b, n, r, w)) = b[r % n]
         /\ RingOf(b, n, Step(n, r), w) = Tail(RingOf(b, n, r, w))
         /\ Used(n, Step(n, r), w) = Used(n, r, w) - 1
<1> DEFINE s == RingOf(b, n, r, w)
           r1 == Step(n, r)
           t == RingOf(b, n, r1, w)
           u == Used(n, r, w)
           u1 == Used(n, r1, w)
<1>a. u = IF w >= r THEN w - r ELSE w - r + 2 * n
  BY ModUsed, Zenon
<1>b. r1 \in Ptr(n)
  BY ModStep, Zenon
<1>c. r1 = IF r = 2 * n - 1 THEN 0 ELSE r + 1
  BY ModStep, Zenon
<1>d. u1 = IF w >= r1 THEN w - r1 ELSE w - r1 + 2 * n
  BY <1>b, ModUsed, Zenon
<1>e. u <= n
  OBVIOUS
<1> HIDE DEF r1, u, u1
<1>1. u \in 1..n
  BY <1>a, <1>e DEF Ptr, Size
<1>2. u1 = u - 1 /\ u1 <= n
  BY <1>a, <1>c, <1>d, <1>1 DEF Ptr, Size
<1>3. s \in Seq(V) /\ Len(s) = u /\ \A i \in 1..u : s[i] = b[(r + i - 1) % n]
  BY RingIsSeq, Zenon DEF u
<1>4. t \in Seq(V) /\ Len(t) = u1 /\ \A i \in 1..u1 : t[i] = b[(r1 + i - 1) % n]
  <2>1. u1 <= n
    BY <1>2
  <2> QED
    BY <1>b, <2>1, RingIsSeq, ZenonT(40) DEF u1
<1>5. \A i \in 1..u1 : (r1 + i - 1) % n = (r + (i + 1) - 1) % n
  <2> TAKE i \in 1..u1
  <2> DEFINE j == i + 1
  <2>1. i \in 1..n /\ j \in 1..n /\ j = i + 1
    BY <1>1, <1>2 DEF Size
  <2> HIDE DEF j
  <2>2. (r1 + i - 1) % n = IF r1 + i - 1 < n THEN r1 + i - 1
                              ELSE IF r1 + i - 1 < 2 * n THEN r1 + i - 1 - n
                              ELSE r1 + i - 1 - 2 * n
    BY <2>1, <1>b, ModSlot, Zenon
  <2>3. (r + j - 1) % n = IF r + j - 1 < n THEN r + j - 1
                              ELSE IF r + j - 1 < 2 * n THEN r + j - 1 - n
                              ELSE r + j - 1 - 2 * n
    BY <2>1, ModSlot, Zenon
  <2>4. (r1 + i - 1) % n = (r + j - 1) % n
    BY <2>1, <2>2, <2>3, <1>c DEF Ptr, Size
  <2> QED
    BY <2>4, <2>1
<1> HIDE DEF s, t
<1>6. s # <<>> /\ Head(s) = b[r % n]
  <2>1. 1 \in 1..u /\ r + 1 - 1 = r
    BY <1>1 DEF Ptr, Size
  <2>2. s[1] = b[r % n]
    BY <2>1, <1>3
  <2> QED
    BY <2>2, <1>1, <1>3
<1>7. t = Tail(s)
  <2>1. Tail(s) \in Seq(V) /\ Len(Tail(s)) = u - 1 /\ \A i \in 1..u - 1 : Tail(s)[i] = s[i + 1]
    BY <1>1, <1>3
  <2>2. \A i \in 1..u - 1 : t[i] = Tail(s)[i]
    <3> TAKE i \in 1..u - 1
    <3>1. i + 1 \in 1..u /\ i \in 1..u1
      BY <1>1, <1>2
    <3>2. s[i + 1] = b[(r + (i + 1) - 1) % n]
      BY <3>1, <1>3
    <3>3. t[i] = b[(r1 + i - 1) % n]
      BY <3>1, <1>4
    <3>4. (r1 + i - 1) % n = (r + (i + 1) - 1) % n
      BY <3>1, <1>5
    <3> QED
      BY <3>2, <3>3, <3>4, <2>1, Zenon
  <2> QED
    BY <2>1, <2>2, <1>1, <1>2, <1>4
<1> QED
  BY <1>2, <1>6, <1>7 DEF s, t, u, u1, r1

(* A value put into a ring with room is behind the others.                 *)
LEMMA RingPut ==
  ASSUME NEW n \in Size, NEW V, NEW b \in Buf(n, V), NEW v \in V,
         NEW r \in Ptr(n), NEW w \in Ptr(n), Used(n, r, w) < n
  PROVE  /\ RingOf([b EXCEPT ![w % n] = v], n, r, Step(n, w)) = Append(RingOf(b, n, r, w), v)
         /\ Used(n, r, Step(n, w)) = Used(n, r, w) + 1
         /\ [b EXCEPT ![w % n] = v] \in Buf(n, V)
<1> DEFINE c == [b EXCEPT ![w % n] = v]
           s == RingOf(b, n, r, w)
           w1 == Step(n, w)
           t == RingOf(c, n, r, w1)
           u == Used(n, r, w)
           u1 == Used(n, r, w1)
<1>a. u = IF w >= r THEN w - r ELSE w - r + 2 * n
  BY ModUsed, Zenon
<1>b. w1 \in Ptr(n)
  BY ModStep, Zenon
<1>c. w1 = IF w = 2 * n - 1 THEN 0 ELSE w + 1
  BY ModStep, Zenon
<1>d. u1 = IF w1 >= r THEN w1 - r ELSE w1 - r + 2 * n
  BY <1>b, ModUsed, Zenon
<1>e. u < n
  OBVIOUS
<1>f. w % n \in Slot(n)
  BY ModOne, Zenon
<1>g. w % n = IF w < n THEN w ELSE w - n
  BY ModOne, Zenon
<1>4. c \in Buf(n, V) /\ c[w % n] = v /\ \A j \in Slot(n) \ {w % n} : c[j] = b[j]
  BY <1>f DEF Buf
<1> HIDE DEF w1, u, u1, c
<1>1. u \in 0..n - 1 /\ u <= n
  BY <1>a, <1>e DEF Ptr, Size
<1>2. u1 = u + 1 /\ u1 <= n
  BY <1>a, <1>c, <1>d, <1>1 DEF Ptr, Size
<1>3. s \in Seq(V) /\ Len(s) = u /\ \A i \in 1..u : s[i] = b[(r + i - 1) % n]
  BY <1>1, RingIsSeq, Zenon DEF u
<1>5. t \in Seq(V) /\ Len(t) = u1 /\ \A i \in 1..u1 : t[i] = c[(r + i - 1) % n]
  BY <1>b, <1>2, <1>4, RingIsSeq, ZenonT(40) DEF u1
<1>6. (r + u1 - 1) % n = w % n
  <2>1. u1 \in 1..n
    BY <1>1, <1>2 DEF Size
  <2>2. (r + u1 - 1) % n = IF r + u1 - 1 < n THEN r + u1 - 1
                              ELSE IF r + u1 - 1 < 2 * n THEN r + u1 - 1 - n
                              ELSE r + u1 - 1 - 2 * n
    BY <2>1, ModSlot, Zenon
  <2> QED
    BY <2>1, <2>2, <1>2, <1>a, <1>g DEF Ptr, Size
<1>7. \A i \in 1..u : (r + i - 1) % n \in Slot(n) \ {w % n}
  <2> TAKE i \in 1..u
  <2>1. i \in 1..n
    BY <1>1 DEF Size
  <2>2. (r + i - 1) % n = IF r + i - 1 < n THEN r + i - 1
                              ELSE IF r + i - 1 < 2 * n THEN r + i - 1 - n
                              ELSE r + i - 1 - 2 * n
    BY <2>1, ModSlot, Zenon
  <2>3. (r + i - 1) % n \in Slot(n)
    BY <2>1, ModSlot, Zenon
  <2>4. (r + i - 1) % n # w % n
    BY <2>1, <2>2, <1>1, <1>a, <1>g DEF Ptr, Size
  <2> QED
    BY <2>3, <2>4
<1> HIDE DEF s, t
<1>8. \A i \in 1..u : t[i] = s[i]
  <2> TAKE i \in 1..u
  <2>1. i \in 1..u1
    BY <1>1, <1>2
  <2>2. t[i] = c[(r + i - 1) % n]
    BY <2>1, <1>5, Zenon
  <2>3. s[i] = b[(r + i - 1) % n]
    BY <1>3, Zenon
  <2> QED
    BY <2>2, <2>3, <1>4, <1>7, Zenon
<1>9. t[u1] = v
  <2>1. u1 \in 1..u1
    BY <1>1, <1>2
  <2> QED
    BY <2>1, <1>4, <1>5, <1>6, Zenon
<1>10. t = Append(s, v)
  <2>1. Append(s, v) \in Seq(V) /\ Len(Append(s, v)) = u + 1
        /\ Append(s, v)[u + 1] = v /\ \A i \in 1..u : Append(s, v)[i] = s[i]
    BY <1>1, <1>3
  <2>2. \A i \in 1..u + 1 : t[i] = Append(s, v)[i]
    BY <2>1, <1>1, <1>2, <1>8, <1>9
  <2> QED
    BY <2>1, <2>2, <1>1, <1>2, <1>5
<1> QED
  BY <1>2, <1>4, <1>10 DEF s, t, u, u1, w1, c

(* A value put into a full ring, with the read pointer moved on, drives    *)
(* out the oldest one.                                                     *)
LEMMA RingPutFull ==
  ASSUME NEW n \in Size, NEW V, NEW b \in Buf(n, V), NEW v \in V,
         NEW r \in Ptr(n), NEW w \in Ptr(n), Used(n, r, w) = n
  PROVE  /\ RingOf([b EXCEPT ![w % n] = v], n, Step(n, r), Step(n, w))
              = Append(Tail(RingOf(b, n, r, w)), v)
         /\ Used(n, Step(n, r), Step(n, w)) = n
         /\ [b EXCEPT ![w % n] = v] \in Buf(n, V)
<1>0. Used(n, r, w) = IF w >= r THEN w - r ELSE w - r + 2 * n
  BY ModUsed, Zenon
<1>1. r # w /\ Used(n, r, w) <= n
  BY <1>0 DEF Size, Ptr
<1>2. Step(n, r) \in Ptr(n)
  BY ModStep, Zenon
<1>3. /\ RingOf(b, n, Step(n, r), w) = Tail(RingOf(b, n, r, w))
      /\ Used(n, Step(n, r), w) = Used(n, r, w) - 1
  BY <1>1, RingTake, Zenon
<1>4. Used(n, Step(n, r), w) < n /\ Used(n, Step(n, r), w) + 1 = n
  BY <1>3 DEF Size
<1>5. /\ RingOf([b EXCEPT ![w % n] = v], n, Step(n, r), Step(n, w))
              = Append(RingOf(b, n, Step(n, r), w), v)
      /\ Used(n, Step(n, r), Step(n, w)) = Used(n, Step(n, r), w) + 1
      /\ [b EXCEPT ![w % n] = v] \in Buf(n, V)
  BY <1>2, <1>4, RingPut, Zenon
<1> QED
  BY <1>3, <1>4, <1>5, Zenon
=============================================================================
