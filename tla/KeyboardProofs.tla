--------------------------- MODULE KeyboardProofs ---------------------------
(***************************************************************************)
(* Proofs about Keyboard, for every matrix of pins, every key map and any  *)
(* number of key movements.                                                *)
(***************************************************************************)
EXTENDS Keyboard, RingLemmas, FiniteSetTheorems, WellFoundedInduction

-----------------------------------------------------------------------------
(* kb_remap_key_code stops at the limit: the codes it stores fit           *)
(* kb_data_t.keycode.  The last key stored has all others before it, and   *)
(* fewer than KB_RETURN_KEY_MAX coded keys are before it.                  *)

(* The coded keys of m before k *)
CodedBefore(m, k) == {l \in m : Before(l, k) /\ Coded(l)}

(* A matrix has finitely many keys.                                        *)
LEMMA MatrixFinite ==
  ASSUME NEW m \in Matrix
  PROVE  IsFiniteSet(m)
  BY PinAssumption, FS_Product, FS_Subset DEF Matrix, Key

(* Of two different keys one is before the other, and Before is transitive. *)
LEMMA BeforeOrder ==
  /\ \A k, l \in Key : k # l => Before(k, l) \/ Before(l, k)
  /\ \A k, l \in Key : ~(Before(k, l) /\ Before(l, k))
  /\ \A k, l, h \in Key : Before(h, k) /\ Before(k, l) => Before(h, l)
<1>1. \A k \in Key : k[1] \in Nat /\ k[2] \in Nat /\ k = <<k[1], k[2]>>
  <2>1. \A k \in Rows \X Cols : k[1] \in Rows /\ k[2] \in Cols /\ k = <<k[1], k[2]>>
    OBVIOUS
  <2> QED
    BY <2>1, PinAssumption DEF Key
<1>2. \A k, l \in Key : k # l => k[1] # l[1] \/ k[2] # l[2]
  BY <1>1
<1> QED
  BY <1>1, <1>2 DEF Before

(* A set of natural numbers that is not empty and has an upper bound has a *)
(* greatest element.                                                       *)
LEMMA NatSetHasMax ==
  ASSUME NEW T \in SUBSET Nat, T # {}, NEW N \in Nat, \A x \in T : x <= N
  PROVE  \E x \in T : \A y \in T : y <= x
<1> DEFINE U == {z \in Nat : \E x \in T : z = N - x}
<1>1. U \in SUBSET Nat /\ U # {}
  <2>1. PICK x \in T : TRUE
    OBVIOUS
  <2>2. N - x \in U
    BY <2>1
  <2> QED
    BY <2>2
<1>2. PICK z \in U : \A y \in U : ~ (<<y, z>> \in OpToRel(<, Nat))
  BY <1>1, NatLessThanWellFounded, WFMin
<1>3. \A y \in U : z <= y
  <2> SUFFICES ASSUME NEW y \in U, y < z PROVE FALSE
    BY <1>1
  <2>1. y \in Nat /\ z \in Nat
    BY <1>1
  <2>2. <<y, z>> \in OpToRel(<, Nat)
    BY <2>1 DEF OpToRel
  <2> QED
    BY <2>2, <1>2
<1>4. PICK x \in T : z = N - x
  OBVIOUS
<1>5. \A y \in T : y <= x
  BY <1>3, <1>4
<1> QED
  BY <1>5

(* Moving on in the matrix adds to the coded keys passed.                  *)
LEMMA CodedBeforeGrows ==
  ASSUME NEW m \in Matrix, NEW k \in m, NEW l \in m, Coded(k), Before(k, l)
  PROVE  Cardinality(CodedBefore(m, k)) < Cardinality(CodedBefore(m, l))
<1> DEFINE P == CodedBefore(m, k)
           Q == CodedBefore(m, l)
<1>1. k \in Key /\ l \in Key /\ \A h \in m : h \in Key
  BY DEF Matrix
<1>2. P \in SUBSET Q
  BY <1>1, BeforeOrder DEF CodedBefore
<1>3. k \in Q /\ k \notin P
  BY <1>1, BeforeOrder DEF CodedBefore
<1>4. IsFiniteSet(Q)
  <2>1. Q \in SUBSET m
    BY DEF CodedBefore
  <2> QED
    BY <2>1, MatrixFinite, FS_Subset
<1> HIDE DEF P, Q
<1>5. IsFiniteSet(P) /\ Cardinality(P) <= Cardinality(Q) /\ Cardinality(P) # Cardinality(Q)
  BY <1>2, <1>3, <1>4, FS_Subset
<1>6. Cardinality(P) \in Nat /\ Cardinality(Q) \in Nat
  BY <1>4, <1>5, FS_CardinalityType
<1> QED
  BY <1>5, <1>6 DEF P, Q

(* No more codes than the event has room for.                              *)
LEMMA RemapFits ==
  ASSUME NEW m \in Matrix
  PROVE  /\ kb_remap_key_code(m).ctrl_key \subseteq Key
         /\ kb_remap_key_code(m).keycode \subseteq Key
         /\ Cardinality(kb_remap_key_code(m).keycode) <= KB_RETURN_KEY_MAX
<1> DEFINE S    == {k \in Remapped(m) : Coded(k)}
           C(k) == Cardinality(CodedBefore(m, k))
           T    == {C(k) : k \in S}
<1>1. S \subseteq m /\ \A k \in S : Coded(k) /\ C(k) < KB_RETURN_KEY_MAX
  BY DEF Remapped, CodedBefore
<1>2. \A k \in m : IsFiniteSet(CodedBefore(m, k)) /\ C(k) \in Nat
  <2> TAKE k \in m
  <2>1. CodedBefore(m, k) \in SUBSET m
    BY DEF CodedBefore
  <2> QED
    BY <2>1, MatrixFinite, FS_Subset, FS_CardinalityType
<1>3. IsFiniteSet(S) /\ Cardinality(S) \in Nat
  BY <1>1, MatrixFinite, FS_Subset, FS_CardinalityType
<1>4. Cardinality(S) <= KB_RETURN_KEY_MAX
  <2>1. CASE S = {}
    BY <2>1, FS_EmptySet, BoundAssumption
  <2>2. CASE S # {}
    <3>1. T \in SUBSET Nat /\ T # {} /\ \A x \in T : x <= KB_RETURN_KEY_MAX
      BY <2>2, <1>1, <1>2, BoundAssumption
    <3>2. PICK x \in T : \A y \in T : y <= x
      <4> HIDE DEF T
      <4> QED
        BY <3>1, NatSetHasMax, BoundAssumption
    <3>3. PICK k \in S : x = C(k)
      OBVIOUS
    <3>4. \A l \in S : C(l) <= C(k)
      BY <3>2, <3>3
    <3> HIDE DEF S, T
    <3>5. \A l \in S \ {k} : l \in CodedBefore(m, k)
      <4> SUFFICES ASSUME NEW l \in S \ {k} PROVE l \in CodedBefore(m, k)
        OBVIOUS
      <4>1. k \in m /\ l \in m /\ k \in Key /\ l \in Key /\ Coded(k) /\ Coded(l)
        BY <1>1 DEF Matrix
      <4>2. ~Before(k, l)
        <5> SUFFICES ASSUME Before(k, l) PROVE FALSE
          OBVIOUS
        <5>1. C(k) < C(l)
          BY <4>1, CodedBeforeGrows
        <5> QED
          BY <5>1, <3>4, <4>1, <1>2
      <4>3. Before(l, k)
        BY <4>1, <4>2, BeforeOrder
      <4> QED
        BY <4>1, <4>3 DEF CodedBefore
    <3>6. k \in m /\ IsFiniteSet(CodedBefore(m, k)) /\ C(k) \in Nat /\ C(k) < KB_RETURN_KEY_MAX
      BY <1>1, <1>2
    <3>7. (S \ {k}) \in SUBSET CodedBefore(m, k)
      BY <3>5
    <3>8. Cardinality(S \ {k}) <= C(k)
      BY <3>6, <3>7, FS_Subset
    <3>9. Cardinality(S \ {k}) = Cardinality(S) - 1
      BY <1>3, <3>3, FS_RemoveElement
    <3> QED
      BY <1>3, <3>6, <3>8, <3>9, BoundAssumption
  <2> QED
    BY <2>1, <2>2
<1>5. Remapped(m) \subseteq Key
  BY DEF Remapped, Matrix
<1> QED
  BY <1>4, <1>5 DEF kb_remap_key_code

-----------------------------------------------------------------------------
(* The ring of four.  The pointers of the code run modulo 8.               *)

(* What makes the ring sound: it is never overrun *)
RingOK ==
  /\ matrix_buff \in Buf(4, Matrix)
  /\ matrix_wptr \in Ptr(4) /\ matrix_rptr \in Ptr(4)
  /\ Used(4, matrix_rptr, matrix_wptr) <= 4

(* RptrAfter for a read pointer r *)
Moved(r, w) == IF (w - r) % 8 > 4 THEN (w - 4) % 8 ELSE r

(* The FIFO that LossyFifo makes of s when v is put in *)
With(s, v) == IF Len(s) < 4 THEN Append(s, v) ELSE Append(Tail(s), v)

(* The ring of the module is the ring of the lemmas.                       *)
LEMMA FourSlots ==
  /\ 4 \in Size
  /\ \A r, w : Used(4, r, w) = (w - r) % 8
  /\ \A p : Step(4, p) = (p + 1) % 8
<1>1. 2 * 4 = 8
  OBVIOUS
<1> QED
  BY <1>1 DEF Size, Used, Step

(* Putting a changed matrix in: the read pointer moves on exactly when the *)
(* slot it points to was overwritten.                                      *)
LEMMA PushRing ==
  ASSUME NEW b \in Buf(4, Matrix), NEW r \in Ptr(4), NEW w \in Ptr(4),
         Used(4, r, w) <= 4, NEW v \in Matrix
  PROVE  /\ RingOf([b EXCEPT ![w % 4] = v], 4, Moved(r, Step(4, w)), Step(4, w))
              = With(RingOf(b, 4, r, w), v)
         /\ Moved(r, Step(4, w)) \in Ptr(4) /\ Step(4, w) \in Ptr(4)
         /\ Used(4, Moved(r, Step(4, w)), Step(4, w)) <= 4
         /\ [b EXCEPT ![w % 4] = v] \in Buf(4, Matrix)
<1> DEFINE w1 == Step(4, w)
           u  == Used(4, r, w)
           r1 == Moved(r, w1)
<1>0. 4 \in Size
  BY FourSlots
<1>1. w1 \in Ptr(4) /\ w1 = IF w = 7 THEN 0 ELSE w + 1
  <2>1. w1 \in Ptr(4) /\ w1 = IF w = 2 * 4 - 1 THEN 0 ELSE w + 1
    BY FourSlots, ModStep, Zenon
  <2> QED
    BY <2>1
<1>2. r \in 0..7 /\ w \in 0..7
  BY DEF Ptr
<1>3. u = (w - r) % 8 /\ Used(4, r, w1) = (w1 - r) % 8 /\ Step(4, r) = (r + 1) % 8
  BY FourSlots
<1>4. Len(RingOf(b, 4, r, w)) = u
  <2>1. RingOf(b, 4, r, w) \in Seq(Matrix) /\ Len(RingOf(b, 4, r, w)) = Used(4, r, w)
    BY <1>0, RingLen, Zenon
  <2> QED
    BY <2>1
<1> HIDE DEF w1, u, r1
<1>5. CASE u < 4
  <2>1. r1 = r
    BY <1>1, <1>2, <1>3, <1>5 DEF r1, Moved
  <2>2. /\ RingOf([b EXCEPT ![w % 4] = v], 4, r, w1) = Append(RingOf(b, 4, r, w), v)
        /\ Used(4, r, w1) = u + 1
        /\ [b EXCEPT ![w % 4] = v] \in Buf(4, Matrix)
    BY <1>5, FourSlots, RingPut, Zenon DEF u, w1
  <2>3. Used(4, r, w1) <= 4
    BY <1>1, <1>2, <1>3, <1>5, <2>2
  <2>4. With(RingOf(b, 4, r, w), v) = Append(RingOf(b, 4, r, w), v)
    BY <1>4, <1>5 DEF With
  <2> QED
    BY <2>1, <2>2, <2>3, <2>4, <1>1 DEF w1, r1
<1>6. CASE u = 4
  <2>0. w = r + 4 \/ r = w + 4
    BY <1>2, <1>3, <1>6
  <2>1. r1 = Step(4, r)
    BY <2>0, <1>1, <1>2, <1>3 DEF r1, Moved
  <2>2. /\ RingOf([b EXCEPT ![w % 4] = v], 4, Step(4, r), w1) = Append(Tail(RingOf(b, 4, r, w)), v)
        /\ Used(4, Step(4, r), w1) = 4
        /\ [b EXCEPT ![w % 4] = v] \in Buf(4, Matrix)
    BY <1>6, FourSlots, RingPutFull, Zenon DEF u, w1
  <2>3. Step(4, r) \in Ptr(4)
    BY FourSlots, ModStep, Zenon
  <2>4. With(RingOf(b, 4, r, w), v) = Append(Tail(RingOf(b, 4, r, w)), v)
    <3>1. Len(RingOf(b, 4, r, w)) = 4
      BY <1>4, <1>6, Zenon
    <3>2. ~(4 < 4)
      OBVIOUS
    <3> QED
      BY <3>1, <3>2, Zenon DEF With
  <2>5. Used(4, Step(4, r), w1) <= 4
    BY <2>2
  <2> QED
    BY <2>1, <2>2, <2>3, <2>4, <2>5, <1>1 DEF w1, r1
<1>7. u \in 0..4
  BY <1>2, <1>3 DEF u
<1> QED
  BY <1>5, <1>6, <1>7

(* What one kb_scan_key_value does to the ring: a changed matrix is put    *)
(* in, and when the call reads, the oldest one is taken out.               *)
LEMMA ScanRing ==
  ASSUME RingOK, mtrx_last \in Matrix, NEW cur \in Matrix,
         NEW call, call \in Calls, Push(cur),
         LET rptr == RptrAfter(matrix_wptr')
             read == Reads(call, rptr)
         IN  /\ matrix_rptr' = IF read THEN (rptr + 1) % 8 ELSE rptr
             /\ taken' = IF read THEN matrix_buff'[rptr % 4] ELSE taken
  PROVE  LET s == IF cur # mtrx_last THEN With(Ring, cur) ELSE Ring
         IN  /\ RingOK'
             /\ \/ Ring' = s /\ taken' = taken
                \/ s # <<>> /\ Ring' = Tail(s) /\ taken' = Head(s)
<1> DEFINE s    == IF cur # mtrx_last THEN With(Ring, cur) ELSE Ring
           rptr == RptrAfter(matrix_wptr')
           read == Reads(call, rptr)
<1>1. Ring = RingOf(matrix_buff, 4, matrix_rptr, matrix_wptr)
  <2>1. Used(4, matrix_rptr, matrix_wptr) = (matrix_wptr - matrix_rptr) % 8
    BY FourSlots, Zenon
  <2> QED
    BY <2>1, Zenon DEF Ring, RingOf
<1>2. Ring' = RingOf(matrix_buff', 4, matrix_rptr', matrix_wptr')
  <2>1. Used(4, matrix_rptr', matrix_wptr') = (matrix_wptr' - matrix_rptr') % 8
    BY FourSlots, Zenon
  <2> QED
    BY <2>1, Zenon DEF Ring, RingOf
<1>3. /\ RingOf(matrix_buff', 4, rptr, matrix_wptr') = s
      /\ rptr \in Ptr(4) /\ matrix_wptr' \in Ptr(4) /\ matrix_buff' \in Buf(4, Matrix)
      /\ Used(4, rptr, matrix_wptr') <= 4
  <2>1. CASE cur = mtrx_last
    <3>1. matrix_wptr' = matrix_wptr /\ matrix_buff' = matrix_buff
      BY <2>1 DEF Push
    <3>2. (matrix_wptr - matrix_rptr) % 8 <= 4 /\ matrix_wptr \in 0..7 /\ matrix_rptr \in 0..7
      BY FourSlots DEF RingOK, Ptr
    <3>3. rptr = matrix_rptr
      BY <3>1, <3>2 DEF RptrAfter
    <3> QED
      BY <3>1, <3>3, <2>1, <1>1 DEF RingOK
  <2>2. CASE cur # mtrx_last
    <3>1. /\ matrix_wptr' = Step(4, matrix_wptr)
          /\ matrix_buff' = [matrix_buff EXCEPT ![matrix_wptr % 4] = cur]
      BY <2>2, FourSlots DEF Push
    <3>2. rptr = Moved(matrix_rptr, Step(4, matrix_wptr))
      BY <3>1 DEF RptrAfter, Moved
    <3>3. /\ matrix_buff \in Buf(4, Matrix) /\ matrix_wptr \in Ptr(4) /\ matrix_rptr \in Ptr(4)
          /\ Used(4, matrix_rptr, matrix_wptr) <= 4
      BY DEF RingOK
    <3> DEFINE ptr == Moved(matrix_rptr, Step(4, matrix_wptr))
    <3> HIDE DEF rptr
    <3>4. /\ RingOf([matrix_buff EXCEPT ![matrix_wptr % 4] = cur], 4, ptr, Step(4, matrix_wptr))
               = With(RingOf(matrix_buff, 4, matrix_rptr, matrix_wptr), cur)
          /\ ptr \in Ptr(4) /\ Step(4, matrix_wptr) \in Ptr(4)
          /\ Used(4, ptr, Step(4, matrix_wptr)) <= 4
          /\ [matrix_buff EXCEPT ![matrix_wptr % 4] = cur] \in Buf(4, Matrix)
      BY <3>3, PushRing, Zenon
    <3> HIDE DEF ptr
    <3> QED
      BY <3>1, <3>2, <3>4, <2>2, <1>1 DEF ptr
  <2> QED
    BY <2>1, <2>2
<1>4. CASE ~read
  <2>1. matrix_rptr' = rptr /\ taken' = taken
    BY <1>4
  <2> HIDE DEF rptr, read
  <2> QED
    BY <2>1, <1>2, <1>3 DEF RingOK
<1>5. CASE read
  <2>1. matrix_rptr' = Step(4, rptr) /\ taken' = matrix_buff'[rptr % 4] /\ rptr # matrix_wptr'
    BY <1>5, FourSlots DEF Reads
  <2> HIDE DEF rptr, read, s
  <2>2. /\ RingOf(matrix_buff', 4, rptr, matrix_wptr') # <<>>
        /\ Head(RingOf(matrix_buff', 4, rptr, matrix_wptr')) = matrix_buff'[rptr % 4]
        /\ RingOf(matrix_buff', 4, Step(4, rptr), matrix_wptr')
             = Tail(RingOf(matrix_buff', 4, rptr, matrix_wptr'))
        /\ Used(4, Step(4, rptr), matrix_wptr') = Used(4, rptr, matrix_wptr') - 1
    BY <1>3, <2>1, FourSlots, RingTake, Zenon
  <2>3. Step(4, rptr) \in Ptr(4)
    BY <1>3, FourSlots, ModStep, Zenon
  <2>4. Used(4, rptr, matrix_wptr') \in Ptr(4)
    BY <1>3, FourSlots, ModUsed, Zenon
  <2>5. Used(4, Step(4, rptr), matrix_wptr') <= 4
    BY <2>2, <2>4, <1>3 DEF Ptr
  <2>6. RingOK'
    BY <1>3, <2>1, <2>3, <2>5 DEF RingOK
  <2>7. s # <<>> /\ Ring' = Tail(s) /\ taken' = Head(s)
    BY <1>2, <1>3, <2>1, <2>2, Zenon
  <2> QED
    BY <2>6, <2>7 DEF s
<1> QED
  BY <1>4, <1>5

(* The newest matrix of a ring that holds s, or the last one taken *)
Newest(s, t) == IF s = <<>> THEN t ELSE s[Len(s)]

(* What is put in is the newest, and taking the oldest out leaves the      *)
(* newest where it was, or hands it over when it was the only one.         *)
LEMMA NewestWith ==
  ASSUME NEW s \in Seq(Matrix), NEW v \in Matrix, NEW t, Len(s) <= 4
  PROVE  Newest(With(s, v), t) = v /\ With(s, v) \in Seq(Matrix) /\ With(s, v) # <<>>
<1>1. CASE Len(s) < 4
  BY <1>1 DEF With, Newest
<1>2. CASE ~(Len(s) < 4)
  <2>1. s # <<>>
    BY <1>2
  <2>2. Tail(s) \in Seq(Matrix)
    BY <2>1
  <2>3. Append(Tail(s), v) \in Seq(Matrix) /\ Append(Tail(s), v)[Len(Append(Tail(s), v))] = v
        /\ Append(Tail(s), v) # <<>>
    BY <2>2, SMTT(30)
  <2> QED
    BY <2>3, <1>2, Zenon DEF With, Newest
<1> QED
  BY <1>1, <1>2

(* Reading an entry does not change which one is the newest.               *)
LEMMA NewestTail ==
  ASSUME NEW s \in Seq(Matrix), s # <<>>, NEW t
  PROVE  Newest(Tail(s), Head(s)) = Newest(s, t)
<1>1. Tail(s) \in Seq(Matrix) /\ Len(Tail(s)) = Len(s) - 1 /\ Len(s) \in Nat \ {0}
      /\ \A i \in 1..Len(s) - 1 : Tail(s)[i] = s[i + 1]
  OBVIOUS
<1> DEFINE t1 == Tail(s)
<1> HIDE DEF t1
<1>a. t1 = <<>> <=> Len(t1) = 0
  BY <1>1 DEF t1
<1>b. Head(s) = s[1]
  OBVIOUS
<1>2. CASE Len(s) = 1
  <2>1. t1 = <<>>
    BY <1>1, <1>2, <1>a DEF t1
  <2> QED
    BY <2>1, <1>2, <1>b, Zenon DEF Newest, t1
<1>3. CASE Len(s) > 1
  <2>1. Tail(s) # <<>> /\ Len(s) - 1 \in 1..Len(s) - 1
    BY <1>1, <1>3, <1>a DEF t1
  <2>2. Tail(s)[Len(s) - 1] = s[Len(s)]
    BY <2>1, <1>1
  <2> QED
    BY <1>1, <2>1, <2>2 DEF Newest
<1> QED
  BY <1>1, <1>2, <1>3

-----------------------------------------------------------------------------
(* The debounce and the count of kb_key_pressed: five more calls after the *)
(* last key is up.  After the first of them the raw matrix is empty, after *)
(* the second the debounced one.                                           *)
ReleaseOK ==
  /\ release_cnt <= 4 => mtrx_pre = {}
  /\ release_cnt <= 3 => mtrx_last = {}
  /\ scan_pin_need = {} => release_cnt = 0
  /\ release_cnt > 0 => ret_last # {}

(* The inductive invariant *)
Inv == TypeOK /\ RingOK /\ ReleaseOK /\ NewestIsCurrent

(* The keys a scan reads are keys of the matrix, and none when none is     *)
(* down.                                                                   *)
LEMMA ScanRowsType ==
  /\ \A m : ScanRows(m) \in Matrix
  /\ ScanRows({}) = {}
<1>1. \A m : Wired(m) \subseteq Key
  BY DEF Wired
<1>2. \A m : kb_rmv_ghost_key(m) \subseteq m
  BY DEF kb_rmv_ghost_key
<1>3. Wired({}) = {}
  <2> SUFFICES ASSUME NEW k \in Wired({}) PROVE FALSE
    OBVIOUS
  <2>1. k[1] \in Rows
    BY DEF Wired, Key
  <2>2. {k[1]} \in SUBSET Rows /\ k[1] \in {k[1]} /\ Closed({}, {k[1]})
    BY <2>1 DEF Closed
  <2>3. \E r \in {k[1]} : <<r, k[2]>> \in {}
    BY <2>2, Zenon DEF Wired
  <2> QED
    BY <2>3
<1> QED
  BY <1>1, <1>2, <1>3 DEF ScanRows, Matrix

(* NewestIsCurrent in the words of the lemmas.                             *)
LEMMA NewestIs == NewestIsCurrent <=> mtrx_last = Newest(Ring, taken)
  BY DEF NewestIsCurrent, Newest

(* The initial state.                                                      *)
LEMMA InitInv == ASSUME Init PROVE Inv
<1>1. Used(4, 0, 0) = 0 /\ 0 \in Ptr(4)
  BY DEF Used, Ptr
<1>2. RingOK
  BY <1>1 DEF Init, RingOK, Buf, Slot, Matrix
<1>3. TypeOK
  BY BoundAssumption, FS_EmptySet DEF Init, TypeOK, NoEvent, Matrix
<1>4. Ring = <<>>
  BY DEF Init, Ring
<1>5. NewestIsCurrent
  BY <1>4 DEF Init, NewestIsCurrent
<1> QED
  BY <1>2, <1>3, <1>5 DEF Inv, ReleaseOK, Init

(* A finger does not touch what the scan keeps.                            *)
LEMMA MoveInv == ASSUME Inv, NEW k \in Key, MoveKey(k) PROVE Inv'
<1>1. TypeOK'
  BY BoundAssumption DEF Inv, TypeOK, MoveKey, Matrix
<1>2. Ring' = Ring
  BY DEF MoveKey, Ring
<1>3. NewestIsCurrent'
  BY <1>2 DEF Inv, MoveKey, NewestIsCurrent
<1>4. RingOK' /\ ReleaseOK'
  BY DEF Inv, MoveKey, RingOK, ReleaseOK
<1> QED
  BY <1>1, <1>3, <1>4 DEF Inv

(* kb_key_pressed: the pins it asks for, and the count.                    *)
LEMMA PressedStep ==
  ASSUME TypeOK, ReleaseOK, kb_key_pressed
  PROVE  /\ scan_pin_need' \subseteq Cols /\ ret_last' \subseteq Cols /\ release_cnt' \in 0..5
         /\ down # {} => release_cnt' = 5 /\ scan_pin_need' # {}
         /\ down = {} => release_cnt' = IF release_cnt > 0 THEN release_cnt - 1 ELSE 0
         /\ scan_pin_need' = {} => release_cnt' = 0 /\ release_cnt = 0
         /\ release_cnt' > 0 => ret_last' # {}
<1> DEFINE ret == {k[2] : k \in down}
<1>1. ret \subseteq Cols
  BY DEF TypeOK, Matrix, Key
<1>2. ret = {} <=> down = {}
  OBVIOUS
<1> HIDE DEF ret
<1>3. /\ ret_last' = IF ret # {} THEN ret ELSE ret_last
      /\ release_cnt' = IF ret # {} THEN 5 ELSE IF release_cnt > 0 THEN release_cnt - 1 ELSE 0
      /\ scan_pin_need' = IF ret = {} /\ release_cnt > 0 THEN ret_last ELSE ret
  BY DEF kb_key_pressed, ret
<1>4. release_cnt \in 0..5 /\ ret_last \subseteq Cols /\ (release_cnt > 0 => ret_last # {})
  BY DEF TypeOK, ReleaseOK
<1> QED
  BY <1>1, <1>2, <1>3, <1>4

(* What kb_scan_key_value does, with its two local values named.           *)
LEMMA ScanValue ==
  ASSUME Inv, NEW call \in Calls, kb_scan_key_value(call)
  PROVE  \E cur \in Matrix :
           LET m == ScanRows({k \in down : k[2] \in scan_pin_need'})
               s == IF cur # mtrx_last THEN With(Ring, cur) ELSE Ring
           IN  /\ mtrx_pre' = m /\ mtrx_last' = cur
               /\ cur = IF call.poweron THEN m ELSE Filter(m)
               /\ RingOK'
               /\ \/ Ring' = s /\ taken' = taken
                  \/ s # <<>> /\ Ring' = Tail(s) /\ taken' = Head(s)
               /\ kb_event' = NoEvent \/ kb_event' = kb_remap_key_code(taken')
<1> DEFINE m == ScanRows({k \in down : k[2] \in scan_pin_need'})
<1>1. PICK cur \in {IF call.poweron THEN m ELSE Filter(m)} :
        /\ mtrx_pre' = m /\ mtrx_last' = cur /\ Push(cur)
        /\ LET rptr == RptrAfter(matrix_wptr')
               read == Reads(call, rptr)
           IN  /\ matrix_rptr' = IF read THEN (rptr + 1) % 8 ELSE rptr
               /\ taken' = IF read THEN matrix_buff'[rptr % 4] ELSE taken
               /\ kb_event' = IF read THEN kb_remap_key_code(taken') ELSE NoEvent
  BY Zenon DEF kb_scan_key_value
<1>2. m \in Matrix
  BY ScanRowsType
<1> HIDE DEF m
<1>3. cur \in Matrix
  BY <1>2 DEF Inv, TypeOK, Filter, Matrix
<1>4. RingOK /\ mtrx_last \in Matrix
  BY DEF Inv, TypeOK
<1> DEFINE s == IF cur # mtrx_last THEN With(Ring, cur) ELSE Ring
<1>5. /\ RingOK'
      /\ \/ Ring' = s /\ taken' = taken
         \/ s # <<>> /\ Ring' = Tail(s) /\ taken' = Head(s)
  BY <1>1, <1>3, <1>4, ScanRing, Zenon
<1>6. kb_event' = NoEvent \/ kb_event' = kb_remap_key_code(taken')
  BY <1>1, Zenon
<1>7. cur = IF call.poweron THEN m ELSE Filter(m)
  OBVIOUS
<1> HIDE DEF s
<1> QED
  BY <1>1, <1>3, <1>5, <1>6, <1>7, Zenon DEF m, s

(* What the ring holds is a sequence of at most four matrices.             *)
LEMMA RingSeq == ASSUME RingOK PROVE Ring \in Seq(Matrix) /\ Len(Ring) <= 4
<1>1. Ring = RingOf(matrix_buff, 4, matrix_rptr, matrix_wptr)
  <2>1. Used(4, matrix_rptr, matrix_wptr) = (matrix_wptr - matrix_rptr) % 8
    BY FourSlots, Zenon
  <2> QED
    BY <2>1, Zenon DEF Ring, RingOf
<1>2. 4 \in Size
  BY FourSlots
<1>3. /\ matrix_buff \in Buf(4, Matrix) /\ matrix_wptr \in Ptr(4) /\ matrix_rptr \in Ptr(4)
      /\ Used(4, matrix_rptr, matrix_wptr) <= 4
  BY DEF RingOK
<1>4. /\ RingOf(matrix_buff, 4, matrix_rptr, matrix_wptr) \in Seq(Matrix)
      /\ Len(RingOf(matrix_buff, 4, matrix_rptr, matrix_wptr)) = Used(4, matrix_rptr, matrix_wptr)
  BY <1>2, <1>3, RingLen, Zenon
<1> QED
  BY <1>1, <1>3, <1>4

(* A call that scans keeps the newest matrix of the ring current.          *)
LEMMA NewestStep ==
  ASSUME RingOK, NewestIsCurrent, NEW cur \in Matrix, mtrx_last' = cur,
         LET s == IF cur # mtrx_last THEN With(Ring, cur) ELSE Ring
         IN  \/ Ring' = s /\ taken' = taken
             \/ s # <<>> /\ Ring' = Tail(s) /\ taken' = Head(s)
  PROVE  mtrx_last' = Newest(Ring', taken') /\ taken' \in Matrix \cup {taken}
<1> DEFINE s == IF cur # mtrx_last THEN With(Ring, cur) ELSE Ring
<1>1. Ring \in Seq(Matrix) /\ Len(Ring) <= 4
  BY RingSeq
<1>2. s \in Seq(Matrix) /\ Newest(s, taken) = cur
  <2>1. CASE cur # mtrx_last
    <3>1. Newest(With(Ring, cur), taken) = cur /\ With(Ring, cur) \in Seq(Matrix)
      BY <1>1, NewestWith
    <3> QED
      BY <3>1, <2>1
  <2>2. CASE cur = mtrx_last
    BY <2>2, <1>1, NewestIs
  <2> QED
    BY <2>1, <2>2
<1>3. \/ Ring' = s /\ taken' = taken
      \/ s # <<>> /\ Ring' = Tail(s) /\ taken' = Head(s)
  OBVIOUS
<1> HIDE DEF s
<1>4. CASE Ring' = s /\ taken' = taken
  BY <1>2, <1>4
<1>5. CASE s # <<>> /\ Ring' = Tail(s) /\ taken' = Head(s)
  <2>1. Newest(Tail(s), Head(s)) = Newest(s, taken)
    BY <1>2, <1>5, NewestTail, Zenon
  <2>2. Head(s) \in Matrix
    BY <1>2, <1>5
  <2> QED
    BY <2>1, <2>2, <1>2, <1>5, Zenon
<1> QED
  BY <1>3, <1>4, <1>5

(* One call of kb_scan_key, in four parts: the release count, the ring,    *)
(* the newest entry and the event.                                         *)
LEMMA ScanInv == ASSUME Inv, NEW call \in Calls, kb_scan_key(call) PROVE Inv'
<1>1. /\ scan_pin_need' \subseteq Cols /\ ret_last' \subseteq Cols /\ release_cnt' \in 0..5
      /\ down # {} => release_cnt' = 5 /\ scan_pin_need' # {}
      /\ down = {} => release_cnt' = IF release_cnt > 0 THEN release_cnt - 1 ELSE 0
      /\ scan_pin_need' = {} => release_cnt' = 0 /\ release_cnt = 0
      /\ release_cnt' > 0 => ret_last' # {}
  <2>1. TypeOK /\ ReleaseOK /\ kb_key_pressed
    BY Zenon DEF Inv, kb_scan_key
  <2> QED
    BY <2>1, PressedStep, Zenon
<1>2. down' = down /\ moves' = moves
  BY Zenon DEF kb_scan_key
<1>3. CASE scan_pin_need' = {}
  <2>1. UNCHANGED <<mtrx_pre, mtrx_last, matrix_buff, matrix_wptr, matrix_rptr, kb_event, taken>>
    BY <1>3, Zenon DEF kb_scan_key
  <2>2. TypeOK'
    BY <2>1, <1>1, <1>2 DEF Inv, TypeOK
  <2>3. Ring' = Ring
    BY <2>1 DEF Ring
  <2>4. RingOK' /\ NewestIsCurrent'
    BY <2>1, <2>3 DEF Inv, RingOK, NewestIsCurrent
  <2>5. ReleaseOK'
    BY <2>1, <1>1, <1>3 DEF Inv, ReleaseOK
  <2> QED
    BY <2>2, <2>4, <2>5 DEF Inv
<1>4. CASE scan_pin_need' # {}
  <2> DEFINE m == ScanRows({k \in down : k[2] \in scan_pin_need'})
  <2>1. kb_scan_key_value(call)
    BY <1>4, Zenon DEF kb_scan_key
  <2>2. PICK cur \in Matrix :
          LET s == IF cur # mtrx_last THEN With(Ring, cur) ELSE Ring
          IN  /\ mtrx_pre' = m /\ mtrx_last' = cur
              /\ cur = IF call.poweron THEN m ELSE Filter(m)
              /\ RingOK'
              /\ \/ Ring' = s /\ taken' = taken
                 \/ s # <<>> /\ Ring' = Tail(s) /\ taken' = Head(s)
              /\ kb_event' = NoEvent \/ kb_event' = kb_remap_key_code(taken')
    BY <2>1, ScanValue, Zenon
  <2>3. m \in Matrix /\ (down = {} => m = {})
    <3>1. down = {} => {k \in down : k[2] \in scan_pin_need'} = {}
      OBVIOUS
    <3> QED
      BY <3>1, ScanRowsType, Zenon
  <2> HIDE DEF m
  <2>4. ReleaseOK'
    <3>1. release_cnt \in 0..5 /\ (release_cnt <= 4 => mtrx_pre = {})
      BY DEF Inv, TypeOK, ReleaseOK
    <3>2. CASE down # {}
      BY <3>2, <1>1, <1>4 DEF ReleaseOK
    <3>3. CASE down = {}
      <4>1. mtrx_pre' = {} /\ mtrx_last' = IF call.poweron THEN {} ELSE mtrx_pre \cap mtrx_last
        BY <3>3, <2>2, <2>3 DEF Filter
      <4> QED
        BY <4>1, <3>1, <3>3, <1>1, <1>4 DEF ReleaseOK
    <3> QED
      BY <3>2, <3>3
  <2>5. mtrx_last' = Newest(Ring', taken') /\ taken' \in Matrix \cup {taken}
    <3>1. RingOK /\ NewestIsCurrent
      BY DEF Inv
    <3> QED
      BY <3>1, <2>2, NewestStep, Zenon
  <2>6. NewestIsCurrent'
    BY <2>5 DEF NewestIsCurrent, Newest
  <2>7. taken' \in Matrix
    BY <2>5 DEF Inv, TypeOK
  <2>8. /\ kb_event'.ctrl_key \subseteq Key
        /\ kb_event'.keycode \subseteq Key /\ Cardinality(kb_event'.keycode) <= KB_RETURN_KEY_MAX
    <3>1. CASE kb_event' = NoEvent
      BY <3>1, FS_EmptySet, BoundAssumption DEF NoEvent
    <3>2. CASE kb_event' = kb_remap_key_code(taken')
      BY <3>2, <2>7, RemapFits, Zenon
    <3> QED
      BY <3>1, <3>2, <2>2, Zenon
  <2>9. matrix_buff' \in [0..3 -> Matrix] /\ matrix_wptr' \in 0..7 /\ matrix_rptr' \in 0..7
    <3>1. RingOK'
      BY <2>2, Zenon
    <3> QED
      BY <3>1 DEF RingOK, Buf, Slot, Ptr
  <2>10. TypeOK'
    <3>1. mtrx_pre' \in Matrix /\ mtrx_last' \in Matrix
      BY <2>2, <2>3, Zenon
    <3>2. down' \in Matrix /\ moves' \in 0..MaxMove
      BY <1>2 DEF Inv, TypeOK
    <3> QED
      BY <3>1, <3>2, <2>7, <2>8, <2>9, <1>1, Zenon DEF TypeOK
  <2> QED
    BY <2>2, <2>4, <2>6, <2>10, Zenon DEF Inv
<1> QED
  BY <1>3, <1>4

(* The invariant holds throughout.                                         *)
LEMMA Invariant == Spec => []Inv
<1>1. Init => Inv
  BY InitInv
<1>2. Inv /\ [Next]_vars => Inv'
  <2> SUFFICES ASSUME Inv, [Next]_vars PROVE Inv'
    OBVIOUS
  <2>1. ASSUME NEW k \in Key, MoveKey(k) PROVE Inv'
    BY <2>1, MoveInv
  <2>2. ASSUME NEW call \in Calls, kb_scan_key(call) PROVE Inv'
    BY <2>2, ScanInv
  <2>3. CASE UNCHANGED vars
    <3>1. Ring' = Ring
      BY <2>3 DEF vars, Ring
    <3> QED
      BY <3>1, <2>3 DEF vars, Inv, TypeOK, RingOK, ReleaseOK, NewestIsCurrent
  <2> QED
    BY <2>1, <2>2, <2>3 DEF Next
<1> QED
  BY <1>1, <1>2, PTL DEF Spec

(* kb_remap_key_normal never writes behind kb_event.keycode, and every     *)
(* variable of the scan keeps its shape, in a matrix of any size.          *)
THEOREM TypeCorrect == Spec => []TypeOK
<1>1. Inv => TypeOK
  BY DEF Inv
<1> QED
  BY <1>1, Invariant, PTL

(* However many changes were pushed over unread ones, a caller that reads  *)
(* on with kb_scan_key ends at the debounced state of the keys.            *)
THEOREM CallerCatchesUp == Spec => []NewestIsCurrent
<1>1. Inv => NewestIsCurrent
  BY DEF Inv
<1> QED
  BY <1>1, Invariant, PTL

(* kb_key_pressed does not end the scan while a key is still reported as   *)
(* pressed: release_cnt outlasts the debounce filter.                      *)
THEOREM NoKeyLeftPressed == Spec => []StoppedReleased
<1>1. Inv => StoppedReleased
  BY DEF Inv, ReleaseOK, StoppedReleased, TypeOK
<1> QED
  BY <1>1, Invariant, PTL

(* matrix_buff, matrix_wptr and matrix_rptr of kb_scan_key_value implement *)
(* a FIFO of four that drops its oldest entry when it overruns.            *)
THEOREM RingImplementsFifo == Spec => RingIsFifo
<1>1. Init => Fifo!Init
  <2> SUFFICES ASSUME Init PROVE Fifo!Init
    OBVIOUS
  <2>1. Ring = <<>> /\ taken = {}
    BY DEF Init, Ring
  <2> QED
    BY <2>1 DEF Fifo!Init
<1>2. Inv /\ [Next]_vars => [Fifo!Next]_<<Ring, taken>>
  <2> SUFFICES ASSUME Inv, [Next]_vars PROVE [Fifo!Next]_<<Ring, taken>>
    OBVIOUS
  <2>1. ASSUME NEW k \in Key, MoveKey(k) PROVE UNCHANGED <<Ring, taken>>
    BY <2>1 DEF MoveKey, Ring
  <2>2. ASSUME NEW call \in Calls, kb_scan_key(call) PROVE Fifo!Next \/ UNCHANGED <<Ring, taken>>
    <3>1. CASE scan_pin_need' = {}
      <4>1. UNCHANGED <<matrix_buff, matrix_wptr, matrix_rptr, taken>>
        BY <3>1, <2>2, Zenon DEF kb_scan_key
      <4> QED
        BY <4>1 DEF Ring
    <3>2. CASE scan_pin_need' # {}
      <4>1. kb_scan_key_value(call)
        BY <3>2, <2>2, Zenon DEF kb_scan_key
      <4>2. PICK cur \in Matrix :
              LET s == IF cur # mtrx_last THEN With(Ring, cur) ELSE Ring
              IN  \/ Ring' = s /\ taken' = taken
                  \/ s # <<>> /\ Ring' = Tail(s) /\ taken' = Head(s)
        BY <4>1, ScanValue, Zenon
      <4>3. Fifo!With(cur) = With(Ring, cur)
        BY DEF Fifo!With, With
      <4>4. CASE cur # mtrx_last
        <5>1. Fifo!Put(cur) \/ Fifo!PutAndTake(cur)
          BY <4>2, <4>3, <4>4, Zenon DEF Fifo!Put, Fifo!PutAndTake
        <5> QED
          BY <5>1, Zenon DEF Fifo!Next
      <4>5. CASE cur = mtrx_last
        <5>1. Fifo!Take \/ UNCHANGED <<Ring, taken>>
          BY <4>2, <4>5 DEF Fifo!Take
        <5> QED
          BY <5>1, Zenon DEF Fifo!Next
      <4> QED
        BY <4>4, <4>5
    <3> QED
      BY <3>1, <3>2
  <2>3. CASE UNCHANGED vars
    BY <2>3 DEF vars, Ring
  <2> QED
    BY <2>1, <2>2, <2>3 DEF Next
<1> QED
  BY <1>1, <1>2, Invariant, PTL DEF Spec, RingIsFifo, Fifo!Spec

-----------------------------------------------------------------------------
(* Ghost keys.  A key that is read and not down is a corner of a rectangle *)
(* the other three corners of which are read as well, so the two rows      *)
(* share two columns and kb_rmv_ghost_key clears the corner.               *)

(* The rows that are connected with row r *)
Reached(m, r) == {x \in Rows : \A R \in SUBSET Rows : r \in R /\ Closed(m, R) => x \in R}

(* They are closed, and a set of rows that is closed has a complement that *)
(* is.                                                                     *)
LEMMA ReachedClosed ==
  ASSUME NEW m \in Matrix, NEW r \in Rows
  PROVE  /\ r \in Reached(m, r) /\ Reached(m, r) \in SUBSET Rows
         /\ Closed(m, Reached(m, r))
         /\ \A R \in SUBSET Rows : Closed(m, R) => Closed(m, Rows \ R)
<1>1. \A k \in m : k[1] \in Rows
  BY DEF Matrix, Key
<1>2. Closed(m, Reached(m, r))
  <2> SUFFICES ASSUME NEW k \in m, NEW l \in m, k[2] = l[2], k[1] \in Reached(m, r)
               PROVE  l[1] \in Reached(m, r)
    BY DEF Closed
  <2>1. ASSUME NEW R \in SUBSET Rows, r \in R, Closed(m, R) PROVE l[1] \in R
    <3>1. k[1] \in R
      BY <2>1 DEF Reached
    <3> QED
      BY <3>1, <2>1 DEF Closed
  <2> QED
    BY <2>1, <1>1 DEF Reached
<1>3. \A R \in SUBSET Rows : Closed(m, R) => Closed(m, Rows \ R)
  BY <1>1 DEF Closed
<1> QED
  BY <1>2, <1>3 DEF Reached

(* Every key that is down is read.                                         *)
LEMMA DownIsRead == ASSUME NEW m \in Matrix PROVE m \subseteq Wired(m)
<1> SUFFICES ASSUME NEW k \in m PROVE k \in Wired(m)
  OBVIOUS
<1>1. k \in Key /\ k = <<k[1], k[2]>>
  BY DEF Matrix, Key
<1> QED
  BY <1>1 DEF Wired

(* The rectangle of a ghost.                                               *)
LEMMA GhostRectangle ==
  ASSUME NEW m \in Matrix, NEW k \in Wired(m), k \notin m
  PROVE  \E q \in Rows, d \in Cols :
           /\ q # k[1] /\ d # k[2]
           /\ <<q, k[2]>> \in Wired(m) /\ <<k[1], d>> \in Wired(m) /\ <<q, d>> \in Wired(m)
<1> DEFINE r == k[1]
           c == k[2]
<1>1. r \in Rows /\ c \in Cols /\ k = <<r, c>>
  BY DEF Wired, Key
<1>2. r \in Reached(m, r) /\ Reached(m, r) \in SUBSET Rows /\ Closed(m, Reached(m, r))
  BY <1>1, ReachedClosed
<1>3. PICK q \in Reached(m, r) : <<q, c>> \in m
  BY <1>2 DEF Wired
<1>4. q \in Rows /\ q # r
  BY <1>1, <1>2, <1>3
<1>5. PICK d \in Cols : <<r, d>> \in m
  <2>1. ~Closed(m, {r})
    BY <1>1, <1>3, <1>4 DEF Reached
  <2>2. PICK a \in m : a[1] = r
    BY <2>1 DEF Closed
  <2>3. a[2] \in Cols /\ a = <<r, a[2]>>
    BY <2>2 DEF Matrix, Key
  <2> QED
    BY <2>3
<1>6. d # c
  BY <1>1, <1>5
<1>7. <<q, d>> \in Wired(m)
  <2>1. <<q, d>> \in Key
    BY <1>4 DEF Key
  <2>2. ASSUME NEW R \in SUBSET Rows, q \in R, Closed(m, R) PROVE \E x \in R : <<x, d>> \in m
    <3>1. r \in R
      <4> SUFFICES ASSUME r \notin R PROVE FALSE
        OBVIOUS
      <4>1. Closed(m, Rows \ R) /\ r \in Rows \ R /\ (Rows \ R) \in SUBSET Rows
        BY <1>1, <2>2, ReachedClosed
      <4>2. q \in Rows \ R
        BY <4>1, <1>3 DEF Reached
      <4> QED
        BY <4>2, <2>2
    <3> QED
      BY <3>1, <1>5
  <2> QED
    BY <2>1, <2>2 DEF Wired
<1>8. <<q, c>> \in Wired(m) /\ <<r, d>> \in Wired(m)
  BY <1>3, <1>5, DownIsRead
<1> QED
  BY <1>4, <1>6, <1>7, <1>8

(* kb_rmv_ghost_key clears every ghost.                                    *)
LEMMA NoGhostRead ==
  ASSUME NEW m \in Matrix
  PROVE  kb_rmv_ghost_key(Wired(m)) \subseteq m
<1> SUFFICES ASSUME NEW k \in Wired(m), k \notin m
             PROVE  k[2] \in MixFinal(Wired(m), k[1])
  BY DEF kb_rmv_ghost_key
<1> DEFINE W      == Wired(m)
           i      == k[1]
           Row(r) == {c \in Cols : <<r, c>> \in W}
           Pairs  == {p \in Rows \X Rows : p[1] <= i /\ p[2] > p[1]}
           Mixed  == {p \in Pairs : Cardinality(Row(p[1]) \cap Row(p[2])) > 1
                                      \/ Row(p[1]) # Row(p[2])}
<1>1. PICK q \in Rows, d \in Cols :
        /\ q # i /\ d # k[2]
        /\ <<q, k[2]>> \in W /\ <<i, d>> \in W /\ <<q, d>> \in W
  BY GhostRectangle
<1>2. i \in Rows /\ k[2] \in Cols /\ <<i, k[2]>> \in W
  <2>1. k \in Rows \X Cols
    BY DEF Wired, Key
  <2>2. k = <<k[1], k[2]>> /\ k[1] \in Rows /\ k[2] \in Cols
    BY <2>1
  <2> QED
    BY <2>2
<1>3. MixFinal(W, i) = UNION {Row(p[1]) \cap Row(p[2]) : p \in Mixed}
  BY DEF MixFinal
<1> HIDE DEF W, i
<1>4. k[2] \in Row(i) \cap Row(q) /\ d \in Row(i) \cap Row(q)
  BY <1>1, <1>2
<1>5. Cardinality(Row(i) \cap Row(q)) > 1
  <2> DEFINE B == Row(i) \cap Row(q)
  <2>1. B \in SUBSET Cols
    OBVIOUS
  <2>2. IsFiniteSet(B) /\ Cardinality(B) \in Nat
    BY <2>1, PinAssumption, FS_Subset, FS_CardinalityType
  <2> HIDE DEF B
  <2>3. Cardinality(B) # 0 /\ Cardinality(B) # 1
    <3>1. B # {} /\ ~\E x : B = {x}
      BY <1>1, <1>4 DEF B
    <3> QED
      BY <3>1, <2>2, FS_EmptySet, FS_Singleton
  <2> QED
    BY <2>2, <2>3 DEF B
<1> HIDE DEF Row
<1>6. \E p \in Mixed : k[2] \in Row(p[1]) \cap Row(p[2])
  <2>1. i \in Nat /\ q \in Nat /\ i # q
    BY <1>1, <1>2, PinAssumption
  <2>2. CASE i < q
    <3>1. <<i, q>> \in Pairs /\ <<i, q>>[1] = i /\ <<i, q>>[2] = q
      BY <2>1, <2>2, <1>1, <1>2
    <3> HIDE DEF Pairs
    <3>2. <<i, q>> \in Mixed
      BY <3>1, <1>5, Zenon
    <3> QED
      BY <3>1, <3>2, <1>4, Zenon
  <2>3. CASE q < i
    <3>1. <<q, i>> \in Pairs /\ <<q, i>>[1] = q /\ <<q, i>>[2] = i
      BY <2>1, <2>3, <1>1, <1>2
    <3>2. Row(q) \cap Row(i) = Row(i) \cap Row(q)
      OBVIOUS
    <3> HIDE DEF Pairs
    <3>3. <<q, i>> \in Mixed
      BY <3>1, <3>2, <1>5, Zenon
    <3> QED
      BY <3>1, <3>3, <1>4, Zenon
  <2>4. i < q \/ q < i
    BY <2>1
  <2> QED
    BY <2>2, <2>3, <2>4, Zenon
<1> HIDE DEF Mixed
<1>7. k[2] \in MixFinal(W, i)
  BY <1>3, <1>6, Zenon
<1> QED
  BY <1>7 DEF W, i

(* With kb_rmv_ghost_key a scan never adds a key that is not down, in any  *)
(* matrix and whatever keys are held.                                      *)
THEOREM GhostsNeverReported == Spec => NoGhostKey
<1>1. Inv /\ [Next]_vars =>
        [KB_RM_GHOST_KEY_EN => (mtrx_last' \ mtrx_last) \subseteq down]_vars
  <2> SUFFICES ASSUME Inv, [Next]_vars, KB_RM_GHOST_KEY_EN
               PROVE  (mtrx_last' \ mtrx_last) \subseteq down
    BY Zenon
  <2>1. ASSUME NEW k \in Key, MoveKey(k) PROVE mtrx_last' = mtrx_last
    BY <2>1 DEF MoveKey
  <2>2. ASSUME NEW call \in Calls, kb_scan_key(call)
        PROVE  (mtrx_last' \ mtrx_last) \subseteq down
    <3>1. CASE scan_pin_need' = {}
      BY <3>1, <2>2 DEF kb_scan_key
    <3>2. CASE scan_pin_need' # {}
      <4> DEFINE held == {k \in down : k[2] \in scan_pin_need'}
                 m    == ScanRows(held)
      <4>1. kb_scan_key_value(call)
        BY <3>2, <2>2, Zenon DEF kb_scan_key
      <4>2. PICK cur \in Matrix :
              mtrx_last' = cur /\ cur = IF call.poweron THEN m ELSE Filter(m)
        BY <4>1, ScanValue, Zenon
      <4>3. held \in Matrix /\ held \subseteq down
        BY DEF Inv, TypeOK, Matrix
      <4> HIDE DEF held
      <4>4. m \subseteq down
        BY <4>3, NoGhostRead DEF ScanRows
      <4> HIDE DEF m
      <4> QED
        BY <4>2, <4>4 DEF Filter
    <3> QED
      BY <3>1, <3>2
  <2>3. CASE UNCHANGED vars
    BY <2>3 DEF vars
  <2> QED
    BY <2>1, <2>2, <2>3 DEF Next
<1> QED
  BY <1>1, Invariant, PTL DEF Spec, NoGhostKey
=============================================================================
