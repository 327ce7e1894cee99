-------------------------- MODULE CustomPairProofs --------------------------
(***************************************************************************)
(* Proofs about CustomPair, for any number of devices, any size of the     *)
(* table and of the sector and anything a torn record may hold.            *)
(***************************************************************************)
EXTENDS CustomPair, FiniteSetTheorems, SequenceTheorems, WellFoundedInduction, TLAPS

(* The entries are in the order of their records.                          *)
Ordered(t)  == \A j, k \in 1..Len(t) : j < k => t[j].idx < t[k].idx

(* No peer has two entries.                                                *)
Distinct(t) == \A j, k \in 1..Len(t) : j # k /\ t[j].adr = t[k].adr => t[j].adr \notin Addr

(* Each record holds the address of its entry; it may hold garbage only    *)
(* after the power failed (c).                                             *)
Match(t, f, c) ==
  \A k \in 1..Len(t) : f[t[k].idx].adr = t[k].adr \/ (c /\ f[t[k].idx].adr = Garbage)

NoPeerAddr == {NoAddr, Garbage}

(* While the device runs: the table t, the sector f, the index x of its    *)
(* last record, the devices kp that must be there and whether c the power  *)
(* failed at a bad time.                                                   *)
RunOK(t, f, x, kp, c) ==
  /\ Idxs(t) = Bonded(f) /\ Ordered(t) /\ Distinct(t) /\ Match(t, f, c)
  /\ \A i \in SlotIdx : i <= x <=> f[i].mark # "blank"
  /\ Devices(t) \subseteq kp \cup NoPeerAddr
  /\ ~c => kp \subseteq Devices(t) /\ \A i \in SlotIdx : i > x => f[i] = BlankSlot

(* While the sector is rewritten: the first x + 1 entries have their       *)
(* records again, and the rest of the sector is blank.                     *)
RewriteOK(t, f, x, kp, c) ==
  /\ x + 1 < Len(t) /\ x >= -1
  /\ Distinct(t)
  /\ \A k \in 1..x + 1 : t[k].idx = k - 1
  /\ \A i \in SlotIdx : i <= x => f[i].mark = "bond" /\ f[i].adr = t[i + 1].adr
  /\ \A i \in SlotIdx : i > x => f[i] = BlankSlot
  /\ Devices(t) \subseteq kp \cup NoPeerAddr
  /\ ~c => kp \subseteq Devices(t)

(* What the sector holds when the power is off: the used records come      *)
(* first, no more than MaxNum of them are bonded, and each to a device of  *)
(* its own that is kept.                                                   *)
OffOK(f, kp, c) ==
  /\ \A i, j \in SlotIdx : i < j /\ f[j].mark # "blank" => f[i].mark # "blank"
  /\ Cardinality(Bonded(f)) <= MaxNum
  /\ \A i \in Bonded(f) : f[i].adr \in kp \cup NoPeerAddr
  /\ \A i, j \in Bonded(f) : i # j /\ f[i].adr = f[j].adr => f[i].adr \notin Addr
  /\ ~c => /\ \A a \in kp : \E i \in Bonded(f) : f[i].adr = a
           /\ \A i \in SlotIdx : f[i].mark = "blank" => f[i] = BlankSlot

Inv ==
  /\ TypeOK /\ pc # "hang"
  /\ pc = "off" => OffOK(flash, kept, cut) /\ tbl = <<>>
  /\ pc \in {"run", "erase", "store", "delall"} => RunOK(tbl, flash, cfgIdx, kept, cut)
  /\ pc = "rewrite" => RewriteOK(tbl, flash, cfgIdx, kept, cut)
  /\ pc = "store" => new \in Addr /\ Len(tbl) < MaxNum /\ new \notin Devices(tbl)

-----------------------------------------------------------------------------
(* A table has at least as many entries as records.                        *)
LEMMA CardIdxs ==
  ASSUME NEW t \in Seq(Entry)
  PROVE  IsFiniteSet(Idxs(t)) /\ Cardinality(Idxs(t)) <= Len(t)
<1> DEFINE D == 1..Len(t)
           g == [k \in D |-> t[k].idx]
<1>1. Len(t) \in Nat
  OBVIOUS
<1>2. g \in Surjection(D, Idxs(t))
  BY DEF Surjection, Idxs
<1>3. IsFiniteSet(D) /\ Cardinality(D) = Len(t)
  BY <1>1, FS_Interval, SMTT(30)
<1> HIDE DEF D, g
<1>4. IsFiniteSet(Idxs(t)) /\ Cardinality(Idxs(t)) <= Cardinality(D)
  BY <1>2, <1>3, FS_Surjection, Zenon
<1> QED
  BY <1>3, <1>4

(* The records of the sector.                                              *)
LEMMA SlotFacts ==
  /\ SlotNum \in Nat /\ MaxNum \in Nat \ {0} /\ SlotNum > 2 * MaxNum
  /\ SlotIdx \subseteq Nat /\ IsFiniteSet(SlotIdx)
  /\ NoAddr \notin Addr /\ Garbage \notin Addr /\ NoAddr # Garbage
<1>1. SlotNum \in Nat /\ MaxNum \in Nat \ {0} /\ SlotNum > 2 * MaxNum
  BY SlotNumAssumption, MaxNumAssumption
<1>2. IsFiniteSet(0 .. SlotNum - 1)
  BY <1>1, FS_Interval
<1> QED
  BY <1>1, <1>2, AddrAssumption DEF SlotIdx

(* The bonded records are finitely many records of the sector.             *)
LEMMA BondedFinite ==
  ASSUME NEW f PROVE Bonded(f) \subseteq SlotIdx /\ IsFiniteSet(Bonded(f))
<1>1. Bonded(f) \subseteq SlotIdx
  BY DEF Bonded
<1> QED
  BY <1>1, SlotFacts, FS_Subset

(* What a table entry holds.                                               *)
LEMMA EntryOf ==
  ASSUME NEW t \in Seq(Entry), NEW k \in 1..Len(t)
  PROVE  t[k] \in Entry /\ t[k].idx \in SlotIdx /\ t[k].adr \in Addr \cup NoPeerAddr
         /\ t[k].adr \in Devices(t) /\ t[k].idx \in Idxs(t)
<1>1. t[k] \in Entry
  OBVIOUS
<1> QED
  BY <1>1 DEF Entry, Devices, Idxs, NoPeerAddr

-----------------------------------------------------------------------------
(* Striking out a record.                                                  *)
LEMMA StrikeFacts ==
  ASSUME NEW f \in [SlotIdx -> Slot], NEW q \in SlotIdx
  PROVE  /\ Strike(f, q) \in [SlotIdx -> Slot]
         /\ \A i \in SlotIdx : i # q => Strike(f, q)[i] = f[i]
         /\ Strike(f, q)[q].mark = "erased"
         /\ Bonded(Strike(f, q)) = Bonded(f) \ {q}
<1>1. f[q] \in Slot
  OBVIOUS
<1>2. [f[q] EXCEPT !.mark = "erased"] \in Slot /\ [f[q] EXCEPT !.mark = "erased"].mark = "erased"
  BY <1>1 DEF Slot, Mark
<1>3. Strike(f, q) = [f EXCEPT ![q] = [f[q] EXCEPT !.mark = "erased"]]
  BY DEF Strike
<1> DEFINE g == Strike(f, q)
<1>4. /\ g \in [SlotIdx -> Slot] /\ \A i \in SlotIdx : i # q => g[i] = f[i]
      /\ g[q].mark = "erased"
  BY <1>2, <1>3
<1> HIDE DEF g
<1>5. Bonded(g) = Bonded(f) \ {q}
  BY <1>4 DEF Bonded
<1> QED
  BY <1>4, <1>5 DEF g

(* s is t without its k-th entry.                                          *)
IsWithout(s, t, k) ==
  /\ s \in Seq(Entry) /\ Len(s) = Len(t) - 1
  /\ \A i \in 1..Len(s) : s[i] = IF i < k THEN t[i] ELSE t[i + 1]

(* user_tbl_slave_mac_delete_by_index closes the gap.                      *)
LEMMA WithoutIs ==
  ASSUME NEW t \in Seq(Entry), NEW k \in 1..Len(t) PROVE IsWithout(Without(t, k), t, k)
<1> DEFINE a == SubSeq(t, 1, k - 1)
           b == SubSeq(t, k + 1, Len(t))
<1>1. /\ a \in Seq(Entry) /\ Len(a) = k - 1 /\ \A i \in 1..k - 1 : a[i] = t[i]
  OBVIOUS
<1>2. /\ b \in Seq(Entry) /\ Len(b) = Len(t) - k /\ \A i \in 1..Len(t) - k : b[i] = t[i + k]
  OBVIOUS
<1>3. Len(t) \in Nat /\ k \in Nat
  OBVIOUS
<1>4. Without(t, k) = a \o b
  BY DEF Without
<1> HIDE DEF a, b
<1> DEFINE s == a \o b
<1>6. /\ s \in Seq(Entry) /\ Len(s) = Len(a) + Len(b)
      /\ \A i \in 1..Len(a) + Len(b) : s[i] = IF i <= Len(a) THEN a[i] ELSE b[i - Len(a)]
  BY <1>1, <1>2, ConcatProperties
<1>5. Len(s) = Len(t) - 1
  BY <1>1, <1>2, <1>3, <1>6
<1> HIDE DEF s
<1>7. ASSUME NEW i \in 1..Len(s) PROVE s[i] = IF i < k THEN t[i] ELSE t[i + 1]
  <2>1. CASE i < k
    <3>1. i <= Len(a) /\ i \in 1..k - 1
      BY <2>1, <1>1, <1>3, <1>5
    <3> QED
      BY <3>1, <2>1, <1>1, <1>6, Zenon
  <2>2. CASE ~(i < k)
    <3>1. ~(i <= Len(a)) /\ i - Len(a) \in 1..Len(t) - k /\ (i - Len(a)) + k = i + 1
      BY <2>2, <1>1, <1>3, <1>5
    <3>2. s[i] = b[i - Len(a)]
      BY <3>1, <1>6, Zenon
    <3> QED
      BY <3>1, <3>2, <2>2, <1>2, Zenon
  <2> QED
    BY <2>1, <2>2
<1> QED
  BY <1>4, <1>5, <1>6, <1>7, Zenon DEF IsWithout, s

(* Index 0 is deleted.                                                     *)
LEMMA TailIs ==
  ASSUME NEW t \in Seq(Entry), t # <<>>
  PROVE  IsWithout(Tail(t), t, 1) /\ 1 \in 1..Len(t)
<1>1. Tail(t) \in Seq(Entry) /\ Len(Tail(t)) = Len(t) - 1 /\ 1 \in 1..Len(t)
      /\ \A i \in 1..Len(t) - 1 : Tail(t)[i] = t[i + 1]
  OBVIOUS
<1>2. \A i \in 1..Len(t) - 1 : ~(i < 1)
  BY <1>1
<1> QED
  BY <1>1, <1>2, Zenon DEF IsWithout

(* An entry and its record go together.                                    *)
LEMMA Removed ==
  ASSUME NEW t \in Seq(Entry), NEW f \in [SlotIdx -> Slot], NEW x \in Int, NEW kp, NEW c,
         RunOK(t, f, x, kp, c), NEW k \in 1..Len(t), NEW s, IsWithout(s, t, k)
  PROVE  /\ RunOK(s, Strike(f, t[k].idx), x, kp \ {t[k].adr}, c)
         /\ Devices(s) \subseteq Devices(t)
<1> DEFINE q == t[k].idx
           a == t[k].adr
           g == Strike(f, q)
           u == kp \ {a}
<1>1. /\ s \in Seq(Entry) /\ Len(s) = Len(t) - 1 /\ Len(t) \in Nat /\ Len(s) \in Nat
      /\ \A i \in 1..Len(s) : s[i] = IF i < k THEN t[i] ELSE t[i + 1]
  BY DEF IsWithout
<1>2. q \in SlotIdx /\ a \in Devices(t)
  BY EntryOf, Zenon
<1>3. /\ Idxs(t) = Bonded(f) /\ Ordered(t) /\ Distinct(t) /\ Match(t, f, c)
      /\ \A i \in SlotIdx : i <= x <=> f[i].mark # "blank"
      /\ Devices(t) \subseteq kp \cup NoPeerAddr
      /\ ~c => kp \subseteq Devices(t) /\ \A i \in SlotIdx : i > x => f[i] = BlankSlot
  BY Zenon DEF RunOK
<1>4. /\ g \in [SlotIdx -> Slot] /\ \A i \in SlotIdx : i # q => g[i] = f[i]
      /\ g[q].mark = "erased" /\ Bonded(g) = Bonded(f) \ {q}
  BY <1>2, StrikeFacts, Zenon
<1> HIDE DEF g
<1>5. ASSUME NEW i \in 1..Len(s)
      PROVE  \E j \in 1..Len(t) : j # k /\ s[i] = t[j] /\ j = IF i < k THEN i ELSE i + 1
  <2>1. CASE i < k
    BY <2>1, <1>1
  <2>2. CASE ~(i < k)
    <3>1. i + 1 \in 1..Len(t) /\ i + 1 # k
      BY <2>2, <1>1
    <3> QED
      BY <3>1, <2>2, <1>1
  <2> QED
    BY <2>1, <2>2
<1>6. ASSUME NEW j \in 1..Len(t), j # k
      PROVE  \E i \in 1..Len(s) : s[i] = t[j]
  <2>1. CASE j < k
    <3>1. j \in 1..Len(s)
      BY <2>1, <1>1
    <3> QED
      BY <3>1, <2>1, <1>1
  <2>2. CASE ~(j < k)
    <3>1. j - 1 \in 1..Len(s) /\ ~(j - 1 < k) /\ (j - 1) + 1 = j
      BY <2>2, <1>1, <1>6
    <3>2. s[j - 1] = t[(j - 1) + 1]
      BY <3>1, <1>1, Zenon
    <3> QED
      BY <3>1, <3>2, Zenon
  <2> QED
    BY <2>1, <2>2
<1>7. ASSUME NEW i \in 1..Len(t), NEW j \in 1..Len(t), i # j
      PROVE  t[i].idx # t[j].idx
  <2>1. t[i].idx \in Nat /\ t[j].idx \in Nat
    BY EntryOf, SlotFacts
  <2>2. i < j \/ j < i
    BY <1>7, <1>1
  <2>3. t[i].idx < t[j].idx \/ t[j].idx < t[i].idx
    BY <2>2, <1>3, Zenon DEF Ordered
  <2> QED
    BY <2>1, <2>3
<1>8. Idxs(s) = Bonded(g)
  <2>1. Idxs(s) = Idxs(t) \ {q}
    <3>1. ASSUME NEW i \in 1..Len(s) PROVE s[i].idx \in Idxs(t) \ {q}
      <4>1. PICK j \in 1..Len(t) : j # k /\ s[i] = t[j]
        BY <1>5, Zenon
      <4>2. t[j].idx # q /\ t[j].idx \in Idxs(t)
        BY <4>1, <1>7, EntryOf, Zenon
      <4> QED
        BY <4>1, <4>2
    <3>2. ASSUME NEW j \in 1..Len(t), t[j].idx # q PROVE t[j].idx \in Idxs(s)
      <4>1. PICK i \in 1..Len(s) : s[i] = t[j]
        BY <3>2, <1>6, Zenon
      <4> QED
        BY <4>1 DEF Idxs
    <3> QED
      BY <3>1, <3>2 DEF Idxs
  <2> QED
    BY <2>1, <1>3, <1>4, Zenon
<1>9. Devices(s) \subseteq Devices(t)
  <2> SUFFICES ASSUME NEW i \in 1..Len(s) PROVE s[i].adr \in Devices(t)
    BY Zenon DEF Devices
  <2>1. PICK j \in 1..Len(t) : s[i] = t[j]
    BY <1>5, Zenon
  <2> QED
    BY <2>1, EntryOf, Zenon
<1>10. Devices(t) \subseteq Devices(s) \cup {a}
  BY <1>6, Zenon DEF Devices
<1>11. a \in Addr => a \notin Devices(s)
  <2> SUFFICES ASSUME a \in Addr, NEW i \in 1..Len(s), s[i].adr = a PROVE FALSE
    BY Zenon DEF Devices
  <2>1. PICK j \in 1..Len(t) : j # k /\ s[i] = t[j]
    BY <1>5, Zenon
  <2>2. j # k /\ t[j].adr = t[k].adr
    BY <2>1, Zenon
  <2>3. t[j].adr \notin Addr
    BY <2>2, <1>3, Zenon DEF Distinct
  <2> QED
    BY <2>2, <2>3, Zenon
<1>12. Ordered(s)
  <2> SUFFICES ASSUME NEW i \in 1..Len(s), NEW j \in 1..Len(s), i < j
               PROVE  s[i].idx < s[j].idx
    BY Zenon DEF Ordered
  <2>1. PICK m \in 1..Len(t) : s[i] = t[m] /\ m = IF i < k THEN i ELSE i + 1
    BY <1>5, Zenon
  <2>2. PICK n \in 1..Len(t) : s[j] = t[n] /\ n = IF j < k THEN j ELSE j + 1
    BY <1>5, Zenon
  <2>3. m < n
    BY <2>1, <2>2, <1>1
  <2> QED
    BY <2>1, <2>2, <2>3, <1>3, Zenon DEF Ordered
<1>13. Distinct(s)
  <2> SUFFICES ASSUME NEW i \in 1..Len(s), NEW j \in 1..Len(s), i # j, s[i].adr = s[j].adr
               PROVE  s[i].adr \notin Addr
    BY Zenon DEF Distinct
  <2>1. PICK m \in 1..Len(t) : s[i] = t[m] /\ m = IF i < k THEN i ELSE i + 1
    BY <1>5, Zenon
  <2>2. PICK n \in 1..Len(t) : s[j] = t[n] /\ n = IF j < k THEN j ELSE j + 1
    BY <1>5, Zenon
  <2>3. m # n
    BY <2>1, <2>2, <1>1
  <2> QED
    BY <2>1, <2>2, <2>3, <1>3, Zenon DEF Distinct
<1>14. Match(s, g, c)
  <2> SUFFICES ASSUME NEW i \in 1..Len(s)
               PROVE  g[s[i].idx].adr = s[i].adr \/ (c /\ g[s[i].idx].adr = Garbage)
    BY Zenon DEF Match
  <2>1. PICK m \in 1..Len(t) : m # k /\ s[i] = t[m]
    BY <1>5, Zenon
  <2>2. t[m].idx # q /\ t[m].idx \in SlotIdx
    BY <2>1, <1>7, EntryOf, Zenon
  <2>3. g[s[i].idx] = f[t[m].idx]
    BY <2>1, <2>2, <1>4, Zenon
  <2> QED
    BY <2>1, <2>3, <1>3, Zenon DEF Match
<1>15. \A i \in SlotIdx : i <= x <=> g[i].mark # "blank"
  <2> TAKE i \in SlotIdx
  <2>1. CASE i = q
    <3>1. q \in Bonded(f)
      BY <1>3, EntryOf, Zenon
    <3>2. f[q].mark # "blank"
      BY <3>1 DEF Bonded
    <3>3. g[q].mark # "blank"
      BY <1>4
    <3> QED
      BY <2>1, <3>2, <3>3, <1>2, <1>3, Zenon
  <2>2. CASE i # q
    BY <2>2, <1>3, <1>4, Zenon
  <2> QED
    BY <2>1, <2>2
<1>16. Devices(s) \subseteq u \cup NoPeerAddr
  <2> SUFFICES ASSUME NEW d \in Devices(s) PROVE d \in u \cup NoPeerAddr
    OBVIOUS
  <2>1. d \in kp \cup NoPeerAddr
    BY <1>3, <1>9
  <2>2. d = a => a \in NoPeerAddr
    <3>1. a \in Addr \cup NoPeerAddr
      BY EntryOf, Zenon
    <3> QED
      BY <3>1, <1>11
  <2> QED
    BY <2>1, <2>2
<1>17. ~c => u \subseteq Devices(s) /\ \A i \in SlotIdx : i > x => g[i] = BlankSlot
  <2> SUFFICES ASSUME ~c PROVE u \subseteq Devices(s) /\ \A i \in SlotIdx : i > x => g[i] = BlankSlot
    OBVIOUS
  <2>1. u \subseteq Devices(s)
    BY <1>3, <1>10
  <2>2. ASSUME NEW i \in SlotIdx, i > x PROVE g[i] = BlankSlot
    <3>1. f[i] = BlankSlot /\ f[i].mark = "blank"
      BY <2>2, <1>3 DEF BlankSlot
    <3>2. i # q
      <4>1. q \in Bonded(f)
        BY <1>3, EntryOf, Zenon
      <4> QED
        BY <4>1, <3>1 DEF Bonded
    <3> QED
      BY <3>1, <3>2, <1>4, Zenon
  <2> QED
    BY <2>1, <2>2, Zenon
<1> HIDE DEF u
<1>18. RunOK(s, g, x, u, c)
  BY <1>8, <1>12, <1>13, <1>14, <1>15, <1>16, <1>17, Zenon DEF RunOK
<1> QED
  BY <1>9, <1>18 DEF g, u
-----------------------------------------------------------------------------
(* A value put into the sector, and a record programmed over a blank mark. *)
LEMMA PutSlot ==
  ASSUME NEW f \in [SlotIdx -> Slot], NEW q \in SlotIdx, NEW v \in Slot
  PROVE  /\ [f EXCEPT ![q] = v] \in [SlotIdx -> Slot]
         /\ [f EXCEPT ![q] = v][q] = v
         /\ \A i \in SlotIdx : i # q => [f EXCEPT ![q] = v][i] = f[i]
  OBVIOUS

(* A record is programmed.                                                 *)
LEMMA ProgramFacts ==
  ASSUME NEW s \in Slot, NEW a \in Addr \cup NoPeerAddr
  PROVE  /\ Program(s, a) \in Slot
         /\ s.mark = "blank" => Program(s, a).mark = "bond"
         /\ Program(s, a).adr = IF s.adr = NoAddr THEN a ELSE Garbage
  BY DEF Program, Slot, Mark, NoPeerAddr

(* An erased record.                                                       *)
LEMMA BlankFacts ==
  BlankSlot \in Slot /\ BlankSlot.mark = "blank" /\ BlankSlot.adr = NoAddr
  BY DEF BlankSlot, Slot, Mark

(* The entry and the sector after device a was added.                      *)
NewEntry(x, a)    == [idx |-> x + 1, adr |-> a]
NewFlash(f, x, a) == [f EXCEPT ![x + 1] = Program(f[x + 1], a)]

(* An entry and its record are added.                                      *)
LEMMA Stored ==
  ASSUME NEW t \in Seq(Entry), NEW f \in [SlotIdx -> Slot], NEW x \in Int, NEW kp, NEW c,
         RunOK(t, f, x, kp, c), NEW a \in Addr, a \notin Devices(t),
         x >= -1, x + 1 < SlotNum
  PROVE  /\ Append(t, NewEntry(x, a)) \in Seq(Entry)
         /\ Len(Append(t, NewEntry(x, a))) = Len(t) + 1
         /\ NewFlash(f, x, a) \in [SlotIdx -> Slot]
         /\ RunOK(Append(t, NewEntry(x, a)), NewFlash(f, x, a), x + 1, kp \cup {a}, c)
<1> DEFINE q == x + 1
           e == [idx |-> q, adr |-> a]
           v == Program(f[q], a)
           g == [f EXCEPT ![q] = v]
           s == Append(t, e)
           n == Len(t)
<1>1. q \in SlotIdx /\ q \in Int /\ x \in Int /\ q = x + 1
  BY SlotFacts DEF SlotIdx
<1>2. /\ Idxs(t) = Bonded(f) /\ Ordered(t) /\ Distinct(t) /\ Match(t, f, c)
      /\ \A i \in SlotIdx : i <= x <=> f[i].mark # "blank"
      /\ Devices(t) \subseteq kp \cup NoPeerAddr
      /\ ~c => kp \subseteq Devices(t) /\ \A i \in SlotIdx : i > x => f[i] = BlankSlot
  BY Zenon DEF RunOK
<1>3. e \in Entry /\ e.idx = q /\ e.adr = a
  BY <1>1 DEF Entry
<1> HIDE DEF q, e
<1>4. f[q].mark = "blank" /\ (~c => f[q] = BlankSlot)
  <2>1. ~(q <= x) /\ q > x
    BY <1>1
  <2> QED
    BY <2>1, <1>1, <1>2, Zenon
<1>5. v \in Slot /\ v.mark = "bond" /\ (v.adr = a \/ (c /\ v.adr = Garbage))
  <2>1. f[q] \in Slot /\ a \in Addr \cup NoPeerAddr
    BY <1>1
  <2>2. /\ v \in Slot /\ v.mark = "bond"
        /\ v.adr = IF f[q].adr = NoAddr THEN a ELSE Garbage
    BY <2>1, <1>4, ProgramFacts, Zenon
  <2>3. ~c => f[q].adr = NoAddr
    BY <1>4, BlankFacts, Zenon
  <2> QED
    BY <2>2, <2>3, Zenon
<1> HIDE DEF v
<1>6. /\ g \in [SlotIdx -> Slot] /\ g[q] = v /\ \A i \in SlotIdx : i # q => g[i] = f[i]
  BY <1>1, <1>5, PutSlot, Zenon
<1>7. /\ s \in Seq(Entry) /\ Len(s) = n + 1 /\ n \in Nat
      /\ \A k \in 1..n : s[k] = t[k]
      /\ s[n + 1] = e
  <2>1. n \in Nat
    OBVIOUS
  <2> QED
    BY <2>1, <1>3, AppendProperties
<1> HIDE DEF g, s, n
<1>8. n = Len(t)
  BY DEF n
<1>9. \A k \in 1..Len(s) : k \in 1..n \/ k = n + 1
  BY <1>7
<1>9a. \A k \in 1..n : k \in 1..Len(s) /\ k # n + 1 /\ k < n + 1
  BY <1>7
<1>9b. n + 1 \in 1..Len(s)
  BY <1>7
<1>10. q \notin Bonded(f)
  BY <1>4 DEF Bonded
<1>11. Bonded(g) = Bonded(f) \cup {q}
  BY <1>1, <1>5, <1>6 DEF Bonded
<1>12. Idxs(s) = Bonded(g)
  <2>1. ASSUME NEW k \in 1..Len(s) PROVE s[k].idx \in Idxs(t) \cup {q}
    <3>1. CASE k \in 1..n
      BY <3>1, <1>7, <1>8, EntryOf
    <3>2. CASE k = n + 1
      BY <3>2, <1>3, <1>7
    <3> QED
      BY <3>1, <3>2, <1>9
  <2>2. ASSUME NEW k \in 1..n PROVE t[k].idx \in Idxs(s)
    <3>1. k \in 1..Len(s) /\ s[k] = t[k]
      BY <1>7, <1>9a
    <3> QED
      BY <3>1 DEF Idxs
  <2>3. q \in Idxs(s)
    BY <1>3, <1>7, <1>9b DEF Idxs
  <2>4. Idxs(s) = Idxs(t) \cup {q}
    <3>1. Idxs(s) \subseteq Idxs(t) \cup {q}
      BY <2>1 DEF Idxs
    <3>2. Idxs(t) \subseteq Idxs(s)
      BY <2>2, <1>8 DEF Idxs
    <3> QED
      BY <3>1, <3>2, <2>3
  <2> QED
    BY <2>4, <1>2, <1>11
<1>13. Devices(s) = Devices(t) \cup {a}
  <2>1. ASSUME NEW k \in 1..Len(s) PROVE s[k].adr \in Devices(t) \cup {a}
    <3>1. CASE k \in 1..n
      BY <3>1, <1>7, <1>8, EntryOf
    <3>2. CASE k = n + 1
      BY <3>2, <1>3, <1>7
    <3> QED
      BY <3>1, <3>2, <1>9
  <2>2. ASSUME NEW k \in 1..n PROVE t[k].adr \in Devices(s)
    <3>1. k \in 1..Len(s) /\ s[k] = t[k]
      BY <1>7, <1>9a
    <3> QED
      BY <3>1 DEF Devices
  <2>3. a \in Devices(s)
    BY <1>3, <1>7, <1>9b DEF Devices
  <2>4. Devices(s) \subseteq Devices(t) \cup {a}
    BY <2>1 DEF Devices
  <2>5. Devices(t) \subseteq Devices(s)
    BY <2>2, <1>8 DEF Devices
  <2> QED
    BY <2>3, <2>4, <2>5
<1>14. Ordered(s)
  <2> SUFFICES ASSUME NEW j \in 1..Len(s), NEW k \in 1..Len(s), j < k
               PROVE  s[j].idx < s[k].idx
    BY Zenon DEF Ordered
  <2>1. j \in 1..n
    BY <1>7
  <2>2. CASE k \in 1..n
    BY <2>1, <2>2, <1>2, <1>7, <1>8, Zenon DEF Ordered
  <2>3. CASE k = n + 1
    <3>1. t[j].idx \in Bonded(f)
      BY <2>1, <1>2, <1>8, EntryOf
    <3>2. t[j].idx \in SlotIdx /\ f[t[j].idx].mark # "blank"
      BY <3>1 DEF Bonded
    <3>3. t[j].idx <= x
      BY <3>2, <1>2, Zenon
    <3>4. t[j].idx < q
      BY <3>2, <3>3, <1>1, SlotFacts
    <3> QED
      BY <3>4, <2>1, <2>3, <1>3, <1>7, Zenon
  <2> QED
    BY <2>2, <2>3, <1>9
<1>15. Distinct(s)
  <2> SUFFICES ASSUME NEW j \in 1..Len(s), NEW k \in 1..Len(s), j # k, s[j].adr = s[k].adr
               PROVE  s[j].adr \notin Addr
    BY Zenon DEF Distinct
  <2>1. \A i \in 1..n : s[i].adr # a
    BY <1>7, <1>8, EntryOf
  <2>2. CASE j \in 1..n /\ k \in 1..n
    BY <2>2, <1>2, <1>7, <1>8, Zenon DEF Distinct
  <2>3. CASE j = n + 1 \/ k = n + 1
    BY <2>1, <2>3, <1>3, <1>7, <1>9, Zenon
  <2> QED
    BY <2>2, <2>3, <1>9
<1>16. Match(s, g, c)
  <2> SUFFICES ASSUME NEW k \in 1..Len(s)
               PROVE  g[s[k].idx].adr = s[k].adr \/ (c /\ g[s[k].idx].adr = Garbage)
    BY Zenon DEF Match
  <2>1. CASE k \in 1..n
    <3>1. t[k].idx \in Bonded(f) /\ t[k].idx \in SlotIdx
      BY <2>1, <1>2, <1>8, EntryOf
    <3>2. g[s[k].idx] = f[t[k].idx]
      BY <3>1, <2>1, <1>6, <1>7, <1>10, Zenon
    <3> QED
      BY <3>2, <2>1, <1>2, <1>7, <1>8, Zenon DEF Match
  <2>2. CASE k = n + 1
    BY <2>2, <1>3, <1>5, <1>6, <1>7, Zenon
  <2> QED
    BY <2>1, <2>2, <1>9
<1>17. \A i \in SlotIdx : i <= q <=> g[i].mark # "blank"
  <2> TAKE i \in SlotIdx
  <2>1. CASE i = q
    <3>1. q <= q
      BY <1>1
    <3>2. v.mark # "blank"
      BY <1>5
    <3> QED
      BY <2>1, <3>1, <3>2, <1>6, Zenon
  <2>2. CASE i # q
    <3>1. i <= q <=> i <= x
      BY <2>2, <1>1, SlotFacts
    <3> QED
      BY <2>2, <3>1, <1>2, <1>6, Zenon
  <2> QED
    BY <2>1, <2>2
<1>18. Devices(s) \subseteq (kp \cup {a}) \cup NoPeerAddr
  BY <1>2, <1>13
<1>19. ~c => kp \cup {a} \subseteq Devices(s) /\ \A i \in SlotIdx : i > q => g[i] = BlankSlot
  <2>1. \A i \in SlotIdx : i > q => i > x /\ i # q
    BY <1>1, SlotFacts
  <2> QED
    BY <2>1, <1>2, <1>6, <1>13
<1>20. RunOK(s, g, q, kp \cup {a}, c)
  BY <1>12, <1>14, <1>15, <1>16, <1>17, <1>18, <1>19, Zenon DEF RunOK
<1>21. s = Append(t, NewEntry(x, a)) /\ g = NewFlash(f, x, a)
  BY DEF s, g, q, e, v, NewEntry, NewFlash
<1> QED
  BY <1>1, <1>6, <1>7, <1>8, <1>20, <1>21, Zenon
-----------------------------------------------------------------------------
(* The power fails between two flash commands: each entry is in its        *)
(* record.                                                                 *)
LEMMA RunToOff ==
  ASSUME NEW t \in Seq(Entry), NEW f \in [SlotIdx -> Slot], NEW x \in Int, NEW kp, NEW c,
         kp \subseteq Addr, RunOK(t, f, x, kp, c), Len(t) <= MaxNum
  PROVE  OffOK(f, kp, c) /\ Cardinality(Bonded(f)) <= Len(t)
<1>2. /\ Idxs(t) = Bonded(f) /\ Ordered(t) /\ Distinct(t) /\ Match(t, f, c)
      /\ \A i \in SlotIdx : i <= x <=> f[i].mark # "blank"
      /\ Devices(t) \subseteq kp \cup NoPeerAddr
      /\ ~c => kp \subseteq Devices(t) /\ \A i \in SlotIdx : i > x => f[i] = BlankSlot
  BY Zenon DEF RunOK
<1>3. Cardinality(Bonded(f)) <= Len(t) /\ Cardinality(Bonded(f)) <= MaxNum
  <2>1. IsFiniteSet(Bonded(f)) /\ Cardinality(Bonded(f)) <= Len(t)
    BY <1>2, CardIdxs
  <2>2. Cardinality(Bonded(f)) \in Nat
    BY <2>1, FS_CardinalityType
  <2> QED
    BY <2>1, <2>2, SlotFacts
<1>4. \A i, j \in SlotIdx : i < j /\ f[j].mark # "blank" => f[i].mark # "blank"
  <2> SUFFICES ASSUME NEW i \in SlotIdx, NEW j \in SlotIdx, i < j, f[j].mark # "blank"
               PROVE  f[i].mark # "blank"
    BY Zenon
  <2>1. j <= x
    BY <1>2, Zenon
  <2>2. i <= x
    BY <2>1, SlotFacts
  <2> QED
    BY <2>2, <1>2, Zenon
<1>5. ASSUME NEW i \in Bonded(f)
      PROVE  \E k \in 1..Len(t) : /\ t[k].idx = i
                                  /\ f[i].adr = t[k].adr \/ (c /\ f[i].adr = Garbage)
  <2>1. PICK k \in 1..Len(t) : t[k].idx = i
    BY <1>2 DEF Idxs
  <2> QED
    BY <2>1, <1>2, Zenon DEF Match
<1>6. \A i \in Bonded(f) : f[i].adr \in kp \cup NoPeerAddr
  <2> SUFFICES ASSUME NEW i \in Bonded(f) PROVE f[i].adr \in kp \cup NoPeerAddr
    OBVIOUS
  <2>1. PICK k \in 1..Len(t) : f[i].adr = t[k].adr \/ f[i].adr = Garbage
    BY <1>5, Zenon
  <2>2. t[k].adr \in Devices(t)
    BY EntryOf
  <2> QED
    BY <2>1, <2>2, <1>2 DEF NoPeerAddr
<1>7. \A i, j \in Bonded(f) : i # j /\ f[i].adr = f[j].adr => f[i].adr \notin Addr
  <2> SUFFICES ASSUME NEW i \in Bonded(f), NEW j \in Bonded(f), i # j, f[i].adr = f[j].adr,
                      f[i].adr \in Addr
               PROVE  FALSE
    OBVIOUS
  <2>1. PICK k \in 1..Len(t) : t[k].idx = i /\ (f[i].adr = t[k].adr \/ f[i].adr = Garbage)
    BY <1>5, Zenon
  <2>2. PICK l \in 1..Len(t) : t[l].idx = j /\ (f[j].adr = t[l].adr \/ f[j].adr = Garbage)
    BY <1>5, Zenon
  <2>3. k # l /\ t[k].adr = t[l].adr /\ t[k].adr \in Addr
    BY <2>1, <2>2, SlotFacts
  <2> QED
    BY <2>3, <1>2, Zenon DEF Distinct
<1>8. ~c => /\ \A a \in kp : \E i \in Bonded(f) : f[i].adr = a
            /\ \A i \in SlotIdx : f[i].mark = "blank" => f[i] = BlankSlot
  <2> SUFFICES ASSUME ~c
               PROVE  /\ \A a \in kp : \E i \in Bonded(f) : f[i].adr = a
                      /\ \A i \in SlotIdx : f[i].mark = "blank" => f[i] = BlankSlot
    OBVIOUS
  <2>1. ASSUME NEW a \in kp PROVE \E i \in Bonded(f) : f[i].adr = a
    <3>1. PICK k \in 1..Len(t) : t[k].adr = a
      BY <1>2 DEF Devices
    <3>2. t[k].idx \in Bonded(f) /\ f[t[k].idx].adr = a
      BY <3>1, <1>2, EntryOf DEF Match
    <3> QED
      BY <3>2
  <2>2. ASSUME NEW i \in SlotIdx, f[i].mark = "blank" PROVE f[i] = BlankSlot
    <3>1. ~(i <= x)
      BY <2>2, <1>2, Zenon
    <3>2. i > x
      BY <3>1, SlotFacts
    <3> QED
      BY <3>2, <1>2, Zenon
  <2> QED
    BY <2>1, <2>2
<1> QED
  BY <1>3, <1>4, <1>6, <1>7, <1>8, Zenon DEF OffOK

(* d holds when c does and when v counts as free but is not blank.         *)
Noticed(c, v, d) == c \/ (v.mark = "blank" /\ v.adr # NoAddr) => d

(* What a torn record does to a sector in which all before it is used and  *)
(* all behind it is blank.                                                 *)
LEMMA TornOff ==
  ASSUME NEW f \in [SlotIdx -> Slot], NEW kp, NEW c, kp \subseteq Addr,
         OffOK(f, kp, c), Cardinality(Bonded(f)) < MaxNum,
         NEW q \in SlotIdx, \A i \in SlotIdx : i < q <=> f[i].mark # "blank",
         NEW v \in Torn, NEW d, Noticed(c, v, d)
  PROVE  [f EXCEPT ![q] = v] \in [SlotIdx -> Slot] /\ OffOK([f EXCEPT ![q] = v], kp, d)
<1> DEFINE g == [f EXCEPT ![q] = v]
<1>1. v \in Slot /\ v.adr \in NoPeerAddr /\ v.mark \in Mark
  BY TornAssumption DEF Slot, NoPeerAddr
<1>2. /\ g \in [SlotIdx -> Slot] /\ g[q] = v /\ \A i \in SlotIdx : i # q => g[i] = f[i]
  BY <1>1, PutSlot, Zenon
<1> HIDE DEF g
<1>3. /\ \A i \in Bonded(f) : f[i].adr \in kp \cup NoPeerAddr
      /\ \A i, j \in Bonded(f) : i # j /\ f[i].adr = f[j].adr => f[i].adr \notin Addr
      /\ ~c => /\ \A a \in kp : \E i \in Bonded(f) : f[i].adr = a
               /\ \A i \in SlotIdx : f[i].mark = "blank" => f[i] = BlankSlot
  BY Zenon DEF OffOK
<1>4. f[q].mark = "blank" /\ q \notin Bonded(f)
  <2>1. ~(q < q)
    BY SlotFacts
  <2>2. f[q].mark = "blank"
    BY <2>1, Zenon
  <2> QED
    BY <2>2 DEF Bonded
<1>5. /\ Bonded(g) \subseteq Bonded(f) \cup {q} /\ Bonded(f) \subseteq Bonded(g)
  BY <1>2, <1>4 DEF Bonded
<1>6. Cardinality(Bonded(g)) <= MaxNum
  <2>1. IsFiniteSet(Bonded(f)) /\ IsFiniteSet(Bonded(g))
    BY BondedFinite
  <2>2. /\ IsFiniteSet(Bonded(f) \cup {q})
        /\ Cardinality(Bonded(f) \cup {q}) = Cardinality(Bonded(f)) + 1
    BY <2>1, <1>4, FS_AddElement
  <2>3. Cardinality(Bonded(g)) <= Cardinality(Bonded(f) \cup {q})
    BY <2>2, <1>5, FS_Subset
  <2>4. Cardinality(Bonded(g)) \in Nat /\ Cardinality(Bonded(f)) \in Nat
    BY <2>1, FS_CardinalityType
  <2> QED
    BY <2>2, <2>3, <2>4, SlotFacts
<1>7. \A i, j \in SlotIdx : i < j /\ g[j].mark # "blank" => g[i].mark # "blank"
  <2> SUFFICES ASSUME NEW i \in SlotIdx, NEW j \in SlotIdx, i < j, g[j].mark # "blank"
               PROVE  g[i].mark # "blank"
    BY Zenon
  <2>1. j <= q
    <3> SUFFICES ASSUME j > q PROVE FALSE
      BY SlotFacts
    <3>1. j # q /\ ~(j < q)
      BY SlotFacts
    <3> QED
      BY <3>1, <1>2, Zenon
  <2>2. i < q /\ i # q
    BY <2>1, SlotFacts
  <2> QED
    BY <2>2, <1>2, Zenon
<1>8. \A i \in Bonded(g) : g[i].adr \in kp \cup NoPeerAddr
  <2> SUFFICES ASSUME NEW i \in Bonded(g) PROVE g[i].adr \in kp \cup NoPeerAddr
    OBVIOUS
  <2>1. CASE i = q
    BY <2>1, <1>1, <1>2
  <2>2. CASE i # q
    <3>1. i \in Bonded(f) /\ i \in SlotIdx
      BY <2>2, <1>5, BondedFinite
    <3> QED
      BY <3>1, <2>2, <1>2, <1>3
  <2> QED
    BY <2>1, <2>2
<1>9. \A i, j \in Bonded(g) : i # j /\ g[i].adr = g[j].adr => g[i].adr \notin Addr
  <2> SUFFICES ASSUME NEW i \in Bonded(g), NEW j \in Bonded(g), i # j, g[i].adr = g[j].adr
               PROVE  g[i].adr \notin Addr
    OBVIOUS
  <2>1. CASE i = q \/ j = q
    <3>1. g[q].adr \notin Addr
      BY <1>1, <1>2, SlotFacts DEF NoPeerAddr
    <3> QED
      BY <3>1, <2>1
  <2>2. CASE i # q /\ j # q
    <3>1. i \in Bonded(f) /\ i \in SlotIdx /\ j \in Bonded(f) /\ j \in SlotIdx
      BY <2>2, <1>5, BondedFinite
    <3> QED
      BY <3>1, <2>2, <1>2, <1>3, Zenon
  <2> QED
    BY <2>1, <2>2
<1>10. ~d => /\ \A a \in kp : \E i \in Bonded(g) : g[i].adr = a
             /\ \A i \in SlotIdx : g[i].mark = "blank" => g[i] = BlankSlot
  <2> SUFFICES ASSUME ~d
               PROVE  /\ \A a \in kp : \E i \in Bonded(g) : g[i].adr = a
                      /\ \A i \in SlotIdx : g[i].mark = "blank" => g[i] = BlankSlot
    OBVIOUS
  <2>1. ~c /\ ~(v.mark = "blank" /\ v.adr # NoAddr)
    BY Zenon DEF Noticed
  <2>2. ASSUME NEW a \in kp PROVE \E i \in Bonded(g) : g[i].adr = a
    <3>1. PICK i \in Bonded(f) : f[i].adr = a
      BY <2>1, <1>3, Zenon
    <3>2. i \in SlotIdx /\ i # q /\ i \in Bonded(g)
      BY <1>4, <1>5, BondedFinite
    <3> QED
      BY <3>1, <3>2, <1>2, Zenon
  <2>3. ASSUME NEW i \in SlotIdx, g[i].mark = "blank" PROVE g[i] = BlankSlot
    <3>1. CASE i = q
      <4>1. v.mark = "blank" /\ v.adr = NoAddr
        BY <3>1, <2>1, <2>3, <1>2, Zenon
      <4>2. v = BlankSlot
        BY <4>1, <1>1 DEF BlankSlot, Slot
      <4> QED
        BY <4>2, <3>1, <1>2, Zenon
    <3>2. CASE i # q
      BY <3>2, <2>1, <2>3, <1>2, <1>3, Zenon
    <3> QED
      BY <3>1, <3>2
  <2> QED
    BY <2>2, <2>3
<1> QED
  BY <1>2, <1>6, <1>7, <1>8, <1>9, <1>10, Zenon DEF OffOK, g

(* The power fails during a rewrite: what is written is a part of the      *)
(* table.                                                                  *)
LEMMA RewriteToOff ==
  ASSUME NEW t \in Seq(Entry), NEW f \in [SlotIdx -> Slot], NEW x \in Int, NEW kp, NEW c,
         kp \subseteq Addr, RewriteOK(t, f, x, kp, c), Len(t) <= MaxNum
  PROVE  /\ OffOK(f, kp, TRUE) /\ Cardinality(Bonded(f)) < MaxNum
         /\ x + 1 \in SlotIdx /\ \A i \in SlotIdx : i < x + 1 <=> f[i].mark # "blank"
<1>1. /\ x + 1 < Len(t) /\ x >= -1 /\ Distinct(t)
      /\ \A i \in SlotIdx : i <= x => f[i].mark = "bond" /\ f[i].adr = t[i + 1].adr
      /\ \A i \in SlotIdx : i > x => f[i] = BlankSlot
      /\ Devices(t) \subseteq kp \cup NoPeerAddr
  BY Zenon DEF RewriteOK
<1>2. Len(t) \in Nat /\ x + 1 \in SlotIdx
  BY <1>1, SlotFacts DEF SlotIdx
<1>3. \A i \in SlotIdx : i < x + 1 <=> f[i].mark # "blank"
  <2> TAKE i \in SlotIdx
  <2>1. i < x + 1 <=> i <= x
    BY SlotFacts
  <2>2. i <= x \/ i > x
    BY SlotFacts
  <2>3. "bond" # "blank"
    OBVIOUS
  <2>4. i > x => ~(i <= x)
    BY SlotFacts
  <2> QED
    BY <2>1, <2>2, <2>3, <2>4, <1>1, BlankFacts, Zenon
<1>4. \A i \in Bonded(f) : i \in SlotIdx /\ i \in 0..x /\ i + 1 \in 1..Len(t) /\ f[i].adr = t[i + 1].adr
  <2> SUFFICES ASSUME NEW i \in Bonded(f)
               PROVE  i \in SlotIdx /\ i \in 0..x /\ i + 1 \in 1..Len(t) /\ f[i].adr = t[i + 1].adr
    OBVIOUS
  <2>1. i \in SlotIdx /\ f[i].mark # "blank" /\ i \in Nat
    BY SlotFacts DEF Bonded
  <2>2. i < x + 1
    BY <2>1, <1>3, Zenon
  <2>3. i <= x /\ i \in 0..x /\ i + 1 \in 1..Len(t)
    BY <2>1, <2>2, <1>1, <1>2
  <2> QED
    BY <2>1, <2>3, <1>1, Zenon
<1>5. Cardinality(Bonded(f)) < MaxNum /\ Cardinality(Bonded(f)) <= MaxNum
  <2>0. IsFiniteSet(0..x) /\ Cardinality(0..x) = IF 0 > x THEN 0 ELSE x - 0 + 1
    <3>1. 0 \in Int
      OBVIOUS
    <3> QED
      BY <3>1, FS_Interval, Zenon
  <2>1. IsFiniteSet(0..x) /\ Cardinality(0..x) <= x + 1
    <3> DEFINE m == Cardinality(0..x)
    <3>1. m = IF 0 > x THEN 0 ELSE x - 0 + 1
      BY <2>0, Zenon
    <3> HIDE DEF m
    <3>2. m <= x + 1
      BY <3>1, <1>1
    <3> QED
      BY <3>2, <2>0 DEF m
  <2>2. Bonded(f) \subseteq 0..x
    BY <1>4
  <2>3. Cardinality(Bonded(f)) <= Cardinality(0..x) /\ IsFiniteSet(Bonded(f))
    BY <2>1, <2>2, FS_Subset
  <2>4. Cardinality(Bonded(f)) \in Nat /\ Cardinality(0..x) \in Nat
    BY <2>1, <2>3, FS_CardinalityType
  <2> QED
    BY <2>1, <2>3, <2>4, <1>1, <1>2, SlotFacts
<1>6. \A i, j \in SlotIdx : i < j /\ f[j].mark # "blank" => f[i].mark # "blank"
  <2> SUFFICES ASSUME NEW i \in SlotIdx, NEW j \in SlotIdx, i < j, f[j].mark # "blank"
               PROVE  f[i].mark # "blank"
    BY Zenon
  <2>1. j < x + 1
    BY <1>3, Zenon
  <2>2. i < x + 1
    BY <2>1, SlotFacts
  <2> QED
    BY <2>2, <1>3, Zenon
<1>7. \A i \in Bonded(f) : f[i].adr \in kp \cup NoPeerAddr
  BY <1>1, <1>4, EntryOf
<1>8. \A i, j \in Bonded(f) : i # j /\ f[i].adr = f[j].adr => f[i].adr \notin Addr
  <2> SUFFICES ASSUME NEW i \in Bonded(f), NEW j \in Bonded(f), i # j, f[i].adr = f[j].adr
               PROVE  f[i].adr \notin Addr
    OBVIOUS
  <2>1. i + 1 \in 1..Len(t) /\ j + 1 \in 1..Len(t) /\ t[i + 1].adr = t[j + 1].adr
        /\ f[i].adr = t[i + 1].adr
    BY <1>4
  <2>2. i + 1 # j + 1
    BY <1>4
  <2> QED
    BY <2>1, <2>2, <1>1, Zenon DEF Distinct
<1> QED
  BY <1>2, <1>3, <1>5, <1>6, <1>7, <1>8, Zenon DEF OffOK
-----------------------------------------------------------------------------
(* A set of natural numbers that is not empty has a least element.         *)
LEMMA NatSetHasMin ==
  ASSUME NEW T \in SUBSET Nat, T # {}
  PROVE  \E z \in T : \A y \in T : z <= y
<1>1. PICK z \in T : \A y \in T : ~ (<<y, z>> \in OpToRel(<, Nat))
  BY NatLessThanWellFounded, WFMin
<1>2. \A y \in T : z <= y
  <2> SUFFICES ASSUME NEW y \in T, y < z PROVE FALSE
    OBVIOUS
  <2>1. y \in Nat /\ z \in Nat
    OBVIOUS
  <2>2. <<y, z>> \in OpToRel(<, Nat)
    BY <2>1 DEF OpToRel
  <2> QED
    BY <2>2, <1>1
<1> QED
  BY <1>2

(* The scan of flash_init ends behind the last used record.                *)
LEMMA EndFacts ==
  ASSUME NEW f \in [SlotIdx -> Slot],
         \A i, j \in SlotIdx : i < j /\ f[j].mark # "blank" => f[i].mark # "blank"
  PROVE  /\ End(f) \in 0..SlotNum
         /\ \A i \in SlotIdx : i < End(f) <=> f[i].mark # "blank"
<1> DEFINE P(e) == /\ e < SlotNum => f[e].mark = "blank"
                   /\ \A i \in SlotIdx : i < e => f[i].mark # "blank"
           T == {i \in SlotIdx : f[i].mark = "blank"}
<1>1. \E e \in 0..SlotNum : P(e)
  <2>1. CASE T = {}
    <3>1. SlotNum \in 0..SlotNum /\ ~(SlotNum < SlotNum)
      BY SlotFacts
    <3> QED
      BY <3>1, <2>1
  <2>2. CASE T # {}
    <3>1. T \in SUBSET Nat
      BY SlotFacts
    <3>2. PICK z \in T : \A y \in T : z <= y
      <4> HIDE DEF T
      <4> QED
        BY <3>1, <2>2, NatSetHasMin
    <3>3. z \in 0..SlotNum /\ f[z].mark = "blank" /\ z \in Nat
      BY <3>1, SlotFacts DEF SlotIdx
    <3>4. ASSUME NEW i \in SlotIdx, i < z PROVE f[i].mark # "blank"
      <4>1. ~(z <= i)
        BY <3>3, <3>4, SlotFacts
      <4> QED
        BY <4>1, <3>2
    <3> QED
      BY <3>3, <3>4
  <2> QED
    BY <2>1, <2>2
<1>2. End(f) \in 0..SlotNum /\ P(End(f))
  <2>1. End(f) = CHOOSE e \in 0..SlotNum : P(e)
    BY DEF End
  <2> HIDE DEF P
  <2> QED
    BY <2>1, <1>1, Zenon
<1>3. ASSUME NEW i \in SlotIdx, f[i].mark # "blank" PROVE i < End(f)
  <2>1. End(f) \in Nat /\ i \in Nat /\ i < SlotNum /\ SlotNum \in Nat
    BY <1>2, SlotFacts DEF SlotIdx
  <2> SUFFICES ASSUME ~(i < End(f)) PROVE FALSE
    OBVIOUS
  <2>2. End(f) < SlotNum /\ End(f) \in SlotIdx /\ (End(f) = i \/ End(f) < i)
    BY <2>1 DEF SlotIdx
  <2>3. f[End(f)].mark = "blank"
    BY <2>2, <1>2
  <2>4. f[End(f)].mark # "blank"
    BY <2>2, <1>3, Zenon
  <2> QED
    BY <2>3, <2>4
<1> QED
  BY <1>2, <1>3

(* A function on 1..n is a sequence.                                       *)
LEMMA SeqOfFun ==
  ASSUME NEW S, NEW n \in Nat, NEW t \in [1..n -> S] PROVE t \in Seq(S) /\ Len(t) = n
  OBVIOUS

(* flash_init reads the table back from the sector.                        *)
LEMMA Booted ==
  ASSUME NEW f \in [SlotIdx -> Slot], NEW kp, NEW c, OffOK(f, kp, c),
         NEW B, B = {i \in Bonded(f) : i < End(f)}, NEW ids \in InOrder(B),
         NEW t, t = [k \in 1..Cardinality(B) |-> [idx |-> ids[k], adr |-> f[ids[k]].adr]]
  PROVE  /\ t \in Seq(Entry) /\ Len(t) = Cardinality(B)
         /\ RunOK(t, f, End(f) - 1, kp, c)
<1> DEFINE n == Cardinality(B)
           e == End(f)
<1>1. /\ \A i, j \in SlotIdx : i < j /\ f[j].mark # "blank" => f[i].mark # "blank"
      /\ \A i \in Bonded(f) : f[i].adr \in kp \cup NoPeerAddr
      /\ \A i, j \in Bonded(f) : i # j /\ f[i].adr = f[j].adr => f[i].adr \notin Addr
      /\ ~c => /\ \A a \in kp : \E i \in Bonded(f) : f[i].adr = a
               /\ \A i \in SlotIdx : f[i].mark = "blank" => f[i] = BlankSlot
  BY Zenon DEF OffOK
<1>2. e \in 0..SlotNum /\ \A i \in SlotIdx : i < e <=> f[i].mark # "blank"
  BY <1>1, EndFacts, Zenon
<1>3. B = Bonded(f)
  BY <1>2 DEF Bonded
<1>4. n \in Nat
  BY <1>3, BondedFinite, FS_CardinalityType
<1> HIDE DEF n, e
<1>5. /\ ids \in [1..n -> B]
      /\ \A j, k \in 1..n : j < k => ids[j] < ids[k]
      /\ {ids[k] : k \in 1..n} = B
  BY DEF InOrder, n
<1>6. \A k \in 1..n : ids[k] \in Bonded(f) /\ ids[k] \in SlotIdx /\ f[ids[k]] \in Slot
  BY <1>3, <1>5, BondedFinite
<1> DEFINE R(k) == [idx |-> ids[k], adr |-> f[ids[k]].adr]
<1>7. t = [k \in 1..n |-> R(k)]
  BY DEF n
<1>8. \A k \in 1..n : R(k) \in Entry /\ R(k).idx = ids[k] /\ R(k).adr = f[ids[k]].adr
  BY <1>6 DEF Entry, Slot
<1> HIDE DEF R
<1>9. t \in Seq(Entry) /\ Len(t) = n /\ \A k \in 1..n : t[k] = R(k)
  <2>1. t \in [1..n -> Entry] /\ \A k \in 1..n : t[k] = R(k)
    BY <1>7, <1>8, Zenon
  <2> QED
    BY <2>1, <1>4, SeqOfFun, Zenon
<1>10. \A k \in 1..n : t[k].idx = ids[k] /\ t[k].adr = f[ids[k]].adr
  BY <1>8, <1>9, Zenon
<1>11. Idxs(t) = Bonded(f)
  <2>1. Idxs(t) = {t[k].idx : k \in 1..n}
    BY <1>9, Zenon DEF Idxs
  <2>2. {t[k].idx : k \in 1..n} = {ids[k] : k \in 1..n}
    <3>1. \A k \in 1..n : t[k].idx = ids[k]
      BY <1>10, Zenon
    <3> QED
      BY <3>1
  <2> QED
    BY <2>1, <2>2, <1>3, <1>5, Zenon
<1>12. Ordered(t)
  BY <1>5, <1>9, <1>10, ZenonT(40) DEF Ordered
<1>13. Distinct(t)
  <2> SUFFICES ASSUME NEW j \in 1..n, NEW k \in 1..n, j # k, t[j].adr = t[k].adr
               PROVE  t[j].adr \notin Addr
    BY <1>9, Zenon DEF Distinct
  <2>1. ids[j] # ids[k]
    <3>1. j < k \/ k < j
      BY <1>4
    <3>2. ids[j] < ids[k] \/ ids[k] < ids[j]
      BY <3>1, <1>5, Zenon
    <3>3. ids[j] \in Nat /\ ids[k] \in Nat
      BY <1>6, SlotFacts, Zenon
    <3> QED
      BY <3>2, <3>3
  <2>2. f[ids[j]].adr = f[ids[k]].adr /\ t[j].adr = f[ids[j]].adr
    BY <1>10, Zenon
  <2>3. f[ids[j]].adr \notin Addr
    BY <2>1, <2>2, <1>1, <1>6, Zenon
  <2> QED
    BY <2>2, <2>3, Zenon
<1>14. Match(t, f, c)
  BY <1>9, <1>10, ZenonT(40) DEF Match
<1>15. \A i \in SlotIdx : (i <= e - 1 <=> i < e) /\ (i > e - 1 => ~(i < e))
  BY <1>2, SlotFacts
<1>16. \A i \in SlotIdx : i <= e - 1 <=> f[i].mark # "blank"
  BY <1>2, <1>15, Zenon
<1>17. Devices(t) \subseteq kp \cup NoPeerAddr
  <2>1. \A k \in 1..n : t[k].adr \in kp \cup NoPeerAddr
    BY <1>1, <1>6, <1>10, Zenon
  <2> QED
    BY <2>1, <1>9, Zenon DEF Devices
<1>18. ~c => kp \subseteq Devices(t) /\ \A i \in SlotIdx : i > e - 1 => f[i] = BlankSlot
  <2> SUFFICES ASSUME ~c
               PROVE  kp \subseteq Devices(t) /\ \A i \in SlotIdx : i > e - 1 => f[i] = BlankSlot
    OBVIOUS
  <2>1. ASSUME NEW a \in kp PROVE a \in Devices(t)
    <3>1. PICK i \in Bonded(f) : f[i].adr = a
      BY <1>1, Zenon
    <3>2. PICK k \in 1..n : ids[k] = i
      BY <1>3, <1>5
    <3> QED
      BY <3>1, <3>2, <1>9, <1>10 DEF Devices
  <2>2. \A i \in SlotIdx : i > e - 1 => f[i] = BlankSlot
    BY <1>1, <1>2, <1>15, Zenon
  <2> QED
    BY <2>1, <2>2
<1>19. RunOK(t, f, e - 1, kp, c)
  BY <1>11, <1>12, <1>13, <1>14, <1>16, <1>17, <1>18, Zenon DEF RunOK
<1> QED
  BY <1>9, <1>19 DEF n, e

(* user_bond_slave_flash_clean erases the sector.                          *)
LEMMA Erased ==
  ASSUME NEW t \in Seq(Entry), NEW f \in [SlotIdx -> Slot], NEW x, NEW kp, NEW c,
         RunOK(t, f, x, kp, c), NEW g, g = [i \in SlotIdx |-> BlankSlot]
  PROVE  /\ g \in [SlotIdx -> Slot]
         /\ t = <<>> => RunOK(t, g, -1, kp, c)
         /\ t # <<>> => RewriteOK(t, g, -1, kp, c)
<1>1. Distinct(t) /\ Devices(t) \subseteq kp \cup NoPeerAddr /\ (~c => kp \subseteq Devices(t))
  BY Zenon DEF RunOK
<1>2. g \in [SlotIdx -> Slot] /\ \A i \in SlotIdx : g[i] = BlankSlot /\ g[i].mark = "blank"
  BY BlankFacts
<1>3. \A i \in SlotIdx : ~(i <= -1) /\ i > -1
  BY SlotFacts
<1>4. ASSUME t = <<>> PROVE RunOK(t, g, -1, kp, c)
  <2>1. Len(t) = 0
    BY <1>4
  <2>2. \A k \in 1..Len(t) : FALSE
    BY <2>1
  <2>3. Idxs(t) = {}
    BY <2>2 DEF Idxs
  <2>4. Bonded(g) = {}
    BY <1>2 DEF Bonded
  <2>5. Ordered(t) /\ Match(t, g, c)
    BY <2>2, Zenon DEF Ordered, Match
  <2> QED
    BY <2>3, <2>4, <2>5, <1>1, <1>2, <1>3, Zenon DEF RunOK
<1>5. ASSUME t # <<>> PROVE RewriteOK(t, g, -1, kp, c)
  <2>1. -1 + 1 < Len(t) /\ -1 >= -1
    BY <1>5
  <2>2. \A k \in 1..-1 + 1 : t[k].idx = k - 1
    OBVIOUS
  <2> QED
    BY <2>1, <2>2, <1>1, <1>2, <1>3, Zenon DEF RewriteOK
<1> QED
  BY <1>2, <1>4, <1>5

(* The table and the sector after the next record was written.             *)
NextTbl(t, q)      == [t EXCEPT ![q + 1] = [t[q + 1] EXCEPT !.idx = q]]
NextFlash(f, t, q) == [f EXCEPT ![q] = Program(f[q], t[q + 1].adr)]

(* It writes the next record.                                              *)
LEMMA Rewritten ==
  ASSUME NEW t \in Seq(Entry), NEW f \in [SlotIdx -> Slot], NEW x \in Int, NEW kp, NEW c,
         RewriteOK(t, f, x, kp, c), Len(t) <= MaxNum,
         NEW q, q = x + 1
  PROVE  /\ NextFlash(f, t, q) \in [SlotIdx -> Slot] /\ NextTbl(t, q) \in Seq(Entry)
         /\ Len(NextTbl(t, q)) = Len(t) /\ q \in SlotIdx
         /\ q + 1 = Len(t) => RunOK(NextTbl(t, q), NextFlash(f, t, q), q, kp, c)
         /\ q + 1 # Len(t) => RewriteOK(NextTbl(t, q), NextFlash(f, t, q), q, kp, c)
<1> DEFINE g == NextFlash(f, t, q)
           s == NextTbl(t, q)
           n == Len(t)
           a == t[q + 1].adr
           v == Program(f[q], a)
           e == [t[q + 1] EXCEPT !.idx = q]
<1>1. /\ x + 1 < n /\ x >= -1 /\ Distinct(t)
      /\ \A k \in 1..x + 1 : t[k].idx = k - 1
      /\ \A i \in SlotIdx : i <= x => f[i].mark = "bond" /\ f[i].adr = t[i + 1].adr
      /\ \A i \in SlotIdx : i > x => f[i] = BlankSlot
      /\ Devices(t) \subseteq kp \cup NoPeerAddr /\ (~c => kp \subseteq Devices(t))
  BY Zenon DEF RewriteOK
<1>2. n \in Nat /\ q \in SlotIdx /\ q \in Nat /\ q + 1 \in 1..n /\ q > x
  BY <1>1, SlotFacts DEF SlotIdx
<1>3. a \in Addr \cup NoPeerAddr /\ t[q + 1] \in Entry
  BY <1>2, EntryOf
<1>4. e \in Entry /\ e.idx = q /\ e.adr = a
  BY <1>2, <1>3 DEF Entry
<1>5. v \in Slot /\ v.mark = "bond" /\ v.adr = a
  <2>1. f[q] = BlankSlot /\ f[q] \in Slot
    BY <1>1, <1>2
  <2> QED
    BY <2>1, <1>3, ProgramFacts, BlankFacts, Zenon
<1> HIDE DEF v, e
<1>6. g \in [SlotIdx -> Slot] /\ g[q] = v /\ \A i \in SlotIdx : i # q => g[i] = f[i]
  <2>1. g = [f EXCEPT ![q] = v]
    BY DEF v, NextFlash
  <2> QED
    BY <2>1, <1>2, <1>5
<1>7. /\ s \in Seq(Entry) /\ Len(s) = n /\ s[q + 1] = e
      /\ \A k \in 1..n : k # q + 1 => s[k] = t[k]
  <2>1. s = [t EXCEPT ![q + 1] = e]
    BY DEF e, NextTbl
  <2>2. t \in [1..n -> Entry]
    BY LenProperties, Zenon DEF n
  <2>3. /\ s \in [1..n -> Entry] /\ s[q + 1] = e
        /\ \A k \in 1..n : k # q + 1 => s[k] = t[k]
    BY <2>1, <2>2, <1>2, <1>4, Zenon
  <2> HIDE DEF n
  <2>4. s \in Seq(Entry) /\ Len(s) = n
    BY <2>3, <1>2, SeqOfFun
  <2> QED
    BY <2>3, <2>4
<1>8. \A k \in 1..n : s[k].adr = t[k].adr
  BY <1>4, <1>7, Zenon DEF a
<1>9. Devices(s) = Devices(t)
  <2>1. Devices(s) = {s[k].adr : k \in 1..n} /\ Devices(t) = {t[k].adr : k \in 1..n}
    BY <1>7, Zenon DEF Devices, n
  <2>2. {s[k].adr : k \in 1..n} = {t[k].adr : k \in 1..n}
    <3> HIDE DEF n
    <3> QED
      BY <1>8
  <2> QED
    BY <2>1, <2>2, Zenon
<1>10. Distinct(s)
  <2> SUFFICES ASSUME NEW j \in 1..n, NEW k \in 1..n, j # k, s[j].adr = s[k].adr
               PROVE  s[j].adr \notin Addr
    BY <1>7, Zenon DEF Distinct
  <2>1. t[j].adr = t[k].adr /\ s[j].adr = t[j].adr
    BY <1>8, Zenon
  <2>2. t[j].adr \notin Addr
    BY <2>1, <1>1, Zenon DEF Distinct, n
  <2> QED
    BY <2>1, <2>2, Zenon
<1> HIDE DEF n, a
<1>11. \A k \in 1..q + 1 : s[k].idx = k - 1
  <2> TAKE k \in 1..q + 1
  <2>1. CASE k = q + 1
    <3>1. k - 1 = q
      BY <2>1, <1>2
    <3> QED
      BY <2>1, <3>1, <1>4, <1>7, Zenon
  <2>2. CASE k # q + 1
    <3>1. k \in 1..x + 1 /\ k \in 1..n
      BY <2>2, <1>1, <1>2
    <3> QED
      BY <3>1, <2>2, <1>1, <1>7, Zenon
  <2> QED
    BY <2>1, <2>2
<1>12. \A i \in SlotIdx : i <= q => g[i].mark = "bond" /\ g[i].adr = s[i + 1].adr
  <2> SUFFICES ASSUME NEW i \in SlotIdx, i <= q
               PROVE  g[i].mark = "bond" /\ g[i].adr = s[i + 1].adr
    OBVIOUS
  <2>1. CASE i = q
    BY <2>1, <1>4, <1>5, <1>6, <1>7, Zenon
  <2>2. CASE i # q
    <3>1. i <= x /\ i + 1 \in 1..n /\ i \in Nat
      BY <2>2, <1>1, <1>2, SlotFacts
    <3> QED
      BY <3>1, <2>2, <1>1, <1>6, <1>8, Zenon
  <2> QED
    BY <2>1, <2>2
<1>13. \A i \in SlotIdx : i > q => g[i] = BlankSlot
  <2>1. \A i \in SlotIdx : i > q => i > x /\ i # q
    BY <1>2, SlotFacts
  <2> QED
    BY <2>1, <1>1, <1>6, Zenon
<1>14. ASSUME q + 1 # n PROVE RewriteOK(s, g, q, kp, c)
  <2>1. q + 1 < Len(s) /\ q >= -1
    BY <1>14, <1>2, <1>7
  <2> QED
    BY <2>1, <1>1, <1>9, <1>10, <1>11, <1>12, <1>13, Zenon DEF RewriteOK
<1>15. ASSUME q + 1 = n PROVE RunOK(s, g, q, kp, c)
  <2>1. Ordered(s)
    <3> SUFFICES ASSUME NEW j \in 1..n, NEW k \in 1..n, j < k PROVE s[j].idx < s[k].idx
      BY <1>7, Zenon DEF Ordered
    <3>1. s[j].idx = j - 1 /\ s[k].idx = k - 1
      BY <1>11, <1>15, Zenon
    <3> QED
      BY <3>1, <1>2
  <2>2. \A i \in SlotIdx : i <= q \/ i > q
    BY <1>2, SlotFacts
  <2>3. \A i \in SlotIdx : i <= q <=> g[i].mark # "blank"
    <3>1. "bond" # "blank"
      OBVIOUS
    <3> QED
      BY <3>1, <2>2, <1>12, <1>13, BlankFacts, Zenon
  <2>4. \A i \in SlotIdx : i <= q <=> g[i].mark = "bond"
    <3>1. "bond" # "blank"
      OBVIOUS
    <3> QED
      BY <3>1, <2>2, <1>12, <1>13, BlankFacts, Zenon
  <2>5. \A k \in 1..n : k - 1 \in SlotIdx /\ k - 1 <= q
    BY <1>2, <1>15, SlotFacts DEF SlotIdx
  <2>6. Idxs(s) = Bonded(g)
    <3>1. ASSUME NEW k \in 1..n PROVE s[k].idx \in Bonded(g)
      <4>1. s[k].idx = k - 1 /\ k - 1 \in SlotIdx /\ k - 1 <= q
        BY <2>5, <1>11, <1>15, Zenon
      <4> QED
        BY <4>1, <2>4 DEF Bonded
    <3>2. ASSUME NEW i \in Bonded(g) PROVE i \in Idxs(s)
      <4>1. i \in SlotIdx /\ i <= q
        BY <2>4 DEF Bonded
      <4>2. i + 1 \in 1..n /\ (i + 1) - 1 = i
        BY <4>1, <1>2, <1>15, SlotFacts
      <4>3. s[i + 1].idx = (i + 1) - 1
        BY <4>2, <1>11, <1>15, Zenon
      <4> QED
        BY <4>2, <4>3, <1>7 DEF Idxs
    <3>3. Idxs(s) \subseteq Bonded(g)
      BY <3>1, <1>7 DEF Idxs
    <3> QED
      BY <3>2, <3>3
  <2>7. Match(s, g, c)
    <3> SUFFICES ASSUME NEW k \in 1..n PROVE g[s[k].idx].adr = s[k].adr
      BY <1>7, Zenon DEF Match
    <3>1. s[k].idx = k - 1 /\ k - 1 \in SlotIdx /\ k - 1 <= q
      BY <2>5, <1>11, <1>15, Zenon
    <3>2. (k - 1) + 1 = k
      OBVIOUS
    <3> QED
      BY <3>1, <3>2, <1>12
  <2> QED
    BY <2>1, <2>3, <2>6, <2>7, <1>1, <1>9, <1>10, <1>13, Zenon DEF RunOK
<1> QED
  BY <1>2, <1>6, <1>7, <1>14, <1>15 DEF n
-----------------------------------------------------------------------------
(* The device runs: the states in which RunOK holds.                       *)
Running == {"run", "erase", "store", "delall"}

(* The parts of the type invariant.                                        *)
LEMMA TypeFacts ==
  ASSUME TypeOK
  PROVE  /\ flash \in [SlotIdx -> Slot] /\ tbl \in Seq(Entry) /\ Len(tbl) <= MaxNum
         /\ Len(tbl) \in Nat /\ cfgIdx \in Int /\ cfgIdx >= -1 /\ cfgIdx <= SlotNum
         /\ kept \subseteq Addr /\ cut \in BOOLEAN /\ new \in Addr \cup {NoAddr}
  BY SlotFacts DEF TypeOK

(* A step that ends in a running state.                                    *)
LEMMA ToRun ==
  ASSUME flash' \in [SlotIdx -> Slot], tbl' \in Seq(Entry), Len(tbl') <= MaxNum,
         cfgIdx' \in -1..SlotNum, pc' \in Running, new' \in Addr \cup {NoAddr},
         kept' \subseteq Addr, cut' \in BOOLEAN,
         RunOK(tbl', flash', cfgIdx', kept', cut'),
         pc' = "store" => new' \in Addr /\ Len(tbl') < MaxNum /\ new' \notin Devices(tbl')
  PROVE  Inv'
<1>1. pc' \in {"off", "run", "erase", "rewrite", "store", "delall", "hang"}
      /\ pc' # "hang" /\ pc' # "off" /\ pc' # "rewrite"
  BY DEF Running
<1>2. TypeOK'
  BY <1>1, Zenon DEF TypeOK
<1>3. RunOK(tbl, flash, cfgIdx, kept, cut)'
  BY Zenon DEF RunOK, Match, Ordered, Distinct, Idxs, Bonded, Devices
<1>4. pc' = "store" => (new \in Addr /\ Len(tbl) < MaxNum /\ new \notin Devices(tbl))'
  BY Zenon DEF Devices
<1> QED
  BY <1>1, <1>2, <1>3, <1>4, Zenon DEF Inv

(* The first start, with an erased sector.                                 *)
LEMMA InvInit == ASSUME Init PROVE Inv
<1>1. /\ flash = [i \in SlotIdx |-> BlankSlot] /\ tbl = <<>> /\ cfgIdx = -1 /\ pc = "off"
      /\ new = NoAddr /\ kept = {} /\ cut = FALSE
  BY DEF Init
<1>2. flash \in [SlotIdx -> Slot] /\ \A i \in SlotIdx : flash[i] = BlankSlot /\ flash[i].mark = "blank"
  BY <1>1, BlankFacts
<1>3. Bonded(flash) = {}
  BY <1>2 DEF Bonded
<1>4. Cardinality(Bonded(flash)) <= MaxNum
  BY <1>3, FS_EmptySet, SlotFacts
<1>5. OffOK(flash, kept, cut)
  BY <1>1, <1>2, <1>3, <1>4 DEF OffOK
<1>6. TypeOK
  <2>1. <<>> \in Seq(Entry) /\ Len(<<>>) <= MaxNum /\ -1 \in -1..SlotNum
    BY SlotFacts
  <2> QED
    BY <2>1, <1>1, <1>2 DEF TypeOK
<1> QED
  BY <1>1, <1>5, <1>6 DEF Inv

(* flash_init, which never gets to its while(1).                           *)
LEMMA BootStep == ASSUME Inv, Boot PROVE Inv'
<1> DEFINE e == End(flash)
           B == {i \in Bonded(flash) : i < e}
<1>0. TypeOK /\ pc = "off" /\ OffOK(flash, kept, cut)
  BY DEF Inv, Boot
<1>1. flash \in [SlotIdx -> Slot] /\ kept \subseteq Addr /\ cut \in BOOLEAN
      /\ new \in Addr \cup {NoAddr}
  BY <1>0, TypeFacts
<1>2. e \in 0..SlotNum
  BY <1>0, <1>1, EndFacts, Zenon DEF OffOK
<1>3. Cardinality(B) <= MaxNum /\ ~(Cardinality(B) > MaxNum)
  <2>1. Cardinality(Bonded(flash)) <= MaxNum
    BY <1>0 DEF OffOK
  <2>2. IsFiniteSet(Bonded(flash)) /\ B \in SUBSET Bonded(flash)
    BY BondedFinite
  <2>3. IsFiniteSet(B) /\ Cardinality(B) <= Cardinality(Bonded(flash))
    BY <2>2, FS_Subset
  <2>4. Cardinality(B) \in Nat /\ Cardinality(Bonded(flash)) \in Nat
    BY <2>2, <2>3, FS_CardinalityType
  <2> HIDE DEF B
  <2> QED
    BY <2>1, <2>3, <2>4, SlotFacts
<1>4. /\ \E ids \in InOrder(B) :
           tbl' = [k \in 1..Cardinality(B) |-> [idx |-> ids[k], adr |-> flash[ids[k]].adr]]
      /\ cfgIdx' = e - 1
      /\ pc' = (IF e - 1 < SlotNum \div 2 THEN "run" ELSE "erase")
      /\ flash' = flash /\ new' = new /\ kept' = kept /\ cut' = cut
  BY <1>3, Zenon DEF Boot
<1>5. PICK ids \in InOrder(B) :
           tbl' = [k \in 1..Cardinality(B) |-> [idx |-> ids[k], adr |-> flash[ids[k]].adr]]
  BY <1>4, Zenon
<1>6. /\ tbl' \in Seq(Entry) /\ Len(tbl') = Cardinality(B)
      /\ RunOK(tbl', flash, e - 1, kept, cut)
  BY <1>0, <1>1, <1>5, Booted
<1> HIDE DEF B, e
<1>7. cfgIdx' \in -1..SlotNum
  BY <1>2, <1>4, SlotFacts
<1>8. pc' \in Running /\ pc' # "store"
  BY <1>4 DEF Running
<1>9. Len(tbl') <= MaxNum
  BY <1>3, <1>6, Zenon
<1>10. RunOK(tbl', flash', cfgIdx', kept', cut')
  BY <1>4, <1>6, Zenon
<1> QED
  BY <1>1, <1>4, <1>6, <1>7, <1>8, <1>9, <1>10, ToRun, Zenon

(* A step that ends in the middle of a rewrite.                            *)
LEMMA ToRewrite ==
  ASSUME flash' \in [SlotIdx -> Slot], tbl' \in Seq(Entry), Len(tbl') <= MaxNum,
         cfgIdx' \in -1..SlotNum, pc' = "rewrite", new' \in Addr \cup {NoAddr},
         kept' \subseteq Addr, cut' \in BOOLEAN,
         RewriteOK(tbl', flash', cfgIdx', kept', cut')
  PROVE  Inv'
<1>1. "rewrite" \in {"off", "run", "erase", "rewrite", "store", "delall", "hang"}
      /\ "rewrite" # "hang" /\ "rewrite" # "off" /\ "rewrite" # "store"
      /\ "rewrite" \notin {"run", "erase", "store", "delall"}
  OBVIOUS
<1>2. TypeOK'
  BY <1>1, Zenon DEF TypeOK
<1>3. RewriteOK(tbl, flash, cfgIdx, kept, cut)'
  BY Zenon DEF RewriteOK, Distinct, Devices
<1> QED
  BY <1>1, <1>2, <1>3, Zenon DEF Inv

(* user_bond_slave_flash_clean erases the sector.                          *)
LEMMA EraseStep == ASSUME Inv, Erase PROVE Inv'
<1>1. /\ pc = "erase" /\ flash' = [i \in SlotIdx |-> BlankSlot] /\ cfgIdx' = -1
      /\ pc' = (IF tbl = <<>> THEN "run" ELSE "rewrite")
      /\ tbl' = tbl /\ new' = new /\ kept' = kept /\ cut' = cut
  BY DEF Erase
<1>2. TypeOK /\ RunOK(tbl, flash, cfgIdx, kept, cut)
  BY <1>1 DEF Inv
<1>3. /\ flash \in [SlotIdx -> Slot] /\ tbl \in Seq(Entry) /\ Len(tbl) <= MaxNum
      /\ kept \subseteq Addr /\ cut \in BOOLEAN /\ new \in Addr \cup {NoAddr}
  BY <1>2, TypeFacts
<1>4. /\ flash' \in [SlotIdx -> Slot]
      /\ tbl = <<>> => RunOK(tbl, flash', -1, kept, cut)
      /\ tbl # <<>> => RewriteOK(tbl, flash', -1, kept, cut)
  BY <1>1, <1>2, <1>3, Erased, Zenon
<1>5. -1 \in -1..SlotNum /\ "run" \in Running /\ "run" # "store"
  BY SlotFacts DEF Running
<1>6. CASE tbl = <<>>
  BY <1>6, <1>1, <1>3, <1>4, <1>5, ToRun, Zenon
<1>7. CASE tbl # <<>>
  BY <1>7, <1>1, <1>3, <1>4, <1>5, ToRewrite, Zenon
<1> QED
  BY <1>6, <1>7

(* user_bond_slave_flash_clean writes the next record.                     *)
LEMMA RewriteStep == ASSUME Inv, Rewrite PROVE Inv'
<1> DEFINE q == cfgIdx + 1
<1>1. /\ pc = "rewrite"
      /\ flash' = [flash EXCEPT ![q] = Program(flash[q], tbl[q + 1].adr)]
      /\ tbl' = [tbl EXCEPT ![q + 1] = [tbl[q + 1] EXCEPT !.idx = q]]
      /\ cfgIdx' = q
      /\ pc' = (IF q + 1 = Len(tbl) THEN "run" ELSE "rewrite")
      /\ new' = new /\ kept' = kept /\ cut' = cut
  BY DEF Rewrite
<1>2. TypeOK /\ RewriteOK(tbl, flash, cfgIdx, kept, cut)
  BY <1>1 DEF Inv
<1>3. /\ flash \in [SlotIdx -> Slot] /\ tbl \in Seq(Entry) /\ Len(tbl) <= MaxNum
      /\ cfgIdx \in Int /\ kept \subseteq Addr /\ cut \in BOOLEAN /\ new \in Addr \cup {NoAddr}
  BY <1>2, TypeFacts
<1> HIDE DEF q
<1>4. /\ flash' \in [SlotIdx -> Slot] /\ tbl' \in Seq(Entry) /\ Len(tbl') = Len(tbl)
      /\ q \in SlotIdx
      /\ q + 1 = Len(tbl) => RunOK(tbl', flash', q, kept, cut)
      /\ q + 1 # Len(tbl) => RewriteOK(tbl', flash', q, kept, cut)
  <2>1. q = cfgIdx + 1
    BY DEF q
  <2>2. flash' = NextFlash(flash, tbl, q) /\ tbl' = NextTbl(tbl, q)
    BY <1>1, Zenon DEF NextFlash, NextTbl
  <2>3. /\ NextFlash(flash, tbl, q) \in [SlotIdx -> Slot] /\ NextTbl(tbl, q) \in Seq(Entry)
        /\ Len(NextTbl(tbl, q)) = Len(tbl) /\ q \in SlotIdx
        /\ q + 1 = Len(tbl) => RunOK(NextTbl(tbl, q), NextFlash(flash, tbl, q), q, kept, cut)
        /\ q + 1 # Len(tbl) => RewriteOK(NextTbl(tbl, q), NextFlash(flash, tbl, q), q, kept, cut)
    BY <2>1, <1>2, <1>3, Rewritten, Zenon
  <2> QED
    BY <2>2, <2>3, Zenon
<1>5. q \in -1..SlotNum /\ "run" \in Running /\ "run" # "store"
  BY <1>4, SlotFacts DEF SlotIdx, Running
<1>6. CASE q + 1 = Len(tbl)
  BY <1>6, <1>1, <1>3, <1>4, <1>5, ToRun, Zenon
<1>7. CASE q + 1 # Len(tbl)
  BY <1>7, <1>1, <1>3, <1>4, <1>5, ToRewrite, Zenon
<1> QED
  BY <1>6, <1>7

(* A new device is written, or the sector is used up.                      *)
LEMMA StoreStep ==
  ASSUME TypeOK, RunOK(tbl, flash, cfgIdx, kept, cut), NEW a \in Addr, a \notin Devices(tbl),
         Len(tbl) < MaxNum, Store(a), pc' = "run", new' \in Addr \cup {NoAddr}, cut' = cut
  PROVE  Inv'
<1> DEFINE q == cfgIdx + 1
<1>1. /\ flash \in [SlotIdx -> Slot] /\ tbl \in Seq(Entry) /\ Len(tbl) <= MaxNum
      /\ Len(tbl) \in Nat /\ cfgIdx \in Int /\ cfgIdx >= -1 /\ cfgIdx <= SlotNum
      /\ kept \subseteq Addr /\ cut \in BOOLEAN
  BY TypeFacts
<1>2. "run" \in Running /\ "run" # "store"
  BY DEF Running
<1>3. CASE q >= SlotNum
  <2>1. cfgIdx' = SlotNum /\ flash' = flash /\ tbl' = tbl /\ kept' = kept
    BY <1>3 DEF Store
  <2>2. \A i \in SlotIdx : (i <= SlotNum <=> i <= cfgIdx) /\ (i > SlotNum => i > cfgIdx)
    BY <1>1, <1>3, SlotFacts DEF SlotIdx
  <2>3. RunOK(tbl, flash, SlotNum, kept, cut)
    BY <2>2, Zenon DEF RunOK
  <2>4. SlotNum \in -1..SlotNum
    BY SlotFacts
  <2> QED
    BY <2>1, <2>3, <2>4, <1>1, <1>2, ToRun, Zenon
<1>4. CASE ~(q >= SlotNum)
  <2>1. /\ cfgIdx' = q /\ flash' = [flash EXCEPT ![q] = Program(flash[q], a)]
        /\ tbl' = Append(tbl, [idx |-> q, adr |-> a]) /\ kept' = kept \cup {a}
    BY <1>4 DEF Store
  <2>2. cfgIdx + 1 < SlotNum /\ q \in -1..SlotNum
    BY <1>1, <1>4, SlotFacts
  <2>3. /\ tbl' \in Seq(Entry) /\ Len(tbl') = Len(tbl) + 1
        /\ flash' \in [SlotIdx -> Slot]
        /\ RunOK(tbl', flash', q, kept \cup {a}, cut)
    <3>1. tbl' = Append(tbl, NewEntry(cfgIdx, a)) /\ flash' = NewFlash(flash, cfgIdx, a)
      BY <2>1, Zenon DEF NewEntry, NewFlash
    <3>2. /\ Append(tbl, NewEntry(cfgIdx, a)) \in Seq(Entry)
          /\ Len(Append(tbl, NewEntry(cfgIdx, a))) = Len(tbl) + 1
          /\ NewFlash(flash, cfgIdx, a) \in [SlotIdx -> Slot]
          /\ RunOK(Append(tbl, NewEntry(cfgIdx, a)), NewFlash(flash, cfgIdx, a),
                   cfgIdx + 1, kept \cup {a}, cut)
      BY <2>2, <1>1, Stored, Zenon
    <3> QED
      BY <3>1, <3>2, Zenon
  <2>4. Len(tbl') <= MaxNum
    BY <2>3, <1>1, SlotFacts
  <2>5. kept \cup {a} \subseteq Addr
    BY <1>1
  <2> HIDE DEF q
  <2>6. RunOK(tbl', flash', cfgIdx', kept', cut')
    BY <2>1, <2>3, Zenon
  <2>7. cfgIdx' \in -1..SlotNum /\ kept' \subseteq Addr /\ cut' \in BOOLEAN
    BY <2>1, <2>2, <2>5, <1>1, Zenon
  <2> QED
    BY <2>3, <2>4, <2>6, <2>7, <1>2, ToRun, Zenon
<1> QED
  BY <1>3, <1>4

(* A device is added to a table with room, or the oldest one makes room.   *)
LEMMA AddStep == ASSUME Inv, NEW a \in Addr, Add(a) PROVE Inv'
<1>1. pc = "run" /\ ~Search(a) /\ cut' = cut
  BY DEF Add
<1>2. TypeOK /\ RunOK(tbl, flash, cfgIdx, kept, cut)
  BY <1>1 DEF Inv
<1>3. /\ flash \in [SlotIdx -> Slot] /\ tbl \in Seq(Entry) /\ Len(tbl) <= MaxNum
      /\ Len(tbl) \in Nat /\ cfgIdx \in Int /\ cfgIdx >= -1 /\ cfgIdx <= SlotNum
      /\ kept \subseteq Addr /\ cut \in BOOLEAN /\ new \in Addr \cup {NoAddr}
  BY <1>2, TypeFacts
<1>4. a \notin Devices(tbl)
  BY <1>1 DEF Search, Devices
<1>5. CASE Len(tbl) >= MaxNum
  <2>1. /\ flash' = Strike(flash, tbl[1].idx) /\ tbl' = Tail(tbl)
        /\ kept' = kept \ {tbl[1].adr} /\ new' = a /\ pc' = "store" /\ cfgIdx' = cfgIdx
    BY <1>5, Zenon DEF Add
  <2>2. tbl # <<>>
    BY <1>3, <1>5, SlotFacts
  <2>3. IsWithout(tbl', tbl, 1) /\ 1 \in 1..Len(tbl)
    BY <2>1, <2>2, <1>3, TailIs, Zenon
  <2>4. tbl' \in Seq(Entry) /\ Len(tbl') = Len(tbl) - 1
    BY <2>3 DEF IsWithout
  <2>5. Len(tbl') < MaxNum /\ Len(tbl') <= MaxNum /\ cfgIdx' \in -1..SlotNum
    BY <2>1, <2>4, <1>3, SlotFacts
  <2>6. RunOK(tbl', flash', cfgIdx', kept', cut') /\ Devices(tbl') \subseteq Devices(tbl)
    BY <2>1, <2>3, <1>1, <1>2, <1>3, Removed, Zenon
  <2>7. flash' \in [SlotIdx -> Slot]
    BY <2>1, <2>3, <1>3, StrikeFacts, EntryOf, Zenon
  <2>8. kept' \subseteq Addr /\ a \notin Devices(tbl') /\ "store" \in Running
    BY <2>1, <2>6, <1>3, <1>4 DEF Running
  <2> QED
    BY <2>1, <2>4, <2>5, <2>6, <2>7, <2>8, <1>1, <1>3, ToRun, Zenon
<1>6. CASE ~(Len(tbl) >= MaxNum)
  <2>1. Store(a) /\ new' = new /\ pc' = pc
    BY <1>6, Zenon DEF Add
  <2>2. Len(tbl) < MaxNum
    BY <1>6, <1>3, SlotFacts
  <2> QED
    BY <2>1, <2>2, <1>1, <1>2, <1>3, <1>4, StoreStep, Zenon
<1> QED
  BY <1>5, <1>6

(* The new device is written after the oldest one was struck out.          *)
LEMMA StoreNewStep == ASSUME Inv, StoreNew PROVE Inv'
<1>1. pc = "store" /\ Store(new) /\ pc' = "run" /\ new' = NoAddr /\ cut' = cut
  BY DEF StoreNew
<1>2. TypeOK /\ RunOK(tbl, flash, cfgIdx, kept, cut)
      /\ new \in Addr /\ Len(tbl) < MaxNum /\ new \notin Devices(tbl)
  BY <1>1 DEF Inv
<1>3. new' \in Addr \cup {NoAddr}
  BY <1>1
<1> QED
  BY <1>1, <1>2, <1>3, StoreStep, Zenon

(* An entry and its record go, and the device runs on.                     *)
LEMMA RemoveStep ==
  ASSUME Inv, pc \in {"run", "delall"}, NEW k \in 1..Len(tbl), IsWithout(tbl', tbl, k),
         flash' = Strike(flash, tbl[k].idx), kept' = kept \ {tbl[k].adr},
         cfgIdx' = cfgIdx, pc' \in {"run", "delall"}, new' = new, cut' = cut
  PROVE  Inv'
<1>1. TypeOK /\ RunOK(tbl, flash, cfgIdx, kept, cut)
  BY DEF Inv
<1>2. /\ flash \in [SlotIdx -> Slot] /\ tbl \in Seq(Entry) /\ Len(tbl) <= MaxNum
      /\ Len(tbl) \in Nat /\ cfgIdx \in Int /\ cfgIdx >= -1 /\ cfgIdx <= SlotNum
      /\ kept \subseteq Addr /\ cut \in BOOLEAN /\ new \in Addr \cup {NoAddr}
  BY <1>1, TypeFacts
<1>3. tbl' \in Seq(Entry) /\ Len(tbl') = Len(tbl) - 1
  BY DEF IsWithout
<1>4. Len(tbl') <= MaxNum /\ cfgIdx' \in -1..SlotNum
  BY <1>2, <1>3, SlotFacts
<1>5. RunOK(tbl', flash', cfgIdx', kept', cut')
  BY <1>1, <1>2, Removed, Zenon
<1>6. flash' \in [SlotIdx -> Slot]
  BY <1>2, StrikeFacts, EntryOf, Zenon
<1>7. kept' \subseteq Addr /\ pc' \in Running /\ pc' # "store"
  BY <1>2 DEF Running
<1> QED
  BY <1>2, <1>3, <1>4, <1>5, <1>6, <1>7, ToRun, Zenon

(* One device is deleted.                                                  *)
LEMMA DeleteStep == ASSUME Inv, NEW a \in Addr, Delete(a) PROVE Inv'
<1>1. /\ pc = "run" /\ kept' = kept \ {a} /\ cfgIdx' = cfgIdx /\ pc' = pc
      /\ new' = new /\ cut' = cut
  BY DEF Delete
<1>2. PICK k \in 1..Len(tbl) : tbl[k].adr = a /\ flash' = Strike(flash, tbl[k].idx)
                               /\ tbl' = Without(tbl, k)
  BY Zenon DEF Delete
<1>3. tbl \in Seq(Entry)
  BY TypeFacts DEF Inv
<1>4. IsWithout(tbl', tbl, k)
  BY <1>2, <1>3, WithoutIs, Zenon
<1>5. "run" \in {"run", "delall"}
  OBVIOUS
<1> QED
  BY <1>1, <1>2, <1>4, <1>5, RemoveStep, Zenon

(* All devices are deleted, one at a time.                                 *)
LEMMA DeleteAllStep == ASSUME Inv, DeleteAll PROVE Inv'
<1>1. /\ pc \in {"run", "delall"} /\ tbl # <<>> /\ flash' = Strike(flash, tbl[1].idx)
      /\ tbl' = Tail(tbl) /\ kept' = kept \ {tbl[1].adr}
      /\ cfgIdx' = cfgIdx /\ new' = new /\ cut' = cut
  BY DEF DeleteAll
<1>2. pc' \in {"run", "delall"}
  BY DEF DeleteAll
<1>3. tbl \in Seq(Entry)
  BY TypeFacts DEF Inv
<1>4. IsWithout(tbl', tbl, 1) /\ 1 \in 1..Len(tbl)
  BY <1>1, <1>3, TailIs, Zenon
<1> QED
  BY <1>1, <1>2, <1>4, RemoveStep, Zenon

(* A step that ends with the power off.                                    *)
LEMMA ToOff ==
  ASSUME flash' \in [SlotIdx -> Slot], Off, kept' \subseteq Addr, cut' \in BOOLEAN,
         OffOK(flash', kept', cut')
  PROVE  Inv'
<1>1. pc' = "off" /\ tbl' = <<>> /\ cfgIdx' = -1 /\ new' = NoAddr
  BY DEF Off
<1>2. "off" \in {"off", "run", "erase", "rewrite", "store", "delall", "hang"}
      /\ "off" # "hang" /\ "off" # "rewrite" /\ "off" # "store"
      /\ "off" \notin {"run", "erase", "store", "delall"}
  OBVIOUS
<1>3. <<>> \in Seq(Entry) /\ Len(<<>>) <= MaxNum /\ -1 \in -1..SlotNum
      /\ NoAddr \in Addr \cup {NoAddr}
  BY SlotFacts
<1>4. TypeOK'
  BY <1>1, <1>2, <1>3, Zenon DEF TypeOK
<1>5. OffOK(flash, kept, cut)'
  BY Zenon DEF OffOK, Bonded
<1> QED
  BY <1>1, <1>2, <1>4, <1>5, Zenon DEF Inv

(* The power fails between two flash commands.                             *)
LEMMA PowerFailStep == ASSUME Inv, PowerFail PROVE Inv'
<1>1. pc # "off" /\ Off /\ cut' = (cut \/ pc = "rewrite") /\ flash' = flash /\ kept' = kept
  BY DEF PowerFail
<1>2. TypeOK /\ pc # "hang"
  BY DEF Inv
<1>3. /\ flash \in [SlotIdx -> Slot] /\ tbl \in Seq(Entry) /\ Len(tbl) <= MaxNum
      /\ cfgIdx \in Int /\ kept \subseteq Addr /\ cut \in BOOLEAN
  BY <1>2, TypeFacts
<1>4. pc \in Running \/ pc = "rewrite"
  BY <1>1, <1>2 DEF TypeOK, Running
<1>5. CASE pc \in Running
  <2>1. RunOK(tbl, flash, cfgIdx, kept, cut) /\ pc # "rewrite"
    BY <1>5 DEF Inv, Running
  <2>2. OffOK(flash, kept, cut)
    BY <2>1, <1>3, RunToOff, Zenon
  <2>3. cut' = cut
    BY <2>1, <1>1, <1>3
  <2> QED
    BY <2>2, <2>3, <1>1, <1>3, ToOff, Zenon
<1>6. CASE pc = "rewrite"
  <2>1. RewriteOK(tbl, flash, cfgIdx, kept, cut)
    BY <1>6 DEF Inv
  <2>2. OffOK(flash, kept, TRUE)
    BY <2>1, <1>3, RewriteToOff, Zenon
  <2>3. cut' = TRUE
    BY <1>6, <1>1
  <2>4. TRUE \in BOOLEAN
    OBVIOUS
  <2> QED
    BY <2>2, <2>3, <2>4, <1>1, <1>3, ToOff, Zenon
<1> QED
  BY <1>4, <1>5, <1>6

(* The power fails in the middle of a program command.                     *)
LEMMA PowerFailInProgramStep == ASSUME Inv, PowerFailInProgram PROVE Inv'
<1> DEFINE q == cfgIdx + 1
<1>1. /\ pc \in {"store", "rewrite"} \/ (pc = "run" /\ Len(tbl) < MaxNum)
      /\ q < SlotNum /\ Off /\ kept' = kept
  BY DEF PowerFailInProgram
<1>2. PICK s \in Torn :
        /\ flash' = [flash EXCEPT ![q] = s]
        /\ cut' = (cut \/ pc = "rewrite" \/ (s.mark = "blank" /\ s.adr # NoAddr))
  BY DEF PowerFailInProgram
<1>3. TypeOK
  BY DEF Inv
<1>4. /\ flash \in [SlotIdx -> Slot] /\ tbl \in Seq(Entry) /\ Len(tbl) <= MaxNum
      /\ Len(tbl) \in Nat /\ cfgIdx \in Int /\ cfgIdx >= -1 /\ kept \subseteq Addr /\ cut \in BOOLEAN
  BY <1>3, TypeFacts
<1>5. q \in SlotIdx
  BY <1>1, <1>4, SlotFacts DEF SlotIdx
<1>6. CASE pc # "rewrite"
  <2>1. RunOK(tbl, flash, cfgIdx, kept, cut) /\ Len(tbl) < MaxNum
    BY <1>1, <1>6 DEF Inv
  <2>2. OffOK(flash, kept, cut) /\ Cardinality(Bonded(flash)) <= Len(tbl)
    BY <2>1, <1>4, RunToOff, Zenon
  <2>3. Cardinality(Bonded(flash)) < MaxNum
    <3>1. Cardinality(Bonded(flash)) \in Nat
      BY BondedFinite, FS_CardinalityType
    <3> QED
      BY <3>1, <2>1, <2>2, <1>4, SlotFacts
  <2>4. \A i \in SlotIdx : i < q <=> flash[i].mark # "blank"
    <3>1. \A i \in SlotIdx : i <= cfgIdx <=> flash[i].mark # "blank"
      BY <2>1, Zenon DEF RunOK
    <3>2. \A i \in SlotIdx : i < q <=> i <= cfgIdx
      BY <1>4, SlotFacts
    <3> QED
      BY <3>1, <3>2, Zenon
  <2>5. cut' \in BOOLEAN /\ (cut \/ (s.mark = "blank" /\ s.adr # NoAddr) => cut')
    BY <1>2, <1>6
  <2> HIDE DEF q
  <2>6. flash' \in [SlotIdx -> Slot] /\ OffOK(flash', kept, cut')
    <3>1. PICK d \in BOOLEAN : d = cut' /\ Noticed(cut, s, d)
      BY <2>5, Zenon DEF Noticed
    <3>2. /\ [flash EXCEPT ![q] = s] \in [SlotIdx -> Slot]
          /\ OffOK([flash EXCEPT ![q] = s], kept, d)
      BY <3>1, <2>2, <2>3, <2>4, <1>4, <1>5, TornOff, Zenon
    <3> QED
      BY <3>1, <3>2, <1>2, Zenon
  <2> QED
    BY <2>5, <2>6, <1>1, <1>4, ToOff, Zenon
<1>7. CASE pc = "rewrite"
  <2>1. RewriteOK(tbl, flash, cfgIdx, kept, cut)
    BY <1>7 DEF Inv
  <2>2. /\ OffOK(flash, kept, TRUE) /\ Cardinality(Bonded(flash)) < MaxNum
        /\ \A i \in SlotIdx : i < q <=> flash[i].mark # "blank"
    BY <2>1, <1>4, RewriteToOff, Zenon
  <2>3. cut' = TRUE /\ TRUE \in BOOLEAN /\ Noticed(TRUE, s, TRUE)
    BY <1>2, <1>7 DEF Noticed
  <2> HIDE DEF q
  <2>4. flash' \in [SlotIdx -> Slot] /\ OffOK(flash', kept, TRUE)
    BY <2>2, <2>3, <1>2, <1>4, <1>5, TornOff, Zenon
  <2> QED
    BY <2>3, <2>4, <1>1, <1>4, ToOff, Zenon
<1> QED
  BY <1>6, <1>7

(* A step that changes nothing.                                            *)
LEMMA StutterStep == ASSUME Inv, UNCHANGED vars PROVE Inv'
  BY DEF Inv, vars, TypeOK, RunOK, RewriteOK, OffOK, Ordered, Distinct, Match, Idxs, Devices,
         Bonded

(* Every step keeps the invariant.                                         *)
LEMMA InvStep == ASSUME Inv, [Next]_vars PROVE Inv'
<1>1. CASE Next
  <2>1. \/ Boot \/ Erase \/ Rewrite \/ StoreNew \/ DeleteAll \/ PowerFail \/ PowerFailInProgram
        \/ \E a \in Addr : Add(a) \/ Delete(a)
    BY <1>1, Zenon DEF Next
  <2> QED
    BY <2>1, BootStep, EraseStep, RewriteStep, StoreNewStep, DeleteAllStep, PowerFailStep,
       PowerFailInProgramStep, AddStep, DeleteStep, Zenon
<1>2. CASE UNCHANGED vars
  BY <1>2, StutterStep, Zenon
<1> QED
  BY <1>1, <1>2

(* The inductive invariant holds throughout.                               *)
LEMMA Invariance == Spec => []Inv
<1>1. Init => Inv
  BY InvInit
<1>2. Inv /\ [Next]_vars => Inv'
  BY InvStep
<1> QED
  BY <1>1, <1>2, PTL DEF Spec

-----------------------------------------------------------------------------
(* flash_init never finds more bond marks than the table has places,       *)
(* however often and whenever the power failed, so the while(1) behind its *)
(* "we think it's code bug" is never reached.                              *)
THEOREM NeverHangs == Spec => []NoHang
<1>1. Inv => NoHang
  BY DEF Inv, NoHang
<1> QED
  BY <1>1, Invariance, PTL

(* While the device runs, user_tbl_slaveMac is what flash_init would read  *)
(* from the sector: the same records, in the same order, with the same     *)
(* addresses, none of them behind user_bond_slave_flash_cfg_idx.  Only     *)
(* where a power failure left bytes of an address without a mark may the   *)
(* sector have garbage for an address of the table, never another peer's.  *)
THEOREM TableIsTheSector == Spec => []RamMirrorsFlash
<1>1. Inv => RamMirrorsFlash
  <2> SUFFICES ASSUME Inv PROVE RamMirrorsFlash
    OBVIOUS
  <2>1. TypeOK
    BY DEF Inv
  <2>2. ASSUME pc = "run"
        PROVE  /\ Idxs(tbl) = Bonded(flash)
               /\ \A j, k \in 1..Len(tbl) : j < k => tbl[j].idx < tbl[k].idx
               /\ \A i \in Bonded(flash) : i <= cfgIdx
               /\ Match(tbl, flash, cut)
    <3>1. RunOK(tbl, flash, cfgIdx, kept, cut)
      BY <2>2 DEF Inv
    <3>2. Idxs(tbl) = Bonded(flash) /\ Ordered(tbl) /\ Match(tbl, flash, cut)
          /\ \A i \in SlotIdx : i <= cfgIdx <=> flash[i].mark # "blank"
      BY <3>1, Zenon DEF RunOK
    <3>3. ASSUME NEW i \in Bonded(flash) PROVE i <= cfgIdx
      <4>1. i \in SlotIdx /\ flash[i].mark # "blank"
        BY DEF Bonded
      <4> QED
        BY <4>1, <3>2, Zenon
    <3> QED
      BY <3>2, <3>3, Zenon DEF Ordered
  <2> QED
    BY <2>1, <2>2, Zenon DEF RamMirrorsFlash, Match
<1> QED
  BY <1>1, Invariance, PTL

(* No device that was deleted or overwritten is in the table again, after  *)
(* any number of restarts and torn records.                                *)
THEOREM DeletedStaysDeleted == Spec => []NeverComesBack
<1>1. Inv => NeverComesBack
  <2> SUFFICES ASSUME Inv PROVE NeverComesBack
    OBVIOUS
  <2>1. TypeOK /\ pc # "hang"
    BY DEF Inv
  <2>2. pc = "off" \/ pc \in {"run", "erase", "store", "delall"} \/ pc = "rewrite"
    BY <2>1 DEF TypeOK
  <2>3. CASE pc = "off"
    <3>1. tbl = <<>>
      BY <2>3 DEF Inv
    <3>2. Devices(tbl) = {}
      BY <3>1 DEF Devices
    <3> QED
      BY <3>2 DEF NeverComesBack
  <2>4. CASE pc \in {"run", "erase", "store", "delall"}
    BY <2>4, Zenon DEF Inv, RunOK, NeverComesBack, NoPeerAddr
  <2>5. CASE pc = "rewrite"
    BY <2>5, Zenon DEF Inv, RewriteOK, NeverComesBack, NoPeerAddr
  <2> QED
    BY <2>2, <2>3, <2>4, <2>5
<1> QED
  BY <1>1, Invariance, PTL

(* Unless the power failed during a rewrite, or tore a record into one     *)
(* that counts as free but is not blank, every device that was added and   *)
(* neither deleted nor overwritten is in the table.                        *)
THEOREM BondsSurvive == Spec => []StaysBonded
<1>1. Inv => StaysBonded
  <2> SUFFICES ASSUME Inv, pc = "run", ~cut PROVE kept \subseteq Devices(tbl)
    BY Zenon DEF StaysBonded
  <2>1. RunOK(tbl, flash, cfgIdx, kept, cut)
    BY DEF Inv
  <2> QED
    BY <2>1, Zenon DEF RunOK
<1> QED
  BY <1>1, Invariance, PTL
=============================================================================
