----------------------------- MODULE CustomPair -----------------------------
(***************************************************************************)
(* The bond table of vendor/common/custom_pair.c: up to                    *)
(* USER_PAIR_ACL_PERIPHR_MAX_NUM peripheral addresses in RAM, each with    *)
(* its 8-byte record in one flash sector.  Records are only added behind   *)
(* the last one and struck out by their mark; the sector is erased and     *)
(* rewritten at initialisation when more than half of it is used.          *)
(*                                                                         *)
(* Power may fail between any two flash commands, and in the middle of     *)
(* programming a record, which then holds anything in Torn.  A flash bit   *)
(* can be cleared but not set again by programming, so a record written    *)
(* over remains of another one is garbage.  A sector erase is taken to be  *)
(* indivisible.  Flash offsets are counted in 8-byte records.              *)
(***************************************************************************)
EXTENDS Integers, Sequences, FiniteSets

CONSTANTS
  Addr,     \* peer addresses (adr_type and address)
  NoAddr,   \* address bytes of an erased record
  Garbage,  \* address bytes that are no peer's
  MaxNum,   \* USER_PAIR_ACL_PERIPHR_MAX_NUM
  SlotNum,  \* FLASH_CUSTOM_PAIRING_MAX_SIZE / 8
  Torn      \* what a program command that was cut short may leave

(* The mark of a record: 0xff, ADR_BOND_MARK, or anything else *)
Mark == {"blank", "bond", "erased"}
Slot == [mark : Mark, adr : Addr \cup {NoAddr, Garbage}]
BlankSlot == [mark |-> "blank", adr |-> NoAddr]

ASSUME AddrAssumption == NoAddr \notin Addr /\ Garbage \notin Addr /\ NoAddr # Garbage
ASSUME MaxNumAssumption == MaxNum \in Nat \ {0}
ASSUME SlotNumAssumption == SlotNum \in Nat /\ SlotNum > 2 * MaxNum
ASSUME TornAssumption == Torn \subseteq [mark : Mark, adr : {NoAddr, Garbage}]

VARIABLES
  flash,   \* flash[i]: record i of the sector
  tbl,     \* user_tbl_slaveMac: the first curNum entries
  cfgIdx,  \* user_bond_slave_flash_cfg_idx / 8; every value past the sector is SlotNum
  pc,      \* the flash command that is next
  new,     \* address being added
  kept,    \* history: devices added and neither deleted nor overwritten
  cut      \* history: power failed while the sector was being rewritten, or
           \* left a record that counts as free but is not blank

vars == <<flash, tbl, cfgIdx, pc, new, kept, cut>>

SlotIdx == 0 .. SlotNum - 1
Entry   == [idx : SlotIdx, adr : Addr \cup {NoAddr, Garbage}]

Bonded(f)  == {i \in SlotIdx : f[i].mark = "bond"}
Idxs(t)    == {t[k].idx : k \in 1..Len(t)}
Devices(t) == {t[k].adr : k \in 1..Len(t)}

-----------------------------------------------------------------------------
(* flash_write_page of a whole record, and of ADR_ERASE_MARK *)
Program(s, a) == [mark |-> IF s.mark = "blank" THEN "bond" ELSE s.mark,
                  adr  |-> IF s.adr = NoAddr THEN a ELSE Garbage]
Strike(f, i) == [f EXCEPT ![i].mark = "erased"]

(* user_tbl_slave_mac_search *)
Search(a) == \E k \in 1..Len(tbl) : tbl[k].adr = a

Without(t, k) == SubSeq(t, 1, k - 1) \o SubSeq(t, k + 1, Len(t))

(* user_master_host_pairing_flash_init scans up to the first blank record *)
End(f) == CHOOSE e \in 0..SlotNum :
            /\ e < SlotNum => f[e].mark = "blank"
            /\ \A i \in SlotIdx : i < e => f[i].mark # "blank"

InOrder(S) == {ids \in [1..Cardinality(S) -> S] :
                 /\ \A j, k \in 1..Cardinality(S) : j < k => ids[j] < ids[k]
                 /\ {ids[k] : k \in 1..Cardinality(S)} = S}

-----------------------------------------------------------------------------
Init ==
  /\ flash = [i \in SlotIdx |-> BlankSlot]
  /\ tbl = <<>>
  /\ cfgIdx = -1
  /\ pc = "off"
  /\ new = NoAddr
  /\ kept = {}
  /\ cut = FALSE

(* user_master_host_pairing_flash_init up to user_bond_slave_flash_clean; *)
(* with too many bond marks the code stops in while(1).                   *)
Boot ==
  /\ pc = "off"
  /\ LET e == End(flash)
         B == {i \in Bonded(flash) : i < e}
     IN IF Cardinality(B) > MaxNum
        THEN pc' = "hang" /\ UNCHANGED <<tbl, cfgIdx>>
        ELSE /\ \E ids \in InOrder(B) :
                  tbl' = [k \in 1..Cardinality(B) |-> [idx |-> ids[k], adr |-> flash[ids[k]].adr]]
             /\ cfgIdx' = e - 1
             /\ pc' = IF e - 1 < SlotNum \div 2 THEN "run" ELSE "erase"
  /\ UNCHANGED <<flash, new, kept, cut>>

(* Variant with a fault: the records are not written again *)
EraseOnly ==
  /\ pc = "erase"
  /\ flash' = [i \in SlotIdx |-> BlankSlot]
  /\ cfgIdx' = -1
  /\ pc' = "run"
  /\ UNCHANGED <<tbl, new, kept, cut>>

(* user_bond_slave_flash_clean: flash_erase_sector, then record by record *)
Erase ==
  /\ pc = "erase"
  /\ flash' = [i \in SlotIdx |-> BlankSlot]
  /\ cfgIdx' = -1
  /\ pc' = IF tbl = <<>> THEN "run" ELSE "rewrite"
  /\ UNCHANGED <<tbl, new, kept, cut>>

(* Variant with a fault: the table keeps the old flash index *)
RewriteStaleIdx ==
  /\ pc = "rewrite"
  /\ LET i == cfgIdx + 1
     IN /\ flash' = [flash EXCEPT ![i] = Program(@, tbl[i + 1].adr)]
        /\ cfgIdx' = i
        /\ pc' = IF i + 1 = Len(tbl) THEN "run" ELSE "rewrite"
  /\ UNCHANGED <<tbl, new, kept, cut>>

Rewrite ==
  /\ pc = "rewrite"
  /\ LET i == cfgIdx + 1
     IN /\ flash' = [flash EXCEPT ![i] = Program(@, tbl[i + 1].adr)]
        /\ tbl' = [tbl EXCEPT ![i + 1].idx = i]
        /\ cfgIdx' = i
        /\ pc' = IF i + 1 = Len(tbl) THEN "run" ELSE "rewrite"
  /\ UNCHANGED <<new, kept, cut>>

(* The second half of user_tbl_slave_mac_add *)
Store(a) ==
  LET i == cfgIdx + 1
  IN IF i >= SlotNum
     THEN cfgIdx' = SlotNum /\ UNCHANGED <<flash, tbl, kept>>
     ELSE /\ cfgIdx' = i
          /\ flash' = [flash EXCEPT ![i] = Program(@, a)]
          /\ tbl' = Append(tbl, [idx |-> i, adr |-> a])
          /\ kept' = kept \cup {a}

(* Variant with a fault: the record of the overwritten device is not       *)
(* struck out.                                                             *)
AddNoStrike(a) ==
  /\ pc = "run"
  /\ ~Search(a)
  /\ IF Len(tbl) >= MaxNum
     THEN /\ tbl' = Tail(tbl)
          /\ kept' = kept \ {tbl[1].adr}
          /\ new' = a
          /\ pc' = "store"
          /\ UNCHANGED <<cfgIdx, flash>>
     ELSE Store(a) /\ UNCHANGED <<new, pc>>
  /\ UNCHANGED cut

(* user_tbl_slave_mac_add of a device the table does not hold; the oldest  *)
(* one makes room (user_tbl_slave_mac_delete_by_index(0)).                 *)
Add(a) ==
  /\ pc = "run"
  /\ ~Search(a)
  /\ IF Len(tbl) >= MaxNum
     THEN /\ flash' = Strike(flash, tbl[1].idx)
          /\ tbl' = Tail(tbl)
          /\ kept' = kept \ {tbl[1].adr}
          /\ new' = a
          /\ pc' = "store"
          /\ UNCHANGED cfgIdx
     ELSE Store(a) /\ UNCHANGED <<new, pc>>
  /\ UNCHANGED cut

StoreNew ==
  /\ pc = "store"
  /\ Store(new)
  /\ pc' = "run"
  /\ new' = NoAddr
  /\ UNCHANGED cut

(* Variant with a fault: the record is not struck out *)
DeleteNoStrike(a) ==
  /\ pc = "run"
  /\ \E k \in 1..Len(tbl) :
       /\ tbl[k].adr = a
       /\ \A j \in 1..k - 1 : tbl[j].adr # a
       /\ tbl' = Without(tbl, k)
  /\ kept' = kept \ {a}
  /\ UNCHANGED <<flash, cfgIdx, pc, new, cut>>

(* user_tbl_slave_mac_delete_by_adr of a device the table holds *)
Delete(a) ==
  /\ pc = "run"
  /\ \E k \in 1..Len(tbl) :
       /\ tbl[k].adr = a
       /\ \A j \in 1..k - 1 : tbl[j].adr # a
       /\ flash' = Strike(flash, tbl[k].idx)
       /\ tbl' = Without(tbl, k)
  /\ kept' = kept \ {a}
  /\ UNCHANGED <<cfgIdx, pc, new, cut>>

(* user_tbl_slave_mac_delete_all, one record per step *)
DeleteAll ==
  /\ pc \in {"run", "delall"}
  /\ tbl # <<>>
  /\ flash' = Strike(flash, tbl[1].idx)
  /\ tbl' = Tail(tbl)
  /\ kept' = kept \ {tbl[1].adr}
  /\ pc' = IF Len(tbl) = 1 THEN "run" ELSE "delall"
  /\ UNCHANGED <<cfgIdx, new, cut>>

(* The power fails: what is in RAM is lost *)
Off ==
  /\ pc' = "off"
  /\ tbl' = <<>>
  /\ cfgIdx' = -1
  /\ new' = NoAddr

PowerFail ==
  /\ pc # "off"
  /\ Off
  /\ cut' = (cut \/ pc = "rewrite")
  /\ UNCHANGED <<flash, kept>>

(* The power fails while a record is being programmed *)
PowerFailInProgram ==
  /\ pc \in {"store", "rewrite"} \/ (pc = "run" /\ Len(tbl) < MaxNum)
  /\ cfgIdx + 1 < SlotNum
  /\ \E s \in Torn :
       /\ flash' = [flash EXCEPT ![cfgIdx + 1] = s]
       /\ cut' = (cut \/ pc = "rewrite" \/ (s.mark = "blank" /\ s.adr # NoAddr))
  /\ Off
  /\ UNCHANGED kept

Next ==
  \/ Boot \/ Erase \/ Rewrite \/ StoreNew \/ DeleteAll
  \/ \E a \in Addr : Add(a) \/ Delete(a)
  \/ PowerFail \/ PowerFailInProgram

Spec == Init /\ [][Next]_vars

-----------------------------------------------------------------------------
(* Type invariant: the table has at most MaxNum entries, all of them in    *)
(* the sector.                                                             *)
TypeOK ==
  /\ flash \in [SlotIdx -> Slot]
  /\ tbl \in Seq(Entry)
  /\ Len(tbl) <= MaxNum
  /\ cfgIdx \in -1..SlotNum
  /\ pc \in {"off", "run", "erase", "rewrite", "store", "delall", "hang"}
  /\ new \in Addr \cup {NoAddr}
  /\ kept \subseteq Addr
  /\ cut \in BOOLEAN

(* The device never stops in the while(1) of flash_init ("slave mac in     *)
(* flash more than max, we think it's code bug"): whenever the power       *)
(* fails, also between striking out the oldest record and writing the new  *)
(* one, or half-way through a rewrite, the sector holds no more than       *)
(* MaxNum bond marks.                                                      *)
NoHang == pc # "hang"

(* While the device runs, the table is what a restart would find: each     *)
(* entry has its own bonded record, in the same order and with the same    *)
(* address.  The exception is a record written over bytes that a power     *)
(* failure left in a record without a mark: the table has the address,     *)
(* the sector garbage, and the restart finds garbage.  The state keeps its *)
(* shape all the while.                                                    *)
RamMirrorsFlash ==
  TypeOK /\ (pc = "run" =>
                /\ Idxs(tbl) = Bonded(flash)
                /\ \A j, k \in 1..Len(tbl) : j < k => tbl[j].idx < tbl[k].idx
                /\ \A i \in Bonded(flash) : i <= cfgIdx
                /\ \A k \in 1..Len(tbl) :
                     LET adr == flash[tbl[k].idx].adr
                     IN adr = tbl[k].adr \/ (cut /\ adr = Garbage))

(* A deleted or overwritten device never comes back, whatever happens to   *)
(* the power and however records are torn.                                 *)
NeverComesBack == Devices(tbl) \subseteq kept \cup {NoAddr, Garbage}

(* A bonded device stays bonded until it is deleted or overwritten, unless *)
(* the power failed during a rewrite (the erase comes before the records   *)
(* are written again), or left bytes of an address in a record without a   *)
(* mark, which the next record is written over.                            *)
StaysBonded == pc = "run" /\ ~cut => kept \subseteq Devices(tbl)
=============================================================================
