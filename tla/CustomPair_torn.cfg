SPECIFICATION Spec
CONSTANTS
  Addr = {a1, a2, a3}
  NoAddr = NoAddr
  Garbage = Garbage
  MaxNum = 2
  SlotNum = 6
  Torn <- AnyTorn
INVARIANTS
  NoHang
  RamMirrorsFlash
  NeverComesBack
  StaysBonded
