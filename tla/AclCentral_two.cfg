SPECIFICATION Spec
CONSTANTS
  CentralMax = 2
  PeriphrMax = 1
  Handle = {8, 16}
  Peer = {a, b}
  NoPeer = NoPeer
  Garbage = Garbage
  FlashNum = 1
  Refusers = {}
  MaxOwed = 2
  MaxCuts = 0
SYMMETRY Perms
INVARIANTS TypeOK RightHandles PendingIsLink ListMirrorsLinks
