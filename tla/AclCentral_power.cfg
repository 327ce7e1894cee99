SPECIFICATION Spec
CONSTANTS
  CentralMax = 1
  PeriphrMax = 0
  Handle = {8}
  Peer = {a, b}
  NoPeer = NoPeer
  Garbage = Garbage
  FlashNum = 2
  Refusers = {b}
  MaxOwed = 2
  MaxCuts = 2
INVARIANTS OneRecordPerPeer
PROPERTIES LateAnswerDropped
