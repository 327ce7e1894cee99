SPECIFICATION Spec
CONSTANTS
  SlidWinSize = 1
  RxBufNum = 2
  TxFifoNum = 2
  PktType = {"EVT"}
  MaxPkt <- NineOne
  LossType = {"ACK", "LINK_CTRL", "EVT"}
  MaxLoss = 1
  MaxRestart = 1
CONSTRAINT Traffic
INVARIANTS TypeOK NoGap WindowInFifo NoLoss HciRxBounded
PROPERTIES NeverBackwards LinkStaysUp
