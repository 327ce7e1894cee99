SPECIFICATION LinkSpec
CONSTANTS
  SlidWinSize = 1
  RxBufNum = 2
  TxFifoNum = 1
  PktType = {"EVT"}
  MaxPkt <- TwoOne
  LossType = {"LINK_CTRL", "EVT"}
  MaxLoss = 1
  MaxRestart = 1
INVARIANTS SeqAgree NoDuplicate
PROPERTIES LinkUp EveryPacketAnswered
