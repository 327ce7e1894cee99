SPECIFICATION PromptSpec
CONSTANTS
  SlidWinSize = 1
  RxBufNum = 2
  TxFifoNum = 2
  PktType = {"EVT"}
  MaxPkt <- OneWay2
  LossType = {"ACK"}
  MaxLoss = 1
  MaxRestart = 0
PROPERTIES
  EveryPacketAnswered
