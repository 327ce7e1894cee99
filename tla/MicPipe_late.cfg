SPECIFICATION Spec
CONSTANTS
  Half = 2
  TL_MIC_PACKET_BUFFER_NUM = 4
  MaxPass = 5
INVARIANTS WholeHalf InOrder
PROPERTIES PacketFifo
