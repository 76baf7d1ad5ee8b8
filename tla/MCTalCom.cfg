SPECIFICATION ComFairSpec
CONSTANTS
  Task = {terminal, other}
  Reader = terminal
  NULL = null
  RX_RING_BUFFER_SIZE = 2
  TX_RING_BUFFER_SIZE = 2
  BlockSize = {2, 3}
INVARIANTS
  ComTypeOK
  BytesInOrder
  RxSignalTruthful
  TxNeverStalls
PROPERTIES
  SendEnds
