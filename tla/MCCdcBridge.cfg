SPECIFICATION FairSpec
CONSTANTS
  Byte <- MCByte
  RingSize = 2
  Chunk = 2
  TxFifo = 1
  MaxSent = 3
INVARIANTS Crosswise PeerIsWoken
PROPERTIES AllDelivered
CHECK_DEADLOCK FALSE
