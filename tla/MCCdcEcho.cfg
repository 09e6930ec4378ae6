SPECIFICATION FairSpec
CONSTANTS
  Byte <- MCByte
  RingSize = 3
  Chunk = 2
  TxFifo = 3
  Room = 2
  MaxSent = 7
INVARIANTS ThrottleLifts
PROPERTIES EchoesBack AllEchoed
CHECK_DEADLOCK FALSE
