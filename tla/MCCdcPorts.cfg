SPECIFICATION Spec
CONSTANTS
  Letter <- MCLetter
  Command <- MCCommand
  Size = 2
  TxRing = 1
  Reply = 2
  Sent <- MCSent
INVARIANTS NothingLost OneEventPerLine TextArrives
PROPERTIES FullForGood AnswersAll
CHECK_DEADLOCK FALSE
