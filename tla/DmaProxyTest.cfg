SPECIFICATION TestSpec
CONSTANTS
  TxBuffers = 1
  RxBuffers = 3
  MaxTransfers = 7
CHECK_DEADLOCK FALSE
INVARIANTS TestTypeOK CleanExit RingInStep
PROPERTIES ProcessEnds
