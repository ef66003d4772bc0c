SPECIFICATION Spec
CONSTANTS
  Threads = {t1, t2}
  Buffers = {b1, b2}
  MaxAlone = 4
  MaxShared = 2
CHECK_DEADLOCK FALSE
INVARIANTS TypeOK AlwaysSucceeds
PROPERTIES SuccessMeansTransferred IoctlReturns
