SPECIFICATION HandoffSpec
CONSTANTS
  Images <- MCImages
  DdrUnits = 64
CHECK_DEADLOCK FALSE
INVARIANTS HandoffTypeOK LoadedIntact StartsInItsApplication
PROPERTIES PmuRamQuiet LoadEnds
