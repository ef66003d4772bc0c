SPECIFICATION Spec
CONSTANTS
  Layouts <- MCLayouts
  Slots = 2
  MaxResets = 2
CHECK_DEADLOCK FALSE
INVARIANTS TypeOK ReleasedAreLoaded CompleteHandoff PlMatchesImage GoodNeverSkipped
PROPERTIES RunningUndisturbed FallbackBoots
