SPECIFICATION Spec
CONSTANTS
  Symbols = 16
  Repeats = 5
  MaxWords = 4
PROPERTY LastSymbolSent
