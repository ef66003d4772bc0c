SPECIFICATION Spec
CONSTANTS
  Symbols = 16
  Sps = 4
  MaxWords = 3
  ONE = ONE
  ZERO = ZERO
  Packaged = TRUE
  Data <- MCData
INVARIANTS TypeOK InOrderWhileFed WordRecovered
