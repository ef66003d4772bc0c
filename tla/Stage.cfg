SPECIFICATION Spec
CONSTANTS
  N = 16
  MaxWords = 4
  SinkReady <- AnyReady
INVARIANTS TypeOK BeatsConserved OnlyLastBeatAtRisk
PROPERTIES StreamSpec
