SPECIFICATION Spec
CONSTANTS
  Devices = {d1, d2}
  ChannelCount = 2
  MaxProbes = 3
CHECK_DEADLOCK FALSE
INVARIANTS TypeOK ClassOutlivesNodes BoundMeansUsable
