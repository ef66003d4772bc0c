SPECIFICATION Spec
CONSTANTS
  MaxTransfer = 3
  Ranges <- MCRanges
  PllRetries = 10
  Built = {"QSPI24", "QSPI32", "NAND", "SD_0", "SD_1", "SD_LS", "EMMC", "USB"}
  MaxBlocks = 4
  WValues = 3
  MaxRestarts = 1
  Flashes <- MCFlashes
  DmaTran = 6
  NandBlocks = 4
  MaxFile = 3
  Bitstreams <- MCBitstreams
  ChunkSize = 5
  HdrSize = 3
  NoOfHashs = 4
CHECK_DEADLOCK FALSE
INVARIANTS TypeOK MemoryReady BootsNamedImage ContentFaithful PlGetsSignedData
PROPERTIES BringUpEnds
