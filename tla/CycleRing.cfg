CONSTANTS
  R = 4
  MaxBurst = 2
  Trigger = 2
  PageBeats = 2
  FifoDepth = 1
  Reserve = 0
  Lossless = TRUE
  Turbo = TRUE
  Stalls = TRUE
  MaxRecords = 6
  Plain = {3}
  C029 = {}
  FrameLen = 2
  LookaheadBatch = 1
  LateFrom = 1
  Gap = Gap
  None = None
SPECIFICATION FramesSpec
INVARIANTS BurstLegal WholeWithoutDrops
PROPERTIES ImplementsMarkedStream
CHECK_DEADLOCK FALSE
