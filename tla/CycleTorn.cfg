CONSTANTS
  R = 5
  MaxBurst = 1
  Trigger = 1
  PageBeats = 5
  FifoDepth = 1
  Reserve = 0
  Lossless = TRUE
  Turbo = FALSE
  Stalls = FALSE
  MaxRecords = 9
  Plain = {}
  C029 = {}
  FrameLen = 3
  LookaheadBatch = 2
  LateFrom = 2
  Gap = Gap
  None = None
SPECIFICATION FramesSpec
INVARIANT PublishedFramesWhole
CHECK_DEADLOCK FALSE
