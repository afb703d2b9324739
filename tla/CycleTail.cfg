CONSTANTS
  R = 6
  MaxBurst = 2
  Trigger = 2
  PageBeats = 2
  FifoDepth = 1
  Reserve = 0
  Lossless = TRUE
  Turbo = TRUE
  Stalls = TRUE
  MaxRecords = 5
  Plain = {4, 5}
  C029 = {5}
  FrameLen = 3
  LookaheadBatch = 3
  Gap = Gap
  None = None
SPECIFICATION FairSpec
PROPERTY EverythingArrives
CHECK_DEADLOCK FALSE
