SPECIFICATION MCSpec
CONSTANTS
  W = 4
  MaxBurst = 2
  PageBeats = 4
  Beats = 7
  Lines = 5
  Requests <- AllRequests
  MaxCalls = 2
  MaxFree = 1
INVARIANTS CopyExact BurstLegal OkMeansCopied
PROPERTY CommandEnds
