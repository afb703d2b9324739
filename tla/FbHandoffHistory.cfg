\* The exchange promised by FrameExchange, freshness included, and the
\* exclusion behind it.  Every interleaving of four publications.
SPECIFICATION HFairSpec
CONSTANTS
  Modes = {legacy, shr}
  SeqMod = 8
  MaxBehind = 7
  MaxFrames = 4
INVARIANTS NoTornRead ModeMatchesPixels
PROPERTIES ImplementsFrameExchange LatestFrameShown
