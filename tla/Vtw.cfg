SPECIFICATION MCSpec
CONSTANTS
  Stock = 2
  Depth = 4
  Margin = 1
  Write = {w1, w2}
  Access = {plain, barrier}
  Barriers = {barrier}
  None = None
  Quiet = 1
  Confirm = 2
  Grace = 2
INVARIANTS StopsInTime
PROPERTIES HandoverGuarded StockRunFirst ImplementsBusMaster AccessAnswered
  NoSilentRestart GlitchKeepsChoice ReleasesQuiet OffReachesCard
