\* FirmwareSwitch ends at the reset.
CHECK_DEADLOCK FALSE
SPECIFICATION MCSpec
CONSTANTS
  Roms = {r1, r2}
  BuiltIn = BuiltIn
  NoCall = NoCall
  GenMod = 3
  Size = 2
  Ring = 1
  MaxRedirects = 1
INVARIANTS NeverTorn HoldsReturned ResetLosesNothing EthernetHasOneUser CardLentAlone
PROPERTIES LatestDrawn DownloadIsWhole EthernetComesBack
