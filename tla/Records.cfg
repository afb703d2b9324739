\* Six sequence values, so that a few commits wrap the sequence (5 -> 1); three
\* Golden images: the factory one, an update and a later one.
SPECIFICATION MCSpec
CONSTANTS
  Values = {v1, v2, v3}
  NoRecord = NoRecord
  Half = 3
  Defaults = v1
  NoFile = NoFile
  CutFile = CutFile
  Goldens = {g1, g2, g3}
  NoImage = NoImage
  MaxCuts = 3
INVARIANT AlwaysBootable
PROPERTIES ImplementsAtomicRecord ImplementsSavedSettings
  RepairResumes ImplementsAtomicGolden
