\* One image of each kind and two tagged Appletini ones (an upgrade and a
\* downgrade), two candidate files, one loss of power.
SPECIFICATION FairSpec
CONSTANTS
  AImages = {a1, a2}
  MImages = {m1}
  FImages = {f1}
  UImages = {u1}
  LImages = {l1}
  NoImage = NoImage
  Files = 2
  MaxCuts = 1
INVARIANT AuthorisedIsWhole
PROPERTIES ImplementsCatalog StartsFirmware
