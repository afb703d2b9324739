SPECIFICATION Spec
CONSTANTS
  Values = {v1, v2, v3}
  Defaults = v1
  NoFile = NoFile
  CutFile = CutFile
INVARIANT FlushLosesNothing
