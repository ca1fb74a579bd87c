SPECIFICATION Spec
CONSTANTS
  Progs = {x1, x2}
  Forms = {f1, f2}
  Default = f1
  Hosts = {h1}
  None = None
  Torn = Torn
  Overlap = FALSE
  Before <- MCBefore
  MaxStarts = 3
  MaxKeys = 2
INVARIANTS
  SettingsTypeOK
  EditsLast
  IdentityKept
  ShownIsLive
CHECK_DEADLOCK FALSE
SYMMETRY MCSymmetry
