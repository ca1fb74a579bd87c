SPECIFICATION Spec
CONSTANTS
  d1 = d1
  d2 = d2
  n1 = n1
  n2 = n2
  Dirs <- MCDirs
  Names <- MCNames
  Foreign <- MCForeign
  MaxFiles = 5
INVARIANTS
  ManageTypeOK
  TargetsInDir
PROPERTIES
  DeletesOnlySeen
