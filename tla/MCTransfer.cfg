SPECIFICATION Spec
CONSTANTS
  Commands = {c1, c2}
  Files = {f1, f2}
  Nil = Nil
  MaxRestarts = 2
INVARIANTS
  TransferTypeOK
  CommandTellsTruth
  LeftBehindOnlyByFailure
SYMMETRY MCSymmetry
