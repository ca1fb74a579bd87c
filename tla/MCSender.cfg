SPECIFICATION FairSpec
CONSTANTS
  Sends = {x1, x2}
  Peers = {p1, p2}
  Files = {f1, f2}
  Nil = Nil
INVARIANTS
  SenderTypeOK
  OneInCharge
  ToldOnceEach
  FailsOnce
PROPERTIES
  HaltedNeverPushed
  SupersededEnds
