SPECIFICATION Spec
CONSTANTS
  Peers = {p1, p2}
  Texts = {t1}
  Paths = {d1}
  Files = {f1}
  MaxCalls = 3
  Nil = Nil
SYMMETRY Symmetry
INVARIANT KeysGoToCardShown
