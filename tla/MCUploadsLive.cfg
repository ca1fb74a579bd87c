SPECIFICATION LiveSpec
CONSTANTS
  s1 = s1
  s2 = s2
  f1 = f1
  f2 = f2
  f3 = f3
  u1 = u1
  u2 = u2
  u3 = u3
  x = x
  y = y
  Nil = Nil
  Sessions = {s1, s2}
  Files = {f1, f2}
  FilesOf <- TwoFiles
  NameOf <- Plain
  Stems = {x, y}
  Existing <- EmptyFolder
  Uploads = {u1, u2}
  Cancels = {c1}
  Chunks = 1
  TransferCap = 1
  MaxCrashes = 0
  MaxSkips = 0
  NameOverlap = FALSE
  TokenReuse = FALSE
INVARIANTS
  RowsTellOutcome
PROPERTIES
  UploadsEnd
  CancelledNeverLands
