SPECIFICATION Spec
CONSTANTS
  s1 = s1
  s2 = s2
  f1 = f1
  f2 = f2
  f3 = f3
  u1 = u1
  u2 = u2
  u3 = u3
  x = x
  y = y
  Nil = Nil
  Sessions = {s1}
  Files = {f1, f2, f3}
  FilesOf <- OneSession
  NameOf <- Counted
  Stems = {x, y}
  Existing <- TakenName
  Uploads = {u1, u2}
  Cancels = {}
  Chunks = 2
  TransferCap = 1
  MaxCrashes = 0
  MaxSkips = 0
  NameOverlap = TRUE
  TokenReuse = FALSE
INVARIANTS
  NoPartialMasquerade
