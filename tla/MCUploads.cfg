SPECIFICATION Spec
SYMMETRY UploadSymmetry
CONSTANTS
  s1 = s1
  s2 = s2
  f1 = f1
  f2 = f2
  f3 = f3
  u1 = u1
  u2 = u2
  u3 = u3
  x = x
  y = y
  Nil = Nil
  Sessions = {s1, s2}
  Files = {f1, f2, f3}
  FilesOf <- ThreeFiles
  NameOf <- Counted
  Stems = {x, y}
  Existing <- Leftovers
  Uploads = {u1, u2}
  Cancels = {c1}
  Chunks = 2
  TransferCap = 1
  MaxCrashes = 1
  MaxSkips = 1
  NameOverlap = FALSE
  TokenReuse = TRUE
INVARIANTS
  TypeOK
  StoreSound
  NoPartialMasquerade
  NoOrphanPart
PROPERTIES
  InboxPromise
  ReceivedFilesKept
  RemovedStaysRemoved
