SPECIFICATION FileSpec
CONSTANTS
  Clients = {c1, c2}
  Bytes = {0, 1}
  MaxSize = 2
  NoOwner = NoOwner
  Garbage = Garbage
  Empty <- MCEmpty
  Contents <- MCContents
  Size <- MCSize
SYMMETRY ClientsAreAlike
INVARIANTS
  ReadsAreExact
  FInv
PROPERTIES
  ChangesAreExact
CHECK_DEADLOCK FALSE
