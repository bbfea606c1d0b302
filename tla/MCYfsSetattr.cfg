SPECIFICATION FileSpec
CONSTANTS
  Clients = {c1, c2}
  Bytes = {0, 1}
  MaxSize = 1
  NoOwner = NoOwner
  Garbage = Garbage
  Empty <- MCEmpty
  Contents <- MCContents
  Size <- MCSize
INVARIANT SetattrSetsTheSize
