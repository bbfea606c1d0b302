SPECIFICATION FairSpec
CONSTANTS
  Clients = {c1, c2}
  Names = {n1, n2}
  CHAR_BIT = 2
  INODE_START = 1
  INODE_NUM = 3
  NoClient = NoClient
INVARIANT
  IInv
PROPERTY
  EveryCallReturns
CHECK_DEADLOCK FALSE
