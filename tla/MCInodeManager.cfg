SPECIFICATION Spec
CONSTANTS
  CHAR_BIT = 4
  BLOCK_SIZE = 2
  NDIRECT = 2
  INODE_START = 2
  INODE_NUM = 20
  BLOCK_NUM = 76
  MaxCalls = 6
  Sizes <- MCSizes
INVARIANTS
  IInv
  FilesReadBack
  NothingIsShared
CHECK_DEADLOCK FALSE
