SPECIFICATION Spec
CONSTANTS
  CHAR_BIT = 4
  BLOCK_SIZE = 2
  NDIRECT = 2
  INODE_START = 2
  INODE_NUM = 20
  BLOCK_NUM = 136
  MaxCalls = 3
  Sizes <- MCSizes
INVARIANT WrittenBlocksAreFreed
CHECK_DEADLOCK FALSE
