SPECIFICATION SerialSpec
CONSTANTS
  Clients = {c1, c2}
  Names = {n1, n2}
  CHAR_BIT = 2
  INODE_START = 1
  INODE_NUM = 5
  NoClient = NoClient
SYMMETRY ClientsAndNames
INVARIANTS
  TypeOK
  NamesAreUnique
  OneEntryPerInode
  AnswersAreCurrent
  SInv
PROPERTIES
  NoEntryLost
CHECK_DEADLOCK FALSE
