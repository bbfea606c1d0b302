SPECIFICATION Spec
CONSTANTS
  c1 = c1
  c2 = c2
  c3 = c3
  NoOwner = NoOwner
  Garbage = Garbage
  Empty = ""
  Clients <- MCClients
  Contents <- MCContents
  Size <- MCSize
INVARIANTS
  TypeOK
  OwnerHasTheCopy
  HandlersDoNotRace
  AttributesAreSet
  IInv
PROPERTY ImplementsRegister
