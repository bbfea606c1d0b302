SPECIFICATION SpuriousSpec
CONSTANTS
  a1 = a1
  a2 = a2
  b1 = b1
  b2 = b2
  c1 = c1
  Clients <- MCClients
  Threads <- MCThreads
  ClientOf <- MCClientOf
INVARIANT MutualExclusion
