SPECIFICATION FairSpec
CONSTANTS
  k1 = k1
  k2 = k2
  k3 = k3
  Kernels = {k1, k2, k3}
  Seeds <- NoSeeds
  Contacts <- Row
  MaxRequests = 2
  MaxFaults = 1
  MaxCommands = 2
CHECK_DEADLOCK FALSE
INVARIANT LinksConsistent
PROPERTIES NetworkSpec JoinedGetLinked
