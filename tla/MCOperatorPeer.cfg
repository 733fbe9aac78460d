CONSTANTS
  k1 = k1
  k2 = k2
  Kernels = {k1, k2}
  Busy = {k1}
  OnlineConnectors = {a}
  MaxConns = 2
  MaxRelays = 1
  MaxFaults = 1
  MaxChanges = 1
SPECIFICATION PeerSpec
CHECK_DEADLOCK FALSE
INVARIANTS PeersConsistent RelayNotLost
PROPERTIES DialledEndIsNoticed DialledLinkSyncs
