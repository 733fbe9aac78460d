CONSTANTS
  s1 = s1
  s2 = s2
  a1 = a1
  a2 = a2
  r1 = r1
  sig = sig
  Streams = {s1, s2}
  Acks = {}
  AckSig <- SameAck
  Reports = {}
  NoFlow = NoFlow
  ScanLimit = 2
  StoreAttempts = 2
  MaxPackets = 1
  MaxInProgress = 2
  MaxFaults = 1
  MaxRestarts = 1
SPECIFICATION Spec
CHECK_DEADLOCK FALSE
SYMMETRY CallSymmetry
INVARIANTS ChainIsRooted  NoLostPredecessor EndedFlowIsSigned
