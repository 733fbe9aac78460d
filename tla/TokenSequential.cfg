\* One registration at a time, the command only while the kernel is down; crashes anywhere
CONSTANTS
  Tokens = {t1, t2}
  Connectors = {c1, c2}
  NoConnector = NoConnector
  NoToken = NoToken
  MaxInFlight = 1
  CliWhileServing = FALSE
SPECIFICATION Spec
SYMMETRY TokenSymmetry
CHECK_DEADLOCK FALSE
INVARIANTS   BoundTokenHonored
