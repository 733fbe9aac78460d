CONSTANTS
  Connectors = {c1, c2}
  Exposed = {c2}
  Receivers = {c2, nobody}
  Handlers = {h1, h2}
  NoHandler = NoHandler
  ChanCap = 1
  MaxSessions = 2
  MaxMessages = 2
  Breaking = {c2}
  MayClose = TRUE
SPECIFICATION Spec
CHECK_DEADLOCK FALSE
INVARIANTS SessionsConsistent NothingLostWithoutBreak InOrderOfAcceptance
PROPERTY WaitingArrives
