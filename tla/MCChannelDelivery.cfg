CONSTANTS
  snd = snd
  rcv = rcv
  rcv2 = rcv2
  Senders = {snd}
  Receivers = {rcv, rcv2}
  Others = {}
  Streams = {h1, h2}
  Caller <- OneCalls
  NoStream = NoStream
  TargetSets <- BroadcastOrOne
  QueueCap = 2
  StreamCap = 1
  BufferCap = 1
  ConnectorCap = 1
  MaxPackets = 2
  MayDisconnect = TRUE
  MayClose = TRUE
  MayExpire = TRUE
SPECIFICATION Spec
CHECK_DEADLOCK FALSE
INVARIANTS SubscribersConsistent BuffersConsistent StreamsConsistent
PROPERTY QueueMoves
