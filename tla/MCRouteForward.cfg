CONSTANTS
  k1 = k1
  k2 = k2
  k3 = k3
  NoKernel = NoKernel
  Kernels = {k1, k2, k3}
  SenderKernels <- TwoSenders
  ReceiverKernels = {k3}
  Routes <- OneRoute
  Presences = {"subscribed", "online"}
  Targets = {k3}
  MaxPackets = 2
  MaxFaults = 1
  MaxDepth = 4
SPECIFICATION FairSpec
CHECK_DEADLOCK FALSE
INVARIANTS NoCircularForwarding DeliveredOnce SentBeforeReceived  RowsAgree
PROPERTY AcksArrive
