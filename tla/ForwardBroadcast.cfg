CONSTANTS
  k1 = k1
  k2 = k2
  k3 = k3
  NoKernel = NoKernel
  Kernels = {k1, k2, k3}
  SenderKernels <- OneSender
  ReceiverKernels = {k2, k3}
  Routes <- OneRoute
  Presences = {"subscribed", "online"}
  Targets = {NoKernel}
  MaxPackets = 1
  MaxFaults = 0
  MaxDepth = 4
SPECIFICATION Spec
CHECK_DEADLOCK FALSE
INVARIANT NoCircularForwarding
