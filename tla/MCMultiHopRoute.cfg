CONSTANTS
  k1 = k1
  k2 = k2
  k3 = k3
  NoKernel = NoKernel
  NoFile = NoFile
  Self = k1
  Peers = {k2, k3}
  Names = {"route", "sample"}
  InitialFiles <- Directory
  Inputs <- Loadable
  MaxCommands = 2
  MaxFailures = 1
SPECIFICATION FairSetupSpec
CHECK_DEADLOCK FALSE
INVARIANTS StoredAsShown RouteConsistent
PROPERTY RouteGetsLinked
