\* A channel needs two connectors; the third is a further participant or a stranger
CONSTANT
  Connectors = {c1, c2, c3}
SPECIFICATION Spec
CHECK_DEADLOCK FALSE
INVARIANTS ActiveNeedsConsent AnnouncedIsAccepted OneDistributor
PROPERTY ClosedStopsDistribution
