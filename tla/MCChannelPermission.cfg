CONSTANTS
  cSend = cSend
  cRecv = cRecv
  cNew = cNew
  rSend = rSend
  rRecv = rRecv
  Connectors = {cSend, cRecv, cNew, rSend, rRecv}
  Callers = {cSend, cRecv, cNew}
  KernelID = KernelID
  Remote = Remote
  FounderSenders <- MCFounderSenders
  FounderReceivers <- MCFounderReceivers
  Approver = cSend
  Targets <- MCTargets
  MaxRequests = 2
SPECIFICATION Spec
CHECK_DEADLOCK FALSE
INVARIANTS RolesConsistent MembersWereInvited
PROPERTY DecisionIsFinal
