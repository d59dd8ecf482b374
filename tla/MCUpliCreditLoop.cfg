CONSTANTS
  MinReset = 1
  CompleterModes = {TRUE, FALSE}
  Ports = {0, 1}
  VCs = 2
  Capacity <- MCTwoPorts
  Batch = 2
  Channel = "rd_rsp"
  Stable = 2
  ReturnDepth = 2
  MaxResets = 1
  CreditWidth = 3
SPECIFICATION LoopFairSpec
INVARIANTS
  CreditKept LoopHardwareInStep
PROPERTIES
  PortsStayUsable LoopImplementsReceipts
