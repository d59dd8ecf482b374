CONSTANTS
  Words = {a, b}
  Zero = a
  Depth = 5
  MinReset = 1
  CompleterModes = {TRUE, FALSE}
  Ports = {0, 1}
  VCs = 2
  Capacity <- MCCapacity
  Batch = 2
  Channel = "req"
  Stable = 2
  ReturnDepth = 4
  MaxBeats = 4
  BurstCapacity <- MCBurstCapacity
SPECIFICATION BlocksSpec
INVARIANTS
  TypeOK CacheSuffices HardwareInStep BurstsKeepTheirTurns
PROPERTIES
  ImplementsQueue ImplementsReceipts
