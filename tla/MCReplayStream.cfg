\* A window longer than the low sequence bits can tell apart.
CONSTANTS
  SeqMax = 11
  LowMod = 4
  ReservedMod = 1
  Capacity = 5
  IgnoreWindow = 5
  BadLimit = 3
  UnexpectedMax = 15
  ReplayLimit = 8
  ExplicitPeriod = 4
  RequestCopies = 3
  GroupSpan = 1
  Peers = {A, B}
  Sources = {A}
  NoPayload = 99
  Latency = 2
  MaxFaults = 2
  Payloads = {0, 1, 2, 3, 4, 5, 6, 7, 8, 9, 10}
SPECIFICATION LockFairSpec
PROPERTIES
  InOrderDelivery
  EveryPayloadReleased
